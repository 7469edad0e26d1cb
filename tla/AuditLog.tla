------------------------------ MODULE AuditLog ------------------------------
(***************************************************************************)
(* What a session recording promises to the session that writes it: the    *)
(* interface AuditWriter of lib/events/auditwriter.go.  An event that the  *)
(* writer has accepted is kept in memory until it is confirmed, the        *)
(* recording is a prefix of what was accepted, it holds every confirmed    *)
(* event, and once it is complete it does not change.                      *)
(***************************************************************************)
EXTENDS Naturals, Sequences

CONSTANTS
    Events,         \* indexes of events
    NoRecording     \* there is no complete recording

VARIABLES
    log,        \* events accepted, by index
    confirmed,  \* how many of them the writer no longer keeps
    recording   \* what can be played back, once it is complete

logVars == <<log, confirmed, recording>>

LogInit ==
    /\ log = <<>>
    /\ confirmed = 0
    /\ recording = NoRecording

Accept ==
    /\ \E index \in Events : log' = Append(log, index)
    /\ UNCHANGED <<confirmed, recording>>

\* Nothing that the recording lacks is confirmed.
Confirm ==
    /\ confirmed' \in confirmed..Len(log)
    /\ recording # NoRecording => confirmed' <= Len(recording)
    /\ UNCHANGED <<log, recording>>

Complete ==
    /\ recording = NoRecording
    /\ \E n \in confirmed..Len(log) : recording' = SubSeq(log, 1, n)
    /\ UNCHANGED <<log, confirmed>>

LogNext == Accept \/ Confirm \/ Complete

LogSpec == LogInit /\ [][LogNext]_logVars
=============================================================================
