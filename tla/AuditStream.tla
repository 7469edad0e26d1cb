----------------------------- MODULE AuditStream -----------------------------
(***************************************************************************)
(* The recording of one session: AuditWriter (lib/events/auditwriter.go)   *)
(* in the process that runs the session, the gRPC stream to an auth server *)
(* (api/client/auditstreamer.go, CreateAuditStream of                      *)
(* lib/auth/grpcserver.go), ProtoStream there (lib/events/stream.go), the  *)
(* multipart upload it writes (lib/events/filesessions/filestream.go), the *)
(* UploadCompleter (lib/events/complete.go) and the ProtoReader that plays *)
(* the recording back.                                                     *)
(*                                                                         *)
(* When a stream breaks, the writer resumes it, on the same or on another  *)
(* auth server, and replays what was not confirmed; the old ProtoStream    *)
(* still flushes what it has.  Streams are numbered in the order in which  *)
(* the writer opens them, events by the index that setupEvent gives them,  *)
(* and the upload that stream s creates has the number s.                  *)
(***************************************************************************)
EXTENDS Integers, FiniteSets, Sequences, SequencesExt

CONSTANTS
    Emitters,       \* emitters of events at a time
    NetSize,        \* events on the way to the server
    MaxEvents,      \* bound: events of the session
    MaxStreams,     \* bound: streams opened
    MaxFaults,      \* bound: broken connections, crashes, failed parts and
                    \* events not taken in time
    Completers,     \* auth servers that look for uploads to complete
    NoRecording,    \* there is no complete recording
    NoPart          \* no part is being uploaded

ASSUME AuditAssumption ==
    /\ Emitters \in Nat \ {0} /\ NetSize \in Nat \ {0}
    /\ MaxEvents \in Nat /\ MaxStreams \in Nat \ {0} /\ MaxFaults \in Nat
    /\ Completers \in Nat \ {0}

Streams == 1..MaxStreams
Uploads == Streams
Events == 0..(MaxEvents - 1)

VARIABLES
    writer,     \* AuditWriter
    streams,    \* what each stream is made of
    stored,     \* the parts of each upload, by their numbers; <<>> is none
    sealed,     \* uploads that are completed
    recording,  \* the recording of the session
    checking,   \* what each completer has listed and is about to complete
    log,        \* history: events the writer accepted
    mishaps,    \* history: what may cost the recording something
    faults      \* faults so far

vars == <<writer, streams, stored, sealed, recording, checking, log, mishaps, faults>>

\* Of the completers, and of the properties.
others == <<checking, mishaps>>

\* pc: where processEvents is, or recoverStream for it; taken: events that were
\* sent or lost; upload: lastStatus.UploadID, 0 if there is no lastStatus;
\* replayed: events of the buffer sent again.
Writer == [pc : {"run", "resume", "await", "replay", "ended"},
           closing : BOOLEAN, backoff : BOOLEAN,
           taken : SUBSET Events, buffer : Seq(Events),
           upload : 0..MaxStreams, stream : Streams, replayed : Nat]

Part == [number : Nat \ {0}, events : Seq(Events) \ {<<>>}]

ASSUME NoPartAssumption == NoPart \notin Part

\* up: the connection; net, asked: events on the way, and the request to
\* complete behind them; phase, finish: of ProtoStream; slice, full: the
\* current slice, and whether it has reached its size; active: the part whose
\* upload holds the semaphore; done, failed: finished uploads that were not
\* reported; parts: completedParts; status: the status on its way back.
NoStream == [upload |-> 0, up |-> FALSE, net |-> <<>>, asked |-> FALSE,
             phase |-> "none", finish |-> "none",
             slice |-> <<>>, full |-> FALSE, last |-> 0, active |-> NoPart,
             done |-> <<>>, failed |-> FALSE, parts |-> {}, status |-> <<>>]

\* NewProtoStream: a stream that resumes an upload starts behind its parts and
\* leaves one number free for a flush of its predecessor.
LastPart(parts) == IF parts = {} THEN 0 ELSE Max(parts) + 1

\* Mutant: no number is left free.
NewStreamNoSkip(upload, parts) ==
    [NoStream EXCEPT !.upload = upload, !.up = TRUE, !.phase = "open",
                     !.parts = parts, !.status = <<-1>>,
                     !.last = IF parts = {} THEN 0 ELSE Max(parts)]

NewStream(upload, parts) ==
    [NoStream EXCEPT !.upload = upload, !.up = TRUE, !.phase = "open",
                     !.parts = parts, !.status = <<-1>>, !.last = LastPart(parts)]

NoCheck == [upload |-> 0, parts |-> {}]

AuditInit ==
    /\ writer = [pc |-> "run", closing |-> FALSE, backoff |-> FALSE,
                 taken |-> {}, buffer |-> <<>>, upload |-> 0, stream |-> 1,
                 replayed |-> 0]
    /\ streams = [s \in Streams |-> IF s = 1 THEN NewStream(1, {}) ELSE NoStream]
    /\ stored = [u \in Uploads |-> <<>>]
    /\ sealed = {}
    /\ recording = NoRecording
    /\ checking = [c \in 1..Completers |-> NoCheck]
    /\ log = <<>>
    /\ mishaps = {}
    /\ faults = 0

-----------------------------------------------------------------------------
(* Emitters of events and the writer *)

Current == streams[writer.stream]

\* An emitter gets the index of its event under the lock and then waits for the
\* writer: these are the events that can be next.
Waiting ==
    {i \in Events \ writer.taken :
        Cardinality({j \in Events \ writer.taken : j < i}) < Emitters}

\* The writer does not take an event in time: it is lost, and so is what is
\* emitted while the backoff lasts.
Lose(i) ==
    /\ i \in Waiting
    /\ writer.backoff \/ faults < MaxFaults
    /\ writer' = [writer EXCEPT !.taken = @ \cup {i}, !.backoff = TRUE]
    /\ faults' = IF writer.backoff THEN faults ELSE faults + 1
    /\ UNCHANGED <<streams, stored, sealed, recording, log, others>>

\* The writer keeps the event and sends it; an error makes it recover.
Send(i) ==
    /\ writer.pc = "run"
    /\ i \in Waiting
    /\ Current.up => Len(Current.net) < NetSize
    /\ log' = Append(log, i)
    /\ writer' = [writer EXCEPT !.taken = @ \cup {i}, !.backoff = FALSE,
                                !.buffer = Append(@, i),
                                !.pc = IF Current.up THEN "run" ELSE "resume"]
    /\ streams' = IF Current.up
                    THEN [streams EXCEPT ![writer.stream].net = Append(@, i)]
                    ELSE streams
    /\ UNCHANGED <<stored, sealed, recording, faults, others>>

\* How many events at the head of the buffer a status confirms.
ConfirmedBy(index, buffer) ==
    Max({n \in 0..Len(buffer) : \A i \in 1..n : buffer[i] <= index})

UnconfirmedLate(index, buffer) ==
    LET n == ConfirmedBy(index + 1, buffer)
    IN  IF index < 0 \/ n <= 1 THEN buffer ELSE SubSeq(buffer, n + 1, Len(buffer))

\* updateStatus; one confirmed event is not worth a removal.
Unconfirmed(index, buffer) ==
    LET n == ConfirmedBy(index, buffer)
    IN  IF index < 0 \/ n <= 1 THEN buffer ELSE SubSeq(buffer, n + 1, Len(buffer))

TakeStatus ==
    /\ writer.pc = "run"
    /\ Current.status # <<>>
    /\ writer' = [writer EXCEPT !.upload = Current.upload,
                                !.buffer = Unconfirmed(Head(Current.status), @)]
    /\ streams' = [streams EXCEPT ![writer.stream].status = <<>>]
    /\ UNCHANGED <<stored, sealed, recording, log, faults, others>>

\* The stream is done: it is closed and recovered.
StreamDone ==
    /\ writer.pc = "run"
    /\ ~Current.up
    /\ writer' = [writer EXCEPT !.pc = "resume"]
    /\ UNCHANGED <<streams, stored, sealed, recording, log, faults, others>>

PartsOf(u) == {n \in DOMAIN stored[u] : stored[u][n] # <<>>}

\* ListParts: a completed upload is removed with its parts.
Listed(u) == IF u \in sealed THEN {} ELSE PartsOf(u)

\* The numbers of the parts that a stream may still store without getting more
\* events: the one on its way, and one for each event that may fill a slice.
Ahead(stream) == Len(stream.net) + (IF stream.slice = <<>> THEN 0 ELSE 1)

MayStore(stream) ==
    IF stream.failed THEN {}
    ELSE (IF stream.active = NoPart THEN {} ELSE {stream.active.number})
         \cup (IF stream.phase = "open" THEN stream.last + 1 .. stream.last + Ahead(stream)
                                       ELSE {})

Predecessors(u) == {s \in 1..writer.stream : streams[s].upload = u}

\* NewProtoStream leaves one number behind the parts it knows of, for what its
\* predecessors flush: history records a resumption that came when one of them
\* could store more than that.
Crowded(u) ==
    \E s \in Predecessors(u) : \E n \in MayStore(streams[s]) : n > LastPart(Listed(u))

\* Without a status there is no upload to resume: a new one is created.
Resume ==
    /\ writer.pc = "resume"
    /\ writer.stream < MaxStreams
    /\ LET s == writer.stream + 1
           stream == IF writer.upload = 0
                       THEN NewStream(s, {})
                       ELSE NewStream(writer.upload, Listed(writer.upload))
       IN  /\ streams' = [streams EXCEPT ![s] = stream,
                                         ![writer.stream].status = <<>>]
           /\ writer' = [writer EXCEPT !.pc = "await", !.stream = s]
    /\ mishaps' = IF writer.upload # 0 /\ Crowded(writer.upload)
                    THEN mishaps \cup {"crowded"} ELSE mishaps
    /\ UNCHANGED <<stored, sealed, recording, checking, log, faults>>

\* The first status tells that the stream is there; it is not kept.
Resumed ==
    /\ writer.pc = "await"
    /\ Current.status # <<>>
    /\ writer' = [writer EXCEPT !.pc = IF writer.buffer = <<>> THEN "run" ELSE "replay",
                                !.replayed = 0]
    /\ streams' = [streams EXCEPT ![writer.stream].status = <<>>]
    /\ UNCHANGED <<stored, sealed, recording, log, faults, others>>

CanTimeOut == writer.pc = "await"

AwaitTimesOut ==
    /\ CanTimeOut
    /\ writer' = [writer EXCEPT !.pc = "resume"]
    /\ streams' = [streams EXCEPT ![writer.stream].up = FALSE]
    /\ UNCHANGED <<stored, sealed, recording, log, faults, others>>

\* All attempts failed, or the writer is closed between two of them.
CanGiveUp == writer.pc = "resume"

GiveUp ==
    /\ CanGiveUp
    /\ writer' = [writer EXCEPT !.pc = "ended", !.closing = TRUE, !.replayed = 0]
    /\ UNCHANGED <<streams, stored, sealed, recording, log, faults, others>>

CanReplay == writer.pc = "replay" /\ Current.up /\ Len(Current.net) < NetSize

Replay ==
    /\ CanReplay
    /\ streams' = [streams EXCEPT ![writer.stream].net =
                      Append(@, writer.buffer[writer.replayed + 1])]
    /\ writer' = IF writer.replayed + 1 = Len(writer.buffer)
                    THEN [writer EXCEPT !.pc = "run", !.replayed = 0]
                    ELSE [writer EXCEPT !.replayed = @ + 1]
    /\ UNCHANGED <<stored, sealed, recording, log, faults, others>>

\* A stream that breaks while the buffer is replayed is not resumed again.
CanFail == writer.pc = "replay" /\ ~Current.up

ReplayFails ==
    /\ CanFail
    /\ writer' = [writer EXCEPT !.pc = "ended", !.closing = TRUE, !.replayed = 0]
    /\ UNCHANGED <<streams, stored, sealed, recording, log, faults, others>>

\* The session ends.
Close ==
    /\ ~writer.closing
    /\ writer' = [writer EXCEPT !.closing = TRUE]
    /\ UNCHANGED <<streams, stored, sealed, recording, log, faults, others>>

\* The writer asks the server to complete the stream and does not wait for it.
CanFinish == writer.pc = "run" /\ writer.closing

Finish ==
    /\ CanFinish
    /\ writer' = [writer EXCEPT !.pc = "ended"]
    /\ streams' = [streams EXCEPT ![writer.stream].asked = Current.up]
    /\ UNCHANGED <<stored, sealed, recording, log, faults, others>>

-----------------------------------------------------------------------------
(* The auth server: the gRPC handler and ProtoStream *)

\* startUpload: the slice gets the next number and, unless another upload holds
\* the semaphore, is on its way.
Started(stream) ==
    [stream EXCEPT !.last = @ + 1,
                   !.active = [number |-> stream.last + 1, events |-> stream.slice],
                   !.slice = <<>>,
                   !.full = FALSE]

\* The slice takes the event.  If it has reached its size it is uploaded, and the
\* stream takes nothing else until that has begun.
CanReceive(s) == streams[s].phase = "open" /\ ~streams[s].full /\ streams[s].net # <<>>

Receive(s) ==
    /\ CanReceive(s)
    /\ LET taken == [streams[s] EXCEPT !.net = Tail(@),
                                       !.slice = Append(@, Head(streams[s].net))]
       IN  \/ streams' = [streams EXCEPT ![s] = taken]
           \/ streams' = [streams EXCEPT ![s] =
                 IF taken.active = NoPart THEN Started(taken)
                 ELSE [taken EXCEPT !.full = TRUE]]
    /\ UNCHANGED <<writer, stored, sealed, recording, log, faults, others>>

\* A stream that was cancelled refuses what is sent to it.
CanRefuse(s) ==
    /\ streams[s].phase = "cancelled"
    /\ streams[s].up
    /\ streams[s].net # <<>> \/ streams[s].asked

HandlerFails(s) ==
    /\ CanRefuse(s)
    /\ streams' = [streams EXCEPT ![s].up = FALSE, ![s].net = <<>>]
    /\ UNCHANGED <<writer, stored, sealed, recording, log, faults, others>>

\* The slice is full, or nothing was added to it for a while.
CanStart(s) ==
    streams[s].phase = "open" /\ streams[s].slice # <<>> /\ streams[s].active = NoPart

StartUpload(s) ==
    /\ CanStart(s)
    /\ streams' = [streams EXCEPT ![s] = Started(streams[s])]
    /\ UNCHANGED <<writer, stored, sealed, recording, log, faults, others>>

\* The last slice is uploaded, and completeStream waits for the uploads.
Drained(stream, finish) ==
    LET last == IF stream.slice = <<>> THEN stream ELSE Started(stream)
    IN  [last EXCEPT !.phase = "drain", !.finish = finish, !.net = <<>>,
                     !.asked = FALSE, !.last = 0, !.parts = IF finish = "flush" THEN {} ELSE @]

Drains(s) ==
    /\ streams[s].phase = "open"
    /\ ~streams[s].full
    /\ streams[s].slice # <<>> => streams[s].active = NoPart

\* The handler returns, and its deferred call flushes and closes the stream.
CanFlush(s) == Drains(s) /\ ~streams[s].up

Flush(s) ==
    /\ CanFlush(s)
    /\ streams' = [streams EXCEPT ![s] = Drained(streams[s], "flush")]
    /\ UNCHANGED <<writer, stored, sealed, recording, log, faults, others>>

CanComplete(s) == Drains(s) /\ streams[s].net = <<>> /\ streams[s].asked

Complete(s) ==
    /\ CanComplete(s)
    /\ streams' = [streams EXCEPT ![s] = Drained(streams[s], "complete")]
    /\ UNCHANGED <<writer, stored, sealed, recording, log, faults, others>>

Upload(part, ok) ==
    [number |-> part.number, index |-> Max(ToSet(part.events)), ok |-> ok]

\* UploadPart overwrites a part of the same number.
WithPart(part, parts) ==
    [n \in 1..Max({part.number, Len(parts)}) |->
        CASE n = part.number -> part.events
          [] n # part.number /\ n \in DOMAIN parts -> parts[n]
          [] OTHER -> <<>>]

CanStore(s) ==
    streams[s].active # NoPart /\ streams[s].upload \notin sealed /\ ~streams[s].failed

PartStored(s) ==
    /\ CanStore(s)
    /\ LET part == streams[s].active
       IN  /\ stored' = [stored EXCEPT ![streams[s].upload] = WithPart(part, @)]
           /\ streams' = [streams EXCEPT ![s].active = NoPart,
                                         ![s].done = Append(@, Upload(part, TRUE))]
           /\ mishaps' = IF part.number \in PartsOf(streams[s].upload)
                           THEN mishaps \cup {"overwritten"} ELSE mishaps
    /\ UNCHANGED <<writer, sealed, recording, checking, log, faults>>

\* The upload is gone, or the storage fails for longer than the retries last.
CanMiss(s) == streams[s].active # NoPart /\ (CanStore(s) => faults < MaxFaults)

PartFails(s) ==
    /\ CanMiss(s)
    /\ faults' = IF CanStore(s) THEN faults + 1 ELSE faults
    /\ streams' = [streams EXCEPT ![s].active = NoPart, ![s].failed = TRUE,
                                  ![s].done = Append(@, Upload(streams[s].active, FALSE))]
    /\ UNCHANGED <<writer, stored, sealed, recording, log, others>>

\* A status that finds the channel full, or the connection gone, is dropped.
StatusSent(stream, index) ==
    IF stream.up /\ stream.status = <<>> THEN <<index>> ELSE stream.status

\* Mutant: nobody takes the uploads of a stream that is being closed.
CanReportOpen(s, k) ==
    streams[s].phase = "open" /\ ~streams[s].full /\ k \in DOMAIN streams[s].done

\* Finished uploads are reported in any order; an error ends an open stream and
\* is passed over in a stream that is being closed.  (The parts are only of use to
\* the stream that completes the upload.)
CanReport(s, k) ==
    streams[s].phase \in {"open", "drain"} /\ ~streams[s].full /\ k \in DOMAIN streams[s].done

Report(s, k) ==
    /\ CanReport(s, k)
    /\ LET stream == [streams[s] EXCEPT !.done = RemoveAt(@, k)]
           upload == streams[s].done[k]
       IN  \/ /\ upload.ok
              /\ streams' = [streams EXCEPT ![s] =
                    [stream EXCEPT !.parts = IF stream.finish = "flush" THEN @
                                             ELSE @ \cup {upload.number},
                                   !.status = StatusSent(stream, upload.index)]]
           \/ /\ ~upload.ok
              /\ streams' = [streams EXCEPT ![s] =
                    IF stream.phase = "drain" THEN stream
                    ELSE [stream EXCEPT !.phase = "cancelled", !.slice = <<>>,
                                        !.done = <<>>, !.parts = {}, !.last = 0]]
    /\ UNCHANGED <<writer, stored, sealed, recording, log, faults, others>>

\* What ProtoReader makes of the parts: it skips events that do not follow the
\* last one that it has read, so that those remain with smaller ones before them
\* only, by their places in the parts.
Before(p, j, q, k) == p < q \/ (p = q /\ j < k)
Played(parts) ==
    {i \in Events : \E q \in DOMAIN parts : \E k \in DOMAIN parts[q] :
        /\ parts[q][k] = i
        /\ \A p \in DOMAIN parts : \A j \in DOMAIN parts[p] :
             Before(p, j, q, k) => parts[p][j] < i}

\* It reads them in increasing order.
Ordered(read) ==
    [n \in 1..Cardinality(read) |->
        CHOOSE i \in read : Cardinality({j \in read : j <= i}) = n]
PlayBack(parts) == Ordered(Played(parts))

ASSUME NoRecordingAssumption == \A read \in SUBSET Events : NoRecording # Ordered(read)

\* CompleteUpload empties the file of the recording, copies the parts into it and
\* removes the upload.  Of an upload that was completed before there are no parts to
\* copy, and the recording stays empty.
Only(numbers, parts) == [n \in DOMAIN parts |-> IF n \in numbers THEN parts[n] ELSE <<>>]

Seal(u, numbers) ==
    /\ sealed' = sealed \cup {u}
    /\ recording' = IF u \in sealed THEN <<>> ELSE PlayBack(Only(numbers, stored[u]))

Again(u) == IF u \in sealed THEN {"again"} ELSE {}

\* Only a status on its way outlives the stream.
Gone(s, phase) == [NoStream EXCEPT !.upload = streams[s].upload, !.phase = phase,
                                   !.status = streams[s].status]

\* Mutant: uploads that have finished are not waited for.
CanCloseEarly(s) == streams[s].phase = "drain" /\ streams[s].active = NoPart

\* completeStream: uploads are over; the upload is completed from the parts
\* that this stream knows of.
CanClose(s) ==
    streams[s].phase = "drain" /\ streams[s].active = NoPart /\ streams[s].done = <<>>

Closed(s) ==
    /\ CanClose(s)
    /\ LET u == streams[s].upload
       IN  IF streams[s].finish = "complete" /\ streams[s].parts # {}
             THEN Seal(u, streams[s].parts) /\ mishaps' = mishaps \cup Again(u)
             ELSE UNCHANGED <<sealed, recording, mishaps>>
    /\ streams' = [streams EXCEPT ![s] = Gone(s, "closed")]
    /\ UNCHANGED <<writer, stored, checking, log, faults>>

-----------------------------------------------------------------------------
(* Faults, and the completer *)

Disconnect(s) ==
    /\ faults < MaxFaults
    /\ streams[s].up
    /\ streams' = [streams EXCEPT ![s].up = FALSE]
    /\ faults' = faults + 1
    /\ UNCHANGED <<writer, stored, sealed, recording, log, others>>

\* The auth server dies with what it has in memory.
Crash(s) ==
    /\ faults < MaxFaults
    /\ streams[s].phase \in {"open", "drain"}
    /\ streams' = [streams EXCEPT ![s] = Gone(s, "dead")]
    /\ faults' = faults + 1
    /\ UNCHANGED <<writer, stored, sealed, recording, log, others>>

\* A cancelled stream may still be writing a part.
Idle(s) == streams[s].phase \notin {"open", "drain"} /\ streams[s].active = NoPart

\* The completer of an auth server goes by the age of an upload alone: it lists the
\* parts of any that was not completed, whoever is still at work on it, and then
\* completes the upload from these parts.
CanList(c, u) == checking[c] = NoCheck /\ Listed(u) # {}

ListUpload(c, u) ==
    /\ CanList(c, u)
    /\ checking' = [checking EXCEPT ![c] = [upload |-> u, parts |-> Listed(u)]]
    /\ UNCHANGED <<writer, streams, stored, sealed, recording, log, mishaps, faults>>

CanCheck(c) == checking[c] # NoCheck

\* History records that a part was stored in the meantime and is left out.
CheckUpload(c) ==
    /\ CanCheck(c)
    /\ LET u == checking[c].upload
       IN  /\ Seal(u, checking[c].parts)
           /\ mishaps' = mishaps \cup Again(u)
                           \cup (IF checking[c].parts = PartsOf(u) THEN {} ELSE {"missed"})
    /\ checking' = [checking EXCEPT ![c] = NoCheck]
    /\ UNCHANGED <<writer, streams, stored, log, faults>>

-----------------------------------------------------------------------------
WriterNext ==
    \/ \E i \in Events : Send(i)
    \/ TakeStatus \/ StreamDone \/ Resume \/ Resumed \/ AwaitTimesOut \/ GiveUp
    \/ Replay \/ ReplayFails \/ Finish

ServerNext(s) ==
    \/ Receive(s) \/ HandlerFails(s) \/ Flush(s) \/ Complete(s)
    \/ StartUpload(s) \/ PartStored(s) \/ PartFails(s) \/ Closed(s)
    \/ \E k \in 1..MaxEvents : Report(s, k)

AuditNext ==
    \/ Close
    \/ \E i \in Events : Lose(i)
    \/ WriterNext
    \/ \E s \in Streams : ServerNext(s) \/ Disconnect(s) \/ Crash(s)
    \/ \E c \in 1..Completers : CheckUpload(c) \/ \E u \in Uploads : ListUpload(c, u)

AuditSpec == AuditInit /\ [][AuditNext]_vars

-----------------------------------------------------------------------------
(* Properties *)

Finished == [number : Nat \ {0}, index : Events, ok : BOOLEAN]

StreamRecord ==
    [upload : 0..MaxStreams, up : BOOLEAN, net : Seq(Events), asked : BOOLEAN,
     phase : {"none", "open", "drain", "cancelled", "closed", "dead"},
     finish : {"none", "flush", "complete"},
     slice : Seq(Events), full : BOOLEAN, last : Nat,
     active : Part \cup {NoPart},
     done : Seq(Finished),
     failed : BOOLEAN, parts : SUBSET Nat, status : Seq(Events \cup {-1})]

\* Type invariant of the writer, of the streams and of the storage.
TypeOK ==
    /\ writer \in Writer
    /\ streams \in [Streams -> StreamRecord]
    /\ \A s \in Streams : Len(streams[s].net) <= NetSize /\ Len(streams[s].status) <= 1
    /\ stored \in [Uploads -> Seq(Seq(Events))]
    /\ sealed \subseteq Uploads
    /\ checking \in [1..Completers -> [upload : Uploads, parts : SUBSET Nat] \cup {NoCheck}]
    /\ log \in Seq(Events)
    /\ mishaps \subseteq {"crowded", "overwritten", "missed", "again"}
    /\ faults \in 0..MaxFaults

Confirmed == Len(log) - Len(writer.buffer)

\* The writer takes the events in the order of their indexes.  Concurrent emitters
\* may break it: EmitAuditEvent sets the index under a lock and sends without one.
InOrder == \A m, n \in DOMAIN log : m < n => log[m] < log[n]

\* What the writer has dropped from its buffer (updateStatus) can be played back
\* from the parts of its upload: however streams break, flush late and are resumed,
\* it is in a part, and no part with a later event comes before.  This is so until a
\* part takes the number of another, by a late flush (stream.go:280), or the emitters
\* send events out of order (auditwriter.go:559), and for whatever else happens.
ConfirmedStored ==
    InOrder /\ "overwritten" \notin mishaps =>
        \A n \in 1..Confirmed :
            log[n] \in Played(stored[IF writer.upload = 0 THEN 1 ELSE writer.upload])

\* The number that NewProtoStream leaves free protects what a stream and its
\* successors store from one late flush (stream.go:280-298), however many streams
\* the upload has had: a part takes the number of another only after a resumption
\* that came when a predecessor could store more than the one part.
SkipProtects == "overwritten" \in mishaps => "crowded" \in mishaps

\* What the recording of one session is made of: one upload with parts, none of
\* which took the number of another, completed once and with all that was stored
\* when it was, of events that came in order.
OneUpload == \A u, v \in Uploads : PartsOf(u) # {} /\ PartsOf(v) # {} => u = v

Undisturbed ==
    InOrder /\ OneUpload /\ mishaps \cap {"overwritten", "missed", "again"} = {}

\* As long as that is so, every step is one of AuditLog (Complete of ProtoStream and
\* CheckUploads of the completer): the recording is a prefix of the accepted events,
\* it has every confirmed event, also those that are confirmed after an early
\* completion, and it is never replaced.
Abstract == INSTANCE AuditLog WITH confirmed <- Confirmed
Recorded ==
    Abstract!LogInit /\ [][Undisturbed' => Abstract!LogNext]_<<log, Confirmed, recording>>

\* What a closed session does by itself: the goroutines of the writer and of the
\* servers, the flush of a slice to which nothing is added, and the completer.  Each
\* Can... is the whole guard of its action: the rest of the action has an outcome.
Progress ==
    \/ CanFinish \/ CanGiveUp \/ CanTimeOut \/ CanReplay \/ CanFail
    \/ \E s \in Streams :
          \/ CanReceive(s) \/ CanRefuse(s) \/ CanStart(s) \/ CanFlush(s) \/ CanComplete(s)
          \/ CanStore(s) \/ CanMiss(s) \/ CanClose(s)
          \/ \E k \in 1..MaxEvents : CanReport(s, k)
    \/ \E c \in 1..Completers : CanCheck(c) \/ \E u \in Uploads : CanList(c, u)

\* A session that is closed (Close of AuditWriter) does not get stuck, be it in
\* the middle of a recovery, of a replay or of a stream that is broken: once
\* nothing can run any more, the writer has ended, its streams are drained, and the
\* upload that it left has been completed if it has parts, by its stream or, if that
\* could not do it, by the completer.  (Completed a second time it is an empty
\* recording.)  No behavior is infinite, so that every closed session comes to this
\* end.
SessionEnds ==
    writer.closing /\ ~Progress =>
        /\ writer.pc = "ended"
        /\ \A s \in Streams : Idle(s)
        /\ PartsOf(Current.upload) # {} => recording # NoRecording
=============================================================================
