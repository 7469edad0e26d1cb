---------------------------- MODULE MCAuditStream ----------------------------
(* One session with a few events, streams that break and are resumed. *)
EXTENDS AuditStream

\* ProtoReader event by event: it remembers the last index that it has returned.
Follows(i, read) == read = <<>> \/ i > Last(read)

Read(parts) ==
    FoldLeft(LAMBDA read, i : IF Follows(i, read) THEN Append(read, i) ELSE read,
             <<>>, FlattenSeq(parts))

\* What is played back, against the reader, for up to three parts of up to two
\* events each.
ASSUME PlayBackIsRead ==
    LET part == UNION {[1..n -> Events] : n \in 0..2}
    IN  \A m \in 0..3 : \A parts \in [1..m -> part] : PlayBack(parts) = Read(parts)
=============================================================================
