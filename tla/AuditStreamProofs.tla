-------------------------- MODULE AuditStreamProofs --------------------------
(***************************************************************************)
(* Theorems about AuditStream: its types; what a late flush can overwrite  *)
(* (SkipProtects); what the writer forgets can be played back              *)
(* (ConfirmedStored); the recording is what AuditLog promises (Recorded);  *)
(* a closed session does not get stuck (SessionEnds).                      *)
(***************************************************************************)
EXTENDS AuditStream, FiniteSetTheorems, WellFoundedInduction, TLAPS

-----------------------------------------------------------------------------
(* Sequences, maxima *)

\* A set of numbers with a bound has its maximum.
LEMMA MaxOf ==
    ASSUME NEW k \in Nat, NEW P, P \subseteq 0..k, P # {}
    PROVE  Max(P) \in P /\ \A i \in P : i <= Max(P)
<1> DEFINE Left == {k - i : i \in P}
           Shorter == OpToRel(<, Nat)
<1>1. \A i \in P : i \in Nat /\ i <= k /\ k - i \in Nat
  OBVIOUS
<1>2. Left \subseteq Nat /\ Left # {}
  BY <1>1
<1>3. IsWellFoundedOn(Shorter, Nat)
  BY NatLessThanWellFounded
<1>4. \A x, y \in Nat : <<y, x>> \in Shorter <=> y < x
  BY DEF OpToRel
<1> HIDE DEF Left, Shorter
<1>5. PICK d \in Left : \A y \in Left : ~(<<y, d>> \in Shorter)
  BY <1>2, <1>3, WFMin
<1>6. \A y \in Left : ~(y < d)
  BY <1>2, <1>4, <1>5
<1>7. PICK m \in P : d = k - m
  BY <1>5 DEF Left
<1>8. ASSUME NEW i \in P PROVE m >= i
  <2>1. k - i \in Left
    BY DEF Left
  <2>2. ~(k - i < k - m)
    BY <1>6, <1>7, <2>1
  <2>3. QED
    BY <1>1, <2>2
<1>9. Max(P) \in P /\ \A i \in P : Max(P) >= i
  BY <1>8 DEF Max
<1>10. QED
  BY <1>1, <1>9

\* The larger of two numbers.
LEMMA MaxPair ==
    ASSUME NEW a \in Nat, NEW b \in Nat
    PROVE  Max({a, b}) \in {a, b} /\ a <= Max({a, b}) /\ b <= Max({a, b})
<1>1. {a, b} \subseteq 0..(a + b) /\ {a, b} # {} /\ a + b \in Nat
  OBVIOUS
<1>2. QED
  BY <1>1, MaxOf

\* The places of a sequence that got one more element.
LEMMA AppendAt ==
    ASSUME NEW S, NEW q \in Seq(S), NEW e \in S
    PROVE  /\ DOMAIN q = 1..Len(q) /\ DOMAIN Append(q, e) = 1..(Len(q) + 1) /\ Len(q) \in Nat
           /\ \A j \in 1..Len(q) : Append(q, e)[j] = q[j]
           /\ Append(q, e)[Len(q) + 1] = e
OBVIOUS

\* The elements of a sequence that got one more.
LEMMA SetAppend ==
    ASSUME NEW S, NEW q \in Seq(S), NEW e \in S
    PROVE  /\ ToSet(Append(q, e)) = ToSet(q) \cup {e}
           /\ Append(q, e) \in Seq(S) /\ Append(q, e) # <<>> /\ Len(Append(q, e)) = Len(q) + 1
<1>1. /\ DOMAIN q = 1..Len(q) /\ DOMAIN Append(q, e) = 1..(Len(q) + 1) /\ Len(q) \in Nat
      /\ \A j \in 1..Len(q) : Append(q, e)[j] = q[j]
      /\ Append(q, e)[Len(q) + 1] = e
  OBVIOUS
<1>2. ToSet(Append(q, e)) = ToSet(q) \cup {e}
  BY <1>1 DEF ToSet
<1>3. Append(q, e) \in Seq(S) /\ Len(Append(q, e)) = Len(q) + 1
  OBVIOUS
<1>4. Append(q, e) # <<>>
  BY <1>1, <1>3
<1>5. QED
  BY <1>2, <1>3, <1>4

\* The elements of a sequence without its head.
LEMMA SetTail ==
    ASSUME NEW S, NEW q \in Seq(S), q # <<>>
    PROVE  /\ ToSet(q) = ToSet(Tail(q)) \cup {Head(q)}
           /\ Head(q) \in S /\ Tail(q) \in Seq(S) /\ Len(Tail(q)) = Len(q) - 1 /\ Len(q) > 0
<1>1. /\ DOMAIN q = 1..Len(q) /\ Len(q) \in Nat /\ Len(q) > 0
      /\ DOMAIN Tail(q) = 1..(Len(q) - 1)
      /\ Head(q) = q[1] /\ \A j \in 1..(Len(q) - 1) : Tail(q)[j] = q[j + 1]
      /\ Tail(q) \in Seq(S) /\ Head(q) \in S /\ Len(Tail(q)) = Len(q) - 1
  OBVIOUS
<1>2. ASSUME NEW j \in 1..Len(q), j # 1
      PROVE  j - 1 \in 1..(Len(q) - 1) /\ q[j] = Tail(q)[j - 1]
  <2>1. j - 1 \in 1..(Len(q) - 1) /\ (j - 1) + 1 = j
    BY <1>1, <1>2
  <2>2. QED
    BY <1>1, <2>1
<1>3. ASSUME NEW x \in ToSet(q) PROVE x \in ToSet(Tail(q)) \cup {Head(q)}
  <2>1. PICK j \in 1..Len(q) : x = q[j]
    BY <1>1 DEF ToSet
  <2>2. CASE j = 1
    BY <1>1, <2>1, <2>2
  <2>3. CASE j # 1
    BY <1>1, <1>2, <2>1, <2>3 DEF ToSet
  <2>4. QED
    BY <2>2, <2>3
<1>4. \A j \in 1..(Len(q) - 1) : j + 1 \in 1..Len(q) /\ Tail(q)[j] = q[j + 1]
  BY <1>1
<1>5. ToSet(Tail(q)) \cup {Head(q)} \subseteq ToSet(q)
  BY <1>1, <1>4 DEF ToSet
<1>6. QED
  BY <1>1, <1>3, <1>5

\* The empty sequence has no elements.
LEMMA SetEmpty == ToSet(<<>>) = {}
BY DEF ToSet

\* The elements of a sequence are of its type.
LEMMA SetOf ==
    ASSUME NEW S, NEW q \in Seq(S)
    PROVE  ToSet(q) \subseteq S /\ \A j \in DOMAIN q : q[j] \in ToSet(q)
BY DEF ToSet

\* What is removed from a sequence leaves the others.
LEMMA Removed ==
    ASSUME NEW S, NEW q \in Seq(S), NEW k \in DOMAIN q
    PROVE  /\ RemoveAt(q, k) \in Seq(S)
           /\ \A j \in DOMAIN RemoveAt(q, k) : \E i \in DOMAIN q : RemoveAt(q, k)[j] = q[i]
           /\ \A i \in DOMAIN q : i # k => \E j \in DOMAIN RemoveAt(q, k) : RemoveAt(q, k)[j] = q[i]
<1> DEFINE a == SubSeq(q, 1, k - 1)
           b == SubSeq(q, k + 1, Len(q))
<1>1. k \in 1..Len(q) /\ Len(q) \in Nat /\ DOMAIN q = 1..Len(q)
  OBVIOUS
<1>2. /\ a \in Seq(S) /\ Len(a) = k - 1 /\ \A j \in 1..(k - 1) : a[j] = q[j]
  BY <1>1
<1>3. /\ b \in Seq(S) /\ Len(b) = Len(q) - k /\ \A j \in 1..(Len(q) - k) : b[j] = q[j + k]
  BY <1>1
<1> HIDE DEF a, b
<1>4. /\ a \o b \in Seq(S) /\ Len(a \o b) = Len(q) - 1 /\ DOMAIN (a \o b) = 1..(Len(q) - 1)
  <2>1. a \o b \in Seq(S) /\ Len(a \o b) = Len(a) + Len(b)
    <3>1. a \in Seq(S) /\ b \in Seq(S)
      BY <1>2, <1>3
    <3>2. QED
      BY <3>1
  <2>2. Len(a) + Len(b) = Len(q) - 1
    BY <1>1, <1>2, <1>3
  <2>3. DOMAIN (a \o b) = 1..Len(a \o b)
    BY <2>1
  <2>4. QED
    BY <2>1, <2>2, <2>3
<1>5. \A j \in 1..(Len(q) - 1) : (a \o b)[j] = IF j <= k - 1 THEN a[j] ELSE b[j - (k - 1)]
  BY <1>1, <1>2, <1>3
<1>6. ASSUME NEW j \in 1..(Len(q) - 1) PROVE \E i \in 1..Len(q) : (a \o b)[j] = q[i]
  <2>1. CASE j <= k - 1
    <3>1. j \in 1..(k - 1) /\ j \in 1..Len(q)
      BY <1>1, <2>1
    <3>2. QED
      BY <1>2, <1>5, <2>1, <3>1
  <2>2. CASE ~(j <= k - 1)
    <3>1. /\ j - (k - 1) \in 1..(Len(q) - k) /\ (j - (k - 1)) + k = j + 1
          /\ j + 1 \in 1..Len(q)
      BY <1>1, <2>2
    <3>2. b[j - (k - 1)] = q[j + 1]
      BY <1>3, <3>1
    <3>3. QED
      BY <1>5, <2>2, <3>1, <3>2
  <2>3. QED
    BY <2>1, <2>2
<1>7. ASSUME NEW i \in 1..Len(q), i # k PROVE \E j \in 1..(Len(q) - 1) : (a \o b)[j] = q[i]
  <2>1. CASE i < k
    <3>1. i \in 1..(k - 1) /\ i \in 1..(Len(q) - 1) /\ i <= k - 1
      BY <1>1, <2>1
    <3>2. QED
      BY <1>2, <1>5, <3>1
  <2>2. CASE i > k
    <3>1. /\ i - 1 \in 1..(Len(q) - 1) /\ ~(i - 1 <= k - 1)
          /\ (i - 1) - (k - 1) = i - k /\ i - k \in 1..(Len(q) - k) /\ (i - k) + k = i
      BY <1>1, <2>2
    <3>2. (a \o b)[i - 1] = b[i - k]
      BY <1>5, <3>1
    <3>3. b[i - k] = q[i]
      BY <1>3, <3>1
    <3>4. QED
      BY <3>1, <3>2, <3>3
  <2>3. i < k \/ i > k
    BY <1>1, <1>7
  <2>4. QED
    BY <2>1, <2>2, <2>3
<1>8. QED
  BY <1>1, <1>4, <1>6, <1>7 DEF RemoveAt, a, b

-----------------------------------------------------------------------------
(* Types *)

\* The constants are numbers, and so are streams, uploads and events.
LEMMA Bounds ==
    /\ Emitters \in Nat /\ NetSize \in Nat /\ NetSize > 0 /\ MaxEvents \in Nat
    /\ MaxStreams \in Nat /\ MaxStreams > 0 /\ MaxFaults \in Nat
    /\ Streams \subseteq Nat /\ 1 \in Streams /\ Events \subseteq Nat
    /\ \A s \in Streams : s \in 1..MaxStreams /\ s \in Nat /\ s > 0 /\ s <= MaxStreams
    /\ \A i \in Events : i \in Nat /\ i >= 0
    /\ -1 \notin Events
BY AuditAssumption DEF Streams, Events

StreamTyped(t) == t \in StreamRecord /\ Len(t.net) <= NetSize /\ Len(t.status) <= 1

\* The fields of a stream.
LEMMA Fields ==
    ASSUME NEW t \in StreamRecord
    PROVE  /\ t.upload \in 0..MaxStreams /\ t.up \in BOOLEAN /\ t.net \in Seq(Events)
           /\ t.asked \in BOOLEAN
           /\ t.phase \in {"none", "open", "drain", "cancelled", "closed", "dead"}
           /\ t.finish \in {"none", "flush", "complete"}
           /\ t.slice \in Seq(Events) /\ t.full \in BOOLEAN /\ t.last \in Nat
           /\ t.active \in Part \cup {NoPart}
           /\ t.done \in Seq(Finished)
           /\ t.failed \in BOOLEAN /\ t.parts \in SUBSET Nat
           /\ t.status \in Seq(Events \cup {-1})
BY DEF StreamRecord

\* The part on its way has a number and events.
LEMMA ActivePart ==
    ASSUME NEW t \in StreamRecord, t.active # NoPart
    PROVE  /\ t.active \in Part /\ t.active.number \in Nat /\ t.active.number > 0
           /\ t.active.events \in Seq(Events) /\ t.active.events # <<>>
BY Fields DEF Part

\* Streams that are not there, are new, or have just begun an upload are typed.
LEMMA NoStreamType == StreamTyped(NoStream)
<1>1. <<>> \in Seq(Events) /\ Len(<<>>) = 0 /\ <<>> \in Seq(Events \cup {-1})
      /\ <<>> \in Seq(Finished)
  OBVIOUS
<1>2. NoStream \in StreamRecord
  BY <1>1, Bounds DEF StreamRecord, NoStream
<1>3. QED
  BY <1>1, <1>2, Bounds DEF StreamTyped, NoStream

\* A new stream starts behind the parts it knows of.
LEMMA LastPartOf ==
    ASSUME NEW k \in Nat, NEW parts, parts \subseteq 1..k
    PROVE  LastPart(parts) \in Nat /\ \A n \in parts : n <= LastPart(parts)
<1>1. CASE parts = {}
  BY <1>1 DEF LastPart
<1>2. CASE parts # {}
  <2>1. parts \subseteq 0..k
    OBVIOUS
  <2>2. Max(parts) \in parts /\ \A n \in parts : n <= Max(parts)
    BY <1>2, <2>1, MaxOf
  <2>3. \A n \in parts : n \in Nat
    OBVIOUS
  <2>4. LastPart(parts) = Max(parts) + 1
    BY <1>2 DEF LastPart
  <2> DEFINE m == Max(parts)
  <2>5. m \in Nat /\ (\A n \in parts : n \in Nat /\ n <= m) /\ LastPart(parts) = m + 1
    BY <2>2, <2>3, <2>4
  <2> HIDE DEF m
  <2>6. QED
    BY <2>5
<1>3. QED
  BY <1>1, <1>2

LEMMA NewStreamType ==
    ASSUME NEW u \in 0..MaxStreams, NEW k \in Nat, NEW parts, parts \subseteq 1..k
    PROVE  StreamTyped(NewStream(u, parts))
<1>1. LastPart(parts) \in Nat
  BY LastPartOf
<1>2. <<-1>> \in Seq(Events \cup {-1}) /\ Len(<<-1>>) = 1
  OBVIOUS
<1>3. NoStream \in StreamRecord /\ Len(NoStream.net) <= NetSize
  BY NoStreamType DEF StreamTyped
<1>4. parts \in SUBSET Nat
  OBVIOUS
<1>5. NewStream(u, parts) \in StreamRecord
  BY <1>1, <1>2, <1>3, <1>4 DEF NewStream, StreamRecord
<1>6. NewStream(u, parts).net = NoStream.net /\ NewStream(u, parts).status = <<-1>>
  BY DEF NewStream, NoStream
<1>7. QED
  BY <1>2, <1>3, <1>5, <1>6 DEF StreamTyped

LEMMA StartedType ==
    ASSUME NEW t \in StreamRecord, t.slice # <<>>
    PROVE  /\ Started(t) \in StreamRecord
           /\ Started(t).active = [number |-> t.last + 1, events |-> t.slice]
           /\ Started(t).active \in Part /\ Started(t).active # NoPart
<1>1. t.last + 1 \in Nat \ {0} /\ t.slice \in Seq(Events) \ {<<>>}
  BY Fields
<1>2. [number |-> t.last + 1, events |-> t.slice] \in Part
  BY <1>1 DEF Part
<1>3. <<>> \in Seq(Events)
  OBVIOUS
<1>4. Started(t) \in StreamRecord
  BY <1>1, <1>2, <1>3 DEF Started, StreamRecord
<1>5. Started(t).active = [number |-> t.last + 1, events |-> t.slice]
  BY DEF Started, StreamRecord
<1>6. QED
  BY <1>2, <1>4, <1>5, NoPartAssumption

\* An upload reports the last event of its part.
LEMMA UploadType ==
    ASSUME NEW part \in Part, NEW ok \in BOOLEAN
    PROVE  /\ Upload(part, ok) \in Finished
           /\ Upload(part, ok).index \in ToSet(part.events)
           /\ \A i \in ToSet(part.events) : i <= Upload(part, ok).index
           /\ Upload(part, ok).ok = ok
<1>1. part.number \in Nat \ {0} /\ part.events \in Seq(Events) /\ part.events # <<>>
  BY DEF Part
<1>2. ToSet(part.events) \subseteq Events /\ ToSet(part.events) # {}
  <2>1. 1 \in DOMAIN part.events
    BY <1>1
  <2>2. part.events[1] \in ToSet(part.events) /\ ToSet(part.events) \subseteq Events
    BY <1>1, <2>1, SetOf
  <2>3. QED
    BY <2>2
<1>3. ToSet(part.events) \subseteq 0..MaxEvents
  BY <1>2, Bounds DEF Events
<1>4. /\ Max(ToSet(part.events)) \in ToSet(part.events)
      /\ \A i \in ToSet(part.events) : i <= Max(ToSet(part.events))
  BY <1>2, <1>3, Bounds, MaxOf
<1>5. QED
  BY <1>1, <1>2, <1>4 DEF Upload, Finished

\* What UploadPart makes of the parts.
LEMMA Uploaded ==
    ASSUME NEW part \in Part, NEW parts \in Seq(Seq(Events))
    PROVE  /\ WithPart(part, parts) \in Seq(Seq(Events))
           /\ part.number \in DOMAIN WithPart(part, parts)
           /\ WithPart(part, parts)[part.number] = part.events
           /\ DOMAIN parts \subseteq DOMAIN WithPart(part, parts)
           /\ \A n \in DOMAIN parts : n # part.number => WithPart(part, parts)[n] = parts[n]
           /\ \A n \in DOMAIN WithPart(part, parts) :
                 n # part.number /\ n \notin DOMAIN parts => WithPart(part, parts)[n] = <<>>
<1> DEFINE top == Max({part.number, Len(parts)})
<1>1. part.number \in Nat /\ part.number > 0 /\ part.events \in Seq(Events)
  BY DEF Part
<1>2. Len(parts) \in Nat /\ DOMAIN parts = 1..Len(parts) /\ \A n \in DOMAIN parts : parts[n] \in Seq(Events)
  OBVIOUS
<1>3. top \in Nat /\ part.number <= top /\ Len(parts) <= top
  BY <1>1, <1>2, MaxPair
<1> HIDE DEF top
<1>4. WithPart(part, parts) = [n \in 1..top |->
         CASE n = part.number -> part.events
           [] n # part.number /\ n \in DOMAIN parts -> parts[n]
           [] OTHER -> <<>>]
  BY DEF WithPart, top
<1>5. /\ DOMAIN WithPart(part, parts) = 1..top
      /\ \A n \in 1..top : WithPart(part, parts)[n] \in Seq(Events)
  BY <1>1, <1>2, <1>4
<1>6. WithPart(part, parts) \in [1..top -> Seq(Events)]
  BY <1>4, <1>5
<1>7. WithPart(part, parts) \in Seq(Seq(Events))
  BY <1>3, <1>6
<1>8. QED
  BY <1>1, <1>2, <1>3, <1>4, <1>5, <1>7

\* A step of stream s and of nothing else among the streams.
Moves(s) ==
    /\ StreamTyped(streams'[s])
    /\ streams' = [streams EXCEPT ![s] = streams'[s]]

LEMMA Typed ==
    ASSUME TypeOK, NEW s \in Streams
    PROVE  StreamTyped(streams[s]) /\ streams[s] \in StreamRecord
BY DEF TypeOK, StreamTyped

\* What a step makes of one stream.
LEMMA Moved ==
    ASSUME TypeOK, NEW s \in Streams, NEW r, StreamTyped(r),
           streams' = [streams EXCEPT ![s] = r]
    PROVE  Moves(s) /\ streams'[s] = r
<1>1. streams \in [Streams -> StreamRecord]
  BY DEF TypeOK
<1>2. streams'[s] = r
  BY <1>1
<1>3. QED
  BY <1>2 DEF Moves

\* An event moves from the connection into the slice.
LEMMA TakenType ==
    ASSUME NEW t, StreamTyped(t), t.net # <<>>
    PROVE  StreamTyped([t EXCEPT !.net = Tail(@), !.slice = Append(@, Head(t.net))])
<1> DEFINE r == [t EXCEPT !.net = Tail(@), !.slice = Append(@, Head(t.net))]
<1>1. t \in StreamRecord /\ t.net \in Seq(Events) /\ t.slice \in Seq(Events)
  BY Fields DEF StreamTyped
<1>2. Tail(t.net) \in Seq(Events) /\ Head(t.net) \in Events /\ Len(Tail(t.net)) = Len(t.net) - 1
      /\ Len(t.net) \in Nat
  BY <1>1, SetTail
<1>3. Append(t.slice, Head(t.net)) \in Seq(Events)
  BY <1>1, <1>2
<1>4. r \in StreamRecord
  BY <1>1, <1>2, <1>3 DEF StreamRecord
<1>5. r.net = Tail(t.net) /\ r.status = t.status
  BY <1>1 DEF StreamRecord
<1>6. QED
  BY <1>2, <1>4, <1>5, Bounds DEF StreamTyped

\* The slice becomes a part.
LEMMA StartedTyped ==
    ASSUME NEW t, StreamTyped(t), t.slice # <<>>
    PROVE  StreamTyped(Started(t))
<1>1. t \in StreamRecord /\ Started(t) \in StreamRecord
  BY StartedType DEF StreamTyped
<1>2. Started(t).net = t.net /\ Started(t).status = t.status
  BY <1>1 DEF Started, StreamRecord
<1>3. QED
  BY <1>1, <1>2 DEF StreamTyped

\* What each step of a stream does to its record, and that it stays typed.
LEMMA ReceiveMoves ==
    ASSUME TypeOK, NEW s \in Streams, Receive(s)
    PROVE  Moves(s)
<1> DEFINE t == streams[s]
           taken == [t EXCEPT !.net = Tail(@), !.slice = Append(@, Head(t.net))]
<1>1. StreamTyped(t) /\ t.net # <<>>
  BY Typed DEF Receive, CanReceive
<1>2. StreamTyped(taken)
  BY <1>1, TakenType
<1>3. taken.slice # <<>>
  <2>1. t \in StreamRecord /\ t.slice \in Seq(Events) /\ t.net \in Seq(Events)
    BY <1>1, Fields DEF StreamTyped
  <2>2. taken.slice = Append(t.slice, Head(t.net)) /\ Head(t.net) \in Events
    BY <1>1, <2>1, SetTail DEF StreamRecord
  <2>3. QED
    BY <2>1, <2>2, SetAppend
<1>4. StreamTyped(Started(taken))
  BY <1>2, <1>3, StartedTyped
<1>5. StreamTyped([taken EXCEPT !.full = TRUE])
  BY <1>2 DEF StreamTyped, StreamRecord
<1>6. \/ streams' = [streams EXCEPT ![s] = taken]
      \/ streams' = [streams EXCEPT ![s] = Started(taken)]
      \/ streams' = [streams EXCEPT ![s] = [taken EXCEPT !.full = TRUE]]
  BY DEF Receive, CanReceive
<1> HIDE DEF taken
<1>7. QED
  BY <1>2, <1>4, <1>5, <1>6, Moved

LEMMA HandlerFailsMoves ==
    ASSUME TypeOK, NEW s \in Streams, HandlerFails(s)
    PROVE  Moves(s)
<1> DEFINE t == streams[s]
           r == [t EXCEPT !.up = FALSE, !.net = <<>>]
<1>1. StreamTyped(t)
  BY Typed
<1>2. <<>> \in Seq(Events) /\ Len(<<>>) = 0
  OBVIOUS
<1>3. r \in StreamRecord /\ r.net = <<>> /\ r.status = t.status
  BY <1>1, <1>2 DEF StreamTyped, StreamRecord
<1>4. streams' = [streams EXCEPT ![s] = r]
  BY DEF HandlerFails, CanRefuse, TypeOK
<1> HIDE DEF r
<1>5. StreamTyped(r)
  BY <1>1, <1>2, <1>3, Bounds DEF StreamTyped
<1>6. QED
  BY <1>4, <1>5, Moved

LEMMA StartUploadMoves ==
    ASSUME TypeOK, NEW s \in Streams, StartUpload(s)
    PROVE  Moves(s)
<1>1. StreamTyped(Started(streams[s]))
  BY Typed, StartedTyped DEF StartUpload, CanStart
<1>2. QED
  BY <1>1, Moved DEF StartUpload, CanStart

\* A stream that is drained stays typed, whether its slice is empty or not.
LEMMA DrainedType ==
    ASSUME NEW t, StreamTyped(t), NEW finish \in {"flush", "complete"}
    PROVE  StreamTyped(Drained(t, finish))
<1>1. PICK q : q = IF t.slice = <<>> THEN t ELSE Started(t)
  OBVIOUS
<1>2. StreamTyped(q) /\ q \in StreamRecord
  BY <1>1, StartedTyped DEF StreamTyped
<1>3. PICK p : p = IF finish = "flush" THEN {} ELSE q.parts
  OBVIOUS
<1>4. p \in SUBSET Nat /\ <<>> \in Seq(Events) /\ Len(<<>>) = 0
  BY <1>2, <1>3, Fields
<1>5. PICK r : r = [q EXCEPT !.phase = "drain", !.finish = finish, !.net = <<>>,
                             !.asked = FALSE, !.last = 0, !.parts = p]
  OBVIOUS
<1>6. r = Drained(t, finish)
  BY <1>1, <1>3, <1>5 DEF Drained
<1>7. r \in StreamRecord /\ r.net = <<>> /\ r.status = q.status
  BY <1>2, <1>4, <1>5 DEF StreamRecord
<1>8. QED
  BY <1>2, <1>4, <1>6, <1>7, Bounds DEF StreamTyped

LEMMA FlushMoves ==
    ASSUME TypeOK, NEW s \in Streams, Flush(s)
    PROVE  Moves(s)
BY Typed, DrainedType, Moved DEF Flush, CanFlush

LEMMA CompleteMoves ==
    ASSUME TypeOK, NEW s \in Streams, Complete(s)
    PROVE  Moves(s)
BY Typed, DrainedType, Moved DEF Complete, CanComplete

\* An upload that ends is reported, whatever came of it.
LEMMA FinishedType ==
    ASSUME NEW t, StreamTyped(t), t.active # NoPart, NEW ok \in BOOLEAN, NEW failed \in BOOLEAN
    PROVE  StreamTyped([t EXCEPT !.active = NoPart, !.failed = failed,
                                 !.done = Append(@, Upload(t.active, ok))])
<1> DEFINE r == [t EXCEPT !.active = NoPart, !.failed = failed,
                          !.done = Append(@, Upload(t.active, ok))]
<1>1. t \in StreamRecord /\ t.active \in Part
  BY ActivePart DEF StreamTyped
<1>2. Append(t.done, Upload(t.active, ok)) \in Seq(Finished)
  BY <1>1, Fields, UploadType, SetAppend
<1>3. r \in StreamRecord /\ r.net = t.net /\ r.status = t.status
  BY <1>1, <1>2 DEF StreamRecord
<1>4. QED
  BY <1>3 DEF StreamTyped

LEMMA PartStoredMoves ==
    ASSUME TypeOK, NEW s \in Streams, PartStored(s)
    PROVE  /\ Moves(s)
           /\ streams'[s] = [streams[s] EXCEPT !.active = NoPart,
                                !.done = Append(@, Upload(streams[s].active, TRUE))]
<1> DEFINE t == streams[s]
           r == [t EXCEPT !.active = NoPart, !.done = Append(@, Upload(t.active, TRUE))]
<1>1. StreamTyped(t) /\ t \in StreamRecord /\ t.active # NoPart
  BY Typed DEF PartStored, CanStore
<1>2. r = [t EXCEPT !.active = NoPart, !.failed = t.failed, !.done = Append(@, Upload(t.active, TRUE))]
  BY <1>1 DEF StreamRecord
<1>3. StreamTyped(r)
  BY <1>1, <1>2, FinishedType, Fields
<1>4. streams' = [streams EXCEPT ![s] = r]
  BY DEF PartStored, CanStore, TypeOK
<1> HIDE DEF r
<1>5. QED
  BY <1>3, <1>4, Moved DEF r

LEMMA PartFailsMoves ==
    ASSUME TypeOK, NEW s \in Streams, PartFails(s)
    PROVE  /\ Moves(s)
           /\ streams'[s] = [streams[s] EXCEPT !.active = NoPart, !.failed = TRUE,
                                !.done = Append(@, Upload(streams[s].active, FALSE))]
<1> DEFINE t == streams[s]
           r == [t EXCEPT !.active = NoPart, !.failed = TRUE, !.done = Append(@, Upload(t.active, FALSE))]
<1>1. StreamTyped(t) /\ t.active # NoPart
  BY Typed DEF PartFails, CanStore, CanMiss
<1>2. StreamTyped(r)
  BY <1>1, FinishedType
<1>3. streams' = [streams EXCEPT ![s] = r]
  BY DEF PartFails, CanStore, CanMiss, TypeOK
<1> HIDE DEF r
<1>4. QED
  BY <1>2, <1>3, Moved DEF r

\* At most one status is on its way.
LEMMA StatusType ==
    ASSUME NEW t, StreamTyped(t), NEW index \in Events
    PROVE  StatusSent(t, index) \in Seq(Events \cup {-1}) /\ Len(StatusSent(t, index)) <= 1
<1>1. t.status \in Seq(Events \cup {-1}) /\ Len(t.status) <= 1
  BY Fields DEF StreamTyped
<1>2. <<index>> \in Seq(Events \cup {-1}) /\ Len(<<index>>) = 1
  OBVIOUS
<1>3. StatusSent(t, index) = t.status \/ StatusSent(t, index) = <<index>>
  BY DEF StatusSent
<1>4. CASE StatusSent(t, index) = t.status
  BY <1>1, <1>4
<1>5. CASE StatusSent(t, index) = <<index>>
  BY <1>2, <1>5
<1>6. QED
  BY <1>3, <1>4, <1>5

\* What a stream becomes when it reports its k-th finished upload.
LEMMA ReportMoves ==
    ASSUME TypeOK, NEW s \in Streams, NEW k, Report(s, k)
    PROVE  /\ Moves(s) /\ k \in DOMAIN streams[s].done
           /\ \E stream \in StreamRecord : \E parts :
                 /\ stream = [streams[s] EXCEPT !.done = RemoveAt(streams[s].done, k)]
                 /\ \/ /\ streams[s].done[k].ok
                       /\ streams'[s] = [stream EXCEPT !.parts = parts,
                              !.status = StatusSent(stream, streams[s].done[k].index)]
                    \/ ~streams[s].done[k].ok /\ streams'[s] = stream
                    \/ /\ ~streams[s].done[k].ok
                       /\ streams'[s] = [stream EXCEPT !.phase = "cancelled", !.slice = <<>>,
                                                       !.done = <<>>, !.parts = {}, !.last = 0]
<1> DEFINE t == streams[s]
           stream == [t EXCEPT !.done = RemoveAt(@, k)]
           parts == IF stream.finish = "flush" THEN stream.parts
                                               ELSE stream.parts \cup {t.done[k].number}
           r == [stream EXCEPT !.parts = parts, !.status = StatusSent(stream, t.done[k].index)]
           c == [stream EXCEPT !.phase = "cancelled", !.slice = <<>>,
                                        !.done = <<>>, !.parts = {}, !.last = 0]
<1>1. StreamTyped(t) /\ t \in StreamRecord /\ k \in DOMAIN t.done
  BY Typed DEF Report, CanReport
<1>2. StreamTyped(stream)
  <2>1. RemoveAt(t.done, k) \in Seq(Finished)
    BY <1>1, Fields, Removed
  <2>2. stream \in StreamRecord /\ stream.net = t.net /\ stream.status = t.status
    BY <1>1, <2>1 DEF StreamRecord
  <2>3. QED
    BY <1>1, <2>2 DEF StreamTyped
<1>3. \/ t.done[k].ok /\ streams' = [streams EXCEPT ![s] = r]
      \/ ~t.done[k].ok /\ streams' = [streams EXCEPT ![s] = stream]
      \/ ~t.done[k].ok /\ streams' = [streams EXCEPT ![s] = c]
  BY DEF Report, CanReport
<1> HIDE DEF stream
<1>4. StreamTyped(r)
  <2>1. t.done[k] \in Finished /\ t.done[k].number \in Nat /\ t.done[k].index \in Events
    <3>1. t.done \in Seq(Finished)
      BY <1>1, Fields
    <3>2. t.done[k] \in Finished
      BY <1>1, <3>1
    <3>3. QED
      BY <3>2 DEF Finished
  <2>2. StatusSent(stream, t.done[k].index) \in Seq(Events \cup {-1}) /\ Len(StatusSent(stream, t.done[k].index)) <= 1
    BY <1>2, <2>1, StatusType
  <2>3. parts \in SUBSET Nat
    BY <1>2, <2>1, Fields DEF StreamTyped
  <2> HIDE DEF parts
  <2>4. /\ r \in StreamRecord /\ r.net = stream.net
        /\ r.status = StatusSent(stream, t.done[k].index)
    BY <1>2, <2>2, <2>3 DEF StreamRecord, StreamTyped
  <2>5. QED
    BY <1>2, <2>2, <2>4 DEF StreamTyped
<1>5. StreamTyped(c)
  <2>1. <<>> \in Seq(Events) /\ <<>> \in Seq(Finished)
    OBVIOUS
  <2>2. c \in StreamRecord /\ c.net = stream.net /\ c.status = stream.status
    BY <1>2, <2>1 DEF StreamRecord, StreamTyped
  <2>3. QED
    BY <1>2, <2>2 DEF StreamTyped
<1> HIDE DEF r, c
<1>6. \/ t.done[k].ok /\ streams'[s] = r /\ Moves(s)
      \/ ~t.done[k].ok /\ streams'[s] = stream /\ Moves(s)
      \/ ~t.done[k].ok /\ streams'[s] = c /\ Moves(s)
  BY <1>2, <1>3, <1>4, <1>5, Moved
<1>7. stream \in StreamRecord /\ stream = [t EXCEPT !.done = RemoveAt(t.done, k)]
  BY <1>2 DEF StreamTyped, stream
<1> HIDE DEF parts
<1>8. \/ t.done[k].ok /\ streams'[s] = [stream EXCEPT !.parts = parts, !.status = StatusSent(stream, t.done[k].index)]
      \/ ~t.done[k].ok /\ streams'[s] = stream
      \/ ~t.done[k].ok /\ streams'[s] = [stream EXCEPT !.phase = "cancelled", !.slice = <<>>,
                                        !.done = <<>>, !.parts = {}, !.last = 0]
  BY <1>6 DEF r, c
<1>9. Moves(s)
  BY <1>6
<1>10. QED
  BY <1>1, <1>7, <1>8, <1>9

\* Of a stream that is gone only a status is left.
LEMMA GoneType ==
    ASSUME TypeOK, NEW s \in Streams, NEW phase \in {"closed", "dead"}
    PROVE  /\ StreamTyped(Gone(s, phase))
           /\ Gone(s, phase).upload = streams[s].upload /\ Gone(s, phase).status = streams[s].status
           /\ Gone(s, phase).phase = phase /\ ~Gone(s, phase).up /\ ~Gone(s, phase).asked
           /\ Gone(s, phase).active = NoPart /\ Gone(s, phase).slice = <<>>
           /\ Gone(s, phase).net = <<>> /\ Gone(s, phase).done = <<>>
<1>1. streams[s] \in StreamRecord /\ StreamTyped(streams[s])
  BY Typed
<1>2. NoStream \in StreamRecord /\ Len(NoStream.net) <= NetSize
  BY NoStreamType DEF StreamTyped
<1>3. Gone(s, phase) \in StreamRecord
  BY <1>1, <1>2, Fields DEF Gone, StreamRecord
<1>4. Gone(s, phase).net = NoStream.net /\ Gone(s, phase).status = streams[s].status
  BY DEF Gone, NoStream
<1>5. StreamTyped(Gone(s, phase))
  BY <1>1, <1>2, <1>3, <1>4 DEF StreamTyped
<1>6. QED
  BY <1>5 DEF Gone, NoStream

LEMMA ClosedMoves ==
    ASSUME TypeOK, NEW s \in Streams, Closed(s)
    PROVE  Moves(s) /\ streams'[s] = Gone(s, "closed")
BY GoneType, Moved DEF Closed, CanClose

LEMMA CrashMoves ==
    ASSUME TypeOK, NEW s \in Streams, Crash(s)
    PROVE  Moves(s) /\ streams'[s] = Gone(s, "dead")
BY GoneType, Moved DEF Crash

\* A connection breaks.
LEMMA DownType ==
    ASSUME TypeOK, NEW s \in Streams, streams' = [streams EXCEPT ![s].up = FALSE]
    PROVE  Moves(s) /\ streams'[s] = [streams[s] EXCEPT !.up = FALSE]
<1> DEFINE r == [streams[s] EXCEPT !.up = FALSE]
<1>1. streams[s] \in StreamRecord /\ StreamTyped(streams[s])
  BY Typed
<1>2. r \in StreamRecord /\ r.net = streams[s].net /\ r.status = streams[s].status
  BY <1>1 DEF StreamRecord
<1>3. StreamTyped(r)
  BY <1>1, <1>2 DEF StreamTyped
<1>4. streams' = [streams EXCEPT ![s] = r]
  BY DEF TypeOK
<1> HIDE DEF r
<1>5. QED
  BY <1>3, <1>4, Moved DEF r

\* The fields of the writer.
LEMMA WriterFields ==
    ASSUME NEW w \in Writer
    PROVE  /\ w.pc \in {"run", "resume", "await", "replay", "ended"}
           /\ w.closing \in BOOLEAN /\ w.backoff \in BOOLEAN
           /\ w.taken \subseteq Events /\ w.buffer \in Seq(Events)
           /\ w.upload \in 0..MaxStreams /\ w.stream \in Streams /\ w.replayed \in Nat
BY DEF Writer

\* updateStatus drops a head of the buffer that the status confirms.
LEMMA Dropped ==
    ASSUME NEW index \in Int, NEW buffer \in Seq(Events)
    PROVE  LET rest == Unconfirmed(index, buffer)
           IN  /\ rest \in Seq(Events) /\ Len(rest) <= Len(buffer)
               /\ \A j \in 1..Len(rest) : rest[j] = buffer[j + (Len(buffer) - Len(rest))]
               /\ \A i \in 1..(Len(buffer) - Len(rest)) : buffer[i] <= index
<1> DEFINE n == ConfirmedBy(index, buffer)
           Heads == {m \in 0..Len(buffer) : \A i \in 1..m : buffer[i] <= index}
           rest == Unconfirmed(index, buffer)
<1>1. n \in Heads
  <2>1. 0 \in Heads /\ Heads \subseteq 0..Len(buffer) /\ Len(buffer) \in Nat
    OBVIOUS
  <2>2. Max(Heads) \in Heads
    BY <2>1, MaxOf
  <2>3. QED
    BY <2>2 DEF ConfirmedBy
<1>2. n \in 0..Len(buffer) /\ \A i \in 1..n : buffer[i] <= index
  BY <1>1
<1> HIDE DEF n
<1>3. rest = buffer \/ rest = SubSeq(buffer, n + 1, Len(buffer))
  BY DEF Unconfirmed, n
<1>4. CASE rest = buffer
  BY <1>4
<1>5. CASE rest = SubSeq(buffer, n + 1, Len(buffer))
  <2>1. /\ rest \in Seq(Events) /\ Len(rest) = Len(buffer) - n
        /\ \A j \in 1..(Len(buffer) - n) : rest[j] = buffer[j + n]
    BY <1>2, <1>5
  <2>2. Len(buffer) - Len(rest) = n
    BY <1>2, <2>1
  <2>3. QED
    BY <1>2, <2>1, <2>2
<1>6. QED
  BY <1>3, <1>4, <1>5

\* An event is sent while there is room for it.
LEMMA SentType ==
    ASSUME NEW t, StreamTyped(t), Len(t.net) < NetSize, NEW i \in Events
    PROVE  /\ StreamTyped([t EXCEPT !.net = Append(@, i)])
<1> DEFINE r == [t EXCEPT !.net = Append(@, i)]
<1>1. t \in StreamRecord /\ t.net \in Seq(Events) /\ Len(t.net) \in Nat
  BY Fields DEF StreamTyped
<1>2. Append(t.net, i) \in Seq(Events) /\ Len(Append(t.net, i)) = Len(t.net) + 1
  BY <1>1
<1>3. r \in StreamRecord /\ r.net = Append(t.net, i) /\ r.status = t.status
  BY <1>1, <1>2 DEF StreamRecord
<1>4. QED
  BY <1>1, <1>2, <1>3, Bounds DEF StreamTyped

\* The writer reads the status.
LEMMA ReadType ==
    ASSUME NEW t, StreamTyped(t)
    PROVE  StreamTyped([t EXCEPT !.status = <<>>])
<1> DEFINE r == [t EXCEPT !.status = <<>>]
<1>1. t \in StreamRecord /\ <<>> \in Seq(Events \cup {-1}) /\ Len(<<>>) = 0
  BY DEF StreamTyped
<1>2. r \in StreamRecord /\ r.net = t.net /\ r.status = <<>>
  BY <1>1 DEF StreamRecord
<1>3. QED
  BY <1>1, <1>2 DEF StreamTyped

\* The writer asks for completion.
LEMMA AskedType ==
    ASSUME NEW t, StreamTyped(t), NEW asked \in BOOLEAN
    PROVE  StreamTyped([t EXCEPT !.asked = asked])
<1> DEFINE r == [t EXCEPT !.asked = asked]
<1>1. t \in StreamRecord
  BY DEF StreamTyped
<1>2. r \in StreamRecord /\ r.net = t.net /\ r.status = t.status
  BY <1>1 DEF StreamRecord
<1>3. QED
  BY <1>2 DEF StreamTyped

\* The stream of the writer.
LEMMA CurrentType ==
    ASSUME TypeOK
    PROVE  /\ writer.stream \in Streams /\ StreamTyped(Current) /\ Current \in StreamRecord
           /\ writer \in Writer /\ writer.buffer \in Seq(Events)
BY Typed, WriterFields DEF TypeOK, Current

\* What each step of the writer does to the record of its stream.
LEMMA SendMoves ==
    ASSUME TypeOK, NEW i \in Events, Send(i)
    PROVE  /\ ~Current.up => streams' = streams
           /\ Current.up => Moves(writer.stream)
           /\ Current.up => streams'[writer.stream] = [Current EXCEPT !.net = Append(@, i)]
<1>1. StreamTyped(Current) /\ writer.stream \in Streams
  BY CurrentType
<1>2. CASE Current.up
  <2> DEFINE r == [Current EXCEPT !.net = Append(@, i)]
  <2>1. StreamTyped(r)
    BY <1>1, <1>2, SentType DEF Send
  <2>2. streams' = [streams EXCEPT ![writer.stream] = r]
    BY <1>2 DEF Send, TypeOK, Current
  <2> HIDE DEF r
  <2>3. QED
    BY <1>1, <1>2, <2>1, <2>2, Moved DEF r
<1>3. CASE ~Current.up
  BY <1>3 DEF Send
<1>4. QED
  BY <1>2, <1>3

LEMMA ReplayMoves ==
    ASSUME TypeOK, Replay, writer.replayed < Len(writer.buffer)
    PROVE  /\ Moves(writer.stream) /\ writer.buffer[writer.replayed + 1] \in Events
           /\ streams'[writer.stream] =
                 [Current EXCEPT !.net = Append(@, writer.buffer[writer.replayed + 1])]
<1> DEFINE i == writer.buffer[writer.replayed + 1]
           r == [Current EXCEPT !.net = Append(@, i)]
<1>1. StreamTyped(Current) /\ writer.stream \in Streams /\ writer \in Writer
  BY CurrentType
<1>2. i \in Events
  BY <1>1, WriterFields
<1>3. StreamTyped(r)
  BY <1>1, <1>2, SentType DEF Replay, CanReplay
<1>4. streams' = [streams EXCEPT ![writer.stream] = r]
  BY DEF Replay, CanReplay, TypeOK, Current
<1> HIDE DEF r
<1>5. Moves(writer.stream) /\ streams'[writer.stream] = r
  BY <1>1, <1>3, <1>4, Moved
<1>6. QED
  BY <1>2, <1>5 DEF r

LEMMA StatusMoves ==
    ASSUME TypeOK, streams' = [streams EXCEPT ![writer.stream].status = <<>>]
    PROVE  Moves(writer.stream) /\ streams'[writer.stream] = [Current EXCEPT !.status = <<>>]
<1> DEFINE r == [Current EXCEPT !.status = <<>>]
<1>1. StreamTyped(r) /\ writer.stream \in Streams
  BY CurrentType, ReadType
<1>2. streams' = [streams EXCEPT ![writer.stream] = r]
  BY DEF TypeOK, Current
<1> HIDE DEF r
<1>3. QED
  BY <1>1, <1>2, Moved DEF r

LEMMA FinishMoves ==
    ASSUME TypeOK, Finish
    PROVE  Moves(writer.stream) /\ streams'[writer.stream] = [Current EXCEPT !.asked = Current.up]
<1> DEFINE r == [Current EXCEPT !.asked = Current.up]
<1>1. StreamTyped(Current) /\ writer.stream \in Streams /\ Current.up \in BOOLEAN
  BY CurrentType, Fields
<1>2. StreamTyped(r)
  BY <1>1, AskedType
<1>3. streams' = [streams EXCEPT ![writer.stream] = r]
  BY DEF Finish, CanFinish, TypeOK, Current
<1> HIDE DEF r
<1>4. QED
  BY <1>1, <1>2, <1>3, Moved DEF r

\* The stream that the writer resumes with.
Next1 == writer.stream + 1
Begun ==
    IF writer.upload = 0 THEN NewStream(Next1, {}) ELSE NewStream(writer.upload, Listed(writer.upload))

\* The parts of an upload are numbered from 1.
LEMMA PartsOfType ==
    ASSUME TypeOK, NEW u \in Uploads
    PROVE  /\ stored[u] \in Seq(Seq(Events)) /\ Len(stored[u]) \in Nat
           /\ DOMAIN stored[u] = 1..Len(stored[u]) /\ PartsOf(u) \subseteq 1..Len(stored[u])
           /\ Listed(u) \subseteq 1..Len(stored[u])
BY DEF TypeOK, PartsOf, Listed

\* The next stream begins, and the last one's status is not read any more.
LEMMA ResumeMoves ==
    ASSUME TypeOK, Resume
    PROVE  /\ Next1 \in Streams /\ Next1 # writer.stream
           /\ StreamTyped(Begun)
           /\ streams' = [streams EXCEPT ![Next1] = Begun,
                                         ![writer.stream] = [Current EXCEPT !.status = <<>>]]
           /\ streams'[Next1] = Begun
           /\ streams'[writer.stream] = [Current EXCEPT !.status = <<>>]
           /\ StreamTyped([Current EXCEPT !.status = <<>>])
<1>1. writer.stream \in Streams /\ Next1 \in Streams /\ Next1 # writer.stream
  BY CurrentType, Bounds DEF Resume, Next1, Streams
<1>2. StreamTyped([Current EXCEPT !.status = <<>>])
  BY CurrentType, ReadType
<1>3. StreamTyped(Begun)
  <2>1. CASE writer.upload = 0
    BY <1>1, <2>1, Bounds, NewStreamType DEF Begun
  <2>2. CASE writer.upload # 0
    <3>1. writer.upload \in Uploads /\ writer.upload \in 0..MaxStreams
      BY <2>2, CurrentType, WriterFields, Bounds DEF Uploads, Streams
    <3>2. QED
      BY <2>2, <3>1, PartsOfType, NewStreamType DEF Begun
  <2>3. QED
    BY <2>1, <2>2
<1>4. streams' = [streams EXCEPT ![Next1] = Begun, ![writer.stream].status = <<>>]
  BY DEF Resume, Begun, Next1
<1>5. streams' = [streams EXCEPT ![Next1] = Begun,
                                 ![writer.stream] = [Current EXCEPT !.status = <<>>]]
  BY <1>1, <1>4 DEF Current, TypeOK
<1>6. QED
  BY <1>1, <1>2, <1>3, <1>5 DEF TypeOK

\* What stream s does, but for storing a part.
Serves(s) ==
    \/ Receive(s) \/ HandlerFails(s) \/ Flush(s) \/ Complete(s)
    \/ StartUpload(s) \/ PartFails(s) \/ Closed(s)
    \/ \E k \in 1..MaxEvents : Report(s, k)
    \/ Disconnect(s) \/ Crash(s)

\* The completers and the history are typed.
OthersTyped ==
    /\ checking \in [1..Completers -> [upload : Uploads, parts : SUBSET Nat] \cup {NoCheck}]
    /\ mishaps \subseteq {"crowded", "overwritten", "missed", "again"}

LEMMA OthersSame ==
    ASSUME TypeOK, UNCHANGED others
    PROVE  OthersTyped' /\ mishaps' = mishaps /\ checking' = checking
<1>1. checking' = checking /\ mishaps' = mishaps
  BY DEF others
<1>2. QED
  BY <1>1 DEF OthersTyped, TypeOK

\* A fault is counted.
LEMMA FaultsType ==
    ASSUME faults \in 0..MaxFaults
    PROVE  faults \in Int /\ (faults < MaxFaults => faults + 1 \in 0..MaxFaults)
BY Bounds

\* A stream that serves changes nothing of the writer or of the parts.
LEMMA ServesMoves ==
    ASSUME TypeOK, NEW s \in Streams, Serves(s)
    PROVE  Moves(s) /\ UNCHANGED <<writer, stored, checking, log>>
           /\ (streams[s].upload \in Uploads => sealed' \subseteq Uploads) /\ faults' \in 0..MaxFaults
           /\ sealed \subseteq sealed' /\ mishaps' \in {mishaps, mishaps \cup {"again"}}
<1>1. /\ sealed \subseteq Uploads /\ faults \in 0..MaxFaults
      /\ faults < MaxFaults => faults + 1 \in 0..MaxFaults
  BY FaultsType DEF TypeOK
<1>2. CASE Receive(s)
  BY <1>1, <1>2, ReceiveMoves DEF Receive, CanReceive, others
<1>3. CASE HandlerFails(s)
  BY <1>1, <1>3, HandlerFailsMoves DEF HandlerFails, CanRefuse, others
<1>4. CASE Flush(s)
  BY <1>1, <1>4, FlushMoves DEF Flush, CanFlush, others
<1>5. CASE Complete(s)
  BY <1>1, <1>5, CompleteMoves DEF Complete, CanComplete, others
<1>6. CASE StartUpload(s)
  BY <1>1, <1>6, StartUploadMoves DEF StartUpload, CanStart, others
<1>7. CASE PartFails(s)
  BY <1>1, <1>7, PartFailsMoves DEF PartFails, CanStore, CanMiss, others
<1>8. CASE Closed(s)
  <2>1. Moves(s)
    BY <1>8, ClosedMoves
  <2>2. UNCHANGED <<writer, stored, checking, log, faults>>
    BY <1>8 DEF Closed, CanClose
  <2>3. sealed' = sealed \/ sealed' = sealed \cup {streams[s].upload}
    BY <1>8 DEF Closed, CanClose, Seal
  <2>4. mishaps' \in {mishaps, mishaps \cup {"again"}}
    BY <1>8 DEF Closed, CanClose, Again
  <2>5. QED
    BY <1>1, <2>1, <2>2, <2>3, <2>4
<1>9. CASE \E k \in 1..MaxEvents : Report(s, k)
  <2>1. PICK k \in 1..MaxEvents : Report(s, k)
    BY <1>9
  <2>2. Moves(s)
    BY <2>1, ReportMoves
  <2>3. QED
    BY <1>1, <2>1, <2>2 DEF Report, CanReport, others
<1>10. CASE Disconnect(s)
  BY <1>1, <1>10, DownType DEF Disconnect, others
<1>11. CASE Crash(s)
  BY <1>1, <1>11, CrashMoves DEF Crash, others
<1>12. QED
  BY <1>2, <1>3, <1>4, <1>5, <1>6, <1>7, <1>8, <1>9, <1>10, <1>11 DEF Serves

\* The streams stay typed when one of them moves.
LEMMA MovesType ==
    ASSUME TypeOK, NEW s \in Streams, Moves(s)
    PROVE  /\ streams' \in [Streams -> StreamRecord]
           /\ \A q \in Streams : StreamTyped(streams'[q])
           /\ \A q \in Streams : q # s => streams'[q] = streams[q]
<1>1. streams \in [Streams -> StreamRecord] /\ streams'[s] \in StreamRecord
  BY DEF Moves, TypeOK, StreamTyped
<1>2. streams' = [streams EXCEPT ![s] = streams'[s]]
  BY DEF Moves
<1>3. streams' \in [Streams -> StreamRecord] /\ \A q \in Streams : q # s => streams'[q] = streams[q]
  BY <1>1, <1>2
<1>4. \A q \in Streams : StreamTyped(streams[q])
  BY Typed
<1>5. QED
  BY <1>3, <1>4 DEF Moves

\* The state is typed if its parts are.
LEMMA TypeOf ==
    ASSUME writer' \in Writer,
           streams' \in [Streams -> StreamRecord], \A q \in Streams : StreamTyped(streams'[q]),
           stored' \in [Uploads -> Seq(Seq(Events))], sealed' \subseteq Uploads,
           log' \in Seq(Events), faults' \in 0..MaxFaults, OthersTyped'
    PROVE  TypeOK'
BY DEF TypeOK, StreamTyped, OthersTyped

\* Type correctness, step by step.
LEMMA SendType ==
    ASSUME TypeOK, NEW i \in Events, Send(i)
    PROVE  TypeOK'
<1>1. writer \in Writer /\ log \in Seq(Events)
  BY DEF TypeOK
<1>2. /\ writer.taken \cup {i} \subseteq Events /\ Append(writer.buffer, i) \in Seq(Events)
      /\ Append(log, i) \in Seq(Events)
  BY <1>1, WriterFields
<1>3. writer' \in Writer
  BY <1>1, <1>2 DEF Send, Writer
<1>4. streams' \in [Streams -> StreamRecord] /\ \A q \in Streams : StreamTyped(streams'[q])
  <2>1. CASE Current.up
    BY <2>1, SendMoves, MovesType, CurrentType
  <2>2. CASE ~Current.up
    <3>1. streams' = streams
      BY <2>2, SendMoves
    <3>2. QED
      BY <3>1, Typed DEF TypeOK
  <2>3. QED
    BY <2>1, <2>2
<1>5. UNCHANGED <<stored, sealed, faults>> /\ log' = Append(log, i) /\ OthersTyped'
  BY OthersSame DEF Send
<1>6. QED
  BY <1>2, <1>3, <1>4, <1>5, TypeOf DEF TypeOK

LEMMA TakeStatusType ==
    ASSUME TypeOK, TakeStatus
    PROVE  /\ TypeOK'
           /\ Head(Current.status) \in ToSet(Current.status) /\ Head(Current.status) \in Int
<1>1. writer \in Writer /\ Current \in StreamRecord /\ writer.buffer \in Seq(Events)
  BY CurrentType
<1>2. Current.status \in Seq(Events \cup {-1}) /\ Current.status # <<>> /\ Current.upload \in 0..MaxStreams
  BY <1>1, Fields DEF TakeStatus
<1>3. Head(Current.status) \in ToSet(Current.status) /\ Head(Current.status) \in Events \cup {-1}
  BY <1>2, SetTail
<1>4. Head(Current.status) \in Int
  <2>1. \A i \in Events \cup {-1} : i \in Int
    BY Bounds
  <2>2. QED
    BY <1>3, <2>1
<1>5. Unconfirmed(Head(Current.status), writer.buffer) \in Seq(Events)
  BY <1>1, <1>4, Dropped
<1>6. writer' \in Writer
  BY <1>1, <1>2, <1>5 DEF TakeStatus, Writer
<1>7. streams' = [streams EXCEPT ![writer.stream].status = <<>>]
  BY DEF TakeStatus
<1>8. streams' \in [Streams -> StreamRecord] /\ \A q \in Streams : StreamTyped(streams'[q])
  BY <1>7, StatusMoves, MovesType, CurrentType
<1>9. OthersTyped'
  BY OthersSame DEF TakeStatus
<1>10. QED
  BY <1>3, <1>4, <1>6, <1>8, <1>9, TypeOf DEF TypeOK, TakeStatus

LEMMA ResumeType ==
    ASSUME TypeOK, Resume
    PROVE  /\ TypeOK'
           /\ \A q \in Streams \ {Next1, writer.stream} : streams'[q] = streams[q]
<1>1. /\ Next1 \in Streams /\ Next1 # writer.stream /\ StreamTyped(Begun)
      /\ streams' = [streams EXCEPT ![Next1] = Begun,
                                    ![writer.stream] = [Current EXCEPT !.status = <<>>]]
      /\ StreamTyped([Current EXCEPT !.status = <<>>])
      /\ streams'[Next1] = Begun
      /\ streams'[writer.stream] = [Current EXCEPT !.status = <<>>]
  BY ResumeMoves
<1>2. writer.stream \in Streams /\ writer \in Writer
  BY CurrentType
<1> DEFINE r == [Current EXCEPT !.status = <<>>]
<1> HIDE DEF r
<1>3. /\ streams' = [streams EXCEPT ![Next1] = Begun, ![writer.stream] = r]
      /\ StreamTyped(Begun) /\ StreamTyped(r) /\ streams'[Next1] = Begun
      /\ streams'[writer.stream] = r
  BY <1>1 DEF r
<1>4. streams' \in [Streams -> StreamRecord]
  BY <1>1, <1>2, <1>3 DEF TypeOK, StreamTyped
<1>5. \A q \in Streams \ {Next1, writer.stream} : streams'[q] = streams[q]
  BY <1>1, <1>2, <1>3 DEF TypeOK
<1>6. \A q \in Streams : StreamTyped(streams'[q])
  BY <1>3, <1>5, Typed
<1>7. writer' \in Writer
  BY <1>1, <1>2 DEF Resume, Writer, Next1
<1>8. UNCHANGED <<stored, sealed, checking, log, faults>>
      /\ mishaps' \in {mishaps, mishaps \cup {"crowded"}}
  BY DEF Resume
<1>9. OthersTyped'
  BY <1>8 DEF OthersTyped, TypeOK
<1>10. QED
  BY <1>4, <1>5, <1>6, <1>7, <1>8, <1>9, TypeOf DEF TypeOK

LEMMA PartStoredType ==
    ASSUME TypeOK, NEW s \in Streams, PartStored(s)
    PROVE  /\ TypeOK'
           /\ UNCHANGED <<writer, log>>
           /\ streams[s].active \in Part
           /\ LET u == streams[s].upload
              IN  stored' = [stored EXCEPT ![u] = WithPart(streams[s].active, stored[u])]
<1> DEFINE u == streams[s].upload
           part == streams[s].active
<1>1. part \in Part
  BY Typed, ActivePart DEF PartStored, CanStore
<1>2. stored' = [stored EXCEPT ![u] = WithPart(part, stored[u])]
  BY DEF PartStored, CanStore, TypeOK
<1>3. stored \in [Uploads -> Seq(Seq(Events))]
  BY DEF TypeOK
<1> HIDE DEF u, part
<1>4. u \in Uploads => WithPart(part, stored[u]) \in Seq(Seq(Events))
  <2>1. SUFFICES ASSUME u \in Uploads PROVE WithPart(part, stored[u]) \in Seq(Seq(Events))
    OBVIOUS
  <2>2. stored[u] \in Seq(Seq(Events))
    BY <1>3, <2>1
  <2>3. QED
    BY <1>1, <2>2, Uploaded
<1>5. stored' \in [Uploads -> Seq(Seq(Events))]
  BY <1>2, <1>3, <1>4
<1>6. streams' \in [Streams -> StreamRecord] /\ \A q \in Streams : StreamTyped(streams'[q])
  BY PartStoredMoves, MovesType
<1>7. UNCHANGED <<writer, sealed, checking, log, faults>>
      /\ mishaps' \in {mishaps, mishaps \cup {"overwritten"}}
  BY DEF PartStored, CanStore
<1>8. OthersTyped'
  BY <1>7 DEF OthersTyped, TypeOK
<1>9. TypeOK'
  BY <1>5, <1>6, <1>7, <1>8, TypeOf DEF TypeOK
<1>10. QED
  BY <1>1, <1>2, <1>7, <1>9 DEF part, u

\* What the writer, and the completer, do without a stream.
Unstreamed ==
    \/ Close \/ StreamDone \/ GiveUp \/ ReplayFails
    \/ \E i \in Events : Lose(i)
    \/ \E c \in 1..Completers : CheckUpload(c) \/ \E u \in Uploads : ListUpload(c, u)

\* What a completer does.
LEMMA CompletersType ==
    ASSUME TypeOK, NEW c \in 1..Completers,
           CheckUpload(c) \/ \E u \in Uploads : ListUpload(c, u)
    PROVE  /\ OthersTyped' /\ sealed' \subseteq Uploads /\ sealed \subseteq sealed'
           /\ mishaps \subseteq mishaps'
           /\ UNCHANGED <<writer, streams, stored, log, faults>>
<1>1. /\ checking \in [1..Completers -> [upload : Uploads, parts : SUBSET Nat] \cup {NoCheck}]
      /\ mishaps \subseteq {"crowded", "overwritten", "missed", "again"}
      /\ sealed \subseteq Uploads
  BY DEF TypeOK
<1>2. CASE CheckUpload(c)
  <2>1. checking[c] \in [upload : Uploads, parts : SUBSET Nat]
    BY <1>1, <1>2 DEF CheckUpload, CanCheck
  <2>2. checking' \in [1..Completers -> [upload : Uploads, parts : SUBSET Nat] \cup {NoCheck}]
    BY <1>1, <1>2 DEF CheckUpload
  <2>3. sealed' = sealed \cup {checking[c].upload} /\ checking[c].upload \in Uploads
    BY <1>2, <2>1 DEF CheckUpload, Seal
  <2>4. /\ mishaps \subseteq mishaps'
        /\ mishaps' \subseteq {"crowded", "overwritten", "missed", "again"}
    BY <1>1, <1>2 DEF CheckUpload, Again
  <2>5. QED
    BY <1>1, <1>2, <2>2, <2>3, <2>4 DEF OthersTyped, CheckUpload
<1>3. CASE \E u \in Uploads : ListUpload(c, u)
  <2>1. PICK u \in Uploads : ListUpload(c, u)
    BY <1>3
  <2>2. Listed(u) \subseteq Nat
    BY PartsOfType
  <2>3. [upload |-> u, parts |-> Listed(u)] \in [upload : Uploads, parts : SUBSET Nat]
    BY <2>2
  <2>4. checking' \in [1..Completers -> [upload : Uploads, parts : SUBSET Nat] \cup {NoCheck}]
    BY <1>1, <2>1, <2>3 DEF ListUpload
  <2>5. QED
    BY <1>1, <2>1, <2>4 DEF OthersTyped, ListUpload
<1>4. QED
  BY <1>2, <1>3

LEMMA UnstreamedType ==
    ASSUME TypeOK, Unstreamed
    PROVE  /\ TypeOK' /\ UNCHANGED <<streams, stored, log>>
           /\ writer'.buffer = writer.buffer /\ writer'.upload = writer.upload
           /\ writer'.stream = writer.stream
           /\ sealed \subseteq sealed' /\ mishaps \subseteq mishaps'
<1>1. writer \in Writer /\ writer \in Writer
      /\ \A q \in Streams : StreamTyped(streams[q])
  BY Typed DEF TypeOK
<1>2. /\ UNCHANGED <<streams, stored, log>> /\ OthersTyped' /\ sealed' \subseteq Uploads
      /\ sealed \subseteq sealed' /\ mishaps \subseteq mishaps'
  <2>1. CASE \E c \in 1..Completers : CheckUpload(c) \/ \E u \in Uploads : ListUpload(c, u)
    BY <2>1, CompletersType
  <2>2. CASE Close \/ StreamDone \/ GiveUp \/ ReplayFails \/ \E i \in Events : Lose(i)
    <3>1. UNCHANGED <<streams, stored, sealed, log, others>>
      BY <2>2 DEF Close, StreamDone, GiveUp, ReplayFails, Lose
    <3>2. QED
      BY <3>1, OthersSame DEF TypeOK
  <2>3. QED
    BY <2>1, <2>2 DEF Unstreamed
<1>3. /\ writer' \in Writer /\ writer'.buffer = writer.buffer /\ writer'.upload = writer.upload
      /\ writer'.stream = writer.stream
  <2>1. CASE \E i \in Events : Lose(i)
    <3>1. PICK i \in Events : Lose(i)
      BY <2>1
    <3>2. writer' = [writer EXCEPT !.taken = @ \cup {i}, !.backoff = TRUE]
      BY <3>1 DEF Lose
    <3>3. writer.taken \cup {i} \subseteq Events
      BY <1>1, WriterFields
    <3>4. QED
      BY <1>1, <3>2, <3>3 DEF Writer
  <2>2. CASE \E c \in 1..Completers : CheckUpload(c) \/ \E u \in Uploads : ListUpload(c, u)
    BY <1>1, <2>2, CompletersType
  <2>3. CASE Close
    BY <1>1, <2>3 DEF Close, Writer
  <2>4. CASE StreamDone
    BY <1>1, <2>4 DEF StreamDone, Writer
  <2>5. CASE GiveUp
    BY <1>1, <2>5 DEF GiveUp, CanGiveUp, Writer
  <2>6. CASE ReplayFails
    BY <1>1, <2>6 DEF ReplayFails, CanFail, Writer
  <2>7. QED
    BY <2>1, <2>2, <2>3, <2>4, <2>5, <2>6 DEF Unstreamed
<1>4. faults' \in 0..MaxFaults
  <2>1. faults \in 0..MaxFaults /\ (faults < MaxFaults => faults + 1 \in 0..MaxFaults)
    BY FaultsType DEF TypeOK
  <2>2. faults' = faults \/ (faults < MaxFaults /\ faults' = faults + 1)
    BY DEF Unstreamed, Close, StreamDone, GiveUp, CanGiveUp, ReplayFails, CanFail, Lose,
           CheckUpload, ListUpload
  <2>3. QED
    BY <2>1, <2>2
<1>5. QED
  BY <1>1, <1>2, <1>3, <1>4, TypeOf DEF TypeOK

\* The writer and its stream move, and nothing else does.
LEMMA WriterMovesType ==
    ASSUME TypeOK, writer' \in Writer, Moves(writer.stream),
           UNCHANGED <<stored, sealed, log, faults, others>>
    PROVE  TypeOK'
<1>1. streams' \in [Streams -> StreamRecord] /\ \A q \in Streams : StreamTyped(streams'[q])
  BY CurrentType, MovesType
<1>2. QED
  BY <1>1, OthersSame, TypeOf DEF TypeOK

LEMMA ResumedType ==
    ASSUME TypeOK, Resumed
    PROVE  TypeOK' /\ Moves(writer.stream)
<1>1. writer' \in Writer
  BY CurrentType DEF Resumed, Writer
<1>2. QED
  BY <1>1, StatusMoves, WriterMovesType DEF Resumed

LEMMA AwaitTimesOutType ==
    ASSUME TypeOK, AwaitTimesOut
    PROVE  TypeOK' /\ Moves(writer.stream)
<1>1. writer' \in Writer
  BY CurrentType DEF AwaitTimesOut, CanTimeOut, Writer
<1>2. QED
  BY <1>1, CurrentType, DownType, WriterMovesType DEF AwaitTimesOut, CanTimeOut

LEMMA FinishType ==
    ASSUME TypeOK, Finish
    PROVE  TypeOK' /\ Moves(writer.stream)
<1>1. writer' \in Writer
  BY CurrentType DEF Finish, CanFinish, Writer
<1>2. QED
  BY <1>1, FinishMoves, WriterMovesType DEF Finish, CanFinish

LEMMA ReplayType ==
    ASSUME TypeOK, Replay, writer.replayed < Len(writer.buffer)
    PROVE  TypeOK' /\ Moves(writer.stream)
<1>1. writer \in Writer /\ writer.replayed + 1 \in Nat
  BY CurrentType, WriterFields
<1>2. writer' \in Writer
  BY <1>1 DEF Replay, CanReplay, Writer
<1>3. QED
  BY <1>2, ReplayMoves, WriterMovesType DEF Replay, CanReplay

-----------------------------------------------------------------------------
(* The work of a stream *)

Increasing(q) == \A i, j \in DOMAIN q : i < j => q[i] < q[j]
Precede(A, B) == \A a \in A : \A b \in B : a < b

\* The events that a stream has not stored yet, and the number of the part in
\* which the first of them will be.
InActive(t) == IF t.active = NoPart THEN {} ELSE ToSet(t.active.events)
Held(t) == InActive(t) \cup ToSet(t.slice) \cup ToSet(t.net)
NextPart(t) == IF t.active = NoPart THEN t.last + 1 ELSE t.active.number

\* What it has told, or will tell, the writer to be stored.
Reports(done) == {done[j].index : j \in {j \in DOMAIN done : done[j].ok}}
Told(t) == ToSet(t.status) \cup Reports(t.done)

\* The numbers of the parts that it may store, whatever it is sent.
Claims(t) ==
    {n \in Nat : /\ ~t.failed
                 /\ \/ t.active # NoPart /\ n = t.active.number
                    \/ t.phase = "open" /\ n > t.last}

Working(t) ==
    /\ t.phase = "cancelled" => t.failed
    /\ \A j \in DOMAIN t.done : t.done[j].ok \/ t.failed
    /\ t.phase = "open" /\ t.active # NoPart => t.active.number <= t.last
    /\ t.phase \notin {"open", "cancelled"} => t.slice = <<>> /\ t.net = <<>>

Orderly(t) ==
    /\ t.active # NoPart => Increasing(t.active.events)
    /\ Increasing(t.slice) /\ Increasing(t.net)
    /\ Precede(InActive(t), ToSet(t.slice))
    /\ Precede(InActive(t), ToSet(t.net))
    /\ Precede(ToSet(t.slice), ToSet(t.net))

\* A step of a stream claims no more numbers.
Continues(t, r) ==
    /\ r.upload = t.upload
    /\ r.up => t.up
    /\ r.asked => t.asked
    /\ r.up /\ t.phase \in {"open", "cancelled"} => r.phase \in {"open", "cancelled"} \/ t.asked
    /\ Working(r)
    /\ Claims(r) \subseteq Claims(t) /\ MayStore(r) \subseteq MayStore(t)
    /\ r.phase = "open" /\ ~r.failed => t.phase = "open" /\ ~t.failed /\ t.last <= r.last

\* It keeps events in their order, and loses only the last ones, unless it fails.
Carried(t, r) ==
    /\ Orderly(r)
    /\ Held(r) \subseteq Held(t) /\ Told(r) \subseteq Told(t)
    /\ ~r.failed /\ (r.up \/ Held(r) # {}) => ~t.failed
    /\ ~r.failed => \A k \in Held(r) : \A i \in Held(t) : i <= k => i \in Held(r)
    /\ ~r.failed /\ Held(r) # {} => NextPart(t) <= NextPart(r)
    /\ r.up /\ ~r.failed /\ ~t.asked => Held(r) = Held(t) /\ NextPart(t) <= NextPart(r)

\* Events that only move on.
Alike(t, r) ==
    /\ r.upload = t.upload /\ r.up = t.up /\ r.asked = t.asked /\ r.phase = t.phase
    /\ r.failed = t.failed /\ r.status = t.status /\ r.done = t.done
    /\ Working(r)
    /\ Claims(r) = Claims(t) /\ MayStore(r) \subseteq MayStore(t) /\ t.last <= r.last
    /\ Held(r) = Held(t) /\ NextPart(r) = NextPart(t)
    /\ Orderly(t) => Orderly(r)

\* Events that only move on claim no more numbers and keep their order.
LEMMA AlikeIs ==
    ASSUME NEW t \in StreamRecord, NEW r, Alike(t, r)
    PROVE  Continues(t, r) /\ (Orderly(t) => Carried(t, r))
<1>1. NextPart(t) \in Nat
  BY Fields, ActivePart DEF NextPart
<1>2. Continues(t, r)
  BY DEF Alike, Continues
<1>3. Told(r) = Told(t)
  BY DEF Alike, Told
<1>4. NextPart(t) <= NextPart(r)
  BY <1>1 DEF Alike
<1>5. QED
  BY <1>2, <1>3, <1>4 DEF Alike, Carried

\* Events may move on twice.
LEMMA AlikeTwice ==
    ASSUME NEW t \in StreamRecord, NEW r \in StreamRecord, NEW q \in StreamRecord,
           Alike(t, r), Alike(r, q)
    PROVE  Alike(t, q)
<1>1. t.last \in Nat /\ r.last \in Nat /\ q.last \in Nat
  BY Fields
<1>2. QED
  BY <1>1 DEF Alike

\* Steps that leave what is on its way where it is.
SameWork(t, r) ==
    /\ r.net = t.net /\ r.slice = t.slice /\ r.active = t.active
    /\ r.last = t.last /\ r.phase = t.phase /\ r.failed = t.failed

\* Work that stays where it is has the same events and numbers.
LEMMA SameWorkIs ==
    ASSUME NEW t, NEW r, SameWork(t, r)
    PROVE  /\ Claims(r) = Claims(t) /\ MayStore(r) = MayStore(t)
           /\ Held(r) = Held(t) /\ NextPart(r) = NextPart(t)
           /\ Orderly(t) <=> Orderly(r)
<1>1. Claims(r) = Claims(t)
  BY DEF SameWork, Claims
<1>2. MayStore(r) = MayStore(t)
  BY DEF SameWork, MayStore, Ahead
<1>3. InActive(r) = InActive(t)
  BY DEF SameWork, InActive
<1>4. QED
  BY <1>1, <1>2, <1>3 DEF SameWork, Held, NextPart, Orderly

\* Ordered events stay ordered when the first is taken,
LEMMA IncreasingTail ==
    ASSUME NEW S, NEW q \in Seq(S), q # <<>>, Increasing(q)
    PROVE  Increasing(Tail(q)) /\ \A x \in ToSet(Tail(q)) : Head(q) < x
<1>1. /\ DOMAIN q = 1..Len(q) /\ Len(q) \in Nat /\ Len(q) > 0
      /\ DOMAIN Tail(q) = 1..(Len(q) - 1)
      /\ Head(q) = q[1] /\ \A j \in 1..(Len(q) - 1) : Tail(q)[j] = q[j + 1]
  OBVIOUS
<1>2. \A j \in 1..(Len(q) - 1) : j + 1 \in 1..Len(q) /\ 1 \in 1..Len(q) /\ 1 < j + 1
  BY <1>1
<1>3. \A j \in 1..(Len(q) - 1) : q[1] < q[j + 1]
  BY <1>1, <1>2 DEF Increasing
<1>4. \A i, j \in 1..(Len(q) - 1) : i < j => q[i + 1] < q[j + 1]
  <2>1. TAKE i, j \in 1..(Len(q) - 1)
  <2>2. HAVE i < j
  <2>3. i + 1 \in 1..Len(q) /\ j + 1 \in 1..Len(q) /\ i + 1 < j + 1
    BY <1>1, <2>2
  <2>4. QED
    BY <1>1, <2>3 DEF Increasing
<1>5. Increasing(Tail(q))
  BY <1>1, <1>4 DEF Increasing
<1>6. \A x \in ToSet(Tail(q)) : Head(q) < x
  BY <1>1, <1>3 DEF ToSet
<1>7. QED
  BY <1>5, <1>6

\* or when a later one comes.
LEMMA IncreasingAppend ==
    ASSUME NEW S, NEW q \in Seq(S), NEW e \in S, Increasing(q), \A x \in ToSet(q) : x < e
    PROVE  Increasing(Append(q, e))
<1>1. /\ DOMAIN q = 1..Len(q) /\ DOMAIN Append(q, e) = 1..(Len(q) + 1) /\ Len(q) \in Nat
      /\ \A j \in 1..Len(q) : Append(q, e)[j] = q[j]
      /\ Append(q, e)[Len(q) + 1] = e
  OBVIOUS
<1>2. \A j \in 1..Len(q) : q[j] < e
  BY <1>1 DEF ToSet
<1>3. SUFFICES ASSUME NEW i \in 1..(Len(q) + 1), NEW j \in 1..(Len(q) + 1), i < j
               PROVE  Append(q, e)[i] < Append(q, e)[j]
  BY <1>1 DEF Increasing
<1>4. i \in 1..Len(q)
  BY <1>1, <1>3
<1>5. CASE j \in 1..Len(q)
  BY <1>1, <1>3, <1>4, <1>5 DEF Increasing
<1>6. CASE j = Len(q) + 1
  BY <1>1, <1>2, <1>4, <1>6
<1>7. QED
  BY <1>1, <1>5, <1>6

\* The events ahead bound the parts that they may become.
LEMMA AheadIs ==
    ASSUME NEW t \in StreamRecord
    PROVE  /\ Ahead(t) \in Nat /\ Len(t.net) \in Nat /\ Len(t.net) <= Ahead(t)
           /\ t.slice = <<>> => Ahead(t) = Len(t.net)
           /\ t.slice # <<>> => Ahead(t) = Len(t.net) + 1
<1>1. t.net \in Seq(Events)
  BY Fields
<1>2. Len(t.net) \in Nat
  BY <1>1
<1>3. CASE t.slice = <<>>
  BY <1>2, <1>3 DEF Ahead
<1>4. CASE t.slice # <<>>
  BY <1>2, <1>4 DEF Ahead
<1>5. QED
  BY <1>2, <1>3, <1>4

\* The slice takes the first event that is on the way.
LEMMA TakenAlike ==
    ASSUME NEW t, StreamTyped(t), Working(t), t.net # <<>>, t.phase = "open",
           NEW r, r = [t EXCEPT !.net = Tail(@), !.slice = Append(@, Head(t.net))]
    PROVE  Alike(t, r) /\ r.slice # <<>>
<1>1. t \in StreamRecord /\ t.net \in Seq(Events) /\ t.slice \in Seq(Events) /\ t.last \in Nat
  BY Fields DEF StreamTyped
<1>2. /\ r.net = Tail(t.net) /\ r.slice = Append(t.slice, Head(t.net))
      /\ r.upload = t.upload /\ r.up = t.up /\ r.asked = t.asked /\ r.phase = t.phase
      /\ r.failed = t.failed /\ r.status = t.status /\ r.done = t.done
      /\ r.last = t.last /\ r.active = t.active
  BY <1>1 DEF StreamRecord
<1>3. /\ ToSet(t.net) = ToSet(Tail(t.net)) \cup {Head(t.net)} /\ Head(t.net) \in Events
      /\ Len(Tail(t.net)) = Len(t.net) - 1 /\ Len(t.net) > 0 /\ Len(t.net) \in Nat
      /\ Tail(t.net) \in Seq(Events)
  BY <1>1, SetTail
<1>4. ToSet(r.slice) = ToSet(t.slice) \cup {Head(t.net)} /\ r.slice # <<>>
  BY <1>1, <1>2, <1>3, SetAppend
<1>5. Working(r) /\ Claims(r) = Claims(t) /\ NextPart(r) = NextPart(t) /\ InActive(r) = InActive(t)
  BY <1>2 DEF Working, Claims, NextPart, InActive
<1>6. MayStore(r) \subseteq MayStore(t)
  <2>1. Ahead(t) \in Nat /\ Len(t.net) <= Ahead(t)
    BY <1>1, AheadIs
  <2>2. Ahead(r) = Len(t.net)
    <3>1. Len(r.net) = Len(t.net) - 1
      BY <1>2, <1>3
    <3>2. Ahead(r) = Len(r.net) + 1
      BY <1>4 DEF Ahead
    <3>3. QED
      BY <1>3, <3>1, <3>2
  <2>3. t.last + 1 .. t.last + Ahead(r) \subseteq t.last + 1 .. t.last + Ahead(t)
    BY <1>1, <1>3, <2>1, <2>2
  <2>4. QED
    BY <1>2, <2>3 DEF MayStore
<1>7. Held(r) = Held(t)
  BY <1>2, <1>3, <1>4, <1>5 DEF Held
<1>8. ASSUME Orderly(t) PROVE Orderly(r)
  <2>1. Increasing(t.net) /\ Increasing(t.slice) /\ Precede(ToSet(t.slice), ToSet(t.net))
    BY <1>8 DEF Orderly
  <2>2. Increasing(r.net) /\ \A x \in ToSet(r.net) : Head(t.net) < x
    BY <1>1, <1>2, <2>1, IncreasingTail
  <2>3. \A x \in ToSet(t.slice) : x < Head(t.net)
    BY <1>3, <2>1 DEF Precede
  <2>4. Increasing(r.slice)
    BY <1>1, <1>2, <1>3, <2>1, <2>3, IncreasingAppend
  <2>5. Precede(InActive(r), ToSet(r.slice)) /\ Precede(InActive(r), ToSet(r.net))
    BY <1>2, <1>3, <1>4, <1>5, <1>8 DEF Orderly, Precede
  <2>6. Precede(ToSet(r.slice), ToSet(r.net))
    BY <1>2, <1>3, <1>4, <2>1, <2>2 DEF Precede
  <2>7. QED
    BY <1>2, <1>8, <2>2, <2>4, <2>5, <2>6 DEF Orderly
<1>9. t.last <= r.last
  BY <1>1, <1>2
<1>10. QED
  BY <1>2, <1>4, <1>5, <1>6, <1>7, <1>8, <1>9 DEF Alike

\* The slice becomes the part on its way, behind all earlier parts.
LEMMA StartedFields ==
    ASSUME NEW t \in StreamRecord, NEW r, r = Started(t)
    PROVE  /\ r.net = t.net /\ r.slice = <<>> /\ r.upload = t.upload /\ r.up = t.up
           /\ r.asked = t.asked /\ r.phase = t.phase /\ r.failed = t.failed
           /\ r.status = t.status /\ r.done = t.done /\ r.last = t.last + 1
           /\ r.active = [number |-> t.last + 1, events |-> t.slice]
BY DEF StreamRecord, Started

\* A slice that becomes a part moves on.
LEMMA StartedAlike ==
    ASSUME NEW t \in StreamRecord, Working(t), t.slice # <<>>, t.active = NoPart, t.phase = "open",
           NEW r, r = Started(t)
    PROVE  Alike(t, r)
<1>1. t.net \in Seq(Events) /\ t.slice \in Seq(Events) /\ t.last \in Nat /\ Len(t.net) \in Nat
  BY Fields
<1>2. /\ r.net = t.net /\ r.slice = <<>> /\ r.upload = t.upload /\ r.up = t.up
      /\ r.asked = t.asked /\ r.phase = t.phase /\ r.failed = t.failed
      /\ r.status = t.status /\ r.done = t.done /\ r.last = t.last + 1
  BY StartedFields
<1>3. r.active # NoPart /\ r.active.number = t.last + 1 /\ r.active.events = t.slice
  <2>1. r.active = [number |-> t.last + 1, events |-> t.slice]
    BY StartedFields
  <2>2. r.active # NoPart
    BY StartedType
  <2>3. QED
    BY <2>1, <2>2
<1>4. Working(r)
  <2>1. r.active.number <= r.last
    BY <1>1, <1>2, <1>3
  <2>2. QED
    BY <1>2, <2>1 DEF Working
<1>5. Claims(r) = Claims(t)
  <2>1. \A n \in Nat : (n = t.last + 1 \/ n > t.last + 1) <=> n > t.last
    BY <1>1
  <2>2. QED
    BY <1>2, <1>3, <2>1 DEF Claims
<1>6. MayStore(r) \subseteq MayStore(t)
  <2>1. Ahead(t) = Len(t.net) + 1
    BY AheadIs
  <2>2. Ahead(r) = Len(t.net)
    BY <1>1, <1>2 DEF Ahead
  <2>3. (t.last + 1) + 1 .. (t.last + 1) + Ahead(r) \subseteq t.last + 1 .. t.last + Ahead(t)
    BY <1>1, <2>1, <2>2
  <2>4. t.last + 1 \in t.last + 1 .. t.last + Ahead(t)
    BY <1>1, <2>1
  <2>5. QED
    BY <1>2, <1>3, <2>3, <2>4 DEF MayStore
<1>7. InActive(r) = ToSet(t.slice) /\ InActive(t) = {} /\ ToSet(r.slice) = {}
  BY <1>2, <1>3, SetEmpty DEF InActive
<1>8. Held(r) = Held(t) /\ NextPart(r) = NextPart(t)
  BY <1>2, <1>3, <1>7 DEF Held, NextPart
<1>9. ASSUME Orderly(t) PROVE Orderly(r)
  <2>1. Increasing(r.slice)
    BY <1>2 DEF Increasing
  <2>2. QED
    BY <1>2, <1>3, <1>7, <1>9, <2>1 DEF Orderly, Precede
<1>10. t.last <= r.last
  BY <1>1, <1>2
<1>11. QED
  BY <1>2, <1>4, <1>5, <1>6, <1>8, <1>9, <1>10 DEF Alike

\* Nothing moves.
LEMMA AlikeSelf ==
    ASSUME NEW t \in StreamRecord, Working(t)
    PROVE  Alike(t, t)
BY Fields DEF Alike

\* Events that a stream holds are events, and its next part has a number.
LEMMA HeldType ==
    ASSUME NEW t \in StreamRecord
    PROVE  /\ Held(t) \subseteq Events /\ InActive(t) \subseteq Events
           /\ ToSet(t.slice) \subseteq Events /\ ToSet(t.net) \subseteq Events
           /\ NextPart(t) \in Nat /\ NextPart(t) > 0
<1>1. ToSet(t.slice) \subseteq Events /\ ToSet(t.net) \subseteq Events
  BY Fields, SetOf
<1>2. InActive(t) \subseteq Events
  BY ActivePart, SetOf DEF InActive
<1>3. NextPart(t) \in Nat /\ NextPart(t) > 0
  BY Fields, ActivePart DEF NextPart
<1>4. QED
  BY <1>1, <1>2, <1>3 DEF Held

\* A stream that has nothing any more.
LEMMA IdleIs ==
    ASSUME NEW t \in StreamRecord, NEW r \in StreamRecord,
           r.upload = t.upload, ~r.up, ~r.asked, r.phase \in {"closed", "dead"},
           r.active = NoPart, r.slice = <<>>, r.net = <<>>, r.done = <<>>, r.status = t.status
    PROVE  Continues(t, r) /\ Carried(t, r)
<1>1. Claims(r) = {}
  BY DEF Claims
<1>2. MayStore(r) = {}
  BY DEF MayStore
<1>3. Working(r)
  BY DEF Working
<1>4. Held(r) = {} /\ InActive(r) = {} /\ ToSet(r.slice) = {} /\ ToSet(r.net) = {}
  BY SetEmpty DEF Held, InActive
<1>5. Told(r) \subseteq Told(t)
  BY DEF Told, Reports
<1>6. Orderly(r)
  BY <1>4 DEF Orderly, Precede, Increasing
<1>7. Continues(t, r)
  BY <1>1, <1>2, <1>3 DEF Continues
<1>8. QED
  BY <1>4, <1>5, <1>6, <1>7 DEF Carried

\* A stream that drains keeps the part on its way.
LEMMA DrainIs ==
    ASSUME NEW t \in StreamRecord, NEW r \in StreamRecord, Working(t), t.slice = <<>>,
           t.asked \/ ~t.up,
           r.upload = t.upload, r.up = t.up, ~r.asked, r.phase = "drain", r.failed = t.failed,
           r.active = t.active, r.slice = <<>>, r.net = <<>>, r.done = t.done, r.status = t.status
    PROVE  Continues(t, r) /\ (Orderly(t) => Carried(t, r))
<1>1. Claims(r) \subseteq Claims(t)
  BY DEF Claims
<1>2. MayStore(r) \subseteq MayStore(t)
  BY DEF MayStore
<1>3. Working(r)
  BY DEF Working
<1>4. /\ InActive(r) = InActive(t) /\ ToSet(r.slice) = {} /\ ToSet(r.net) = {}
      /\ ToSet(t.slice) = {} /\ Held(r) = InActive(t) /\ Held(t) = InActive(t) \cup ToSet(t.net)
  BY SetEmpty DEF InActive, Held
<1>5. Continues(t, r)
  BY <1>1, <1>2, <1>3 DEF Continues
<1>6. Told(r) \subseteq Told(t)
  BY DEF Told
<1>7. ASSUME Held(r) # {} PROVE NextPart(t) <= NextPart(r)
  <2>1. t.active # NoPart
    BY <1>4, <1>7 DEF InActive
  <2>2. NextPart(r) = NextPart(t)
    BY <2>1 DEF NextPart
  <2>3. QED
    BY <2>2, HeldType
<1>8. ASSUME Orderly(t) PROVE Carried(t, r)
  <2>1. Orderly(r)
    BY <1>4, <1>8 DEF Orderly, Precede, Increasing
  <2>2. ASSUME NEW k \in Held(r), NEW i \in Held(t), i <= k PROVE i \in Held(r)
    <3>1. CASE i \in ToSet(t.net)
      <4>1. k < i
        BY <1>4, <1>8, <2>2, <3>1 DEF Orderly, Precede
      <4>2. k \in Nat /\ i \in Nat
        BY <1>4, <2>2, HeldType, Bounds
      <4>3. QED
        BY <2>2, <4>1, <4>2
    <3>2. QED
      BY <1>4, <2>2, <3>1
  <2>3. QED
    BY <1>4, <1>6, <1>7, <2>1, <2>2 DEF Carried
<1>9. QED
  BY <1>5, <1>8

\* Steps after which the same is on its way.
LEMMA SameIs ==
    ASSUME NEW t \in StreamRecord, NEW r \in StreamRecord, Working(t), SameWork(t, r),
           r.upload = t.upload, r.up => t.up, r.asked => t.asked, Told(r) \subseteq Told(t),
           \A j \in DOMAIN r.done : r.done[j].ok \/ t.failed
    PROVE  Continues(t, r) /\ (Orderly(t) => Carried(t, r))
<1>1. /\ Claims(r) = Claims(t) /\ MayStore(r) = MayStore(t)
      /\ Held(r) = Held(t) /\ NextPart(r) = NextPart(t) /\ (Orderly(t) <=> Orderly(r))
  BY SameWorkIs
<1>2. Working(r)
  BY DEF Working, SameWork
<1>3. t.last \in Nat /\ NextPart(t) \in Nat
  BY Fields, HeldType
<1>4. Continues(t, r)
  BY <1>1, <1>2, <1>3 DEF Continues, SameWork
<1>5. QED
  BY <1>1, <1>3, <1>4 DEF Carried, SameWork

\* A stream that is over but for the part on its way, which will not be stored.
LEMMA FailedIs ==
    ASSUME NEW t \in StreamRecord, NEW r \in StreamRecord, r.failed, ~r.up \/ r.phase = t.phase \/ r.phase = "cancelled",
           r.upload = t.upload, r.up => t.up, r.asked => t.asked, Told(r) \subseteq Told(t),
           r.active = NoPart \/ r.active = t.active,
           r.net = <<>> \/ r.net = t.net, r.slice = <<>> \/ r.slice = t.slice,
           r.phase = "open" /\ r.active # NoPart => r.active.number <= r.last,
           r.phase \notin {"open", "cancelled"} => r.slice = <<>> /\ r.net = <<>>
    PROVE  Continues(t, r) /\ (Orderly(t) => Carried(t, r))
<1>1. Claims(r) = {} /\ MayStore(r) = {}
  BY DEF Claims, MayStore
<1>2. Working(r)
  BY DEF Working
<1>3. Continues(t, r)
  BY <1>1, <1>2 DEF Continues
<1>4. /\ InActive(r) \subseteq InActive(t) /\ ToSet(r.net) \subseteq ToSet(t.net)
      /\ ToSet(r.slice) \subseteq ToSet(t.slice)
  BY SetEmpty DEF InActive
<1>5. Held(r) \subseteq Held(t)
  BY <1>4 DEF Held
<1>6. ASSUME Orderly(t) PROVE Orderly(r)
  <2>1. /\ Precede(InActive(r), ToSet(r.slice)) /\ Precede(InActive(r), ToSet(r.net))
        /\ Precede(ToSet(r.slice), ToSet(r.net))
    BY <1>4, <1>6 DEF Orderly, Precede
  <2>2. Increasing(r.net) /\ Increasing(r.slice)
    BY <1>6 DEF Orderly, Increasing
  <2>3. r.active # NoPart => Increasing(r.active.events)
    BY <1>6 DEF Orderly
  <2>4. QED
    BY <2>1, <2>2, <2>3 DEF Orderly
<1>7. QED
  BY <1>3, <1>5, <1>6 DEF Carried

\* The outcome of a step of stream s.
Goes(s) ==
    /\ Continues(streams[s], streams'[s])
    /\ Orderly(streams[s]) => Carried(streams[s], streams'[s])

\* A finished upload is told if it succeeded.
LEMMA ReportsAppend ==
    ASSUME NEW q \in Seq(Finished), NEW e \in Finished
    PROVE  /\ ~e.ok => Reports(Append(q, e)) = Reports(q)
           /\ e.ok => Reports(Append(q, e)) = Reports(q) \cup {e.index}
<1>1. /\ DOMAIN q = 1..Len(q) /\ DOMAIN Append(q, e) = 1..(Len(q) + 1) /\ Len(q) \in Nat
      /\ \A j \in 1..Len(q) : Append(q, e)[j] = q[j]
      /\ Append(q, e)[Len(q) + 1] = e
  BY AppendAt
<1>2. \A j \in 1..(Len(q) + 1) : j \in 1..Len(q) \/ j = Len(q) + 1
  BY <1>1
<1>3. 1..Len(q) \subseteq 1..(Len(q) + 1) /\ Len(q) + 1 \in 1..(Len(q) + 1)
  BY <1>1
<1>4. Reports(q) \subseteq Reports(Append(q, e))
  BY <1>1, <1>3 DEF Reports
<1>5. ASSUME NEW x \in Reports(Append(q, e)) PROVE x \in Reports(q) \/ (e.ok /\ x = e.index)
  BY <1>1, <1>2 DEF Reports
<1>6. e.ok => e.index \in Reports(Append(q, e))
  BY <1>1, <1>3 DEF Reports
<1>7. QED
  BY <1>4, <1>5, <1>6

\* An upload that is reported is told no more.
LEMMA ReportsRemove ==
    ASSUME NEW q \in Seq(Finished), NEW k \in DOMAIN q
    PROVE  /\ Reports(RemoveAt(q, k)) \subseteq Reports(q)
           /\ q[k].ok => q[k].index \in Reports(q)
           /\ \A j \in DOMAIN RemoveAt(q, k) : \E i \in DOMAIN q : RemoveAt(q, k)[j] = q[i]
<1>1. \A j \in DOMAIN RemoveAt(q, k) : \E i \in DOMAIN q : RemoveAt(q, k)[j] = q[i]
  BY Removed
<1>2. Reports(RemoveAt(q, k)) \subseteq Reports(q)
  BY <1>1 DEF Reports
<1>3. QED
  BY <1>1, <1>2 DEF Reports

\* What each step of a stream does to its work.
LEMMA ReceiveGoes ==
    ASSUME TypeOK, NEW s \in Streams, Receive(s), Working(streams[s])
    PROVE  Goes(s)
<1> DEFINE t == streams[s]
           taken == [t EXCEPT !.net = Tail(@), !.slice = Append(@, Head(t.net))]
           r == streams'[s]
<1>1. StreamTyped(t) /\ t \in StreamRecord /\ t.net # <<>> /\ t.phase = "open"
  BY Typed DEF Receive, CanReceive
<1>2. StreamTyped(taken) /\ taken \in StreamRecord
  BY <1>1, TakenType DEF StreamTyped
<1>3. Alike(t, taken) /\ taken.slice # <<>>
  BY <1>1, TakenAlike
<1>4. streams \in [Streams -> StreamRecord]
  BY DEF TypeOK
<1>5. \/ r = taken
      \/ taken.active = NoPart /\ r = Started(taken)
      \/ r = [taken EXCEPT !.full = TRUE]
  BY <1>4 DEF Receive, CanReceive
<1> HIDE DEF taken
<1>6. Working(taken) /\ taken.phase = "open"
  BY <1>1, <1>3 DEF Alike
<1>7. CASE r = taken
  BY <1>1, <1>3, <1>7, AlikeIs DEF Goes
<1>8. CASE taken.active = NoPart /\ r = Started(taken)
  <2>1. Alike(taken, r) /\ r \in StreamRecord
    BY <1>2, <1>3, <1>6, <1>8, StartedAlike, StartedType
  <2>2. Alike(t, r)
    BY <1>1, <1>2, <1>3, <2>1, AlikeTwice
  <2>3. QED
    BY <1>1, <2>2, AlikeIs DEF Goes
<1>9. CASE r = [taken EXCEPT !.full = TRUE]
  <2>1. /\ r.upload = taken.upload /\ r.up = taken.up /\ r.asked = taken.asked
        /\ r.status = taken.status /\ r.done = taken.done /\ SameWork(taken, r) /\ r \in StreamRecord
    BY <1>2, <1>9 DEF StreamRecord, SameWork
  <2>2. Alike(taken, r)
    <3>1. Working(r)
      BY <1>6, <2>1 DEF Working, SameWork
    <3>2. taken.last <= r.last
      BY <1>2, <2>1, Fields DEF SameWork
    <3>3. QED
      BY <2>1, <3>1, <3>2, SameWorkIs DEF Alike, SameWork
  <2>3. Alike(t, r)
    BY <1>1, <1>2, <1>3, <2>1, <2>2, AlikeTwice
  <2>4. QED
    BY <1>1, <2>3, AlikeIs DEF Goes
<1>10. QED
  BY <1>5, <1>7, <1>8, <1>9

LEMMA StartUploadGoes ==
    ASSUME TypeOK, NEW s \in Streams, StartUpload(s), Working(streams[s])
    PROVE  Goes(s)
<1>1. streams[s] \in StreamRecord
  BY Typed
<1>2. streams'[s] = Started(streams[s])
  BY DEF StartUpload, CanStart, TypeOK
<1>3. Alike(streams[s], streams'[s])
  BY <1>1, <1>2, StartedAlike DEF StartUpload, CanStart
<1>4. QED
  BY <1>1, <1>3, AlikeIs DEF Goes

LEMMA HandlerFailsGoes ==
    ASSUME TypeOK, NEW s \in Streams, HandlerFails(s), Working(streams[s])
    PROVE  Goes(s)
<1> DEFINE t == streams[s]
           r == streams'[s]
<1>1. t \in StreamRecord /\ streams \in [Streams -> StreamRecord] /\ r \in StreamRecord
  BY Typed, HandlerFailsMoves DEF TypeOK, Moves, StreamTyped
<1>2. r = [t EXCEPT !.up = FALSE, !.net = <<>>]
  BY <1>1 DEF HandlerFails, CanRefuse
<1>3. /\ ~r.up /\ r.upload = t.upload /\ r.asked = t.asked /\ r.phase = t.phase
      /\ r.failed = t.failed /\ r.active = t.active /\ r.slice = t.slice /\ r.net = <<>>
      /\ r.status = t.status /\ r.done = t.done
  BY <1>1, <1>2 DEF StreamRecord
<1>4. t.phase = "cancelled" /\ t.failed
  BY DEF HandlerFails, CanRefuse, Working
<1>5. Told(r) \subseteq Told(t)
  BY <1>3 DEF Told
<1> HIDE DEF r, t
<1>6. Continues(t, r) /\ (Orderly(t) => Carried(t, r))
  BY <1>1, <1>3, <1>4, <1>5, FailedIs
<1>7. QED
  BY <1>6 DEF Goes, r, t

\* A stream that is drained loses nothing but what was still on the way.
LEMMA DrainedRecord ==
    ASSUME NEW t \in StreamRecord, NEW finish \in {"flush", "complete"}, Working(t),
           t.slice # <<>> => t.active = NoPart /\ t.phase = "open", t.asked \/ ~t.up,
           NEW r \in StreamRecord, r = Drained(t, finish)
    PROVE  Continues(t, r) /\ (Orderly(t) => Carried(t, r))
<1>1. PICK q \in StreamRecord : q = IF t.slice = <<>> THEN t ELSE Started(t)
  BY StartedType
<1>2. Alike(t, q) /\ q.slice = <<>>
  <2>1. CASE t.slice = <<>>
    BY <1>1, <2>1, AlikeSelf
  <2>2. CASE t.slice # <<>>
    BY <1>1, <2>2, StartedAlike, StartedFields
  <2>3. QED
    BY <2>1, <2>2
<1>3. PICK p : p = IF finish = "flush" THEN {} ELSE q.parts
  OBVIOUS
<1>4. r = [q EXCEPT !.phase = "drain", !.finish = finish, !.net = <<>>,
                    !.asked = FALSE, !.last = 0, !.parts = p]
  BY <1>1, <1>3 DEF Drained
<1>5. /\ r.upload = q.upload /\ r.up = q.up /\ ~r.asked /\ r.phase = "drain" /\ r.failed = q.failed
      /\ r.active = q.active /\ r.slice = q.slice /\ r.net = <<>> /\ r.done = q.done
      /\ r.status = q.status
  BY <1>1, <1>4 DEF StreamRecord
<1>6. Working(q) /\ (q.asked \/ ~q.up)
  BY <1>2 DEF Alike
<1>7. Continues(q, r) /\ (Orderly(q) => Carried(q, r))
  BY <1>2, <1>5, <1>6, DrainIs
<1>8. t.last \in Nat /\ q.last \in Nat /\ r.last \in Nat /\ NextPart(t) \in Nat
  BY Fields, HeldType
<1>9. Continues(t, r)
  BY <1>2, <1>5, <1>7, <1>8 DEF Alike, Continues
<1>10. ASSUME Orderly(t) PROVE Carried(t, r)
  <2>1. Carried(q, r)
    BY <1>2, <1>7, <1>10 DEF Alike
  <2>2. /\ Held(q) = Held(t) /\ NextPart(q) = NextPart(t) /\ q.failed = t.failed
        /\ q.asked = t.asked /\ Told(q) = Told(t)
    BY <1>2 DEF Alike, Told
  <2>3. QED
    BY <2>1, <2>2 DEF Carried
<1>11. QED
  BY <1>9, <1>10

LEMMA DrainedGoes ==
    ASSUME TypeOK, NEW s \in Streams, NEW finish \in {"flush", "complete"}, Working(streams[s]),
           Drains(s), streams[s].asked \/ ~streams[s].up,
           streams' = [streams EXCEPT ![s] = Drained(streams[s], finish)]
    PROVE  Goes(s)
<1>1. streams[s] \in StreamRecord /\ streams'[s] = Drained(streams[s], finish)
  BY Typed DEF TypeOK
<1>2. streams'[s] \in StreamRecord
  BY <1>1, Typed, DrainedType DEF StreamTyped
<1>3. streams[s].slice # <<>> => streams[s].active = NoPart /\ streams[s].phase = "open"
  BY DEF Drains
<1>4. QED
  BY <1>1, <1>2, <1>3, DrainedRecord DEF Goes

LEMMA PartFailsGoes ==
    ASSUME TypeOK, NEW s \in Streams, PartFails(s), Working(streams[s])
    PROVE  Goes(s)
<1> DEFINE t == streams[s]
           r == streams'[s]
<1>1. t \in StreamRecord /\ r \in StreamRecord
  BY Typed, PartFailsMoves DEF Moves, StreamTyped
<1>2. r = [t EXCEPT !.active = NoPart, !.failed = TRUE, !.done = Append(@, Upload(t.active, FALSE))]
  BY PartFailsMoves
<1>3. /\ r.up = t.up /\ r.upload = t.upload /\ r.asked = t.asked /\ r.phase = t.phase
      /\ r.failed /\ r.active = NoPart /\ r.slice = t.slice /\ r.net = t.net
      /\ r.status = t.status /\ r.done = Append(t.done, Upload(t.active, FALSE))
  BY <1>1, <1>2 DEF StreamRecord
<1>4. Told(r) \subseteq Told(t)
  <2>1. t.active \in Part /\ t.done \in Seq(Finished) /\ Len(t.done) \in Nat
    BY <1>1, Fields, ActivePart DEF PartFails, CanStore, CanMiss
  <2>2. Upload(t.active, FALSE) \in Finished /\ ~Upload(t.active, FALSE).ok
    BY <2>1, UploadType
  <2>3. Reports(Append(t.done, Upload(t.active, FALSE))) = Reports(t.done)
    BY <2>1, <2>2, ReportsAppend
  <2>4. QED
    BY <1>3, <2>3 DEF Told
<1>5. r.phase \notin {"open", "cancelled"} => r.slice = <<>> /\ r.net = <<>>
  BY <1>3 DEF Working
<1> HIDE DEF r, t
<1>6. Continues(t, r) /\ (Orderly(t) => Carried(t, r))
  BY <1>1, <1>3, <1>4, <1>5, FailedIs
<1>7. QED
  BY <1>6 DEF Goes, r, t

LEMMA ReportGoes ==
    ASSUME TypeOK, NEW s \in Streams, NEW k, Report(s, k), Working(streams[s])
    PROVE  Goes(s)
<1> DEFINE t == streams[s]
           r == streams'[s]
<1>1. t \in StreamRecord /\ r \in StreamRecord /\ t.done \in Seq(Finished) /\ k \in DOMAIN t.done
  BY Typed, ReportMoves, Fields DEF Moves, StreamTyped
<1>2. PICK d : d = RemoveAt(t.done, k)
  OBVIOUS
<1> HIDE DEF t, r
<1>3. /\ Reports(d) \subseteq Reports(t.done)
      /\ t.done[k].ok => t.done[k].index \in Reports(t.done)
      /\ \A j \in DOMAIN d : \E i \in DOMAIN t.done : d[j] = t.done[i]
  BY <1>1, <1>2, ReportsRemove
<1>4. \A j \in DOMAIN d : d[j].ok \/ t.failed
  BY <1>3 DEF Working, t
<1>a. \E stream \in StreamRecord : \E p :
         /\ stream = [t EXCEPT !.done = RemoveAt(t.done, k)]
         /\ \/ /\ t.done[k].ok
               /\ r = [stream EXCEPT !.parts = p, !.status = StatusSent(stream, t.done[k].index)]
            \/ ~t.done[k].ok /\ r = stream
            \/ /\ ~t.done[k].ok
               /\ r = [stream EXCEPT !.phase = "cancelled", !.slice = <<>>,
                                     !.done = <<>>, !.parts = {}, !.last = 0]
  BY ReportMoves, Zenon DEF t, r
<1>5. PICK stream, p :
         /\ stream \in StreamRecord /\ stream = [t EXCEPT !.done = d]
         /\ \/ /\ t.done[k].ok
               /\ r = [stream EXCEPT !.parts = p, !.status = StatusSent(stream, t.done[k].index)]
            \/ ~t.done[k].ok /\ r = stream
            \/ /\ ~t.done[k].ok
               /\ r = [stream EXCEPT !.phase = "cancelled", !.slice = <<>>,
                                     !.done = <<>>, !.parts = {}, !.last = 0]
  BY <1>2, <1>a, Zenon
<1>6. /\ stream.net = t.net /\ stream.slice = t.slice /\ stream.active = t.active
      /\ stream.last = t.last /\ stream.phase = t.phase /\ stream.failed = t.failed
      /\ stream.upload = t.upload /\ stream.up = t.up /\ stream.asked = t.asked
      /\ stream.status = t.status /\ stream.done = d
  BY <1>1, <1>5 DEF StreamRecord
<1>9. CASE t.done[k].ok
  <2>1. PICK q : /\ q = StatusSent(stream, t.done[k].index)
                 /\ r = [stream EXCEPT !.parts = p, !.status = q]
    BY <1>5, <1>9
  <2>2. /\ r.net = stream.net /\ r.slice = stream.slice /\ r.active = stream.active
        /\ r.last = stream.last /\ r.phase = stream.phase /\ r.failed = stream.failed
        /\ r.upload = stream.upload /\ r.up = stream.up /\ r.asked = stream.asked
        /\ r.done = stream.done /\ r.status = q
    BY <1>5, <2>1 DEF StreamRecord
  <2>3. ToSet(q) \subseteq Told(t)
    <3>1. q = t.status \/ q = <<t.done[k].index>>
      BY <1>6, <2>1 DEF StatusSent
    <3>2. ToSet(<<t.done[k].index>>) = {t.done[k].index}
      BY DEF ToSet
    <3>3. QED
      BY <1>3, <1>9, <3>1, <3>2 DEF Told
  <2>4. Told(r) \subseteq Told(t)
    BY <1>3, <1>6, <2>2, <2>3 DEF Told
  <2>5. SameWork(t, r)
    BY <1>6, <2>2 DEF SameWork
  <2>6. Continues(t, r) /\ (Orderly(t) => Carried(t, r))
    <3>1. Working(t)
      BY DEF t
    <3>2. QED
      BY <1>1, <1>4, <1>6, <2>2, <2>4, <2>5, <3>1, SameIs
  <2>7. QED
    BY <2>6 DEF Goes, t, r
<1>10. CASE ~t.done[k].ok /\ r = stream
  <2>1. SameWork(t, r) /\ Told(r) \subseteq Told(t) /\ r.done = d
    BY <1>3, <1>6, <1>10 DEF SameWork, Told
  <2>2. Working(t)
    BY DEF t
  <2>3. Continues(t, r) /\ (Orderly(t) => Carried(t, r))
    BY <1>1, <1>4, <1>6, <1>10, <2>1, <2>2, SameIs
  <2>4. QED
    BY <2>3 DEF Goes, t, r
<1>11. CASE /\ ~t.done[k].ok
            /\ r = [stream EXCEPT !.phase = "cancelled", !.slice = <<>>,
                                        !.done = <<>>, !.parts = {}, !.last = 0]
  <2>1. /\ r.net = stream.net /\ r.slice = <<>> /\ r.active = stream.active
        /\ r.phase = "cancelled" /\ r.failed = stream.failed
        /\ r.upload = stream.upload /\ r.up = stream.up /\ r.asked = stream.asked
        /\ r.done = <<>> /\ r.status = stream.status
    BY <1>5, <1>11 DEF StreamRecord
  <2>2. t.failed
    <3>1. Working(t)
      BY DEF t
    <3>2. QED
      BY <1>1, <1>11, <3>1 DEF Working
  <2>3. Told(r) \subseteq Told(t)
    BY <1>6, <2>1 DEF Told, Reports
  <2>4. Continues(t, r) /\ (Orderly(t) => Carried(t, r))
    BY <1>1, <1>6, <2>1, <2>2, <2>3, FailedIs
  <2>5. QED
    BY <2>4 DEF Goes, t, r
<1>12. QED
  BY <1>5, <1>9, <1>10, <1>11

LEMMA ServesGoes ==
    ASSUME TypeOK, NEW s \in Streams, Serves(s), Working(streams[s])
    PROVE  Goes(s)
<1>1. streams[s] \in StreamRecord /\ streams'[s] \in StreamRecord
  BY Typed, ServesMoves DEF Moves, StreamTyped
<1>2. CASE Receive(s)
  BY <1>2, ReceiveGoes
<1>3. CASE HandlerFails(s)
  BY <1>3, HandlerFailsGoes
<1>4. CASE Flush(s)
  BY <1>4, DrainedGoes DEF Flush, CanFlush
<1>5. CASE Complete(s)
  BY <1>5, DrainedGoes DEF Complete, CanComplete
<1>6. CASE StartUpload(s)
  BY <1>6, StartUploadGoes
<1>7. CASE PartFails(s)
  BY <1>7, PartFailsGoes
<1>8. CASE Closed(s)
  BY <1>1, <1>8, ClosedMoves, GoneType, IdleIs DEF Goes
<1>9. CASE \E k \in 1..MaxEvents : Report(s, k)
  BY <1>9, ReportGoes
<1>10. CASE Disconnect(s)
  <2>1. streams'[s] = [streams[s] EXCEPT !.up = FALSE]
    BY <1>10, DownType DEF Disconnect
  <2>2. PICK t, r : t = streams[s] /\ r = streams'[s]
    OBVIOUS
  <2>3. /\ SameWork(t, r) /\ Told(r) \subseteq Told(t) /\ r.upload = t.upload /\ ~r.up
        /\ r.asked = t.asked /\ r.done = t.done
    BY <1>1, <2>1, <2>2 DEF StreamRecord, SameWork, Told
  <2>4. Continues(t, r) /\ (Orderly(t) => Carried(t, r))
    BY <1>1, <2>2, <2>3, SameIs DEF Working
  <2>5. QED
    BY <2>2, <2>4 DEF Goes
<1>11. CASE Crash(s)
  BY <1>1, <1>11, CrashMoves, GoneType, IdleIs DEF Goes
<1>12. QED
  BY <1>2, <1>3, <1>4, <1>5, <1>6, <1>7, <1>8, <1>9, <1>10, <1>11 DEF Serves

-----------------------------------------------------------------------------
(* The phases of streams and writer *)

InPhase(w, s, t) ==
    /\ Working(t)
    /\ s # w.stream => ~t.up
    /\ s > w.stream => t = NoStream
    /\ s <= w.stream => t.upload \in 1..s
    /\ t.asked => w.pc = "ended"
    /\ t.up => t.phase \in {"open", "cancelled"} \/ w.pc = "ended"

PhaseInv ==
    /\ TypeOK
    /\ \A s \in Streams : InPhase(writer, s, streams[s])
    /\ writer.pc = "resume" => ~Current.up
    /\ writer.pc = "replay" => writer.replayed < Len(writer.buffer)
    /\ writer.upload <= writer.stream
    /\ writer.upload # 0 => Current.upload = writer.upload
    /\ \A u \in Uploads : PartsOf(u) # {} => u <= writer.stream

\* The fields of a stream that is not there,
LEMMA NoStreamFields ==
    /\ NoStream.upload = 0 /\ ~NoStream.up /\ NoStream.net = <<>> /\ ~NoStream.asked
    /\ NoStream.phase = "none" /\ NoStream.slice = <<>> /\ NoStream.last = 0
    /\ NoStream.active = NoPart /\ NoStream.done = <<>> /\ ~NoStream.failed
    /\ NoStream.status = <<>>
BY DEF NoStream

\* and of a new one.
LEMMA NewStreamFields ==
    ASSUME NEW u, NEW parts, NEW r, r = NewStream(u, parts)
    PROVE  /\ r.upload = u /\ r.up /\ r.net = <<>> /\ ~r.asked
           /\ r.phase = "open" /\ r.slice = <<>> /\ r.last = LastPart(parts)
           /\ r.active = NoPart /\ r.done = <<>> /\ ~r.failed /\ r.status = <<-1>>
BY DEF NoStream, NewStream

\* The phases of the streams are right if no stream changes.
LEMMA WriterStays ==
    ASSUME NEW w, NEW v, NEW s, NEW t, InPhase(w, s, t), v.stream = w.stream,
           w.pc = "ended" => v.pc = "ended"
    PROVE  InPhase(v, s, t)
BY DEF InPhase

\* A stream that is not opened yet does nothing.
LEMMA ServesOpened ==
    ASSUME PhaseInv, NEW s \in Streams, Serves(s) \/ PartStored(s)
    PROVE  s <= writer.stream /\ s \in 1..writer.stream /\ streams[s] \in StreamRecord
           /\ streams[s].upload \in 1..s /\ streams[s].upload \in Uploads
<1>1. writer.stream \in Nat /\ s \in Nat /\ s > 0 /\ TypeOK
  BY CurrentType, Bounds DEF PhaseInv
<1>2. streams[s] # NoStream
  <2>1. SUFFICES ASSUME streams[s] = NoStream PROVE FALSE
    OBVIOUS
  <2>2. /\ streams[s].phase = "none" /\ ~streams[s].up /\ streams[s].active = NoPart
    BY <2>1, NoStreamFields
  <2>3. QED
    BY <2>2 DEF Serves, Receive, CanReceive, HandlerFails, CanRefuse, Flush, CanFlush, Complete, CanComplete, Drains, StartUpload, CanStart, PartFails, CanMiss,
                Closed, CanClose, Report, CanReport, Disconnect, Crash, PartStored, CanStore
<1>3. s <= writer.stream
  BY <1>1, <1>2 DEF PhaseInv, InPhase
<1>4. streams[s].upload \in 1..s
  BY <1>3 DEF PhaseInv, InPhase
<1>5. streams[s].upload \in Uploads
  BY <1>1, <1>4, Bounds DEF Uploads, Streams
<1>6. QED
  BY <1>1, <1>3, <1>4, <1>5, Typed

\* The phases of the streams, step by step.
LEMMA ServesPhase ==
    ASSUME PhaseInv, NEW s \in Streams, Serves(s)
    PROVE  PhaseInv'
<1>1. TypeOK /\ Moves(s) /\ UNCHANGED <<writer, stored, log>> /\ TypeOK'
  <2>1. TypeOK
    BY DEF PhaseInv
  <2>2. /\ Moves(s) /\ UNCHANGED <<writer, stored, checking, log>>
        /\ sealed' \subseteq Uploads /\ faults' \in 0..MaxFaults
        /\ mishaps' \in {mishaps, mishaps \cup {"again"}}
    BY <2>1, ServesOpened, ServesMoves
  <2>3. streams' \in [Streams -> StreamRecord] /\ \A q \in Streams : StreamTyped(streams'[q])
    BY <2>1, <2>2, MovesType
  <2>4. OthersTyped'
    BY <2>1, <2>2 DEF OthersTyped, TypeOK
  <2>5. TypeOK'
    BY <2>1, <2>2, <2>3, <2>4, TypeOf DEF TypeOK
  <2>6. QED
    BY <2>1, <2>2, <2>5
<1>2. Continues(streams[s], streams'[s])
  BY <1>1, ServesGoes DEF Goes, PhaseInv, InPhase
<1>3. s <= writer.stream /\ s \in Nat /\ writer.stream \in Nat
  BY <1>1, ServesOpened, CurrentType, Bounds
<1>4. InPhase(writer, s, streams'[s])
  <2>1. InPhase(writer, s, streams[s])
    BY DEF PhaseInv
  <2>2. QED
    BY <1>2, <1>3, <2>1 DEF InPhase, Continues
<1>5. \A q \in Streams : q # s => streams'[q] = streams[q]
  BY <1>1, MovesType
<1>6. \A q \in Streams : InPhase(writer', q, streams'[q])
  BY <1>1, <1>4, <1>5 DEF PhaseInv
<1>7. writer.stream \in Streams
  BY <1>1, CurrentType
<1>8. Current'.upload = Current.upload /\ (Current'.up => Current.up)
  BY <1>1, <1>2, <1>5, <1>7 DEF Current, Continues
<1>9. \A u \in Uploads : PartsOf(u)' = PartsOf(u)
  BY <1>1 DEF PartsOf
<1>10. QED
  BY <1>1, <1>6, <1>8, <1>9 DEF PhaseInv

LEMMA PartStoredPhase ==
    ASSUME PhaseInv, NEW s \in Streams, PartStored(s)
    PROVE  /\ PhaseInv'
           /\ streams[s].active \in Part /\ streams[s].active # NoPart /\ ~streams[s].failed
           /\ \A q \in Streams : q # s => streams'[q] = streams[q]
           /\ LET u == streams[s].upload
                  part == streams[s].active
              IN  /\ u \in Uploads
                  /\ stored'[u] = WithPart(part, stored[u])
                  /\ \A v \in Uploads : v # u => stored'[v] = stored[v]
                  /\ \A v \in Uploads : v = u => PartsOf(v)' = PartsOf(v) \cup {part.number}
                  /\ \A v \in Uploads : v # u => PartsOf(v)' = PartsOf(v)
<1> DEFINE u == streams[s].upload
           part == streams[s].active
<1>1. /\ TypeOK /\ TypeOK' /\ UNCHANGED <<writer, log>> /\ part \in Part
      /\ stored' = [stored EXCEPT ![u] = WithPart(part, stored[u])]
  BY PartStoredType DEF PhaseInv
<1>2. part # NoPart /\ ~streams[s].failed
  BY DEF PartStored, CanStore
<1>3. u \in Uploads /\ u \in 1..s /\ s <= writer.stream
  BY ServesOpened
<1>4. /\ stored'[u] = WithPart(part, stored[u])
      /\ \A v \in Uploads : v # u => stored'[v] = stored[v]
  BY <1>1, <1>3 DEF TypeOK
<1>5. ASSUME NEW v \in Uploads, v = u
      PROVE  PartsOf(v)' = PartsOf(v) \cup {part.number}
  <2>1. stored[v] \in Seq(Seq(Events)) /\ stored'[v] = WithPart(part, stored[v])
    BY <1>1, <1>4, <1>5 DEF TypeOK
  <2>2. part.events # <<>>
    BY <1>1 DEF Part
  <2>3. PartsOf(v)' = {n \in DOMAIN stored'[v] : stored'[v][n] # <<>>}
    BY DEF PartsOf
  <2> HIDE DEF u, part
  <2>4. QED
    BY <1>1, <2>1, <2>2, <2>3, Uploaded DEF PartsOf
<1>6. \A v \in Uploads : v # u => PartsOf(v)' = PartsOf(v)
  BY <1>4 DEF PartsOf
<1>7. \A q \in Streams : q # s => streams'[q] = streams[q]
  BY <1>1, PartStoredMoves, MovesType
<1>8. PhaseInv'
  <2> DEFINE r == streams'[s]
  <2>1. r = [streams[s] EXCEPT !.active = NoPart, !.done = Append(@, Upload(part, TRUE))]
    BY <1>1, PartStoredMoves
  <2>2. streams[s] \in StreamRecord
    BY <1>1, Typed
  <2>3. /\ r.upload = u /\ r.up = streams[s].up /\ r.asked = streams[s].asked
        /\ r.phase = streams[s].phase /\ r.failed = streams[s].failed /\ r.active = NoPart
        /\ r.slice = streams[s].slice /\ r.net = streams[s].net
        /\ r.done = Append(streams[s].done, Upload(part, TRUE))
    BY <2>1, <2>2 DEF StreamRecord
  <2>4. InPhase(writer, s, streams[s])
    BY DEF PhaseInv
  <2>5. Working(r)
    <3>1. PICK d, e : d = streams[s].done /\ e = Upload(part, TRUE)
      OBVIOUS
    <3>2. d \in Seq(Finished) /\ e \in Finished /\ e.ok /\ r.done = Append(d, e)
      BY <1>1, <2>2, <2>3, <3>1, Fields, UploadType
    <3>3. /\ DOMAIN d = 1..Len(d) /\ DOMAIN r.done = 1..(Len(d) + 1) /\ Len(d) \in Nat
          /\ \A j \in 1..Len(d) : r.done[j] = d[j]
          /\ r.done[Len(d) + 1] = e
      BY <3>2, AppendAt
    <3>4. \A j \in DOMAIN r.done : j \in DOMAIN d \/ j = Len(d) + 1
      BY <3>3
    <3>5. ASSUME NEW j \in DOMAIN r.done PROVE r.done[j].ok \/ r.failed
      <4>1. CASE j \in DOMAIN d
        <5>1. d[j].ok \/ streams[s].failed
          BY <2>4, <3>1, <4>1 DEF InPhase, Working
        <5>2. r.done[j] = d[j]
          BY <3>3, <4>1
        <5>3. QED
          BY <2>3, <5>1, <5>2
      <4>2. CASE j = Len(d) + 1
        BY <3>2, <3>3, <4>2
      <4>3. QED
        BY <3>4, <4>1, <4>2
    <3>6. QED
      BY <2>3, <2>4, <3>5 DEF InPhase, Working
  <2>6. s \in Nat /\ writer.stream \in Nat /\ writer.stream \in Streams
    BY <1>1, CurrentType, Bounds
  <2>7. InPhase(writer, s, r)
    BY <1>3, <2>3, <2>4, <2>5, <2>6 DEF InPhase
  <2>8. \A q \in Streams : InPhase(writer', q, streams'[q])
    BY <1>1, <1>7, <2>7 DEF PhaseInv
  <2>9. Current'.upload = Current.upload /\ Current'.up = Current.up
    BY <1>1, <1>7, <2>3, <2>6 DEF Current
  <2>10. \A v \in Uploads : PartsOf(v)' # {} => v <= writer.stream
    <3>1. u <= writer.stream
      BY <1>3, <2>6
    <3>2. QED
      BY <1>6, <3>1 DEF PhaseInv
  <2>11. QED
    BY <1>1, <2>8, <2>9, <2>10 DEF PhaseInv
<1>9. QED
  BY <1>1, <1>2, <1>3, <1>4, <1>5, <1>6, <1>7, <1>8

\* What a step of the writer, which concerns its current stream only, has to keep.
LEMMA OwnPhase ==
    ASSUME PhaseInv, TypeOK', writer'.stream = writer.stream,
           \A q \in Streams : q # writer.stream => streams'[q] = streams[q],
           UNCHANGED stored,
           NEW t, t = streams[writer.stream], NEW r, r = streams'[writer.stream],
           r.upload = t.upload, r.up => t.up, r.phase = t.phase, Working(r),
           r.asked => t.asked \/ writer'.pc = "ended",
           writer.pc = "ended" => writer'.pc = "ended",
           writer'.pc = "resume" => ~r.up,
           writer'.pc = "replay" => writer'.replayed < Len(writer'.buffer),
           writer'.upload = writer.upload \/ writer'.upload = t.upload
    PROVE  PhaseInv'
<1>1. TypeOK /\ writer.stream \in Streams /\ writer.stream \in Nat
  BY CurrentType, Bounds DEF PhaseInv
<1>2. InPhase(writer, writer.stream, t)
  BY <1>1 DEF PhaseInv
<1>3. InPhase(writer', writer.stream, r)
  BY <1>1, <1>2 DEF InPhase
<1>4. \A q \in Streams : InPhase(writer', q, streams'[q])
  <2>1. TAKE q \in Streams
  <2>2. CASE q = writer.stream
    BY <1>3, <2>2
  <2>3. CASE q # writer.stream
    BY <2>3, WriterStays DEF PhaseInv
  <2>4. QED
    BY <2>2, <2>3
<1>5. Current' = r /\ Current = t
  BY DEF Current
<1>6. t.upload <= writer.stream
  BY <1>1, <1>2 DEF InPhase
<1>7. \A u \in Uploads : PartsOf(u)' = PartsOf(u)
  BY DEF PartsOf
<1>8. QED
  BY <1>4, <1>5, <1>6, <1>7 DEF PhaseInv

LEMMA UnstreamedPhase ==
    ASSUME PhaseInv, Unstreamed
    PROVE  PhaseInv'
<1>1. /\ TypeOK' /\ UNCHANGED <<streams, stored, log>>
      /\ writer'.buffer = writer.buffer /\ writer'.upload = writer.upload
      /\ writer'.stream = writer.stream
  BY UnstreamedType DEF PhaseInv
<1>2. writer \in Writer /\ writer.stream \in Streams /\ Working(streams[writer.stream])
  BY CurrentType DEF PhaseInv, InPhase
<1>3. \/ writer' = [writer EXCEPT !.closing = TRUE]
      \/ ~Current.up /\ writer' = [writer EXCEPT !.pc = "resume"]
      \/ writer' = [writer EXCEPT !.pc = "ended", !.closing = TRUE, !.replayed = 0]
      \/ \E i \in Events : writer' = [writer EXCEPT !.taken = @ \cup {i}, !.backoff = TRUE]
      \/ writer' = writer
  BY DEF Unstreamed, Close, StreamDone, GiveUp, CanGiveUp, ReplayFails, CanFail, Lose, CheckUpload, ListUpload
<1>4. writer.pc = "ended" => writer'.pc = "ended"
  <2>1. writer.pc = "ended" => ~StreamDone
    BY DEF StreamDone
  <2>2. writer' = [writer EXCEPT !.pc = "resume"] \/ writer'.pc = "ended" \/ writer'.pc = writer.pc
    BY <1>2, <1>3 DEF Writer
  <2>3. StreamDone \/ writer'.pc = "ended" \/ writer'.pc = writer.pc
    BY <1>2 DEF Unstreamed, Close, StreamDone, GiveUp, CanGiveUp, ReplayFails, CanFail, Lose, CheckUpload, ListUpload, Writer
  <2>4. QED
    BY <2>1, <2>3
<1>5. writer'.pc = "resume" => ~streams[writer.stream].up
  <2>1. writer.pc = "resume" => ~streams[writer.stream].up
    BY DEF PhaseInv, Current
  <2>2. writer'.pc = "resume" => writer.pc = "resume" \/ ~streams[writer.stream].up
    <3>1. \/ ~streams[writer.stream].up
          \/ writer'.pc = "ended"
          \/ writer'.pc = writer.pc
      <4>1. CASE ~Current.up
        BY <4>1 DEF Current
      <4>2. CASE Current.up
        BY <1>2, <1>3, <4>2 DEF Writer
      <4>3. QED
        BY <4>1, <4>2
    <3>2. QED
      BY <3>1
  <2>3. QED
    BY <2>1, <2>2
<1>6. writer'.pc = "replay" => writer'.replayed < Len(writer'.buffer)
  BY <1>1, <1>2, <1>3 DEF PhaseInv, Writer
<1>7. QED
  BY <1>1, <1>2, <1>4, <1>5, <1>6, OwnPhase

LEMMA SendPhase ==
    ASSUME PhaseInv, NEW i \in Events, Send(i)
    PROVE  PhaseInv'
<1>1. TypeOK /\ TypeOK' /\ writer \in Writer /\ writer.stream \in Streams /\ Current \in StreamRecord
  BY SendType, CurrentType DEF PhaseInv
<1>2. Working(Current)
  BY <1>1 DEF PhaseInv, InPhase, Current
<1>3. /\ writer'.stream = writer.stream /\ writer'.upload = writer.upload
      /\ writer.pc = "run" /\ writer'.pc = (IF Current.up THEN "run" ELSE "resume")
  BY <1>1 DEF Send, Writer
<1>4. CASE Current.up
  <2>1. streams'[writer.stream] = [Current EXCEPT !.net = Append(@, i)] /\ Moves(writer.stream)
    BY <1>1, <1>4, SendMoves
  <2>2. PICK t, r : t = Current /\ r = streams'[writer.stream]
    OBVIOUS
  <2>3. /\ r.upload = t.upload /\ r.up = t.up /\ r.phase = t.phase /\ r.asked = t.asked
        /\ r.done = t.done /\ r.failed = t.failed /\ r.active = t.active /\ r.last = t.last
    BY <1>1, <2>1, <2>2 DEF StreamRecord
  <2>4. Working(r)
    <3>1. t.phase \in {"open", "cancelled"}
      BY <1>1, <1>3, <1>4, <2>2 DEF PhaseInv, InPhase, Current
    <3>2. QED
      BY <1>2, <2>2, <2>3, <3>1 DEF Working
  <2>5. \A q \in Streams : q # writer.stream => streams'[q] = streams[q]
    BY <1>1, <2>1, MovesType
  <2>6. UNCHANGED stored
    BY DEF Send
  <2>7. t = streams[writer.stream]
    BY <2>2 DEF Current
  <2>8. QED
    BY <1>1, <1>3, <1>4, <2>2, <2>3, <2>4, <2>5, <2>6, <2>7, OwnPhase
<1>5. CASE ~Current.up
  <2>1. streams' = streams /\ UNCHANGED stored
    BY <1>1, <1>5, SendMoves DEF Send
  <2>2. QED
    BY <1>1, <1>2, <1>3, <1>5, <2>1, OwnPhase DEF Current
<1>6. QED
  BY <1>4, <1>5

\* The writer takes a status.
LEMMA ReadFields ==
    ASSUME NEW t \in StreamRecord, NEW r, r = [t EXCEPT !.status = <<>>]
    PROVE  /\ r.upload = t.upload /\ r.up = t.up /\ r.asked = t.asked /\ SameWork(t, r)
           /\ r.phase = t.phase /\ r.done = t.done /\ r.status = <<>>
           /\ Told(r) \subseteq Told(t)
           /\ Working(t) => Working(r)
<1>1. /\ r.upload = t.upload /\ r.up = t.up /\ r.asked = t.asked /\ SameWork(t, r)
      /\ r.phase = t.phase /\ r.done = t.done /\ r.status = <<>>
  BY DEF StreamRecord, SameWork
<1>2. Told(r) \subseteq Told(t)
  BY <1>1, SetEmpty DEF Told
<1>3. Working(t) => Working(r)
  BY <1>1 DEF Working, SameWork
<1>4. QED
  BY <1>1, <1>2, <1>3

LEMMA TakeStatusPhase ==
    ASSUME PhaseInv, TakeStatus
    PROVE  PhaseInv'
<1>1. TypeOK /\ TypeOK' /\ writer \in Writer /\ writer.stream \in Streams /\ Current \in StreamRecord
  BY TakeStatusType, CurrentType DEF PhaseInv
<1>2. Moves(writer.stream) /\ streams'[writer.stream] = [Current EXCEPT !.status = <<>>]
  BY <1>1, StatusMoves DEF TakeStatus
<1>3. PICK t, r : t = Current /\ r = streams'[writer.stream]
  OBVIOUS
<1>4. Working(t) /\ t = streams[writer.stream]
  BY <1>1, <1>3 DEF PhaseInv, InPhase, Current
<1>5. r.upload = t.upload /\ r.up = t.up /\ r.asked = t.asked /\ r.phase = t.phase /\ Working(r)
  BY <1>1, <1>2, <1>3, <1>4, ReadFields
<1>6. \A q \in Streams : q # writer.stream => streams'[q] = streams[q]
  BY <1>1, <1>2, MovesType
<1>7. /\ writer'.stream = writer.stream /\ writer'.upload = t.upload /\ writer.pc = "run"
      /\ writer'.pc = "run" /\ UNCHANGED stored
  BY <1>1, <1>3 DEF TakeStatus, Writer
<1>8. QED
  BY <1>1, <1>3, <1>4, <1>5, <1>6, <1>7, OwnPhase

LEMMA ResumedPhase ==
    ASSUME PhaseInv, Resumed
    PROVE  PhaseInv'
<1>1. TypeOK /\ TypeOK' /\ writer \in Writer /\ writer.stream \in Streams /\ Current \in StreamRecord
  BY ResumedType, CurrentType DEF PhaseInv
<1>2. Moves(writer.stream) /\ streams'[writer.stream] = [Current EXCEPT !.status = <<>>]
  BY <1>1, StatusMoves DEF Resumed
<1>3. PICK t, r : t = Current /\ r = streams'[writer.stream]
  OBVIOUS
<1>4. Working(t) /\ t = streams[writer.stream]
  BY <1>1, <1>3 DEF PhaseInv, InPhase, Current
<1>5. r.upload = t.upload /\ r.up = t.up /\ r.asked = t.asked /\ r.phase = t.phase /\ Working(r)
  BY <1>1, <1>2, <1>3, <1>4, ReadFields
<1>6. \A q \in Streams : q # writer.stream => streams'[q] = streams[q]
  BY <1>1, <1>2, MovesType
<1>7. /\ writer'.stream = writer.stream /\ writer'.upload = writer.upload /\ writer.pc = "await"
      /\ writer'.pc = (IF writer.buffer = <<>> THEN "run" ELSE "replay") /\ UNCHANGED stored
      /\ writer'.replayed = 0 /\ writer'.buffer = writer.buffer
  BY <1>1, <1>3 DEF Resumed, Writer
<1>8. writer'.pc = "replay" => writer'.replayed < Len(writer'.buffer)
  <2>1. SUFFICES ASSUME writer.buffer # <<>> PROVE 0 < Len(writer.buffer)
    BY <1>7
  <2>2. writer.buffer \in Seq(Events)
    BY <1>1, WriterFields
  <2>3. QED
    BY <2>1, <2>2
<1>9. QED
  BY <1>1, <1>3, <1>4, <1>5, <1>6, <1>7, <1>8, OwnPhase

\* A stream whose connection is gone is otherwise what it was.
LEMMA DownFields ==
    ASSUME NEW t \in StreamRecord, NEW r, r = [t EXCEPT !.up = FALSE]
    PROVE  /\ r.upload = t.upload /\ ~r.up /\ r.asked = t.asked /\ SameWork(t, r)
           /\ r.phase = t.phase /\ r.done = t.done /\ r.status = t.status
           /\ Told(r) = Told(t)
           /\ Working(t) => Working(r)
<1>1. /\ r.upload = t.upload /\ ~r.up /\ r.asked = t.asked /\ SameWork(t, r)
      /\ r.phase = t.phase /\ r.done = t.done /\ r.status = t.status
  BY DEF StreamRecord, SameWork
<1>2. Told(r) = Told(t)
  BY <1>1 DEF Told
<1>3. Working(t) => Working(r)
  BY <1>1 DEF Working, SameWork
<1>4. QED
  BY <1>1, <1>2, <1>3

LEMMA AwaitTimesOutPhase ==
    ASSUME PhaseInv, AwaitTimesOut
    PROVE  PhaseInv'
<1>1. TypeOK /\ TypeOK' /\ writer \in Writer /\ writer.stream \in Streams /\ Current \in StreamRecord
  BY AwaitTimesOutType, CurrentType DEF PhaseInv
<1>2. Moves(writer.stream) /\ streams'[writer.stream] = [Current EXCEPT !.up = FALSE]
  BY <1>1, DownType DEF AwaitTimesOut, CanTimeOut, Current
<1>3. PICK t, r : t = Current /\ r = streams'[writer.stream]
  OBVIOUS
<1>4. Working(t) /\ t = streams[writer.stream]
  BY <1>1, <1>3 DEF PhaseInv, InPhase, Current
<1>5. r.upload = t.upload /\ ~r.up /\ r.asked = t.asked /\ r.phase = t.phase /\ Working(r)
  BY <1>1, <1>2, <1>3, <1>4, DownFields
<1>6. \A q \in Streams : q # writer.stream => streams'[q] = streams[q]
  BY <1>1, <1>2, MovesType
<1>7. /\ writer'.stream = writer.stream /\ writer'.upload = writer.upload /\ writer.pc = "await"
      /\ writer'.pc = "resume" /\ UNCHANGED stored
  BY <1>1, <1>3 DEF AwaitTimesOut, CanTimeOut, Writer
<1>8. QED
  BY <1>1, <1>3, <1>4, <1>5, <1>6, <1>7, OwnPhase

LEMMA ReplayPhase ==
    ASSUME PhaseInv, Replay
    PROVE  PhaseInv'
<1>1. writer.replayed < Len(writer.buffer)
  BY DEF PhaseInv, Replay, CanReplay
<1>2. /\ TypeOK /\ TypeOK' /\ writer \in Writer /\ writer.stream \in Streams
      /\ Current \in StreamRecord /\ Moves(writer.stream)
  BY <1>1, ReplayType, CurrentType DEF PhaseInv
<1>3. PICK t, r : t = Current /\ r = streams'[writer.stream]
  OBVIOUS
<1>4. Working(t) /\ t = streams[writer.stream]
  BY <1>2, <1>3 DEF PhaseInv, InPhase, Current
<1>5. PICK i : i = writer.buffer[writer.replayed + 1]
  OBVIOUS
<1>6. r = [t EXCEPT !.net = Append(@, i)]
  BY <1>1, <1>2, <1>3, <1>5, ReplayMoves
<1>7. /\ r.upload = t.upload /\ r.up = t.up /\ r.phase = t.phase /\ r.asked = t.asked
      /\ r.done = t.done /\ r.failed = t.failed /\ r.active = t.active /\ r.last = t.last
  BY <1>2, <1>3, <1>6 DEF StreamRecord
<1>8. Working(r)
  <2>1. t.up /\ writer.pc = "replay"
    BY <1>3 DEF Replay, CanReplay
  <2>2. t.phase \in {"open", "cancelled"}
    BY <1>2, <1>4, <2>1 DEF PhaseInv, InPhase
  <2>3. QED
    BY <1>4, <1>7, <2>2 DEF Working
<1>9. \A q \in Streams : q # writer.stream => streams'[q] = streams[q]
  BY <1>2, MovesType
<1>10. /\ writer'.stream = writer.stream /\ writer'.upload = writer.upload /\ writer.pc = "replay"
       /\ UNCHANGED stored /\ writer'.buffer = writer.buffer
       /\ \/ writer'.pc = "run"
          \/ /\ writer.replayed + 1 # Len(writer.buffer) /\ writer'.pc = "replay"
             /\ writer'.replayed = writer.replayed + 1
  BY <1>2 DEF Replay, CanReplay, Writer
<1>11. writer'.pc = "replay" => writer'.replayed < Len(writer'.buffer)
  <2>1. writer.replayed \in Nat /\ Len(writer.buffer) \in Nat
    BY <1>2, WriterFields
  <2>2. QED
    BY <1>1, <1>10, <2>1
<1>12. writer'.pc # "resume"
  BY <1>10
<1>13. QED
  BY <1>2, <1>3, <1>4, <1>7, <1>8, <1>9, <1>10, <1>11, <1>12, OwnPhase

LEMMA FinishPhase ==
    ASSUME PhaseInv, Finish
    PROVE  PhaseInv'
<1>1. TypeOK /\ TypeOK' /\ writer \in Writer /\ writer.stream \in Streams /\ Current \in StreamRecord
  BY FinishType, CurrentType DEF PhaseInv
<1>2. Moves(writer.stream) /\ streams'[writer.stream] = [Current EXCEPT !.asked = Current.up]
  BY <1>1, FinishMoves
<1>3. PICK t, r : t = Current /\ r = streams'[writer.stream]
  OBVIOUS
<1>4. Working(t) /\ t = streams[writer.stream]
  BY <1>1, <1>3 DEF PhaseInv, InPhase, Current
<1>5. /\ r.upload = t.upload /\ r.up = t.up /\ r.phase = t.phase
      /\ r.done = t.done /\ r.failed = t.failed /\ r.active = t.active /\ r.last = t.last
      /\ r.slice = t.slice /\ r.net = t.net
  BY <1>1, <1>2, <1>3 DEF StreamRecord
<1>6. Working(r)
  BY <1>4, <1>5 DEF Working
<1>7. \A q \in Streams : q # writer.stream => streams'[q] = streams[q]
  BY <1>1, <1>2, MovesType
<1>8. /\ writer'.stream = writer.stream /\ writer'.upload = writer.upload
      /\ writer'.pc = "ended" /\ UNCHANGED stored
  BY <1>1, <1>3 DEF Finish, CanFinish, Writer
<1>9. QED
  BY <1>1, <1>3, <1>4, <1>5, <1>6, <1>7, <1>8, OwnPhase

\* The stream that Resume begins.
LEMMA BegunFields ==
    ASSUME PhaseInv, Resume
    PROVE  /\ Begun.up /\ Begun.net = <<>> /\ ~Begun.asked
           /\ Begun.phase = "open" /\ Begun.slice = <<>> /\ Begun.active = NoPart
           /\ Begun.done = <<>> /\ ~Begun.failed /\ Begun.status = <<-1>>
           /\ writer.upload = 0 => Begun.upload = Next1 /\ Begun.last = 0
           /\ writer.upload # 0 => /\ Begun.upload = writer.upload
                                   /\ Begun.last = LastPart(Listed(writer.upload))
           /\ Begun.upload \in 1..Next1 /\ Begun.upload \in Uploads
           /\ Working(Begun)
<1>1. CASE writer.upload = 0
  <2>1. Begun = NewStream(Next1, {})
    BY <1>1 DEF Begun
  <2>2. LastPart({}) = 0
    BY DEF LastPart
  <2>3. Next1 \in Streams /\ Next1 \in Nat /\ Next1 > 0
    BY ResumeMoves, Bounds DEF PhaseInv
  <2>4. Working(Begun)
    BY <2>1, NewStreamFields DEF Working
  <2>5. QED
    BY <1>1, <2>1, <2>2, <2>3, <2>4, NewStreamFields DEF Uploads
<1>2. CASE writer.upload # 0
  <2>1. Begun = NewStream(writer.upload, Listed(writer.upload))
    BY <1>2 DEF Begun
  <2>2. writer.upload \in 0..MaxStreams /\ writer.stream \in Streams
    BY CurrentType, WriterFields DEF PhaseInv
  <2>3. writer.upload <= writer.stream
    BY DEF PhaseInv
  <2>4. writer.upload \in 1..Next1 /\ writer.upload \in Uploads
    BY <1>2, <2>2, <2>3, Bounds DEF Next1, Uploads, Streams
  <2>5. Working(Begun)
    BY <2>1, NewStreamFields DEF Working
  <2>6. QED
    BY <1>2, <2>1, <2>4, <2>5, NewStreamFields
<1>3. QED
  BY <1>1, <1>2

LEMMA ResumePhase ==
    ASSUME PhaseInv, Resume
    PROVE  /\ PhaseInv'
           /\ writer.pc = "resume"
           /\ writer' = [writer EXCEPT !.pc = "await", !.stream = Next1]
           /\ writer'.stream = Next1 /\ writer'.pc = "await" /\ writer'.upload = writer.upload
           /\ writer'.buffer = writer.buffer /\ writer'.taken = writer.taken
           /\ writer'.replayed = writer.replayed
           /\ Next1 = writer.stream + 1 /\ Next1 \in Streams /\ writer.stream \in Streams
           /\ UNCHANGED <<stored, log>>
           /\ streams'[Next1] = Begun /\ Begun \in StreamRecord
           /\ streams'[writer.stream] = [Current EXCEPT !.status = <<>>]
           /\ \A q \in Streams \ {Next1, writer.stream} : streams'[q] = streams[q]
<1>1. /\ TypeOK /\ TypeOK' /\ Next1 \in Streams /\ Next1 # writer.stream /\ Begun \in StreamRecord
      /\ streams'[Next1] = Begun
      /\ streams'[writer.stream] = [Current EXCEPT !.status = <<>>]
      /\ \A q \in Streams \ {Next1, writer.stream} : streams'[q] = streams[q]
  BY ResumeMoves, ResumeType DEF PhaseInv, StreamTyped
<1>2. writer \in Writer /\ writer.stream \in Streams /\ Current \in StreamRecord
  BY <1>1, CurrentType
<1>3. /\ writer.pc = "resume" /\ Next1 = writer.stream + 1
      /\ writer' = [writer EXCEPT !.pc = "await", !.stream = Next1]
      /\ UNCHANGED <<stored, log>>
  BY DEF Resume, Next1
<1>4. /\ writer'.stream = Next1 /\ writer'.pc = "await" /\ writer'.upload = writer.upload
      /\ writer'.buffer = writer.buffer /\ writer'.taken = writer.taken
      /\ writer'.replayed = writer.replayed
  BY <1>2, <1>3 DEF Writer
<1>5. PICK t, r : t = Current /\ r = streams'[writer.stream]
  OBVIOUS
<1>6. /\ t = streams[writer.stream] /\ ~t.up /\ InPhase(writer, writer.stream, t)
  BY <1>2, <1>3, <1>5 DEF PhaseInv, Current
<1>7. /\ r.upload = t.upload /\ r.up = t.up /\ r.asked = t.asked /\ Working(r)
  BY <1>1, <1>2, <1>5, <1>6, ReadFields DEF InPhase
<1>8. writer.stream \in Nat /\ Next1 \in Nat
  BY <1>1, <1>2, Bounds
<1>9. InPhase(writer', writer.stream, r)
  <2>1. ~t.asked
    BY <1>3, <1>6 DEF InPhase
  <2>2. t.upload \in 1..writer.stream
    BY <1>6, <1>8 DEF InPhase
  <2>3. QED
    BY <1>3, <1>4, <1>6, <1>7, <1>8, <2>1, <2>2 DEF InPhase
<1>10. InPhase(writer', Next1, Begun)
  BY <1>4, <1>8, BegunFields DEF InPhase
<1>11. ASSUME NEW q \in Streams PROVE InPhase(writer', q, streams'[q])
  <2>1. CASE q = writer.stream
    BY <1>5, <1>9, <2>1
  <2>2. CASE q = Next1
    BY <1>1, <1>10, <2>2
  <2>3. CASE q # writer.stream /\ q # Next1
    <3>1. streams'[q] = streams[q]
      BY <1>1, <2>3
    <3>2. q \in Nat
      BY Bounds
    <3>3. InPhase(writer, q, streams[q])
      BY DEF PhaseInv
    <3>4. q > Next1 => q > writer.stream
      BY <1>3, <1>8, <3>2
    <3>5. q <= Next1 => q <= writer.stream
      BY <1>3, <1>8, <2>3, <3>2
    <3>6. InPhase(writer', q, streams[q])
      BY <1>3, <1>4, <2>3, <3>3, <3>4, <3>5 DEF InPhase
    <3>7. QED
      BY <3>1, <3>6
  <2>4. QED
    BY <2>1, <2>2, <2>3
<1>12. \A u \in Uploads : PartsOf(u)' = PartsOf(u)
  BY <1>3 DEF PartsOf
<1>13. \A u \in Uploads : PartsOf(u)' # {} => u <= writer'.stream
  <2>1. \A u \in Uploads : PartsOf(u) # {} => u <= writer.stream
    BY DEF PhaseInv
  <2>2. \A u \in Uploads : u \in Nat
    BY Bounds DEF Uploads
  <2>3. QED
    BY <1>3, <1>4, <1>8, <1>12, <2>1, <2>2
<1>14. writer'.upload <= writer'.stream /\ (writer'.upload # 0 => Begun.upload = writer'.upload)
  <2>1. writer.upload <= writer.stream /\ writer.upload \in Int
    BY <1>2, WriterFields DEF PhaseInv
  <2>2. QED
    BY <1>3, <1>4, <1>8, <2>1, BegunFields
<1>15. Current' = Begun
  BY <1>1, <1>4 DEF Current
<1>16. PhaseInv'
  BY <1>1, <1>4, <1>11, <1>13, <1>14, <1>15 DEF PhaseInv
<1>17. QED
  BY <1>1, <1>2, <1>3, <1>4, <1>16

\* The first stream is open.
LEMMA PhaseStart == AuditInit => PhaseInv
<1> SUFFICES ASSUME AuditInit PROVE PhaseInv
  OBVIOUS
<1>1. TypeOK
  <2>1. StreamTyped(NewStream(1, {})) /\ StreamTyped(NoStream)
    <3>1. {} \subseteq 1..0 /\ 0 \in Nat /\ 1 \in 0..MaxStreams
      BY Bounds
    <3>2. QED
      BY <3>1, NewStreamType, NoStreamType
  <2>2. \A s \in Streams : StreamTyped(streams[s])
    BY <2>1 DEF AuditInit
  <2>3. streams \in [Streams -> StreamRecord]
    BY <2>1 DEF AuditInit, StreamTyped
  <2>4. writer \in Writer
    BY Bounds DEF AuditInit, Writer
  <2>5. stored \in [Uploads -> Seq(Seq(Events))]
    BY DEF AuditInit
  <2>6. /\ sealed \subseteq Uploads /\ log \in Seq(Events) /\ faults \in 0..MaxFaults
        /\ checking \in [1..Completers -> [upload : Uploads, parts : SUBSET Nat] \cup {NoCheck}]
        /\ mishaps \subseteq {"crowded", "overwritten", "missed", "again"}
    BY Bounds DEF AuditInit
  <2>7. QED
    BY <2>2, <2>3, <2>4, <2>5, <2>6 DEF TypeOK, StreamTyped
<1>2. writer.stream = 1 /\ writer.pc = "run" /\ writer.upload = 0
  BY DEF AuditInit
<1>3. PICK t : t = NewStream(1, {})
  OBVIOUS
<1>4. /\ t.up /\ t.phase = "open" /\ ~t.asked /\ t.upload = 1 /\ Working(t)
  BY <1>3, NewStreamFields DEF Working
<1>5. ASSUME NEW s \in Streams PROVE InPhase(writer, s, streams[s])
  <2>1. CASE s = 1
    <3>1. streams[s] = t
      BY <1>3, <2>1, Bounds DEF AuditInit
    <3>2. QED
      BY <1>2, <1>4, <2>1, <3>1 DEF InPhase
  <2>2. CASE s # 1
    <3>1. streams[s] = NoStream /\ s > 1
      BY <2>2, Bounds DEF AuditInit
    <3>2. Working(NoStream) /\ ~NoStream.up /\ ~NoStream.asked
      BY NoStreamFields DEF Working
    <3>3. ~(s <= 1)
      BY <3>1, Bounds
    <3>4. QED
      BY <1>2, <2>2, <3>1, <3>2, <3>3 DEF InPhase
  <2>3. QED
    BY <2>1, <2>2
<1>6. \A u \in Uploads : PartsOf(u) = {}
  BY DEF AuditInit, PartsOf
<1>7. QED
  BY <1>1, <1>2, <1>5, <1>6 DEF PhaseInv

\* The actions by what they touch.
LEMMA ByCase ==
    ASSUME AuditNext
    PROVE  \/ Unstreamed \/ TakeStatus \/ Resume \/ Resumed \/ AwaitTimesOut \/ Replay \/ Finish
           \/ \E i \in Events : Send(i)
           \/ \E s \in Streams : Serves(s) \/ PartStored(s)
<1>1. ASSUME NEW s \in Streams, ServerNext(s) \/ Disconnect(s) \/ Crash(s)
      PROVE  Serves(s) \/ PartStored(s)
  BY <1>1 DEF ServerNext, Serves
<1>2. QED
  BY <1>1, Zenon DEF AuditNext, WriterNext, Unstreamed

\* Every step keeps types and phases.
LEMMA PhaseStep == PhaseInv /\ [AuditNext]_vars => PhaseInv'
<1> SUFFICES ASSUME PhaseInv, [AuditNext]_vars PROVE PhaseInv'
  OBVIOUS
<1>1. CASE AuditNext
  BY <1>1, ByCase, UnstreamedPhase, TakeStatusPhase, ResumePhase, ResumedPhase, AwaitTimesOutPhase,
     ReplayPhase, FinishPhase, SendPhase, ServesPhase, PartStoredPhase
<1>2. CASE UNCHANGED vars
  BY <1>2 DEF vars, others, PhaseInv, TypeOK, PartsOf, Current
<1>3. QED
  BY <1>1, <1>2

\* The state of a recording stays within its types: what the writer, the streams
\* and the storage (AuditWriter, ProtoStream, UploadPart) keep, and how much is on
\* the way between them.
THEOREM AuditTyped == AuditSpec => []TypeOK
<1>1. PhaseInv => TypeOK
  BY DEF PhaseInv
<1>2. QED
  BY <1>1, PhaseStart, PhaseStep, PTL DEF AuditSpec

-----------------------------------------------------------------------------
(* The numbers of the parts *)

\* As long as no stream was resumed too close to its predecessors, what a stream may
\* still store comes before everything that a later stream of the upload may use, and
\* none of it is stored; the current stream has all the parts of its upload behind it.
Apart(s1, t, s2, r) ==
    s1 < s2 /\ t.upload = r.upload => Precede(MayStore(t), Claims(r))

Numbers(parts) == {n \in DOMAIN parts : parts[n] # <<>>}

Fresh(t, parts) == MayStore(t) \cap Numbers(parts) = {}

Past(t, parts) == t.phase = "open" /\ ~t.failed => \A n \in Numbers(parts) : n <= t.last

Opened == 1..writer.stream

NumbersHold ==
    /\ \A s1, s2 \in Opened :
          streams[s1].upload \notin sealed => Apart(s1, streams[s1], s2, streams[s2])
    /\ \A s \in Opened :
          streams[s].upload \notin sealed => Fresh(streams[s], stored[streams[s].upload])
    /\ Current.upload \notin sealed => Past(Current, stored[Current.upload])

NumberInv == PhaseInv /\ ("crowded" \notin mishaps => NumbersHold)

\* The streams that were opened have their uploads.
LEMMA OpenedType ==
    ASSUME PhaseInv
    PROVE  /\ Opened \subseteq Streams /\ writer.stream \in Opened
           /\ \A s \in Opened : /\ s \in Nat /\ s <= writer.stream
                                /\ streams[s] \in StreamRecord
                                /\ streams[s].upload \in 1..s /\ streams[s].upload \in Uploads
<1>1. TypeOK /\ writer.stream \in Streams
  BY CurrentType DEF PhaseInv
<1>2. Opened \subseteq Streams /\ writer.stream \in Opened
  BY <1>1, Bounds DEF Opened, Streams
<1>3. ASSUME NEW s \in Opened
      PROVE  /\ s \in Nat /\ s <= writer.stream
             /\ streams[s] \in StreamRecord
             /\ streams[s].upload \in 1..s /\ streams[s].upload \in Uploads
  <2>1. s \in Nat /\ s <= writer.stream /\ s <= MaxStreams
    BY <1>1, <1>2, Bounds DEF Opened
  <2>2. streams[s] \in StreamRecord
    BY <1>1, <1>2, Typed
  <2>3. streams[s].upload \in 1..s
    BY <1>2, <2>1 DEF PhaseInv, InPhase
  <2>4. streams[s].upload \in Uploads
    BY <2>1, <2>3, Bounds DEF Uploads, Streams
  <2>5. QED
    BY <2>1, <2>2, <2>3, <2>4
<1>4. QED
  BY <1>2, <1>3

\* What a stream may store is among what it claims.
LEMMA MayStoreIs ==
    ASSUME NEW t \in StreamRecord
    PROVE  /\ MayStore(t) \subseteq Claims(t)
           /\ Claims(t) \subseteq Nat
           /\ \A n \in MayStore(t) : /\ ~t.failed
                                     /\ \/ t.active # NoPart /\ n = t.active.number
                                        \/ t.phase = "open" /\ n > t.last
           /\ t.active # NoPart /\ ~t.failed => t.active.number \in MayStore(t)
           /\ t.phase = "open" /\ ~t.failed => t.last + 1 \in Claims(t)
<1>1. Ahead(t) \in Nat /\ t.last \in Nat
  BY AheadIs, Fields
<1>2. ASSUME NEW n \in MayStore(t)
      PROVE  /\ n \in Nat /\ ~t.failed
             /\ \/ t.active # NoPart /\ n = t.active.number
                \/ t.phase = "open" /\ n > t.last
  <2>1. ~t.failed
    BY DEF MayStore
  <2>2. CASE t.active # NoPart /\ n = t.active.number
    BY <2>1, <2>2, ActivePart
  <2>3. CASE t.phase = "open" /\ n \in t.last + 1 .. t.last + Ahead(t)
    BY <1>1, <2>1, <2>3
  <2>4. QED
    BY <2>1, <2>2, <2>3 DEF MayStore
<1>3. MayStore(t) \subseteq Claims(t)
  BY <1>2 DEF Claims
<1>4. t.last + 1 \in Nat /\ t.last + 1 > t.last
  BY <1>1
<1>5. t.phase = "open" /\ ~t.failed => t.last + 1 \in Claims(t)
  BY <1>4 DEF Claims
<1>6. t.active # NoPart /\ ~t.failed => t.active.number \in MayStore(t)
  BY DEF MayStore
<1>7. QED
  BY <1>2, <1>3, <1>5, <1>6 DEF Claims

\* The numbers of the stored parts.
LEMMA NumbersIs ==
    ASSUME TypeOK, NEW u \in Uploads
    PROVE  Numbers(stored[u]) = PartsOf(u) /\ Numbers(stored[u]) \subseteq Nat
<1>1. Numbers(stored[u]) = PartsOf(u)
  BY DEF Numbers, PartsOf
<1>2. QED
  BY <1>1, PartsOfType

\* A step that changes one stream, with what it may still store becoming less.
LEMMA GoesNumber ==
    ASSUME PhaseInv, NumbersHold, PhaseInv', NEW s \in Opened, Continues(streams[s], streams'[s]),
           \A q \in Streams : q # s => streams'[q] = streams[q],
           writer'.stream = writer.stream, UNCHANGED stored, sealed \subseteq sealed'
    PROVE  NumbersHold'
<1>1. PICK t, r : t = streams[s] /\ r = streams'[s]
  OBVIOUS
<1>2. /\ r.upload = t.upload /\ Claims(r) \subseteq Claims(t) /\ MayStore(r) \subseteq MayStore(t)
      /\ r.phase = "open" /\ ~r.failed => t.phase = "open" /\ ~t.failed /\ t.last <= r.last
  BY <1>1 DEF Continues
<1>3. Opened \subseteq Streams /\ Opened' = Opened /\ writer.stream \in Opened
  BY OpenedType DEF Opened
<1>4. \A q \in Opened : q = s \/ streams'[q] = streams[q]
  BY <1>3
<1>5. ASSUME NEW q \in Opened
      PROVE  /\ streams'[q].upload = streams[q].upload
             /\ MayStore(streams'[q]) \subseteq MayStore(streams[q])
             /\ Claims(streams'[q]) \subseteq Claims(streams[q])
  <2>1. CASE q = s
    BY <1>1, <1>2, <2>1
  <2>2. CASE streams'[q] = streams[q]
    BY <2>2
  <2>3. QED
    BY <1>4, <2>1, <2>2
<1>6. ASSUME NEW s1 \in Opened, NEW s2 \in Opened, streams'[s1].upload \notin sealed'
      PROVE  Apart(s1, streams'[s1], s2, streams'[s2])
  <2>1. Apart(s1, streams[s1], s2, streams[s2])
    BY <1>5, <1>6 DEF NumbersHold
  <2>2. QED
    BY <1>5, <2>1 DEF Apart, Precede
<1>7. ASSUME NEW q \in Opened, streams'[q].upload \notin sealed'
      PROVE  Fresh(streams'[q], stored'[streams'[q].upload])
  <2>1. Fresh(streams[q], stored[streams[q].upload])
    BY <1>5, <1>7 DEF NumbersHold
  <2>2. QED
    BY <1>5, <2>1 DEF Fresh
<1>8. ASSUME Current'.upload \notin sealed'
      PROVE  Past(Current', stored'[Current'.upload])
  <2>1. Current' = streams'[writer.stream] /\ Current = streams[writer.stream]
    BY DEF Current
  <2>2. Past(Current, stored[Current.upload])
    BY <1>3, <1>5, <1>8, <2>1 DEF NumbersHold
  <2>3. CASE streams'[writer.stream] = streams[writer.stream]
    BY <2>1, <2>2, <2>3
  <2>4. CASE writer.stream = s
    <3>1. Current' = r /\ Current = t
      BY <1>1, <2>1, <2>4
    <3>2. t.last \in Nat /\ r.last \in Nat
      BY <1>1, <1>3, Typed, Fields DEF PhaseInv, TypeOK
    <3>3. Numbers(stored[t.upload]) \subseteq Nat
      BY <1>1, OpenedType, NumbersIs DEF PhaseInv
    <3>4. PICK P : P = stored[t.upload] /\ P = stored'[r.upload]
      BY <1>2
    <3>5. Past(r, P)
      BY <1>2, <2>2, <3>1, <3>2, <3>3, <3>4 DEF Past
    <3>6. QED
      BY <3>1, <3>4, <3>5
  <2>5. QED
    BY <1>3, <1>4, <2>3, <2>4
<1>9. QED
  BY <1>3, <1>6, <1>7, <1>8 DEF NumbersHold

\* The numbers of the parts, step by step.
LEMMA ServesNumber ==
    ASSUME PhaseInv, NumbersHold, NEW s \in Streams, Serves(s)
    PROVE  NumbersHold'
<1>1. PhaseInv' /\ TypeOK
  BY ServesPhase DEF PhaseInv
<1>2. Moves(s) /\ UNCHANGED <<writer, stored>> /\ sealed \subseteq sealed'
  BY <1>1, ServesMoves
<1>3. Continues(streams[s], streams'[s])
  BY <1>1, ServesGoes DEF Goes, PhaseInv, InPhase
<1>4. s \in Opened
  BY ServesOpened DEF Opened
<1>5. \A q \in Streams : q # s => streams'[q] = streams[q]
  BY <1>1, <1>2, MovesType
<1>6. QED
  BY <1>1, <1>2, <1>3, <1>4, <1>5, GoesNumber

\* A step of the writer, which may send an event to its current stream.
LEMMA OwnNumber ==
    ASSUME PhaseInv, NumbersHold, PhaseInv', writer'.stream = writer.stream,
           UNCHANGED <<stored, sealed>>,
           \A q \in Streams : q # writer.stream => streams'[q] = streams[q],
           NEW t, t = Current, NEW r, r = streams'[writer.stream],
           r.upload = t.upload, r.phase = t.phase, r.failed = t.failed,
           r.active = t.active, r.last = t.last
    PROVE  NumbersHold'
<1>1. Opened \subseteq Streams /\ Opened' = Opened /\ writer.stream \in Opened
  BY OpenedType DEF Opened
<1>2. /\ t = streams[writer.stream] /\ t \in StreamRecord /\ r \in StreamRecord /\ TypeOK
      /\ t.upload \in Uploads
  BY <1>1, Typed, OpenedType DEF Current, PhaseInv, TypeOK
<1>3. Claims(r) = Claims(t)
  BY DEF Claims
<1>4. \A n \in MayStore(r) : n \in MayStore(t) \/ (t.phase = "open" /\ ~t.failed /\ n > t.last)
  <2>1. \A n \in MayStore(r) : /\ ~r.failed
                               /\ \/ r.active # NoPart /\ n = r.active.number
                                  \/ r.phase = "open" /\ n > r.last
    BY <1>2, MayStoreIs
  <2>2. t.active # NoPart /\ ~t.failed => t.active.number \in MayStore(t)
    BY <1>2, MayStoreIs
  <2>3. QED
    BY <2>1, <2>2
<1>5. \A q \in Opened : q = writer.stream \/ (streams'[q] = streams[q] /\ q < writer.stream)
  <2>1. \A q \in Opened : q \in Nat /\ q <= writer.stream
    BY OpenedType
  <2>2. QED
    BY <1>1, <2>1
<1>6. ASSUME NEW s1 \in Opened, NEW s2 \in Opened, streams'[s1].upload \notin sealed'
      PROVE  Apart(s1, streams'[s1], s2, streams'[s2])
  <2>1. Apart(s1, streams[s1], s2, streams[s2])
    <3>1. streams'[s1].upload = streams[s1].upload
      BY <1>2, <1>5
    <3>2. QED
      BY <1>6, <3>1 DEF NumbersHold
  <2>2. s1 \in Nat /\ s2 \in Nat /\ s1 <= writer.stream /\ s2 <= writer.stream /\ writer.stream \in Nat
    BY <1>1, OpenedType
  <2>3. CASE s1 < s2
    <3>1. streams'[s1] = streams[s1]
      BY <1>5, <2>2, <2>3
    <3>2. streams'[s2].upload = streams[s2].upload /\ Claims(streams'[s2]) = Claims(streams[s2])
      BY <1>2, <1>3, <1>5
    <3>3. QED
      BY <2>1, <3>1, <3>2 DEF Apart
  <2>4. CASE ~(s1 < s2)
    BY <2>4 DEF Apart
  <2>5. QED
    BY <2>3, <2>4
<1>7. PICK P : P = stored[t.upload] /\ P = stored'[r.upload]
  OBVIOUS
<1>8. /\ t.upload \notin sealed => Past(t, P) /\ Fresh(t, P)
      /\ Numbers(P) \subseteq Nat /\ t.last \in Nat
  <2>1. t.upload \notin sealed => Fresh(streams[writer.stream], stored[streams[writer.stream].upload])
    BY <1>1, <1>2 DEF NumbersHold
  <2>2. t.upload \notin sealed => Past(Current, stored[Current.upload])
    BY DEF NumbersHold
  <2>3. Numbers(stored[t.upload]) \subseteq Nat
    BY <1>2, NumbersIs
  <2>4. QED
    BY <1>2, <1>7, <2>1, <2>2, <2>3, Fields
<1>9. ASSUME t.upload \notin sealed PROVE Fresh(r, P)
  <2>1. ASSUME NEW n \in MayStore(r) PROVE n \notin Numbers(P)
    <3>1. CASE n \in MayStore(t)
      BY <1>8, <1>9, <3>1 DEF Fresh
    <3>2. CASE t.phase = "open" /\ ~t.failed /\ n > t.last
      <4>1. \A m \in Numbers(P) : m \in Nat /\ m <= t.last
        BY <1>8, <1>9, <3>2 DEF Past
      <4>2. QED
        BY <1>8, <3>2, <4>1
    <3>3. QED
      BY <1>4, <3>1, <3>2
  <2>2. QED
    BY <2>1 DEF Fresh
<1>10. t.upload \notin sealed => Past(r, P)
  BY <1>8 DEF Past
<1>11. ASSUME NEW q \in Opened, streams'[q].upload \notin sealed'
       PROVE  Fresh(streams'[q], stored'[streams'[q].upload])
  <2>1. CASE q = writer.stream
    BY <1>7, <1>9, <1>11, <2>1
  <2>2. CASE streams'[q] = streams[q]
    BY <1>11, <2>2 DEF NumbersHold
  <2>3. QED
    BY <1>5, <2>1, <2>2
<1>12. Current' = r
  BY DEF Current
<1>13. Current'.upload \notin sealed' => Past(Current', stored'[Current'.upload])
  BY <1>7, <1>10, <1>12
<1>14. QED
  BY <1>1, <1>6, <1>11, <1>13 DEF NumbersHold

LEMMA SendNumber ==
    ASSUME PhaseInv, NumbersHold, NEW i \in Events, Send(i)
    PROVE  NumbersHold'
<1>1. PhaseInv' /\ TypeOK /\ writer.stream \in Streams /\ writer'.stream = writer.stream
      /\ UNCHANGED <<stored, sealed>>
  BY SendPhase, CurrentType DEF PhaseInv, Send, Writer
<1>2. PICK t, r : t = Current /\ r = streams'[writer.stream]
  OBVIOUS
<1>3. t \in StreamRecord
  BY <1>1, <1>2, CurrentType
<1>4. CASE Current.up
  <2>1. Moves(writer.stream) /\ r = [t EXCEPT !.net = Append(@, i)]
    BY <1>1, <1>2, <1>4, SendMoves
  <2>2. /\ r.upload = t.upload /\ r.phase = t.phase /\ r.failed = t.failed
        /\ r.active = t.active /\ r.last = t.last
    BY <1>3, <2>1 DEF StreamRecord
  <2>3. \A q \in Streams : q # writer.stream => streams'[q] = streams[q]
    BY <1>1, <2>1, MovesType
  <2>4. QED
    BY <1>1, <1>2, <2>2, <2>3, OwnNumber
<1>5. CASE ~Current.up
  <2>1. streams' = streams
    BY <1>1, <1>5, SendMoves
  <2>2. r = t
    BY <1>2, <2>1 DEF Current
  <2>3. QED
    BY <1>1, <1>2, <2>1, <2>2, OwnNumber
<1>6. QED
  BY <1>4, <1>5

LEMMA ReplayNumber ==
    ASSUME PhaseInv, NumbersHold, Replay
    PROVE  NumbersHold'
<1>1. /\ PhaseInv' /\ TypeOK /\ writer.stream \in Streams /\ writer'.stream = writer.stream
      /\ UNCHANGED <<stored, sealed>> /\ writer.replayed < Len(writer.buffer)
  BY ReplayPhase, CurrentType DEF PhaseInv, Replay, CanReplay, Writer
<1>2. PICK t, r : t = Current /\ r = streams'[writer.stream]
  OBVIOUS
<1>3. PICK i : i = writer.buffer[writer.replayed + 1]
  OBVIOUS
<1>4. t \in StreamRecord
  BY <1>1, <1>2, CurrentType
<1>5. Moves(writer.stream) /\ r = [t EXCEPT !.net = Append(@, i)]
  BY <1>1, <1>2, <1>3, ReplayMoves
<1>6. /\ r.upload = t.upload /\ r.phase = t.phase /\ r.failed = t.failed
      /\ r.active = t.active /\ r.last = t.last
  BY <1>4, <1>5 DEF StreamRecord
<1>7. \A q \in Streams : q # writer.stream => streams'[q] = streams[q]
  BY <1>1, <1>5, MovesType
<1>8. QED
  BY <1>1, <1>2, <1>6, <1>7, OwnNumber

\* The other steps of the writer, but for Resume, leave the work of the stream alone.
WriterOnly == TakeStatus \/ Resumed \/ AwaitTimesOut \/ Finish

LEMMA WriterOnlyWork ==
    ASSUME PhaseInv, WriterOnly
    PROVE  /\ PhaseInv' /\ TypeOK /\ writer.stream \in Streams /\ writer'.stream = writer.stream
           /\ UNCHANGED <<stored, sealed, log, others>> /\ writer'.taken = writer.taken
           /\ \A q \in Streams : q # writer.stream => streams'[q] = streams[q]
           /\ LET t == Current
                  r == streams'[writer.stream]
              IN  /\ t \in StreamRecord /\ r \in StreamRecord /\ SameWork(t, r)
                  /\ r.upload = t.upload /\ Told(r) \subseteq Told(t)
                  /\ (r.up => t.up) /\ r.done = t.done
                  /\ r.asked = t.asked \/ writer'.pc = "ended"
<1>1. PhaseInv'
  BY TakeStatusPhase, ResumedPhase, AwaitTimesOutPhase, FinishPhase DEF WriterOnly
<1>2. TypeOK /\ writer.stream \in Streams /\ writer \in Writer /\ Current \in StreamRecord
  BY CurrentType DEF PhaseInv
<1>3. /\ writer'.stream = writer.stream /\ writer'.taken = writer.taken
      /\ UNCHANGED <<stored, sealed, log, others>>
  <2>1. CASE TakeStatus
    BY <1>2, <2>1 DEF TakeStatus, Writer
  <2>2. CASE Resumed
    BY <1>2, <2>2 DEF Resumed, Writer
  <2>3. CASE AwaitTimesOut
    BY <1>2, <2>3 DEF AwaitTimesOut, Writer
  <2>4. CASE Finish
    BY <1>2, <2>4 DEF Finish, Writer
  <2>5. QED
    BY <2>1, <2>2, <2>3, <2>4 DEF WriterOnly
<1>4. PICK t, r : t = Current /\ r = streams'[writer.stream]
  OBVIOUS
<1>5. /\ Moves(writer.stream)
      /\ \/ r = [t EXCEPT !.status = <<>>]
         \/ r = [t EXCEPT !.up = FALSE]
         \/ r = [t EXCEPT !.asked = Current.up] /\ writer'.pc = "ended"
  <2>1. CASE TakeStatus \/ Resumed
    BY <1>2, <1>4, <2>1, StatusMoves DEF TakeStatus, Resumed
  <2>2. CASE AwaitTimesOut
    BY <1>2, <1>4, <2>2, DownType DEF AwaitTimesOut, CanTimeOut, Current
  <2>3. CASE Finish
    <3>1. writer'.pc = "ended"
      BY <1>2, <2>3 DEF Finish, CanFinish, Writer
    <3>2. QED
      BY <1>2, <1>4, <2>3, <3>1, FinishMoves
  <2>4. QED
    BY <2>1, <2>2, <2>3 DEF WriterOnly
<1>6. \A q \in Streams : q # writer.stream => streams'[q] = streams[q]
  BY <1>2, <1>5, MovesType
<1>7. r \in StreamRecord /\ t \in StreamRecord
  BY <1>2, <1>4, <1>5 DEF Moves, StreamTyped
<1>8. /\ SameWork(t, r) /\ r.upload = t.upload /\ Told(r) \subseteq Told(t)
      /\ (r.up => t.up) /\ r.done = t.done
      /\ r.asked = t.asked \/ writer'.pc = "ended"
  <2>1. CASE r = [t EXCEPT !.status = <<>>]
    BY <1>7, <2>1, ReadFields
  <2>2. CASE r = [t EXCEPT !.up = FALSE]
    BY <1>7, <2>2, DownFields
  <2>3. CASE r = [t EXCEPT !.asked = Current.up] /\ writer'.pc = "ended"
    <3>1. /\ SameWork(t, r) /\ r.upload = t.upload /\ r.status = t.status /\ r.up = t.up
          /\ r.done = t.done
      BY <1>7, <2>3 DEF StreamRecord, SameWork
    <3>2. QED
      BY <2>3, <3>1 DEF Told
  <2>4. QED
    BY <1>5, <2>1, <2>2, <2>3
<1>9. QED
  BY <1>1, <1>2, <1>3, <1>4, <1>6, <1>7, <1>8

LEMMA WriterOnlyNumber ==
    ASSUME PhaseInv, NumbersHold, WriterOnly
    PROVE  NumbersHold'
<1>1. PICK t, r : t = Current /\ r = streams'[writer.stream]
  OBVIOUS
<1>2. /\ PhaseInv' /\ writer'.stream = writer.stream /\ UNCHANGED <<stored, sealed>>
      /\ \A q \in Streams : q # writer.stream => streams'[q] = streams[q]
      /\ SameWork(t, r) /\ r.upload = t.upload
  BY <1>1, WriterOnlyWork
<1>3. QED
  BY <1>1, <1>2, OwnNumber DEF SameWork

LEMMA UnstreamedNumber ==
    ASSUME PhaseInv, NumbersHold, Unstreamed
    PROVE  NumbersHold'
<1>1. UNCHANGED <<streams, stored>> /\ writer'.stream = writer.stream /\ sealed \subseteq sealed'
  BY UnstreamedType DEF PhaseInv
<1>2. QED
  BY <1>1 DEF NumbersHold, Opened, Current

\* What is left of a stream whose part was stored.
StoredOf(t) == [t EXCEPT !.active = NoPart, !.done = Append(@, Upload(t.active, TRUE))]

Stores(t, r) ==
    /\ r.upload = t.upload /\ r.up = t.up /\ r.asked = t.asked /\ r.phase = t.phase
    /\ r.failed = t.failed /\ r.active = NoPart /\ r.last = t.last /\ r.status = t.status
    /\ r.slice = t.slice /\ r.net = t.net
    /\ r.done = Append(t.done, Upload(t.active, TRUE))
    /\ MayStore(r) \subseteq MayStore(t) \ {t.active.number}
    /\ Claims(r) \subseteq Claims(t)
    /\ t.active.number \in MayStore(t)
    /\ t.phase = "open" => t.active.number <= t.last

LEMMA StoredFields ==
    ASSUME NEW t \in StreamRecord, t.active # NoPart, ~t.failed, Working(t),
           NEW r, r = StoredOf(t)
    PROVE  Stores(t, r)
<1>1. /\ r.upload = t.upload /\ r.up = t.up /\ r.asked = t.asked /\ r.phase = t.phase
      /\ r.failed = t.failed /\ r.active = NoPart /\ r.last = t.last /\ r.status = t.status
      /\ r.slice = t.slice /\ r.net = t.net
      /\ r.done = Append(t.done, Upload(t.active, TRUE))
  BY DEF StoredOf, StreamRecord
<1>2. t.active.number \in MayStore(t) /\ t.active.number \in Nat /\ t.last \in Nat
  BY MayStoreIs, ActivePart, Fields
<1>3. t.phase = "open" => t.active.number <= t.last
  BY DEF Working
<1>4. MayStore(r) = IF t.phase = "open" THEN t.last + 1 .. t.last + Ahead(t) ELSE {}
  BY <1>1 DEF MayStore, Ahead
<1>5. Ahead(t) \in Nat
  BY AheadIs
<1>6. t.active.number \notin MayStore(r)
  BY <1>2, <1>3, <1>4, <1>5
<1>7. MayStore(r) \subseteq MayStore(t)
  BY <1>4 DEF MayStore
<1>8. Claims(r) \subseteq Claims(t)
  BY <1>1 DEF Claims
<1>9. QED
  BY <1>1, <1>2, <1>3, <1>6, <1>7, <1>8 DEF Stores

\* A stored part has a number of its own, which is then taken.
LEMMA PartStoredNumber ==
    ASSUME PhaseInv, NumbersHold, NEW s \in Streams, PartStored(s)
    PROVE  NumbersHold' /\ streams[s].active.number \notin PartsOf(streams[s].upload)
<1>1. PICK t, r, n, u : t = streams[s] /\ r = streams'[s] /\ n = t.active.number /\ u = t.upload
  OBVIOUS
<1>2. PhaseInv /\ TypeOK /\ u \notin sealed /\ sealed' = sealed
  BY <1>1 DEF PhaseInv, PartStored, CanStore
<1>3. /\ PhaseInv' /\ t.active \in Part /\ t.active # NoPart /\ ~t.failed
      /\ \A q \in Streams : q # s => streams'[q] = streams[q]
      /\ u \in Uploads
      /\ \A v \in Uploads : v = u => PartsOf(v)' = PartsOf(v) \cup {n}
      /\ \A v \in Uploads : v # u => PartsOf(v)' = PartsOf(v)
  BY <1>1, <1>2, PartStoredPhase
<1>4. UNCHANGED writer
  BY DEF PartStored, CanStore
<1>5. t \in StreamRecord /\ Working(t)
  BY <1>1, <1>2, Typed DEF PhaseInv, InPhase
<1>6. r = StoredOf(t)
  BY <1>1, <1>2, PartStoredMoves DEF StoredOf
<1>7. /\ r.upload = t.upload /\ r.phase = t.phase /\ r.failed = t.failed /\ r.last = t.last
      /\ MayStore(r) \subseteq MayStore(t) \ {n} /\ Claims(r) \subseteq Claims(t)
      /\ n \in MayStore(t)
      /\ t.phase = "open" => n <= t.last
  <2>1. t \in StreamRecord /\ t.active # NoPart /\ ~t.failed /\ Working(t) /\ r = StoredOf(t)
    BY <1>3, <1>5, <1>6
  <2>2. Stores(t, r)
    BY <2>1, StoredFields
  <2>3. QED
    BY <1>1, <2>2 DEF Stores
<1>8. s \in Opened /\ Opened \subseteq Streams /\ Opened' = Opened /\ writer.stream \in Opened
  BY <1>2, <1>4, ServesOpened, OpenedType DEF Opened
<1>9. n \in Nat /\ n \in Claims(t)
  BY <1>5, <1>7, MayStoreIs
<1>10. n \notin PartsOf(u)
  <2>1. Fresh(t, stored[u])
    BY <1>1, <1>2, <1>8 DEF NumbersHold
  <2>2. QED
    BY <1>2, <1>3, <1>7, <2>1, NumbersIs DEF Fresh
<1>11. \A q \in Opened : q = s \/ streams'[q] = streams[q]
  BY <1>3, <1>8
<1>12. ASSUME NEW q \in Opened
       PROVE  /\ streams'[q].upload = streams[q].upload
              /\ MayStore(streams'[q]) \subseteq MayStore(streams[q])
              /\ Claims(streams'[q]) \subseteq Claims(streams[q])
  <2>1. CASE q = s
    BY <1>1, <1>7, <2>1
  <2>2. CASE streams'[q] = streams[q]
    BY <2>2
  <2>3. QED
    BY <1>11, <2>1, <2>2
<1>13. ASSUME NEW s1 \in Opened, NEW s2 \in Opened, streams'[s1].upload \notin sealed'
       PROVE  Apart(s1, streams'[s1], s2, streams'[s2])
  <2>1. Apart(s1, streams[s1], s2, streams[s2])
    BY <1>2, <1>12, <1>13 DEF NumbersHold
  <2>2. QED
    BY <1>12, <2>1 DEF Apart, Precede
<1>14. TypeOK' /\ \A v \in Uploads : Numbers(stored'[v]) = PartsOf(v)'
  BY <1>3 DEF Numbers, PartsOf, PhaseInv
<1>15. \A v \in Uploads : Numbers(stored[v]) = PartsOf(v)
  BY <1>2, NumbersIs
<1>16. ASSUME NEW q \in Opened, streams'[q].upload \notin sealed'
       PROVE  Fresh(streams'[q], stored'[streams'[q].upload])
  <2>1. PICK p, v : p = streams[q] /\ v = p.upload
    OBVIOUS
  <2>2. v \in Uploads /\ p \in StreamRecord /\ q \in Nat /\ s \in Nat
    BY <1>2, <1>8, <2>1, OpenedType
  <2>3. Fresh(p, stored[v]) /\ streams'[q].upload = v
    BY <1>2, <1>12, <1>16, <2>1 DEF NumbersHold
  <2>4. CASE v # u
    <3>1. Numbers(stored'[v]) = Numbers(stored[v])
      BY <1>3, <1>14, <1>15, <2>2, <2>4
    <3>2. QED
      BY <1>12, <2>1, <2>3, <3>1 DEF Fresh
  <2>5. CASE v = u
    <3>1. Numbers(stored'[v]) = Numbers(stored[v]) \cup {n}
      BY <1>3, <1>14, <1>15, <2>2, <2>5
    <3>2. n \notin MayStore(streams'[q])
      <4>1. CASE q = s
        BY <1>1, <1>7, <4>1
      <4>2. CASE q < s
        <5>1. Precede(MayStore(p), Claims(t))
          BY <1>1, <1>2, <1>8, <2>1, <2>5, <4>2 DEF NumbersHold, Apart
        <5>2. n \notin MayStore(p)
          BY <1>9, <5>1 DEF Precede
        <5>3. QED
          BY <1>12, <2>1, <5>2
      <4>3. CASE s < q
        <5>1. Precede(MayStore(t), Claims(p))
          BY <1>1, <1>2, <1>8, <2>1, <2>5, <4>3 DEF NumbersHold, Apart
        <5>2. n \notin Claims(p)
          BY <1>7, <1>9, <5>1 DEF Precede
        <5>3. n \notin MayStore(p)
          BY <2>2, <5>2, MayStoreIs
        <5>4. QED
          BY <1>12, <2>1, <5>3
      <4>4. QED
        BY <2>2, <4>1, <4>2, <4>3
    <3>3. QED
      BY <1>12, <2>1, <2>3, <3>1, <3>2 DEF Fresh
  <2>6. QED
    BY <2>4, <2>5
<1>17. ASSUME Current'.upload \notin sealed'
       PROVE  Past(Current', stored'[Current'.upload])
  <2>1. PICK c, v : c = streams[writer.stream] /\ v = c.upload
    OBVIOUS
  <2>2. /\ v \in Uploads /\ c \in StreamRecord /\ s \in Nat /\ writer.stream \in Nat
        /\ s <= writer.stream
    BY <1>2, <1>8, <2>1, OpenedType
  <2>4. PICK d : d = streams'[writer.stream] /\ d = Current'
    BY <1>4 DEF Current
  <2>5. d.upload = v /\ d.phase = c.phase /\ d.failed = c.failed /\ d.last = c.last
    <3>1. CASE writer.stream = s
      BY <1>1, <1>7, <2>1, <2>4, <3>1
    <3>2. CASE streams'[writer.stream] = streams[writer.stream]
      BY <2>1, <2>4, <3>2
    <3>3. QED
      BY <1>8, <1>11, <3>1, <3>2
  <2>3. Past(c, stored[v])
    BY <1>2, <1>17, <2>1, <2>4, <2>5 DEF NumbersHold, Current
  <2>6. ASSUME c.phase = "open", ~c.failed, NEW m \in Numbers(stored'[v]) PROVE m <= c.last
    <3>1. CASE m \in Numbers(stored[v])
      BY <2>3, <2>6, <3>1 DEF Past
    <3>2. CASE m = n /\ v = u
      <4>1. CASE writer.stream = s
        BY <1>1, <1>7, <2>1, <2>6, <3>2, <4>1
      <4>2. CASE s < writer.stream
        <5>1. Precede(MayStore(t), Claims(c))
          BY <1>1, <1>2, <1>8, <2>1, <3>2, <4>2 DEF NumbersHold, Apart
        <5>2. c.last + 1 \in Claims(c) /\ c.last \in Nat
          BY <2>2, <2>6, MayStoreIs, Fields
        <5>3. n < c.last + 1
          BY <1>7, <5>1, <5>2 DEF Precede
        <5>4. QED
          BY <1>9, <3>2, <5>2, <5>3
      <4>3. QED
        BY <2>2, <4>1, <4>2
    <3>3. m \in Numbers(stored[v]) \/ (m = n /\ v = u)
      BY <1>3, <1>14, <1>15, <2>2
    <3>4. QED
      BY <3>1, <3>2, <3>3
  <2>7. Past(d, stored'[d.upload])
    BY <2>5, <2>6 DEF Past
  <2>8. QED
    BY <2>4, <2>7
<1>18. NumbersHold'
  BY <1>3, <1>8, <1>13, <1>16, <1>17 DEF NumbersHold
<1>19. QED
  BY <1>1, <1>10, <1>18

\* A new stream starts behind all that is stored or may still be.
LEMMA ResumeNumber ==
    ASSUME PhaseInv, NumbersHold, Resume, "crowded" \notin mishaps'
    PROVE  NumbersHold'
<1>1. PhaseInv /\ TypeOK /\ sealed' = sealed
  BY DEF PhaseInv, Resume
<1>2. /\ PhaseInv' /\ writer'.stream = Next1 /\ Next1 = writer.stream + 1
      /\ Next1 \in Streams /\ writer.stream \in Streams /\ UNCHANGED stored
      /\ streams'[Next1] = Begun /\ Begun \in StreamRecord
      /\ streams'[writer.stream] = [Current EXCEPT !.status = <<>>]
      /\ \A q \in Streams \ {Next1, writer.stream} : streams'[q] = streams[q]
  BY <1>1, ResumePhase
<1>3. PICK b : b = Begun
  OBVIOUS
<1>4. /\ b \in StreamRecord /\ b.phase = "open" /\ b.slice = <<>> /\ b.net = <<>>
      /\ b.active = NoPart /\ ~b.failed /\ b.upload \in Uploads
      /\ writer.upload = 0 => b.upload = Next1 /\ b.last = 0
      /\ writer.upload # 0 => b.upload = writer.upload /\ b.last = LastPart(Listed(writer.upload))
  BY <1>1, <1>2, <1>3, BegunFields
<1>5. /\ Opened \subseteq Streams /\ writer.stream \in Opened
      /\ \A q \in Opened : q \in Nat /\ q <= writer.stream /\ q < Next1
      /\ \A q \in Opened' : q \in Opened \/ q = Next1
      /\ writer.stream \in Nat /\ Next1 \in Nat
  <2>1. writer.stream \in Nat
    BY <1>2, Bounds
  <2>2. QED
    BY <1>1, <1>2, <2>1, OpenedType DEF Opened
<1>6. ASSUME NEW q \in Opened
      PROVE  /\ streams'[q].upload = streams[q].upload
             /\ MayStore(streams'[q]) = MayStore(streams[q])
             /\ Claims(streams'[q]) = Claims(streams[q])
  <2>1. CASE q = writer.stream
    <3>1. PICK t, r : t = Current /\ r = streams'[writer.stream]
      OBVIOUS
    <3>2. t \in StreamRecord /\ t = streams[q]
      BY <1>1, <2>1, <3>1, CurrentType DEF Current
    <3>3. SameWork(t, r) /\ r.upload = t.upload
      BY <1>2, <3>1, <3>2, ReadFields
    <3>4. QED
      BY <2>1, <3>1, <3>2, <3>3, SameWorkIs
  <2>2. CASE q # writer.stream
    <3>1. q \in Streams /\ q # Next1
      BY <1>5
    <3>2. streams'[q] = streams[q]
      BY <1>2, <2>2, <3>1
    <3>3. QED
      BY <3>2
  <2>3. QED
    BY <2>1, <2>2
<1>7. ASSUME b.upload \notin sealed PROVE Past(b, stored[b.upload])
  <2>1. CASE writer.upload = 0
    <3>1. PartsOf(Next1) = {}
      BY <1>1, <1>2, <1>5, <1>4, <2>1 DEF PhaseInv
    <3>2. Numbers(stored[b.upload]) = {}
      BY <1>1, <1>4, <2>1, <3>1, NumbersIs
    <3>3. QED
      BY <3>2 DEF Past
  <2>2. CASE writer.upload # 0
    <3>1. PICK P : P = PartsOf(b.upload)
      OBVIOUS
    <3>2. P \subseteq 1..Len(stored[b.upload]) /\ Len(stored[b.upload]) \in Nat
      BY <1>1, <1>4, <3>1, PartsOfType
    <3>3. \A n \in P : n <= LastPart(P)
      BY <3>2, LastPartOf
    <3>4. b.last = LastPart(P) /\ Numbers(stored[b.upload]) = P
      BY <1>1, <1>4, <1>7, <2>2, <3>1, NumbersIs DEF Listed
    <3>5. QED
      BY <3>3, <3>4 DEF Past
  <2>3. QED
    BY <2>1, <2>2
<1>8. \A n \in Claims(b) : n \in Nat /\ n > b.last
  BY <1>4 DEF Claims
<1>9. ASSUME b.upload \notin sealed PROVE Fresh(b, stored[b.upload])
  <2>1. Numbers(stored[b.upload]) \subseteq Nat /\ b.last \in Nat
    BY <1>1, <1>4, NumbersIs, Fields
  <2>2. \A n \in MayStore(b) : n \in Nat /\ n > b.last
    BY <1>4, <1>8, MayStoreIs
  <2>3. \A n \in Numbers(stored[b.upload]) : n \in Nat /\ n <= b.last
    BY <1>4, <1>7, <1>9, <2>1 DEF Past
  <2>4. QED
    BY <2>1, <2>2, <2>3 DEF Fresh
<1>10. ASSUME NEW q \in Opened, streams[q].upload = b.upload
       PROVE  Precede(MayStore(streams[q]), Claims(b))
  <2>1. CASE writer.upload = 0
    <3>1. streams[q].upload \in 1..q
      BY <1>1, OpenedType
    <3>2. FALSE
      BY <1>4, <1>5, <1>10, <2>1, <3>1
    <3>3. QED
      BY <3>2
  <2>2. CASE writer.upload # 0
    <3>1. ~Crowded(writer.upload)
      BY <2>2 DEF Resume
    <3>2. q \in Predecessors(writer.upload)
      BY <1>4, <1>10, <2>2 DEF Predecessors, Opened
    <3>3. MayStore(streams[q]) \subseteq Nat /\ b.last \in Nat
      BY <1>1, <1>4, OpenedType, MayStoreIs, Fields
    <3>4. \A n \in MayStore(streams[q]) : ~(n > b.last)
      BY <1>4, <2>2, <3>1, <3>2 DEF Crowded
    <3>5. \A n \in MayStore(streams[q]) : n <= b.last
      BY <3>3, <3>4
    <3>6. QED
      BY <1>8, <3>3, <3>5 DEF Precede
  <2>3. QED
    BY <2>1, <2>2
<1>11. ASSUME NEW s1 \in Opened', NEW s2 \in Opened', streams'[s1].upload \notin sealed'
       PROVE  Apart(s1, streams'[s1], s2, streams'[s2])
  <2>1. CASE s1 \in Opened /\ s2 \in Opened
    <3>1. Apart(s1, streams[s1], s2, streams[s2])
      BY <1>1, <1>6, <1>11, <2>1 DEF NumbersHold
    <3>2. QED
      BY <1>6, <2>1, <3>1 DEF Apart
  <2>2. CASE s1 \in Opened /\ s2 = Next1
    BY <1>2, <1>3, <1>6, <1>10, <2>2 DEF Apart
  <2>3. CASE s1 = Next1
    <3>1. ~(s1 < s2)
      BY <1>5, <2>3
    <3>2. QED
      BY <3>1 DEF Apart
  <2>4. QED
    BY <1>5, <2>1, <2>2, <2>3
<1>12. ASSUME NEW q \in Opened', streams'[q].upload \notin sealed'
       PROVE  Fresh(streams'[q], stored'[streams'[q].upload])
  <2>1. CASE q \in Opened
    <3>1. Fresh(streams[q], stored[streams[q].upload])
      BY <1>1, <1>6, <1>12, <2>1 DEF NumbersHold
    <3>2. QED
      BY <1>2, <1>6, <2>1, <3>1 DEF Fresh
  <2>2. CASE q = Next1
    BY <1>1, <1>2, <1>3, <1>9, <1>12, <2>2
  <2>3. QED
    BY <1>5, <2>1, <2>2
<1>13. Current' = b
  BY <1>2, <1>3 DEF Current
<1>14. Current'.upload \notin sealed' => Past(Current', stored'[Current'.upload])
  BY <1>1, <1>2, <1>7, <1>13
<1>15. QED
  BY <1>11, <1>12, <1>14 DEF NumbersHold

\* Nothing is stored.
LEMMA NumberStart == AuditInit => NumberInv
<1> SUFFICES ASSUME AuditInit PROVE NumberInv
  OBVIOUS
<1>1. PhaseInv /\ writer.stream = 1
  BY PhaseStart DEF AuditInit
<1>2. Opened = {1}
  BY <1>1 DEF Opened
<1>3. Numbers(stored[Current.upload]) = {} /\ Numbers(stored[streams[1].upload]) = {}
  <2>1. streams[1].upload = 1
    BY NewStreamFields, Bounds DEF AuditInit
  <2>2. stored[1] = <<>>
    BY Bounds DEF AuditInit, Uploads
  <2>3. Numbers(<<>>) = {}
    BY DEF Numbers
  <2>4. QED
    BY <1>1, <2>1, <2>2, <2>3 DEF Current
<1>4. QED
  BY <1>1, <1>2, <1>3 DEF NumberInv, NumbersHold, Apart, Fresh, Past

\* What is noted of the past is never forgotten.
LEMMA MishapsMore ==
    ASSUME PhaseInv, [AuditNext]_vars
    PROVE  mishaps \subseteq mishaps' /\ sealed \subseteq sealed'
<1>1. \A s \in Streams : Serves(s) => mishaps \subseteq mishaps' /\ sealed \subseteq sealed'
  BY ServesMoves DEF PhaseInv
<1>2. \A s \in Streams : PartStored(s) => mishaps \subseteq mishaps' /\ sealed \subseteq sealed'
  BY DEF PartStored
<1>3. Unstreamed => mishaps \subseteq mishaps' /\ sealed \subseteq sealed'
  BY UnstreamedType DEF PhaseInv
<1>4. Resume => mishaps \subseteq mishaps' /\ sealed \subseteq sealed'
  BY DEF Resume
<1>5. WriterOnly \/ Replay \/ (\E i \in Events : Send(i)) => UNCHANGED <<sealed, others>>
  BY DEF WriterOnly, TakeStatus, Resumed, AwaitTimesOut, Finish, Replay, Send
<1>6. UNCHANGED vars => mishaps' = mishaps /\ sealed' = sealed
  BY DEF vars
<1>7. QED
  BY <1>1, <1>2, <1>3, <1>4, <1>5, <1>6, ByCase DEF WriterOnly, others

\* Every step keeps the numbers apart.
LEMMA NumberStep == NumberInv /\ [AuditNext]_vars => NumberInv'
<1> SUFFICES ASSUME NumberInv, [AuditNext]_vars PROVE NumberInv'
  OBVIOUS
<1>1. PhaseInv /\ PhaseInv' /\ mishaps \subseteq mishaps'
  BY PhaseStep, MishapsMore DEF NumberInv
<1>2. ASSUME "crowded" \notin mishaps' PROVE NumbersHold'
  <2>1. NumbersHold
    BY <1>1, <1>2 DEF NumberInv
  <2>2. CASE AuditNext
    BY <1>1, <1>2, <2>1, <2>2, ByCase, UnstreamedNumber, WriterOnlyNumber, ResumeNumber,
       ReplayNumber, SendNumber, ServesNumber, PartStoredNumber DEF WriterOnly
  <2>3. CASE UNCHANGED vars
    BY <2>1, <2>3 DEF vars, NumbersHold, Opened, Current
  <2>4. QED
    BY <2>2, <2>3
<1>3. QED
  BY <1>1, <1>2 DEF NumberInv

\* A part takes the number of another only when a stream was resumed too early.
LEMMA SkipStep ==
    ASSUME NumberInv, SkipProtects, [AuditNext]_vars
    PROVE  SkipProtects'
<1>1. PhaseInv /\ mishaps \subseteq mishaps'
  BY MishapsMore DEF NumberInv
<1>2. ASSUME "overwritten" \in mishaps', "crowded" \notin mishaps' PROVE FALSE
  <2>1. "overwritten" \notin mishaps /\ NumbersHold
    BY <1>1, <1>2 DEF NumberInv, SkipProtects
  <2>2. \A s \in Streams : PartStored(s) => mishaps' = mishaps
    BY <1>1, <2>1, PartStoredNumber DEF PartStored
  <2>3. \A s \in Streams : Serves(s) => "overwritten" \notin mishaps'
    BY <1>1, <2>1, ServesMoves DEF PhaseInv
  <2>4. ASSUME NEW c \in 1..Completers, CheckUpload(c) \/ \E u \in Uploads : ListUpload(c, u)
        PROVE  "overwritten" \notin mishaps'
    <3>1. CASE CheckUpload(c)
      BY <2>1, <3>1 DEF CheckUpload, Again
    <3>2. CASE \E u \in Uploads : ListUpload(c, u)
      BY <2>1, <3>2 DEF ListUpload
    <3>3. QED
      BY <2>4, <3>1, <3>2
  <2>5. Resume => "overwritten" \notin mishaps'
    BY <2>1 DEF Resume
  <2>6. Close \/ StreamDone \/ GiveUp \/ ReplayFails \/ (\E i \in Events : Lose(i))
          \/ WriterOnly \/ Replay \/ (\E i \in Events : Send(i)) => mishaps' = mishaps
    BY DEF Close, StreamDone, GiveUp, ReplayFails, Lose, WriterOnly, TakeStatus, Resumed,
           AwaitTimesOut, Finish, Replay, Send, others
  <2>7. Unstreamed => "overwritten" \notin mishaps'
    BY <2>1, <2>4, <2>6 DEF Unstreamed
  <2>8. UNCHANGED vars => mishaps' = mishaps
    BY DEF vars
  <2>9. QED
    BY <1>2, <2>1, <2>2, <2>3, <2>5, <2>6, <2>7, <2>8, ByCase DEF WriterOnly
<1>3. QED
  BY <1>2 DEF SkipProtects

\* The number that NewProtoStream leaves free is enough (stream.go:280-298), for any
\* number of streams of an upload, of events and of faults: no part takes the number of
\* another unless a stream was resumed while a predecessor could store parts beyond
\* that number.
THEOREM SkippedNumberProtects == AuditSpec => []SkipProtects
<1>1. AuditInit => SkipProtects
  BY DEF AuditInit, SkipProtects
<1>2. NumberInv /\ SkipProtects /\ [AuditNext]_vars => SkipProtects'
  BY SkipStep
<1>3. QED
  BY <1>1, <1>2, NumberStart, NumberStep, PTL DEF AuditSpec

-----------------------------------------------------------------------------
(* What the streams carry, and what is stored *)

StoredIn(parts, i) == \E q \in DOMAIN parts : i \in ToSet(parts[q])
Below(parts, n, i) == \E q \in DOMAIN parts : q < n /\ i \in ToSet(parts[q])

\* The stream has the event, or it is in a part before the next one of the stream.
Has(t, i, parts) == i \in Held(t) \/ Below(parts, NextPart(t), i)

\* Whatever is reported as stored is, with all that was accepted before it; and a stream
\* that can store an event has the accepted ones before it, as long as its upload is live,
\* that is, not completed.
Carries(t, accepted, parts, live) ==
    /\ Held(t) \subseteq accepted
    /\ Told(t) \subseteq accepted \cup {-1}
    /\ \A k \in Told(t) : \A i \in accepted : i <= k => StoredIn(parts, i)
    /\ live /\ ~t.failed => \A k \in Held(t) : \A i \in accepted : i <= k => Has(t, i, parts)

\* A stored event has the accepted ones before it in its own part or in a lower one.
PartsOrderly(parts, accepted) ==
    \A q \in DOMAIN parts :
        /\ Increasing(parts[q])
        /\ ToSet(parts[q]) \subseteq accepted
        /\ \A e \in ToSet(parts[q]) : \A i \in accepted :
              i < e => i \in ToSet(parts[q]) \/ Below(parts, q, i)

Grown(parts, more) ==
    \A q \in DOMAIN parts : parts[q] # <<>> => q \in DOMAIN more /\ more[q] = parts[q]

\* What is stored stays so when there are more parts.
LEMMA GrownKeeps ==
    ASSUME NEW parts, NEW more, Grown(parts, more), NEW i
    PROVE  /\ StoredIn(parts, i) => StoredIn(more, i)
           /\ \A n : Below(parts, n, i) => Below(more, n, i)
<1>1. \A q \in DOMAIN parts : i \in ToSet(parts[q]) => q \in DOMAIN more /\ i \in ToSet(more[q])
  BY SetEmpty DEF Grown
<1>2. QED
  BY <1>1 DEF StoredIn, Below

\* What is below a part is below the next.
LEMMA BelowMore ==
    ASSUME NEW parts \in Seq(Seq(Events)), NEW n \in Nat, NEW m \in Nat, n <= m, NEW i, Below(parts, n, i)
    PROVE  Below(parts, m, i)
<1>1. PICK q \in DOMAIN parts : q < n /\ i \in ToSet(parts[q])
  BY DEF Below
<1>2. q \in Nat
  OBVIOUS
<1>3. q < m
  BY <1>1, <1>2
<1>4. QED
  BY <1>1, <1>3 DEF Below

\* What is below a part is stored.
LEMMA BelowStored ==
    ASSUME NEW parts, NEW n, NEW i, Below(parts, n, i)
    PROVE  StoredIn(parts, i)
BY DEF Below, StoredIn

\* More parts take nothing from what a stream relies on.
LEMMA CarriesGrown ==
    ASSUME NEW t, NEW accepted, NEW parts, NEW more, Grown(parts, more), NEW live,
           Carries(t, accepted, parts, live)
    PROVE  Carries(t, accepted, more, live) /\ \A i : Has(t, i, parts) => Has(t, i, more)
<1>1. \A i : Has(t, i, parts) => Has(t, i, more)
  BY GrownKeeps DEF Has
<1>2. \A i : StoredIn(parts, i) => StoredIn(more, i)
  BY GrownKeeps
<1>3. QED
  BY <1>1, <1>2 DEF Carries

\* A step of the stream itself keeps it so.
LEMMA CarriesGoes ==
    ASSUME NEW t \in StreamRecord, NEW r \in StreamRecord, Carried(t, r), NEW accepted,
           NEW parts \in Seq(Seq(Events)), NEW live, Carries(t, accepted, parts, live)
    PROVE  Carries(r, accepted, parts, live)
<1>1. Held(r) \subseteq accepted /\ Told(r) \subseteq accepted \cup {-1}
  BY DEF Carried, Carries
<1>2. \A k \in Told(r) : \A i \in accepted : i <= k => StoredIn(parts, i)
  BY DEF Carried, Carries
<1>3. ASSUME live, ~r.failed, NEW k \in Held(r), NEW i \in accepted, i <= k
      PROVE  Has(r, i, parts)
  <2>1. ~t.failed /\ k \in Held(t) /\ NextPart(t) <= NextPart(r)
    BY <1>3 DEF Carried
  <2>2. Has(t, i, parts)
    BY <1>3, <2>1 DEF Carries
  <2>3. CASE i \in Held(t)
    BY <1>3, <2>3 DEF Carried, Has
  <2>4. CASE Below(parts, NextPart(t), i)
    BY <2>1, <2>4, HeldType, BelowMore DEF Has
  <2>5. QED
    BY <2>2, <2>3, <2>4 DEF Has
<1>4. QED
  BY <1>1, <1>2, <1>3 DEF Carries

\* Events that are accepted later change nothing for those before.
LEMMA CarriesMore ==
    ASSUME NEW t, NEW accepted, accepted \subseteq Events, NEW i \in Events, \A x \in accepted : x < i,
           NEW parts, NEW live, Carries(t, accepted, parts, live)
    PROVE  Carries(t, accepted \cup {i}, parts, live)
<1>1. \A k \in accepted \cup {-1} : ~(i <= k)
  <2>1. i \in Nat /\ \A k \in accepted : k \in Nat /\ k < i
    BY Bounds
  <2>2. QED
    BY <2>1
<1>2. \A k \in Told(t) : k \in accepted \cup {-1}
  BY DEF Carries
<1>3. \A k \in Held(t) : k \in accepted
  BY DEF Carries
<1>4. \A k \in Told(t) : \A j \in accepted \cup {i} : j <= k => StoredIn(parts, j)
  BY <1>1, <1>2 DEF Carries
<1>5. live /\ ~t.failed => \A k \in Held(t) : \A j \in accepted \cup {i} : j <= k => Has(t, j, parts)
  BY <1>1, <1>3 DEF Carries
<1>6. QED
  BY <1>4, <1>5 DEF Carries

\* Parts stay in order when a later event is accepted.
LEMMA PartsOrderlyMore ==
    ASSUME NEW accepted, accepted \subseteq Events, NEW i \in Events, \A x \in accepted : x < i,
           NEW parts, PartsOrderly(parts, accepted)
    PROVE  PartsOrderly(parts, accepted \cup {i})
<1>1. \A e \in accepted : ~(i < e)
  <2>1. i \in Nat /\ \A k \in accepted : k \in Nat /\ k < i
    BY Bounds
  <2>2. QED
    BY <2>1
<1>2. QED
  BY <1>1 DEF PartsOrderly

\* An event is sent on a stream that has all the accepted ones before it.
LEMMA CarriesSent ==
    ASSUME NEW t \in StreamRecord, NEW i \in Events, NEW r, r = [t EXCEPT !.net = Append(@, i)],
           NEW accepted, accepted \subseteq Events, NEW parts, NEW live, Orderly(t),
           Carries(t, accepted, parts, live), i \in accepted, \A x \in Held(t) : x < i,
           live /\ ~t.failed => \A j \in accepted : j < i => Has(t, j, parts)
    PROVE  /\ Orderly(r) /\ Carries(r, accepted, parts, live)
           /\ r.failed = t.failed /\ r.up = t.up
           /\ Held(r) = Held(t) \cup {i} /\ NextPart(r) = NextPart(t)
           /\ \A j : Has(t, j, parts) => Has(r, j, parts)
<1>1. /\ r.slice = t.slice /\ r.active = t.active /\ r.last = t.last /\ r.failed = t.failed
      /\ r.status = t.status /\ r.done = t.done /\ r.net = Append(t.net, i) /\ r.up = t.up
  BY DEF StreamRecord
<1>2. t.net \in Seq(Events)
  BY Fields
<1>3. ToSet(r.net) = ToSet(t.net) \cup {i}
  BY <1>1, <1>2, SetAppend
<1>4. InActive(r) = InActive(t) /\ NextPart(r) = NextPart(t) /\ Told(r) = Told(t)
  BY <1>1 DEF InActive, NextPart, Told
<1>5. Held(r) = Held(t) \cup {i}
  BY <1>1, <1>3, <1>4 DEF Held
<1>6. InActive(t) \subseteq Held(t) /\ ToSet(t.slice) \subseteq Held(t) /\ ToSet(t.net) \subseteq Held(t)
  BY DEF Held
<1>7. Increasing(r.net)
  BY <1>1, <1>2, <1>6, IncreasingAppend DEF Orderly
<1>8. Orderly(r)
  BY <1>1, <1>3, <1>4, <1>6, <1>7 DEF Orderly, Precede
<1>9. \A j : Has(t, j, parts) => Has(r, j, parts)
  BY <1>4, <1>5 DEF Has
<1>10. ASSUME live, ~r.failed, NEW k \in Held(r), NEW j \in accepted, j <= k
       PROVE  Has(r, j, parts)
  <2>1. CASE k \in Held(t)
    BY <1>1, <1>9, <1>10, <2>1 DEF Carries
  <2>2. CASE k = i
    <3>1. CASE j = i
      BY <1>5, <3>1 DEF Has
    <3>2. CASE j < i
      BY <1>1, <1>9, <1>10, <3>2
    <3>3. j = i \/ j < i
      BY <1>10, <2>2, Bounds
    <3>4. QED
      BY <3>1, <3>2, <3>3
  <2>3. QED
    BY <1>5, <1>10, <2>1, <2>2
<1>11. Carries(r, accepted, parts, live)
  BY <1>4, <1>5, <1>10 DEF Carries
<1>12. QED
  BY <1>1, <1>4, <1>5, <1>8, <1>9, <1>11

\* Work that stays where it is needs nothing new.
LEMMA CarriesSame ==
    ASSUME NEW t, NEW r, SameWork(t, r), Told(r) \subseteq Told(t), NEW accepted, NEW parts, NEW live,
           Orderly(t), Carries(t, accepted, parts, live)
    PROVE  /\ Orderly(r) /\ Carries(r, accepted, parts, live)
           /\ \A i : Has(t, i, parts) => Has(r, i, parts)
<1>1. Held(r) = Held(t) /\ NextPart(r) = NextPart(t) /\ Orderly(r) /\ r.failed = t.failed
  BY SameWorkIs DEF SameWork
<1>2. \A i : Has(r, i, parts) <=> Has(t, i, parts)
  BY <1>1 DEF Has
<1>3. QED
  BY <1>1, <1>2 DEF Carries

\* What is not required of a completed upload is no more required.
LEMMA CarriesLess ==
    ASSUME NEW t, NEW accepted, NEW parts, NEW live, NEW less, less => live,
           Carries(t, accepted, parts, live)
    PROVE  Carries(t, accepted, parts, less)
BY DEF Carries

\* A stream that has nothing yet carries nothing wrong.
LEMMA CarriesNone ==
    ASSUME NEW r, r.active = NoPart, r.slice = <<>>, r.net = <<>>, r.done = <<>>, r.status = <<-1>>,
           NEW accepted, accepted \subseteq Events, NEW parts, NEW live
    PROVE  Orderly(r) /\ Carries(r, accepted, parts, live) /\ Held(r) = {}
<1>1. Held(r) = {} /\ InActive(r) = {} /\ ToSet(r.slice) = {} /\ ToSet(r.net) = {}
  BY SetEmpty DEF Held, InActive
<1>2. Orderly(r)
  BY <1>1 DEF Orderly, Precede, Increasing
<1>3. ToSet(<<-1>>) = {-1}
  BY DEF ToSet
<1>4. Told(r) = {-1}
  BY <1>3 DEF Told, Reports
<1>5. \A i \in accepted : ~(i <= -1)
  BY Bounds
<1>6. QED
  BY <1>1, <1>2, <1>4, <1>5 DEF Carries

\* The part on its way is stored.
LEMMA CarriesStored ==
    ASSUME NEW t \in StreamRecord, t.active # NoPart, ~t.failed, Working(t),
           NEW r, r = StoredOf(t),
           NEW parts \in Seq(Seq(Events)), NEW more, more = WithPart(t.active, parts),
           t.active.number \notin Numbers(parts),
           NEW accepted, accepted \subseteq Events,
           Orderly(t), Carries(t, accepted, parts, TRUE), PartsOrderly(parts, accepted)
    PROVE  /\ Orderly(r) /\ Carries(r, accepted, more, TRUE)
           /\ Held(r) \subseteq Held(t)
           /\ PartsOrderly(more, accepted) /\ Grown(parts, more)
           /\ t.phase = "open" => \A i \in accepted : Has(t, i, parts) => Has(r, i, more)
<1>1. PICK p, n, E : p = t.active /\ n = p.number /\ E = ToSet(p.events)
  OBVIOUS
<1>2. /\ r.failed = t.failed /\ r.active = NoPart /\ r.last = t.last /\ r.status = t.status
      /\ r.slice = t.slice /\ r.net = t.net /\ r.done = Append(t.done, Upload(p, TRUE))
      /\ t.phase = "open" => n <= t.last
  <2>1. /\ r.failed = t.failed /\ r.active = NoPart /\ r.last = t.last /\ r.status = t.status
        /\ r.slice = t.slice /\ r.net = t.net
        /\ r.done = Append(t.done, Upload(t.active, TRUE))
        /\ t.phase = "open" => t.active.number <= t.last
    <3>1. Stores(t, r)
      BY StoredFields
    <3>2. QED
      BY <3>1 DEF Stores
  <2>2. QED
    BY <1>1, <2>1
<1>3. p \in Part /\ n \in Nat /\ p.events \in Seq(Events) /\ p.events # <<>> /\ t.last \in Nat
  BY <1>1, ActivePart, Fields
<1>4. /\ more \in Seq(Seq(Events)) /\ n \in DOMAIN more /\ more[n] = p.events
      /\ DOMAIN parts \subseteq DOMAIN more
      /\ \A q \in DOMAIN parts : q # n => more[q] = parts[q]
      /\ \A q \in DOMAIN more : q # n /\ q \notin DOMAIN parts => more[q] = <<>>
  BY <1>1, <1>3, Uploaded
<1>5. Grown(parts, more)
  BY <1>1, <1>4 DEF Grown, Numbers
<1>6. /\ InActive(t) = E /\ InActive(r) = {} /\ NextPart(t) = n /\ NextPart(r) = t.last + 1
      /\ Held(r) = ToSet(t.slice) \cup ToSet(t.net) /\ Held(t) = E \cup Held(r)
  BY <1>1, <1>2 DEF InActive, NextPart, Held
<1>7. \A e \in E : \A x \in Held(r) : e < x
  BY <1>6 DEF Orderly, Precede
<1>8. E \subseteq accepted /\ E \subseteq Nat /\ Held(r) \subseteq Nat
  <2>1. Held(t) \subseteq accepted
    BY DEF Carries
  <2>2. QED
    BY <1>6, <2>1, Bounds
<1>9. \A i \in E : StoredIn(more, i)
  BY <1>1, <1>4 DEF StoredIn
<1>10. Held(r) # {} => t.phase = "open"
  <2>1. t.phase # "cancelled"
    BY DEF Working
  <2>2. t.phase # "open" => t.slice = <<>> /\ t.net = <<>>
    BY <2>1 DEF Working
  <2>3. QED
    BY <1>6, <2>2, SetEmpty
<1>11. ASSUME NEW e \in E, NEW i \in accepted, i <= e
       PROVE  i \in E \/ Below(parts, n, i)
  <2>1. e \in Held(t) /\ Has(t, i, parts)
    BY <1>6, <1>11 DEF Carries
  <2>2. i \notin Held(r)
    BY <1>7, <1>8, <1>11
  <2>3. QED
    BY <1>6, <2>1, <2>2 DEF Has
<1>12. Orderly(r)
  BY <1>2, <1>6 DEF Orderly, Precede
<1>13. t.phase = "open" => \A i \in accepted : Has(t, i, parts) => Has(r, i, more)
  <2>1. ASSUME t.phase = "open", NEW i \in accepted, Has(t, i, parts) PROVE Has(r, i, more)
    <3>1. n < t.last + 1 /\ t.last + 1 \in Nat
      BY <1>2, <1>3, <2>1
    <3>2. CASE i \in Held(r)
      BY <3>2 DEF Has
    <3>3. CASE i \in E
      <4>1. Below(more, t.last + 1, i)
        BY <1>1, <1>4, <3>1, <3>3 DEF Below
      <4>2. QED
        BY <1>6, <4>1 DEF Has
    <3>4. CASE Below(parts, n, i)
      <4>1. Below(more, n, i)
        BY <1>5, <3>4, GrownKeeps
      <4>2. n <= t.last + 1
        BY <1>3, <3>1
      <4>3. Below(more, t.last + 1, i)
        BY <1>3, <1>4, <3>1, <4>1, <4>2, BelowMore
      <4>4. QED
        BY <1>6, <4>3 DEF Has
    <3>5. QED
      BY <1>6, <2>1, <3>2, <3>3, <3>4 DEF Has
  <2>2. QED
    BY <2>1
<1>14. Carries(r, accepted, more, TRUE)
  <2>1. Held(r) \subseteq accepted
    BY <1>6 DEF Carries
  <2>2. PICK k : k = Upload(p, TRUE).index
    OBVIOUS
  <2>3. k \in E /\ (\A i \in E : i <= k) /\ Told(r) = Told(t) \cup {k}
    <3>1. Upload(p, TRUE) \in Finished /\ k \in E /\ Upload(p, TRUE).ok
      BY <1>1, <1>3, <2>2, UploadType
    <3>2. \A i \in E : i <= k
      BY <1>1, <1>3, <2>2, UploadType
    <3>3. t.done \in Seq(Finished)
      BY Fields
    <3>4. Reports(r.done) = Reports(t.done) \cup {k}
      BY <1>2, <2>2, <3>1, <3>3, ReportsAppend
    <3>5. QED
      BY <1>2, <3>1, <3>2, <3>4 DEF Told
  <2>4. Told(r) \subseteq accepted \cup {-1}
    BY <1>8, <2>3 DEF Carries
  <2>5. ASSUME NEW j \in Told(r), NEW i \in accepted, i <= j PROVE StoredIn(more, i)
    <3>1. CASE j \in Told(t)
      BY <1>5, <2>5, <3>1, GrownKeeps DEF Carries
    <3>2. CASE j = k
      <4>1. i \in E \/ Below(parts, n, i)
        BY <1>11, <2>3, <2>5, <3>2
      <4>2. CASE i \in E
        BY <1>9, <4>2
      <4>3. CASE Below(parts, n, i)
        BY <1>5, <4>3, BelowStored, GrownKeeps
      <4>4. QED
        BY <4>1, <4>2, <4>3
    <3>3. QED
      BY <2>3, <2>5, <3>1, <3>2
  <2>6. ASSUME NEW j \in Held(r), NEW i \in accepted, i <= j PROVE Has(r, i, more)
    <3>1. t.phase = "open" /\ j \in Held(t)
      BY <1>6, <1>10, <2>6
    <3>2. Has(t, i, parts)
      BY <2>6, <3>1 DEF Carries
    <3>3. QED
      BY <1>13, <3>1, <3>2
  <2>7. QED
    BY <2>1, <2>4, <2>5, <2>6 DEF Carries
<1>15. PartsOrderly(more, accepted)
  <2>1. ASSUME NEW q \in DOMAIN more
        PROVE  /\ Increasing(more[q]) /\ ToSet(more[q]) \subseteq accepted
               /\ \A e \in ToSet(more[q]) : \A i \in accepted :
                     i < e => i \in ToSet(more[q]) \/ Below(more, q, i)
    <3>1. CASE q = n
      <4>1. more[q] = p.events /\ ToSet(more[q]) = E
        BY <1>1, <1>4, <3>1
      <4>2. Increasing(p.events)
        BY <1>1 DEF Orderly
      <4>3. ASSUME NEW e \in E, NEW i \in accepted, i < e
            PROVE  i \in E \/ Below(more, q, i)
        <5>1. i <= e
          BY <1>8, <4>3, Bounds
        <5>2. i \in E \/ Below(parts, n, i)
          BY <1>11, <4>3, <5>1
        <5>3. QED
          BY <1>5, <3>1, <5>2, GrownKeeps
      <4>4. QED
        BY <1>8, <4>1, <4>2, <4>3
    <3>2. CASE q # n /\ q \in DOMAIN parts
      <4>1. more[q] = parts[q]
        BY <1>4, <3>2
      <4>2. \A i : Below(parts, q, i) => Below(more, q, i)
        BY <1>5, GrownKeeps
      <4>3. QED
        BY <3>2, <4>1, <4>2 DEF PartsOrderly
    <3>3. CASE q # n /\ q \notin DOMAIN parts
      <4>1. more[q] = <<>>
        BY <1>4, <3>3
      <4>2. QED
        BY <4>1, SetEmpty DEF Increasing
    <3>4. QED
      BY <3>1, <3>2, <3>3
  <2>2. QED
    BY <2>1 DEF PartsOrderly
<1>16. QED
  BY <1>5, <1>6, <1>12, <1>13, <1>14, <1>15

\* What is stored in order can be played back: the first part that has the event has
\* nothing later before it, nor have the parts before it.
LEMMA StoredIsPlayed ==
    ASSUME NEW parts \in Seq(Seq(Events)), NEW accepted, accepted \subseteq Events,
           PartsOrderly(parts, accepted), NEW i \in accepted, StoredIn(parts, i)
    PROVE  i \in Played(parts)
<1> DEFINE With == {q \in DOMAIN parts : i \in ToSet(parts[q])}
           Shorter == OpToRel(<, Nat)
<1>1. With \subseteq Nat /\ With # {}
  BY DEF StoredIn
<1>2. IsWellFoundedOn(Shorter, Nat)
  BY NatLessThanWellFounded
<1>3. \A x, y \in Nat : <<y, x>> \in Shorter <=> y < x
  BY DEF OpToRel
<1> HIDE DEF Shorter, With
<1>4. PICK q \in With : \A p \in With : ~(<<p, q>> \in Shorter)
  BY <1>1, <1>2, WFMin
<1>5. \A p \in With : ~(p < q)
  BY <1>1, <1>3, <1>4
<1>6. q \in DOMAIN parts /\ i \in ToSet(parts[q]) /\ q \in Nat /\ i \in Nat /\ i \in Events
  BY <1>1, <1>4, Bounds DEF With
<1>7. PICK k \in DOMAIN parts[q] : parts[q][k] = i
  BY <1>6 DEF ToSet
<1>8. ASSUME NEW p \in DOMAIN parts, NEW j \in DOMAIN parts[p], Before(p, j, q, k)
      PROVE  parts[p][j] < i
  <2>1. p \in Nat /\ parts[p] \in Seq(Events) /\ parts[p][j] \in ToSet(parts[p])
    BY SetOf
  <2>2. PICK e : e = parts[p][j]
    OBVIOUS
  <2>3. e \in accepted /\ e \in Nat /\ e \in ToSet(parts[p])
    BY <2>1, <2>2, Bounds DEF PartsOrderly
  <2>4. CASE p = q /\ j < k
    BY <1>7, <2>2, <2>4 DEF PartsOrderly, Increasing
  <2>5. CASE p < q
    <3>1. i \notin ToSet(parts[p])
      BY <1>5, <2>5 DEF With
    <3>2. ~Below(parts, p, i)
      <4>1. ASSUME NEW m \in DOMAIN parts, m < p, i \in ToSet(parts[m]) PROVE FALSE
        <5>1. m \in Nat /\ m < q
          BY <1>6, <2>1, <2>5, <4>1
        <5>2. m \in With
          BY <4>1 DEF With
        <5>3. QED
          BY <1>5, <5>1, <5>2
      <4>2. QED
        BY <4>1 DEF Below
    <3>3. ~(i < e)
      BY <2>3, <3>1, <3>2 DEF PartsOrderly
    <3>4. e # i
      BY <2>3, <3>1
    <3>5. QED
      BY <1>6, <2>2, <2>3, <3>3, <3>4
  <2>6. QED
    BY <1>8, <2>4, <2>5 DEF Before
<1>9. QED
  BY <1>6, <1>7, <1>8 DEF Played

-----------------------------------------------------------------------------
(* What the writer has accepted, has sent and may forget *)

Accepted == ToSet(log)

\* The buffer is the end of the history.
HistoryInv ==
    /\ Increasing(log)
    /\ Len(writer.buffer) <= Len(log)
    /\ \A n \in DOMAIN writer.buffer : writer.buffer[n] = log[n + Confirmed]
    /\ writer.upload = 0 => Confirmed = 0

\* What is no longer in the buffer is stored.
ConfirmedIn(parts) == \A n \in 1..Confirmed : StoredIn(parts, log[n])

ConfirmedInv == \A n \in 1..Confirmed : StoredIn(stored[writer.upload], log[n])

KeptInv ==
    /\ \A s \in Opened :
          /\ Orderly(streams[s])
          /\ Carries(streams[s], Accepted, stored[streams[s].upload], streams[s].upload \notin sealed)
    /\ \A u \in Uploads : PartsOrderly(stored[u], Accepted)

\* The events that the stream should have by now: those before the next one of the
\* buffer, or all.
Due(w, i) ==
    \/ w.pc = "await" /\ (w.buffer # <<>> => i < w.buffer[1])
    \/ w.pc = "replay" /\ i < w.buffer[w.replayed + 1]
    \/ w.pc = "run"

\* How much of the history the current stream has.
Sent(w, t, accepted, parts, live) ==
    /\ w.pc = "await" => Held(t) = {}
    /\ w.pc = "replay" => \A x \in Held(t) : x < w.buffer[w.replayed + 1]
    /\ live /\ t.up /\ ~t.failed => \A i \in accepted : Due(w, i) => Has(t, i, parts)

SentInv == Sent(writer, Current, Accepted, stored[Current.upload], Current.upload \notin sealed)

\* A stream carries what was accepted, relative to some parts.
Tracks(w, t, accepted, parts, live) ==
    Orderly(t) /\ Carries(t, accepted, parts, live) /\ Sent(w, t, accepted, parts, live)

\* All this holds as long as events are accepted in their order and no part takes the
\* number of another.
Undamaged == InOrder /\ "overwritten" \notin mishaps

RecordInv == PhaseInv /\ HistoryInv /\ ConfirmedInv /\ KeptInv /\ SentInv

\* The history is made of the confirmed events and the buffer.
LEMMA HistoryType ==
    ASSUME TypeOK, HistoryInv
    PROVE  /\ log \in Seq(Events) /\ writer.buffer \in Seq(Events) /\ writer \in Writer
           /\ Len(log) \in Nat /\ Len(writer.buffer) \in Nat /\ Confirmed \in Nat
           /\ Confirmed + Len(writer.buffer) = Len(log)
           /\ DOMAIN log = 1..Len(log) /\ DOMAIN writer.buffer = 1..Len(writer.buffer)
           /\ \A n \in DOMAIN writer.buffer : n + Confirmed \in DOMAIN log
           /\ Accepted \subseteq Events /\ Accepted \subseteq Nat
           /\ \A n \in DOMAIN log : log[n] \in Accepted /\ log[n] \in Nat
           /\ \A x \in Accepted : \E n \in DOMAIN log : x = log[n]
           /\ \A n, m \in DOMAIN log : log[n] < log[m] => n < m
<1>1. log \in Seq(Events) /\ writer.buffer \in Seq(Events) /\ writer \in Writer
  BY CurrentType DEF TypeOK
<1>2. /\ Len(log) \in Nat /\ Len(writer.buffer) \in Nat
      /\ DOMAIN log = 1..Len(log) /\ DOMAIN writer.buffer = 1..Len(writer.buffer)
  BY <1>1
<1>3. Confirmed \in Nat /\ Confirmed + Len(writer.buffer) = Len(log)
  <2>1. PICK a, b : a = Len(log) /\ b = Len(writer.buffer)
    OBVIOUS
  <2>2. a \in Nat /\ b \in Nat /\ b <= a /\ Confirmed = a - b
    BY <1>2, <2>1 DEF Confirmed, HistoryInv
  <2>3. a - b \in Nat /\ (a - b) + b = a
    BY <2>2
  <2>4. QED
    BY <2>1, <2>2, <2>3
<1>4. \A n \in DOMAIN writer.buffer : n + Confirmed \in DOMAIN log
  <2>1. PICK a, b, c : a = Len(log) /\ b = Len(writer.buffer) /\ c = Confirmed
    OBVIOUS
  <2>2. a \in Nat /\ b \in Nat /\ c \in Nat /\ c + b = a
    BY <1>2, <1>3, <2>1
  <2>3. \A n \in 1..b : n + c \in 1..a
    BY <2>2
  <2>4. QED
    BY <1>2, <2>1, <2>3
<1>5. /\ Accepted \subseteq Events /\ Accepted \subseteq Nat
      /\ \A n \in DOMAIN log : log[n] \in Accepted /\ log[n] \in Nat
  BY <1>1, SetOf, Bounds DEF Accepted
<1>6. \A x \in Accepted : \E n \in DOMAIN log : x = log[n]
  BY DEF Accepted, ToSet
<1>7. ASSUME NEW n \in DOMAIN log, NEW m \in DOMAIN log, log[n] < log[m] PROVE n < m
  <2>1. n \in Nat /\ m \in Nat /\ log[n] \in Nat /\ log[m] \in Nat
    BY <1>2, <1>5
  <2>2. m < n => log[m] < log[n]
    BY DEF HistoryInv, Increasing
  <2>3. m = n => log[m] = log[n]
    OBVIOUS
  <2>4. QED
    BY <1>7, <2>1, <2>2, <2>3
<1>8. QED
  BY <1>1, <1>2, <1>3, <1>4, <1>5, <1>6, <1>7

\* History and buffer are left alone.
LEMMA HistorySame ==
    ASSUME HistoryInv, ConfirmedInv, UNCHANGED <<log, stored>>,
           writer'.buffer = writer.buffer, writer'.upload = writer.upload
    PROVE  HistoryInv' /\ ConfirmedInv'
<1>1. Confirmed' = Confirmed /\ Accepted' = Accepted
  BY DEF Confirmed, Accepted
<1>2. QED
  BY <1>1 DEF HistoryInv, ConfirmedInv

\* More emitters only make the order of events less certain.
LEMMA OrderedBefore ==
    ASSUME [AuditNext]_vars, TypeOK, Undamaged', mishaps \subseteq mishaps'
    PROVE  Undamaged /\ Increasing(log) /\ Increasing(log)'
<1>1. log' = log \/ \E i \in Events : log' = Append(log, i)
  BY DEF AuditNext, WriterNext, ServerNext, vars, Close, Lose, Send, TakeStatus, StreamDone, Resume,
         Resumed, AwaitTimesOut, GiveUp, Replay, ReplayFails, Finish, Receive, HandlerFails, Flush,
         Complete, StartUpload, PartStored, PartFails, Closed, Report, Disconnect, Crash, CheckUpload,
         ListUpload
<1>2. CASE log' = log
  BY <1>2 DEF Undamaged, InOrder, Increasing
<1>3. ASSUME NEW i \in Events, log' = Append(log, i) PROVE InOrder
  <2>1. log \in Seq(Events)
    BY DEF TypeOK
  <2>2. /\ DOMAIN Append(log, i) = 1..(Len(log) + 1) /\ DOMAIN log = 1..Len(log) /\ Len(log) \in Nat
        /\ \A j \in 1..Len(log) : Append(log, i)[j] = log[j]
    BY <2>1, AppendAt
  <2>3. 1..Len(log) \subseteq 1..(Len(log) + 1)
    BY <2>2
  <2>4. \A m, n \in DOMAIN Append(log, i) : m < n => Append(log, i)[m] < Append(log, i)[n]
    BY <1>3 DEF Undamaged, InOrder
  <2>5. QED
    BY <2>2, <2>3, <2>4 DEF InOrder
<1>4. InOrder /\ InOrder' /\ "overwritten" \notin mishaps
  BY <1>1, <1>2, <1>3 DEF Undamaged, InOrder
<1>5. QED
  BY <1>4 DEF Undamaged, InOrder, Increasing

\* The history and the buffer grow by the same event.
LEMMA SendHistory ==
    ASSUME TypeOK, HistoryInv, ConfirmedInv, Increasing(log)', NEW i \in Events, Send(i)
    PROVE  /\ HistoryInv' /\ ConfirmedInv'
           /\ Accepted' = Accepted \cup {i} /\ \A x \in Accepted : x < i
           /\ Confirmed' = Confirmed /\ \A parts : ConfirmedIn(parts) => ConfirmedIn(parts)'
<1>1. PICK b, g, c : b = writer.buffer /\ g = log /\ c = Confirmed
  OBVIOUS
<1>2. /\ g \in Seq(Events) /\ b \in Seq(Events) /\ writer \in Writer
      /\ Len(g) \in Nat /\ Len(b) \in Nat /\ c \in Nat
      /\ c + Len(b) = Len(g)
      /\ DOMAIN g = 1..Len(g) /\ DOMAIN b = 1..Len(b)
  BY <1>1, HistoryType
<1>3. /\ log' = Append(g, i) /\ UNCHANGED stored
      /\ writer'.buffer = Append(b, i) /\ writer'.upload = writer.upload
  BY <1>1, <1>2 DEF Send, Writer
<1>5. Accepted' = Accepted \cup {i}
  <2>1. ToSet(Append(g, i)) = ToSet(g) \cup {i}
    BY <1>2, SetAppend
  <2>2. QED
    BY <1>1, <1>3, <2>1 DEF Accepted
<1>6. /\ DOMAIN Append(g, i) = 1..(Len(g) + 1) /\ DOMAIN Append(b, i) = 1..(Len(b) + 1)
      /\ \A j \in 1..Len(g) : Append(g, i)[j] = g[j]
      /\ \A j \in 1..Len(b) : Append(b, i)[j] = b[j]
      /\ Append(g, i)[Len(g) + 1] = i /\ Append(b, i)[Len(b) + 1] = i
      /\ Len(Append(g, i)) = Len(g) + 1 /\ Len(Append(b, i)) = Len(b) + 1
  <2>1. /\ DOMAIN Append(g, i) = 1..(Len(g) + 1) /\ Append(g, i)[Len(g) + 1] = i
        /\ \A j \in 1..Len(g) : Append(g, i)[j] = g[j]
    BY <1>2, AppendAt
  <2>2. /\ DOMAIN Append(b, i) = 1..(Len(b) + 1) /\ Append(b, i)[Len(b) + 1] = i
        /\ \A j \in 1..Len(b) : Append(b, i)[j] = b[j]
    BY <1>2, AppendAt
  <2>3. Len(Append(g, i)) = Len(g) + 1 /\ Len(Append(b, i)) = Len(b) + 1
    BY <1>2, SetAppend
  <2>4. QED
    BY <2>1, <2>2, <2>3
<1>4. \A x \in Accepted : x < i
  <2>1. ASSUME NEW n \in DOMAIN g PROVE g[n] < i
    <3>1. n \in DOMAIN Append(g, i) /\ Len(g) + 1 \in DOMAIN Append(g, i) /\ n < Len(g) + 1
      BY <1>2, <1>6
    <3>2. Append(g, i)[n] < Append(g, i)[Len(g) + 1]
      BY <1>3, <3>1 DEF Increasing
    <3>3. QED
      BY <1>2, <1>6, <3>2
  <2>2. QED
    BY <1>1, <2>1 DEF Accepted, ToSet
<1>7. Confirmed' = c
  <2>1. Confirmed' = (Len(g) + 1) - (Len(b) + 1)
    BY <1>1, <1>3, <1>6 DEF Confirmed
  <2>2. QED
    BY <1>2, <2>1
<1>9. ASSUME NEW n \in 1..(Len(b) + 1) PROVE Append(b, i)[n] = Append(g, i)[n + c]
  <2>1. CASE n = Len(b) + 1
    <3>1. n + c = Len(g) + 1
      BY <1>2, <2>1
    <3>2. QED
      BY <1>6, <2>1, <3>1
  <2>2. CASE n \in 1..Len(b)
    <3>1. n + c \in 1..Len(g)
      BY <1>2, <2>2
    <3>2. b[n] = g[n + c]
      BY <1>1, <1>2, <2>2 DEF HistoryInv
    <3>3. QED
      BY <1>6, <2>2, <3>1, <3>2
  <2>3. QED
    BY <1>2, <2>1, <2>2
<1>10. \A n \in DOMAIN writer'.buffer : writer'.buffer[n] = log'[n + Confirmed']
  BY <1>3, <1>6, <1>7, <1>9
<1>12. Len(writer'.buffer) <= Len(log')
  BY <1>2, <1>3, <1>6
<1>14. writer'.upload = 0 => Confirmed' = 0
  BY <1>1, <1>3, <1>7 DEF HistoryInv
<1>15. HistoryInv'
  BY <1>10, <1>12, <1>14 DEF HistoryInv
<1>16. \A n \in 1..c : log'[n] = g[n]
  <2>1. ASSUME NEW n \in 1..c PROVE log'[n] = g[n]
    <3>1. n \in 1..Len(g)
      BY <1>2
    <3>2. QED
      BY <1>3, <1>6, <3>1
  <2>2. QED
    BY <2>1
<1>17. ConfirmedInv'
  BY <1>1, <1>3, <1>7, <1>16 DEF ConfirmedInv
<1>18. \A parts : ConfirmedIn(parts) => ConfirmedIn(parts)'
  BY <1>1, <1>7, <1>16 DEF ConfirmedIn
<1>19. QED
  BY <1>1, <1>4, <1>5, <1>7, <1>15, <1>17, <1>18

\* The writer forgets what a status tells to be stored.
LEMMA TakeStatusHistory ==
    ASSUME RecordInv, TakeStatus
    PROVE  /\ HistoryInv' /\ ConfirmedInv'
           /\ Confirmed <= Confirmed' /\ Confirmed' <= Len(log)
           /\ \A parts, live : Carries(Current, Accepted, parts, live) /\ ConfirmedIn(parts) => ConfirmedIn(parts)'
<1>1. TypeOK /\ HistoryInv /\ PhaseInv
  BY DEF RecordInv, PhaseInv
<1>2. PICK b, g, c, index : b = writer.buffer /\ g = log /\ c = Confirmed /\ index = Head(Current.status)
  OBVIOUS
<1>3. /\ g \in Seq(Events) /\ b \in Seq(Events) /\ writer \in Writer
      /\ Len(g) \in Nat /\ Len(b) \in Nat /\ c \in Nat
      /\ c + Len(b) = Len(g)
      /\ DOMAIN g = 1..Len(g) /\ DOMAIN b = 1..Len(b)
      /\ \A n \in DOMAIN g : g[n] \in Accepted
  BY <1>1, <1>2, HistoryType
<1>4. PICK rest : rest = Unconfirmed(index, b)
  OBVIOUS
<1>5. /\ index \in ToSet(Current.status) /\ index \in Int
  BY <1>1, <1>2, TakeStatusType
<1>6. /\ rest \in Seq(Events) /\ Len(rest) <= Len(b)
      /\ \A j \in 1..Len(rest) : rest[j] = b[j + (Len(b) - Len(rest))]
      /\ \A i \in 1..(Len(b) - Len(rest)) : b[i] <= index
  BY <1>3, <1>4, <1>5, Dropped
<1>7. /\ writer'.buffer = rest /\ writer'.upload = Current.upload
      /\ UNCHANGED <<log, stored>>
  BY <1>2, <1>3, <1>4 DEF TakeStatus, Writer
<1>8. PICK d : d = Len(b) - Len(rest)
  OBVIOUS
<1>9. d \in Nat /\ Len(rest) \in Nat /\ DOMAIN rest = 1..Len(rest) /\ d + Len(rest) = Len(b)
  BY <1>3, <1>6, <1>8
<1>10. Confirmed' = c + d
  <2>1. Confirmed' = Len(g) - Len(rest)
    BY <1>2, <1>7 DEF Confirmed
  <2>2. c \in Nat /\ d \in Nat /\ Len(rest) \in Nat /\ Len(g) = c + (d + Len(rest))
    BY <1>3, <1>9
  <2>3. Len(g) - Len(rest) = c + d
    BY <2>2
  <2>4. QED
    BY <2>1, <2>3
<1>11. ASSUME NEW n \in 1..Len(b) PROVE b[n] = g[n + c]
  BY <1>1, <1>2, <1>3 DEF HistoryInv
<1>12. ASSUME NEW n \in DOMAIN rest PROVE rest[n] = g[n + Confirmed']
  <2>1. n + d \in 1..Len(b) /\ (n + d) + c = n + (c + d)
    BY <1>3, <1>9
  <2>2. rest[n] = b[n + d]
    BY <1>6, <1>8, <1>9
  <2>3. b[n + d] = g[(n + d) + c]
    BY <1>11, <2>1
  <2>4. QED
    BY <1>10, <2>1, <2>2, <2>3
<1>13. writer.stream \in Opened /\ Current.upload # 0 /\ Current = streams[writer.stream]
  <2>1. writer.stream \in Opened /\ streams[writer.stream].upload \in 1..writer.stream
    BY <1>1, OpenedType
  <2>2. QED
    BY <2>1 DEF Current
<1>14. HistoryInv'
  <2>1. Accepted' = Accepted
    BY <1>7 DEF Accepted
  <2>2. Len(writer'.buffer) <= Len(log')
    <3>1. Len(rest) <= Len(g)
      BY <1>3, <1>9
    <3>2. QED
      BY <1>2, <1>7, <3>1
  <2>3. QED
    BY <1>1, <1>2, <1>7, <1>12, <1>13, <2>1, <2>2 DEF HistoryInv
<1>15. ASSUME NEW parts, NEW live, Carries(Current, Accepted, parts, live), ConfirmedIn(parts)
       PROVE  \A n \in 1..(c + d) : StoredIn(parts, g[n])
  <2> SUFFICES ASSUME NEW n \in 1..(c + d) PROVE StoredIn(parts, g[n])
    OBVIOUS
  <2>1. CASE n \in 1..c
    BY <1>2, <1>15, <2>1 DEF ConfirmedIn
  <2>2. CASE n \notin 1..c
    <3>1. n - c \in 1..d /\ n - c \in 1..Len(b) /\ (n - c) + c = n /\ n \in DOMAIN g
      BY <1>3, <1>9, <2>2
    <3>2. g[n] <= index
      BY <1>6, <1>8, <1>11, <3>1
    <3>3. index \in Told(Current)
      BY <1>5 DEF Told
    <3>4. QED
      BY <1>3, <1>15, <3>1, <3>2, <3>3 DEF Carries
  <2>3. QED
    BY <2>1, <2>2
<1>16. \A parts, live : Carries(Current, Accepted, parts, live) /\ ConfirmedIn(parts) => ConfirmedIn(parts)'
  BY <1>2, <1>7, <1>10, <1>15 DEF ConfirmedIn
<1>17. Carries(Current, Accepted, stored[Current.upload], Current.upload \notin sealed)
  BY <1>13 DEF RecordInv, KeptInv
<1>18. ConfirmedIn(stored[Current.upload])
  <2>1. CASE c = 0
    BY <1>2, <2>1 DEF ConfirmedIn
  <2>2. CASE c # 0
    <3>1. Current.upload = writer.upload
      BY <1>1, <1>2, <2>2 DEF HistoryInv, PhaseInv
    <3>2. QED
      BY <3>1 DEF RecordInv, ConfirmedInv, ConfirmedIn
  <2>3. QED
    BY <2>1, <2>2
<1>19. ConfirmedInv'
  BY <1>2, <1>7, <1>10, <1>15, <1>17, <1>18 DEF ConfirmedInv
<1>20. Confirmed <= Confirmed' /\ Confirmed' <= Len(log)
  <2>1. PICK x, y, z : x = Len(g) /\ y = Len(b) /\ z = Len(rest)
    OBVIOUS
  <2>2. x \in Nat /\ y \in Nat /\ z \in Nat /\ c + y = x /\ d + z = y
    BY <1>3, <1>9, <2>1
  <2>3. c <= c + d /\ c + d <= x
    BY <1>3, <1>9, <2>2
  <2>4. QED
    BY <1>2, <1>10, <2>1, <2>3
<1>21. QED
  BY <1>14, <1>16, <1>19, <1>20

\* A step of one stream that leaves the history and the storage alone.
LEMMA KeptOne ==
    ASSUME PhaseInv, KeptInv, NEW s, writer'.stream = writer.stream, UNCHANGED <<stored, log>>,
           \A q \in Streams : q # s => streams'[q] = streams[q],
           sealed \subseteq sealed', streams'[s].upload = streams[s].upload, Orderly(streams'[s]),
           Carries(streams'[s], Accepted, stored[streams[s].upload], streams[s].upload \notin sealed)
    PROVE  KeptInv'
<1>1. Opened' = Opened /\ Opened \subseteq Streams /\ Accepted' = Accepted
  BY OpenedType DEF Opened, Accepted
<1>2. ASSUME NEW q \in Opened
      PROVE  /\ Orderly(streams'[q])
             /\ Carries(streams'[q], Accepted, stored'[streams'[q].upload], streams'[q].upload \notin sealed')
  <2>1. PICK u, r : u = streams[q].upload /\ r = streams'[q]
    OBVIOUS
  <2>2. r.upload = u /\ Orderly(r) /\ Carries(r, Accepted, stored[u], u \notin sealed)
    <3>1. CASE q = s
      BY <2>1, <3>1
    <3>2. CASE q # s
      <4>1. streams'[q] = streams[q]
        BY <1>1, <3>2
      <4>2. QED
        BY <2>1, <4>1 DEF KeptInv
    <3>3. QED
      BY <3>1, <3>2
  <2>3. u \notin sealed' => u \notin sealed
    OBVIOUS
  <2>4. Carries(r, Accepted, stored[u], u \notin sealed')
    BY <2>2, <2>3, CarriesLess
  <2>5. QED
    BY <2>1, <2>2, <2>4
<1>3. QED
  BY <1>1, <1>2 DEF KeptInv

\* What the current stream has, it keeps.
LEMMA SentKept ==
    ASSUME NEW w, NEW v, NEW t, NEW r, NEW accepted, NEW parts, NEW more, NEW live, NEW less, less => live,
           Sent(w, t, accepted, parts, live),
           v.pc = w.pc, w.pc # "run" => v.buffer = w.buffer /\ v.replayed = w.replayed,
           Held(r) \subseteq Held(t), r.up => t.up,
           r.up /\ ~r.failed /\ less /\ w.pc # "ended" =>
              ~t.failed /\ \A i \in accepted : Has(t, i, parts) => Has(r, i, more)
    PROVE  Sent(v, r, accepted, more, less)
<1>1. w.pc = "await" => Held(r) = {}
  BY DEF Sent
<1>2. w.pc = "replay" => \A x \in Held(r) : x < w.buffer[w.replayed + 1]
  BY DEF Sent
<1>3. \A i : Due(v, i) => Due(w, i) /\ w.pc # "ended"
  BY DEF Due
<1>4. less /\ r.up /\ ~r.failed => \A i \in accepted : Due(v, i) => Has(r, i, more)
  BY <1>3 DEF Sent
<1>5. QED
  BY <1>1, <1>2, <1>4 DEF Sent

\* A writer that does not send owes its stream nothing.
LEMMA SentNothing ==
    ASSUME NEW w, w.pc \notin {"await", "replay", "run"}, NEW t, NEW accepted, NEW parts, NEW live
    PROVE  Sent(w, t, accepted, parts, live)
BY DEF Sent, Due

\* What the invariant says of the current stream.
LEMMA RecordType ==
    ASSUME RecordInv
    PROVE  /\ PhaseInv /\ TypeOK /\ HistoryInv /\ ConfirmedInv /\ KeptInv /\ SentInv
           /\ writer \in Writer /\ writer.stream \in Streams /\ writer.stream \in Opened
           /\ Current \in StreamRecord /\ Current = streams[writer.stream]
           /\ Current.upload \in Uploads /\ Working(Current)
           /\ InPhase(writer, writer.stream, Current)
           /\ stored[Current.upload] \in Seq(Seq(Events))
           /\ Accepted \subseteq Events
           /\ Orderly(Current)
           /\ Carries(Current, Accepted, stored[Current.upload], Current.upload \notin sealed)
<1>1. PhaseInv /\ TypeOK /\ HistoryInv /\ ConfirmedInv /\ KeptInv /\ SentInv
  BY DEF RecordInv, PhaseInv
<1>2. /\ writer \in Writer /\ writer.stream \in Streams /\ writer.stream \in Opened
      /\ Current \in StreamRecord /\ Current = streams[writer.stream]
      /\ Current.upload \in Uploads
  BY <1>1, CurrentType, OpenedType DEF Current
<1>3. InPhase(writer, writer.stream, Current) /\ Working(Current)
  BY <1>1, <1>2 DEF PhaseInv, InPhase
<1>4. stored[Current.upload] \in Seq(Seq(Events)) /\ Accepted \subseteq Events
  BY <1>1, <1>2, PartsOfType, HistoryType
<1>5. Orderly(Current) /\ Carries(Current, Accepted, stored[Current.upload], Current.upload \notin sealed)
  BY <1>1, <1>2 DEF KeptInv
<1>6. QED
  BY <1>1, <1>2, <1>3, <1>4, <1>5

\* What a stream carries, relative to any parts, step by step: a stream serves;
LEMMA ServesTracks ==
    ASSUME RecordInv, NEW s \in Streams, Serves(s),
           NEW parts \in Seq(Seq(Events)), NEW live, Tracks(writer, Current, Accepted, parts, live)
    PROVE  Tracks(writer', Current', Accepted', parts, live)
<1>1. PICK t, r : t = streams[s] /\ r = streams'[s]
  OBVIOUS
<1>2. PhaseInv /\ TypeOK /\ Current = streams[writer.stream] /\ writer.stream \in Streams
  BY RecordType
<1>3. /\ UNCHANGED <<writer, stored, log>> /\ t \in StreamRecord /\ r \in StreamRecord
      /\ \A q \in Streams : q # s => streams'[q] = streams[q]
  BY <1>1, <1>2, ServesMoves, MovesType, Typed DEF Moves, StreamTyped
<1>4. Current' = streams'[writer.stream] /\ Accepted' = Accepted
  BY <1>3 DEF Current, Accepted
<1>5. CASE writer.stream # s
  <2>1. Current' = Current
    BY <1>2, <1>3, <1>4, <1>5
  <2>2. QED
    BY <1>3, <1>4, <2>1
<1>6. CASE writer.stream = s
  <2>1. Current' = r /\ Current = t
    BY <1>1, <1>2, <1>4, <1>6
  <2>2. InPhase(writer, s, t)
    BY <1>1, <1>2 DEF PhaseInv
  <2>3. /\ Continues(t, r) /\ Carried(t, r) /\ Carries(t, Accepted, parts, live)
        /\ Sent(writer, t, Accepted, parts, live)
    BY <1>1, <1>2, <2>1, <2>2, ServesGoes DEF Goes, InPhase, Tracks
  <2>4. Orderly(r) /\ Carries(r, Accepted, parts, live)
    BY <1>3, <2>3, CarriesGoes DEF Carried
  <2>5. Held(r) \subseteq Held(t) /\ (r.up => t.up)
    BY <2>3 DEF Carried, Continues
  <2>6. ASSUME r.up, ~r.failed, writer.pc # "ended"
        PROVE  ~t.failed /\ \A i \in Accepted : Has(t, i, parts) => Has(r, i, parts)
    <3>1. ~t.asked
      BY <2>2, <2>6 DEF InPhase
    <3>2. ~t.failed /\ Held(r) = Held(t) /\ NextPart(t) <= NextPart(r)
      BY <2>3, <2>6, <3>1 DEF Carried
    <3>3. \A i : Below(parts, NextPart(t), i) => Below(parts, NextPart(r), i)
      BY <1>3, <3>2, HeldType, BelowMore
    <3>4. QED
      BY <3>2, <3>3 DEF Has
  <2>7. Sent(writer, r, Accepted, parts, live)
    BY <2>3, <2>5, <2>6, SentKept
  <2>8. QED
    BY <1>3, <1>4, <2>1, <2>4, <2>7 DEF Tracks
<1>7. QED
  BY <1>5, <1>6

\* the writer moves without its stream;
LEMMA UnstreamedTracks ==
    ASSUME RecordInv, Unstreamed, NEW parts, NEW live, Tracks(writer, Current, Accepted, parts, live)
    PROVE  Tracks(writer', Current', Accepted', parts, live)
<1>1. TypeOK /\ writer \in Writer
  BY RecordType
<1>2. /\ UNCHANGED <<streams, log>> /\ writer'.buffer = writer.buffer
      /\ writer'.stream = writer.stream
  BY <1>1, UnstreamedType
<1>3. Accepted' = Accepted /\ Current' = Current
  BY <1>2 DEF Accepted, Current
<1>4. \/ writer'.pc \in {"resume", "ended"}
      \/ writer'.pc = writer.pc /\ writer'.replayed = writer.replayed
  <2>1. CASE \E i \in Events : Lose(i)
    BY <1>1, <2>1 DEF Lose, Writer
  <2>2. CASE ~\E i \in Events : Lose(i)
    BY <1>1, <2>2 DEF Unstreamed, Close, StreamDone, GiveUp, ReplayFails, CheckUpload, ListUpload, Writer
  <2>3. QED
    BY <2>1, <2>2
<1>5. Sent(writer', Current, Accepted, parts, live)
  <2>1. CASE writer'.pc \in {"resume", "ended"}
    BY <2>1, SentNothing
  <2>2. CASE writer'.pc = writer.pc /\ writer'.replayed = writer.replayed
    BY <1>2, <2>2 DEF Tracks, Sent, Due
  <2>3. QED
    BY <1>4, <2>1, <2>2
<1>6. QED
  BY <1>3, <1>5 DEF Tracks

\* The invariant of recordings, step by step: a stream serves;
LEMMA ServesRecord ==
    ASSUME RecordInv, NEW s \in Streams, Serves(s)
    PROVE  RecordInv'
<1>1. PICK t, r : t = streams[s] /\ r = streams'[s]
  OBVIOUS
<1>2. PhaseInv /\ TypeOK /\ HistoryInv /\ ConfirmedInv /\ KeptInv
  BY RecordType
<1>3. PhaseInv'
  BY <1>2, ServesPhase
<1>4. /\ UNCHANGED <<writer, stored, log>> /\ t \in StreamRecord /\ r \in StreamRecord
      /\ \A q \in Streams : q # s => streams'[q] = streams[q]
      /\ sealed \subseteq sealed'
  BY <1>1, <1>2, ServesMoves, MovesType, Typed DEF Moves, StreamTyped
<1>5. InPhase(writer, s, t)
  BY <1>1, <1>2 DEF PhaseInv
<1>6. Continues(t, r) /\ (Orderly(t) => Carried(t, r))
  BY <1>1, <1>2, <1>5, ServesGoes DEF Goes, InPhase
<1>7. s \in Opened /\ t.upload \in Uploads /\ stored[t.upload] \in Seq(Seq(Events))
  BY <1>1, <1>2, ServesOpened, PartsOfType DEF Opened
<1>8. Carried(t, r) /\ Carries(t, Accepted, stored[t.upload], t.upload \notin sealed)
  BY <1>1, <1>2, <1>6, <1>7 DEF KeptInv
<1>9. /\ Orderly(r) /\ Carries(r, Accepted, stored[t.upload], t.upload \notin sealed)
      /\ r.upload = t.upload
  BY <1>4, <1>6, <1>7, <1>8, CarriesGoes DEF Carried, Continues
<1>10. KeptInv'
  BY <1>1, <1>2, <1>4, <1>9, KeptOne
<1>11. HistoryInv' /\ ConfirmedInv'
  BY <1>2, <1>4, HistorySame
<1>12. SentInv'
  <2>1. PICK parts, live : parts = stored[Current.upload] /\ live = (Current.upload \notin sealed)
    OBVIOUS
  <2>2. parts \in Seq(Seq(Events)) /\ Tracks(writer, Current, Accepted, parts, live)
    BY <2>1, RecordType DEF SentInv, Tracks
  <2>3. Sent(writer', Current', Accepted', parts, live)
    BY <2>2, ServesTracks DEF Tracks
  <2>4. Current'.upload = Current.upload
    BY <1>1, <1>2, <1>4, <1>9, RecordType DEF Current
  <2>5. (Current'.upload \notin sealed') => live
    BY <1>4, <2>1, <2>4
  <2>6. Sent(writer', Current', Accepted', parts, Current'.upload \notin sealed')
    BY <2>3, <2>5 DEF Sent
  <2>7. QED
    BY <1>4, <2>1, <2>4, <2>6 DEF SentInv
<1>13. QED
  BY <1>3, <1>10, <1>11, <1>12 DEF RecordInv

\* its part is stored;
LEMMA PartStoredRecord ==
    ASSUME RecordInv, NEW s \in Streams, PartStored(s), "overwritten" \notin mishaps'
    PROVE  RecordInv'
<1>1. PICK t, r, u, p : t = streams[s] /\ r = streams'[s] /\ u = t.upload /\ p = t.active
  OBVIOUS
<1>2. PhaseInv /\ TypeOK /\ HistoryInv /\ ConfirmedInv /\ KeptInv /\ Accepted \subseteq Events
  BY RecordType
<1>3. PhaseInv' /\ p.number \notin PartsOf(u) /\ u \notin sealed /\ sealed' = sealed
  BY <1>1, <1>2, PartStoredPhase DEF PartStored, CanStore
<1>4. /\ p \in Part /\ p # NoPart /\ ~t.failed /\ u \in Uploads
      /\ stored'[u] = WithPart(p, stored[u])
      /\ \A v \in Uploads : v # u => stored'[v] = stored[v]
      /\ \A q \in Streams : q # s => streams'[q] = streams[q]
  BY <1>1, <1>2, PartStoredPhase
<1>5. UNCHANGED <<writer, log>>
  BY DEF PartStored, CanStore
<1>6. t \in StreamRecord /\ Working(t) /\ InPhase(writer, s, t)
  BY <1>1, <1>2, Typed DEF PhaseInv, InPhase
<1>7. r = StoredOf(t)
  BY <1>1, <1>2, PartStoredMoves DEF StoredOf
<1>8. s \in Opened /\ Opened' = Opened /\ Opened \subseteq Streams /\ writer.stream \in Opened
  BY <1>2, <1>5, ServesOpened, OpenedType DEF Opened
<1>9. PICK parts, more : parts = stored[u] /\ more = stored'[u]
  OBVIOUS
<1>10. /\ parts \in Seq(Seq(Events)) /\ p.number \notin Numbers(parts)
       /\ more = WithPart(t.active, parts)
  BY <1>1, <1>2, <1>3, <1>4, <1>9, PartsOfType, NumbersIs
<1>11. Orderly(t) /\ Carries(t, Accepted, parts, TRUE) /\ PartsOrderly(parts, Accepted)
  <2>1. Orderly(t) /\ Carries(t, Accepted, parts, u \notin sealed) /\ PartsOrderly(parts, Accepted)
    BY <1>1, <1>2, <1>4, <1>8, <1>9 DEF KeptInv
  <2>2. (u \notin sealed) = TRUE
    BY <1>3
  <2>3. QED
    BY <2>1, <2>2
<1>12. /\ Orderly(r) /\ Carries(r, Accepted, more, TRUE)
       /\ Held(r) \subseteq Held(t)
       /\ PartsOrderly(more, Accepted) /\ Grown(parts, more)
       /\ t.phase = "open" => \A i \in Accepted : Has(t, i, parts) => Has(r, i, more)
  <2>1. t.active # NoPart /\ t.active.number \notin Numbers(parts) /\ ~t.failed
    BY <1>1, <1>4, <1>10
  <2>2. parts \in Seq(Seq(Events)) /\ more = WithPart(t.active, parts)
    BY <1>10
  <2>3. t \in StreamRecord /\ Working(t) /\ r = StoredOf(t)
    BY <1>6, <1>7
  <2>4. PICK A : A = Accepted
    OBVIOUS
  <2>5. A \subseteq Events /\ Orderly(t) /\ Carries(t, A, parts, TRUE) /\ PartsOrderly(parts, A)
    BY <1>2, <1>11, <2>4
  <2>6. /\ Orderly(r) /\ Carries(r, A, more, TRUE) /\ Held(r) \subseteq Held(t)
        /\ PartsOrderly(more, A) /\ Grown(parts, more)
        /\ t.phase = "open" => \A i \in A : Has(t, i, parts) => Has(r, i, more)
    BY <2>1, <2>2, <2>3, <2>5, CarriesStored
  <2>7. QED
    BY <2>4, <2>6
<1>13. r.upload = u /\ r.up = t.up /\ r.failed = t.failed
  <2>1. t.active # NoPart /\ ~t.failed /\ t \in StreamRecord /\ Working(t) /\ r = StoredOf(t)
    BY <1>1, <1>4, <1>6, <1>7
  <2>2. Stores(t, r)
    BY <2>1, StoredFields
  <2>3. QED
    BY <1>1, <2>2 DEF Stores
<1>14. ASSUME NEW v \in Uploads
       PROVE  Grown(stored[v], stored'[v]) /\ PartsOrderly(stored'[v], Accepted)
  <2>1. CASE v = u
    BY <1>9, <1>12, <2>1
  <2>2. CASE v # u
    BY <1>2, <1>4, <2>2 DEF Grown, KeptInv
  <2>3. QED
    BY <2>1, <2>2
<1>15. Accepted' = Accepted /\ Confirmed' = Confirmed
  BY <1>5 DEF Accepted, Confirmed
<1>16. KeptInv'
  <2>1. ASSUME NEW q \in Opened
        PROVE  /\ Orderly(streams'[q])
               /\ Carries(streams'[q], Accepted, stored'[streams'[q].upload], streams'[q].upload \notin sealed')
    <3>1. CASE q = s
      <4>1. streams'[q].upload = u /\ Carries(streams'[q], Accepted, stored'[u], TRUE) /\ Orderly(streams'[q])
        BY <1>1, <1>9, <1>12, <1>13, <3>1
      <4>2. QED
        BY <4>1, CarriesLess
    <3>2. CASE q # s
      <4>1. streams'[q] = streams[q] /\ streams[q].upload \in Uploads
        BY <1>2, <1>4, <1>8, <3>2, OpenedType
      <4>2. PICK v, live : v = streams[q].upload /\ live = (v \notin sealed)
        OBVIOUS
      <4>3. Orderly(streams[q]) /\ Carries(streams[q], Accepted, stored[v], live)
        BY <1>2, <4>2 DEF KeptInv
      <4>4. Carries(streams[q], Accepted, stored'[v], live)
        BY <1>14, <4>1, <4>2, <4>3, CarriesGrown
      <4>5. QED
        BY <1>3, <4>1, <4>2, <4>3, <4>4
    <3>3. QED
      BY <3>1, <3>2
  <2>2. QED
    BY <1>8, <1>14, <1>15, <2>1 DEF KeptInv
<1>17. HistoryInv'
  BY <1>2, <1>5, <1>15 DEF HistoryInv
<1>18. ConfirmedInv'
  <2>1. ASSUME NEW n \in 1..Confirmed PROVE StoredIn(stored'[writer.upload], log[n])
    <3>1. writer.upload # 0
      <4>1. Confirmed # 0
        BY <1>2, <2>1, HistoryType
      <4>2. QED
        BY <1>2, <4>1 DEF HistoryInv
    <3>2. writer.upload \in Uploads
      BY <1>2, <3>1, CurrentType, WriterFields, Bounds DEF Uploads, Streams
    <3>3. StoredIn(stored[writer.upload], log[n])
      BY <1>2 DEF ConfirmedInv
    <3>4. QED
      BY <1>14, <3>2, <3>3, GrownKeeps
  <2>2. QED
    BY <1>5, <1>15, <2>1 DEF ConfirmedInv
<1>19. SentInv'
  <2>1. PICK c, d, v, live : c = Current /\ d = Current' /\ v = c.upload /\ live = (v \notin sealed)
    OBVIOUS
  <2>2. /\ Sent(writer, c, Accepted, stored[v], live) /\ c = streams[writer.stream]
        /\ v \in Uploads
    BY <2>1, RecordType DEF SentInv
  <2>3. d = streams'[writer.stream]
    BY <1>5, <2>1 DEF Current
  <2>4. d.upload = v /\ Sent(writer, d, Accepted, stored'[v], live)
    <3>1. CASE writer.stream = s
      <4>1. c = t /\ d = r /\ v = u
        BY <1>1, <2>1, <2>2, <2>3, <3>1
      <4>2. ASSUME r.up, ~r.failed, writer.pc # "ended"
            PROVE  ~t.failed /\ \A i \in Accepted : Has(t, i, parts) => Has(r, i, more)
        <5>1. t.phase = "open"
          BY <1>6, <1>13, <4>2 DEF InPhase, Working
        <5>2. QED
          BY <1>4, <1>12, <5>1
      <4>3. Sent(writer, t, Accepted, parts, live)
        BY <1>9, <2>2, <4>1
      <4>4. Sent(writer, r, Accepted, more, live)
        BY <1>12, <1>13, <4>2, <4>3, SentKept
      <4>5. QED
        BY <1>9, <1>13, <4>1, <4>4
    <3>2. CASE writer.stream # s
      <4>1. d = c
        BY <1>4, <1>8, <2>2, <2>3, <3>2
      <4>2. \A i \in Accepted : Has(c, i, stored[v]) => Has(c, i, stored'[v])
        BY <1>14, <2>2, GrownKeeps DEF Has
      <4>3. ASSUME NEW x, x = stored[v], NEW y, y = stored'[v]
            PROVE  Sent(writer, c, Accepted, y, live)
        <5>1. Sent(writer, c, Accepted, x, live)
          BY <2>2, <4>3
        <5>2. \A i \in Accepted : Has(c, i, x) => Has(c, i, y)
          BY <4>2, <4>3
        <5>3. QED
          BY <5>1, <5>2 DEF Sent
      <4>4. QED
        BY <2>1, <4>1, <4>3
    <3>3. QED
      BY <3>1, <3>2
  <2>5. QED
    BY <1>3, <1>5, <1>15, <2>1, <2>4 DEF SentInv
<1>20. QED
  BY <1>3, <1>16, <1>17, <1>18, <1>19 DEF RecordInv

\* the writer moves without a stream, or the completer does;
LEMMA UnstreamedRecord ==
    ASSUME RecordInv, Unstreamed
    PROVE  RecordInv'
<1>1. /\ PhaseInv /\ TypeOK /\ HistoryInv /\ ConfirmedInv /\ KeptInv /\ SentInv
      /\ writer \in Writer
  BY RecordType
<1>2. /\ UNCHANGED <<streams, stored, log>> /\ writer'.buffer = writer.buffer
      /\ writer'.stream = writer.stream /\ writer'.upload = writer.upload
      /\ sealed \subseteq sealed'
  BY <1>1, UnstreamedType
<1>3. PhaseInv' /\ HistoryInv' /\ ConfirmedInv'
  BY <1>1, <1>2, UnstreamedPhase, HistorySame
<1>4. Opened' = Opened /\ Accepted' = Accepted /\ Current' = Current
  BY <1>2 DEF Opened, Accepted, Current
<1>5. KeptInv'
  <2>1. ASSUME NEW q \in Opened
        PROVE  /\ Orderly(streams[q])
               /\ Carries(streams[q], Accepted, stored[streams[q].upload], streams[q].upload \notin sealed')
    <3>1. PICK v, live, less : v = streams[q].upload /\ live = (v \notin sealed) /\ less = (v \notin sealed')
      OBVIOUS
    <3>2. Orderly(streams[q]) /\ Carries(streams[q], Accepted, stored[v], live) /\ (less => live)
      BY <1>1, <1>2, <3>1 DEF KeptInv
    <3>3. Carries(streams[q], Accepted, stored[v], less)
      BY <3>2, CarriesLess
    <3>4. QED
      BY <3>1, <3>2, <3>3
  <2>2. QED
    BY <1>1, <1>2, <1>4, <2>1 DEF KeptInv
<1>6. SentInv'
  <2>1. PICK c, v, live, less : c = Current /\ v = c.upload /\ live = (v \notin sealed) /\ less = (v \notin sealed')
    OBVIOUS
  <2>2. Tracks(writer, Current, Accepted, stored[v], live) /\ (less => live)
    BY <1>2, <2>1, RecordType DEF SentInv, Tracks
  <2>3. Sent(writer', Current', Accepted', stored[v], live)
    BY <2>2, UnstreamedTracks DEF Tracks
  <2>4. Sent(writer', Current', Accepted', stored[v], less)
    BY <2>2, <2>3 DEF Sent
  <2>5. QED
    BY <1>2, <1>4, <2>1, <2>4 DEF SentInv
<1>7. QED
  BY <1>3, <1>5, <1>6 DEF RecordInv

\* What streams carry stays when the writer only reads or asks.
LEMMA WriterOnlyKept ==
    ASSUME RecordInv, WriterOnly
    PROVE  /\ PhaseInv' /\ KeptInv' /\ Accepted' = Accepted
           /\ writer'.stream = writer.stream /\ UNCHANGED <<stored, sealed, log>>
           /\ LET t == Current
                  r == Current'
              IN  /\ r = streams'[writer.stream] /\ r \in StreamRecord
                  /\ SameWork(t, r) /\ r.upload = t.upload /\ (r.up => t.up)
                  /\ Held(r) = Held(t)
                  /\ \A i, parts : Has(t, i, parts) => Has(r, i, parts)
<1>1. PICK t, r : t = Current /\ r = streams'[writer.stream]
  OBVIOUS
<1>2. /\ PhaseInv /\ KeptInv /\ t = streams[writer.stream]
      /\ Orderly(t) /\ Carries(t, Accepted, stored[t.upload], t.upload \notin sealed)
  BY <1>1, RecordType
<1>3. /\ writer'.stream = writer.stream /\ UNCHANGED <<stored, sealed, log>>
      /\ \A q \in Streams : q # writer.stream => streams'[q] = streams[q]
      /\ t \in StreamRecord /\ r \in StreamRecord /\ SameWork(t, r)
      /\ r.upload = t.upload /\ Told(r) \subseteq Told(t) /\ (r.up => t.up)
  BY <1>1, <1>2, WriterOnlyWork
<1>4. PhaseInv'
  BY <1>2, WriterOnlyWork
<1>5. Orderly(r) /\ Carries(r, Accepted, stored[t.upload], t.upload \notin sealed)
  BY <1>2, <1>3, CarriesSame
<1>6. KeptInv'
  BY <1>1, <1>2, <1>3, <1>5, KeptOne
<1>7. Held(r) = Held(t) /\ NextPart(r) = NextPart(t)
  BY <1>3, SameWorkIs
<1>8. Current' = r /\ Accepted' = Accepted
  BY <1>1, <1>3 DEF Current, Accepted
<1>9. \A i, parts : Has(t, i, parts) => Has(r, i, parts)
  BY <1>7 DEF Has
<1>10. QED
  BY <1>1, <1>3, <1>4, <1>6, <1>7, <1>8, <1>9

\* The writer reads a status, gives the stream up or asks it to complete;
LEMMA WriterOnlyTracks ==
    ASSUME RecordInv, WriterOnly, NEW parts, NEW live, Tracks(writer, Current, Accepted, parts, live),
           Sent(writer', Current', Accepted, parts, live)
    PROVE  Tracks(writer', Current', Accepted', parts, live)
<1>1. PICK t, r : t = Current /\ r = Current'
  OBVIOUS
<1>2. /\ Accepted' = Accepted /\ SameWork(t, r) /\ r = streams'[writer.stream]
  BY <1>1, WriterOnlyKept
<1>3. Told(r) \subseteq Told(t)
  BY <1>1, <1>2, WriterOnlyWork, RecordType
<1>4. Orderly(r) /\ Carries(r, Accepted, parts, live)
  BY <1>1, <1>2, <1>3, CarriesSame DEF Tracks
<1>5. QED
  BY <1>1, <1>2, <1>4 DEF Tracks

LEMMA TakeStatusTracks ==
    ASSUME RecordInv, TakeStatus, NEW parts, NEW live, Tracks(writer, Current, Accepted, parts, live)
    PROVE  Tracks(writer', Current', Accepted', parts, live)
<1>1. PICK t, r : t = Current /\ r = Current'
  OBVIOUS
<1>2. WriterOnly /\ writer \in Writer
  BY RecordType DEF WriterOnly
<1>3. /\ Accepted' = Accepted
      /\ SameWork(t, r) /\ (r.up => t.up)
      /\ \A i : Has(t, i, parts) => Has(r, i, parts)
  BY <1>1, <1>2, WriterOnlyKept
<1>4. writer.pc = "run" /\ writer'.pc = "run"
  BY <1>2 DEF TakeStatus, Writer
<1>5. Sent(writer, t, Accepted, parts, live)
  BY <1>1 DEF Tracks
<1>6. ASSUME live, r.up, ~r.failed PROVE \A i \in Accepted : Has(r, i, parts)
  BY <1>3, <1>4, <1>5, <1>6 DEF Sent, SameWork, Due
<1>7. Sent(writer', r, Accepted, parts, live)
  BY <1>4, <1>6 DEF Sent
<1>8. QED
  BY <1>1, <1>2, <1>7, WriterOnlyTracks

LEMMA StopsTracks ==
    ASSUME RecordInv, AwaitTimesOut \/ Finish, NEW parts, NEW live,
           Tracks(writer, Current, Accepted, parts, live)
    PROVE  Tracks(writer', Current', Accepted', parts, live)
<1>1. WriterOnly /\ writer \in Writer
  BY RecordType DEF WriterOnly
<1>2. writer'.pc \in {"resume", "ended"}
  BY <1>1 DEF AwaitTimesOut, CanTimeOut, Finish, CanFinish, Writer
<1>3. QED
  BY <1>1, <1>2, SentNothing, WriterOnlyTracks

\* the stream is there, and has what is not in the buffer behind it;
LEMMA ResumedTracks ==
    ASSUME RecordInv, Resumed, NEW parts, NEW live, Tracks(writer, Current, Accepted, parts, live)
    PROVE  Tracks(writer', Current', Accepted', parts, live)
<1>1. PICK t, r : t = Current /\ r = Current'
  OBVIOUS
<1>2. WriterOnly /\ writer \in Writer
  BY RecordType DEF WriterOnly
<1>3. /\ Accepted' = Accepted
      /\ SameWork(t, r) /\ (r.up => t.up) /\ Held(r) = Held(t)
      /\ \A i : Has(t, i, parts) => Has(r, i, parts)
  BY <1>1, <1>2, WriterOnlyKept
<1>4. /\ writer'.buffer = writer.buffer /\ writer'.replayed = 0
      /\ writer.pc = "await"
      /\ writer'.pc = IF writer.buffer = <<>> THEN "run" ELSE "replay"
  BY <1>2 DEF Resumed, Writer
<1>5. Held(t) = {} /\ Sent(writer, t, Accepted, parts, live)
  BY <1>1, <1>4 DEF Tracks, Sent
<1>6. \A i : Due(writer', i) => Due(writer, i)
  <2>1. writer'.buffer[writer'.replayed + 1] = writer.buffer[1]
    BY <1>4
  <2>2. QED
    BY <1>4, <2>1 DEF Due
<1>7. live /\ r.up /\ ~r.failed => \A i \in Accepted : Due(writer', i) => Has(r, i, parts)
  BY <1>3, <1>5, <1>6 DEF Sent, SameWork
<1>8. Sent(writer', r, Accepted, parts, live)
  BY <1>3, <1>5, <1>7 DEF Sent
<1>9. QED
  BY <1>1, <1>2, <1>8, WriterOnlyTracks

\* What is confirmed is stored in the upload of the current stream.
LEMMA BehindConfirmed ==
    ASSUME RecordInv
    PROVE  ConfirmedIn(stored[Current.upload])
<1>1. PhaseInv /\ HistoryInv /\ ConfirmedInv
  BY RecordType
<1>2. CASE Confirmed = 0
  BY <1>1, <1>2 DEF ConfirmedIn
<1>3. CASE Confirmed # 0
  <2>1. Current.upload = writer.upload
    BY <1>1, <1>3 DEF HistoryInv, PhaseInv
  <2>2. QED
    BY <1>1, <2>1 DEF ConfirmedInv, ConfirmedIn
<1>4. QED
  BY <1>2, <1>3

\* The invariant when the writer reads, gives up or asks.
LEMMA WriterOnlyRecord ==
    ASSUME RecordInv, WriterOnly
    PROVE  RecordInv'
<1>1. /\ PhaseInv' /\ KeptInv' /\ UNCHANGED <<stored, sealed, log>>
      /\ Current'.upload = Current.upload
  BY WriterOnlyKept
<1>2. /\ writer \in Writer /\ HistoryInv /\ ConfirmedInv
      /\ Tracks(writer, Current, Accepted, stored[Current.upload], Current.upload \notin sealed)
  BY RecordType DEF SentInv, Tracks
<1>3. HistoryInv' /\ ConfirmedInv'
  <2>1. CASE TakeStatus
    BY <2>1, TakeStatusHistory
  <2>2. CASE ~TakeStatus
    <3>1. /\ writer'.buffer = writer.buffer /\ writer'.upload = writer.upload
          /\ writer'.taken = writer.taken
      BY <1>2, <2>2 DEF WriterOnly, Resumed, AwaitTimesOut, CanTimeOut, Finish, CanFinish, Writer
    <3>2. QED
      BY <1>1, <1>2, <3>1, HistorySame
  <2>3. QED
    BY <2>1, <2>2
<1>4. PICK parts, live : parts = stored[Current.upload] /\ live = (Current.upload \notin sealed)
  OBVIOUS
<1>5. Tracks(writer', Current', Accepted', parts, live)
  BY <1>2, <1>4, TakeStatusTracks, StopsTracks, ResumedTracks DEF WriterOnly
<1>6. SentInv'
  BY <1>1, <1>4, <1>5 DEF SentInv, Tracks
<1>7. QED
  BY <1>1, <1>3, <1>6 DEF RecordInv

\* The next event comes behind all that the stream has.
LEMMA SendTracks ==
    ASSUME RecordInv, Increasing(log)', NEW i \in Events, Send(i),
           NEW parts, NEW live, Tracks(writer, Current, Accepted, parts, live)
    PROVE  Tracks(writer', Current', Accepted', parts, live) /\ Current'.upload = Current.upload
<1>1. PICK t, A, r : t = Current /\ A = Accepted /\ r = Current'
  OBVIOUS
<1>2. /\ PhaseInv /\ TypeOK /\ HistoryInv /\ ConfirmedInv
      /\ t \in StreamRecord /\ t = streams[writer.stream] /\ A \subseteq Events
      /\ writer \in Writer /\ writer.stream \in Streams
  BY <1>1, RecordType
<1>3. Accepted' = A \cup {i} /\ \A x \in A : x < i
  BY <1>1, <1>2, SendHistory
<1>4. /\ writer'.stream = writer.stream /\ writer.pc = "run"
      /\ writer'.pc = (IF t.up THEN "run" ELSE "resume")
  BY <1>1, <1>2 DEF Send, Writer
<1>5. r = streams'[writer.stream]
  BY <1>1, <1>4 DEF Current
<1>6. /\ Orderly(t) /\ Carries(t, A, parts, live) /\ Carries(t, A \cup {i}, parts, live)
      /\ Sent(writer, t, A, parts, live)
  BY <1>1, <1>2, <1>3, CarriesMore DEF Tracks
<1>7. CASE t.up
  <2>1. r = [t EXCEPT !.net = Append(@, i)]
    BY <1>1, <1>2, <1>5, <1>7, SendMoves
  <2>2. live /\ ~t.failed => \A j \in A : Has(t, j, parts)
    BY <1>4, <1>6, <1>7 DEF Sent, Due
  <2>3. live /\ ~t.failed => \A j \in A \cup {i} : j < i => Has(t, j, parts)
    BY <2>2, Bounds
  <2>4. \A x \in Held(t) : x < i
    BY <1>3, <1>6 DEF Carries
  <2>5. A \cup {i} \subseteq Events /\ i \in A \cup {i}
    BY <1>2
  <2>6. /\ Orderly(r) /\ Carries(r, A \cup {i}, parts, live)
        /\ r.failed = t.failed /\ Held(r) = Held(t) \cup {i}
        /\ \A j : Has(t, j, parts) => Has(r, j, parts)
    <3>1. PICK B : B = A \cup {i}
      OBVIOUS
    <3>2. t \in StreamRecord /\ Orderly(t) /\ Carries(t, B, parts, live) /\ B \subseteq Events /\ i \in B
      BY <1>2, <1>6, <2>5, <3>1
    <3>3. r = [t EXCEPT !.net = Append(@, i)]
      BY <2>1
    <3>4. live /\ ~t.failed => \A j \in B : j < i => Has(t, j, parts)
      BY <2>3, <3>1
    <3>5. /\ Orderly(r) /\ Carries(r, B, parts, live)
          /\ r.failed = t.failed /\ Held(r) = Held(t) \cup {i}
          /\ \A j : Has(t, j, parts) => Has(r, j, parts)
      BY <2>4, <3>2, <3>3, <3>4, CarriesSent
    <3>6. QED
      BY <3>1, <3>5
  <2>7. ASSUME live, ~r.failed, NEW j \in A \cup {i} PROVE Has(r, j, parts)
    <3>1. CASE j \in A
      BY <2>2, <2>6, <2>7, <3>1
    <3>2. CASE j = i
      BY <2>6, <3>2 DEF Has
    <3>3. QED
      BY <3>1, <3>2
  <2>8. Sent(writer', r, A \cup {i}, parts, live)
    BY <1>4, <1>7, <2>7 DEF Sent
  <2>9. r.upload = t.upload
    BY <1>2, <2>1 DEF StreamRecord
  <2>10. QED
    BY <1>1, <1>3, <2>6, <2>8, <2>9 DEF Tracks
<1>8. CASE ~t.up
  <2>1. r = t
    BY <1>1, <1>2, <1>5, <1>8, SendMoves
  <2>2. Sent(writer', r, A \cup {i}, parts, live)
    BY <1>4, <1>8, SentNothing
  <2>3. QED
    BY <1>1, <1>3, <1>6, <2>1, <2>2 DEF Tracks
<1>9. QED
  BY <1>7, <1>8

LEMMA SendRecord ==
    ASSUME RecordInv, Increasing(log)', NEW i \in Events, Send(i)
    PROVE  RecordInv'
<1>1. PICK parts, live, A :
        parts = stored[Current.upload] /\ live = (Current.upload \notin sealed) /\ A = Accepted
  OBVIOUS
<1>2. /\ PhaseInv /\ TypeOK /\ HistoryInv /\ ConfirmedInv /\ KeptInv
      /\ Current = streams[writer.stream] /\ A \subseteq Events
      /\ writer \in Writer /\ writer.stream \in Streams
      /\ Tracks(writer, Current, A, parts, live)
  BY <1>1, RecordType DEF SentInv, Tracks
<1>3. PhaseInv'
  BY <1>2, SendPhase
<1>4. HistoryInv' /\ ConfirmedInv' /\ Accepted' = A \cup {i} /\ \A x \in A : x < i
  BY <1>1, <1>2, SendHistory
<1>5. writer'.stream = writer.stream /\ UNCHANGED <<stored, sealed>>
  BY <1>2 DEF Send, Writer
<1>6. Opened' = Opened /\ Opened \subseteq Streams
  BY <1>2, <1>5, OpenedType DEF Opened
<1>7. \A u \in Uploads : PartsOrderly(stored'[u], A \cup {i})
  BY <1>1, <1>2, <1>4, <1>5, PartsOrderlyMore DEF KeptInv
<1>8. Tracks(writer', Current', Accepted', parts, live) /\ Current'.upload = Current.upload
  BY <1>1, <1>2, SendTracks
<1>9. Current' = streams'[writer.stream]
  BY <1>5 DEF Current
<1>10. ASSUME NEW q \in Opened
       PROVE  /\ Orderly(streams'[q])
              /\ Carries(streams'[q], A \cup {i}, stored'[streams'[q].upload], streams'[q].upload \notin sealed')
  <2>1. CASE q = writer.stream
    BY <1>1, <1>4, <1>5, <1>8, <1>9, <2>1 DEF Tracks
  <2>2. CASE q # writer.stream
    <3>1. streams'[q] = streams[q]
      <4>1. q \in Streams
        BY <1>6
      <4>2. QED
        BY <1>2, <2>2, <4>1 DEF Send, TypeOK
    <3>2. QED
      BY <1>1, <1>2, <1>4, <1>5, <3>1, CarriesMore DEF KeptInv
  <2>3. QED
    BY <2>1, <2>2
<1>11. KeptInv'
  BY <1>4, <1>6, <1>7, <1>10 DEF KeptInv
<1>12. SentInv'
  BY <1>1, <1>5, <1>8 DEF SentInv, Tracks
<1>13. QED
  BY <1>3, <1>4, <1>11, <1>12 DEF RecordInv

\* The buffer is replayed in its order, which is that of the history.
LEMMA ReplayTracks ==
    ASSUME RecordInv, Replay, NEW parts, NEW live, Tracks(writer, Current, Accepted, parts, live)
    PROVE  Tracks(writer', Current', Accepted', parts, live) /\ Current'.upload = Current.upload
<1>1. PICK t, r, A : t = Current /\ r = streams'[writer.stream] /\ A = Accepted
  OBVIOUS
<1>2. /\ PhaseInv /\ TypeOK /\ HistoryInv /\ ConfirmedInv /\ KeptInv
      /\ t \in StreamRecord /\ t = streams[writer.stream] /\ A \subseteq Events
      /\ writer \in Writer /\ writer.stream \in Streams
      /\ Orderly(t) /\ Carries(t, A, parts, live)
  BY <1>1, RecordType DEF Tracks
<1>3. PICK b, g, c, k : b = writer.buffer /\ g = log /\ c = Confirmed /\ k = writer.replayed + 1
  OBVIOUS
<1>4. /\ g \in Seq(Events) /\ b \in Seq(Events) /\ Len(g) \in Nat /\ Len(b) \in Nat /\ c \in Nat
      /\ c + Len(b) = Len(g) /\ DOMAIN g = 1..Len(g) /\ DOMAIN b = 1..Len(b)
      /\ \A n \in DOMAIN g : g[n] \in A /\ g[n] \in Nat
      /\ \A x \in A : \E n \in DOMAIN g : x = g[n]
      /\ \A n, m \in DOMAIN g : g[n] < g[m] => n < m
  BY <1>1, <1>2, <1>3, HistoryType
<1>5. /\ writer.pc = "replay" /\ t.up /\ writer'.stream = writer.stream /\ UNCHANGED <<stored, log>>
      /\ writer'.buffer = b /\ writer'.taken = writer.taken /\ writer'.upload = writer.upload
      /\ \/ k = Len(b) /\ writer'.pc = "run"
         \/ k # Len(b) /\ writer'.pc = "replay" /\ writer'.replayed = k
  BY <1>1, <1>2, <1>3 DEF Replay, CanReplay, Writer
<1>6. writer.replayed < Len(writer.buffer) /\ writer.replayed \in Nat
  BY <1>2, <1>5, WriterFields DEF PhaseInv
<1>7. k \in DOMAIN b /\ k \in Nat /\ k <= Len(b) /\ k + c \in DOMAIN g
  <2>1. PICK d, e : d = Len(b) /\ e = writer.replayed
    OBVIOUS
  <2>5. Len(writer.buffer) = d
    BY <1>3, <2>1
  <2>6. e \in Nat /\ e < d /\ k = e + 1 /\ d \in Nat
    BY <1>3, <1>4, <1>6, <2>1, <2>5
  <2>2. k \in Nat /\ k >= 1 /\ k <= d /\ d \in Nat
    BY <2>6
  <2>3. k \in 1..d /\ k + c \in 1..(c + d)
    BY <1>4, <2>2
  <2>4. QED
    BY <1>4, <2>1, <2>2, <2>3
<1>8. PICK i, m : i = b[k] /\ m = k + c
  OBVIOUS
<1>9. \A n \in DOMAIN b : b[n] = g[n + c]
  BY <1>2, <1>3 DEF HistoryInv
<1>10. i = g[m] /\ m \in DOMAIN g /\ i \in A /\ i \in Events /\ i \in Nat
  BY <1>2, <1>4, <1>7, <1>8, <1>9
<1>11. \A x \in A : \E n \in DOMAIN g : x = g[n] /\ (n <= m => x <= i)
  <2>1. ASSUME NEW x \in A PROVE \E n \in DOMAIN g : x = g[n] /\ (n <= m => x <= i)
    <3>1. PICK n \in DOMAIN g : x = g[n]
      BY <1>4
    <3>2. ~(m < n) => ~(i < x)
      BY <1>4, <1>10, <3>1
    <3>3. x \in Nat /\ n \in Nat /\ m \in Nat
      BY <1>4, <1>10, <3>1
    <3>4. n <= m => x <= i
      BY <1>10, <3>2, <3>3
    <3>5. QED
      BY <3>1, <3>4
  <2>2. QED
    BY <2>1
<1>14. r = [t EXCEPT !.net = Append(@, i)]
  BY <1>1, <1>2, <1>3, <1>6, <1>8, ReplayMoves
<1>15. Sent(writer, t, A, parts, live)
  BY <1>1 DEF Tracks
<1>16. /\ \A x \in Held(t) : x < i
       /\ live /\ ~t.failed => \A j \in A : j < i => Has(t, j, parts)
  BY <1>3, <1>5, <1>8, <1>15 DEF Sent, Due
<1>17. /\ Orderly(r) /\ Carries(r, A, parts, live)
       /\ r.failed = t.failed /\ r.up = t.up
       /\ Held(r) = Held(t) \cup {i}
       /\ \A j : Has(t, j, parts) => Has(r, j, parts)
  <2>1. /\ t \in StreamRecord /\ A \subseteq Events /\ Orderly(t) /\ Carries(t, A, parts, live)
        /\ i \in A /\ i \in Events
    BY <1>2, <1>10
  <2>2. r = [t EXCEPT !.net = Append(@, i)]
    BY <1>14
  <2>3. QED
    BY <1>16, <2>1, <2>2, CarriesSent
<1>18. r.upload = t.upload
  BY <1>2, <1>14 DEF StreamRecord
<1>20. ASSUME live, ~r.failed, NEW x \in A, x <= i PROVE Has(r, x, parts)
  <2>1. CASE x = i
    BY <1>17, <2>1 DEF Has
  <2>2. CASE x < i
    BY <1>16, <1>17, <1>20, <2>2
  <2>3. x \in Nat
    BY <1>2, Bounds
  <2>4. QED
    BY <1>10, <1>20, <2>1, <2>2, <2>3
<1>21. Sent(writer', r, A, parts, live)
  <2>1. CASE k = Len(b) /\ writer'.pc = "run"
    <3>1. m = Len(g)
      BY <1>4, <1>8, <2>1
    <3>2. ASSUME live, ~r.failed, NEW x \in A PROVE Has(r, x, parts)
      <4>1. PICK n \in DOMAIN g : x = g[n] /\ (n <= m => x <= i)
        BY <1>11
      <4>2. n <= m
        BY <1>4, <3>1
      <4>3. QED
        BY <1>20, <3>2, <4>1, <4>2
    <3>3. QED
      BY <2>1, <3>2 DEF Sent
  <2>2. CASE k # Len(b) /\ writer'.pc = "replay" /\ writer'.replayed = k
    <3>1. k + 1 \in DOMAIN b /\ (k + 1) + c = m + 1 /\ m + 1 \in DOMAIN g /\ m \in Nat
      BY <1>4, <1>7, <1>8, <2>2
    <3>2. PICK e : e = b[k + 1]
      OBVIOUS
    <3>3. e = g[m + 1] /\ e \in Nat
      BY <1>4, <1>9, <3>1, <3>2
    <3>4. i < e
      <4>1. m < m + 1
        BY <3>1
      <4>2. \A n, l \in DOMAIN g : n < l => g[n] < g[l]
        BY <1>2, <1>3 DEF HistoryInv, Increasing
      <4>3. QED
        BY <1>10, <3>1, <3>3, <4>1, <4>2
    <3>5. ASSUME NEW x \in Held(r) PROVE x < e
      <4>1. x \in A /\ x \in Nat
        BY <1>2, <1>17, <3>5, Bounds DEF Carries
      <4>2. x < i \/ x = i
        BY <1>16, <1>17
      <4>3. QED
        BY <1>10, <3>3, <3>4, <4>1, <4>2
    <3>6. ASSUME live, ~r.failed, NEW x \in A, x < e PROVE Has(r, x, parts)
      <4>1. PICK n \in DOMAIN g : x = g[n] /\ (n <= m => x <= i)
        BY <1>11
      <4>2. n < m + 1
        BY <1>4, <3>1, <3>3, <3>6, <4>1
      <4>3. n <= m
        BY <1>4, <3>1, <4>2
      <4>4. QED
        BY <1>20, <3>6, <4>1, <4>3
    <3>7. writer'.buffer[writer'.replayed + 1] = e
      BY <1>5, <2>2, <3>2
    <3>8. QED
      BY <2>2, <3>5, <3>6, <3>7 DEF Sent, Due
  <2>3. QED
    BY <1>5, <2>1, <2>2
<1>22. Current' = r /\ Accepted' = A
  BY <1>1, <1>5 DEF Current, Accepted
<1>23. QED
  BY <1>1, <1>17, <1>18, <1>21, <1>22 DEF Tracks

LEMMA ReplayRecord ==
    ASSUME RecordInv, Replay
    PROVE  RecordInv'
<1>1. PICK parts, live : parts = stored[Current.upload] /\ live = (Current.upload \notin sealed)
  OBVIOUS
<1>2. /\ PhaseInv /\ TypeOK /\ HistoryInv /\ ConfirmedInv /\ KeptInv
      /\ Current = streams[writer.stream] /\ writer \in Writer /\ writer.stream \in Streams
      /\ Tracks(writer, Current, Accepted, parts, live)
  BY <1>1, RecordType DEF SentInv, Tracks
<1>3. Tracks(writer', Current', Accepted', parts, live) /\ Current'.upload = Current.upload
  BY <1>2, ReplayTracks
<1>4. /\ writer'.stream = writer.stream /\ UNCHANGED <<stored, sealed, log>>
      /\ writer'.buffer = writer.buffer /\ writer'.taken = writer.taken
      /\ writer'.upload = writer.upload
  BY <1>2 DEF Replay, CanReplay, Writer
<1>5. Current' = streams'[writer.stream] /\ Accepted' = Accepted
  BY <1>4 DEF Current, Accepted
<1>6. PhaseInv'
  BY <1>2, ReplayPhase
<1>7. HistoryInv' /\ ConfirmedInv'
  BY <1>2, <1>4, HistorySame
<1>8. \A q \in Streams : q # writer.stream => streams'[q] = streams[q]
  BY <1>2 DEF Replay, CanReplay, TypeOK
<1>9. KeptInv'
  BY <1>1, <1>2, <1>3, <1>4, <1>5, <1>8, KeptOne DEF Tracks
<1>10. SentInv'
  BY <1>1, <1>3, <1>4 DEF SentInv, Tracks
<1>11. QED
  BY <1>6, <1>7, <1>9, <1>10 DEF RecordInv

\* The new stream has nothing, and everything stored is behind it.
LEMMA ResumeRecord ==
    ASSUME RecordInv, Resume
    PROVE  RecordInv'
<1>1. /\ PhaseInv /\ TypeOK /\ HistoryInv /\ ConfirmedInv /\ KeptInv
      /\ Accepted \subseteq Events
  BY RecordType
<1>2. PICK t, r, b : t = Current /\ r = streams'[writer.stream] /\ b = Begun
  OBVIOUS
<1>3. /\ writer'.stream = Next1 /\ writer'.pc = "await" /\ writer'.upload = writer.upload
      /\ writer'.buffer = writer.buffer /\ writer'.taken = writer.taken
      /\ Next1 = writer.stream + 1 /\ Next1 \in Streams /\ writer.stream \in Streams
      /\ UNCHANGED <<stored, sealed, log>>
      /\ streams'[Next1] = b
      /\ r = [t EXCEPT !.status = <<>>]
      /\ \A q \in Streams \ {Next1, writer.stream} : streams'[q] = streams[q]
  BY <1>1, <1>2, ResumePhase DEF Resume
<1>4. /\ t \in StreamRecord /\ Orderly(t) /\ t = streams[writer.stream]
      /\ Carries(t, Accepted, stored[t.upload], t.upload \notin sealed)
  BY <1>2, RecordType
<1>5. PhaseInv'
  BY <1>1, ResumePhase
<1>6. HistoryInv' /\ ConfirmedInv'
  BY <1>1, <1>3, HistorySame
<1>7. Orderly(r) /\ Carries(r, Accepted, stored[t.upload], t.upload \notin sealed) /\ r.upload = t.upload
  BY <1>3, <1>4, ReadFields, CarriesSame
<1>8. \A parts, live : Orderly(b) /\ Carries(b, Accepted, parts, live) /\ Held(b) = {}
  BY <1>1, <1>2, BegunFields, CarriesNone
<1>9. /\ Opened \subseteq Streams /\ \A q \in Opened : q # Next1
      /\ \A q \in Opened' : q \in Opened \/ q = Next1
  <2>1. writer.stream \in Nat
    BY <1>3, Bounds
  <2>2. QED
    BY <1>1, <1>3, <2>1, OpenedType DEF Opened
<1>10. Accepted' = Accepted
  BY <1>3 DEF Accepted
<1>11. ASSUME NEW q \in Opened'
       PROVE  /\ Orderly(streams'[q])
              /\ Carries(streams'[q], Accepted, stored'[streams'[q].upload], streams'[q].upload \notin sealed')
  <2>1. CASE q = Next1
    BY <1>3, <1>8, <2>1
  <2>2. CASE q = writer.stream
    BY <1>2, <1>3, <1>7, <2>2
  <2>3. CASE q \in Opened /\ q # writer.stream
    <3>1. streams'[q] = streams[q]
      BY <1>3, <1>9, <2>3
    <3>2. QED
      BY <1>1, <1>3, <2>3, <3>1 DEF KeptInv
  <2>4. QED
    BY <1>9, <2>1, <2>2, <2>3
<1>12. KeptInv'
  BY <1>1, <1>3, <1>10, <1>11 DEF KeptInv
<1>13. Current' = b
  BY <1>3 DEF Current
<1>14. ASSUME b.upload \notin sealed, NEW i \in Accepted, Due(writer', i)
       PROVE  Has(b, i, stored[b.upload])
  <2>1. PICK v, c, k, a, l :
          /\ v = writer.buffer /\ c = Confirmed /\ k = Len(v) /\ a = Len(log) /\ l = b.last
    OBVIOUS
  <2>2. /\ c \in Nat /\ k \in Nat /\ a \in Nat /\ c + k = a /\ DOMAIN log = 1..a /\ DOMAIN v = 1..k
        /\ \A n, m \in DOMAIN log : log[n] < log[m] => n < m
        /\ v \in Seq(Events)
    BY <1>1, <2>1, HistoryType
  <2>3. PICK n \in DOMAIN log : i = log[n]
    BY <1>1, HistoryType
  <2>4. n <= c
    <3>1. CASE v = <<>>
      <4>1. k = 0
        BY <2>1, <3>1
      <4>2. QED
        BY <2>2, <4>1
    <3>2. CASE v # <<>>
      <4>1. 1 \in DOMAIN v /\ 1 + c \in DOMAIN log
        <5>1. k > 0
          BY <2>1, <2>2, <3>2
        <5>2. QED
          BY <2>2, <5>1
      <4>2. v[1] = log[1 + c]
        BY <1>1, <2>1, <4>1 DEF HistoryInv
      <4>3. i < v[1]
        BY <1>3, <1>14, <2>1, <3>2 DEF Due
      <4>4. n < 1 + c
        BY <2>2, <2>3, <4>1, <4>2, <4>3
      <4>5. QED
        BY <2>2, <4>4
    <3>3. QED
      BY <3>1, <3>2
  <2>5. n \in 1..c /\ c # 0
    BY <2>2, <2>4
  <2>6. writer.upload # 0 /\ StoredIn(stored[writer.upload], i)
    BY <1>1, <2>1, <2>3, <2>5 DEF HistoryInv, ConfirmedInv
  <2>7. b.upload = writer.upload /\ l = LastPart(Listed(b.upload)) /\ b.upload \in Uploads
    BY <1>1, <1>2, <2>1, <2>6, BegunFields
  <2>8. PICK parts : parts = stored[b.upload]
    OBVIOUS
  <2>9. PICK q \in DOMAIN parts : i \in ToSet(parts[q])
    BY <2>6, <2>7, <2>8 DEF StoredIn
  <2>10. q \in PartsOf(b.upload) /\ Listed(b.upload) = PartsOf(b.upload)
    BY <1>14, <2>8, <2>9, SetEmpty DEF PartsOf, Listed
  <2>11. PartsOf(b.upload) \subseteq 1..Len(parts) /\ Len(parts) \in Nat
    BY <1>1, <2>7, <2>8, PartsOfType
  <2>12. l \in Nat /\ q <= l
    BY <2>7, <2>10, <2>11, LastPartOf
  <2>13. NextPart(b) = l + 1
    BY <1>1, <1>2, <2>1, BegunFields DEF NextPart
  <2>14. q < NextPart(b)
    BY <2>10, <2>11, <2>12, <2>13
  <2>15. QED
    BY <2>8, <2>9, <2>14 DEF Has, Below
<1>15. SentInv'
  <2>1. Sent(writer', b, Accepted, stored[b.upload], b.upload \notin sealed)
    BY <1>3, <1>8, <1>14 DEF Sent
  <2>2. QED
    BY <1>3, <1>10, <1>13, <2>1 DEF SentInv
<1>16. QED
  BY <1>5, <1>6, <1>12, <1>15 DEF RecordInv

\* Nothing was accepted.
LEMMA RecordStart == AuditInit => RecordInv
<1> SUFFICES ASSUME AuditInit PROVE RecordInv
  OBVIOUS
<1>1. PhaseInv
  BY PhaseStart
<1>2. /\ log = <<>> /\ writer.buffer = <<>> /\ writer.taken = {} /\ writer.stream = 1
      /\ writer.upload = 0 /\ writer.pc = "run" /\ Accepted = {} /\ Confirmed = 0
  <2>1. Len(<<>>) = 0
    OBVIOUS
  <2>2. QED
    BY <2>1, SetEmpty DEF AuditInit, Accepted, Confirmed
<1>3. HistoryInv
  <2>1. Increasing(<<>>) /\ DOMAIN <<>> = {} /\ Len(<<>>) <= Len(<<>>)
    BY DEF Increasing
  <2>2. QED
    BY <1>2, <2>1 DEF HistoryInv
<1>4. ConfirmedInv
  BY <1>2 DEF ConfirmedInv
<1>5. PICK t : t = NewStream(1, {})
  OBVIOUS
<1>6. streams[1] = t
  BY <1>5, Bounds DEF AuditInit
<1>7. /\ t.active = NoPart /\ t.slice = <<>> /\ t.net = <<>> /\ t.done = <<>> /\ t.status = <<-1>>
  BY <1>5, NewStreamFields
<1>8. \A parts, live : Orderly(t) /\ Carries(t, {}, parts, live)
  BY <1>7, CarriesNone
<1>9. Opened = {1}
  BY <1>2 DEF Opened
<1>10. \A u \in Uploads : PartsOrderly(stored[u], {})
  BY DEF AuditInit, PartsOrderly
<1>11. KeptInv
  BY <1>2, <1>6, <1>8, <1>9, <1>10 DEF KeptInv
<1>12. SentInv
  BY <1>2 DEF SentInv, Sent
<1>13. QED
  BY <1>1, <1>3, <1>4, <1>11, <1>12 DEF RecordInv

\* Every step keeps the invariant, as long as nothing damages the recording.
Recordable == PhaseInv /\ (Undamaged => RecordInv)

LEMMA RecordStep == Recordable /\ [AuditNext]_vars => Recordable'
<1> SUFFICES ASSUME Recordable, [AuditNext]_vars PROVE Recordable'
  OBVIOUS
<1>1. PhaseInv /\ PhaseInv' /\ TypeOK /\ mishaps \subseteq mishaps'
  BY PhaseStep, MishapsMore DEF Recordable, PhaseInv
<1>2. ASSUME Undamaged' PROVE RecordInv'
  <2>1. RecordInv /\ Increasing(log)' /\ "overwritten" \notin mishaps'
    BY <1>1, <1>2, OrderedBefore DEF Recordable, Undamaged
  <2>2. CASE AuditNext
    BY <2>1, <2>2, ByCase, UnstreamedRecord, WriterOnlyRecord, ResumeRecord,
       ReplayRecord, SendRecord, ServesRecord, PartStoredRecord DEF WriterOnly
  <2>3. CASE UNCHANGED vars
    <3>1. Accepted' = Accepted /\ Confirmed' = Confirmed /\ Opened' = Opened /\ Current' = Current
      BY <2>3 DEF vars, Accepted, Confirmed, Opened, Current
    <3>2. QED
      BY <1>1, <2>1, <2>3, <3>1 DEF vars, RecordInv, HistoryInv, ConfirmedInv, KeptInv, SentInv
  <2>4. QED
    BY <2>2, <2>3
<1>3. QED
  BY <1>1, <1>2 DEF Recordable

\* What is confirmed is stored in order, and so is played back.
LEMMA RecordConfirmed == RecordInv => ConfirmedStored
<1> SUFFICES ASSUME RecordInv, NEW n \in 1..Confirmed
             PROVE  log[n] \in Played(stored[IF writer.upload = 0 THEN 1 ELSE writer.upload])
  BY DEF ConfirmedStored
<1>1. /\ TypeOK /\ HistoryInv /\ ConfirmedInv /\ KeptInv /\ Accepted \subseteq Events
  BY RecordType
<1>2. /\ Confirmed \in Nat /\ Len(log) \in Nat /\ Len(writer.buffer) \in Nat
      /\ Confirmed + Len(writer.buffer) = Len(log) /\ DOMAIN log = 1..Len(log)
      /\ \A m \in DOMAIN log : log[m] \in Accepted
  BY <1>1, HistoryType
<1>3. writer.upload # 0
  <2>1. PICK c : c = Confirmed
    OBVIOUS
  <2>2. n \in 1..c /\ c \in Nat
    BY <1>2, <2>1
  <2>3. c # 0
    BY <2>2
  <2>4. QED
    BY <1>1, <2>1, <2>3 DEF HistoryInv
<1>4. writer.upload \in Uploads
  BY <1>1, <1>3, CurrentType, WriterFields, Bounds DEF Uploads, Streams
<1>5. n \in DOMAIN log
  <2>1. PICK a, b, c : a = Len(log) /\ b = Len(writer.buffer) /\ c = Confirmed
    OBVIOUS
  <2>2. a \in Nat /\ b \in Nat /\ c \in Nat /\ c + b = a
    BY <1>2, <2>1
  <2>3. n \in 1..c
    BY <2>1
  <2>4. n \in 1..a
    BY <2>2, <2>3
  <2>5. QED
    BY <1>2, <2>1, <2>4
<1>6. /\ stored[writer.upload] \in Seq(Seq(Events))
      /\ PartsOrderly(stored[writer.upload], Accepted)
      /\ StoredIn(stored[writer.upload], log[n])
  BY <1>1, <1>4, PartsOfType DEF KeptInv, ConfirmedInv
<1>7. log[n] \in Played(stored[writer.upload])
  BY <1>1, <1>2, <1>5, <1>6, StoredIsPlayed
<1>8. QED
  BY <1>3, <1>7

\* What the writer drops from its buffer when a status comes (updateStatus) can be
\* played back from its upload, for any number of emitters, events, streams, completers
\* and faults, until a part takes the number of another or an event overtakes another:
\* the streams carry what was accepted in its order and without gaps, so that a part has
\* everything before its last event in itself or in the parts below it.  With
\* SkippedNumberProtects: until a stream is resumed while a predecessor has more than
\* one part to store.
THEOREM ConfirmedIsStored == AuditSpec => []ConfirmedStored
<1>1. Recordable => ConfirmedStored
  BY RecordConfirmed DEF Recordable, Undamaged, ConfirmedStored
<1>2. AuditInit => Recordable
  BY RecordStart DEF Recordable, RecordInv
<1>3. QED
  BY <1>1, <1>2, RecordStep, PTL DEF AuditSpec

-----------------------------------------------------------------------------
(* How a stream comes to complete its upload *)

\* The parts that a stream has stored, or has found when it resumed the upload.
Numbered(done) == {done[j].number : j \in {j \in DOMAIN done : done[j].ok}}
Own(t) == t.parts \cup Numbered(t.done)

\* It may still complete the upload from them.
Tracked(t) == t.phase \in {"open", "drain"} /\ t.finish # "flush"

Ends(t, r) ==
    /\ r.asked => t.asked
    /\ r.phase = "open" => t.phase = "open" /\ r.finish = t.finish
    /\ r.finish = "complete" => t.finish = "complete" \/ t.asked
    /\ Tracked(r) => Tracked(t) /\ Own(r) = Own(t)

\* A finished upload is counted if it succeeded.
LEMMA NumberedAppend ==
    ASSUME NEW q \in Seq(Finished), NEW e \in Finished
    PROVE  /\ ~e.ok => Numbered(Append(q, e)) = Numbered(q)
           /\ e.ok => Numbered(Append(q, e)) = Numbered(q) \cup {e.number}
<1>1. /\ DOMAIN q = 1..Len(q) /\ DOMAIN Append(q, e) = 1..(Len(q) + 1) /\ Len(q) \in Nat
      /\ \A j \in 1..Len(q) : Append(q, e)[j] = q[j]
      /\ Append(q, e)[Len(q) + 1] = e
  BY AppendAt
<1>2. \A j \in 1..(Len(q) + 1) : j \in 1..Len(q) \/ j = Len(q) + 1
  BY <1>1
<1>3. 1..Len(q) \subseteq 1..(Len(q) + 1) /\ Len(q) + 1 \in 1..(Len(q) + 1)
  BY <1>1
<1>4. Numbered(q) \subseteq Numbered(Append(q, e))
  BY <1>1, <1>3 DEF Numbered
<1>5. ASSUME NEW x \in Numbered(Append(q, e)) PROVE x \in Numbered(q) \/ (e.ok /\ x = e.number)
  BY <1>1, <1>2 DEF Numbered
<1>6. e.ok => e.number \in Numbered(Append(q, e))
  BY <1>1, <1>3 DEF Numbered
<1>7. QED
  BY <1>4, <1>5, <1>6

\* One that is reported counts no more, and the others do.
LEMMA NumberedRemove ==
    ASSUME NEW q \in Seq(Finished), NEW k \in DOMAIN q
    PROVE  /\ q[k].ok => Numbered(RemoveAt(q, k)) \cup {q[k].number} = Numbered(q)
           /\ ~q[k].ok => Numbered(RemoveAt(q, k)) = Numbered(q)
<1>1. PICK d : d = RemoveAt(q, k)
  OBVIOUS
<1>2. /\ \A j \in DOMAIN d : \E i \in DOMAIN q : d[j] = q[i]
      /\ \A i \in DOMAIN q : i # k => \E j \in DOMAIN d : d[j] = q[i]
  BY <1>1, Removed
<1>3. Numbered(d) \subseteq Numbered(q)
  BY <1>2 DEF Numbered
<1>4. ASSUME NEW x \in Numbered(q) PROVE x \in Numbered(d) \/ (q[k].ok /\ x = q[k].number)
  <2>1. PICK i \in DOMAIN q : q[i].ok /\ x = q[i].number
    BY DEF Numbered
  <2>2. CASE i = k
    BY <2>1, <2>2
  <2>3. CASE i # k
    <3>1. PICK j \in DOMAIN d : d[j] = q[i]
      BY <1>2, <2>3
    <3>2. QED
      BY <2>1, <3>1 DEF Numbered
  <2>4. QED
    BY <2>2, <2>3
<1>5. q[k].ok => q[k].number \in Numbered(q)
  BY DEF Numbered
<1>6. QED
  BY <1>1, <1>3, <1>4, <1>5

\* A stream ends as it was asked to, step by step.
LEMMA EndsSame ==
    ASSUME NEW t, NEW r, r.asked => t.asked, r.phase = t.phase, r.finish = t.finish,
           r.parts = t.parts, Numbered(r.done) = Numbered(t.done)
    PROVE  Ends(t, r)
BY DEF Ends, Tracked, Own

LEMMA EndsUntracked ==
    ASSUME NEW t, NEW r, r.asked => t.asked, r.phase # "open",
           r.finish = "complete" => t.finish = "complete",
           r.phase # "drain" \/ r.finish = "flush"
    PROVE  Ends(t, r)
BY DEF Ends, Tracked

LEMMA DrainedEnds ==
    ASSUME NEW t \in StreamRecord, NEW finish \in {"flush", "complete"}, NEW r, r = Drained(t, finish),
           t.phase = "open", t.finish = "none", finish = "complete" => t.asked
    PROVE  Ends(t, r)
<1>1. PICK q \in StreamRecord : q = IF t.slice = <<>> THEN t ELSE Started(t)
  BY StartedType
<1>2. q.parts = t.parts /\ q.done = t.done
  BY <1>1 DEF Started, StreamRecord
<1>3. PICK p : p = IF finish = "flush" THEN {} ELSE q.parts
  OBVIOUS
<1>4. r = [q EXCEPT !.phase = "drain", !.finish = finish, !.net = <<>>,
                    !.asked = FALSE, !.last = 0, !.parts = p]
  BY <1>1, <1>3 DEF Drained
<1>5. ~r.asked /\ r.phase = "drain" /\ r.finish = finish /\ r.parts = p /\ r.done = q.done
  BY <1>1, <1>4 DEF StreamRecord
<1>6. QED
  BY <1>2, <1>3, <1>5 DEF Ends, Tracked, Own

LEMMA ReportEnds ==
    ASSUME TypeOK, NEW s \in Streams, NEW k, Report(s, k)
    PROVE  Ends(streams[s], streams'[s])
<1>1. PICK t, r : t = streams[s] /\ r = streams'[s]
  OBVIOUS
<1>2. /\ t \in StreamRecord /\ t.done \in Seq(Finished) /\ k \in DOMAIN t.done
      /\ t.finish \in {"none", "flush", "complete"}
  BY <1>1, Typed, Fields DEF Report, CanReport
<1>3. PICK d : d = RemoveAt(t.done, k)
  OBVIOUS
<1>4. PICK m : m = [t EXCEPT !.done = d]
  OBVIOUS
<1>5. /\ m \in StreamRecord /\ m.finish = t.finish /\ m.parts = t.parts /\ m.phase = t.phase
      /\ m.asked = t.asked /\ m.done = d
  <2>1. d \in Seq(Finished)
    BY <1>2, <1>3, Removed
  <2>2. QED
    BY <1>2, <1>4, <2>1 DEF StreamRecord
<1>6. PICK p, q : /\ p = IF m.finish = "flush" THEN m.parts ELSE m.parts \cup {t.done[k].number}
                  /\ q = StatusSent(m, t.done[k].index)
  OBVIOUS
<1>a. \/ /\ t.done[k].ok
         /\ streams' = [streams EXCEPT ![s] = [m EXCEPT !.parts = p, !.status = q]]
      \/ /\ ~t.done[k].ok
         /\ streams' = [streams EXCEPT ![s] =
                IF m.phase = "drain" THEN m
                ELSE [m EXCEPT !.phase = "cancelled", !.slice = <<>>,
                                    !.done = <<>>, !.parts = {}, !.last = 0]]
  BY <1>1, <1>3, <1>4, <1>6 DEF Report, CanReport
<1>b. \/ t.done[k].ok /\ r = [m EXCEPT !.parts = p, !.status = q]
      \/ ~t.done[k].ok /\ r = m
      \/ r = [m EXCEPT !.phase = "cancelled", !.slice = <<>>, !.done = <<>>, !.parts = {}, !.last = 0]
  BY <1>1, <1>a DEF TypeOK
<1>7. CASE t.done[k].ok /\ r = [m EXCEPT !.parts = p, !.status = q]
  <2>1. r.asked = t.asked /\ r.phase = t.phase /\ r.finish = t.finish /\ r.parts = p /\ r.done = d
    BY <1>5, <1>7 DEF StreamRecord
  <2>2. Numbered(d) \cup {t.done[k].number} = Numbered(t.done)
    BY <1>2, <1>3, <1>7, NumberedRemove
  <2>3. t.finish # "flush" => Own(r) = Own(t)
    BY <1>5, <1>6, <2>1, <2>2 DEF Own
  <2>4. QED
    BY <1>1, <2>1, <2>3 DEF Ends, Tracked
<1>8. CASE ~t.done[k].ok /\ r = m
  <2>1. /\ r.asked = t.asked /\ r.phase = t.phase /\ r.finish = t.finish /\ r.parts = t.parts
        /\ r.done = d
    BY <1>5, <1>8
  <2>2. Numbered(d) = Numbered(t.done)
    BY <1>2, <1>3, <1>8, NumberedRemove
  <2>3. QED
    BY <1>1, <2>1, <2>2, EndsSame
<1>9. CASE r = [m EXCEPT !.phase = "cancelled", !.slice = <<>>,
                                     !.done = <<>>, !.parts = {}, !.last = 0]
  <2>1. r.asked = t.asked /\ r.phase = "cancelled" /\ r.finish = t.finish
    BY <1>5, <1>9 DEF StreamRecord
  <2>2. QED
    BY <1>1, <2>1, EndsUntracked
<1>10. QED
  BY <1>7, <1>8, <1>9, <1>b

\* Everything else that a stream does.
LEMMA ServesEnds ==
    ASSUME TypeOK, NEW s \in Streams, Serves(s),
           streams[s].phase = "open" => streams[s].finish = "none"
    PROVE  Ends(streams[s], streams'[s])
<1>1. PICK t, r : t = streams[s] /\ r = streams'[s]
  OBVIOUS
<1>2. t \in StreamRecord /\ streams \in [Streams -> StreamRecord] /\ t.done \in Seq(Finished)
  BY <1>1, Typed, Fields DEF TypeOK
<1>3. CASE Receive(s)
  <2>1. PICK taken : taken = [t EXCEPT !.net = Tail(@), !.slice = Append(@, Head(t.net))]
    OBVIOUS
  <2>2. taken \in StreamRecord /\ taken.asked = t.asked /\ taken.phase = t.phase
        /\ taken.finish = t.finish /\ taken.parts = t.parts /\ taken.done = t.done
    <3>1. StreamTyped(t) /\ t.net # <<>>
      BY <1>1, <1>3, Typed DEF Receive, CanReceive
    <3>2. taken \in StreamRecord
      <4>1. StreamTyped([t EXCEPT !.net = Tail(@), !.slice = Append(@, Head(t.net))])
        BY <3>1, TakenType
      <4>2. QED
        BY <2>1, <4>1 DEF StreamTyped
    <3>3. taken.asked = t.asked /\ taken.phase = t.phase
          /\ taken.finish = t.finish /\ taken.parts = t.parts /\ taken.done = t.done
      BY <1>2, <2>1 DEF StreamRecord
    <3>4. QED
      BY <3>2, <3>3
  <2>3. \/ streams' = [streams EXCEPT ![s] = taken]
        \/ streams' = [streams EXCEPT ![s] = IF taken.active = NoPart THEN Started(taken)
                                             ELSE [taken EXCEPT !.full = TRUE]]
    BY <1>1, <1>3, <2>1 DEF Receive, CanReceive
  <2>4. r = taken \/ r = Started(taken) \/ r = [taken EXCEPT !.full = TRUE]
    BY <1>1, <1>2, <2>3
  <2>5. r.asked = t.asked /\ r.phase = t.phase /\ r.finish = t.finish /\ r.parts = t.parts /\ r.done = t.done
    BY <2>2, <2>4 DEF Started, StreamRecord
  <2>6. QED
    BY <1>1, <2>5, EndsSame
<1>4. CASE HandlerFails(s)
  <2>1. r = [t EXCEPT !.up = FALSE, !.net = <<>>]
    BY <1>1, <1>2, <1>4 DEF HandlerFails, CanRefuse
  <2>2. r.asked = t.asked /\ r.phase = t.phase /\ r.finish = t.finish /\ r.parts = t.parts /\ r.done = t.done
    BY <1>2, <2>1 DEF StreamRecord
  <2>3. QED
    BY <1>1, <2>2, EndsSame
<1>5. CASE Flush(s)
  <2>1. r = Drained(t, "flush") /\ t.phase = "open"
    BY <1>1, <1>2, <1>5 DEF Flush, CanFlush, Drains
  <2>2. QED
    BY <1>1, <1>2, <2>1, DrainedEnds
<1>6. CASE Complete(s)
  <2>1. r = Drained(t, "complete") /\ t.phase = "open" /\ t.asked
    BY <1>1, <1>2, <1>6 DEF Complete, CanComplete, Drains
  <2>2. QED
    BY <1>1, <1>2, <2>1, DrainedEnds
<1>7. CASE StartUpload(s)
  <2>1. r = Started(t)
    BY <1>1, <1>2, <1>7 DEF StartUpload, CanStart
  <2>2. r.asked = t.asked /\ r.phase = t.phase /\ r.finish = t.finish /\ r.parts = t.parts /\ r.done = t.done
    BY <1>2, <2>1 DEF Started, StreamRecord
  <2>3. QED
    BY <1>1, <2>2, EndsSame
<1>8. CASE PartFails(s)
  <2>1. PICK e : e = Upload(t.active, FALSE)
    OBVIOUS
  <2>2. r = [t EXCEPT !.active = NoPart, !.failed = TRUE, !.done = Append(@, e)] /\ t.active # NoPart
    BY <1>1, <1>2, <1>8, <2>1 DEF PartFails, CanStore, CanMiss
  <2>3. e \in Finished /\ ~e.ok
    BY <1>2, <2>1, <2>2, ActivePart, UploadType
  <2>4. r.asked = t.asked /\ r.phase = t.phase /\ r.finish = t.finish /\ r.parts = t.parts
        /\ r.done = Append(t.done, e)
    BY <1>2, <2>2 DEF StreamRecord
  <2>5. QED
    BY <1>1, <1>2, <2>3, <2>4, NumberedAppend, EndsSame
<1>9. CASE Closed(s) \/ Crash(s)
  <2>1. r = Gone(s, "closed") \/ r = Gone(s, "dead")
    BY <1>1, <1>9, ClosedMoves, CrashMoves
  <2>2. ~r.asked /\ r.phase \in {"closed", "dead"} /\ r.finish = "none"
    BY <2>1 DEF Gone, NoStream
  <2>3. QED
    BY <1>1, <2>2, EndsUntracked
<1>10. CASE \E k \in 1..MaxEvents : Report(s, k)
  BY <1>10, ReportEnds
<1>11. CASE Disconnect(s)
  <2>1. r = [t EXCEPT !.up = FALSE]
    BY <1>1, <1>2, <1>11 DEF Disconnect
  <2>2. r.asked = t.asked /\ r.phase = t.phase /\ r.finish = t.finish /\ r.parts = t.parts /\ r.done = t.done
    BY <1>2, <2>1 DEF StreamRecord
  <2>3. QED
    BY <1>1, <2>2, EndsSame
<1>12. QED
  BY <1>3, <1>4, <1>5, <1>6, <1>7, <1>8, <1>9, <1>10, <1>11 DEF Serves
-----------------------------------------------------------------------------
(* The stream that completes the upload *)

\* Only the last stream is asked to complete the upload, when the writer has ended.
Ending(w, s, t) ==
    /\ t.phase = "open" => t.finish = "none"
    /\ t.asked => s = w.stream
    /\ t.finish = "complete" => s = w.stream /\ w.pc = "ended"

EndInv == \A s \in Streams : Ending(writer, s, streams[s])

\* A completer that is about to complete an upload has found parts of it.
CheckInv == \A c \in 1..Completers : CanCheck(c) => checking[c].parts # {}

LastInv == PhaseInv /\ EndInv /\ CheckInv

\* What the invariant says of types.
LEMMA LastType ==
    ASSUME LastInv
    PROVE  /\ PhaseInv /\ TypeOK /\ EndInv /\ CheckInv
           /\ writer \in Writer /\ writer.stream \in Streams
           /\ Current = streams[writer.stream] /\ Current \in StreamRecord
BY CurrentType DEF LastInv, PhaseInv, Current

\* A step of one stream that leaves the completers alone.
LEMMA LastOne ==
    ASSUME LastInv, PhaseInv', NEW s \in Streams, writer'.stream = writer.stream,
           writer.pc = "ended" => writer'.pc = "ended", checking' = checking,
           \A q \in Streams : q # s => streams'[q] = streams[q],
           Ending(writer', s, streams'[s])
    PROVE  LastInv'
<1>1. EndInv'
  BY DEF LastInv, EndInv, Ending
<1>2. CheckInv'
  BY DEF LastInv, CheckInv, CanCheck
<1>3. QED
  BY <1>1, <1>2 DEF LastInv

\* The end of an upload, step by step: a stream serves;
LEMMA ServesLast ==
    ASSUME LastInv, NEW s \in Streams, Serves(s)
    PROVE  LastInv'
<1>1. PICK t, r : t = streams[s] /\ r = streams'[s]
  OBVIOUS
<1>2. /\ PhaseInv /\ TypeOK /\ Ending(writer, s, t) /\ PhaseInv'
      /\ (t.asked => writer.pc = "ended")
  BY <1>1, LastType, ServesPhase DEF PhaseInv, InPhase, EndInv
<1>3. /\ UNCHANGED <<writer, checking>> /\ \A q \in Streams : q # s => streams'[q] = streams[q]
  BY <1>2, ServesMoves, MovesType
<1>4. Ends(t, r)
  BY <1>1, <1>2, ServesEnds DEF Ending
<1>5. Ending(writer', s, r)
  BY <1>2, <1>3, <1>4 DEF Ends, Ending
<1>6. QED
  BY <1>1, <1>2, <1>3, <1>5, LastOne

\* its part is stored;
LEMMA PartStoredLast ==
    ASSUME LastInv, NEW s \in Streams, PartStored(s)
    PROVE  LastInv'
<1>1. PICK t, r : t = streams[s] /\ r = streams'[s]
  OBVIOUS
<1>2. PhaseInv /\ TypeOK /\ Ending(writer, s, t)
  BY <1>1, LastType DEF EndInv
<1>3. PhaseInv' /\ \A q \in Streams : q # s => streams'[q] = streams[q]
  BY <1>2, PartStoredPhase
<1>4. UNCHANGED <<writer, checking>>
  BY DEF PartStored
<1>5. r = StoredOf(t) /\ t \in StreamRecord
  BY <1>1, <1>2, PartStoredMoves, Typed DEF StoredOf
<1>6. r.asked = t.asked /\ r.phase = t.phase /\ r.finish = t.finish
  BY <1>5 DEF StoredOf, StreamRecord
<1>7. Ending(writer', s, r)
  BY <1>2, <1>4, <1>6 DEF Ending
<1>8. QED
  BY <1>1, <1>3, <1>4, <1>7, LastOne

\* the writer reads, gives up or asks;
LEMMA WriterOnlyLast ==
    ASSUME LastInv, WriterOnly
    PROVE  LastInv'
<1>1. PICK t, r : t = Current /\ r = streams'[writer.stream]
  OBVIOUS
<1>2. /\ PhaseInv /\ TypeOK /\ Ending(writer, writer.stream, t) /\ t = streams[writer.stream]
      /\ writer \in Writer /\ writer.stream \in Streams
  BY <1>1, LastType DEF EndInv
<1>3. /\ PhaseInv' /\ writer'.stream = writer.stream
      /\ \A q \in Streams : q # writer.stream => streams'[q] = streams[q]
      /\ t \in StreamRecord /\ SameWork(t, r)
      /\ r.asked = t.asked \/ writer'.pc = "ended"
  BY <1>1, <1>2, WriterOnlyWork
<1>4. checking' = checking /\ writer.pc # "ended"
  BY DEF WriterOnly, TakeStatus, Resumed, AwaitTimesOut, CanTimeOut, Finish, CanFinish, others
<1>5. r.finish = t.finish
  <2>1. \/ r = [t EXCEPT !.status = <<>>]
        \/ r = [t EXCEPT !.up = FALSE]
        \/ r = [t EXCEPT !.asked = Current.up]
    <3>1. CASE TakeStatus \/ Resumed
      BY <1>1, <1>2, <3>1, StatusMoves DEF TakeStatus, Resumed
    <3>2. CASE AwaitTimesOut
      BY <1>1, <1>2, <3>2, DownType DEF AwaitTimesOut, CanTimeOut
    <3>3. CASE Finish
      BY <1>1, <1>2, <3>3, FinishMoves
    <3>4. QED
      BY <3>1, <3>2, <3>3 DEF WriterOnly
  <2>2. QED
    BY <1>3, <2>1 DEF StreamRecord
<1>6. Ending(writer', writer.stream, r)
  BY <1>2, <1>3, <1>4, <1>5 DEF Ending, SameWork
<1>7. QED
  BY <1>1, <1>2, <1>3, <1>4, <1>6, LastOne

\* it sends an event;
LEMMA SendsLast ==
    ASSUME LastInv, Replay \/ \E i \in Events : Send(i)
    PROVE  LastInv'
<1>1. PICK t, r : t = Current /\ r = streams'[writer.stream]
  OBVIOUS
<1>2. /\ PhaseInv /\ TypeOK /\ Ending(writer, writer.stream, t) /\ t = streams[writer.stream]
      /\ writer \in Writer /\ writer.stream \in Streams /\ t \in StreamRecord
  BY <1>1, LastType DEF EndInv
<1>3. PhaseInv'
  BY <1>2, ReplayPhase, SendPhase
<1>4. writer'.stream = writer.stream /\ writer.pc # "ended" /\ checking' = checking
  BY <1>2 DEF Replay, CanReplay, Send, Writer, others
<1>5. /\ \A q \in Streams : q # writer.stream => streams'[q] = streams[q]
      /\ r = t \/ \E i : r = [t EXCEPT !.net = Append(@, i)]
  <2>1. CASE Replay
    BY <1>1, <1>2, <2>1 DEF Replay, CanReplay, TypeOK
  <2>2. ASSUME NEW i \in Events, Send(i)
        PROVE  /\ \A q \in Streams : q # writer.stream => streams'[q] = streams[q]
               /\ r = t \/ r = [t EXCEPT !.net = Append(@, i)]
    <3>1. CASE t.up
      BY <1>1, <1>2, <2>2, <3>1, SendMoves, MovesType
    <3>2. CASE ~t.up
      BY <1>1, <1>2, <2>2, <3>2, SendMoves
    <3>3. QED
      BY <3>1, <3>2
  <2>3. QED
    BY <2>1, <2>2
<1>6. r.asked = t.asked /\ r.phase = t.phase /\ r.finish = t.finish
  BY <1>2, <1>5 DEF StreamRecord
<1>7. Ending(writer', writer.stream, r)
  BY <1>2, <1>4, <1>6 DEF Ending
<1>8. QED
  BY <1>1, <1>2, <1>3, <1>4, <1>5, <1>7, LastOne

\* the writer moves without its stream, or a completer does;
LEMMA UnstreamedLast ==
    ASSUME LastInv, Unstreamed
    PROVE  LastInv'
<1>1. PhaseInv /\ TypeOK /\ writer \in Writer /\ PhaseInv'
  BY LastType, UnstreamedPhase
<1>2. UNCHANGED streams /\ writer'.stream = writer.stream
  BY <1>1, UnstreamedType
<1>3. CASE \E c \in 1..Completers : CheckUpload(c) \/ \E u \in Uploads : ListUpload(c, u)
  <2>1. PICK c \in 1..Completers : CheckUpload(c) \/ \E u \in Uploads : ListUpload(c, u)
    BY <1>3
  <2>2. UNCHANGED writer
    BY <1>1, <2>1, CompletersType
  <2>3. EndInv'
    BY <1>2, <2>2 DEF LastInv, EndInv
  <2>4. PICK e : /\ checking' = [checking EXCEPT ![c] = e]
                 /\ e = NoCheck \/ e.parts # {}
    <3>1. CASE CheckUpload(c)
      BY <3>1 DEF CheckUpload
    <3>2. ASSUME NEW u \in Uploads, ListUpload(c, u)
          PROVE  \E e : /\ checking' = [checking EXCEPT ![c] = e]
                        /\ e = NoCheck \/ e.parts # {}
      <4>1. PICK e : e = [upload |-> u, parts |-> Listed(u)]
        OBVIOUS
      <4>2. checking' = [checking EXCEPT ![c] = e] /\ e.parts # {}
        BY <3>2, <4>1 DEF ListUpload, CanList
      <4>3. QED
        BY <4>2
    <3>3. QED
      BY <2>1, <3>1, <3>2
  <2>5. ASSUME NEW d \in 1..Completers, checking'[d] # NoCheck PROVE checking'[d].parts # {}
    <3>1. DOMAIN checking = 1..Completers
      BY <1>1 DEF TypeOK
    <3>2. CASE d = c
      BY <2>4, <2>5, <3>1, <3>2
    <3>3. CASE d # c
      BY <2>4, <2>5, <3>1, <3>3 DEF LastInv, CheckInv, CanCheck
    <3>4. QED
      BY <3>2, <3>3
  <2>6. CheckInv'
    BY <2>5 DEF CheckInv, CanCheck
  <2>7. QED
    BY <1>1, <2>3, <2>6 DEF LastInv
<1>4. CASE Close \/ StreamDone \/ GiveUp \/ ReplayFails \/ \E i \in Events : Lose(i)
  <2>1. checking' = checking
    BY <1>4 DEF Close, StreamDone, GiveUp, ReplayFails, Lose, others
  <2>2. writer.pc = "ended" => writer'.pc = "ended"
    <3>1. CASE \E i \in Events : Lose(i)
      BY <1>1, <3>1 DEF Lose, Writer
    <3>2. CASE Close \/ StreamDone \/ GiveUp \/ ReplayFails
      BY <1>1, <3>2 DEF Close, StreamDone, GiveUp, CanGiveUp, ReplayFails, CanFail, Writer
    <3>3. QED
      BY <1>4, <3>1, <3>2
  <2>3. EndInv'
    BY <1>2, <2>2 DEF LastInv, EndInv, Ending
  <2>4. CheckInv'
    BY <2>1 DEF LastInv, CheckInv, CanCheck
  <2>5. QED
    BY <1>1, <2>3, <2>4 DEF LastInv
<1>5. QED
  BY <1>3, <1>4 DEF Unstreamed

\* it resumes the upload: no stream was asked to complete it.
LEMMA ResumeLast ==
    ASSUME LastInv, Resume
    PROVE  LastInv'
<1>1. PhaseInv /\ TypeOK /\ writer.stream \in Streams /\ Current = streams[writer.stream]
      /\ Current \in StreamRecord
  BY LastType
<1>2. PICK t, r, b : t = Current /\ r = streams'[writer.stream] /\ b = Begun
  OBVIOUS
<1>3. /\ PhaseInv' /\ writer.pc = "resume" /\ writer'.stream = Next1 /\ Next1 \in Streams
      /\ streams'[Next1] = b /\ r = [t EXCEPT !.status = <<>>]
      /\ \A q \in Streams \ {Next1, writer.stream} : streams'[q] = streams[q]
  BY <1>1, <1>2, ResumePhase
<1>4. checking' = checking
  BY DEF Resume
<1>5. r.asked = t.asked /\ r.phase = t.phase /\ r.finish = t.finish
  BY <1>1, <1>2, <1>3 DEF StreamRecord
<1>6. ~b.asked /\ b.finish = "none"
  BY <1>2 DEF Begun, NewStream, NoStream
<1>7. ASSUME NEW q \in Streams PROVE Ending(writer', q, streams'[q])
  <2>1. Ending(writer, q, streams[q]) /\ ~streams[q].asked /\ streams[q].finish # "complete"
    BY <1>1, <1>3 DEF LastInv, EndInv, Ending, PhaseInv, InPhase
  <2>2. CASE q = Next1
    BY <1>3, <1>6, <2>2 DEF Ending
  <2>3. CASE q = writer.stream
    BY <1>1, <1>2, <1>5, <2>1, <2>3 DEF Ending
  <2>4. CASE q \notin {Next1, writer.stream}
    BY <1>3, <2>1, <2>4 DEF Ending
  <2>5. QED
    BY <2>2, <2>3, <2>4
<1>8. EndInv'
  BY <1>7 DEF EndInv
<1>9. CheckInv'
  BY <1>4 DEF LastInv, CheckInv, CanCheck
<1>10. QED
  BY <1>3, <1>8, <1>9 DEF LastInv

LEMMA LastStart == AuditInit => LastInv
<1> SUFFICES ASSUME AuditInit PROVE LastInv
  OBVIOUS
<1>1. PhaseInv
  BY PhaseStart
<1>2. NewStream(1, {}).finish = "none" /\ NoStream.finish = "none" /\ ~NoStream.asked
      /\ ~NewStream(1, {}).asked
  BY DEF NewStream, NoStream
<1>3. \A s \in Streams : streams[s].finish = "none" /\ ~streams[s].asked
  BY <1>2 DEF AuditInit
<1>4. EndInv
  BY <1>3 DEF EndInv, Ending
<1>5. CheckInv
  BY DEF AuditInit, CheckInv, CanCheck
<1>6. QED
  BY <1>1, <1>4, <1>5 DEF LastInv

LEMMA LastStep == LastInv /\ [AuditNext]_vars => LastInv'
<1> SUFFICES ASSUME LastInv, [AuditNext]_vars PROVE LastInv'
  OBVIOUS
<1>1. CASE AuditNext
  BY <1>1, ByCase, ServesLast, PartStoredLast, WriterOnlyLast, SendsLast, UnstreamedLast,
     ResumeLast DEF WriterOnly
<1>2. CASE UNCHANGED vars
  <2>1. PhaseInv'
    BY <1>2, PhaseStep DEF LastInv
  <2>2. EndInv' /\ CheckInv'
    BY <1>2 DEF vars, LastInv, EndInv, CheckInv, CanCheck
  <2>3. QED
    BY <2>1, <2>2 DEF LastInv
<1>3. QED
  BY <1>1, <1>2

-----------------------------------------------------------------------------
(* The parts that the current stream knows of *)

\* What the stream completes the upload from.
Mine(t, parts) == Only(Own(t), parts)

\* They are in order, they hold what is confirmed, and the stream carries the rest,
\* whatever its predecessors have stored since it has begun, until the upload is
\* completed.
TrackInv ==
    LET t == Current
        known == Mine(t, stored[t.upload])
    IN  Tracked(t) /\ t.upload \notin sealed =>
            /\ Own(t) \subseteq Numbers(stored[t.upload])
            /\ PartsOrderly(known, Accepted)
            /\ ConfirmedIn(known)
            /\ Tracks(writer, t, Accepted, known, TRUE)

\* The parts of a stream are parts of its upload.
LEMMA MineType ==
    ASSUME NEW t, NEW parts \in Seq(Seq(Events))
    PROVE  /\ Mine(t, parts) \in Seq(Seq(Events)) /\ DOMAIN Mine(t, parts) = DOMAIN parts
           /\ Len(Mine(t, parts)) = Len(parts)
           /\ \A n \in DOMAIN parts : Mine(t, parts)[n] = IF n \in Own(t) THEN parts[n] ELSE <<>>
           /\ Numbers(Mine(t, parts)) \subseteq Numbers(parts)
<1>1. PICK k : k = Mine(t, parts)
  OBVIOUS
<1>2. /\ DOMAIN k = 1..Len(parts) /\ Len(parts) \in Nat /\ DOMAIN parts = 1..Len(parts)
      /\ \A n \in DOMAIN parts : k[n] = IF n \in Own(t) THEN parts[n] ELSE <<>>
  BY <1>1 DEF Mine, Only
<1>3. \A n \in 1..Len(parts) : k[n] \in Seq(Events)
  <2>1. \A n \in 1..Len(parts) : parts[n] \in Seq(Events)
    OBVIOUS
  <2>2. <<>> \in Seq(Events)
    OBVIOUS
  <2>3. \A n \in 1..Len(parts) : k[n] = parts[n] \/ k[n] = <<>>
    BY <1>2
  <2>4. QED
    BY <2>1, <2>2, <2>3
<1>4. k = [n \in 1..Len(parts) |-> k[n]]
  BY <1>1, <1>2 DEF Mine, Only
<1>5. k \in Seq(Seq(Events)) /\ Len(k) = Len(parts)
  BY <1>2, <1>3, <1>4
<1>6. Numbers(k) \subseteq Numbers(parts)
  BY <1>2 DEF Numbers
<1>7. QED
  BY <1>1, <1>2, <1>5, <1>6

\* Parts are in order also if there are more empty ones.
LEMMA OrderlyGrown ==
    ASSUME NEW parts, NEW more, Grown(parts, more), Grown(more, parts), NEW accepted,
           PartsOrderly(parts, accepted)
    PROVE  PartsOrderly(more, accepted)
<1>1. ASSUME NEW q \in DOMAIN more
      PROVE  /\ Increasing(more[q])
             /\ ToSet(more[q]) \subseteq accepted
             /\ \A e \in ToSet(more[q]) : \A i \in accepted :
                   i < e => i \in ToSet(more[q]) \/ Below(more, q, i)
  <2>1. CASE more[q] = <<>>
    BY <2>1, SetEmpty DEF Increasing
  <2>2. CASE more[q] # <<>>
    <3>1. q \in DOMAIN parts /\ parts[q] = more[q]
      BY <2>2 DEF Grown
    <3>2. \A i : Below(parts, q, i) => Below(more, q, i)
      BY GrownKeeps
    <3>3. QED
      BY <3>1, <3>2 DEF PartsOrderly
  <2>3. QED
    BY <2>1, <2>2
<1>2. QED
  BY <1>1 DEF PartsOrderly

\* A stream carries what it does also if there are more parts.
LEMMA TracksGrown ==
    ASSUME NEW w, NEW t, NEW accepted, NEW parts, NEW more, Grown(parts, more),
           Tracks(w, t, accepted, parts, TRUE)
    PROVE  Tracks(w, t, accepted, more, TRUE)
<1>1. Carries(t, accepted, more, TRUE) /\ \A i : Has(t, i, parts) => Has(t, i, more)
  BY CarriesGrown DEF Tracks
<1>2. Sent(w, t, accepted, more, TRUE)
  BY <1>1 DEF Tracks, Sent
<1>3. QED
  BY <1>1, <1>2 DEF Tracks

\* A step that stores nothing and leaves the stream its parts.
LEMMA TrackStays ==
    ASSUME RecordInv, TrackInv, UNCHANGED stored, sealed \subseteq sealed',
           Current'.upload = Current.upload,
           Tracked(Current') => Tracked(Current) /\ Own(Current') = Own(Current),
           \A parts \in Seq(Seq(Events)) :
              /\ PartsOrderly(parts, Accepted) /\ ConfirmedIn(parts)
              /\ Tracks(writer, Current, Accepted, parts, TRUE)
              => /\ PartsOrderly(parts, Accepted') /\ ConfirmedIn(parts)'
                 /\ Tracks(writer', Current', Accepted', parts, TRUE)
    PROVE  TrackInv'
<1> SUFFICES ASSUME Tracked(Current'), Current'.upload \notin sealed' PROVE TrackInv'
  BY DEF TrackInv
<1>1. PICK all, known : all = stored[Current.upload] /\ known = Mine(Current, all)
  OBVIOUS
<1>2. all \in Seq(Seq(Events)) /\ Current.upload \notin sealed
  BY <1>1, RecordType
<1>3. known \in Seq(Seq(Events))
  BY <1>1, <1>2, MineType
<1>4. /\ Own(Current) \subseteq Numbers(all) /\ PartsOrderly(known, Accepted) /\ ConfirmedIn(known)
      /\ Tracks(writer, Current, Accepted, known, TRUE)
  BY <1>1, <1>2 DEF TrackInv
<1>5. /\ PartsOrderly(known, Accepted') /\ ConfirmedIn(known)'
      /\ Tracks(writer', Current', Accepted', known, TRUE)
  BY <1>3, <1>4
<1>6. stored'[Current'.upload] = all /\ Own(Current') = Own(Current)
  BY <1>1
<1>7. Mine(Current', all) = known
  BY <1>1, <1>6 DEF Mine, Only
<1>8. QED
  BY <1>4, <1>5, <1>6, <1>7 DEF TrackInv

\* A step of the current stream that leaves its parts alone.
LEMMA OwnSame ==
    ASSUME NEW t, NEW r, r.phase = t.phase, r.finish = t.finish, r.parts = t.parts, r.done = t.done
    PROVE  (Tracked(r) <=> Tracked(t)) /\ Own(r) = Own(t)
BY DEF Tracked, Own

\* The current stream knows what it needs when a stream takes a step of its own,
LEMMA ServesFaith ==
    ASSUME RecordInv, LastInv, TrackInv, NEW s \in Streams, Serves(s)
    PROVE  TrackInv'
<1>1. PICK t, r : t = streams[s] /\ r = streams'[s]
  OBVIOUS
<1>2. /\ PhaseInv /\ TypeOK /\ writer.stream \in Streams /\ InPhase(writer, s, t)
      /\ Ending(writer, s, t) /\ Current = streams[writer.stream]
  BY <1>1, RecordType, LastType DEF PhaseInv, EndInv
<1>3. /\ UNCHANGED <<writer, stored, log>> /\ sealed \subseteq sealed'
      /\ \A q \in Streams : q # s => streams'[q] = streams[q]
  BY <1>2, ServesMoves, MovesType
<1>4. Ends(t, r) /\ r.upload = t.upload
  BY <1>1, <1>2, ServesEnds, ServesGoes DEF Ending, InPhase, Goes, Continues
<1>5. Current' = streams'[writer.stream]
  BY <1>3 DEF Current
<1>6. /\ Current'.upload = Current.upload
      /\ Tracked(Current') => Tracked(Current) /\ Own(Current') = Own(Current)
  <2>1. CASE writer.stream = s
    BY <1>1, <1>2, <1>4, <1>5, <2>1 DEF Ends
  <2>2. CASE writer.stream # s
    BY <1>2, <1>3, <1>5, <2>2
  <2>3. QED
    BY <2>1, <2>2
<1>7. Accepted' = Accepted /\ \A parts : ConfirmedIn(parts) => ConfirmedIn(parts)'
  BY <1>3 DEF Accepted, ConfirmedIn, Confirmed
<1>8. ASSUME NEW parts \in Seq(Seq(Events)), PartsOrderly(parts, Accepted), ConfirmedIn(parts),
             Tracks(writer, Current, Accepted, parts, TRUE)
      PROVE  /\ PartsOrderly(parts, Accepted') /\ ConfirmedIn(parts)'
             /\ Tracks(writer', Current', Accepted', parts, TRUE)
  BY <1>7, <1>8, ServesTracks
<1>9. QED
  BY <1>3, <1>6, <1>8, TrackStays

\* when the writer moves without it,
LEMMA UnstreamedFaith ==
    ASSUME RecordInv, TrackInv, Unstreamed
    PROVE  TrackInv'
<1>1. TypeOK /\ writer \in Writer
  BY RecordType
<1>2. /\ UNCHANGED <<streams, stored, log>> /\ writer'.buffer = writer.buffer
      /\ writer'.stream = writer.stream /\ sealed \subseteq sealed'
  BY <1>1, UnstreamedType
<1>3. Current' = Current /\ Accepted' = Accepted
  BY <1>2 DEF Current, Accepted
<1>4. \A parts : ConfirmedIn(parts) => ConfirmedIn(parts)'
  BY <1>2 DEF ConfirmedIn, Confirmed
<1>5. ASSUME NEW parts \in Seq(Seq(Events)), PartsOrderly(parts, Accepted), ConfirmedIn(parts),
             Tracks(writer, Current, Accepted, parts, TRUE)
      PROVE  /\ PartsOrderly(parts, Accepted') /\ ConfirmedIn(parts)'
             /\ Tracks(writer', Current', Accepted', parts, TRUE)
  BY <1>3, <1>4, <1>5, UnstreamedTracks
<1>6. QED
  BY <1>2, <1>3, <1>5, TrackStays

\* reads a status, gives the stream up or asks it to complete,
LEMMA WriterOnlyFaith ==
    ASSUME RecordInv, TrackInv, WriterOnly
    PROVE  TrackInv'
<1>1. PICK t, r : t = Current /\ r = streams'[writer.stream]
  OBVIOUS
<1>2. /\ PhaseInv /\ TypeOK /\ t \in StreamRecord /\ t = streams[writer.stream]
      /\ writer \in Writer /\ writer.stream \in Streams
  BY <1>1, RecordType
<1>3. /\ UNCHANGED <<stored, sealed, log>> /\ Accepted' = Accepted /\ Current' = r
      /\ r.upload = t.upload
  BY <1>1, WriterOnlyKept
<1>4. \/ r = [t EXCEPT !.status = <<>>]
      \/ r = [t EXCEPT !.up = FALSE]
      \/ r = [t EXCEPT !.asked = Current.up]
  <2>1. CASE TakeStatus \/ Resumed
    BY <1>1, <1>2, <2>1, StatusMoves DEF TakeStatus, Resumed
  <2>2. CASE AwaitTimesOut
    BY <1>1, <1>2, <2>2, DownType DEF AwaitTimesOut, CanTimeOut
  <2>3. CASE Finish
    BY <1>1, <1>2, <2>3, FinishMoves
  <2>4. QED
    BY <2>1, <2>2, <2>3 DEF WriterOnly
<1>5. r.phase = t.phase /\ r.finish = t.finish /\ r.parts = t.parts /\ r.done = t.done
  BY <1>2, <1>4 DEF StreamRecord
<1>6. Tracked(r) => Tracked(t) /\ Own(r) = Own(t)
  BY <1>5, OwnSame
<1>7. ASSUME NEW parts \in Seq(Seq(Events)), PartsOrderly(parts, Accepted),
             ConfirmedIn(parts), Tracks(writer, Current, Accepted, parts, TRUE)
      PROVE  /\ PartsOrderly(parts, Accepted') /\ ConfirmedIn(parts)'
             /\ Tracks(writer', Current', Accepted', parts, TRUE)
  <2>1. Tracks(writer', Current', Accepted', parts, TRUE)
    BY <1>7, TakeStatusTracks, StopsTracks, ResumedTracks DEF WriterOnly
  <2>2. ConfirmedIn(parts)'
    <3>1. CASE TakeStatus
      BY <1>7, <3>1, TakeStatusHistory DEF Tracks
    <3>2. CASE ~TakeStatus
      <4>1. writer'.buffer = writer.buffer
        BY <1>2, <3>2 DEF WriterOnly, Resumed, AwaitTimesOut, CanTimeOut, Finish, CanFinish, Writer
      <4>2. QED
        BY <1>3, <1>7, <4>1 DEF ConfirmedIn, Confirmed
    <3>3. QED
      BY <3>1, <3>2
  <2>3. QED
    BY <1>3, <1>7, <2>1, <2>2
<1>8. QED
  BY <1>1, <1>3, <1>6, <1>7, TrackStays

\* or sends an event.
LEMMA SendsFaith ==
    ASSUME RecordInv, TrackInv, Increasing(log)', Replay \/ \E i \in Events : Send(i)
    PROVE  TrackInv'
<1>1. PICK t, r : t = Current /\ r = Current'
  OBVIOUS
<1>2. /\ PhaseInv /\ TypeOK /\ HistoryInv /\ ConfirmedInv
      /\ t \in StreamRecord /\ t = streams[writer.stream]
      /\ writer \in Writer /\ writer.stream \in Streams /\ Accepted \subseteq Events
  BY <1>1, RecordType
<1>3. UNCHANGED <<stored, sealed>> /\ writer'.stream = writer.stream
  BY <1>2 DEF Replay, CanReplay, Send, Writer
<1>4. r = t \/ \E i : r = [t EXCEPT !.net = Append(@, i)]
  <2>1. r = streams'[writer.stream]
    BY <1>1, <1>3 DEF Current
  <2>2. CASE Replay
    BY <1>1, <1>2, <2>1, <2>2 DEF Replay, CanReplay, TypeOK
  <2>3. ASSUME NEW i \in Events, Send(i)
        PROVE  r = t \/ r = [t EXCEPT !.net = Append(@, i)]
    <3>1. t.up => r = [t EXCEPT !.net = Append(@, i)]
      BY <1>1, <1>2, <2>1, <2>3, SendMoves
    <3>2. ~t.up => r = t
      BY <1>1, <1>2, <2>1, <2>3, SendMoves
    <3>3. QED
      BY <3>1, <3>2
  <2>4. QED
    BY <2>2, <2>3
<1>5. /\ r.upload = t.upload
      /\ r.phase = t.phase /\ r.finish = t.finish /\ r.parts = t.parts /\ r.done = t.done
  BY <1>2, <1>4 DEF StreamRecord
<1>6. Tracked(r) => Tracked(t) /\ Own(r) = Own(t)
  BY <1>5, OwnSame
<1>7. ASSUME NEW parts \in Seq(Seq(Events)), PartsOrderly(parts, Accepted),
             ConfirmedIn(parts), Tracks(writer, Current, Accepted, parts, TRUE)
      PROVE  /\ PartsOrderly(parts, Accepted') /\ ConfirmedIn(parts)'
             /\ Tracks(writer', Current', Accepted', parts, TRUE)
  <2>1. CASE Replay
    <3>1. UNCHANGED log /\ writer'.buffer = writer.buffer
      BY <1>2, <2>1 DEF Replay, CanReplay, Writer
    <3>2. Accepted' = Accepted /\ ConfirmedIn(parts)'
      BY <1>7, <3>1 DEF Accepted, ConfirmedIn, Confirmed
    <3>3. QED
      BY <1>7, <2>1, <3>2, ReplayTracks
  <2>2. ASSUME NEW i \in Events, Send(i)
        PROVE  /\ PartsOrderly(parts, Accepted') /\ ConfirmedIn(parts)'
               /\ Tracks(writer', Current', Accepted', parts, TRUE)
    <3>1. /\ Accepted' = Accepted \cup {i} /\ \A x \in Accepted : x < i
          /\ ConfirmedIn(parts)'
      BY <1>2, <1>7, <2>2, SendHistory
    <3>2. PICK A : A = Accepted
      OBVIOUS
    <3>3. PartsOrderly(parts, A \cup {i})
      BY <1>2, <1>7, <3>1, <3>2, PartsOrderlyMore
    <3>4. QED
      BY <1>7, <2>2, <3>1, <3>2, <3>3, SendTracks
  <2>3. QED
    BY <2>1, <2>2
<1>8. QED
  BY <1>1, <1>3, <1>5, <1>6, <1>7, TrackStays

\* A part that the current stream stores is one of its own.
LEMMA MineStored ==
    ASSUME NEW S, NEW p \in Part, NEW parts \in Seq(Seq(Events))
    PROVE  Only(S \cup {p.number}, WithPart(p, parts)) = WithPart(p, Only(S, parts))
<1>1. PICK known, more, top, T : /\ known = Only(S, parts) /\ more = WithPart(p, parts)
                                 /\ top = Max({p.number, Len(parts)}) /\ T = S \cup {p.number}
  OBVIOUS
<1>2. Len(parts) \in Nat /\ DOMAIN parts = 1..Len(parts)
  OBVIOUS
<1>3. known = [n \in DOMAIN parts |-> IF n \in S THEN parts[n] ELSE <<>>]
  BY <1>1 DEF Only
<1>4. known \in Seq(Seq(Events))
  <2>1. ASSUME NEW n \in 1..Len(parts)
        PROVE  (IF n \in S THEN parts[n] ELSE <<>>) \in Seq(Events)
    <3>1. parts[n] \in Seq(Events) /\ <<>> \in Seq(Events)
      OBVIOUS
    <3>2. QED
      BY <3>1
  <2>2. QED
    BY <1>2, <1>3, <2>1
<1>5. DOMAIN known = DOMAIN parts /\ Len(known) = Len(parts)
  BY <1>2, <1>3, <1>4
<1>6. more = [n \in 1..top |->
                 CASE n = p.number -> p.events
                   [] n # p.number /\ n \in DOMAIN parts -> parts[n]
                   [] OTHER -> <<>>]
  BY <1>1 DEF WithPart
<1>7. WithPart(p, known) = [n \in 1..top |->
                 CASE n = p.number -> p.events
                   [] n # p.number /\ n \in DOMAIN known -> known[n]
                   [] OTHER -> <<>>]
  BY <1>1, <1>5 DEF WithPart
<1>8. Only(T, more) = [n \in 1..top |-> IF n \in T THEN more[n] ELSE <<>>]
  BY <1>6 DEF Only
<1>9. ASSUME NEW n \in 1..top
      PROVE  (IF n \in T THEN more[n] ELSE <<>>)
             = CASE n = p.number -> p.events
                 [] n # p.number /\ n \in DOMAIN known -> known[n]
                 [] OTHER -> <<>>
  <2>1. CASE n = p.number
    BY <1>1, <1>6, <2>1
  <2>2. CASE n # p.number /\ n \in DOMAIN parts
    <3>1. more[n] = parts[n] /\ (n \in T <=> n \in S)
      BY <1>1, <1>6, <2>2
    <3>2. QED
      BY <1>3, <1>5, <2>2, <3>1
  <2>3. CASE n # p.number /\ n \notin DOMAIN parts
    BY <1>5, <1>6, <2>3
  <2>4. QED
    BY <2>1, <2>2, <2>3
<1>10. Only(T, more) = WithPart(p, known)
  BY <1>7, <1>8, <1>9
<1>11. QED
  BY <1>1, <1>10

\* A part that another stream stores changes nothing that is of the current stream.
LEMMA MineGrown ==
    ASSUME NEW t, NEW p \in Part, p.number \notin Own(t),
           NEW parts \in Seq(Seq(Events)), NEW more, more = WithPart(p, parts)
    PROVE  Grown(Mine(t, parts), Mine(t, more)) /\ Grown(Mine(t, more), Mine(t, parts))
<1>1. PICK known, next : known = Mine(t, parts) /\ next = Mine(t, more)
  OBVIOUS
<1>2. /\ more \in Seq(Seq(Events)) /\ DOMAIN parts \subseteq DOMAIN more
      /\ \A n \in DOMAIN parts : n # p.number => more[n] = parts[n]
      /\ \A n \in DOMAIN more : n # p.number /\ n \notin DOMAIN parts => more[n] = <<>>
  BY Uploaded
<1>3. /\ DOMAIN known = DOMAIN parts /\ DOMAIN next = DOMAIN more
      /\ \A n \in DOMAIN parts : known[n] = IF n \in Own(t) THEN parts[n] ELSE <<>>
      /\ \A n \in DOMAIN more : next[n] = IF n \in Own(t) THEN more[n] ELSE <<>>
  BY <1>1, <1>2, MineType
<1>4. ASSUME NEW n \in DOMAIN known, known[n] # <<>>
      PROVE  n \in DOMAIN next /\ next[n] = known[n]
  <2>1. n \in Own(t) /\ n # p.number
    BY <1>3, <1>4
  <2>2. QED
    BY <1>2, <1>3, <1>4, <2>1
<1>5. ASSUME NEW n \in DOMAIN next, next[n] # <<>>
      PROVE  n \in DOMAIN known /\ known[n] = next[n]
  <2>1. n \in Own(t) /\ n # p.number /\ more[n] # <<>>
    BY <1>3, <1>5
  <2>2. n \in DOMAIN parts
    BY <1>2, <1>3, <2>1
  <2>3. QED
    BY <1>2, <1>3, <2>1, <2>2
<1>6. QED
  BY <1>1, <1>4, <1>5 DEF Grown

\* The numbers that are of the current stream, and its parts, when a part is stored.
LEMMA PartStoredFaith ==
    ASSUME RecordInv, TrackInv, NEW s \in Streams, PartStored(s), "overwritten" \notin mishaps',
           streams[s].upload = Current.upload
    PROVE  TrackInv'
<1>1. PICK t, r, u, p : t = streams[s] /\ r = streams'[s] /\ u = t.upload /\ p = t.active
  OBVIOUS
<1>2. /\ PhaseInv /\ TypeOK /\ Accepted \subseteq Events
      /\ writer.stream \in Streams /\ Current = streams[writer.stream]
  BY RecordType
<1>3. p.number \notin PartsOf(u) /\ u = Current.upload /\ u \notin sealed
  BY <1>1 DEF PartStored, CanStore
<1>4. /\ p \in Part /\ p # NoPart /\ ~t.failed /\ u \in Uploads
      /\ stored'[u] = WithPart(p, stored[u])
      /\ \A q \in Streams : q # s => streams'[q] = streams[q]
  BY <1>1, <1>2, PartStoredPhase
<1>5. UNCHANGED <<writer, log>>
  BY DEF PartStored, CanStore
<1>6. t \in StreamRecord /\ Working(t) /\ InPhase(writer, s, t)
  BY <1>1, <1>2, Typed DEF PhaseInv, InPhase
<1>7. r = StoredOf(t)
  BY <1>1, <1>2, PartStoredMoves DEF StoredOf
<1>8. Current' = streams'[writer.stream]
  BY <1>5 DEF Current
<1>9. /\ r.upload = u /\ r.up = t.up /\ r.failed = t.failed /\ r.phase = t.phase
      /\ r.done = Append(t.done, Upload(p, TRUE))
  <2>1. t.active # NoPart
    BY <1>1, <1>4
  <2>2. Stores(t, r)
    BY <1>4, <1>6, <1>7, <2>1, StoredFields
  <2>3. QED
    BY <1>1, <2>2 DEF Stores
<1>10. r.finish = t.finish /\ r.parts = t.parts
  BY <1>6, <1>7 DEF StoredOf, StreamRecord
<1>11. PICK c, d : c = Current /\ d = Current'
  OBVIOUS
<1>12. d.upload = u /\ (Tracked(d) => Tracked(c))
  <2>1. CASE writer.stream = s
    BY <1>1, <1>2, <1>8, <1>9, <1>10, <1>11, <2>1 DEF Tracked
  <2>2. CASE writer.stream # s
    BY <1>2, <1>3, <1>4, <1>8, <1>11, <2>2
  <2>3. QED
    BY <2>1, <2>2
<1> SUFFICES ASSUME Tracked(d) PROVE TrackInv'
  BY <1>11 DEF TrackInv
<1>13. PICK parts, more, known, next :
          /\ parts = stored[u] /\ more = stored'[u]
          /\ known = Mine(c, parts) /\ next = Mine(d, more)
  OBVIOUS
<1>14. /\ Own(c) \subseteq Numbers(parts)
       /\ PartsOrderly(known, Accepted) /\ ConfirmedIn(known)
       /\ Tracks(writer, c, Accepted, known, TRUE)
  BY <1>3, <1>11, <1>12, <1>13 DEF TrackInv
<1>15. /\ parts \in Seq(Seq(Events)) /\ p.number \notin Numbers(parts)
       /\ more = WithPart(p, parts)
  BY <1>2, <1>3, <1>4, <1>13, PartsOfType, NumbersIs
<1>16. Numbers(parts) \cup {p.number} \subseteq Numbers(more)
  <2>1. p.events # <<>>
    BY <1>4 DEF Part
  <2>2. QED
    BY <1>4, <1>15, <2>1, Uploaded DEF Numbers
<1>17. p.number \notin Own(c) /\ known \in Seq(Seq(Events)) /\ Numbers(known) \subseteq Numbers(parts)
  BY <1>13, <1>14, <1>15, MineType
<1>18. Accepted' = Accepted /\ \A known2 : Grown(known, known2) => ConfirmedIn(known2)'
  <2>1. Accepted' = Accepted /\ Confirmed' = Confirmed
    BY <1>5 DEF Accepted, Confirmed
  <2>2. ASSUME NEW known2, Grown(known, known2) PROVE ConfirmedIn(known2)
    BY <1>14, <2>2, GrownKeeps DEF ConfirmedIn
  <2>3. QED
    BY <1>5, <2>1, <2>2 DEF ConfirmedIn
<1>19. CASE writer.stream = s
  <2>1. c = t /\ d = r
    BY <1>1, <1>2, <1>8, <1>11, <1>19
  <2>2. Own(r) = Own(t) \cup {p.number}
    <3>1. PICK e : e = Upload(p, TRUE)
      OBVIOUS
    <3>2. e \in Finished /\ e.ok /\ e.number = p.number
      BY <1>4, <3>1, UploadType DEF Upload
    <3>3. PICK q : q = t.done
      OBVIOUS
    <3>4. q \in Seq(Finished)
      BY <1>6, <3>3, Fields
    <3>5. Numbered(Append(q, e)) = Numbered(q) \cup {e.number}
      BY <3>2, <3>4, NumberedAppend
    <3>6. Numbered(r.done) = Numbered(t.done) \cup {p.number}
      BY <1>9, <3>1, <3>2, <3>3, <3>5
    <3>7. QED
      BY <1>10, <3>6 DEF Own
  <2>3. next = WithPart(t.active, known)
    <3>1. p \in Part /\ parts \in Seq(Seq(Events)) /\ more = WithPart(p, parts)
      BY <1>4, <1>15
    <3>2. PICK S : S = Own(t)
      OBVIOUS
    <3>3. Only(S \cup {p.number}, more) = WithPart(p, Only(S, parts))
      BY <3>1, MineStored
    <3>4. Mine(r, more) = WithPart(p, Mine(t, parts))
      BY <2>2, <3>2, <3>3 DEF Mine
    <3>5. QED
      BY <1>1, <1>13, <2>1, <3>4
  <2>4. t.active # NoPart /\ t.active.number \notin Numbers(known)
    BY <1>1, <1>4, <1>15, <1>17
  <2>5. Orderly(t) /\ Carries(t, Accepted, known, TRUE) /\ Sent(writer, t, Accepted, known, TRUE)
    BY <1>14, <2>1 DEF Tracks
  <2>6. /\ Orderly(r) /\ Carries(r, Accepted, next, TRUE) /\ Held(r) \subseteq Held(t)
        /\ PartsOrderly(next, Accepted) /\ Grown(known, next)
        /\ t.phase = "open" => \A i \in Accepted : Has(t, i, known) => Has(r, i, next)
    BY <1>2, <1>4, <1>6, <1>7, <1>14, <1>17, <2>3, <2>4, <2>5, CarriesStored
  <2>7. ASSUME r.up, ~r.failed, writer.pc # "ended"
        PROVE  ~t.failed /\ \A i \in Accepted : Has(t, i, known) => Has(r, i, next)
    <3>1. t.phase = "open"
      BY <1>4, <1>6, <1>9, <2>7 DEF InPhase, Working
    <3>2. QED
      BY <1>4, <2>6, <3>1
  <2>8. Sent(writer, r, Accepted, next, TRUE)
    BY <1>9, <2>5, <2>6, <2>7, SentKept
  <2>9. Tracks(writer', d, Accepted, next, TRUE) /\ Own(d) \subseteq Numbers(more)
    BY <1>5, <1>14, <1>16, <2>1, <2>2, <2>6, <2>8 DEF Tracks
  <2>10. QED
    BY <1>11, <1>12, <1>13, <1>18, <2>6, <2>9 DEF TrackInv
<1>20. CASE writer.stream # s
  <2>1. d = c
    BY <1>2, <1>4, <1>8, <1>11, <1>20
  <2>2. Grown(known, next) /\ Grown(next, known)
    BY <1>4, <1>13, <1>15, <1>17, <2>1, MineGrown
  <2>3. PartsOrderly(next, Accepted) /\ Tracks(writer, d, Accepted, next, TRUE)
    BY <1>14, <2>1, <2>2, OrderlyGrown, TracksGrown
  <2>4. Own(d) \subseteq Numbers(more)
    BY <1>14, <1>16, <2>1
  <2>5. QED
    BY <1>5, <1>11, <1>12, <1>13, <1>18, <2>2, <2>3, <2>4 DEF TrackInv
<1>21. QED
  BY <1>19, <1>20

\* A part of another upload is nothing to the current stream.
LEMMA PartElsewhereFaith ==
    ASSUME RecordInv, TrackInv, NEW s \in Streams, PartStored(s),
           streams[s].upload # Current.upload
    PROVE  TrackInv'
<1>1. PhaseInv /\ writer.stream \in Streams /\ Current = streams[writer.stream]
      /\ Current.upload \in Uploads
  BY RecordType
<1>2. /\ \A q \in Streams : q # s => streams'[q] = streams[q]
      /\ \A v \in Uploads : v # streams[s].upload => stored'[v] = stored[v]
  BY <1>1, PartStoredPhase
<1>3. UNCHANGED <<writer, sealed, log>>
  BY DEF PartStored
<1>4. s # writer.stream
  BY <1>1
<1>5. Current' = Current /\ stored'[Current.upload] = stored[Current.upload]
  BY <1>1, <1>2, <1>3, <1>4 DEF Current
<1>6. Accepted' = Accepted /\ Confirmed' = Confirmed
  BY <1>3 DEF Accepted, Confirmed
<1>7. QED
  BY <1>3, <1>5, <1>6 DEF TrackInv, ConfirmedIn

\* A stream that resumes the upload knows of all its parts.
LEMMA ResumeFaith ==
    ASSUME RecordInv, Resume
    PROVE  TrackInv'
<1>1. /\ PhaseInv /\ TypeOK /\ HistoryInv /\ ConfirmedInv /\ KeptInv /\ Accepted \subseteq Events
      /\ writer \in Writer
  BY RecordType
<1>2. PICK b, u, all : b = Begun /\ u = b.upload /\ all = stored[u]
  OBVIOUS
<1>3. /\ writer'.stream = Next1 /\ writer'.pc = "await" /\ writer'.buffer = writer.buffer
      /\ Next1 = writer.stream + 1 /\ writer.stream \in Streams /\ Next1 \in Streams
      /\ UNCHANGED <<stored, sealed, log>> /\ streams'[Next1] = b
  BY <1>1, <1>2, ResumePhase DEF Resume
<1>4. Current' = b /\ Accepted' = Accepted /\ Confirmed' = Confirmed
  BY <1>3 DEF Current, Accepted, Confirmed
<1>5. /\ b.net = <<>> /\ b.slice = <<>> /\ b.active = NoPart /\ b.done = <<>> /\ b.status = <<-1>>
      /\ writer.upload = 0 => u = Next1
      /\ writer.upload # 0 => u = writer.upload
      /\ u \in Uploads
  BY <1>1, <1>2, BegunFields
<1> SUFFICES ASSUME u \notin sealed PROVE TrackInv'
  BY <1>2, <1>3, <1>4 DEF TrackInv
<1>6. b.parts = PartsOf(u)
  <2>1. CASE writer.upload = 0
    <3>1. Next1 \in Nat /\ ~(Next1 <= writer.stream)
      <4>1. writer.stream \in Nat
        BY <1>3, Bounds
      <4>2. QED
        BY <1>3, <4>1
    <3>2. PartsOf(u) = {}
      BY <1>1, <1>5, <2>1, <3>1 DEF PhaseInv
    <3>3. b.parts = {}
      BY <1>2, <2>1 DEF Begun, NewStream, NoStream
    <3>4. QED
      BY <3>2, <3>3
  <2>2. CASE writer.upload # 0
    BY <1>2, <1>5, <2>2 DEF Begun, NewStream, NoStream, Listed
  <2>3. QED
    BY <2>1, <2>2
<1>7. Own(b) = Numbers(all)
  <2>1. Numbered(b.done) = {}
    BY <1>5 DEF Numbered
  <2>2. Numbers(all) = PartsOf(u)
    BY <1>2 DEF Numbers, PartsOf
  <2>3. QED
    BY <1>6, <2>1, <2>2 DEF Own
<1>8. all \in Seq(Seq(Events))
  BY <1>1, <1>2, <1>5, PartsOfType
<1>9. Mine(b, all) = all
  <2>1. Mine(b, all) = [n \in DOMAIN all |-> IF n \in Numbers(all) THEN all[n] ELSE <<>>]
    BY <1>7 DEF Mine, Only
  <2>2. all = [n \in DOMAIN all |-> all[n]]
    BY <1>8
  <2>3. \A n \in DOMAIN all : n \notin Numbers(all) => all[n] = <<>>
    BY DEF Numbers
  <2>4. QED
    BY <2>1, <2>2, <2>3
<1>10. PartsOrderly(all, Accepted)
  BY <1>1, <1>2, <1>5 DEF KeptInv
<1>11. ConfirmedIn(all)'
  <2>1. ASSUME NEW n \in 1..Confirmed PROVE StoredIn(all, log[n])
    <3>1. Confirmed # 0
      BY <1>1, <2>1, HistoryType
    <3>2. writer.upload # 0
      BY <1>1, <3>1 DEF HistoryInv
    <3>3. QED
      BY <1>1, <1>2, <1>5, <2>1, <3>2 DEF ConfirmedInv
  <2>2. QED
    BY <1>3, <1>4, <2>1 DEF ConfirmedIn
<1>12. Orderly(b) /\ Carries(b, Accepted, all, TRUE) /\ Held(b) = {}
  BY <1>1, <1>5, CarriesNone
<1>14. stored'[u] = all
  BY <1>2, <1>3
<1>13. Tracks(writer', b, Accepted, all, TRUE)
  <2>1. SentInv'
    BY ResumeRecord DEF RecordInv
  <2>2. Sent(writer', b, Accepted, all, u \notin sealed')
    BY <1>2, <1>4, <1>14, <2>1 DEF SentInv
  <2>3. (u \notin sealed') = TRUE
    BY <1>3
  <2>4. QED
    BY <1>12, <2>2, <2>3 DEF Tracks
<1>15. QED
  BY <1>2, <1>4, <1>7, <1>9, <1>10, <1>11, <1>13, <1>14 DEF TrackInv

-----------------------------------------------------------------------------
(* The recording while nothing disturbs it *)

\* A step that completes no upload and stores nothing.
Quiet == UNCHANGED <<stored, sealed, recording>> /\ (writer.pc = "ended" => writer'.pc = "ended")

\* Uploads are completed by the stream that was asked to, or by a completer.
LEMMA QuietOr ==
    ASSUME LastInv, [AuditNext]_vars
    PROVE  \/ Quiet
           \/ \E s \in Streams : PartStored(s)
           \/ \E c \in 1..Completers : CheckUpload(c)
           \/ \E s \in Streams : /\ Closed(s)
                                 /\ streams[s].finish = "complete" /\ streams[s].parts # {}
<1>1. writer \in Writer
  BY LastType
<1>2. CASE Close \/ StreamDone \/ GiveUp \/ ReplayFails
  BY <1>1, <1>2 DEF Quiet, Close, StreamDone, GiveUp, ReplayFails, Writer
<1>3. CASE \E i \in Events : Lose(i) \/ Send(i)
  BY <1>1, <1>3 DEF Quiet, Lose, Send, Writer
<1>4. CASE TakeStatus \/ Resumed \/ AwaitTimesOut \/ Finish
  BY <1>1, <1>4 DEF Quiet, TakeStatus, Resumed, AwaitTimesOut, CanTimeOut, Finish, Writer
<1>5. CASE Resume \/ Replay
  BY <1>1, <1>5 DEF Quiet, Resume, Replay, CanReplay
<1>6. CASE \E c \in 1..Completers, u \in Uploads : ListUpload(c, u)
  BY <1>6 DEF Quiet, ListUpload
<1>7. ASSUME NEW s \in Streams, Serves(s), ~Closed(s) PROVE Quiet
  BY <1>7 DEF Quiet, Serves, Receive, HandlerFails, Flush, Complete, StartUpload, PartFails, Report,
     Disconnect, Crash
<1>8. ASSUME NEW s \in Streams, Closed(s),
             ~(streams[s].finish = "complete" /\ streams[s].parts # {})
      PROVE  Quiet
  BY <1>8 DEF Quiet, Closed
<1>9. CASE UNCHANGED vars
  BY <1>9 DEF Quiet, vars
<1>10. CASE AuditNext
  BY <1>2, <1>3, <1>4, <1>5, <1>6, <1>7, <1>8, <1>10, ByCase DEF Unstreamed
<1>11. QED
  BY <1>9, <1>10

\* Parts are never removed: what the model calls sealed keeps the ones that it had.
LEMMA PartsGrow ==
    ASSUME LastInv, [AuditNext]_vars, NEW u \in Uploads
    PROVE  PartsOf(u) \subseteq PartsOf(u)'
<1>1. CASE UNCHANGED stored
  BY <1>1 DEF PartsOf
<1>2. ASSUME NEW s \in Streams, PartStored(s) PROVE PartsOf(u) \subseteq PartsOf(u)'
  BY <1>2, PartStoredPhase DEF LastInv
<1>3. (\E c \in 1..Completers : CheckUpload(c)) \/ (\E s \in Streams : Closed(s)) => UNCHANGED stored
  BY DEF CheckUpload, Closed
<1>4. QED
  BY <1>1, <1>2, <1>3, QuietOr DEF Quiet

\* What disturbs a recording does so for good.
LEMMA UndisturbedBefore ==
    ASSUME LastInv, [AuditNext]_vars, Undisturbed'
    PROVE  Undisturbed /\ Undamaged /\ Undamaged'
<1>1. TypeOK /\ PhaseInv /\ mishaps \subseteq mishaps'
  BY LastType, MishapsMore
<1>2. Undamaged'
  BY DEF Undisturbed, Undamaged
<1>3. Undamaged
  BY <1>1, <1>2, OrderedBefore
<1>4. OneUpload
  <2>1. ASSUME NEW u \in Uploads, NEW v \in Uploads, PartsOf(u) # {}, PartsOf(v) # {}
        PROVE  u = v
    <3>1. PartsOf(u)' # {} /\ PartsOf(v)' # {}
      BY <2>1, PartsGrow
    <3>2. QED
      BY <3>1 DEF Undisturbed, OneUpload
  <2>2. QED
    BY <2>1 DEF OneUpload
<1>5. QED
  BY <1>1, <1>2, <1>3, <1>4 DEF Undisturbed, Undamaged

\* The upload that is completed has parts; before there is no recording, and as long as
\* the writer writes it is made of all of them: a stream completes an upload only when
\* the writer has ended.
SealInv ==
    /\ sealed = {} => recording = NoRecording
    /\ \A u \in sealed :
          /\ PartsOf(u) # {}
          /\ writer.pc # "ended" => recording = PlayBack(stored[u])

\* A step that completes nothing.
LEMMA QuietSeal ==
    ASSUME SealInv, Quiet
    PROVE  SealInv'
<1>1. \A u : PartsOf(u)' = PartsOf(u)
  BY DEF Quiet, PartsOf
<1>2. QED
  BY <1>1 DEF SealInv, Quiet

\* The first completion, from some of its parts.
LEMMA FirstSeal ==
    ASSUME SealInv, Undisturbed, NEW u \in Uploads, NEW numbers, numbers \subseteq PartsOf(u),
           numbers # {}, u \notin sealed, sealed \subseteq Uploads
    PROVE  sealed = {} /\ recording = NoRecording
<1>1. \A v \in sealed : PartsOf(v) # {} /\ PartsOf(u) # {} /\ v # u
  BY DEF SealInv
<1>2. sealed = {}
  BY <1>1 DEF Undisturbed, OneUpload
<1>3. QED
  BY <1>2 DEF SealInv

\* The completer takes all the parts that there are,
LEMMA CheckSeals ==
    ASSUME LastInv, SealInv, Undisturbed, Undisturbed', NEW c \in 1..Completers, CheckUpload(c)
    PROVE  /\ SealInv' /\ recording = NoRecording
           /\ \E u \in Uploads : recording' = PlayBack(stored[u]) /\ PartsOf(u) # {}
<1>1. PICK u, parts : u = checking[c].upload /\ parts = checking[c].parts
  OBVIOUS
<1>2. TypeOK /\ CheckInv
  BY LastType
<1>3. u \in Uploads /\ parts # {} /\ sealed \subseteq Uploads
      /\ stored \in [Uploads -> Seq(Seq(Events))]
  <2>1. checking[c] # NoCheck
    BY DEF CheckUpload, CanCheck
  <2>2. checking[c] \in [upload : Uploads, parts : SUBSET Nat]
    BY <1>2, <2>1 DEF TypeOK
  <2>3. QED
    BY <1>1, <1>2, <2>1, <2>2 DEF CheckInv, CanCheck, TypeOK
<1>4. /\ Seal(u, parts)
      /\ mishaps' = mishaps \cup Again(u)
                      \cup (IF parts = PartsOf(u) THEN {} ELSE {"missed"})
      /\ UNCHANGED <<writer, stored>>
  BY <1>1 DEF CheckUpload
<1>5. u \notin sealed /\ parts = PartsOf(u)
  BY <1>4 DEF Undisturbed, Again
<1>6. sealed = {} /\ recording = NoRecording
  BY <1>3, <1>5, FirstSeal
<1>7. Only(parts, stored[u]) = stored[u]
  <2>1. PICK all : all = stored[u]
    OBVIOUS
  <2>2. all \in Seq(Seq(Events))
    BY <1>3, <2>1
  <2>3. all = [n \in DOMAIN all |-> all[n]]
    BY <2>2
  <2>4. \A n \in DOMAIN all : n \notin parts => all[n] = <<>>
    BY <1>5, <2>1 DEF PartsOf
  <2>5. Only(parts, all) = all
    BY <2>3, <2>4 DEF Only
  <2>6. QED
    BY <2>1, <2>5
<1>8. sealed' = {u} /\ recording' = PlayBack(stored[u])
  BY <1>4, <1>5, <1>6, <1>7 DEF Seal
<1>9. PartsOf(u)' = PartsOf(u)
  BY <1>4 DEF PartsOf
<1>10. SealInv'
  BY <1>3, <1>4, <1>5, <1>8, <1>9 DEF SealInv
<1>11. QED
  BY <1>3, <1>5, <1>6, <1>8, <1>10

\* the stream the ones that it knows of, which hold what is confirmed.
LEMMA ClosedSeals ==
    ASSUME RecordInv, LastInv, TrackInv, SealInv, Undisturbed, Undisturbed', NEW s \in Streams,
           Closed(s), streams[s].finish = "complete", streams[s].parts # {}
    PROVE  /\ SealInv' /\ recording = NoRecording
           /\ \E known \in Seq(Seq(Events)) :
                 /\ recording' = PlayBack(known)
                 /\ PartsOrderly(known, Accepted) /\ ConfirmedIn(known)
<1>1. PICK t, u, all : t = streams[s] /\ u = t.upload /\ all = stored[u]
  OBVIOUS
<1>2. TypeOK /\ EndInv /\ sealed \subseteq Uploads /\ Current = streams[writer.stream]
      /\ u = u /\ Current.upload \in Uploads /\ stored[Current.upload] \in Seq(Seq(Events))
  BY LastType, RecordType DEF TypeOK
<1>3. s = writer.stream /\ writer.pc = "ended"
  BY <1>2 DEF EndInv, Ending
<1>4. t = Current /\ u \in Uploads /\ all \in Seq(Seq(Events))
  BY <1>1, <1>2, <1>3
<1>5. t.phase = "drain" /\ t.done = <<>>
  BY <1>1 DEF Closed, CanClose
<1>6. /\ Seal(u, t.parts) /\ mishaps' = mishaps \cup Again(u) /\ UNCHANGED <<writer, stored>>
  BY <1>1 DEF Closed
<1>7. u \notin sealed
  BY <1>6 DEF Undisturbed, Again
<1>8. Numbered(t.done) = {}
  BY <1>5 DEF Numbered
<1>9. Own(t) = t.parts /\ Tracked(t)
  BY <1>1, <1>5, <1>8 DEF Tracked, Own
<1>10. PICK known : known = Mine(t, all)
  OBVIOUS
<1>11. /\ t.parts \subseteq Numbers(all)
       /\ PartsOrderly(known, Accepted) /\ ConfirmedIn(known)
  BY <1>1, <1>4, <1>7, <1>9, <1>10 DEF TrackInv
<1>12. t.parts \subseteq PartsOf(u) /\ t.parts # {}
  BY <1>1, <1>11 DEF Numbers, PartsOf
<1>13. sealed = {} /\ recording = NoRecording
  BY <1>2, <1>4, <1>7, <1>12, FirstSeal
<1>14. known \in Seq(Seq(Events)) /\ known = Only(t.parts, all)
  BY <1>4, <1>9, <1>10, MineType DEF Mine
<1>15. sealed' = {u} /\ recording' = PlayBack(known)
  BY <1>1, <1>6, <1>7, <1>13, <1>14 DEF Seal
<1>16. PartsOf(u)' = PartsOf(u)
  BY <1>6 DEF PartsOf
<1>17. SealInv'
  BY <1>3, <1>6, <1>12, <1>15, <1>16 DEF SealInv
<1>18. QED
  BY <1>11, <1>13, <1>14, <1>15, <1>17

\* A part is stored in an upload that is not completed.
LEMMA PartStoredSeal ==
    ASSUME LastInv, SealInv, NEW s \in Streams, PartStored(s)
    PROVE  SealInv'
<1>1. PICK u : u = streams[s].upload
  OBVIOUS
<1>2. /\ \A v \in Uploads : v # u => stored'[v] = stored[v]
      /\ \A v \in Uploads : v # u => PartsOf(v)' = PartsOf(v)
      /\ sealed \subseteq Uploads
  BY <1>1, PartStoredPhase, LastType DEF TypeOK
<1>3. u \notin sealed /\ UNCHANGED <<writer, sealed, recording>>
  BY <1>1 DEF PartStored, CanStore
<1>4. QED
  BY <1>2, <1>3 DEF SealInv

\* What the promise of the recording rests on.
FaithInv ==
    /\ LastInv
    /\ Undamaged => RecordInv /\ TrackInv
    /\ Undisturbed => SealInv

LEMMA FaithStart == AuditInit => FaithInv
<1> SUFFICES ASSUME AuditInit PROVE FaithInv
  OBVIOUS
<1>1. RecordInv /\ LastInv
  BY RecordStart, LastStart
<1>2. PICK t, all, known : t = Current /\ all = stored[1] /\ known = Mine(t, all)
  OBVIOUS
<1>3. t = NewStream(1, {}) /\ all = <<>> /\ Accepted = {} /\ Confirmed = 0
      /\ writer.pc = "run"
  BY <1>2, Bounds, SetEmpty DEF AuditInit, Current, Uploads, Accepted, Confirmed
<1>4. /\ t.upload = 1 /\ t.net = <<>> /\ t.slice = <<>> /\ t.active = NoPart /\ t.done = <<>>
      /\ t.status = <<-1>>
  BY <1>3, NewStreamFields
<1>5. t.parts = {}
  BY <1>3 DEF NewStream, NoStream
<1>6. Own(t) = {}
  BY <1>4, <1>5 DEF Own, Numbered
<1>7. DOMAIN known = {}
  BY <1>2, <1>3 DEF Mine, Only
<1>8. PartsOrderly(known, Accepted)
  BY <1>7 DEF PartsOrderly
<1>9. ConfirmedIn(known)
  BY <1>3 DEF ConfirmedIn
<1>10. Orderly(t) /\ Carries(t, Accepted, known, TRUE)
  <2>1. {} \subseteq Events
    OBVIOUS
  <2>2. QED
    BY <1>3, <1>4, <2>1, CarriesNone
<1>11. Sent(writer, t, Accepted, known, TRUE)
  BY <1>3 DEF Sent
<1>12. TrackInv
  BY <1>2, <1>4, <1>6, <1>8, <1>9, <1>10, <1>11 DEF TrackInv, Tracks
<1>13. SealInv
  BY DEF AuditInit, SealInv
<1>14. QED
  BY <1>1, <1>12, <1>13 DEF FaithInv

\* What a stream knows is kept until a part takes the number of another, or an event
\* overtakes another,
LEMMA TrackStep ==
    ASSUME RecordInv, LastInv, TrackInv, [AuditNext]_vars, Increasing(log)',
           "overwritten" \notin mishaps'
    PROVE  TrackInv'
<1>1. CASE AuditNext
  BY <1>1, ByCase, ServesFaith, PartStoredFaith, PartElsewhereFaith, UnstreamedFaith,
     WriterOnlyFaith, SendsFaith, ResumeFaith DEF WriterOnly
<1>2. CASE UNCHANGED vars
  <2>1. Current' = Current /\ Accepted' = Accepted /\ Confirmed' = Confirmed
    BY <1>2 DEF vars, Current, Accepted, Confirmed
  <2>2. QED
    BY <1>2, <2>1 DEF vars, TrackInv, ConfirmedIn
<1>3. QED
  BY <1>1, <1>2

\* and the recording until the first of the mishaps.
LEMMA FaithStep == FaithInv /\ [AuditNext]_vars => FaithInv'
<1> SUFFICES ASSUME FaithInv, [AuditNext]_vars PROVE FaithInv'
  OBVIOUS
<1>1. LastInv /\ LastInv' /\ TypeOK /\ PhaseInv /\ mishaps \subseteq mishaps'
  BY LastStep, LastType, MishapsMore DEF FaithInv
<1>2. ASSUME Undamaged' PROVE RecordInv' /\ TrackInv'
  <2>1. RecordInv /\ TrackInv /\ Increasing(log)' /\ "overwritten" \notin mishaps'
    BY <1>1, <1>2, OrderedBefore DEF FaithInv, Undamaged
  <2>2. RecordInv'
    BY <1>1, <1>2, <2>1, RecordStep DEF Recordable
  <2>3. QED
    BY <1>1, <2>1, <2>2, TrackStep
<1>3. ASSUME Undisturbed' PROVE SealInv'
  <2>1. Undisturbed /\ SealInv /\ RecordInv /\ TrackInv
    BY <1>1, <1>3, UndisturbedBefore DEF FaithInv
  <2>2. QED
    BY <1>1, <1>3, <2>1, QuietOr, QuietSeal, PartStoredSeal, CheckSeals, ClosedSeals
<1>4. QED
  BY <1>1, <1>2, <1>3 DEF FaithInv

-----------------------------------------------------------------------------
(* What is played back of a recording *)

\* A set of numbers that is finite is counted up to each of its elements.
LEMMA Counted ==
    ASSUME NEW q \in Seq(Events), Increasing(q), NEW n \in 1..Len(q)
    PROVE  Cardinality({j \in ToSet(q) : j <= q[n]}) = n
<1>1. PICK B : B = {j \in ToSet(q) : j <= q[n]}
  OBVIOUS
<1>2. PICK f : f = [k \in 1..n |-> q[k]]
  OBVIOUS
<1>3. Len(q) \in Nat /\ DOMAIN q = 1..Len(q) /\ n \in Nat /\ 1..n \subseteq 1..Len(q)
  OBVIOUS
<1>4. \A k \in 1..Len(q) : q[k] \in ToSet(q) /\ q[k] \in Nat
  <2>1. \A k \in 1..Len(q) : q[k] \in Events
    OBVIOUS
  <2>2. QED
    BY <1>3, <2>1, SetOf, Bounds
<1>5. f \in Bijection(1..n, B)
  <2>1. \A k \in 1..n : f[k] \in B
    <3>1. TAKE k \in 1..n
    <3>2. k = n \/ k < n
      BY <1>3
    <3>3. q[k] <= q[n]
      BY <1>3, <1>4, <3>2 DEF Increasing
    <3>4. QED
      BY <1>1, <1>2, <1>3, <1>4, <3>3
  <2>2. f \in [1..n -> B]
    BY <1>2, <2>1
  <2>3. \A k, m \in 1..n : f[k] = f[m] => k = m
    <3>1. TAKE k, m \in 1..n
    <3>2. HAVE f[k] = f[m]
    <3>3. k < m \/ m < k \/ k = m
      BY <1>3
    <3>4. ~(k < m) /\ ~(m < k)
      BY <1>2, <1>3, <1>4, <3>2 DEF Increasing
    <3>5. QED
      BY <3>3, <3>4
  <2>4. \A b \in B : \E k \in 1..n : f[k] = b
    <3>1. TAKE b \in B
    <3>2. PICK k \in 1..Len(q) : q[k] = b
      BY <1>1, <1>3 DEF ToSet
    <3>3. b <= q[n]
      BY <1>1
    <3>4. ~(n < k)
      BY <1>3, <1>4, <3>2, <3>3 DEF Increasing
    <3>5. k \in 1..n
      BY <1>3, <3>4
    <3>6. QED
      BY <1>2, <3>2, <3>5
  <2>5. f \in Injection(1..n, B)
    BY <2>2, <2>3 DEF Injection, IsInjective
  <2>6. f \in Surjection(1..n, B)
    BY <2>2, <2>4 DEF Surjection
  <2>7. QED
    BY <2>5, <2>6 DEF Bijection
<1>6. IsFiniteSet(1..n) /\ Cardinality(1..n) = n
  BY <1>3, FS_Interval
<1>7. ExistsBijection(1..n, B)
  BY <1>5 DEF ExistsBijection
<1>8. Cardinality(B) = Cardinality(1..n)
  BY <1>6, <1>7, FS_Bijection
<1>9. QED
  BY <1>1, <1>6, <1>8

\* Events that are played back are those of an increasing sequence: it is what is read.
LEMMA OrderedReads ==
    ASSUME NEW q \in Seq(Events), Increasing(q), NEW parts, Played(parts) = ToSet(q)
    PROVE  PlayBack(parts) = q
<1>1. PICK P, len : P = Played(parts) /\ len = Len(q)
  OBVIOUS
<1>2. len \in Nat /\ DOMAIN q = 1..len /\ P = ToSet(q) /\ q = [m \in 1..len |-> q[m]]
  BY <1>1
<1>3. /\ \A i \in P : \E k \in 1..len : q[k] = i
      /\ \A k \in 1..len : q[k] \in P /\ q[k] \in Nat
  <2>1. \A k \in 1..len : q[k] \in Events
    BY <1>1
  <2>2. QED
    BY <1>2, <2>1, Bounds DEF ToSet
<1>4. \A k \in 1..len : Cardinality({j \in P : j <= q[k]}) = k
  BY <1>1, <1>2, Counted
<1>5. Cardinality(P) = len
  <2>1. CASE len = 0
    <3>1. P = {}
      BY <1>3, <2>1
    <3>2. QED
      BY <2>1, <3>1, FS_EmptySet
  <2>2. CASE len # 0
    <3>1. len \in 1..len
      BY <1>2, <2>2
    <3>2. \A k \in 1..len : q[k] <= q[len]
      <4>1. TAKE k \in 1..len
      <4>2. k = len \/ k < len
        BY <1>2
      <4>3. QED
        BY <1>2, <1>3, <3>1, <4>2 DEF Increasing
    <3>3. {j \in P : j <= q[len]} = P
      BY <1>3, <3>2
    <3>4. QED
      BY <1>4, <3>1, <3>3
  <2>3. QED
    BY <2>1, <2>2
<1>6. ASSUME NEW m \in 1..len
      PROVE  (CHOOSE i \in P : Cardinality({j \in P : j <= i}) = m) = q[m]
  <2>1. q[m] \in P /\ Cardinality({j \in P : j <= q[m]}) = m
    BY <1>3, <1>4
  <2>2. ASSUME NEW i \in P, Cardinality({j \in P : j <= i}) = m PROVE i = q[m]
    <3>1. PICK k \in 1..len : q[k] = i
      BY <1>3
    <3>2. Cardinality({j \in P : j <= q[k]}) = k
      BY <1>4
    <3>3. QED
      BY <2>2, <3>1, <3>2
  <2>3. QED
    BY <2>1, <2>2
<1>7. PlayBack(parts) = [m \in 1..len |->
                           CHOOSE i \in P : Cardinality({j \in P : j <= i}) = m]
  BY <1>1, <1>5 DEF PlayBack, Ordered
<1>8. QED
  BY <1>2, <1>6, <1>7

\* From parts in order, a beginning of the history is read, with all of it that is in
\* them from the start.
LEMMA ReadsLog ==
    ASSUME NEW g \in Seq(Events), Increasing(g), NEW c \in 0..Len(g),
           NEW parts \in Seq(Seq(Events)), PartsOrderly(parts, ToSet(g)),
           \A m \in 1..c : StoredIn(parts, g[m])
    PROVE  \E n \in c..Len(g) : PlayBack(parts) = SubSeq(g, 1, n)
<1>1. PICK P, len, A : P = Played(parts) /\ len = Len(g) /\ A = ToSet(g)
  OBVIOUS
<1>2. /\ len \in Nat /\ c \in Nat /\ DOMAIN g = 1..len
      /\ A \subseteq Events /\ A \subseteq Nat
      /\ \A m \in 1..len : g[m] \in A /\ g[m] \in Nat
      /\ \A x \in A : \E m \in 1..len : x = g[m]
      /\ c <= len
  <2>1. len \in Nat /\ c \in Nat /\ DOMAIN g = 1..len /\ c <= len
    BY <1>1
  <2>2. A \subseteq Events /\ \A m \in DOMAIN g : g[m] \in A
    BY <1>1, SetOf
  <2>3. \A x \in A : \E m \in DOMAIN g : x = g[m]
    BY <1>1 DEF ToSet
  <2>4. QED
    BY <2>1, <2>2, <2>3, Bounds
<1>3. \A i \in A : StoredIn(parts, i) => i \in P
  BY <1>1, <1>2, StoredIsPlayed
<1>4. ASSUME NEW i \in P
      PROVE  i \in A /\ \A j \in A : j < i => j \in P
  <2>1. PICK p \in DOMAIN parts : \E k \in DOMAIN parts[p] : parts[p][k] = i
    BY <1>1 DEF Played
  <2>2. i \in ToSet(parts[p])
    BY <2>1 DEF ToSet
  <2>3. i \in A /\ \A j \in A : j < i => j \in ToSet(parts[p]) \/ Below(parts, p, j)
    BY <1>1, <2>1, <2>2 DEF PartsOrderly
  <2>4. \A j \in A : j < i => StoredIn(parts, j)
    BY <2>1, <2>3, BelowStored DEF StoredIn
  <2>5. QED
    BY <1>3, <2>3, <2>4
<1>5. PICK I : I = {m \in 1..len : g[m] \in P}
  OBVIOUS
<1>6. \A m \in I : \A k \in 1..len : k < m => k \in I
  <2>1. TAKE m \in I
  <2>2. TAKE k \in 1..len
  <2>3. HAVE k < m
  <2>4. g[k] < g[m] /\ g[k] \in A
    BY <1>2, <1>5, <2>3 DEF Increasing
  <2>5. QED
    BY <1>4, <1>5, <2>4
<1>7. PICK n : n = Max(I \cup {0})
  OBVIOUS
<1>8. n \in I \cup {0} /\ \A m \in I : m <= n
  <2>1. PICK B : B = I \cup {0}
    OBVIOUS
  <2>2. B # {} /\ B \subseteq 0..len
    BY <1>2, <1>5, <2>1
  <2>3. Max(B) \in B /\ \A m \in B : m <= Max(B)
    BY <1>2, <2>2, MaxOf
  <2>4. QED
    BY <1>7, <2>1, <2>3
<1>9. n \in 0..len /\ I = 1..n
  <2>1. n \in 0..len
    BY <1>2, <1>5, <1>8
  <2>2. \A m \in 1..n : m \in I
    <3>1. TAKE m \in 1..n
    <3>2. m \in 1..len /\ (m = n \/ m < n) /\ n # 0
      BY <1>2, <2>1
    <3>3. n \in I
      BY <1>8, <3>2
    <3>4. QED
      BY <1>6, <3>2, <3>3
  <2>3. QED
    BY <1>5, <1>8, <2>1, <2>2
<1>10. c <= n
  <2>1. \A m \in 1..c : m \in I
    <3>1. TAKE m \in 1..c
    <3>2. m \in 1..len /\ StoredIn(parts, g[m])
      BY <1>2
    <3>3. QED
      BY <1>2, <1>3, <1>5, <3>2
  <2>2. CASE c = 0
    BY <1>9, <2>2
  <2>3. CASE c # 0
    <3>1. c \in 1..c
      BY <1>2, <2>3
    <3>2. QED
      BY <1>8, <2>1, <3>1
  <2>4. QED
    BY <2>2, <2>3
<1>11. PICK q : q = SubSeq(g, 1, n)
  OBVIOUS
<1>12. q \in Seq(Events) /\ Len(q) = n /\ DOMAIN q = 1..n /\ \A m \in 1..n : q[m] = g[m]
  <2>1. n \in Nat /\ n <= len
    BY <1>2, <1>9
  <2>2. q \in Seq(Events) /\ Len(q) = n
    BY <1>1, <1>2, <1>11, <2>1
  <2>3. \A m \in 1..n : q[m] = g[m]
    BY <1>1, <1>2, <1>11, <2>1
  <2>4. QED
    BY <2>2, <2>3
<1>13. Increasing(q)
  <2>1. \A m, k \in 1..n : m < k => g[m] < g[k]
    <3>1. 1..n \subseteq 1..len
      BY <1>2, <1>9
    <3>2. \A m, k \in 1..len : m < k => g[m] < g[k]
      BY <1>2 DEF Increasing
    <3>3. QED
      BY <3>1, <3>2
  <2>2. QED
    BY <1>12, <2>1 DEF Increasing
<1>14. P = ToSet(q)
  <2>1. \A i \in P : i \in ToSet(q)
    <3>1. TAKE i \in P
    <3>2. PICK m \in 1..len : i = g[m]
      BY <1>2, <1>4
    <3>3. m \in 1..n
      BY <1>5, <1>9, <3>2
    <3>4. QED
      BY <1>12, <3>2, <3>3 DEF ToSet
  <2>2. \A i \in ToSet(q) : i \in P
    <3>1. TAKE i \in ToSet(q)
    <3>2. PICK m \in 1..n : q[m] = i
      BY <1>12 DEF ToSet
    <3>3. QED
      BY <1>5, <1>9, <1>12, <3>2
  <2>3. QED
    BY <2>1, <2>2
<1>15. PlayBack(parts) = q
  BY <1>1, <1>12, <1>13, <1>14, OrderedReads
<1>16. n \in c..Len(g)
  BY <1>1, <1>2, <1>9, <1>10
<1>17. QED
  BY <1>11, <1>15, <1>16


-----------------------------------------------------------------------------
(* The recording is what AuditLog promises *)

\* An upload with a stored event has a part.
LEMMA StoredPart ==
    ASSUME NEW u, NEW i, StoredIn(stored[u], i)
    PROVE  PartsOf(u) # {}
<1>1. PICK q \in DOMAIN stored[u] : i \in ToSet(stored[u][q])
  BY DEF StoredIn
<1>2. stored[u][q] # <<>>
  BY <1>1, SetEmpty
<1>3. QED
  BY <1>2 DEF PartsOf

\* The writer keeps an event: the history grows.
LEMMA AcceptSteps ==
    ASSUME RecordInv, Increasing(log)', NEW i \in Events, Send(i)
    PROVE  Abstract!Accept
<1>1. Confirmed' = Confirmed
  BY RecordType, SendHistory
<1>2. log' = Append(log, i) /\ UNCHANGED recording
  BY DEF Send
<1>3. QED
  BY <1>1, <1>2 DEF Abstract!Accept

\* A status confirms events; if the upload was completed before, they are in the
\* recording.
LEMMA ConfirmSteps ==
    ASSUME RecordInv, SealInv, OneUpload, TakeStatus
    PROVE  Abstract!Confirm
<1>1. /\ HistoryInv' /\ ConfirmedInv' /\ Confirmed <= Confirmed' /\ Confirmed' <= Len(log)
      /\ TypeOK /\ HistoryInv /\ KeptInv
  BY TakeStatusHistory, RecordType
<1>2. UNCHANGED <<log, recording, stored, sealed>> /\ writer.pc = "run"
  BY DEF TakeStatus
<1>3. PICK g, c : g = log /\ c = Confirmed'
  OBVIOUS
<1>4. /\ g \in Seq(Events) /\ Increasing(g) /\ Confirmed \in Nat /\ Len(g) \in Nat
      /\ Accepted = ToSet(g)
  BY <1>1, <1>3, HistoryType DEF HistoryInv, Accepted
<1>5. c \in Int
  <2>1. writer'.buffer \in Seq(Events)
    <3>1. TypeOK'
      BY <1>1, TakeStatusType
    <3>2. QED
      BY <3>1 DEF TypeOK, Writer
  <2>2. c = Len(g) - Len(writer'.buffer)
    BY <1>2, <1>3 DEF Confirmed
  <2>3. Len(writer'.buffer) \in Nat
    BY <2>1
  <2>4. QED
    BY <1>4, <2>2, <2>3
<1>6. c \in Confirmed..Len(g) /\ c \in 0..Len(g)
  <2>1. Confirmed <= c /\ c <= Len(g)
    BY <1>1, <1>3
  <2>2. QED
    BY <1>4, <1>5, <2>1
<1>7. ASSUME recording # NoRecording PROVE c <= Len(recording)
  <2>1. PICK u : u \in sealed
    BY <1>7 DEF SealInv
  <2>2. PICK all : all = stored[u]
    OBVIOUS
  <2>3. u \in Uploads /\ PartsOf(u) # {} /\ recording = PlayBack(all)
    BY <1>1, <1>2, <2>1, <2>2 DEF SealInv, TypeOK
  <2>4. all \in Seq(Seq(Events)) /\ PartsOrderly(all, ToSet(g))
    BY <1>1, <1>4, <2>2, <2>3, PartsOfType DEF KeptInv
  <2>5. ASSUME NEW m \in 1..c PROVE StoredIn(all, g[m])
    <3>1. PICK v : v = writer'.upload
      OBVIOUS
    <3>2. v = Current.upload /\ v \in Uploads
      <4>1. Current.upload \in Uploads /\ writer \in Writer
        BY RecordType
      <4>2. QED
        BY <3>1, <4>1 DEF TakeStatus, Writer
    <3>3. StoredIn(stored[v], g[m])
      <4>1. \A n \in 1..Confirmed' : StoredIn(stored'[writer'.upload], log'[n])
        BY <1>1 DEF ConfirmedInv
      <4>2. QED
        BY <1>2, <1>3, <2>5, <3>1, <4>1
    <3>4. v = u
      BY <2>3, <3>2, <3>3, StoredPart DEF OneUpload
    <3>5. QED
      BY <2>2, <3>3, <3>4
  <2>6. PICK n \in c..Len(g) : PlayBack(all) = SubSeq(g, 1, n)
    BY <1>4, <1>6, <2>4, <2>5, ReadsLog
  <2>7. n \in Nat /\ c <= n /\ n <= Len(g)
    BY <1>4, <1>6
  <2>8. Len(SubSeq(g, 1, n)) = n
    BY <1>4, <2>7
  <2>9. QED
    BY <2>3, <2>6, <2>7, <2>8
<1>8. QED
  BY <1>2, <1>3, <1>6, <1>7 DEF Abstract!Confirm

\* An upload is completed from parts that hold what is confirmed.
LEMMA CompleteSteps ==
    ASSUME RecordInv, NEW parts \in Seq(Seq(Events)), PartsOrderly(parts, Accepted),
           ConfirmedIn(parts), UNCHANGED <<writer, log>>, recording = NoRecording,
           recording' = PlayBack(parts)
    PROVE  Abstract!Complete
<1>1. TypeOK /\ HistoryInv
  BY RecordType
<1>2. PICK g, c : g = log /\ c = Confirmed
  OBVIOUS
<1>3. /\ g \in Seq(Events) /\ Increasing(g) /\ c \in 0..Len(g) /\ Accepted = ToSet(g)
  <2>1. /\ log \in Seq(Events) /\ Len(writer.buffer) \in Nat /\ Len(log) \in Nat
        /\ Confirmed \in Nat /\ Confirmed + Len(writer.buffer) = Len(log)
    BY <1>1, HistoryType
  <2>2. QED
    BY <1>1, <1>2, <2>1 DEF HistoryInv, Accepted
<1>4. PICK n \in c..Len(g) : PlayBack(parts) = SubSeq(g, 1, n)
  BY <1>2, <1>3, ReadsLog DEF ConfirmedIn
<1>5. Confirmed' = Confirmed
  BY DEF Confirmed
<1>6. QED
  BY <1>2, <1>4, <1>5 DEF Abstract!Complete

\* The completer takes all parts of the only upload that has any.
LEMMA CheckSteps ==
    ASSUME FaithInv, [AuditNext]_vars, Undisturbed', NEW c \in 1..Completers, CheckUpload(c)
    PROVE  Abstract!Complete
<1>1. RecordInv /\ LastInv /\ SealInv /\ Undisturbed
  BY UndisturbedBefore DEF FaithInv
<1>2. PICK u \in Uploads : recording' = PlayBack(stored[u]) /\ PartsOf(u) # {}
  BY <1>1, CheckSeals
<1>3. recording = NoRecording /\ UNCHANGED <<writer, log>>
  BY <1>1, CheckSeals DEF CheckUpload
<1>4. PICK all : all = stored[u]
  OBVIOUS
<1>5. all \in Seq(Seq(Events)) /\ PartsOrderly(all, Accepted)
  BY <1>1, <1>4, RecordType, PartsOfType DEF KeptInv
<1>6. ASSUME NEW n \in 1..Confirmed PROVE StoredIn(all, log[n])
  <2>1. StoredIn(stored[Current.upload], log[n])
    BY <1>1, BehindConfirmed DEF ConfirmedIn
  <2>2. Current.upload = u
    BY <1>1, <1>2, <2>1, RecordType, StoredPart DEF Undisturbed, OneUpload
  <2>3. QED
    BY <1>4, <2>1, <2>2
<1>7. ConfirmedIn(all)
  BY <1>6 DEF ConfirmedIn
<1>8. QED
  BY <1>1, <1>2, <1>3, <1>4, <1>5, <1>7, CompleteSteps

\* The stream knows of all that it needs.
LEMMA ClosedSteps ==
    ASSUME FaithInv, [AuditNext]_vars, Undisturbed', NEW s \in Streams, Closed(s),
           streams[s].finish = "complete", streams[s].parts # {}
    PROVE  Abstract!Complete
<1>1. RecordInv /\ LastInv /\ TrackInv /\ SealInv /\ Undisturbed
  BY UndisturbedBefore DEF FaithInv
<1>2. PICK known \in Seq(Seq(Events)) :
         /\ recording' = PlayBack(known)
         /\ PartsOrderly(known, Accepted) /\ ConfirmedIn(known)
  BY <1>1, ClosedSeals
<1>3. recording = NoRecording
  BY <1>1, ClosedSeals
<1>4. UNCHANGED <<writer, log>>
  BY DEF Closed
<1>5. QED
  BY <1>1, <1>2, <1>3, <1>4, CompleteSteps

\* What the writer keeps changes only with an event or a status.
LEMMA BufferStays ==
    ASSUME TypeOK, [AuditNext]_vars, ~TakeStatus, ~\E i \in Events : Send(i)
    PROVE  UNCHANGED <<log, Confirmed>>
<1>1. writer \in Writer
  BY CurrentType
<1>2. CASE Unstreamed
  BY <1>2, UnstreamedType DEF Confirmed
<1>3. CASE Resume \/ Resumed \/ AwaitTimesOut \/ Replay \/ Finish
  <2>1. UNCHANGED log
    BY <1>3 DEF Resume, Resumed, AwaitTimesOut, Replay, Finish
  <2>2. writer'.buffer = writer.buffer
    BY <1>1, <1>3 DEF Resume, Resumed, AwaitTimesOut, CanTimeOut, Replay, CanReplay, Finish, CanFinish, Writer
  <2>3. QED
    BY <2>1, <2>2 DEF Confirmed
<1>4. CASE \E s \in Streams : Serves(s)
  BY <1>4, ServesMoves DEF Confirmed
<1>5. CASE (\E s \in Streams : PartStored(s)) \/ UNCHANGED vars
  BY <1>5 DEF PartStored, vars, Confirmed
<1>6. QED
  BY <1>2, <1>3, <1>4, <1>5, ByCase

\* The recording begins as it should, and every step is one that AuditLog allows.
LEMMA LogStarts == AuditInit => Abstract!LogInit
<1> SUFFICES ASSUME AuditInit PROVE Abstract!LogInit
  OBVIOUS
<1>1. log = <<>> /\ writer.buffer = <<>> /\ recording = NoRecording
  BY DEF AuditInit
<1>2. Confirmed = 0
  <2>1. Len(<<>>) = 0
    OBVIOUS
  <2>2. QED
    BY <1>1, <2>1 DEF Confirmed
<1>3. QED
  BY <1>1, <1>2 DEF Abstract!LogInit

LEMMA LogSteps ==
    FaithInv /\ [AuditNext]_vars
        => [Undisturbed' => Abstract!LogNext]_<<log, Confirmed, recording>>
<1> SUFFICES ASSUME FaithInv, [AuditNext]_vars, Undisturbed'
             PROVE  Abstract!LogNext \/ UNCHANGED <<log, Confirmed, recording>>
  OBVIOUS
<1>1. RecordInv /\ LastInv /\ SealInv /\ Undisturbed /\ Undamaged' /\ TypeOK
  BY UndisturbedBefore, LastType DEF FaithInv
<1>2. Increasing(log)'
  BY <1>1, MishapsMore, OrderedBefore DEF LastInv
<1>3. CASE \E i \in Events : Send(i)
  BY <1>1, <1>2, <1>3, AcceptSteps DEF Abstract!LogNext
<1>4. CASE TakeStatus
  BY <1>1, <1>4, ConfirmSteps DEF Undisturbed, Abstract!LogNext
<1>5. CASE \E c \in 1..Completers : CheckUpload(c)
  BY <1>5, CheckSteps DEF Abstract!LogNext
<1>6. CASE \E s \in Streams : /\ Closed(s)
                              /\ streams[s].finish = "complete" /\ streams[s].parts # {}
  BY <1>6, ClosedSteps DEF Abstract!LogNext
<1>7. CASE (Quiet \/ \E s \in Streams : PartStored(s)) /\ ~TakeStatus /\ ~\E i \in Events : Send(i)
  <2>1. UNCHANGED recording
    BY <1>7 DEF Quiet, PartStored
  <2>2. QED
    BY <1>1, <1>7, <2>1, BufferStays
<1>8. QED
  BY <1>1, <1>3, <1>4, <1>5, <1>6, <1>7, QuietOr

\* The recording of a session is what AuditWriter promises (Recorded), for any number of
\* emitters, streams, completers and faults: however often its stream breaks and is
\* resumed, whoever completes the upload, and whenever, it is a prefix of what the writer
\* has accepted, with all that the writer is told is stored, before or after.  So it is
\* until the first mishap: a part that takes the number of another, one that the
\* completion leaves out, a second completion or a second upload, an event that overtakes
\* another.
THEOREM RecordingImplementsLog == AuditSpec => Recorded
<1>1. AuditSpec => []FaithInv
  BY FaithStart, FaithStep, PTL DEF AuditSpec
<1>2. QED
  BY <1>1, LogStarts, LogSteps, PTL DEF AuditSpec, Recorded

-----------------------------------------------------------------------------
(* The end of a closed session *)

\* A slice that has reached its size is one that an open stream may upload.
Ready(t) == t.full => t.slice # <<>> /\ t.phase = "open"

\* A stream that is still open when the writer has ended was asked to complete.
Awaits(w, t) == w.pc = "ended" /\ t.up /\ t.phase = "open" => t.asked

RestInv ==
    /\ PhaseInv
    /\ \A s \in Streams : Ready(streams[s]) /\ Awaits(writer, streams[s])
    /\ sealed # {} => recording # NoRecording

\* A step opens no stream and takes no request back from one that stays open.
Rests(t, r) ==
    /\ Ready(r)
    /\ r.up /\ r.phase = "open" => t.up /\ t.phase = "open" /\ r.asked = t.asked

LEMMA RestsSame ==
    ASSUME NEW t, NEW r, Ready(t), r.full => t.full, r.slice = t.slice, r.phase = t.phase,
           r.up => t.up, r.asked = t.asked
    PROVE  Rests(t, r)
BY DEF Rests, Ready

LEMMA RestsEmpty ==
    ASSUME NEW t, NEW r, ~r.full, r.phase = t.phase, r.up = t.up, r.asked = t.asked
    PROVE  Rests(t, r)
BY DEF Rests, Ready

LEMMA RestsOver ==
    ASSUME NEW t, NEW r, ~r.full, r.phase # "open"
    PROVE  Rests(t, r)
BY DEF Rests, Ready

LEMMA DrainedRests ==
    ASSUME NEW t \in StreamRecord, NEW finish \in {"flush", "complete"}, NEW r, r = Drained(t, finish),
           ~t.full
    PROVE  Rests(t, r)
<1>1. PICK q \in StreamRecord : q = IF t.slice = <<>> THEN t ELSE Started(t)
  BY StartedType
<1>2. ~q.full
  BY <1>1 DEF Started, StreamRecord
<1>3. PICK p : p = IF finish = "flush" THEN {} ELSE q.parts
  OBVIOUS
<1>4. r = [q EXCEPT !.phase = "drain", !.finish = finish, !.net = <<>>,
                    !.asked = FALSE, !.last = 0, !.parts = p]
  BY <1>1, <1>3 DEF Drained
<1>5. ~r.full /\ r.phase = "drain"
  BY <1>1, <1>2, <1>4 DEF StreamRecord
<1>6. QED
  BY <1>5, RestsOver

LEMMA ReportRests ==
    ASSUME TypeOK, NEW s \in Streams, NEW k, Report(s, k)
    PROVE  Rests(streams[s], streams'[s])
<1>1. PICK t, r : t = streams[s] /\ r = streams'[s]
  OBVIOUS
<1>2. t \in StreamRecord /\ t.done \in Seq(Finished) /\ k \in DOMAIN t.done /\ ~t.full
  BY <1>1, Typed, Fields DEF Report, CanReport
<1>3. PICK d : d = RemoveAt(t.done, k)
  OBVIOUS
<1>4. PICK m : m = [t EXCEPT !.done = d]
  OBVIOUS
<1>5. m \in StreamRecord /\ ~m.full /\ m.phase = t.phase /\ m.up = t.up /\ m.asked = t.asked
  <2>1. d \in Seq(Finished)
    BY <1>2, <1>3, Removed
  <2>2. QED
    BY <1>2, <1>4, <2>1 DEF StreamRecord
<1>6. PICK p, q : /\ p = IF m.finish = "flush" THEN m.parts ELSE m.parts \cup {t.done[k].number}
                  /\ q = StatusSent(m, t.done[k].index)
  OBVIOUS
<1>7. \/ streams' = [streams EXCEPT ![s] = [m EXCEPT !.parts = p, !.status = q]]
      \/ streams' = [streams EXCEPT ![s] =
            IF m.phase = "drain" THEN m
            ELSE [m EXCEPT !.phase = "cancelled", !.slice = <<>>,
                           !.done = <<>>, !.parts = {}, !.last = 0]]
  BY <1>1, <1>3, <1>4, <1>6 DEF Report, CanReport
<1>8. \/ r = [m EXCEPT !.parts = p, !.status = q]
      \/ r = m
      \/ r = [m EXCEPT !.phase = "cancelled", !.slice = <<>>, !.done = <<>>, !.parts = {}, !.last = 0]
  BY <1>1, <1>7 DEF TypeOK
<1>9. ~r.full /\ r.up = t.up /\ r.asked = t.asked /\ (r.phase = t.phase \/ r.phase = "cancelled")
  BY <1>5, <1>8 DEF StreamRecord
<1>10. QED
  BY <1>1, <1>9, RestsEmpty, RestsOver

LEMMA ServesRests ==
    ASSUME TypeOK, NEW s \in Streams, Serves(s), Ready(streams[s])
    PROVE  Rests(streams[s], streams'[s])
<1>1. PICK t, r : t = streams[s] /\ r = streams'[s]
  OBVIOUS
<1>2. t \in StreamRecord /\ streams \in [Streams -> StreamRecord] /\ Ready(t)
  BY <1>1, Typed DEF TypeOK
<1>3. CASE Receive(s)
  <2>1. PICK taken : taken = [t EXCEPT !.net = Tail(@), !.slice = Append(@, Head(t.net))]
    OBVIOUS
  <2>2. StreamTyped(t) /\ t.net # <<>> /\ ~t.full /\ t.phase = "open"
    BY <1>1, <1>3, Typed DEF Receive, CanReceive
  <2>3. taken \in StreamRecord
    <3>1. StreamTyped([t EXCEPT !.net = Tail(@), !.slice = Append(@, Head(t.net))])
      BY <2>2, TakenType
    <3>2. QED
      BY <2>1, <3>1 DEF StreamTyped
  <2>4. taken.asked = t.asked /\ taken.phase = "open" /\ taken.up = t.up /\ ~taken.full
    BY <1>2, <2>1, <2>2 DEF StreamRecord
  <2>5. taken.slice # <<>>
    <3>1. t.slice \in Seq(Events) /\ t.net \in Seq(Events)
      BY <1>2, Fields
    <3>2. PICK a : a = Append(t.slice, Head(t.net))
      OBVIOUS
    <3>3. a # <<>>
      BY <2>2, <3>1, <3>2, SetTail, SetAppend
    <3>4. taken.slice = a
      BY <1>2, <2>1, <3>2 DEF StreamRecord
    <3>5. QED
      BY <3>3, <3>4
  <2>6. \/ streams' = [streams EXCEPT ![s] = taken]
        \/ streams' = [streams EXCEPT ![s] = IF taken.active = NoPart THEN Started(taken)
                                             ELSE [taken EXCEPT !.full = TRUE]]
    BY <1>1, <1>3, <2>1 DEF Receive, CanReceive
  <2>7. r = taken \/ r = Started(taken) \/ r = [taken EXCEPT !.full = TRUE]
    BY <1>1, <1>2, <2>6
  <2>8. /\ r.asked = t.asked /\ r.phase = "open" /\ r.up = t.up
        /\ r.full => r.slice = taken.slice
    BY <2>3, <2>4, <2>7 DEF Started, StreamRecord
  <2>9. QED
    BY <1>1, <2>2, <2>5, <2>8 DEF Rests, Ready
<1>4. CASE HandlerFails(s)
  <2>1. r = [t EXCEPT !.up = FALSE, !.net = <<>>]
    BY <1>1, <1>2, <1>4 DEF HandlerFails, CanRefuse
  <2>2. ~r.up /\ r.asked = t.asked /\ r.phase = t.phase /\ r.full = t.full /\ r.slice = t.slice
    BY <1>2, <2>1 DEF StreamRecord
  <2>3. QED
    BY <1>1, <1>2, <2>2, RestsSame
<1>5. CASE Flush(s)
  <2>1. r = Drained(t, "flush") /\ ~t.full
    BY <1>1, <1>2, <1>5 DEF Flush, CanFlush, Drains
  <2>2. QED
    BY <1>1, <1>2, <2>1, DrainedRests
<1>6. CASE Complete(s)
  <2>1. r = Drained(t, "complete") /\ ~t.full
    BY <1>1, <1>2, <1>6 DEF Complete, CanComplete, Drains
  <2>2. QED
    BY <1>1, <1>2, <2>1, DrainedRests
<1>7. CASE StartUpload(s)
  <2>1. r = Started(t)
    BY <1>1, <1>2, <1>7 DEF StartUpload, CanStart
  <2>2. r.asked = t.asked /\ r.phase = t.phase /\ r.up = t.up /\ ~r.full
    BY <1>2, <2>1 DEF Started, StreamRecord
  <2>3. QED
    BY <1>1, <2>2, RestsEmpty
<1>8. CASE PartFails(s)
  <2>1. PICK e : e = Upload(t.active, FALSE)
    OBVIOUS
  <2>2. r = [t EXCEPT !.active = NoPart, !.failed = TRUE, !.done = Append(@, e)]
    BY <1>1, <1>2, <1>8, <2>1 DEF PartFails, CanStore, CanMiss
  <2>3. r.up = t.up /\ r.asked = t.asked /\ r.phase = t.phase /\ r.full = t.full /\ r.slice = t.slice
    BY <1>2, <2>2 DEF StreamRecord
  <2>4. QED
    BY <1>1, <1>2, <2>3, RestsSame
<1>9. CASE Closed(s) \/ Crash(s)
  <2>1. r = Gone(s, "closed") \/ r = Gone(s, "dead")
    BY <1>1, <1>9, ClosedMoves, CrashMoves
  <2>2. r.phase \in {"closed", "dead"} /\ ~r.full
    BY <2>1 DEF Gone, NoStream
  <2>3. QED
    BY <1>1, <2>2, RestsOver
<1>10. CASE \E k \in 1..MaxEvents : Report(s, k)
  BY <1>10, ReportRests
<1>11. CASE Disconnect(s)
  <2>1. r = [t EXCEPT !.up = FALSE]
    BY <1>1, <1>2, <1>11 DEF Disconnect
  <2>2. ~r.up /\ r.asked = t.asked /\ r.phase = t.phase /\ r.full = t.full /\ r.slice = t.slice
    BY <1>2, <2>1 DEF StreamRecord
  <2>3. QED
    BY <1>1, <1>2, <2>2, RestsSame
<1>12. QED
  BY <1>3, <1>4, <1>5, <1>6, <1>7, <1>8, <1>9, <1>10, <1>11 DEF Serves

\* What is sealed has been recorded: no recording that is read is NoRecording.
LEMMA ReadNotNone ==
    ASSUME NEW parts
    PROVE  PlayBack(parts) # NoRecording
<1>1. Played(parts) \in SUBSET Events
  BY DEF Played
<1>2. QED
  BY <1>1, NoRecordingAssumption DEF PlayBack

\* Neither is one that is left empty.
LEMMA EmptyNotNone == NoRecording # <<>>
<1>1. Ordered({}) # NoRecording
  BY NoRecordingAssumption
<1>2. Cardinality({}) = 0
  BY FS_EmptySet
<1>3. DOMAIN Ordered({}) = {}
  BY <1>2 DEF Ordered
<1>4. Ordered({}) = <<>>
  BY <1>2, <1>3 DEF Ordered
<1>5. QED
  BY <1>1, <1>4

\* A step seals an upload with its recording, or leaves both alone.
LEMMA SealKeeps ==
    ASSUME AuditNext, sealed # {} => recording # NoRecording
    PROVE  sealed' # {} => recording' # NoRecording
<1>1. CASE recording' = <<>> \/ \E parts : recording' = PlayBack(parts)
  BY <1>1, ReadNotNone, EmptyNotNone
<1>2. CASE UNCHANGED <<sealed, recording>>
  BY <1>2
<1>3. \/ recording' = <<>> \/ \E parts : recording' = PlayBack(parts)
      \/ UNCHANGED <<sealed, recording>>
  <2>1. CASE \E c \in 1..Completers : CheckUpload(c)
    BY <2>1 DEF CheckUpload, Seal
  <2>2. CASE \E s \in Streams : Closed(s)
    BY <2>2 DEF Closed, Seal
  <2>3. CASE ~(\E c \in 1..Completers : CheckUpload(c)) /\ ~(\E s \in Streams : Closed(s))
    <3>1. CASE \E s \in Streams : Disconnect(s) \/ Crash(s) \/ ServerNext(s)
      <4>1. PICK s \in Streams : Disconnect(s) \/ Crash(s) \/ ServerNext(s)
        BY <3>1
      <4>2. ~Closed(s)
        BY <2>3
      <4>3. CASE Disconnect(s) \/ Crash(s) \/ \E k \in 1..MaxEvents : Report(s, k)
        BY <4>3 DEF Disconnect, Crash, Report
      <4>4. CASE Receive(s) \/ HandlerFails(s) \/ Flush(s) \/ Complete(s)
        BY <4>4 DEF Receive, HandlerFails, Flush, Complete
      <4>5. CASE StartUpload(s) \/ PartStored(s) \/ PartFails(s)
        BY <4>5 DEF StartUpload, PartStored, PartFails
      <4>6. QED
        BY <4>1, <4>2, <4>3, <4>4, <4>5 DEF ServerNext
    <3>2. CASE Close \/ WriterNext \/ \E i \in Events : Lose(i)
      <4>1. CASE Close \/ (\E i \in Events : Lose(i)) \/ \E i \in Events : Send(i)
        BY <4>1 DEF Close, Lose, Send
      <4>2. CASE TakeStatus \/ StreamDone \/ Resume \/ Resumed
        BY <4>2 DEF TakeStatus, StreamDone, Resume, Resumed
      <4>3. CASE AwaitTimesOut \/ GiveUp \/ Replay \/ ReplayFails \/ Finish
        BY <4>3 DEF AwaitTimesOut, GiveUp, Replay, ReplayFails, Finish
      <4>4. QED
        BY <3>2, <4>1, <4>2, <4>3 DEF WriterNext
    <3>3. CASE \E c \in 1..Completers : \E u \in Uploads : ListUpload(c, u)
      BY <3>3 DEF ListUpload
    <3>4. QED
      BY <2>3, <3>1, <3>2, <3>3 DEF AuditNext
  <2>4. QED
    BY <2>1, <2>2, <2>3
<1>4. QED
  BY <1>1, <1>2, <1>3

\* One stream moves, and the writer does not end.
LEMMA RestOne ==
    ASSUME RestInv, PhaseInv', NEW s \in Streams,
           \A q \in Streams : q # s => streams'[q] = streams[q],
           Rests(streams[s], streams'[s]), writer'.pc = "ended" => writer.pc = "ended",
           sealed' # {} => recording' # NoRecording
    PROVE  RestInv'
<1>1. ASSUME NEW q \in Streams PROVE Ready(streams'[q]) /\ Awaits(writer', streams'[q])
  <2>1. Ready(streams[q]) /\ Awaits(writer, streams[q])
    BY DEF RestInv
  <2>2. CASE q = s
    BY <2>1, <2>2 DEF Rests, Awaits
  <2>3. CASE q # s
    BY <2>1, <2>3 DEF Awaits
  <2>4. QED
    BY <2>2, <2>3
<1>2. QED
  BY <1>1 DEF RestInv

\* No stream moves; the writer ends without a stream only if that is broken.
LEMMA RestNone ==
    ASSUME RestInv, PhaseInv', UNCHANGED streams,
           writer'.pc = "ended" => writer.pc = "ended" \/ ~Current.up,
           sealed' # {} => recording' # NoRecording
    PROVE  RestInv'
<1>1. ASSUME NEW q \in Streams PROVE Ready(streams'[q]) /\ Awaits(writer', streams'[q])
  <2>1. Ready(streams[q]) /\ Awaits(writer, streams[q])
    BY DEF RestInv
  <2>2. q # writer.stream => ~streams[q].up
    BY DEF RestInv, PhaseInv, InPhase
  <2>3. CASE writer'.pc = "ended" => writer.pc = "ended"
    BY <2>1, <2>3 DEF Awaits
  <2>4. CASE ~Current.up
    BY <2>1, <2>2, <2>4 DEF Awaits, Current
  <2>5. QED
    BY <2>3, <2>4
<1>2. QED
  BY <1>1 DEF RestInv

\* The step of the writer that starts a stream.
LEMMA ResumeRests ==
    ASSUME RestInv, PhaseInv', Resume
    PROVE  RestInv'
<1>1. TypeOK
  BY DEF RestInv, PhaseInv
<1>2. PICK r : r = [Current EXCEPT !.status = <<>>]
  OBVIOUS
<1>3. /\ streams' = [streams EXCEPT ![Next1] = Begun, ![writer.stream] = r]
      /\ streams'[Next1] = Begun /\ streams'[writer.stream] = r
  BY <1>1, <1>2, ResumeMoves
<1>4. writer'.pc = "await" /\ UNCHANGED <<sealed, recording>>
  BY <1>1, CurrentType DEF Resume, Writer
<1>5. ~Begun.full
  BY DEF Begun, NewStream, NoStream
<1>6. r.full = Current.full /\ r.slice = Current.slice /\ r.phase = Current.phase
  BY <1>1, <1>2, CurrentType DEF StreamRecord
<1>7. Ready(r)
  BY <1>1, <1>6, CurrentType DEF RestInv, Ready, Current
<1>8. ASSUME NEW q \in Streams PROVE Ready(streams'[q])
  <2>1. CASE q = Next1
    BY <1>3, <1>5, <2>1 DEF Ready
  <2>2. CASE q = writer.stream
    BY <1>3, <1>7, <2>2
  <2>3. CASE q # Next1 /\ q # writer.stream
    <3>1. streams'[q] = streams[q]
      BY <1>1, <1>3, <2>3 DEF TypeOK
    <3>2. QED
      BY <3>1 DEF RestInv
  <2>4. QED
    BY <2>1, <2>2, <2>3
<1>9. QED
  BY <1>4, <1>8 DEF RestInv, Awaits

LEMMA RestStep == RestInv /\ [AuditNext]_vars => RestInv'
<1> SUFFICES ASSUME RestInv, [AuditNext]_vars PROVE RestInv'
  OBVIOUS
<1>1. TypeOK /\ PhaseInv /\ PhaseInv' /\ writer.stream \in Streams /\ Current = streams[writer.stream]
      /\ Current \in StreamRecord /\ Ready(Current) /\ writer \in Writer
  BY PhaseStep, CurrentType DEF RestInv, PhaseInv, Current
<1>2. CASE UNCHANGED vars
  BY <1>1, <1>2 DEF vars, RestInv
<1>3. CASE AuditNext
  <2>1. sealed' # {} => recording' # NoRecording
    BY <1>3, SealKeeps DEF RestInv
  <2>2. CASE Unstreamed
    <3>1. UNCHANGED streams
      BY <1>1, <2>2, UnstreamedType
    <3>2. writer'.pc = "ended" => writer.pc = "ended" \/ ~Current.up
      <4>1. CASE GiveUp
        BY <1>1, <4>1 DEF GiveUp, CanGiveUp, PhaseInv
      <4>2. CASE ReplayFails
        BY <4>2 DEF ReplayFails, CanFail
      <4>3. CASE Close \/ StreamDone \/ \E i \in Events : Lose(i)
        BY <1>1, <4>3 DEF Close, StreamDone, Lose, Writer
      <4>4. CASE \E c \in 1..Completers : CheckUpload(c) \/ \E u \in Uploads : ListUpload(c, u)
        BY <1>1, <4>4, CompletersType
      <4>5. QED
        BY <2>2, <4>1, <4>2, <4>3, <4>4 DEF Unstreamed
    <3>3. QED
      BY <1>1, <2>1, <3>1, <3>2, RestNone
  <2>3. CASE TakeStatus \/ Resumed
    <3>1. streams' = [streams EXCEPT ![writer.stream].status = <<>>]
      BY <2>3 DEF TakeStatus, Resumed
    <3>2. Moves(writer.stream) /\ streams'[writer.stream] = [Current EXCEPT !.status = <<>>]
      BY <1>1, <3>1, StatusMoves
    <3>3. PICK r : r = streams'[writer.stream]
      OBVIOUS
    <3>4. r.full = Current.full /\ r.slice = Current.slice /\ r.phase = Current.phase
          /\ r.up = Current.up /\ r.asked = Current.asked
      BY <1>1, <3>2, <3>3 DEF StreamRecord
    <3>5. Rests(streams[writer.stream], streams'[writer.stream])
      BY <1>1, <3>3, <3>4, RestsSame
    <3>6. writer'.pc = "ended" => writer.pc = "ended"
      BY <1>1, <2>3 DEF TakeStatus, Resumed, Writer
    <3>7. QED
      BY <1>1, <2>1, <3>2, <3>5, <3>6, MovesType, RestOne
  <2>4. CASE AwaitTimesOut
    <3>1. Moves(writer.stream) /\ streams'[writer.stream] = [Current EXCEPT !.up = FALSE]
      BY <1>1, <2>4, DownType DEF AwaitTimesOut
    <3>2. PICK r : r = streams'[writer.stream]
      OBVIOUS
    <3>3. r.full = Current.full /\ r.slice = Current.slice /\ r.phase = Current.phase
          /\ ~r.up /\ r.asked = Current.asked
      BY <1>1, <3>1, <3>2 DEF StreamRecord
    <3>4. Rests(streams[writer.stream], streams'[writer.stream])
      BY <1>1, <3>2, <3>3, RestsSame
    <3>5. writer'.pc = "resume"
      BY <1>1, <2>4 DEF AwaitTimesOut, Writer
    <3>6. QED
      BY <1>1, <2>1, <3>1, <3>4, <3>5, MovesType, RestOne
  <2>5. CASE Resume
    BY <1>1, <2>5, ResumeRests
  <2>6. CASE Replay
    <3>1. writer.replayed < Len(writer.buffer)
      BY <1>1, <2>6 DEF PhaseInv, Replay, CanReplay
    <3>2. PICK i : Moves(writer.stream) /\ streams'[writer.stream] = [Current EXCEPT !.net = Append(@, i)]
      BY <1>1, <2>6, <3>1, ReplayMoves
    <3>3. PICK n, r : n = Append(Current.net, i) /\ r = streams'[writer.stream]
      OBVIOUS
    <3>4. r = [Current EXCEPT !.net = n]
      BY <3>2, <3>3
    <3>5. r.full = Current.full /\ r.slice = Current.slice /\ r.phase = Current.phase
          /\ r.up = Current.up /\ r.asked = Current.asked
      BY <1>1, <3>4 DEF StreamRecord
    <3>6. Rests(streams[writer.stream], streams'[writer.stream])
      BY <1>1, <3>3, <3>5, RestsSame
    <3>7. writer'.pc = "ended" => writer.pc = "ended"
      BY <1>1, <2>6 DEF Replay, CanReplay, Writer
    <3>8. QED
      BY <1>1, <2>1, <3>2, <3>6, <3>7, MovesType, RestOne
  <2>7. CASE Finish
    <3>1. Moves(writer.stream) /\ streams'[writer.stream] = [Current EXCEPT !.asked = Current.up]
      BY <1>1, <2>7, FinishMoves
    <3>2. PICK r : r = streams'[writer.stream]
      OBVIOUS
    <3>3. r.full = Current.full /\ r.slice = Current.slice /\ r.phase = Current.phase
          /\ r.up = Current.up /\ r.asked = Current.up
      BY <1>1, <3>1, <3>2 DEF StreamRecord
    <3>4. Ready(r) /\ Awaits(writer', r)
      BY <1>1, <3>3 DEF Ready, Awaits
    <3>5. ASSUME NEW q \in Streams, q # writer.stream
          PROVE  Ready(streams'[q]) /\ Awaits(writer', streams'[q])
      <4>1. streams'[q] = streams[q]
        BY <1>1, <3>1, <3>5, MovesType
      <4>2. Ready(streams[q]) /\ ~streams[q].up
        BY <3>5 DEF RestInv, PhaseInv, InPhase
      <4>3. QED
        BY <4>1, <4>2 DEF Awaits
    <3>6. QED
      BY <1>1, <2>1, <3>2, <3>4, <3>5 DEF RestInv
  <2>8. CASE \E i \in Events : Send(i)
    <3>1. PICK i \in Events : Send(i)
      BY <2>8
    <3>2. writer'.pc = "ended" => writer.pc = "ended"
      BY <1>1, <3>1 DEF Send, Writer
    <3>3. CASE ~Current.up
      <4>1. UNCHANGED streams
        BY <1>1, <3>1, <3>3, SendMoves
      <4>2. QED
        BY <1>1, <2>1, <3>2, <4>1, RestNone
    <3>4. CASE Current.up
      <4>1. Moves(writer.stream) /\ streams'[writer.stream] = [Current EXCEPT !.net = Append(@, i)]
        BY <1>1, <3>1, <3>4, SendMoves
      <4>2. PICK n, r : n = Append(Current.net, i) /\ r = streams'[writer.stream]
        OBVIOUS
      <4>3. r = [Current EXCEPT !.net = n]
        BY <4>1, <4>2
      <4>4. r.full = Current.full /\ r.slice = Current.slice /\ r.phase = Current.phase
            /\ r.up = Current.up /\ r.asked = Current.asked
        BY <1>1, <4>3 DEF StreamRecord
      <4>5. Rests(streams[writer.stream], streams'[writer.stream])
        BY <1>1, <4>2, <4>4, RestsSame
      <4>6. QED
        BY <1>1, <2>1, <3>2, <4>1, <4>5, MovesType, RestOne
    <3>5. QED
      BY <3>3, <3>4
  <2>9. ASSUME NEW s \in Streams, Serves(s)
        PROVE  RestInv'
    <3>1. Moves(s) /\ writer' = writer
      BY <1>1, <2>9, ServesMoves
    <3>2. Rests(streams[s], streams'[s])
      BY <1>1, <2>9, ServesRests DEF RestInv
    <3>3. QED
      BY <1>1, <2>1, <3>1, <3>2, MovesType, RestOne
  <2>10. ASSUME NEW s \in Streams, PartStored(s)
         PROVE  RestInv'
    <3>1. PICK t, e, r : t = streams[s] /\ e = Append(t.done, Upload(t.active, TRUE)) /\ r = streams'[s]
      OBVIOUS
    <3>2. Moves(s) /\ r = [t EXCEPT !.active = NoPart, !.done = e] /\ t \in StreamRecord
      BY <1>1, <2>10, <3>1, PartStoredMoves, Typed
    <3>3. r.full = t.full /\ r.slice = t.slice /\ r.phase = t.phase /\ r.up = t.up /\ r.asked = t.asked
      BY <3>2 DEF StreamRecord
    <3>4. Rests(streams[s], streams'[s])
      BY <3>1, <3>3, RestsSame DEF RestInv
    <3>5. writer' = writer
      BY <2>10 DEF PartStored
    <3>6. QED
      BY <1>1, <2>1, <3>2, <3>4, <3>5, MovesType, RestOne
  <2>11. QED
    BY <1>3, <2>2, <2>3, <2>4, <2>5, <2>6, <2>7, <2>8, <2>9, <2>10, ByCase
<1>4. QED
  BY <1>2, <1>3

LEMMA RestStart == AuditInit => RestInv
<1> SUFFICES ASSUME AuditInit PROVE RestInv
  OBVIOUS
<1>1. ~NewStream(1, {}).full /\ ~NoStream.full
  BY DEF NewStream, NoStream
<1>2. \A s \in Streams : ~streams[s].full
  BY <1>1 DEF AuditInit
<1>3. writer.pc = "run" /\ sealed = {}
  BY DEF AuditInit
<1>4. QED
  BY <1>2, <1>3, PhaseStart DEF RestInv, Ready, Awaits

\* When nothing can run, no part is being uploaded.
LEMMA AllUploaded ==
    ASSUME ~Progress, NEW s \in Streams
    PROVE  /\ streams[s].active = NoPart
           /\ ~CanReceive(s) /\ ~CanRefuse(s) /\ ~CanStart(s) /\ ~CanFlush(s) /\ ~CanComplete(s)
           /\ ~CanClose(s) /\ \A k \in 1..MaxEvents : ~CanReport(s, k)
<1>1. /\ ~CanReceive(s) /\ ~CanRefuse(s) /\ ~CanStart(s) /\ ~CanFlush(s) /\ ~CanComplete(s)
      /\ ~CanStore(s) /\ ~CanMiss(s) /\ ~CanClose(s) /\ \A k \in 1..MaxEvents : ~CanReport(s, k)
  BY DEF Progress
<1>2. streams[s].active = NoPart
  BY <1>1 DEF CanMiss
<1>3. QED
  BY <1>1, <1>2

\* The writer of a closed session has ended: its stream takes what is sent again,
\* or refuses it.
LEMMA WriterEnds ==
    ASSUME RestInv, writer.closing, ~Progress
    PROVE  writer.pc = "ended"
<1>1. /\ TypeOK /\ writer.stream \in Streams /\ Current = streams[writer.stream]
      /\ Current \in StreamRecord /\ Ready(Current) /\ writer \in Writer
      /\ InPhase(writer, writer.stream, Current)
  BY CurrentType DEF RestInv, PhaseInv, Current
<1>2. ~CanFinish /\ ~CanGiveUp /\ ~CanTimeOut /\ ~CanReplay /\ ~CanFail
  BY DEF Progress
<1>3. writer.pc \in {"replay", "ended"}
  BY <1>1, <1>2, WriterFields DEF CanFinish, CanGiveUp, CanTimeOut
<1>4. ASSUME writer.pc = "replay" PROVE FALSE
  <2>1. Current.up /\ ~(Len(Current.net) < NetSize)
    BY <1>2, <1>4 DEF CanReplay, CanFail
  <2>2. Current.net # <<>>
    <3>1. Current.net \in Seq(Events)
      BY <1>1, Fields
    <3>2. QED
      BY <2>1, <3>1, Bounds
  <2>3. Current.phase \in {"open", "cancelled"}
    BY <1>1, <1>4, <2>1 DEF InPhase
  <2>4. /\ Current.active = NoPart
        /\ ~CanReceive(writer.stream) /\ ~CanRefuse(writer.stream) /\ ~CanStart(writer.stream)
    BY <1>1, AllUploaded
  <2>5. CASE Current.phase = "cancelled"
    BY <1>1, <2>1, <2>2, <2>4, <2>5 DEF CanRefuse
  <2>6. CASE Current.phase = "open" /\ Current.full
    BY <1>1, <2>4, <2>6 DEF CanStart, Ready
  <2>7. CASE Current.phase = "open" /\ ~Current.full
    BY <1>1, <2>2, <2>4, <2>7 DEF CanReceive
  <2>8. QED
    BY <2>3, <2>5, <2>6, <2>7
<1>5. QED
  BY <1>3, <1>4

\* Then every stream is drained.
LEMMA StreamsEnd ==
    ASSUME RestInv, ~Progress, writer.pc = "ended", NEW s \in Streams
    PROVE  Idle(s)
<1>1. PICK t : t = streams[s]
  OBVIOUS
<1>2. /\ t \in StreamRecord /\ Ready(t) /\ Awaits(writer, t)
  BY <1>1, Typed DEF RestInv, PhaseInv
<1>3. /\ t.active = NoPart
      /\ ~CanReceive(s) /\ ~CanRefuse(s) /\ ~CanStart(s) /\ ~CanFlush(s) /\ ~CanComplete(s)
      /\ ~CanClose(s) /\ \A k \in 1..MaxEvents : ~CanReport(s, k)
  BY <1>1, AllUploaded
<1>4. ASSUME t.phase = "open" PROVE FALSE
  <2>1. t.slice = <<>>
    BY <1>1, <1>3, <1>4 DEF CanStart
  <2>2. ~t.full
    BY <1>2, <2>1 DEF Ready
  <2>3. Drains(s)
    BY <1>1, <1>4, <2>1, <2>2 DEF Drains
  <2>4. t.up /\ t.net = <<>>
    BY <1>1, <1>3, <1>4, <2>2, <2>3 DEF CanFlush, CanReceive
  <2>5. QED
    BY <1>1, <1>2, <1>3, <1>4, <2>3, <2>4 DEF Awaits, CanComplete
<1>5. ASSUME t.phase = "drain" PROVE FALSE
  <2>1. ~t.full
    BY <1>2, <1>5 DEF Ready
  <2>2. t.done # <<>>
    BY <1>1, <1>3, <1>5 DEF CanClose
  <2>3. t.done \in Seq(Finished)
    BY <1>2, Fields
  <2>4. 1 \in DOMAIN t.done /\ t.done[1] \in Finished
    BY <2>2, <2>3
  <2>5. t.done[1].index \in Events
    BY <2>4 DEF Finished
  <2>6. 1 \in 1..MaxEvents
    BY <2>5, Bounds DEF Events
  <2>7. CanReport(s, 1)
    BY <1>1, <1>5, <2>1, <2>4 DEF CanReport
  <2>8. QED
    BY <1>3, <2>6, <2>7
<1>6. QED
  BY <1>1, <1>3, <1>4, <1>5 DEF Idle

\* A closed session ends (SessionEnds): at any point of a recovery, of a replay or of
\* the flush of a broken stream, the goroutines of AuditWriter and ProtoStream or the
\* UploadCompleter can go on, until the writer has ended, its streams are drained and
\* what was stored is a recording.
THEOREM ClosedSessionsEnd == AuditSpec => []SessionEnds
<1>1. RestInv => SessionEnds
  <2> SUFFICES ASSUME RestInv, writer.closing, ~Progress
               PROVE  /\ writer.pc = "ended"
                      /\ \A s \in Streams : Idle(s)
                      /\ PartsOf(Current.upload) # {} => recording # NoRecording
    BY DEF SessionEnds
  <2>1. writer.pc = "ended" /\ \A s \in Streams : Idle(s)
    BY WriterEnds, StreamsEnd
  <2>2. ASSUME PartsOf(Current.upload) # {} PROVE recording # NoRecording
    <3>1. Current.upload \in Uploads
      <4>1. PhaseInv /\ TypeOK /\ writer.stream \in Streams /\ writer.stream \in Nat
        BY CurrentType, Bounds DEF RestInv, PhaseInv
      <4>2. Current.upload \in 1..writer.stream
        BY <4>1 DEF PhaseInv, InPhase, Current
      <4>3. QED
        BY <4>1, <4>2, Bounds DEF Uploads, Streams
    <3>2. 1 \in 1..Completers
      BY AuditAssumption
    <3>3. ~CanCheck(1) /\ ~CanList(1, Current.upload)
      BY <3>1, <3>2 DEF Progress
    <3>4. Current.upload \in sealed
      BY <2>2, <3>3 DEF CanCheck, CanList, Listed
    <3>5. QED
      BY <3>4 DEF RestInv
  <2>3. QED
    BY <2>1, <2>2
<1>2. QED
  BY <1>1, RestStart, RestStep, PTL DEF AuditSpec

=============================================================================
