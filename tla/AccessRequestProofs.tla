------------------------- MODULE AccessRequestProofs -------------------------
(***************************************************************************)
(* What an access request keeps (lib/services/access_request.go,           *)
(* lib/services/local/dynamic_access.go), for every number of calls and of *)
(* authors, all roles, thresholds and sets of thresholds, every number of  *)
(* attempts and all times.                                                 *)
(***************************************************************************)
EXTENDS AccessRequest, FiniteSetTheorems, FunctionTheorems, WellFoundedInduction, TLAPS

Reviews == Seq(ReviewRecord)

\* A request that can be reviewed has roles to approve; every review counts for
\* the thresholds of its author, and nobody has reviewed twice.
Shaped(r) ==
    /\ r.roles # {}
    /\ r.thresholds => r.asked # {}
    /\ \A i \in 1..Len(r.reviews) :
         r.thresholds /\ r.reviews[i].tids = Indexes(r.reviews[i].author)
    /\ \A i, j \in 1..Len(r.reviews) : r.reviews[i].author = r.reviews[j].author => i = j
    /\ r.state = "APPROVED" => r.expires = AccessTTL
    /\ r.expires <= AccessTTL

\* A request that is pending after a review is so because none of its reviews has
\* triggered anything; s of them were there when an administrator set its state.
Undecided(r, s) ==
    r.state = "PENDING" /\ Len(r.reviews) # s =>
        /\ r.thresholds
        /\ \A k \in 1..Len(r.reviews) : ~Denied(r.reviews, k) /\ ~Approved(r.asked, r.reviews, k)

\* The review that decided the request was the one to do it, and rightly.
Decision(r, d) ==
    d # 0 =>
        /\ d \in 1..Len(r.reviews)
        /\ r.state = "APPROVED" => Approved(r.asked, r.reviews, d) /\ ~Denied(r.reviews, d)
        /\ r.state = "DENIED" => Denied(r.reviews, d) /\ ~Approved(r.asked, r.reviews, d)

RequestInv ==
    /\ req = NoRequest => decided = 0
    /\ req # NoRequest =>
         made /\ Shaped(req) /\ Undecided(req, settled) /\ Decision(req, decided)

\* A call that is about to write has found that it may; if what it read is gone,
\* then by a write that it has not yet paid for with an attempt.
CallInv(c) ==
    /\ calls[c].pc \in {"idle", "get", "swap"} => calls[c].tries < MaxAttempts
    /\ calls[c].tries <= calls[c].raced
    /\ calls[c].pc = "swap" =>
         /\ calls[c].item # NoRequest /\ made
         /\ calls[c].op = "set" => CanSet(calls[c].item, calls[c])
         /\ calls[c].op = "review" => CanReview(calls[c].item, calls[c])
         /\ req # calls[c].item => calls[c].tries < calls[c].raced
    /\ calls[c].pc = "ok" =>
         /\ made
         /\ calls[c].op = "review" /\ req # NoRequest =>
              \E i \in 1..Len(req.reviews) :
                 /\ req.reviews[i].author = calls[c].author
                 /\ req.reviews[i].proposed = calls[c].target
    /\ calls[c].op = "set" /\ calls[c].target # "APPROVED" => calls[c].roles = {}
    /\ calls[c].op = "review" => calls[c].target \in Resolved

IInv == TypeOK /\ RequestInv /\ \A c \in Calls : CallInv(c)

-----------------------------------------------------------------------------
(* What reviews amount to *)


\* The elements of a sequence are of its type.
LEMMA ElementType == ASSUME NEW S, NEW s \in Seq(S), NEW i \in 1..Len(s)
                     PROVE  s[i] \in S
OBVIOUS

\* The fields of a review.
LEMMA ReviewType ==
    ASSUME NEW reviews \in Reviews, NEW i \in 1..Len(reviews)
    PROVE  /\ reviews[i].author \in Authors
           /\ reviews[i].proposed \in {"APPROVED", "DENIED"}
<1>1. reviews[i] \in ReviewRecord
  BY ElementType DEF Reviews
<1> QED
  BY <1>1 DEF ReviewRecord, Resolved

\* The fields of a threshold; its filter is a finite set of users.
LEMMA ThresholdType ==
    ASSUME NEW t \in 1..Len(Thresholds)
    PROVE  /\ Thresholds[t].approve \in Nat /\ Thresholds[t].deny \in Nat
           /\ Thresholds[t].filter \in SUBSET Authors /\ IsFiniteSet(Thresholds[t].filter)
<1>1. Thresholds[t] \in [approve : Nat, deny : Nat, filter : SUBSET Authors]
  BY ElementType, RequestAssumption
<1>2. Thresholds[t].filter \in SUBSET Authors
  BY <1>1
<1> QED
  BY <1>1, <1>2, RequestAssumption, FS_Subset

\* Every role has sets of thresholds.
LEMMA SetType ==
    ASSUME NEW role \in Roles
    PROVE  Sets[role] # {} /\ \A tset \in Sets[role] : tset # {} /\ tset \subseteq 1..Len(Thresholds)
<1>1. Sets[role] \in SUBSET SUBSET (1..Len(Thresholds))
  BY RequestAssumption
<1> QED
  BY <1>1, RequestAssumption

\* A review changes no count of those before it.
LEMMA TallyPrefix ==
    ASSUME NEW reviews \in Reviews, NEW review \in ReviewRecord,
           NEW k \in 0..Len(reviews), NEW t, NEW state
    PROVE  Tally(Append(reviews, review), k, t, state) = Tally(reviews, k, t, state)
<1>1. \A i \in 1..k : Append(reviews, review)[i] = reviews[i]
  BY DEF Reviews
<1>2. {i \in 1..k : Append(reviews, review)[i].proposed = state
                    /\ t \in Append(reviews, review)[i].tids}
        = {i \in 1..k : reviews[i].proposed = state /\ t \in reviews[i].tids}
  BY <1>1
<1> QED
  BY <1>2 DEF Tally

\* A further review changes nothing about the reviews before it.
LEMMA PrefixKept ==
    ASSUME NEW reviews \in Reviews, NEW review \in ReviewRecord,
           NEW k \in 0..Len(reviews), NEW asked
    PROVE  /\ Denied(Append(reviews, review), k) <=> Denied(reviews, k)
           /\ Approved(asked, Append(reviews, review), k) <=> Approved(asked, reviews, k)
<1> DEFINE more == Append(reviews, review)
<1>1. \A t, state : Tally(more, k, t, state) = Tally(reviews, k, t, state)
  BY TallyPrefix
<1> HIDE DEF more
<1>2. Denied(more, k) <=> Denied(reviews, k)
  BY <1>1 DEF Denied
<1>3. Approved(asked, more, k) <=> Approved(asked, reviews, k)
  BY <1>1 DEF Approved
<1> QED
  BY <1>2, <1>3 DEF more

\* A review does not count for what it does not propose.
LEMMA OtherTally ==
    ASSUME NEW reviews \in Reviews, NEW k \in 1..Len(reviews), NEW t, NEW state,
           reviews[k].proposed # state
    PROVE  Tally(reviews, k, t, state) = Tally(reviews, k - 1, t, state)
<1>1. {i \in 1..k : reviews[i].proposed = state /\ t \in reviews[i].tids}
        = {i \in 1..(k - 1) : reviews[i].proposed = state /\ t \in reviews[i].tids}
  BY DEF Reviews
<1> QED
  BY <1>1 DEF Tally

\* A review that approves denies nothing, and the other way round.
LEMMA OtherKept ==
    ASSUME NEW reviews \in Reviews, NEW k \in 1..Len(reviews), NEW asked
    PROVE  /\ reviews[k].proposed # "DENIED" => (Denied(reviews, k) <=> Denied(reviews, k - 1))
           /\ reviews[k].proposed # "APPROVED" =>
                (Approved(asked, reviews, k) <=> Approved(asked, reviews, k - 1))
BY OtherTally DEF Denied, Approved

\* Without a review nothing is decided.
LEMMA NothingYet ==
    ASSUME NEW reviews \in Reviews, NEW asked \in SUBSET Roles, asked # {}
    PROVE  ~Denied(reviews, 0) /\ ~Approved(asked, reviews, 0)
<1>1. ASSUME NEW t, NEW state
      PROVE  Tally(reviews, 0, t, state) = 0
  <2>1. {i \in 1..0 : reviews[i].proposed = state /\ t \in reviews[i].tids} = {}
    OBVIOUS
  <2> QED
    BY <2>1, FS_EmptySet DEF Tally
<1>2. \A t \in 1..Len(Thresholds) : Thresholds[t].deny \in Nat /\ Thresholds[t].approve \in Nat
  BY ThresholdType
<1>3. ~Denied(reviews, 0)
  BY <1>1, <1>2 DEF Denied
<1>4. ~Approved(asked, reviews, 0)
  <2>1. PICK role \in asked : role \in Roles
    OBVIOUS
  <2>2. PICK tset \in Sets[role] : tset # {} /\ tset \subseteq 1..Len(Thresholds)
    BY <2>1, SetType
  <2> SUFFICES ASSUME Approved(asked, reviews, 0)
               PROVE  FALSE
    OBVIOUS
  <2>3. PICK t \in tset : /\ Thresholds[t].approve # 0
                          /\ Tally(reviews, 0, t, "APPROVED") >= Thresholds[t].approve
    BY <2>1, <2>2 DEF Approved
  <2>4. Thresholds[t].approve \in Nat /\ Tally(reviews, 0, t, "APPROVED") = 0
    BY <1>1, <1>2, <2>2
  <2> QED
    BY <2>3, <2>4
<1> QED
  BY <1>3, <1>4

\* Numbers that are there have a least one.
LEMMA Least ==
    ASSUME NEW P, P \subseteq Nat, P # {}
    PROVE  \E k \in P : \A other \in P : k <= other
<1> DEFINE Less == OpToRel(<, Nat)
<1>1. IsWellFoundedOn(Less, Nat)
  BY NatLessThanWellFounded
<1>2. \A x, y \in Nat : <<y, x>> \in Less <=> y < x
  BY DEF OpToRel
<1> HIDE DEF Less
<1>3. PICK k \in P : \A y \in P : ~(<<y, k>> \in Less)
  BY <1>1, WFMin
<1>4. \A y \in P : ~(y < k) /\ y \in Nat /\ k \in Nat
  BY <1>2, <1>3
<1> QED
  BY <1>3, <1>4

\* The first review that triggers something decides, and for what it proposes.
LEMMA FirstDecides ==
    ASSUME NEW reviews \in Reviews, NEW asked \in SUBSET Roles, asked # {}
    PROVE  LET n == Deciding(asked, reviews) IN
           \/ /\ n = 0
              /\ \A k \in 1..Len(reviews) : ~Denied(reviews, k) /\ ~Approved(asked, reviews, k)
           \/ /\ n \in 1..Len(reviews) /\ reviews[n].proposed \in Resolved
              /\ reviews[n].author \in Authors
              /\ reviews[n].proposed = "APPROVED" =>
                   Approved(asked, reviews, n) /\ ~Denied(reviews, n)
              /\ reviews[n].proposed = "DENIED" =>
                   Denied(reviews, n) /\ ~Approved(asked, reviews, n)
<1> DEFINE triggers == Triggers(asked, reviews)
           first == CHOOSE k \in triggers : \A other \in triggers : k <= other
<1>1. CASE triggers = {}
  <2>1. Deciding(asked, reviews) = 0
    BY <1>1 DEF Deciding
  <2> QED
    BY <1>1, <2>1 DEF Triggers
<1>2. CASE triggers # {}
  <2>1. triggers \subseteq Nat
    BY DEF Triggers
  <2>2. \E k \in triggers : \A other \in triggers : k <= other
    BY <1>2, <2>1, Least
  <2>3. first \in triggers /\ \A other \in triggers : first <= other
    BY <2>2
  <2>4. PICK n \in 1..Len(reviews) :
          /\ n = first /\ \A other \in triggers : n <= other
          /\ Denied(reviews, n) \/ Approved(asked, reviews, n)
    BY <2>3 DEF Triggers
  <2>5. Deciding(asked, reviews) =
          IF /\ reviews[n].proposed = "APPROVED" => Approved(asked, reviews, n)
             /\ reviews[n].proposed = "DENIED" => Denied(reviews, n)
            THEN n ELSE 0
    BY <1>2, <2>4 DEF Deciding
  <2>6. n \in Nat /\ n > 0 /\ Len(reviews) \in Nat
    BY DEF Reviews
  <2>7. ~Denied(reviews, n - 1) /\ ~Approved(asked, reviews, n - 1)
    <3>1. CASE n - 1 = 0
      BY <3>1, NothingYet
    <3>2. CASE n - 1 # 0
      <4> DEFINE before == n - 1
      <4>1. before \in 1..Len(reviews) /\ ~(n <= before)
        BY <2>6, <3>2
      <4> HIDE DEF before
      <4>2. before \notin triggers
        BY <2>4, <4>1
      <4>3. ~Denied(reviews, before) /\ ~Approved(asked, reviews, before)
        BY <4>1, <4>2 DEF Triggers
      <4> QED
        BY <4>3 DEF before
    <3> QED
      BY <3>1, <3>2
  <2>8. reviews[n].proposed \in {"APPROVED", "DENIED"} /\ reviews[n].author \in Authors
    BY ReviewType
  <2>9. CASE reviews[n].proposed = "APPROVED"
    <3>1. ~Denied(reviews, n)
      BY <2>7, <2>9, OtherKept
    <3> QED
      BY <2>4, <2>5, <2>8, <2>9, <3>1 DEF Resolved
  <2>10. CASE reviews[n].proposed = "DENIED"
    <3>1. ~Approved(asked, reviews, n)
      BY <2>7, <2>10, OtherKept
    <3> QED
      BY <2>4, <2>5, <2>8, <2>10, <3>1 DEF Resolved
  <2> QED
    BY <2>8, <2>9, <2>10
<1> QED
  BY <1>1, <1>2

\* A count is that of the authors: none of them has reviewed twice, and their
\* reviews carry the thresholds that count them.
LEMMA TallyIsVoices ==
    ASSUME req.reviews \in Reviews, Shaped(req),
           NEW k \in 0..Len(req.reviews), NEW t \in 1..Len(Thresholds), NEW state
    PROVE  Voices(k, t, state) = Tally(req.reviews, k, t, state)
<1> DEFINE reviews == req.reviews
           S == {i \in 1..k : reviews[i].proposed = state /\ t \in reviews[i].tids}
           T == {author \in Thresholds[t].filter :
                   \E i \in 1..k : reviews[i].author = author /\ reviews[i].proposed = state}
           f == [i \in S |-> reviews[i].author]
<1>1. \A i \in 1..k : i \in 1..Len(reviews)
  OBVIOUS
<1>2. ASSUME NEW i \in 1..k
      PROVE  /\ reviews[i].author \in Authors
             /\ t \in reviews[i].tids <=> reviews[i].author \in Thresholds[t].filter
  BY <1>1, ReviewType DEF Shaped, Indexes
<1>3. f \in [S -> T]
  BY <1>2
<1>4. \A i, j \in S : f[i] = f[j] => i = j
  BY <1>1 DEF Shaped
<1>5. \A author \in T : \E i \in S : f[i] = author
  BY <1>2
<1>7. IsFiniteSet(S)
  <2>1. S \in SUBSET (1..k) /\ k \in Int
    BY DEF Reviews
  <2>2. IsFiniteSet(1..k)
    BY <2>1, FS_Interval
  <2> HIDE DEF S
  <2> QED
    BY <2>1, <2>2, FS_Subset
<1> HIDE DEF S, T, f
<1>6. f \in Bijection(S, T)
  BY <1>3, <1>4, <1>5, Fun_IsBij
<1>8. Cardinality(T) = Cardinality(S)
  BY <1>6, <1>7, FS_Bijection DEF ExistsBijection
<1> QED
  BY <1>8 DEF Voices, Tally, S, T

\* Counting the reviews is the same as counting the users.
LEMMA EnoughIsDecided ==
    ASSUME req.reviews \in Reviews, Shaped(req), req.asked \in SUBSET Roles,
           NEW k \in 0..Len(req.reviews)
    PROVE  /\ EnoughDenials(k) <=> Denied(req.reviews, k)
           /\ EnoughApprovals(k) <=> Approved(req.asked, req.reviews, k)
<1>1. \A t \in 1..Len(Thresholds) : \A state :
        Voices(k, t, state) = Tally(req.reviews, k, t, state)
  BY TallyIsVoices
<1>2. EnoughDenials(k) <=> Denied(req.reviews, k)
  BY <1>1 DEF EnoughDenials, Denied
<1>3. \A role \in req.asked : \A tset \in Sets[role] : tset \subseteq 1..Len(Thresholds)
  BY SetType
<1>4. EnoughApprovals(k) <=> Approved(req.asked, req.reviews, k)
  BY <1>1, <1>3 DEF EnoughApprovals, Approved
<1> QED
  BY <1>2, <1>4

-----------------------------------------------------------------------------
(* Writes *)

\* No request is told from every request by its state.
LEMMA Distinct ==
    /\ NoRequest \notin Request
    /\ \A r \in Request : r.state # "NONE"
    /\ NoRequest.state = "NONE" /\ NoRequest.reviews = <<>>
    /\ NoRequest.roles = {} /\ NoRequest.expires = 0
BY DEF Request, NoRequest, Resolved, States

\* What a write does to the calls that have read: each loses an attempt at most,
\* and anything else about them stays.
LEMMA WriteRaces ==
    ASSUME NEW called \in [Calls -> Call], NEW new \in Request \cup {NoRequest},
           Write(new, called)
    PROVE  /\ req' = new /\ calls' \in [Calls -> Call]
           /\ \A c \in Calls :
                /\ calls'[c].pc = called[c].pc /\ calls'[c].op = called[c].op
                /\ calls'[c].target = called[c].target /\ calls'[c].roles = called[c].roles
                /\ calls'[c].author = called[c].author /\ calls'[c].tries = called[c].tries
                /\ calls'[c].item = called[c].item
                /\ calls'[c].raced = IF called[c].pc = "swap" /\ called[c].raced < MaxAttempts
                                       THEN called[c].raced + 1 ELSE called[c].raced
<1>1. ASSUME NEW c \in Calls
      PROVE  /\ calls'[c] \in Call
             /\ calls'[c].pc = called[c].pc /\ calls'[c].op = called[c].op
             /\ calls'[c].target = called[c].target /\ calls'[c].roles = called[c].roles
             /\ calls'[c].author = called[c].author /\ calls'[c].tries = called[c].tries
             /\ calls'[c].item = called[c].item
             /\ calls'[c].raced = IF called[c].pc = "swap" /\ called[c].raced < MaxAttempts
                                    THEN called[c].raced + 1 ELSE called[c].raced
  <2>1. called[c] \in Call /\ called[c].raced \in 0..MaxAttempts /\ MaxAttempts \in Nat
    BY RequestAssumption DEF Call
  <2>2. CASE called[c].pc = "swap" /\ called[c].raced < MaxAttempts
    <3>1. called[c].raced + 1 \in 0..MaxAttempts
      BY <2>1, <2>2
    <3>2. calls'[c] = [called[c] EXCEPT !.raced = called[c].raced + 1]
      BY <2>2 DEF Write
    <3> QED
      BY <2>1, <2>2, <3>1, <3>2 DEF Call
  <2>3. CASE ~(called[c].pc = "swap" /\ called[c].raced < MaxAttempts)
    <3>1. calls'[c] = called[c]
      BY <2>3 DEF Write
    <3> QED
      BY <2>1, <2>3, <3>1
  <2> QED
    BY <2>2, <2>3
<1>2. req' = new /\ DOMAIN calls' = Calls
  BY DEF Write
<1>3. calls' \in [Calls -> Call]
  BY <1>1 DEF Write
<1> QED
  BY <1>1, <1>2, <1>3

\* Every other call is as good as before: what it read is gone, but it has not
\* tried again since.  What an acknowledged review left has to be in the new
\* request.
LEMMA OthersKept ==
    ASSUME TypeOK, NEW c \in Calls, CallInv(c), made',
           NEW called \in [Calls -> Call], NEW new \in Request \cup {NoRequest},
           Write(new, called), called[c] = calls[c],
           new = NoRequest \/ ~made
             \/ /\ req # NoRequest
                /\ Len(req.reviews) <= Len(new.reviews)
                /\ \A i \in 1..Len(req.reviews) : new.reviews[i] = req.reviews[i],
           ~made => req = NoRequest
    PROVE  CallInv(c)'
<1>1. /\ calls'[c].pc = calls[c].pc /\ calls'[c].op = calls[c].op
      /\ calls'[c].target = calls[c].target /\ calls'[c].roles = calls[c].roles
      /\ calls'[c].author = calls[c].author /\ calls'[c].tries = calls[c].tries
      /\ calls'[c].item = calls[c].item
      /\ calls'[c].raced = IF calls[c].pc = "swap" /\ calls[c].raced < MaxAttempts
                             THEN calls[c].raced + 1 ELSE calls[c].raced
      /\ req' = new
  BY WriteRaces
<1>2. calls[c] \in Call /\ calls[c].tries \in 0..MaxAttempts /\ calls[c].raced \in 0..MaxAttempts
      /\ MaxAttempts \in Nat
  BY RequestAssumption DEF TypeOK, Call
<1>3. calls'[c].tries <= calls'[c].raced
  BY <1>1, <1>2 DEF CallInv
<1>4. calls'[c].pc = "swap" => calls'[c].tries < calls'[c].raced
  BY <1>1, <1>2 DEF CallInv
<1>5. calls[c].op = "set" => (CanSet(calls[c].item, calls[c]) => CanSet(calls[c].item, calls'[c]))
  BY <1>1 DEF CanSet, CanSetState
<1>6. CanReview(calls[c].item, calls[c]) => CanReview(calls[c].item, calls'[c])
  BY <1>1 DEF CanReview, CanReviewRequest
<1>7. ASSUME calls[c].pc = "ok", calls[c].op = "review", new # NoRequest
      PROVE  \E i \in 1..Len(new.reviews) :
               /\ new.reviews[i].author = calls[c].author
               /\ new.reviews[i].proposed = calls[c].target
  <2>1. made
    BY <1>7 DEF CallInv
  <2>2. PICK i \in 1..Len(req.reviews) : /\ req.reviews[i].author = calls[c].author
                                         /\ req.reviews[i].proposed = calls[c].target
    BY <1>7, <2>1 DEF CallInv
  <2>3. new.reviews[i] = req.reviews[i] /\ i \in 1..Len(new.reviews)
    <3>1. req \in Request /\ new \in Request
      BY <1>7, <2>1 DEF TypeOK
    <3>2. req.reviews \in Seq(ReviewRecord) /\ new.reviews \in Seq(ReviewRecord)
      BY <3>1 DEF Request
    <3> QED
      BY <1>7, <2>1, <3>2
  <2> QED
    BY <2>2, <2>3
<1> QED
  BY <1>1, <1>3, <1>4, <1>5, <1>6, <1>7 DEF CallInv

\* A step of a call that writes nothing.
LEMMA BecomeKeeps ==
    ASSUME IInv, NEW c \in Calls, NEW record \in Call, Become(c, record),
           UNCHANGED <<now, made, req, decided, settled>>, CallInv(c)'
    PROVE  IInv'
<1>1. calls' \in [Calls -> Call] /\ \A d \in Calls \ {c} : calls'[d] = calls[d]
  BY DEF IInv, TypeOK, Become
<1>2. TypeOK' /\ RequestInv'
  BY <1>1 DEF IInv, TypeOK, RequestInv
<1>3. ASSUME NEW d \in Calls \ {c}
      PROVE  CallInv(d)'
  BY <1>1, <1>3 DEF IInv, CallInv, CanSet, CanReview, CanSetState
<1> QED
  BY <1>2, <1>3 DEF IInv

\* A call that is over has nothing more to keep.
LEMMA FailedCall ==
    ASSUME NEW c \in Calls, calls'[c] = Done
    PROVE  Done \in Call /\ CallInv(c)'
BY RequestAssumption DEF Done, Call, CallInv, Resolved, States

\* The request is gone: nothing is left to decide, and what anybody has read.
LEMMA VanishKeeps ==
    ASSUME IInv, Write(NoRequest, calls), decided' = 0, settled' = 0, UNCHANGED made,
           now' \in 0..AccessTTL
    PROVE  IInv'
<1>1. req' = NoRequest /\ calls' \in [Calls -> Call]
  BY WriteRaces DEF IInv, TypeOK
<1>2. TypeOK' /\ RequestInv'
  BY <1>1 DEF IInv, TypeOK, RequestInv
<1>3. ASSUME NEW c \in Calls
      PROVE  CallInv(c)'
  <2>1. CASE made
    BY <2>1, OthersKept DEF IInv, TypeOK, RequestInv
  <2>2. CASE ~made
    <3>1. /\ calls'[c].pc = calls[c].pc /\ calls'[c].op = calls[c].op
          /\ calls'[c].target = calls[c].target /\ calls'[c].roles = calls[c].roles
          /\ calls'[c].tries = calls[c].tries
          /\ calls[c].pc # "swap" => calls'[c].raced = calls[c].raced
      BY WriteRaces DEF IInv, TypeOK
    <3> QED
      BY <2>2, <3>1 DEF IInv, CallInv
  <2> QED
    BY <2>1, <2>2
<1> QED
  BY <1>2, <1>3 DEF IInv

-----------------------------------------------------------------------------
(* The steps *)

\* The invariant, step by step: there is no request at first.
LEMMA InitInv == RequestInit => IInv
<1> SUFFICES ASSUME RequestInit
             PROVE  IInv
  OBVIOUS
<1> DEFINE idle == [Done EXCEPT !.pc = "idle"]
<1>1. idle \in Call
  BY RequestAssumption DEF Done, Call, Resolved, States
<1>2. TypeOK
  <2>1. calls = [c \in Calls |-> idle]
    BY DEF RequestInit
  <2> HIDE DEF idle
  <2>2. calls \in [Calls -> Call]
    BY <1>1, <2>1
  <2>3. now \in 0..AccessTTL /\ decided \in Nat /\ settled \in Nat
    BY RequestAssumption DEF RequestInit
  <2> QED
    BY <2>2, <2>3 DEF RequestInit, TypeOK
<1>3. RequestInv
  BY DEF RequestInit, RequestInv
<1>4. ASSUME NEW c \in Calls
      PROVE  CallInv(c)
  BY RequestAssumption DEF RequestInit, CallInv, Done
<1> QED
  BY <1>2, <1>3, <1>4 DEF IInv

LEMMA CreateKeeps ==
    ASSUME IInv, NEW state \in States, NEW wanted \in SUBSET Roles,
           CreateAccessRequest(state, wanted)
    PROVE  IInv'
<1> DEFINE new == [state |-> state, roles |-> wanted, thresholds |-> state = "PENDING",
                   asked |-> IF state = "PENDING" THEN wanted ELSE {},
                   reason |-> NoCall, reviews |-> <<>>,
                   expires |-> IF state = "PENDING" /\ PendingTTL < AccessTTL
                                 THEN PendingTTL ELSE AccessTTL]
<1>1. /\ ~made /\ made' /\ wanted # {} /\ Write(new, calls)
      /\ UNCHANGED <<now, decided, settled>>
  BY DEF CreateAccessRequest
<1>2. new \in Request /\ new # NoRequest
  BY DEF Request, NoRequest, Resolved, States
<1>3. Shaped(new) /\ Undecided(new, settled)
  <2>1. Len(new.reviews) = 0 /\ new.roles = wanted /\ new.state = state
        /\ (new.thresholds <=> state = "PENDING")
        /\ new.asked = (IF state = "PENDING" THEN wanted ELSE {})
    OBVIOUS
  <2>2. new.expires <= AccessTTL /\ (state = "APPROVED" => new.expires = AccessTTL)
    BY RequestAssumption
  <2> HIDE DEF new
  <2> QED
    BY <1>1, <2>1, <2>2 DEF Shaped, Undecided
<1> HIDE DEF new
<1>4. req = NoRequest /\ decided = 0
  BY <1>1 DEF IInv, RequestInv
<1>5. req' = new /\ calls' \in [Calls -> Call]
  BY <1>1, <1>2, WriteRaces DEF IInv, TypeOK
<1>6. TypeOK' /\ RequestInv'
  BY <1>1, <1>2, <1>3, <1>4, <1>5 DEF IInv, TypeOK, RequestInv, Decision
<1>7. ASSUME NEW c \in Calls
      PROVE  CallInv(c)'
  BY <1>1, <1>2, <1>4, <1>7, OthersKept DEF IInv, TypeOK
<1> QED
  BY <1>6, <1>7 DEF IInv

LEMMA DeleteKeeps == ASSUME IInv, DeleteAccessRequest PROVE IInv'
BY VanishKeeps DEF DeleteAccessRequest, IInv, TypeOK

LEMMA TickKeeps == ASSUME IInv, Tick PROVE IInv'
<1>1. now' \in 0..AccessTTL
  BY RequestAssumption DEF Tick, IInv, TypeOK
<1>2. CASE req # NoRequest /\ req.expires <= now'
  BY <1>1, <1>2, VanishKeeps DEF Tick
<1>3. CASE ~(req # NoRequest /\ req.expires <= now')
  <2>1. UNCHANGED <<made, req, calls, decided, settled>>
    BY <1>3 DEF Tick
  <2> QED
    BY <1>1, <2>1 DEF IInv, TypeOK, RequestInv, CallInv, CanSet, CanReview, CanSetState
<1> QED
  BY <1>2, <1>3

LEMMA CallKeeps ==
    ASSUME IInv, NEW c \in Calls, CallSet(c) \/ CallReview(c)
    PROVE  IInv'
<1>1. calls[c] \in Call /\ calls[c].pc = "idle" /\ UNCHANGED <<now, made, req, decided, settled>>
  BY DEF IInv, TypeOK, CallSet, CallReview
<1>2. PICK record \in Call :
        /\ Become(c, record) /\ record.pc = "get"
        /\ record.tries = calls[c].tries /\ record.raced = calls[c].raced
        /\ record.op = "set" /\ record.target # "APPROVED" => record.roles = {}
        /\ record.op = "review" => record.target \in Resolved
  <2>1. CASE CallSet(c)
    <3>1. PICK target \in States :
            \E rs \in IF target = "APPROVED" THEN SUBSET Roles ELSE {{}} :
              Become(c, [calls[c] EXCEPT !.pc = "get", !.op = "set", !.target = target,
                                         !.roles = rs])
      BY <2>1 DEF CallSet
    <3>2. PICK rs \in SUBSET Roles :
            /\ target # "APPROVED" => rs = {}
            /\ Become(c, [calls[c] EXCEPT !.pc = "get", !.op = "set", !.target = target,
                                          !.roles = rs])
      BY <3>1
    <3> DEFINE record == [calls[c] EXCEPT !.pc = "get", !.op = "set", !.target = target,
                                          !.roles = rs]
    <3>4. record \in Call
      BY <1>1 DEF Call
    <3>5. /\ record.pc = "get" /\ record.op = "set" /\ record.target = target
          /\ record.roles = rs /\ record.tries = calls[c].tries /\ record.raced = calls[c].raced
      BY <1>1 DEF Call
    <3>6. Become(c, record)
      BY <3>2
    <3> HIDE DEF record
    <3> QED
      BY <3>2, <3>4, <3>5, <3>6
  <2>2. CASE CallReview(c)
    <3>1. PICK target \in Resolved, author \in Authors \cup {User} :
            Become(c, [calls[c] EXCEPT !.pc = "get", !.op = "review", !.target = target,
                                       !.author = author])
      BY <2>2 DEF CallReview
    <3> DEFINE record == [calls[c] EXCEPT !.pc = "get", !.op = "review", !.target = target,
                                          !.author = author]
    <3>2. record \in Call
      BY <1>1 DEF Call, States
    <3>3. /\ record.pc = "get" /\ record.op = "review" /\ record.target \in Resolved
          /\ record.tries = calls[c].tries /\ record.raced = calls[c].raced
      BY <1>1 DEF Call
    <3>4. Become(c, record)
      BY <3>1
    <3> HIDE DEF record
    <3> QED
      BY <3>2, <3>3, <3>4
  <2> QED
    BY <2>1, <2>2
<1>3. calls'[c] = record
  BY <1>2 DEF Become, IInv, TypeOK
<1>4. CallInv(c)'
  BY <1>1, <1>2, <1>3 DEF IInv, CallInv
<1> QED
  BY <1>1, <1>2, <1>4, BecomeKeeps

LEMMA GetKeeps ==
    ASSUME IInv, NEW c \in Calls, Get(c)
    PROVE  IInv'
<1> DEFINE record == [calls[c] EXCEPT !.pc = "swap", !.item = req]
<1>1. calls[c] \in Call /\ record \in Call
  BY DEF IInv, TypeOK, Get, Call
<1>2. calls'[c] = record /\ Become(c, record) /\ UNCHANGED <<now, made, req, decided, settled>>
  BY DEF Get, Become, IInv, TypeOK
<1>3. CallInv(c)'
  BY <1>1, <1>2 DEF Get, Allowed, IInv, RequestInv, CallInv, CanSet, CanSetState, CanReview, CanReviewRequest
<1> QED
  BY <1>1, <1>2, <1>3, BecomeKeeps

LEMMA RefusedKeeps ==
    ASSUME IInv, NEW c \in Calls, GetRefused(c) \/ CallFails(c)
    PROVE  IInv'
<1>1. calls'[c] = Done /\ Become(c, Done) /\ UNCHANGED <<now, made, req, decided, settled>>
  BY DEF GetRefused, CallFails, Become, IInv, TypeOK
<1> QED
  BY <1>1, FailedCall, BecomeKeeps

LEMMA SwapFailsKeeps ==
    ASSUME IInv, NEW c \in Calls, SwapFails(c)
    PROVE  IInv'
<1>1. /\ calls[c] \in Call /\ calls[c].pc = "swap" /\ req # calls[c].item
      /\ calls[c].tries < calls[c].raced /\ calls[c].tries < MaxAttempts
      /\ calls[c].tries \in Nat /\ calls[c].raced \in 0..MaxAttempts /\ MaxAttempts \in Nat
  BY RequestAssumption DEF SwapFails, Same, IInv, TypeOK, CallInv, Call
<1>2. /\ Again(calls[c]) \in Call /\ Again(calls[c]).tries = calls[c].tries + 1
      /\ Again(calls[c]).raced = calls[c].raced
      /\ Again(calls[c]).op = calls[c].op /\ Again(calls[c]).target = calls[c].target
      /\ Again(calls[c]).roles = calls[c].roles
      /\ Again(calls[c]).pc \in {"busy", "get"}
      /\ Again(calls[c]).pc = "get" => Again(calls[c]).tries < MaxAttempts
  <2>1. CASE calls[c].tries + 1 = MaxAttempts
    <3>1. Again(calls[c]) = [calls[c] EXCEPT !.pc = "busy", !.tries = MaxAttempts,
                                             !.item = NoRequest]
      BY <2>1 DEF Again
    <3>2. MaxAttempts \in 0..MaxAttempts
      BY <1>1
    <3> QED
      BY <1>1, <2>1, <3>1, <3>2 DEF Call
  <2>2. CASE calls[c].tries + 1 # MaxAttempts
    <3>1. Again(calls[c]) = [calls[c] EXCEPT !.pc = "get", !.tries = calls[c].tries + 1,
                                             !.item = NoRequest]
      BY <2>2 DEF Again
    <3>2. calls[c].tries + 1 \in 0..MaxAttempts /\ calls[c].tries + 1 < MaxAttempts
      BY <1>1, <2>2
    <3> QED
      BY <1>1, <3>1, <3>2 DEF Call
  <2> QED
    BY <2>1, <2>2
<1>3. calls'[c] = Again(calls[c]) /\ Become(c, Again(calls[c]))
      /\ UNCHANGED <<now, made, req, decided, settled>>
  BY DEF SwapFails, Become, IInv, TypeOK
<1>4. CallInv(c)'
  BY <1>1, <1>2, <1>3 DEF IInv, CallInv
<1> QED
  BY <1>2, <1>3, <1>4, BecomeKeeps

-----------------------------------------------------------------------------
(* What a call makes of a request *)

\* What setting the state makes of the request it has read.
LEMMA SetMakes ==
    ASSUME NEW c \in Calls, NEW r \in Request, Shaped(r), NEW call \in Call, CanSet(r, call)
    PROVE  LET new == Set(c, r, call) IN
           /\ new \in Request /\ Shaped(new) /\ Undecided(new, Len(new.reviews))
           /\ new.state = call.target /\ new.reviews = r.reviews
           /\ new.roles = IF call.roles # {} THEN call.roles ELSE r.roles
<1> DEFINE new == Set(c, r, call)
           expires == IF call.target = "APPROVED" THEN AccessTTL ELSE r.expires
           roles == IF call.roles # {} THEN call.roles ELSE r.roles
<1>1. new = [r EXCEPT !.state = call.target, !.reason = c, !.roles = roles, !.expires = expires]
  BY DEF Set
<1>2. /\ call.target \in States /\ roles \in SUBSET Roles /\ roles # {}
      /\ expires \in {PendingTTL, AccessTTL} /\ expires <= AccessTTL
      /\ call.target = "APPROVED" => expires = AccessTTL
  BY RequestAssumption DEF Request, Call, Shaped
<1> HIDE DEF roles, expires
<1>3. new \in Request
  BY <1>1, <1>2 DEF Request
<1>4. /\ new.state = call.target /\ new.roles = roles /\ new.expires = expires
      /\ new.reviews = r.reviews /\ new.thresholds = r.thresholds /\ new.asked = r.asked
  BY <1>1 DEF Request
<1> HIDE DEF new
<1>5. Shaped(new) /\ Undecided(new, Len(new.reviews))
  BY <1>2, <1>4 DEF Shaped, Undecided
<1> QED
  BY <1>3, <1>4, <1>5 DEF new, roles

\* What a review leaves: r is the request before, d and s are decided and settled.
Reviewed(r, call, d, s) ==
    LET new == Review(r, call)
        n == Len(r.reviews) + 1
        k == Deciding(new.asked, new.reviews) IN
    /\ new \in Request /\ Shaped(new) /\ Undecided(new, s)
    /\ k \in Nat /\ Decision(new, IF new.state # r.state THEN k ELSE d)
    /\ Len(new.reviews) = n
    /\ \A i \in 1..Len(r.reviews) : new.reviews[i] = r.reviews[i]
    /\ new.reviews[n].author = call.author /\ new.reviews[n].proposed = call.target
    /\ new.roles = r.roles
    /\ r.state # "PENDING" => new.state = r.state
    /\ call.author \in Authors
    /\ \A i \in 1..Len(r.reviews) : r.reviews[i].author # call.author

\* What a review makes of the request it has read.
LEMMA ReviewMakes ==
    ASSUME NEW r \in Request, Shaped(r), NEW s \in Nat,
           NEW d \in Nat, Decision(r, d),
           NEW call \in Call, CanReview(r, call), call.target \in Resolved
    PROVE  Reviewed(r, call, d, s)
<1> DEFINE review == [author |-> call.author, proposed |-> call.target,
                      tids |-> Indexes(call.author)]
           reviews == Append(r.reviews, review)
           k == Deciding(r.asked, reviews)
           decides == r.state = "PENDING" /\ k # 0
           new == Review(r, call)
           n == Len(r.reviews) + 1
<1>1. /\ r.reviews \in Reviews /\ r.asked \in SUBSET Roles /\ r.asked # {} /\ r.thresholds
      /\ r.roles \in SUBSET Roles
  BY DEF Request, Reviews, Shaped, CanReview
<1>2. review \in ReviewRecord /\ call.author \in Authors
  BY DEF Call, CanReview, CanReviewRequest, ReviewRecord, Indexes
<1> HIDE DEF review
<1>3. /\ reviews \in Reviews /\ Len(reviews) = n /\ reviews[n] = review
      /\ n - 1 = Len(r.reviews) /\ n \in 1..n
      /\ \A i \in 1..Len(r.reviews) : reviews[i] = r.reviews[i]
  BY <1>1, <1>2 DEF Reviews
<1>4. \A m \in 0..Len(r.reviews) :
        /\ Denied(reviews, m) <=> Denied(r.reviews, m)
        /\ Approved(r.asked, reviews, m) <=> Approved(r.asked, r.reviews, m)
  BY <1>1, <1>2, PrefixKept
<1> HIDE DEF reviews
<1>5. \/ /\ k = 0
         /\ \A m \in 1..n : ~Denied(reviews, m) /\ ~Approved(r.asked, reviews, m)
      \/ /\ k \in 1..n /\ reviews[k].proposed \in Resolved /\ reviews[k].author \in Authors
         /\ reviews[k].proposed = "APPROVED" =>
              Approved(r.asked, reviews, k) /\ ~Denied(reviews, k)
         /\ reviews[k].proposed = "DENIED" =>
              Denied(reviews, k) /\ ~Approved(r.asked, reviews, k)
  BY <1>1, <1>3, FirstDecides
<1> DEFINE state == reviews[k].proposed
           author == reviews[k].author
<1>6. new = IF decides
              THEN [r EXCEPT !.reviews = reviews, !.state = state, !.reason = author,
                             !.expires = AccessTTL]
              ELSE [r EXCEPT !.reviews = reviews]
  BY DEF Review, WithReview, review, reviews
<1>7. k \in Nat /\ (decides => state \in Resolved /\ author \in Authors /\ k \in 1..n)
  BY <1>5
<1> HIDE DEF state, author, k
<1>8. /\ new \in Request
      /\ new.reviews = reviews /\ new.roles = r.roles /\ new.asked = r.asked
      /\ new.thresholds = r.thresholds
      /\ new.state = IF decides THEN state ELSE r.state
      /\ new.expires = IF decides THEN AccessTTL ELSE r.expires
  <2>1. CASE decides
    <3>1. new = [r EXCEPT !.reviews = reviews, !.state = state, !.reason = author,
                          !.expires = AccessTTL]
      BY <1>6, <2>1
    <3>2. reviews \in Seq(ReviewRecord) /\ state \in Resolved /\ author \in Authors
      BY <1>3, <1>7, <2>1 DEF Reviews
    <3> HIDE DEF new, decides
    <3>3. new \in Request
      BY <3>1, <3>2 DEF Request, States
    <3> QED
      BY <2>1, <3>1, <3>3 DEF Request
  <2>2. CASE ~decides
    BY <1>3, <1>6, <2>2 DEF Request, Reviews
  <2> QED
    BY <2>1, <2>2
<1> HIDE DEF new
<1>a. review.author = call.author /\ review.proposed = call.target
      /\ review.tids = Indexes(call.author)
  BY DEF review
<1>b. \A i \in 1..Len(r.reviews) : r.reviews[i].author # call.author
  BY DEF CanReview
<1>c. \A i \in 1..n : i = n \/ i \in 1..Len(r.reviews)
  BY <1>3, <1>1 DEF Reviews
<1>9. Shaped(new)
  <2>1. \A i \in 1..Len(reviews) : r.thresholds /\ reviews[i].tids = Indexes(reviews[i].author)
    BY <1>1, <1>3, <1>a, <1>c DEF Shaped
  <2>2. \A i, j \in 1..Len(reviews) : reviews[i].author = reviews[j].author => i = j
    BY <1>3, <1>a, <1>b, <1>c DEF Shaped
  <2>3. /\ new.expires <= AccessTTL
        /\ new.state = "APPROVED" => new.expires = AccessTTL
    BY <1>1, <1>8, RequestAssumption DEF Shaped
  <2> QED
    BY <1>1, <1>8, <2>1, <2>2, <2>3 DEF Shaped
<1>10. Undecided(new, s)
  <2> SUFFICES ASSUME new.state = "PENDING"
               PROVE  \A m \in 1..n : ~Denied(reviews, m) /\ ~Approved(r.asked, reviews, m)
    BY <1>1, <1>3, <1>8 DEF Undecided
  <2>1. k = 0
    BY <1>7, <1>8 DEF Resolved
  <2> QED
    BY <1>5, <2>1
<1>11. Decision(new, IF new.state # r.state THEN k ELSE d)
  <2>1. CASE new.state # r.state
    <3>1. decides /\ new.state = state /\ k \in 1..n
      BY <1>7, <1>8, <2>1
    <3>2. /\ state = "APPROVED" => Approved(r.asked, reviews, k) /\ ~Denied(reviews, k)
          /\ state = "DENIED" => Denied(reviews, k) /\ ~Approved(r.asked, reviews, k)
      BY <1>5, <3>1 DEF state
    <3> QED
      BY <1>3, <1>8, <2>1, <3>1, <3>2 DEF Decision
  <2>2. CASE new.state = r.state
    <3>1. d # 0 => d \in 1..Len(r.reviews) /\ d \in 0..Len(r.reviews) /\ d \in 1..n
      BY <1>1, <1>3 DEF Decision, Reviews
    <3> QED
      BY <1>3, <1>4, <1>8, <2>2, <3>1 DEF Decision
  <2> QED
    BY <2>1, <2>2
<1>12. k = Deciding(new.asked, new.reviews)
  BY <1>8 DEF k
<1> QED
  BY <1>2, <1>3, <1>7, <1>8, <1>9, <1>10, <1>11, <1>12, <1>a, <1>b DEF new, Reviewed

\* A write of a call that sets a state.
SetStep(c) ==
    /\ calls[c].op = "set" /\ CanSet(req, calls[c])
    /\ req'.state = calls[c].target /\ req'.reviews = req.reviews
    /\ req'.roles = IF calls[c].roles # {} THEN calls[c].roles ELSE req.roles

\* A write of a call that reviews.
ReviewStep(c) ==
    /\ calls[c].op = "review" /\ calls[c].author \in Authors
    /\ Len(req'.reviews) = Len(req.reviews) + 1
    /\ \A i \in 1..Len(req.reviews) :
         req'.reviews[i] = req.reviews[i] /\ req.reviews[i].author # calls[c].author
    /\ req'.reviews[Len(req.reviews) + 1].author = calls[c].author
    /\ req'.reviews[Len(req.reviews) + 1].proposed = calls[c].target
    /\ req'.roles = req.roles
    /\ req.state # "PENDING" => req'.state = req.state

\* A swap that succeeds replaces what the call has read.
LEMMA SwapWrites ==
    ASSUME IInv, NEW c \in Calls, Swap(c)
    PROVE  /\ made /\ made' /\ now' = now
           /\ req \in Request /\ Shaped(req) /\ calls[c] \in Call
           /\ req' \in Request /\ Shaped(req')
           /\ settled' \in Nat /\ Undecided(req', settled')
           /\ decided' \in Nat /\ Decision(req', decided')
           /\ SetStep(c) \/ ReviewStep(c)
           /\ \E answer \in {[calls[c] EXCEPT !.pc = "ok", !.item = NoRequest, !.tries = 0,
                                              !.raced = 0], Done} :
                Write(req', [calls EXCEPT ![c] = answer])
<1>1. /\ calls[c] \in Call /\ calls[c].op \in {"set", "review"}
      /\ calls[c].pc = "swap" /\ req = calls[c].item
      /\ req # NoRequest /\ made /\ req \in Request
      /\ calls[c].op = "set" => CanSet(req, calls[c])
      /\ calls[c].op = "review" => CanReview(req, calls[c])
  BY DEF IInv, TypeOK, CallInv, Swap, Same, Call
<1>2. Shaped(req) /\ Decision(req, decided) /\ decided \in Nat /\ settled \in Nat
  BY <1>1 DEF IInv, TypeOK, RequestInv
<1>3. req' = NewItem(c) /\ now' = now /\ made'
  BY <1>1 DEF Swap, Write
<1>4. \E answer \in {[calls[c] EXCEPT !.pc = "ok", !.item = NoRequest, !.tries = 0,
                                      !.raced = 0], Done} :
        Write(req', [calls EXCEPT ![c] = answer])
  BY <1>3 DEF Swap
<1>5. CASE calls[c].op = "set"
  <2>1. req' = Set(c, req, calls[c])
    BY <1>1, <1>3, <1>5 DEF NewItem
  <2>2. decided' = 0 /\ settled' = Len(req'.reviews)
    BY <1>3, <1>5 DEF Swap
  <2>3. SetStep(c) /\ req' \in Request /\ Shaped(req') /\ Undecided(req', settled')
        /\ settled' \in Nat
    <3>1. /\ SetStep(c) /\ req' \in Request /\ Shaped(req')
          /\ Undecided(req', Len(req'.reviews))
      BY <1>1, <1>2, <1>5, <2>1, SetMakes DEF SetStep
    <3>2. Len(req'.reviews) \in Nat
      BY <3>1 DEF Request
    <3> QED
      BY <2>2, <3>1, <3>2
  <2>4. decided' \in Nat /\ Decision(req', decided')
    BY <2>2 DEF Decision
  <2> QED
    BY <1>1, <1>2, <1>3, <1>4, <2>3, <2>4
<1>6. CASE calls[c].op = "review"
  <2>1. req' = Review(req, calls[c])
    BY <1>1, <1>3, <1>6 DEF NewItem
  <2>s. settled' = settled
    BY <1>6 DEF Swap
  <2>2. /\ req' \in Request /\ Shaped(req') /\ Undecided(req', settled)
        /\ Deciding(req'.asked, req'.reviews) \in Nat
        /\ Decision(req', IF req'.state # req.state
                            THEN Deciding(req'.asked, req'.reviews) ELSE decided)
        /\ ReviewStep(c)
    <3>0. PICK r \in Request, call \in Call, d \in Nat, s \in Nat :
            r = req /\ call = calls[c] /\ d = decided /\ s = settled
      BY <1>1, <1>2
    <3>a. Shaped(r) /\ Decision(r, d) /\ CanReview(r, call) /\ call.target \in Resolved
      BY <1>1, <1>2, <1>6, <3>0 DEF IInv, CallInv
    <3>b. Reviewed(r, call, d, s)
      BY <3>a, ReviewMakes
    <3> DEFINE new == Review(req, calls[c])
               n == Len(req.reviews) + 1
               k == Deciding(new.asked, new.reviews)
    <3>1. /\ new \in Request /\ Shaped(new) /\ Undecided(new, settled)
          /\ k \in Nat /\ Decision(new, IF new.state # req.state THEN k ELSE decided)
          /\ Len(new.reviews) = n
          /\ \A i \in 1..Len(req.reviews) : new.reviews[i] = req.reviews[i]
          /\ new.reviews[n].author = calls[c].author /\ new.reviews[n].proposed = calls[c].target
          /\ new.roles = req.roles
          /\ req.state # "PENDING" => new.state = req.state
          /\ calls[c].author \in Authors
          /\ \A i \in 1..Len(req.reviews) : req.reviews[i].author # calls[c].author
      BY <3>0, <3>b DEF Reviewed
    <3>2. req' = new
      BY <2>1
    <3> HIDE DEF new
    <3> QED
      BY <1>6, <3>1, <3>2 DEF ReviewStep
  <2>3. decided' = IF req'.state # req.state
                     THEN Deciding(req'.asked, req'.reviews) ELSE decided
    <3>1. decided' = CASE calls[c].op = "set" -> 0
                       [] calls[c].op = "review" /\ NewItem(c).state # calls[c].item.state ->
                            Deciding(NewItem(c).asked, NewItem(c).reviews)
                       [] OTHER -> decided
      BY DEF Swap
    <3>2. CASE NewItem(c).state # calls[c].item.state
      BY <1>1, <1>3, <1>6, <3>1, <3>2
    <3>3. CASE NewItem(c).state = calls[c].item.state
      BY <1>1, <1>3, <1>6, <3>1, <3>3
    <3> QED
      BY <3>2, <3>3
  <2>4. decided' \in Nat /\ Decision(req', decided')
    BY <1>2, <2>2, <2>3
  <2> QED
    BY <1>1, <1>2, <1>3, <1>4, <2>2, <2>4, <2>s
<1> QED
  BY <1>1, <1>5, <1>6

LEMMA SwapKeeps ==
    ASSUME IInv, NEW c \in Calls, Swap(c)
    PROVE  IInv'
<1> DEFINE ok == [calls[c] EXCEPT !.pc = "ok", !.item = NoRequest, !.tries = 0, !.raced = 0]
<1>1. PICK answer \in {ok, Done} : Write(req', [calls EXCEPT ![c] = answer])
  BY SwapWrites
<1>2. /\ made /\ made' /\ req \in Request /\ req' \in Request
      /\ Shaped(req') /\ Undecided(req', settled') /\ decided' \in Nat
      /\ settled' \in Nat /\ Decision(req', decided') /\ now' = now
  BY SwapWrites
<1>3. req # NoRequest /\ req' # NoRequest
  BY <1>2, Distinct
<1>4. ok \in Call /\ Done \in Call /\ calls[c] \in Call
  <2>1. calls[c] \in Call /\ 0 \in 0..MaxAttempts
    BY RequestAssumption DEF IInv, TypeOK
  <2>2. ok \in Call
    BY <2>1 DEF Call
  <2>3. Done \in Call
    BY <2>1 DEF Call, Done, Resolved, States
  <2> QED
    BY <2>1, <2>2, <2>3
<1>5. /\ ok.pc = "ok" /\ ok.tries = 0 /\ ok.raced = 0 /\ ok.op = calls[c].op
      /\ ok.target = calls[c].target /\ ok.author = calls[c].author /\ ok.roles = calls[c].roles
  BY <1>4 DEF Call
<1> HIDE DEF ok
<1> DEFINE called == [calls EXCEPT ![c] = answer]
<1>6. called \in [Calls -> Call] /\ called[c] = answer
      /\ \A d \in Calls \ {c} : called[d] = calls[d]
  BY <1>4 DEF IInv, TypeOK
<1>7. Write(req', called)
  BY <1>1
<1> HIDE DEF called
<1>8. calls' \in [Calls -> Call]
  BY <1>2, <1>6, <1>7, WriteRaces
<1>9. TypeOK' /\ RequestInv'
  BY <1>2, <1>3, <1>8 DEF IInv, TypeOK, RequestInv
<1>10. /\ Len(req.reviews) <= Len(req'.reviews)
       /\ \A i \in 1..Len(req.reviews) : req'.reviews[i] = req.reviews[i]
  <2>1. req.reviews \in Seq(ReviewRecord) /\ req'.reviews \in Seq(ReviewRecord)
    BY <1>2 DEF Request
  <2>2. SetStep(c) \/ ReviewStep(c)
    BY SwapWrites
  <2>3. CASE SetStep(c)
    BY <2>1, <2>3 DEF SetStep
  <2>4. CASE ReviewStep(c)
    BY <2>1, <2>4 DEF ReviewStep
  <2> QED
    BY <2>2, <2>3, <2>4
<1>11. ASSUME NEW d \in Calls \ {c}
       PROVE  CallInv(d)'
  BY <1>2, <1>3, <1>6, <1>7, <1>10, <1>11, OthersKept DEF IInv
<1>12. /\ calls'[c].pc = answer.pc /\ calls'[c].op = answer.op
       /\ calls'[c].target = answer.target /\ calls'[c].roles = answer.roles
       /\ calls'[c].author = answer.author /\ calls'[c].tries = answer.tries
       /\ answer.pc # "swap" => calls'[c].raced = answer.raced
  BY <1>2, <1>6, <1>7, WriteRaces
<1>13. CallInv(c)'
  <2>1. CASE answer = Done
    BY <1>12, <2>1 DEF CallInv, Done
  <2>2. CASE answer = ok
    <3>1. calls[c].op = "review" =>
            \E i \in 1..Len(req'.reviews) : /\ req'.reviews[i].author = calls[c].author
                                            /\ req'.reviews[i].proposed = calls[c].target
      <4>1. SUFFICES ASSUME calls[c].op = "review"
                     PROVE  \E i \in 1..Len(req'.reviews) :
                              /\ req'.reviews[i].author = calls[c].author
                              /\ req'.reviews[i].proposed = calls[c].target
        OBVIOUS
      <4>2. ReviewStep(c)
        BY <4>1, SwapWrites DEF SetStep
      <4>3. Len(req.reviews) + 1 \in 1..Len(req'.reviews)
        BY <1>2, <4>2 DEF ReviewStep, Request
      <4> QED
        BY <4>2, <4>3 DEF ReviewStep
    <3>2. /\ calls[c].op = "set" /\ calls[c].target # "APPROVED" => calls[c].roles = {}
          /\ calls[c].op = "review" => calls[c].target \in Resolved
      BY DEF IInv, CallInv
    <3> QED
      BY <1>2, <1>5, <1>12, <2>2, <3>1, <3>2 DEF CallInv
  <2> QED
    BY <2>1, <2>2
<1> QED
  BY <1>9, <1>11, <1>13 DEF IInv

LEMMA StutterKeeps == ASSUME IInv, UNCHANGED vars PROVE IInv'
BY DEF vars, IInv, TypeOK, RequestInv, CallInv, CanSet, CanSetState, CanReview

LEMMA NextKeeps == IInv /\ [RequestNext]_vars => IInv'
<1> SUFFICES ASSUME IInv, [RequestNext]_vars
             PROVE  IInv'
  OBVIOUS
<1>1. ASSUME NEW c \in Calls, Step(c)
      PROVE  IInv'
  BY <1>1, CallKeeps, GetKeeps, RefusedKeeps, SwapKeeps, SwapFailsKeeps DEF Step
<1> QED
  BY <1>1, CreateKeeps, DeleteKeeps, TickKeeps, StutterKeeps DEF RequestNext

\* The inductive invariant of the handlers (SetAccessRequestState, ApplyAccessReview):
\* what a call is about to write, it may.
THEOREM IInvHolds == RequestSpec => []IInv
BY InitInv, NextKeeps, PTL DEF RequestSpec

-----------------------------------------------------------------------------
(* What it all comes to *)

\* The request, the handlers and the history stay in their types.
THEOREM TypeCorrect == RequestSpec => []TypeOK
<1>1. IInv => TypeOK
  BY DEF IInv
<1> QED
  BY <1>1, IInvHolds, PTL

\* Reviews decide a pending request as soon as enough different users have said
\* so, and only then (calculateReviewBasedResolution and ApplyAccessReview): the
\* counts of reviews it goes by are those of users, and none is overlooked, also
\* after an administrator has set it back to PENDING.
THEOREM ReviewsDecide == RequestSpec => []DecidedByReviews
<1>1. IInv => DecidedByReviews
  <2> SUFFICES ASSUME IInv
               PROVE  DecidedByReviews
    OBVIOUS
  <2>1. CASE req = NoRequest
    BY <2>1, Distinct DEF IInv, RequestInv, DecidedByReviews
  <2>2. CASE req # NoRequest
    <3>1. /\ req \in Request /\ Shaped(req) /\ Undecided(req, settled) /\ Decision(req, decided)
      BY <2>2 DEF IInv, TypeOK, RequestInv
    <3>2. /\ req.reviews \in Reviews /\ req.asked \in SUBSET Roles
          /\ Len(req.reviews) \in Nat
      BY <3>1 DEF Request, Reviews
    <3>3. \A k \in 0..Len(req.reviews) :
            /\ EnoughDenials(k) <=> Denied(req.reviews, k)
            /\ EnoughApprovals(k) <=> Approved(req.asked, req.reviews, k)
      BY <3>1, <3>2, EnoughIsDecided
    <3>4. req.state = "PENDING" /\ Len(req.reviews) # settled =>
            ~EnoughDenials(Len(req.reviews)) /\ ~EnoughApprovals(Len(req.reviews))
      <4> SUFFICES ASSUME req.state = "PENDING", Len(req.reviews) # settled
                   PROVE  /\ ~Denied(req.reviews, Len(req.reviews))
                          /\ ~Approved(req.asked, req.reviews, Len(req.reviews))
        BY <3>2, <3>3
      <4>1. CASE Len(req.reviews) = 0
        BY <3>1, <3>2, <4>1, NothingYet DEF Shaped, Undecided
      <4>2. CASE Len(req.reviews) # 0
        BY <3>1, <3>2, <4>2 DEF Undecided
      <4> QED
        BY <4>1, <4>2
    <3>5. decided # 0 => decided \in 0..Len(req.reviews)
      BY <3>1, <3>2 DEF Decision
    <3> QED
      BY <3>1, <3>3, <3>4, <3>5 DEF Decision, DecidedByReviews
  <2> QED
    BY <2>1, <2>2
<1> QED
  BY <1>1, IInvHolds, PTL

\* No write undoes an acknowledged review, and nobody has reviewed twice
\* (CompareAndSwap and CanReviewRequest).
THEOREM ReviewsStay == RequestSpec => []ReviewsKept
<1>1. IInv => ReviewsKept
  <2> SUFFICES ASSUME IInv
               PROVE  ReviewsKept
    OBVIOUS
  <2>1. \A i, j \in 1..Len(req.reviews) : req.reviews[i].author = req.reviews[j].author => i = j
    <3>1. CASE req = NoRequest
      BY <3>1, Distinct
    <3>2. CASE req # NoRequest
      BY <3>2 DEF IInv, RequestInv, Shaped
    <3> QED
      BY <3>1, <3>2
  <2> QED
    BY <2>1 DEF IInv, CallInv, ReviewsKept
<1> QED
  BY <1>1, IInvHolds, PTL

\* An approved request lives as long as the access it gives, no other for
\* longer (SetExpiry of SetAccessRequestState and ApplyAccessReview).
THEOREM ExpiryIsRight == RequestSpec => []ExpiryMatches
<1>1. IInv => ExpiryMatches
  BY Distinct DEF IInv, RequestInv, Shaped, ExpiryMatches
<1> QED
  BY <1>1, IInvHolds, PTL

\* A call that starts again has lost to another write each time
\* (maxCmpAttempts).
THEOREM RetriesAreOwed == RequestSpec => []Progress
<1>1. IInv => Progress
  BY DEF IInv, CallInv, Progress
<1> QED
  BY <1>1, IInvHolds, PTL

-----------------------------------------------------------------------------
(* The handlers implement what the callers are promised *)

status == IF req # NoRequest THEN req.state ELSE IF made THEN "gone" ELSE "none"
reviewers == {req.reviews[i].author : i \in 1..Len(req.reviews)}

\* Without a request there are no reviews to remember.
LEMMA NobodyReviewed == req = NoRequest => reviewers = {}
BY Distinct DEF reviewers

\* Handlers that do not write are not seen from outside.
LEMMA LifeStutters ==
    ASSUME req' = req, made' = made
    PROVE  UNCHANGED Life!lifeVars
BY DEF Life!lifeVars

\* A write of a handler is a decision, a review, or repeats a decision.
LEMMA SwapIsLife ==
    ASSUME IInv, NEW c \in Calls, Swap(c)
    PROVE  Life!LifeNext \/ UNCHANGED Life!lifeVars
<1>1. /\ req \in Request /\ req' \in Request /\ Shaped(req) /\ calls[c] \in Call
      /\ SetStep(c) \/ ReviewStep(c)
  BY SwapWrites
<1>2. /\ req # NoRequest /\ req' # NoRequest
      /\ req.state \in {"PENDING", "APPROVED", "DENIED"}
      /\ req'.state \in {"PENDING", "APPROVED", "DENIED"}
      /\ req.roles \in SUBSET Roles /\ req.roles # {}
      /\ req.reviews \in Seq(ReviewRecord) /\ req'.reviews \in Seq(ReviewRecord)
  BY <1>1, Distinct DEF Request, Resolved, States, Shaped
<1>3. CASE SetStep(c)
  <2>1. /\ calls[c].target \in {"PENDING", "APPROVED", "DENIED"} /\ req'.state = calls[c].target
        /\ req.state = "DENIED" => calls[c].target = "DENIED"
        /\ req'.reviews = req.reviews
        /\ calls[c].roles \subseteq req.roles
        /\ req'.roles = IF calls[c].roles # {} THEN calls[c].roles ELSE req.roles
    BY <1>1, <1>3 DEF SetStep, CanSet, CanSetState, Call, Resolved, States
  <2>2. calls[c].target # "APPROVED" => calls[c].roles = {}
    BY <1>3 DEF SetStep, IInv, CallInv
  <2>3. CASE calls[c].target = "APPROVED"
    <3>1. Life!Approve
      <4>1. req'.roles \in SUBSET req.roles /\ req'.roles # {} /\ req'.state = "APPROVED"
            /\ req.state \in {"PENDING", "APPROVED"}
        BY <1>2, <2>1, <2>3
      <4> QED
        BY <1>2, <2>1, <4>1 DEF Life!Approve
    <3> QED
      BY <3>1 DEF Life!LifeNext
  <2>4. CASE calls[c].target = "DENIED" /\ req.state # "DENIED"
    <3>1. Life!Deny
      BY <1>2, <2>1, <2>2, <2>4 DEF Life!Deny
    <3> QED
      BY <3>1 DEF Life!LifeNext
  <2>5. CASE calls[c].target # "APPROVED" /\ req.state = calls[c].target
    BY <1>2, <2>1, <2>2, <2>5 DEF Life!lifeVars
  <2>6. CASE calls[c].target = "PENDING" /\ req.state # "PENDING"
    <3>1. Life!Reopen
      BY <1>2, <2>1, <2>2, <2>6 DEF Life!Reopen
    <3> QED
      BY <3>1 DEF Life!LifeNext
  <2> QED
    BY <2>1, <2>3, <2>4, <2>5, <2>6
<1>4. CASE ReviewStep(c)
  <2> DEFINE n == Len(req.reviews) + 1
             author == calls[c].author
  <2>1. /\ n \in 1..n /\ \A i \in 1..n : i = n \/ i \in 1..Len(req.reviews)
        /\ \A i \in 1..Len(req.reviews) : i \in 1..n
    BY <1>2
  <2>2. reviewers' = reviewers \cup {author}
    BY <1>4, <2>1 DEF ReviewStep, reviewers
  <2>3. author \in Authors \ reviewers
    BY <1>4 DEF ReviewStep, reviewers
  <2>4. /\ req'.roles = req.roles
        /\ req.state # "PENDING" => req'.state = req.state
    BY <1>4 DEF ReviewStep
  <2>5. Life!Review
    BY <1>2, <2>2, <2>3, <2>4 DEF Life!Review, reviewers
  <2> QED
    BY <2>5 DEF Life!LifeNext
<1> QED
  BY <1>1, <1>3, <1>4

\* A request that is deleted or expires vanishes.
LEMMA VanishIsLife ==
    ASSUME IInv, req # NoRequest, Write(NoRequest, calls), made' = made
    PROVE  Life!LifeNext
<1>1. req' = NoRequest /\ made /\ req.state \in {"PENDING", "APPROVED", "DENIED"}
  BY DEF Write, IInv, TypeOK, RequestInv, Request, Resolved, States
<1>2. Life!Vanish
  BY <1>1, Distinct DEF Life!Vanish
<1> QED
  BY <1>2 DEF Life!LifeNext

\* A request that is created begins its life.
LEMMA CreateIsLife ==
    ASSUME IInv, NEW state \in States, NEW wanted \in SUBSET Roles,
           CreateAccessRequest(state, wanted)
    PROVE  Life!LifeNext
<1>1. ~made /\ req = NoRequest /\ wanted # {}
  BY DEF CreateAccessRequest, IInv, RequestInv
<1>2. /\ req'.state = state /\ req'.roles = wanted /\ req'.reviews = <<>>
      /\ made'
  BY DEF CreateAccessRequest, Write
<1>3. req' # NoRequest
  BY <1>1, <1>2, Distinct
<1>4. Life!Submit
  <2>1. state \in {"PENDING", "APPROVED", "DENIED"} /\ wanted \in (SUBSET Roles) \ {{}}
    BY <1>1 DEF Resolved, States
  <2>2. reviewers = {} /\ reviewers' = {}
    BY <1>1, <1>2, Distinct DEF reviewers
  <2> QED
    BY <1>1, <1>2, <1>3, <2>1, <2>2, Distinct DEF Life!Submit, reviewers
<1> QED
  BY <1>4 DEF Life!LifeNext

\* Whatever races, retries and lost answers there are, a caller sees a request
\* that is denied for good, that reviews decide only while nothing is decided,
\* whose roles are only narrowed, and by an approval, and whose reviews are not
\* lost or made twice (SetAccessRequestState and ApplyAccessReview of the two
\* services).
THEOREM LifeImplemented == RequestSpec => Implements
<1>1. RequestInit => Life!LifeInit
  BY Distinct DEF RequestInit, Life!LifeInit
<1>2. IInv /\ [RequestNext]_vars => [Life!LifeNext]_Life!lifeVars
  <2> SUFFICES ASSUME IInv, [RequestNext]_vars
               PROVE  Life!LifeNext \/ UNCHANGED Life!lifeVars
    OBVIOUS
  <2>1. CASE DeleteAccessRequest
    BY <2>1, VanishIsLife DEF DeleteAccessRequest
  <2>2. CASE Tick
    BY <2>2, VanishIsLife, LifeStutters DEF Tick
  <2>3. ASSUME NEW c \in Calls, Step(c)
        PROVE  Life!LifeNext \/ UNCHANGED Life!lifeVars
    <3>1. CASE Swap(c)
      BY <3>1, SwapIsLife
    <3>2. CASE CallSet(c) \/ CallReview(c) \/ Get(c) \/ GetRefused(c) \/ SwapFails(c) \/ CallFails(c)
      BY <3>2, LifeStutters DEF CallSet, CallReview, Get, GetRefused, SwapFails, CallFails
    <3> QED
      BY <2>3, <3>1, <3>2 DEF Step
  <2>4. CASE UNCHANGED vars
    BY <2>4, LifeStutters DEF vars
  <2> QED
    BY <2>1, <2>2, <2>3, <2>4, CreateIsLife DEF RequestNext
<1> QED
  BY <1>1, <1>2, IInvHolds, PTL DEF RequestSpec, Implements, Life!LifeSpec
=============================================================================
