--------------------------- MODULE AccessRequest ---------------------------
(***************************************************************************)
(* Access requests: CreateAccessRequest, SetAccessRequestState,            *)
(* ApplyAccessReview and DeleteAccessRequest of                            *)
(* lib/services/local/dynamic_access.go and lib/auth/auth.go, with the     *)
(* application of reviews in lib/services/access_request.go and the        *)
(* resource of api/types/access_request.go.                                *)
(*                                                                         *)
(* One request.  A call is a handler in some auth server: it reads the     *)
(* request, works out what becomes of it and compares and swaps, again     *)
(* from the start when another write came first.  Expired items vanish     *)
(* from the backend by themselves.  A reason stands for all that a         *)
(* decision records besides the state: it is the call of the administrator *)
(* or the author of the review that gave it.                               *)
(***************************************************************************)
EXTENDS Naturals, FiniteSets, Sequences

CONSTANTS
    Calls,          \* calls that decide or review
    NoCall,         \* no reason is given
    User,           \* the user who asks
    Authors,        \* users who submit reviews
    Roles,          \* roles that can be requested
    Thresholds,     \* the thresholds of the request, in order
    Sets,           \* for each role, the sets of indexes of thresholds
    MaxAttempts,    \* times a call tries (maxCmpAttempts)
    PendingTTL,     \* how long a pending request lasts (PendingAccessDuration)
    AccessTTL       \* until when the access lasts

\* A role that has no thresholds gets a default one.
ASSUME RequestAssumption ==
    /\ NoCall \notin Calls \cup Authors /\ User \notin Authors
    /\ IsFiniteSet(Authors) /\ Roles # {}
    /\ Thresholds \in Seq([approve : Nat, deny : Nat, filter : SUBSET Authors])
    /\ Len(Thresholds) > 0
    /\ Sets \in [Roles -> SUBSET SUBSET (1..Len(Thresholds))]
    /\ \A role \in Roles : Sets[role] # {} /\ {} \notin Sets[role]
    /\ MaxAttempts \in Nat \ {0}
    /\ PendingTTL \in Nat \ {0} /\ AccessTTL \in Nat \ {0}

VARIABLES
    now,        \* the clock
    made,       \* the request has been submitted
    req,        \* the request in the backend
    calls,      \* handlers at work
    decided,    \* history: which of its reviews has decided it, 0 if none has, or
                \* an administrator set its state later
    settled     \* history: how many reviews there were when an administrator last
                \* set its state

vars == <<now, made, req, calls, decided, settled>>

-----------------------------------------------------------------------------
Resolved == {"APPROVED", "DENIED"}
States == {"PENDING"} \cup Resolved

\* thresholds: the request has thresholds, it can be reviewed; asked: the keys
\* of the role-threshold mapping.
ReviewRecord == [author : Authors, proposed : Resolved,
                 tids : SUBSET (1..Len(Thresholds))]
Request == [state : States, roles : SUBSET Roles,
            asked : SUBSET Roles, thresholds : BOOLEAN,
            reason : Calls \cup Authors \cup {NoCall},
            reviews : Seq(ReviewRecord), expires : {PendingTTL, AccessTTL}]
NoRequest == [state |-> "NONE", roles |-> {}, asked |-> {}, thresholds |-> FALSE,
              reason |-> NoCall, reviews |-> <<>>, expires |-> 0]

\* roles: those of an approval, {} to leave them as they are; raced (history):
\* how many writes came between what the call read and what it writes.
Call == [pc : {"idle", "get", "swap", "ok", "err", "busy"}, op : {"set", "review"},
         target : States, roles : SUBSET Roles, author : Authors \cup {User},
         tries : 0..MaxAttempts, raced : 0..MaxAttempts, item : Request \cup {NoRequest}]

\* A call that has failed.
Done == [pc |-> "err", op |-> "set", target |-> "DENIED", roles |-> {},
         author |-> User, tries |-> 0, raced |-> 0, item |-> NoRequest]

TypeOK ==
    /\ now \in 0..AccessTTL
    /\ made \in BOOLEAN
    /\ req \in Request \cup {NoRequest}
    /\ calls \in [Calls -> Call]
    /\ decided \in Nat
    /\ settled \in Nat

RequestInit ==
    /\ now = 0
    /\ made = FALSE
    /\ req = NoRequest
    /\ calls = [c \in Calls |-> [Done EXCEPT !.pc = "idle"]]
    /\ decided = 0
    /\ settled = 0

Write(new, called) ==
    /\ req' = new
    /\ calls' = [c \in Calls |->
           IF called[c].pc = "swap" /\ called[c].raced < MaxAttempts
             THEN [called[c] EXCEPT !.raced = @ + 1] ELSE called[c]]

-----------------------------------------------------------------------------
\* CreateAccessRequest: a pending request gets thresholds, and expires before
\* the access it asks for if nobody decides it.  The clock starts with it.
CreateAccessRequest(state, wanted) ==
    LET pending == state = "PENDING"
    IN  /\ ~made /\ wanted # {} /\ now = 0
        /\ made' = TRUE
        /\ Write([state |-> state, roles |-> wanted, thresholds |-> pending,
                  asked |-> IF pending THEN wanted ELSE {},
                  reason |-> NoCall, reviews |-> <<>>,
                  expires |-> IF pending /\ PendingTTL < AccessTTL
                                THEN PendingTTL ELSE AccessTTL], calls)
        /\ UNCHANGED <<now, decided, settled>>

DeleteAccessRequest ==
    /\ req # NoRequest
    /\ Write(NoRequest, calls)
    /\ decided' = 0 /\ settled' = 0
    /\ UNCHANGED <<now, made>>

\* The backend removes an expired item with the next operation on it.  Nothing
\* is left when the access is over.
Tick ==
    /\ now < AccessTTL
    /\ now' = now + 1
    /\ IF req # NoRequest /\ req.expires <= now'
         THEN Write(NoRequest, calls) /\ decided' = 0 /\ settled' = 0
         ELSE UNCHANGED <<req, calls, decided, settled>>
    /\ UNCHANGED made

-----------------------------------------------------------------------------
\* Mutant: the last word wins.
CanSetStateAnyhow(item, state) == TRUE

\* SetState: only a denial is for good, an approved request may be set back to
\* PENDING.
CanSetState(item, state) == item.state = "DENIED" => state = "DENIED"

\* SetAccessRequestState: overrides are a subset of the role list.
CanSet(item, call) == CanSetState(item, call.target) /\ call.roles \subseteq item.roles

Set(c, item, call) ==
    [item EXCEPT !.state = call.target, !.reason = c,
                 !.roles = IF call.roles # {} THEN call.roles ELSE @,
                 !.expires = IF call.target = "APPROVED" THEN AccessTTL ELSE @]

-----------------------------------------------------------------------------
\* CanReviewRequest: nobody reviews a request of their own.
CanReviewRequest(call) == call.author # User

\* checkReviewCompat
CanReview(item, call) ==
    /\ CanReviewRequest(call)
    /\ item.thresholds
    /\ \A i \in 1..Len(item.reviews) : item.reviews[i].author # call.author

\* collectReviewThresholdIndexes: the thresholds whose filter matches.
Indexes(author) == {t \in 1..Len(Thresholds) : author \in Thresholds[t].filter}

\* The counts of calculateReviewBasedResolution after k reviews.
Tally(reviews, k, t, state) ==
    Cardinality({i \in 1..k : reviews[i].proposed = state /\ t \in reviews[i].tids})

\* A denial threshold is hit.
Denied(reviews, k) ==
    \E t \in 1..Len(Thresholds) :
        /\ Thresholds[t].deny # 0
        /\ Tally(reviews, k, t, "DENIED") >= Thresholds[t].deny

\* Mutant: one role that has its approvals is enough.
ApprovedOne(asked, reviews, k) ==
    \E role \in asked : \A tset \in Sets[role] : \E t \in tset :
        /\ Thresholds[t].approve # 0
        /\ Tally(reviews, k, t, "APPROVED") >= Thresholds[t].approve

\* For every role every set has a threshold that is hit.
Approved(asked, reviews, k) ==
    \A role \in asked : \A tset \in Sets[role] : \E t \in tset :
        /\ Thresholds[t].approve # 0
        /\ Tally(reviews, k, t, "APPROVED") >= Thresholds[t].approve

Triggers(asked, reviews) ==
    {k \in 1..Len(reviews) : Denied(reviews, k) \/ Approved(asked, reviews, k)}

\* calculateReviewBasedResolution: the reviews are gone through in order, up
\* to the first that triggers something, and that one decides; 0 if none does.
Deciding(asked, reviews) ==
    LET triggers == Triggers(asked, reviews)
        first == CHOOSE k \in triggers : \A other \in triggers : k <= other
    IN  IF /\ triggers # {}
           /\ reviews[first].proposed = "APPROVED" => Approved(asked, reviews, first)
           /\ reviews[first].proposed = "DENIED" => Denied(reviews, first)
          THEN first ELSE 0

\* ApplyAccessReview of lib/services: the review is stored, and the reviews may
\* decide a request that is pending.
WithReview(item, call) ==
    Append(item.reviews, [author |-> call.author, proposed |-> call.target,
                          tids |-> Indexes(call.author)])

Review(item, call) ==
    LET reviews == WithReview(item, call)
        k == Deciding(item.asked, reviews)
    IN  IF item.state = "PENDING" /\ k # 0
          THEN [item EXCEPT !.reviews = reviews, !.state = reviews[k].proposed,
                            !.reason = reviews[k].author, !.expires = AccessTTL]
          ELSE [item EXCEPT !.reviews = reviews]

-----------------------------------------------------------------------------
Become(c, record) == calls' = [calls EXCEPT ![c] = record]

\* A caller sets a state, with other roles only if it approves, or submits a
\* review.
CallSet(c) ==
    /\ calls[c].pc = "idle"
    /\ \E target \in States :
       \E rs \in IF target = "APPROVED" THEN SUBSET Roles ELSE {{}} :
         Become(c, [calls[c] EXCEPT !.pc = "get", !.op = "set", !.target = target,
                                    !.roles = rs])
    /\ UNCHANGED <<now, made, req, decided, settled>>

CallReview(c) ==
    /\ calls[c].pc = "idle"
    /\ \E target \in Resolved, author \in Authors \cup {User} :
         Become(c, [calls[c] EXCEPT !.pc = "get", !.op = "review", !.target = target,
                                    !.author = author])
    /\ UNCHANGED <<now, made, req, decided, settled>>

Allowed(call) == IF call.op = "set" THEN CanSet(req, call) ELSE CanReview(req, call)

\* The request is there and the call may change it.
Get(c) ==
    /\ calls[c].pc = "get" /\ req # NoRequest
    /\ Allowed(calls[c])
    /\ Become(c, [calls[c] EXCEPT !.pc = "swap", !.item = req])
    /\ UNCHANGED <<now, made, req, decided, settled>>

GetRefused(c) ==
    /\ calls[c].pc = "get"
    /\ req = NoRequest \/ ~Allowed(calls[c])
    /\ Become(c, Done)
    /\ UNCHANGED <<now, made, req, decided, settled>>

NewItem(c) ==
    LET call == calls[c]
    IN  IF call.op = "set" THEN Set(c, call.item, call) ELSE Review(call.item, call)

\* Mutant: an update that does not compare.
Unchanged(c) == req # NoRequest

\* CompareAndSwap: the item is what was read.
Same(c) == req = calls[c].item

\* Its answer may be lost.
Swap(c) ==
    LET new == NewItem(c)
        call == calls[c]
    IN  /\ call.pc = "swap" /\ Same(c)
        /\ decided' = CASE call.op = "set" -> 0
                        [] call.op = "review" /\ new.state # call.item.state ->
                             Deciding(new.asked, new.reviews)
                        [] OTHER -> decided
        /\ settled' = IF call.op = "set" THEN Len(new.reviews) ELSE settled
        /\ \E answer \in {[call EXCEPT !.pc = "ok", !.item = NoRequest, !.tries = 0,
                                       !.raced = 0], Done} :
             Write(new, [calls EXCEPT ![c] = answer])
        /\ UNCHANGED <<now, made>>

\* Mutant: the item is not read again.
AgainBlind(call) ==
    IF call.tries + 1 = MaxAttempts THEN [call EXCEPT !.pc = "busy", !.tries = MaxAttempts]
    ELSE [call EXCEPT !.pc = "swap", !.tries = @ + 1]

\* Another write came first: from the start, a bounded number of times.
Again(call) ==
    IF call.tries + 1 = MaxAttempts THEN [call EXCEPT !.pc = "busy", !.tries = MaxAttempts,
                                                   !.item = NoRequest]
    ELSE [call EXCEPT !.pc = "get", !.tries = @ + 1, !.item = NoRequest]

SwapFails(c) ==
    /\ calls[c].pc = "swap" /\ ~Same(c)
    /\ Become(c, Again(calls[c]))
    /\ UNCHANGED <<now, made, req, decided, settled>>

\* The context of the call is done, or the backend answers with an error.
CallFails(c) ==
    /\ calls[c].pc \in {"get", "swap"}
    /\ Become(c, Done)
    /\ UNCHANGED <<now, made, req, decided, settled>>

Step(c) ==
    \/ CallSet(c) \/ CallReview(c)
    \/ Get(c) \/ GetRefused(c)
    \/ Swap(c) \/ SwapFails(c) \/ CallFails(c)

RequestNext ==
    \/ \E state \in States, wanted \in SUBSET Roles :
         CreateAccessRequest(state, wanted)
    \/ DeleteAccessRequest \/ Tick
    \/ \E c \in Calls : Step(c)

RequestSpec == RequestInit /\ [][RequestNext]_vars

-----------------------------------------------------------------------------
\* How many authors have proposed a state among the first k reviews, of those
\* whom a threshold counts.
Voices(k, t, state) ==
    Cardinality({author \in Thresholds[t].filter :
        \E i \in 1..k : req.reviews[i].author = author /\ req.reviews[i].proposed = state})

EnoughDenials(k) ==
    \E t \in 1..Len(Thresholds) :
        Thresholds[t].deny # 0 /\ Voices(k, t, "DENIED") >= Thresholds[t].deny

EnoughApprovals(k) ==
    \A role \in req.asked : \A tset \in Sets[role] : \E t \in tset :
        Thresholds[t].approve # 0 /\ Voices(k, t, "APPROVED") >= Thresholds[t].approve

\* Reviews decide a request as soon as, and only if, enough different users whom
\* the thresholds count have said so (ApplyAccessReview): whatever races for it, no
\* review leaves a pending request with enough of them, and one that its reviews
\* have decided had what it needed, and nothing against it, at the review that
\* decided it.  An administrator may set it back to PENDING all the same
\* (SetAccessRequestState); it then waits for the next review.
DecidedByReviews ==
    /\ req.state = "PENDING" /\ Len(req.reviews) # settled =>
         LET all == Len(req.reviews) IN ~EnoughDenials(all) /\ ~EnoughApprovals(all)
    /\ decided # 0 =>
         /\ req.state = "APPROVED" => EnoughApprovals(decided) /\ ~EnoughDenials(decided)
         /\ req.state = "DENIED" => EnoughDenials(decided) /\ ~EnoughApprovals(decided)

\* A review that was acknowledged stays, whatever is written after it, and
\* nobody has reviewed twice.
ReviewsKept ==
    /\ \A c \in Calls :
         calls[c].pc = "ok" /\ calls[c].op = "review" /\ req # NoRequest =>
             \E i \in 1..Len(req.reviews) :
                 /\ req.reviews[i].author = calls[c].author
                 /\ req.reviews[i].proposed = calls[c].target
    /\ \A i, j \in 1..Len(req.reviews) :
         req.reviews[i].author = req.reviews[j].author => i = j

\* An approved request lives as long as the access it gives, and any other
\* one no longer ("in order to limit orphaned access requests").
ExpiryMatches ==
    /\ req.state = "APPROVED" => req.expires = AccessTTL
    /\ req # NoRequest => req.expires <= AccessTTL

\* A call starts again only because another one has gone through: if any is
\* turned away as busy, MaxAttempts others were written.
Progress == \A c \in Calls : calls[c].tries <= calls[c].raced

\* What the callers are promised.
Life == INSTANCE RequestLife WITH
    status <- IF req # NoRequest THEN req.state ELSE IF made THEN "gone" ELSE "none",
    roles <- req.roles,
    reviewers <- {req.reviews[i].author : i \in 1..Len(req.reviews)}

\* The handlers, their races, retries and lost answers implement it.
Implements == Life!LifeSpec
=============================================================================
