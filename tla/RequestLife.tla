---------------------------- MODULE RequestLife ----------------------------
(***************************************************************************)
(* What an access request promises to those who ask, review and decide:    *)
(* a denial is for good, reviews decide only while nothing is decided, the *)
(* roles are only narrowed, and by an approval, nobody reviews twice and   *)
(* no review is lost.  An approval is not for good: an administrator may   *)
(* deny the request later, or set it back to PENDING.                      *)
(* (SetAccessRequestState and ApplyAccessReview of                         *)
(* lib/services/local/dynamic_access.go as their callers see them.)        *)
(***************************************************************************)
CONSTANTS
    Roles,      \* roles that can be requested
    Authors     \* users who review

VARIABLES
    status,     \* "none", "PENDING", "APPROVED", "DENIED" or "gone"
    roles,      \* the roles the request is for
    reviewers   \* users who have reviewed it

lifeVars == <<status, roles, reviewers>>

LifeInit == status = "none" /\ roles = {} /\ reviewers = {}

Submit ==
    /\ status = "none"
    /\ status' \in {"PENDING", "APPROVED", "DENIED"}
    /\ roles' \in (SUBSET Roles) \ {{}}
    /\ UNCHANGED reviewers

\* A review may decide a pending request; later ones have no effect.
Review ==
    /\ status \in {"PENDING", "APPROVED", "DENIED"}
    /\ \E author \in Authors \ reviewers : reviewers' = reviewers \cup {author}
    /\ status' \in IF status = "PENDING" THEN {"PENDING", "APPROVED", "DENIED"}
                                         ELSE {status}
    /\ UNCHANGED roles

Approve ==
    /\ status \in {"PENDING", "APPROVED"}
    /\ status' = "APPROVED"
    /\ roles' \in (SUBSET roles) \ {{}}
    /\ UNCHANGED reviewers

Deny ==
    /\ status \in {"PENDING", "APPROVED"}
    /\ status' = "DENIED"
    /\ UNCHANGED <<roles, reviewers>>

\* An approval is taken back, and reviews may decide again.
Reopen ==
    /\ status = "APPROVED"
    /\ status' = "PENDING"
    /\ UNCHANGED <<roles, reviewers>>

Vanish ==
    /\ status \in {"PENDING", "APPROVED", "DENIED"}
    /\ status' = "gone" /\ roles' = {} /\ reviewers' = {}

LifeNext == Submit \/ Review \/ Approve \/ Deny \/ Reopen \/ Vanish

LifeSpec == LifeInit /\ [][LifeNext]_lifeVars
=============================================================================
