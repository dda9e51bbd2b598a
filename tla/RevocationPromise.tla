--------------------------- MODULE RevocationPromise ---------------------------
(***************************************************************************)
(* What token revocation promises to its callers, with no cache, no        *)
(* database round trips and no failures in sight.                          *)
(*                                                                         *)
(* Every user has one revocation limit, which only ever moves forward.  A  *)
(* request presents a token and, in one indivisible step, gets a verdict.  *)
(* A "revoked" verdict is never wrong: the token was issued before the     *)
(* limit in force at that step.  When Prompt is TRUE a "valid" verdict is  *)
(* never wrong either; when it is FALSE the verdict may lag behind the     *)
(* limit, and a revoked token may still be called valid.                   *)
(***************************************************************************)
EXTENDS Integers

CONSTANTS
    Users,      \* user ids
    Requests,   \* concurrent authenticated requests
    Times,      \* the instants a limit or an issue time can be
    Null,       \* no limit: the user never revoked anything
    Prompt      \* TRUE: verdicts follow the limit; FALSE: they may lag

VARIABLES
    limit,      \* limit[u]: tokens of u issued before it are revoked
    asked,      \* asked[r]: the token under scrutiny, Null when idle
    verdict     \* verdict[r]: "none", "valid" or "revoked"

vars == <<limit, asked, verdict>>

Question == [user : Users, iat : Times]

Covered(q) == limit[q.user] # Null /\ q.iat < limit[q.user]

PromiseInit ==
    /\ limit = [u \in Users |-> Null]
    /\ asked = [r \in Requests |-> Null]
    /\ verdict = [r \in Requests |-> "none"]

Revoke(u, t) ==
    /\ limit[u] = Null \/ limit[u] < t
    /\ limit' = [limit EXCEPT ![u] = t]
    /\ UNCHANGED <<asked, verdict>>

Ask(r, q) ==
    /\ asked[r] = Null
    /\ asked' = [asked EXCEPT ![r] = q]
    /\ UNCHANGED <<limit, verdict>>

Judge(r, v) ==
    /\ asked[r] # Null
    /\ verdict[r] = "none"
    /\ v = "revoked" => Covered(asked[r])
    /\ (Prompt /\ v = "valid") => ~Covered(asked[r])
    /\ verdict' = [verdict EXCEPT ![r] = v]
    /\ UNCHANGED <<limit, asked>>

\* The response is out, or the server died before it could be sent.
Leave(r) ==
    /\ asked[r] # Null
    /\ asked' = [asked EXCEPT ![r] = Null]
    /\ verdict' = [verdict EXCEPT ![r] = "none"]
    /\ UNCHANGED limit

PromiseNext ==
    \/ \E u \in Users, t \in Times : Revoke(u, t)
    \/ \E r \in Requests :
          \/ \E q \in Question : Ask(r, q)
          \/ \E v \in {"valid", "revoked"} : Judge(r, v)
          \/ Leave(r)

PromiseSpec == PromiseInit /\ [][PromiseNext]_vars

================================================================================
