------------------------------ MODULE RateLimiter ------------------------------
(***************************************************************************)
(* The request counter of server/bredis/bredis.go (CheckRateLimit and      *)
(* ResetRateLimit) and its two users: the per-address middleware, which    *)
(* only checks, and Login, which checks a per-name key and resets it after *)
(* a successful login.                                                     *)
(*                                                                         *)
(* A check is an INCR, followed by an EXPIRE when the INCR returned 1.     *)
(* Nothing makes the two atomic: other requests, on this server or on      *)
(* another one that shares the Redis, run in between, and the process or   *)
(* the connection may fail in between.  The TTL call of a denied request   *)
(* only fills the Retry-After header and is left out.                      *)
(***************************************************************************)
EXTENDS Integers, Functions

CONSTANTS
    Keys,        \* counters: "rl:ip:<address>" and "rl:login:user:<name>"
    LoginKeys,   \* those of them that a successful login resets
    Requests,    \* goroutines serving requests
    Limit,       \* requests admitted per key
    Window,      \* time to live of a key, in ticks
    Faults       \* which of "refused", "lost" and "crash" can happen

\* "refused": a Redis command fails without being executed; "lost": it is
\* executed and its reply is lost; "crash": the process dies between two calls.
ASSUME RateLimiterAssumption ==
    /\ LoginKeys \subseteq Keys
    /\ Limit \in Nat \ {0}
    /\ Window \in Nat \ {0}
    /\ Faults \subseteq {"refused", "lost", "crash"}

VARIABLES
    count,     \* count[k]: the counter in Redis, 0 when there is no key
    ttl,       \* ttl[k]: its remaining time to live, 0 when it has none
    pc,        \* pc[r]: what request r does next
    key,       \* key[r]: the counter it was checked against last
    \* History variables: the program does not keep these.
    recent,    \* recent[k][a]: requests counted and admitted a ticks ago
    broken     \* broken[k]: a fault left the counter without a deadline

vars == <<count, ttl, pc, key, recent, broken>>

Ages == 0 .. (Window - 1)

\* Only "greater than Limit" matters, so the counter stops one above it.
CountCap == Limit + 1

Init ==
    /\ count = [k \in Keys |-> 0]
    /\ ttl = [k \in Keys |-> 0]
    /\ pc = [r \in Requests |-> "idle"]
    /\ key \in [Requests -> Keys]
    /\ recent = [k \in Keys |-> [a \in Ages |-> 0]]
    /\ broken = [k \in Keys |-> FALSE]

Tick ==
    /\ count' = [k \in Keys |-> IF ttl[k] = 1 THEN 0 ELSE count[k]]
    /\ ttl' = [k \in Keys |-> IF ttl[k] = 0 THEN 0 ELSE ttl[k] - 1]
    /\ broken' = [k \in Keys |-> broken[k] /\ ttl[k] # 1]
    /\ recent' = [k \in Keys |->
           [a \in Ages |-> IF a = 0 THEN 0 ELSE recent[k][a - 1]]]
    /\ UNCHANGED <<pc, key>>

--------------------------------------------------------------------------------
(* CheckRateLimit                                                          *)

Goto(r, label) == pc' = [pc EXCEPT ![r] = label]

\* INCR creates a missing key, without a time to live.
Bump(k) == count' = [count EXCEPT ![k] = IF @ = CountCap THEN @ ELSE @ + 1]

Admit(k) == recent' = [recent EXCEPT ![k][0] = @ + 1]

\* A slip: the count before the increment is held against the limit.
IncrBeforeCheck(r, k) ==
    /\ pc[r] = "idle"
    /\ key' = [key EXCEPT ![r] = k]
    /\ Bump(k)
    /\ IF count[k] <= Limit
       THEN Admit(k) /\ Goto(r, IF count[k] = 0 THEN "expire" ELSE "allowed")
       ELSE UNCHANGED recent /\ Goto(r, "denied")
    /\ UNCHANGED <<ttl, broken>>

\* A slip: the window is opened by the request that fills the budget.
IncrExpireLate(r, k) ==
    /\ pc[r] = "idle"
    /\ key' = [key EXCEPT ![r] = k]
    /\ Bump(k)
    /\ IF count[k] < Limit
       THEN Admit(k) /\ Goto(r, IF count'[k] = Limit THEN "expire" ELSE "allowed")
       ELSE UNCHANGED recent /\ Goto(r, "denied")
    /\ UNCHANGED <<ttl, broken>>

\* A slip: every request renews the time to live.
IncrExpireAlways(r, k) ==
    /\ pc[r] = "idle"
    /\ key' = [key EXCEPT ![r] = k]
    /\ Bump(k)
    /\ IF count[k] < Limit THEN Admit(k) ELSE UNCHANGED recent
    /\ Goto(r, "expire")
    /\ UNCHANGED <<ttl, broken>>

\* The verdict follows from the value INCR returned.  A request whose INCR
\* failed is let through, counted or not.
Incr(r, k) ==
    /\ pc[r] = "idle"
    /\ key' = [key EXCEPT ![r] = k]
    /\ \/ /\ Bump(k)
          /\ IF count[k] < Limit
             THEN Admit(k) /\ Goto(r, IF count[k] = 0 THEN "expire" ELSE "allowed")
             ELSE UNCHANGED recent /\ Goto(r, "denied")
          /\ UNCHANGED broken
       \/ /\ "refused" \in Faults
          /\ Goto(r, "allowed")
          /\ UNCHANGED <<count, recent, broken>>
       \/ /\ "lost" \in Faults
          /\ Bump(k)
          /\ broken' = [broken EXCEPT ![k] = @ \/ count[k] = 0]
          /\ Goto(r, "allowed")
          /\ UNCHANGED recent
    /\ UNCHANGED ttl

\* A slip: the window is one tick too long.
ExpireLonger(r) ==
    LET k == key[r] IN
    /\ pc[r] = "expire"
    /\ ttl' = [ttl EXCEPT ![k] = IF count[k] = 0 THEN 0 ELSE Window + 1]
    /\ Goto(r, "allowed")
    /\ UNCHANGED <<count, key, recent, broken>>

\* EXPIRE does nothing when the key is gone; its error is ignored.
Expire(r) ==
    LET k == key[r] IN
    /\ pc[r] = "expire"
    /\ \/ ttl' = [ttl EXCEPT ![k] = IF count[k] = 0 THEN 0 ELSE Window] /\ UNCHANGED broken
       \/ /\ "refused" \in Faults
          /\ broken' = [broken EXCEPT ![k] = count[k] # 0]
          /\ UNCHANGED ttl
    /\ Goto(r, "allowed")
    /\ UNCHANGED <<count, key, recent>>

--------------------------------------------------------------------------------
(* The callers                                                             *)

\* 429, or a response that leaves the counter alone: any handler behind the
\* middleware, or a login with a wrong name or password.
Serve(r) ==
    /\ pc[r] \in {"allowed", "denied"}
    /\ Goto(r, "idle")
    /\ UNCHANGED <<count, ttl, key, recent, broken>>

\* A successful login deletes its counter; an error is ignored.
ResetRateLimit(r) ==
    LET k == key[r] IN
    /\ pc[r] = "allowed"
    /\ k \in LoginKeys
    /\ \/ /\ count' = [count EXCEPT ![k] = 0]
          /\ ttl' = [ttl EXCEPT ![k] = 0]
          /\ broken' = [broken EXCEPT ![k] = FALSE]
          /\ recent' = [recent EXCEPT ![k] = [a \in Ages |-> 0]]
       \/ "refused" \in Faults /\ UNCHANGED <<count, ttl, recent, broken>>
    /\ Goto(r, "idle")
    /\ UNCHANGED key

Crash(r) ==
    /\ "crash" \in Faults
    /\ pc[r] # "idle"
    /\ Goto(r, "idle")
    /\ broken' = [broken EXCEPT ![key[r]] =
           @ \/ (pc[r] = "expire" /\ count[key[r]] # 0)]
    /\ UNCHANGED <<count, ttl, key, recent>>

Next ==
    \/ Tick
    \/ \E r \in Requests :
          \/ \E k \in Keys : Incr(r, k)
          \/ Expire(r)
          \/ Serve(r)
          \/ ResetRateLimit(r)
          \/ Crash(r)

Spec == Init /\ [][Next]_vars

\* Time passes, and a handler that has done its INCR goes on to its EXPIRE: the
\* client library bounds every Redis call by a timeout.
FairSpec ==
    /\ Spec
    /\ WF_vars(Tick)
    /\ \A r \in Requests : WF_vars(Expire(r))

--------------------------------------------------------------------------------
(* Safety                                                                  *)

\* Every variable has its type; a key that is not there has no time to live.
TypeOK ==
    /\ count \in [Keys -> 0 .. CountCap]
    /\ ttl \in [Keys -> 0 .. Window]
    /\ pc \in [Requests -> {"idle", "expire", "allowed", "denied"}]
    /\ key \in [Requests -> Keys]
    /\ recent \in [Keys -> [Ages -> Nat]]
    /\ broken \in [Keys -> BOOLEAN]
    /\ \A k \in Keys : count[k] = 0 => ttl[k] = 0

\* A fixed window lets at most twice the limit through in any Window ticks that
\* follow one another, across the expiry of the key, late EXPIREs, resets by
\* other requests and failures.  Requests whose INCR failed are not counted.
WindowBudget == \A k \in Keys : SumFunction(recent[k]) <= 2 * Limit

\* A counter without a time to live never frees its key.  Whenever there is one,
\* the request that will give it a deadline is on its way, unless a fault hit
\* that very request between its two calls.
CounterHasDeadline ==
    \A k \in Keys :
        (count[k] # 0 /\ ttl[k] = 0 /\ ~broken[k]) =>
            \E r \in Requests : pc[r] = "expire" /\ key[r] = k

\* The window of an address ends when the first request of it said: none that
\* comes later, in whatever order the two calls of several requests are executed
\* and whichever of them fail, moves the deadline back.  A login's counter is deleted
\* between the calls of others, whose late EXPIRE may fall into the next window.
WindowIsFixed ==
    [][\A k \in Keys \ LoginKeys : ttl[k] # 0 => ttl'[k] <= ttl[k]]_vars

--------------------------------------------------------------------------------
(* Liveness                                                                *)

\* The next request for k would be turned away.
Locked(k) == count[k] >= Limit

\* A key that is used up becomes usable again, however many requests keep
\* arriving meanwhile; only a counter that lost its deadline to a fault stays.
LockoutEnds == \A k \in Keys : []<>(~Locked(k) \/ broken[k])

\* The same with no exception: "5 attempts per 15 minutes".
EveryLockoutEnds == \A k \in Keys : []<>~Locked(k)

================================================================================
