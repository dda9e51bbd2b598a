------------------------------ MODULE HealthCheck ------------------------------
(***************************************************************************)
(* GET /health (HealthCheck in server/models/auth/handler.go) while the    *)
(* process that answers it starts, drains, closes its stores and dies.     *)
(* The handler asks the database and then Redis; the two answers are of    *)
(* different moments.                                                      *)
(***************************************************************************)
EXTENDS Lifecycle

VARIABLES
    asking,   \* asking[r]: what the check r does next
    report,   \* report[r]: health["status"] so far
    redis,    \* redis[r]: health["redis"]
    \* History variable: the program does not keep it.
    failed    \* failed[r]: a ping of r failed by itself

checks     == <<asking, report, redis, failed>>
healthVars == <<lifecycle, checks>>

Blank ==
    /\ asking = [r \in Requests |-> "idle"]
    /\ report = [r \in Requests |-> "UP"]
    /\ redis = [r \in Requests |-> "OK"]
    /\ failed = [r \in Requests |-> FALSE]

HealthInit == LifecycleInit /\ Blank

\* The checks of R are over, answered or not.
Finish(R) ==
    /\ asking' = [r \in Requests |-> IF r \in R THEN "idle" ELSE asking[r]]
    /\ report' = [r \in Requests |-> IF r \in R THEN "UP" ELSE report[r]]
    /\ redis' = [r \in Requests |-> IF r \in R THEN "OK" ELSE redis[r]]
    /\ failed' = [r \in Requests |-> r \notin R /\ failed[r]]

Goto(r, label) == asking' = [asking EXCEPT ![r] = label] /\ UNCHANGED lifecycle

Check(r, s) ==
    /\ Accept(r, s)
    /\ asking' = [asking EXCEPT ![r] = "db"]
    /\ UNCHANGED <<report, redis, failed>>

\* A ping of an open store may fail, one of a closed store does.
Ping(r, isOpen, ok, down) ==
    \/ isOpen /\ ok /\ UNCHANGED <<report, failed>>
    \/ /\ isOpen
       /\ down
       /\ report' = [report EXCEPT ![r] = "DEGRADED"]
       /\ failed' = [failed EXCEPT ![r] = TRUE]
    \/ ~isOpen /\ down /\ report' = [report EXCEPT ![r] = "DEGRADED"] /\ UNCHANGED failed

PingDb(r) ==
    /\ asking[r] = "db"
    /\ Ping(r, DbOpen(at[r]), TRUE, TRUE)
    /\ Goto(r, "redis")
    /\ UNCHANGED redis

\* A slip: a client that is nil counts as one that does not answer.
PingRedisNilIsDown(r) ==
    /\ asking[r] = "redis"
    /\ Ping(r, RedisOpen(at[r]), UNCHANGED redis, redis' = [redis EXCEPT ![r] = "DOWN"])
    /\ Goto(r, "answer")

\* Without a client Redis is DISABLED, and the process is UP.
PingRedis(r) ==
    /\ asking[r] = "redis"
    /\ \/ /\ client[at[r]]
          /\ Ping(r, RedisOpen(at[r]), UNCHANGED redis, redis' = [redis EXCEPT ![r] = "DOWN"])
       \/ /\ ~client[at[r]]
          /\ redis' = [redis EXCEPT ![r] = "DISABLED"]
          /\ UNCHANGED <<report, failed>>
    /\ Goto(r, "answer")

\* Always 200, with the report.
Report(r) == asking[r] = "answer" /\ Answer(r) /\ Finish({r})

HealthNext ==
    \/ \E s \in Servers :
          \/ /\ \/ Start(s) \/ Listen(s) \/ Signal(s)
                \/ Pass(s) \/ HttpStopped(s) \/ CloseRedis(s) \/ CloseDb(s)
             /\ UNCHANGED checks
          \/ (Exit(s) \/ Kill(s)) /\ Finish(Running(s))
    \/ \E r \in Requests :
          \/ \E s \in Servers : Check(r, s)
          \/ PingDb(r)
          \/ PingRedis(r)
          \/ Report(r)

HealthSpec == HealthInit /\ [][HealthNext]_healthVars

--------------------------------------------------------------------------------

\* A process reports DEGRADED only when a store did not answer a ping of that very
\* check, or when the 30 seconds of a shutdown were over: draining alone, or having
\* started without Redis, does not make it so; the latter shows as DISABLED.
DegradedForAReason ==
    \A r \in Requests :
        asking[r] = "answer" =>
            /\ report[r] = "DEGRADED" => failed[r] \/ Overdue(at[r])
            /\ redis[r] = "DISABLED" <=> ~client[at[r]]

================================================================================
