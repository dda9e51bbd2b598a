---------------------------- MODULE ServerPartsProofs ----------------------------
(***************************************************************************)
(* Theorems about the parts of the server beside its main services:        *)
(* HealthCheck, for any servers and requests and any length of the         *)
(* shutdown's context; Validation, for any characters and limits;          *)
(* Configuration, for any ports, keys and durations.                       *)
(***************************************************************************)
EXTENDS HealthCheck, Validation, Configuration, FiniteSetTheorems, SequenceTheorems,
        WellFoundedInduction, TLAPS

--------------------------------------------------------------------------------
(* GET /health                                                             *)

\* The steps of a process that move no request.
ServerStep(s) ==
    /\ \/ Start(s) \/ Listen(s) \/ Signal(s)
       \/ Pass(s) \/ HttpStopped(s) \/ CloseRedis(s) \/ CloseDb(s)
    /\ UNCHANGED checks

\* The steps that end a process and every check it serves.
EndStep(s) == (Exit(s) \/ Kill(s)) /\ Finish(Running(s))

\* Every step is one of these.
LEMMA NextCases ==
    ASSUME HealthNext
    PROVE  \/ \E s \in Servers : ServerStep(s) \/ EndStep(s)
           \/ \E r \in Requests, s \in Servers : Check(r, s)
           \/ \E r \in Requests : PingDb(r) \/ PingRedis(r) \/ Report(r)
  BY DEF HealthNext, ServerStep, EndStep

--------------------------------------------------------------------------------
(* Types                                                                   *)

\* A check is under way exactly at the requests that a process serves.
TypeOK ==
    /\ LifecycleTypeOK
    /\ asking \in [Requests -> {"idle", "db", "redis", "answer"}]
    /\ report \in [Requests -> {"UP", "DEGRADED"}]
    /\ redis \in [Requests -> {"OK", "DOWN", "DISABLED"}]
    /\ failed \in [Requests -> BOOLEAN]
    /\ \A r \in Requests : asking[r] = "idle" <=> at[r] = Null

LEMMA TypeInit == HealthInit => TypeOK
  BY LifecycleAssumption DEF HealthInit, LifecycleInit, Blank, TypeOK, LifecycleTypeOK

LEMMA TypeServer ==
    ASSUME TypeOK, NEW s \in Servers, ServerStep(s)
    PROVE  TypeOK'
<1> USE LifecycleAssumption DEF TypeOK, LifecycleTypeOK, ServerStep, checks
<1>1. CASE Start(s)
  BY <1>1 DEF Start
<1>2. CASE Listen(s)
  BY <1>2 DEF Listen
<1>3. CASE Signal(s)
  BY <1>3 DEF Signal
<1>4. CASE Pass(s)
  BY <1>4 DEF Pass
<1>5. CASE HttpStopped(s) \/ CloseRedis(s) \/ CloseDb(s)
  BY <1>5 DEF HttpStopped, CloseRedis, CloseDb
<1> QED
  BY <1>1, <1>2, <1>3, <1>4, <1>5

\* What the end of a process leaves.
LEMMA EndEffect ==
    ASSUME TypeOK, NEW s \in Servers, EndStep(s)
    PROVE  /\ \A q \in Servers \ {s} :
                 /\ phase'[q] = phase[q] /\ http'[q] = http[q]
                 /\ client'[q] = client[q] /\ left'[q] = left[q]
           /\ \A r \in Requests :
                 \/ /\ at'[r] = Null /\ asking'[r] = "idle" /\ report'[r] = "UP"
                    /\ redis'[r] = "OK" /\ ~failed'[r]
                 \/ /\ at[r] # s /\ at'[r] = at[r] /\ asking'[r] = asking[r]
                    /\ report'[r] = report[r] /\ redis'[r] = redis[r]
                    /\ failed'[r] <=> failed[r]
<1>1. Gone(s) /\ Finish(Running(s))
  BY DEF EndStep, Exit, Kill
<1>2. \A q \in Servers \ {s} :
         /\ phase'[q] = phase[q] /\ http'[q] = http[q]
         /\ client'[q] = client[q] /\ left'[q] = left[q]
  BY <1>1 DEF Gone
<1>3. \A r \in Requests : at'[r] = (IF at[r] = s THEN Null ELSE at[r])
  BY <1>1 DEF Gone
<1>4. \A r \in Requests : failed'[r] <=> (at[r] # s /\ failed[r])
  BY <1>1 DEF Finish, Running
<1>5. \A r \in Requests :
         /\ asking'[r] = (IF at[r] = s THEN "idle" ELSE asking[r])
         /\ report'[r] = (IF at[r] = s THEN "UP" ELSE report[r])
         /\ redis'[r] = (IF at[r] = s THEN "OK" ELSE redis[r])
  BY <1>1 DEF Finish, Running
<1> QED
  BY <1>2, <1>3, <1>4, <1>5

LEMMA TypeEnd ==
    ASSUME TypeOK, NEW s \in Servers, EndStep(s)
    PROVE  TypeOK'
<1>1. Gone(s) /\ Finish(Running(s))
  BY DEF EndStep, Exit, Kill
<1>2. LifecycleTypeOK'
  <2> USE DEF TypeOK, LifecycleTypeOK
  <2>1. phase' \in [Servers -> {"down", "up", "draining", "drained",
                                "redisClosed", "dbClosed"}]
    BY <1>1 DEF Gone
  <2>2. http' \in [Servers -> {"none", "starting", "listening", "closed"}]
    BY <1>1 DEF Gone
  <2>3. client' \in [Servers -> BOOLEAN]
    BY <1>1 DEF Gone
  <2>4. left' \in [Servers -> 0 .. Drain] /\ at' \in [Requests -> Servers \cup {Null}]
    BY <1>1, LifecycleAssumption DEF Gone
  <2> QED
    BY <2>1, <2>2, <2>3, <2>4
<1>3. failed' \in [Requests -> BOOLEAN]
  BY <1>1 DEF Finish
<1>4. /\ asking' \in [Requests -> {"idle", "db", "redis", "answer"}]
      /\ report' \in [Requests -> {"UP", "DEGRADED"}]
      /\ redis' \in [Requests -> {"OK", "DOWN", "DISABLED"}]
  BY <1>1 DEF Finish, TypeOK
<1>5. \A r \in Requests : asking'[r] = "idle" <=> at'[r] = Null
  BY EndEffect DEF TypeOK
<1> QED
  BY <1>2, <1>3, <1>4, <1>5 DEF TypeOK

LEMMA TypeCheck ==
    ASSUME TypeOK, NEW r \in Requests, NEW s \in Servers, Check(r, s)
    PROVE  TypeOK'
  BY LifecycleAssumption DEF TypeOK, LifecycleTypeOK, Check, Accept

LEMMA TypePing ==
    ASSUME TypeOK, NEW r \in Requests, PingDb(r) \/ PingRedis(r)
    PROVE  TypeOK'
<1>1. /\ UNCHANGED lifecycle
      /\ \/ asking[r] = "db" /\ asking' = [asking EXCEPT ![r] = "redis"]
         \/ asking[r] = "redis" /\ asking' = [asking EXCEPT ![r] = "answer"]
  BY DEF PingDb, PingRedis, Goto
<1>2. report' = report \/ report' = [report EXCEPT ![r] = "DEGRADED"]
  BY DEF PingDb, PingRedis, Ping
<1>3. failed' = failed \/ failed' = [failed EXCEPT ![r] = TRUE]
  BY DEF PingDb, PingRedis, Ping
<1>4. \/ redis' = redis
      \/ redis' = [redis EXCEPT ![r] = "DOWN"]
      \/ redis' = [redis EXCEPT ![r] = "DISABLED"]
  BY DEF PingDb, PingRedis, Ping
<1>5. failed' \in [Requests -> BOOLEAN]
  BY <1>3 DEF TypeOK
<1> QED
  BY <1>1, <1>2, <1>4, <1>5 DEF TypeOK, LifecycleTypeOK, lifecycle

\* What an answer leaves.
LEMMA ReportEffect ==
    ASSUME TypeOK, NEW r \in Requests, Report(r)
    PROVE  /\ UNCHANGED <<phase, http, client, left>>
           /\ at'[r] = Null /\ asking'[r] = "idle" /\ report'[r] = "UP"
           /\ redis'[r] = "OK" /\ ~failed'[r]
           /\ \A q \in Requests \ {r} :
                 /\ at'[q] = at[q] /\ asking'[q] = asking[q]
                 /\ report'[q] = report[q] /\ redis'[q] = redis[q]
                 /\ failed'[q] <=> failed[q]
<1>1. UNCHANGED <<phase, http, client, left>> /\ at' = [at EXCEPT ![r] = Null]
  BY DEF Report, Answer
<1>2. \A q \in Requests : failed'[q] <=> (q # r /\ failed[q])
  BY DEF Report, Finish
<1>3. \A q \in Requests :
         /\ asking'[q] = (IF q = r THEN "idle" ELSE asking[q])
         /\ report'[q] = (IF q = r THEN "UP" ELSE report[q])
         /\ redis'[q] = (IF q = r THEN "OK" ELSE redis[q])
  BY DEF Report, Finish
<1> QED
  BY <1>1, <1>2, <1>3 DEF TypeOK, LifecycleTypeOK

LEMMA TypeReport ==
    ASSUME TypeOK, NEW r \in Requests, Report(r)
    PROVE  TypeOK'
<1>1. LifecycleTypeOK'
  BY DEF TypeOK, LifecycleTypeOK, Report, Answer
<1>2. failed' \in [Requests -> BOOLEAN]
  BY DEF Report, Finish
<1>3. /\ asking' \in [Requests -> {"idle", "db", "redis", "answer"}]
      /\ report' \in [Requests -> {"UP", "DEGRADED"}]
      /\ redis' \in [Requests -> {"OK", "DOWN", "DISABLED"}]
  BY DEF Report, Finish, TypeOK
<1>4. \A q \in Requests : asking'[q] = "idle" <=> at'[q] = Null
  BY ReportEffect DEF TypeOK
<1> QED
  BY <1>1, <1>2, <1>3, <1>4 DEF TypeOK

--------------------------------------------------------------------------------
(* The processes                                                           *)

\* A server listens only before it is told to stop, and a request is at a
\* process that lives.
Placed ==
    /\ \A s \in Servers : http[s] = "listening" => phase[s] = "up"
    /\ \A r \in Requests : at[r] # Null => phase[at[r]] # "down"

ProcessInv == Placed /\ GracefulStop

LEMMA ProcessInit == HealthInit => ProcessInv
  BY DEF HealthInit, LifecycleInit, ProcessInv, Placed, GracefulStop

LEMMA ProcessServer ==
    ASSUME TypeOK, ProcessInv, NEW s \in Servers, ServerStep(s)
    PROVE  ProcessInv'
<1> USE LifecycleAssumption
    DEF TypeOK, LifecycleTypeOK, ProcessInv, Placed, GracefulStop, Overdue
<1>1. CASE Start(s)
  BY <1>1 DEF Start
<1>2. CASE Listen(s)
  BY <1>2 DEF Listen
<1>3. CASE Signal(s)
  BY <1>3 DEF Signal
<1>4. CASE Pass(s)
  BY <1>4 DEF Pass
<1>5. CASE HttpStopped(s)
  BY <1>5 DEF HttpStopped, Running
<1>6. CASE CloseRedis(s)
  BY <1>6 DEF CloseRedis
<1>7. CASE CloseDb(s)
  BY <1>7 DEF CloseDb
<1> QED
  BY <1>1, <1>2, <1>3, <1>4, <1>5, <1>6, <1>7 DEF ServerStep

LEMMA ProcessEnd ==
    ASSUME TypeOK, ProcessInv, NEW s \in Servers, EndStep(s)
    PROVE  ProcessInv'
  BY LifecycleAssumption
  DEF TypeOK, LifecycleTypeOK, ProcessInv, Placed, GracefulStop, Overdue,
      EndStep, Exit, Kill, Gone

LEMMA ProcessRequest ==
    ASSUME TypeOK, ProcessInv, NEW r \in Requests,
           \/ \E s \in Servers : Accept(r, s)
           \/ Answer(r)
           \/ UNCHANGED lifecycle
    PROVE  ProcessInv'
  BY LifecycleAssumption
  DEF TypeOK, LifecycleTypeOK, ProcessInv, Placed, GracefulStop, Overdue, Accept,
      Answer, lifecycle

--------------------------------------------------------------------------------
(* The reports                                                             *)

\* A store is closed under a check only when its process is overdue.
LEMMA ClosedIsOverdue ==
    ASSUME TypeOK, ProcessInv, NEW r \in Requests, at[r] # Null
    PROVE  /\ ~DbOpen(at[r]) => Overdue(at[r])
           /\ client[at[r]] /\ ~RedisOpen(at[r]) => Overdue(at[r])
  BY LifecycleAssumption
  DEF TypeOK, LifecycleTypeOK, ProcessInv, GracefulStop, DbOpen, RedisOpen

\* The report is spoiled for a reason from the first ping on, and what it says of
\* Redis is written in the last one.
Explained(r) ==
    /\ report[r] = "DEGRADED" => at[r] # Null /\ (failed[r] \/ Overdue(at[r]))
    /\ asking[r] # "answer" => redis[r] = "OK"
    /\ asking[r] = "answer" => (redis[r] = "DISABLED" <=> ~client[at[r]])

Reports == \A r \in Requests : Explained(r)

LEMMA ReportsServer ==
    ASSUME TypeOK, ProcessInv, Reports, NEW s \in Servers, ServerStep(s)
    PROVE  Reports'
<1> SUFFICES ASSUME NEW r \in Requests PROVE Explained(r)'
  BY DEF Reports
<1>1. /\ UNCHANGED at /\ asking' = asking /\ report' = report /\ redis' = redis
      /\ failed' = failed
  BY DEF ServerStep, Start, Listen, Signal, Pass, HttpStopped, CloseRedis, CloseDb,
         checks
<1>2. CASE at[r] = Null
  BY <1>1, <1>2 DEF Reports, Explained, TypeOK
<1>3. CASE at[r] # Null
  <2>1. at[r] \in Servers /\ phase[at[r]] # "down"
    BY <1>3 DEF TypeOK, LifecycleTypeOK, ProcessInv, Placed
  <2>2. client'[at[r]] = client[at[r]]
    BY <2>1 DEF ServerStep, Start, Listen, Signal, Pass, HttpStopped, CloseRedis,
                CloseDb, TypeOK, LifecycleTypeOK
  <2>3. Overdue(at[r]) => phase'[at[r]] \notin {"down", "up"} /\ left'[at[r]] = 0
    BY <2>1, LifecycleAssumption
    DEF Overdue, TypeOK, LifecycleTypeOK, ServerStep, Start, Listen, Signal, Pass,
        HttpStopped, CloseRedis, CloseDb
  <2> QED
    BY <1>1, <2>2, <2>3 DEF Reports, Explained, Overdue
<1> QED
  BY <1>2, <1>3

LEMMA ReportsEnd ==
    ASSUME TypeOK, Reports, NEW s \in Servers, EndStep(s)
    PROVE  Reports'
<1> SUFFICES ASSUME NEW r \in Requests PROVE Explained(r)'
  BY DEF Reports
<1>1. CASE /\ at'[r] = Null /\ asking'[r] = "idle" /\ report'[r] = "UP"
           /\ redis'[r] = "OK" /\ ~failed'[r]
  BY <1>1 DEF Explained
<1>2. CASE /\ at[r] # s /\ at'[r] = at[r] /\ asking'[r] = asking[r]
           /\ report'[r] = report[r] /\ redis'[r] = redis[r]
           /\ failed'[r] <=> failed[r]
  <2>1. at[r] = Null \/ at[r] \in Servers \ {s}
    BY <1>2 DEF TypeOK, LifecycleTypeOK
  <2>2. at[r] # Null =>
           /\ phase'[at[r]] = phase[at[r]] /\ left'[at[r]] = left[at[r]]
           /\ client'[at[r]] = client[at[r]]
    BY <2>1, EndEffect
  <2> QED
    BY <1>2, <2>2 DEF Reports, Explained, Overdue, TypeOK
<1> QED
  BY <1>1, <1>2, EndEffect

LEMMA ReportsCheck ==
    ASSUME TypeOK, Reports, NEW r \in Requests, NEW s \in Servers, Check(r, s)
    PROVE  Reports'
<1>1. /\ UNCHANGED <<phase, left, client, report, redis, failed>>
      /\ at[r] = Null /\ at' = [at EXCEPT ![r] = s]
      /\ asking' = [asking EXCEPT ![r] = "db"]
  BY DEF Check, Accept
<1>2. Explained(r)'
  BY <1>1 DEF Reports, Explained, TypeOK, LifecycleTypeOK
<1>3. ASSUME NEW q \in Requests \ {r} PROVE Explained(q)'
  BY <1>1 DEF Reports, Explained, Overdue, TypeOK, LifecycleTypeOK
<1> QED
  BY <1>2, <1>3 DEF Reports

LEMMA ReportsReport ==
    ASSUME TypeOK, Reports, NEW r \in Requests, Report(r)
    PROVE  Reports'
<1>1. Explained(r)'
  BY ReportEffect DEF Explained
<1>2. ASSUME NEW q \in Requests \ {r} PROVE Explained(q)'
  BY ReportEffect DEF Reports, Explained, Overdue
<1> QED
  BY <1>1, <1>2 DEF Reports

\* One ping spoils the report for a reason or not at all.
LEMMA PingEffect ==
    ASSUME TypeOK, Reports, NEW r \in Requests, NEW isOpen, NEW ok, NEW down,
           ~isOpen => Overdue(at[r]), at[r] # Null, Ping(r, isOpen, ok, down)
    PROVE  /\ report'[r] = "DEGRADED" => failed'[r] \/ Overdue(at[r])
           /\ \A q \in Requests \ {r} :
                 report'[q] = report[q] /\ (failed'[q] <=> failed[q])
<1>1. CASE UNCHANGED <<report, failed>>
  BY <1>1 DEF Reports, Explained
<1>2. CASE /\ report' = [report EXCEPT ![r] = "DEGRADED"]
           /\ failed' = [failed EXCEPT ![r] = TRUE]
  BY <1>2 DEF TypeOK
<1>3. CASE ~isOpen /\ report' = [report EXCEPT ![r] = "DEGRADED"] /\ UNCHANGED failed
  BY <1>3 DEF TypeOK
<1> QED
  BY <1>1, <1>2, <1>3 DEF Ping

LEMMA ReportsPingDb ==
    ASSUME TypeOK, ProcessInv, Reports, NEW r \in Requests, PingDb(r)
    PROVE  Reports'
<1>1. /\ asking[r] = "db" /\ asking' = [asking EXCEPT ![r] = "redis"]
      /\ UNCHANGED <<phase, left, client, at, redis>>
  BY DEF PingDb, Goto, lifecycle
<1>2. at[r] # Null
  BY <1>1 DEF TypeOK
<1>3. /\ report'[r] = "DEGRADED" => failed'[r] \/ Overdue(at[r])
      /\ \A q \in Requests \ {r} :
            report'[q] = report[q] /\ (failed'[q] <=> failed[q])
  BY <1>2, ClosedIsOverdue, PingEffect DEF PingDb
<1>4. Explained(r)'
  BY <1>1, <1>2, <1>3 DEF Reports, Explained, Overdue, TypeOK
<1>5. ASSUME NEW q \in Requests \ {r} PROVE Explained(q)'
  BY <1>1, <1>3 DEF Reports, Explained, Overdue, TypeOK
<1> QED
  BY <1>4, <1>5 DEF Reports

LEMMA ReportsPingRedis ==
    ASSUME TypeOK, ProcessInv, Reports, NEW r \in Requests, PingRedis(r)
    PROVE  Reports'
<1>1. /\ asking[r] = "redis" /\ asking' = [asking EXCEPT ![r] = "answer"]
      /\ UNCHANGED <<phase, left, client, at>>
  BY DEF PingRedis, Goto, lifecycle
<1>2. at[r] # Null /\ redis[r] = "OK"
  BY <1>1 DEF TypeOK, Reports, Explained
<1>3. /\ report'[r] = "DEGRADED" => failed'[r] \/ Overdue(at[r])
      /\ \A q \in Requests \ {r} :
            report'[q] = report[q] /\ (failed'[q] <=> failed[q])
  <2>1. CASE /\ client[at[r]]
             /\ Ping(r, RedisOpen(at[r]), UNCHANGED redis,
                     redis' = [redis EXCEPT ![r] = "DOWN"])
    BY <1>2, <2>1, ClosedIsOverdue, PingEffect
  <2>2. CASE UNCHANGED <<report, failed>>
    BY <2>2 DEF Reports, Explained
  <2> QED
    BY <2>1, <2>2 DEF PingRedis
<1>4. \/ client[at[r]] /\ redis' = redis
      \/ client[at[r]] /\ redis' = [redis EXCEPT ![r] = "DOWN"]
      \/ ~client[at[r]] /\ redis' = [redis EXCEPT ![r] = "DISABLED"]
  BY DEF PingRedis, Ping
<1>5. Explained(r)'
  <2>1. asking'[r] = "answer" /\ (redis'[r] = "DISABLED" <=> ~client[at[r]])
    BY <1>1, <1>2, <1>4 DEF TypeOK
  <2> QED
    BY <1>1, <1>2, <1>3, <2>1 DEF Explained, Overdue
<1>6. ASSUME NEW q \in Requests \ {r} PROVE Explained(q)'
  <2>1. redis'[q] = redis[q]
    BY <1>4 DEF TypeOK
  <2> QED
    BY <1>1, <1>3, <2>1 DEF Reports, Explained, Overdue, TypeOK
<1> QED
  BY <1>5, <1>6 DEF Reports

--------------------------------------------------------------------------------
(* The theorems                                                            *)

IInv == TypeOK /\ ProcessInv /\ Reports

LEMMA InvInit == HealthInit => IInv
<1>1. HealthInit => Reports
  BY DEF HealthInit, Blank, LifecycleInit, Reports, Explained
<1> QED
  BY <1>1, TypeInit, ProcessInit DEF IInv

LEMMA InvNext == IInv /\ [HealthNext]_healthVars => IInv'
<1> SUFFICES ASSUME TypeOK, ProcessInv, Reports, [HealthNext]_healthVars PROVE IInv'
  BY DEF IInv
<1>1. ASSUME NEW s \in Servers, ServerStep(s) PROVE IInv'
  BY <1>1, TypeServer, ProcessServer, ReportsServer DEF IInv
<1>2. ASSUME NEW s \in Servers, EndStep(s) PROVE IInv'
  BY <1>2, TypeEnd, ProcessEnd, ReportsEnd DEF IInv
<1>3. ASSUME NEW r \in Requests, NEW s \in Servers, Check(r, s) PROVE IInv'
  <2>1. Accept(r, s)
    BY <1>3 DEF Check
  <2> QED
    BY <1>3, <2>1, TypeCheck, ProcessRequest, ReportsCheck DEF IInv
<1>4. ASSUME NEW r \in Requests, PingDb(r) \/ PingRedis(r) PROVE IInv'
  <2>1. UNCHANGED lifecycle
    BY <1>4 DEF PingDb, PingRedis, Goto
  <2> QED
    BY <1>4, <2>1, TypePing, ProcessRequest, ReportsPingDb, ReportsPingRedis DEF IInv
<1>5. ASSUME NEW r \in Requests, Report(r) PROVE IInv'
  <2>1. Answer(r)
    BY <1>5 DEF Report
  <2> QED
    BY <1>5, <2>1, TypeReport, ProcessRequest, ReportsReport DEF IInv
<1>6. CASE UNCHANGED healthVars
  BY <1>6 DEF healthVars, lifecycle, checks, IInv, TypeOK, LifecycleTypeOK, ProcessInv,
              Placed, GracefulStop, Overdue, Reports, Explained
<1> QED
  BY <1>1, <1>2, <1>3, <1>4, <1>5, <1>6, NextCases

\* Every variable keeps its type, and the invariant holds.
THEOREM Invariant == HealthSpec => []IInv
  BY InvInit, InvNext, PTL DEF HealthSpec

\* GET /health says DEGRADED only when a store did not answer a ping of that very
\* check or when the 30 seconds of a shutdown were over, and Redis is DISABLED
\* exactly in a process that started without it, whatever the process does
\* between the two pings and the answer.
THEOREM DegradedHasReason == HealthSpec => []DegradedForAReason
<1>1. IInv => DegradedForAReason
  BY DEF IInv, Reports, Explained, DegradedForAReason
<1> QED
  BY <1>1, Invariant, PTL

\* Also while checks of the health are under way, Redis and the database are
\* closed under one only when its 30 seconds are over.
THEOREM ChecksStopGracefully == HealthSpec => []GracefulStop
<1>1. IInv => GracefulStop
  BY DEF IInv, ProcessInv
<1> QED
  BY <1>1, Invariant, PTL

--------------------------------------------------------------------------------
(* Configuration                                                           *)

\* What main has read, and what it has made of it.
ConfigInv ==
    /\ file \in Setting \cup {Empty}
    /\ key \in SigningKeys \cup {None}
    /\ open \in Int
    /\ stage = "defaults" => settings = file
    /\ stage = "serve" =>
          /\ file \in Setting
          /\ settings = Defaults(file)
          /\ settings.key # None

LEMMA ConfigInvInit == ConfigInit => ConfigInv
  BY ConfigurationAssumption DEF ConfigInit, ConfigInv

LEMMA ConfigInvNext == ConfigInv /\ [ConfigNext]_configVars => ConfigInv'
<1> SUFFICES ASSUME ConfigInv, [ConfigNext]_configVars PROVE ConfigInv'
  OBVIOUS
<1>1. CASE ParseCmd
  BY <1>1 DEF ParseCmd, ConfigInv, Setting
<1>2. CASE SetDefaults
  <2>1. UNCHANGED <<found, file, key, open>> /\ settings = file
    BY <1>2 DEF SetDefaults, ConfigInv
  <2>2. CASE stage' = "serve"
    <3>1. file \in Setting
      BY <1>2, <2>1, <2>2 DEF SetDefaults, ConfigInv
    <3>2. settings' = Defaults(file) /\ settings'.key # None
      BY <1>2, <2>1, <2>2 DEF SetDefaults
    <3>3. Defaults(file)' = Defaults(file)
      BY <2>1 DEF Defaults, Default
    <3> QED
      BY <2>1, <2>2, <3>1, <3>2, <3>3 DEF ConfigInv, Setting
  <2>3. CASE stage' # "serve"
    <3>1. stage' = "panic"
      BY <1>2, <2>3 DEF SetDefaults
    <3> QED
      BY <2>1, <3>1 DEF ConfigInv, Setting
  <2> QED
    BY <2>2, <2>3
<1>3. CASE UNCHANGED configVars
  BY <1>3 DEF configVars, ConfigInv, Setting, Defaults, Default
<1> QED
  BY <1>1, <1>2, <1>3 DEF ConfigNext

\* The server runs with what the file says, completed by the defaults, and has a
\* signing key.
THEOREM ConfigInvariant == ConfigSpec => []ConfigInv
  BY ConfigInvInit, ConfigInvNext, PTL DEF ConfigSpec

\* A duration that the file does not have, or has wrongly, is a day.
LEMMA DurationHolds ==
    ASSUME NEW text, ~NoLimit(text)
    PROVE  Duration(text) > 0
  BY ConfigurationAssumption DEF Duration, NoLimit

\* A token and a cached revocation last for a positive time, and the connection pool
\* has a bound, unless the file itself asks for none: a left out or mistyped value
\* never takes the limit away.
THEOREM LimitsAreHeld == ConfigSpec => []LimitsHold
<1>1. ConfigInv => LimitsHold
  <2> SUFFICES ASSUME ConfigInv, stage = "serve" PROVE LimitsHold
    BY DEF LimitsHold
  <2>1. settings.revoke = file.revoke /\ settings.jwt = Default(file.jwt, "24h")
    BY DEF ConfigInv, Defaults
  <2>2. Duration(settings.revoke) > 0 \/ NoLimit(file.revoke)
    BY <2>1, DurationHolds
  <2>3. Duration(settings.jwt) > 0 \/ NoLimit(file.jwt)
    <3>1. CASE file.jwt = None
      <4>1. settings.jwt = "24h"
        BY <2>1, <3>1 DEF Default
      <4> QED
        BY <4>1, ConfigurationAssumption DEF Duration
    <3>2. CASE file.jwt # None
      BY <2>1, <3>2, DurationHolds DEF Default
    <3> QED
      BY <3>1, <3>2
  <2>4. MaxOpen > 0 \/ open < 0
    BY DEF ConfigInv, MaxOpen
  <2> QED
    BY <2>2, <2>3, <2>4 DEF LimitsHold
<1> QED
  BY <1>1, ConfigInvariant, PTL

\* A server that gets past setDefaults signs with a key, and the pages it serves
\* call the port it listens on unless the file names another.
THEOREM PagesCallTheirServer == ConfigSpec => []PagesFindServer
<1>1. ConfigInv => PagesFindServer
  BY DEF ConfigInv, PagesFindServer, Defaults, Default
<1> QED
  BY <1>1, ConfigInvariant, PTL

--------------------------------------------------------------------------------
(* Validation                                                              *)

LEMMA TextsAreSequences ==
    ASSUME NEW text \in Texts
    PROVE  /\ text \in Seq(Characters)
           /\ Len(text) \in Nat
           /\ DOMAIN text = 1 .. Len(text)
           /\ \A k \in 1 .. Len(text) : text[k] \in Characters
<1>1. PICK n \in 0 .. MaxText : text \in [1 .. n -> Characters]
  BY DEF Texts
<1>2. n \in Nat
  BY ValidationAssumption
<1>3. text \in Seq(Characters)
  BY <1>1, <1>2
<1> QED
  BY <1>3

\* The count of bytes is the count of characters and of the wide ones among them.
LEMMA BytesAndCharacters ==
    ASSUME NEW text \in Seq(Characters)
    PROVE  /\ Bytes(text) \in Nat
           /\ Len(text) <= Bytes(text)
           /\ ~Has(text, Wide) => Bytes(text) = Len(text)
<1> DEFINE wide == {k \in DOMAIN text : text[k] \in Wide}
<1>1. Len(text) \in Nat /\ DOMAIN text = 1 .. Len(text)
  OBVIOUS
<1>2. IsFiniteSet(wide) /\ Cardinality(wide) \in Nat
  <2>1. IsFiniteSet(1 .. Len(text))
    BY <1>1, FS_Interval
  <2>2. wide \subseteq 1 .. Len(text)
    BY <1>1
  <2> QED
    BY <2>1, <2>2, FS_Subset, FS_CardinalityType
<1>3. Bytes(text) = Len(text) + Cardinality(wide)
  BY DEF Bytes
<1>4. ~Has(text, Wide) => Cardinality(wide) = 0
  <2>1. ~Has(text, Wide) => wide = {}
    BY DEF Has
  <2> HIDE DEF wide
  <2> QED
    BY <2>1, FS_EmptySet
<1> HIDE DEF wide
<1> QED
  BY <1>1, <1>2, <1>3, <1>4

\* A set of numbers has a least one.
LEMMA LeastExists ==
    ASSUME NEW s \in SUBSET Nat, s # {}
    PROVE  \E n \in s : \A m \in s : n <= m
<1>1. \E n \in s : \A m \in s : <<m, n>> \notin OpToRel(<, Nat)
  <2>1. s \subseteq Nat
    OBVIOUS
  <2> QED
    BY <2>1, NatLessThanWellFounded, WFMin, Zenon
<1>2. PICK n \in s : \A m \in s : <<m, n>> \notin OpToRel(<, Nat)
  BY <1>1, Zenon
<1>3. \A m \in s : ~(m < n)
  BY <1>2, Zenon DEF OpToRel
<1>4. n \in Nat /\ \A m \in s : m \in Nat
  BY Zenon
<1>5. \A m \in s : n <= m
  BY <1>3, <1>4
<1> QED
  BY <1>5

\* A set of positions has a first and a last one.
LEMMA FirstAndLast ==
    ASSUME NEW n \in Nat, NEW kept \in SUBSET (1 .. n), kept # {}
    PROVE  /\ Min(kept) \in kept /\ Max(kept) \in kept
           /\ \A k \in kept : Min(kept) <= k /\ k <= Max(kept)
<1>1. \E x \in kept : \A y \in kept : x <= y
  BY LeastExists
<1>2. \E x \in kept : \A y \in kept : x >= y
  <2> DEFINE mirror == {n - k : k \in kept}
  <2>1. mirror \in SUBSET Nat /\ mirror # {}
    <3>1. \A k \in kept : n - k \in Nat
      OBVIOUS
    <3>2. PICK k \in kept : TRUE
      OBVIOUS
    <3>3. mirror \subseteq Nat
      BY <3>1
    <3>4. n - k \in mirror
      BY <3>2
    <3> QED
      BY <3>3, <3>4
  <2>2. PICK m \in mirror : \A l \in mirror : m <= l
    <3> HIDE DEF mirror
    <3> QED
      BY <2>1, LeastExists
  <2>3. PICK x \in kept : m = n - x
    OBVIOUS
  <2>4. ASSUME NEW y \in kept PROVE x >= y
    <3>1. m <= n - y
      BY <2>2
    <3> QED
      BY <2>3, <3>1
  <2> QED
    BY <2>4
<1>3. Min(kept) \in kept /\ \A k \in kept : Min(kept) <= k
  BY <1>1, Zenon DEF Min
<1>4. Max(kept) \in kept /\ \A k \in kept : Max(kept) >= k
  BY <1>2, Zenon DEF Max
<1> QED
  BY <1>3, <1>4

\* A name of the rules is left as it is.
LEMMA NothingToTrim ==
    ASSUME NEW text \in Seq(Characters), \A k \in DOMAIN text : text[k] \in Word
    PROVE  TrimSpace(text) = text
<1> DEFINE kept == {k \in DOMAIN text : text[k] \notin Space}
<1>1. Len(text) \in Nat /\ DOMAIN text = 1 .. Len(text)
  OBVIOUS
<1>2. kept = 1 .. Len(text)
  BY <1>1, ValidationAssumption
<1>3. TrimSpace(text) = IF kept = {} THEN <<>> ELSE SubSeq(text, Min(kept), Max(kept))
  BY DEF TrimSpace
<1> HIDE DEF kept
<1>4. CASE Len(text) = 0
  <2>1. kept = {}
    BY <1>2, <1>4
  <2>2. text = <<>>
    BY <1>4
  <2> QED
    BY <1>3, <2>1, <2>2
<1>5. CASE Len(text) # 0
  <2>1. Min(kept) = 1 /\ Max(kept) = Len(text)
    <3>1. /\ Min(kept) \in kept /\ Max(kept) \in kept
          /\ \A k \in kept : Min(kept) <= k /\ k <= Max(kept)
      <4>1. kept # {} /\ kept \in SUBSET (1 .. Len(text))
        BY <1>1, <1>2, <1>5
      <4> QED
        BY <1>1, <4>1, FirstAndLast
    <3>2. 1 \in kept /\ Len(text) \in kept
      BY <1>1, <1>2, <1>5
    <3> QED
      BY <1>1, <1>2, <3>1, <3>2
  <2>2. TrimSpace(text) = SubSeq(text, 1, Len(text))
    BY <1>1, <1>2, <1>3, <1>5, <2>1
  <2>3. Len(SubSeq(text, 1, Len(text))) = Len(text)
    BY <1>1
  <2>4. \A k \in 1 .. Len(text) : SubSeq(text, 1, Len(text))[k] = text[k]
    BY <1>1
  <2>5. SubSeq(text, 1, Len(text)) \in Seq(Characters)
    BY <1>1
  <2>6. SubSeq(text, 1, Len(text)) = text
    BY <2>3, <2>4, <2>5, SeqEqual
  <2> QED
    BY <2>2, <2>6
<1> QED
  BY <1>1, <1>4, <1>5

\* A text without wide characters or white space counts as many bytes as characters.
LEMMA WordsAreNarrow ==
    ASSUME NEW text \in Seq(Characters), \A k \in DOMAIN text : text[k] \in Word
    PROVE  Bytes(text) = Len(text)
<1>1. ~Has(text, Wide)
  BY ValidationAssumption DEF Has
<1> QED
  BY <1>1, BytesAndCharacters

\* Every name of the rules is accepted.
LEMMA DocumentedNames ==
    ASSUME NEW text \in Seq(Characters), NameAsDocumented(text)
    PROVE  ValidateUsername(text)
<1>1. \A k \in DOMAIN text : text[k] \in Word
  BY DEF NameAsDocumented
<1>2. TrimSpace(text) = text /\ Bytes(text) = Len(text)
  BY <1>1, NothingToTrim, WordsAreNarrow
<1>3. ~Has(text, Characters \ Word)
  BY <1>1 DEF Has
<1> QED
  BY <1>2, <1>3 DEF NameAsDocumented, ValidateUsername

\* An accepted name without white space around it is one of the rules.
LEMMA AcceptedNames ==
    ASSUME NEW text \in Seq(Characters), ValidateUsername(text), TrimSpace(text) = text
    PROVE  NameAsDocumented(text)
<1>1. Bytes(text) \in MinUsernameLength .. MaxUsernameLength /\ ~Has(text, Characters \ Word)
  BY DEF ValidateUsername
<1>2. \A k \in DOMAIN text : text[k] \in Word
  BY <1>1 DEF Has
<1>3. Bytes(text) = Len(text)
  BY <1>2, WordsAreNarrow
<1> QED
  BY <1>1, <1>2, <1>3 DEF NameAsDocumented

\* What Register has answered follows from what the two validations say.
ValidInv ==
    /\ username \in Seq(Characters)
    /\ password \in Seq(Characters)
    /\ answer \in {"none", "400", "500", "insert"}
    /\ answer = "insert" =>
          /\ ValidateUsername(username)
          /\ ValidatePassword(password)
          /\ Bytes(password) <= HashLimit
    /\ answer = "500" =>
          ValidatePassword(password) /\ Bytes(password) > HashLimit
    /\ answer = "400" => ~ValidateUsername(username) \/ ~ValidatePassword(password)

LEMMA ValidInvInit == ValidInit => ValidInv
  BY TextsAreSequences DEF ValidInit, ValidInv

LEMMA ValidInvNext == ValidInv /\ [Register]_validVars => ValidInv'
<1> SUFFICES ASSUME ValidInv, [Register]_validVars PROVE ValidInv'
  OBVIOUS
<1>1. Bytes(password) \in Nat /\ HashLimit \in Int
  BY BytesAndCharacters, ValidationAssumption DEF ValidInv
<1>2. CASE Register
  BY <1>1, <1>2 DEF Register, ValidInv
<1>3. CASE UNCHANGED validVars
  BY <1>3 DEF validVars, ValidInv
<1> QED
  BY <1>2, <1>3

\* The answer of Register to a name and a password follows from the validations
\* and from bcrypt's limit.
THEOREM ValidInvariant == ValidSpec => []ValidInv
  BY ValidInvInit, ValidInvNext, PTL DEF ValidSpec

\* Among the names without white space around them and the passwords that bcrypt takes
\* and that are not too short by their characters only, exactly those of the documented
\* rules get an account: for texts of any length over any characters.
THEOREM RulesAreDecisive == ValidSpec => []RulesDecide
<1>1. ASSUME ValidInv PROVE RulesDecide
  <2> SUFFICES ASSUME answer # "none", ~SpacesAround, ~CountedInBytes, ~BeyondHashing
               PROVE  answer = "insert" <=>
                          NameAsDocumented(username) /\ PasswordAsDocumented(password)
    BY DEF RulesDecide
  <2>1. /\ Bytes(password) \in Nat /\ Len(password) \in Nat
        /\ Len(password) <= Bytes(password)
        /\ Bytes(password) <= HashLimit /\ HashLimit <= MaxPasswordLength
    BY <1>1, BytesAndCharacters, ValidationAssumption DEF ValidInv, BeyondHashing
  <2>2. ASSUME answer = "insert"
        PROVE  NameAsDocumented(username) /\ PasswordAsDocumented(password)
    <3>1. ValidateUsername(username) /\ ValidatePassword(password)
      BY <1>1, <2>2 DEF ValidInv
    <3>2. NameAsDocumented(username)
      BY <1>1, <3>1, AcceptedNames DEF ValidInv, SpacesAround
    <3>3. Len(password) >= MinPasswordLength
      BY <2>1, <3>1, ValidationAssumption DEF ValidatePassword, CountedInBytes
    <3>4. Has(password, Upper) /\ Has(password, Lower) /\ Has(password, Digit)
      BY <3>1 DEF ValidatePassword
    <3> QED
      BY <3>2, <3>3, <3>4 DEF PasswordAsDocumented
  <2>3. ASSUME NameAsDocumented(username), PasswordAsDocumented(password)
        PROVE  answer = "insert"
    <3>1. ValidateUsername(username)
      BY <1>1, <2>3, DocumentedNames DEF ValidInv
    <3>2. ValidatePassword(password)
      <4>1. Has(password, Upper) /\ Has(password, Lower) /\ Has(password, Digit)
        BY <2>3 DEF PasswordAsDocumented
      <4>2. Bytes(password) \in MinPasswordLength .. MaxPasswordLength
        BY <2>1, <2>3, ValidationAssumption DEF PasswordAsDocumented
      <4> QED
        BY <4>1, <4>2 DEF ValidatePassword
    <3>3. answer # "400"
      BY <1>1, <3>1, <3>2 DEF ValidInv
    <3>4. answer # "500"
      BY <1>1, <2>1, ValidationAssumption DEF ValidInv
    <3> QED
      BY <1>1, <3>3, <3>4 DEF ValidInv
  <2> QED
    BY <2>2, <2>3
<1> QED
  BY <1>1, ValidInvariant, PTL

==================================================================================
