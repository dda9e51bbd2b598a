----------------------------- MODULE AccountsProofs -----------------------------
(***************************************************************************)
(* Theorems about Accounts, for any servers, requests, names, passwords    *)
(* and faults and any length of the shutdown's context.                    *)
(***************************************************************************)
EXTENDS Accounts, TLAPS

\* The steps of a process that move no request.
ServerStep(s) ==
    \/ Process(s)
    \/ /\ Pass(s) \/ HttpStopped(s) \/ CloseRedis(s) \/ CloseDb(s)
       /\ UNCHANGED <<table, locals, told>>

\* The steps that end a process and every request it serves.
EndStep(s) ==
    /\ Exit(s) \/ Kill(s)
    /\ Finish(Running(s))
    /\ UNCHANGED <<table, told>>

\* Every step is one of these.
LEMMA NextCases ==
    ASSUME Next
    PROVE  \/ \E s \in Servers : ServerStep(s) \/ EndStep(s)
           \/ \E r \in Requests, s \in Servers, n \in Names, p \in Passwords :
                 Register(r, s, n, p) \/ Login(r, s, n, p)
           \/ \E r \in Requests : Step(r)
  BY DEF Next, ShutdownStep, Crash, ServerStep, EndStep

--------------------------------------------------------------------------------
(* Types                                                                   *)

LEMMA TypeInit == Init => TypeOK
  BY LifecycleAssumption, AccountsAssumption
  DEF Init, LifecycleInit, TypeOK, LifecycleTypeOK

LEMMA TypeServer ==
    ASSUME TypeOK, NEW s \in Servers, ServerStep(s)
    PROVE  TypeOK'
<1> USE LifecycleAssumption DEF TypeOK, LifecycleTypeOK, table, locals
<1>1. CASE Start(s)
  BY <1>1 DEF ServerStep, Process, Start, Listen, Signal, Pass, HttpStopped,
              CloseRedis, CloseDb
<1>2. CASE Listen(s)
  BY <1>2 DEF ServerStep, Process, Start, Listen, Signal, Pass, HttpStopped,
              CloseRedis, CloseDb
<1>3. CASE Signal(s)
  BY <1>3 DEF ServerStep, Process, Start, Listen, Signal, Pass, HttpStopped,
              CloseRedis, CloseDb
<1>4. CASE Pass(s)
  BY <1>4 DEF ServerStep, Process, Start, Listen, Signal, Pass, HttpStopped,
              CloseRedis, CloseDb
<1>5. CASE HttpStopped(s) \/ CloseRedis(s) \/ CloseDb(s)
  BY <1>5 DEF ServerStep, Process, Start, Listen, Signal, Pass, HttpStopped,
              CloseRedis, CloseDb
<1> QED
  BY <1>1, <1>2, <1>3, <1>4, <1>5 DEF ServerStep, Process

LEMMA TypeEnd ==
    ASSUME TypeOK, NEW s \in Servers, EndStep(s)
    PROVE  TypeOK'
<1> USE DEF TypeOK, LifecycleTypeOK
<1>1. LifecycleTypeOK'
  <2>1. Gone(s)
    BY DEF EndStep, Exit, Kill
  <2>2. phase' \in [Servers -> {"down", "up", "draining", "drained",
                                "redisClosed", "dbClosed"}]
    BY <2>1 DEF Gone
  <2>3. http' \in [Servers -> {"none", "starting", "listening", "closed"}]
    BY <2>1 DEF Gone
  <2>4. client' \in [Servers -> BOOLEAN]
    BY <2>1 DEF Gone
  <2>5. left' \in [Servers -> 0 .. Drain] /\ at' \in [Requests -> Servers \cup {Null}]
    BY <2>1, LifecycleAssumption DEF Gone
  <2> QED
    BY <2>2, <2>3, <2>4, <2>5
<1>2. UNCHANGED <<users, lastLogin, told>>
  BY DEF EndStep, table
<1>3. entitled' \in [Requests -> BOOLEAN]
  BY DEF EndStep, Finish
<1>4. /\ pc' = [r \in Requests |-> IF at[r] = s THEN "idle" ELSE pc[r]]
      /\ name' = [r \in Requests |-> IF at[r] = s THEN Null ELSE name[r]]
      /\ password' = [r \in Requests |-> IF at[r] = s THEN Null ELSE password[r]]
      /\ at' = [r \in Requests |-> IF at[r] = s THEN Null ELSE at[r]]
  BY DEF EndStep, Finish, Running, Exit, Kill, Gone
<1>5. \A r \in Requests :
         /\ pc'[r] = "idle" <=> at'[r] = Null
         /\ pc'[r] # "idle" => name'[r] # Null /\ password'[r] # Null
  BY <1>4, LifecycleAssumption
<1> QED
  BY <1>1, <1>2, <1>3, <1>4, <1>5

LEMMA TypeArrive ==
    ASSUME TypeOK, NEW r \in Requests, NEW s \in Servers, NEW n \in Names,
           NEW p \in Passwords, Register(r, s, n, p) \/ Login(r, s, n, p)
    PROVE  TypeOK'
<1> USE DEF TypeOK, LifecycleTypeOK
<1>1. PICK label \in {"insert", "check"} : Arrive(r, s, n, p, label)
  BY DEF Register, Login
<1>2. LifecycleTypeOK'
  BY <1>1 DEF Arrive, Accept
<1>3. UNCHANGED <<users, lastLogin, told>>
  BY <1>1 DEF Arrive, table
<1>4. entitled' \in [Requests -> BOOLEAN]
  <2>1. (told[n] = p) \in BOOLEAN
    OBVIOUS
  <2> QED
    BY <1>1, <2>1 DEF Arrive
<1>5. /\ pc' = [pc EXCEPT ![r] = label]
      /\ name' = [name EXCEPT ![r] = n]
      /\ password' = [password EXCEPT ![r] = p]
      /\ at' = [at EXCEPT ![r] = s]
  BY <1>1 DEF Arrive, Accept
<1>6. \A q \in Requests :
         /\ pc'[q] = "idle" <=> at'[q] = Null
         /\ pc'[q] # "idle" => name'[q] # Null /\ password'[q] # Null
  BY <1>5, LifecycleAssumption, AccountsAssumption
<1> QED
  BY <1>2, <1>3, <1>4, <1>5, <1>6

LEMMA TypeStep ==
    ASSUME TypeOK, NEW r \in Requests, Step(r)
    PROVE  TypeOK'
<1> USE LifecycleAssumption, AccountsAssumption
    DEF TypeOK, LifecycleTypeOK, table, lifecycle, Goto
<1>1. CASE CreateUser(r)
  BY <1>1 DEF CreateUser, InsertUser
<1>2. CASE CheckRateLimit(r)
  BY <1>2 DEF CheckRateLimit
<1>3. CASE GetUserByUsername(r)
  <2>1. PICK label \in {"update", "denied"} : Goto(r, label)
    BY <1>3 DEF GetUserByUsername
  <2>2. UNCHANGED <<users, lastLogin>> /\ entitled' \in [Requests -> BOOLEAN]
    BY <1>3 DEF GetUserByUsername
  <2> QED
    BY <2>1, <2>2, <1>3 DEF GetUserByUsername
<1>4. CASE UpdateLastLogin(r)
  <2>1. UNCHANGED <<lifecycle, users, name, password, told>> /\ Goto(r, "granted")
    BY <1>4 DEF UpdateLastLogin
  <2>2. \/ lastLogin' = [lastLogin EXCEPT ![name[r]] = TRUE]
        \/ lastLogin' = lastLogin
    BY <1>4 DEF UpdateLastLogin
  <2>3. entitled' = entitled \/ entitled' = [entitled EXCEPT ![r] = FALSE]
    BY <1>4 DEF UpdateLastLogin
  <2>4. lastLogin' \in [Names -> BOOLEAN]
    BY <2>2
  <2>5. entitled' \in [Requests -> BOOLEAN]
    BY <2>3
  <2>6. pc[r] = "update" /\ pc' = [pc EXCEPT ![r] = "granted"]
    BY <1>4, <2>1 DEF UpdateLastLogin
  <2>7. LifecycleTypeOK'
    BY <2>1
  <2>8. \A q \in Requests :
           /\ pc'[q] = "idle" <=> at'[q] = Null
           /\ pc'[q] # "idle" => name'[q] # Null /\ password'[q] # Null
    BY <2>1, <2>6
  <2>9. pc' \in [Requests -> {"idle", "insert", "created", "refused", "check",
                             "select", "denied", "update", "granted"}]
    BY <2>6
  <2> QED
    BY <2>1, <2>4, <2>5, <2>7, <2>8, <2>9
<1>5. CASE Respond(r)
  BY <1>5 DEF Respond, Answer, Finish
<1> QED
  BY <1>1, <1>2, <1>3, <1>4, <1>5 DEF Step

\* Every variable keeps its type.
THEOREM TypeCorrect == Spec => []TypeOK
<1>1. TypeOK /\ [Next]_vars => TypeOK'
  <2> SUFFICES ASSUME TypeOK, [Next]_vars PROVE TypeOK'
    OBVIOUS
  <2>1. CASE Next
    BY <2>1, NextCases, TypeServer, TypeEnd, TypeArrive, TypeStep
  <2>2. CASE UNCHANGED vars
    BY <2>2 DEF vars, TypeOK, LifecycleTypeOK
  <2> QED
    BY <2>1, <2>2
<1> QED
  BY TypeInit, <1>1, PTL DEF Spec

--------------------------------------------------------------------------------
(* The processes                                                           *)

\* A server listens only before it is told to stop, and a request is at a
\* process that lives.
Placed ==
    /\ \A s \in Servers : http[s] = "listening" => phase[s] = "up"
    /\ \A r \in Requests : at[r] # Null => phase[at[r]] # "down"

ProcessInv == Placed /\ GracefulStop

LEMMA ProcessInit == Init => ProcessInv
  BY DEF Init, LifecycleInit, ProcessInv, Placed, GracefulStop

LEMMA ProcessServer ==
    ASSUME TypeOK, ProcessInv, NEW s \in Servers, ServerStep(s)
    PROVE  ProcessInv'
<1> USE LifecycleAssumption
    DEF TypeOK, LifecycleTypeOK, ProcessInv, Placed, GracefulStop, Overdue
<1>1. CASE Start(s)
  BY <1>1 DEF Start
<1>2. CASE Listen(s)
  BY <1>2 DEF Listen
<1>3. CASE Signal(s)
  BY <1>3 DEF Signal
<1>4. CASE Pass(s)
  BY <1>4 DEF Pass
<1>5. CASE HttpStopped(s)
  BY <1>5 DEF HttpStopped, Running
<1>6. CASE CloseRedis(s)
  BY <1>6 DEF CloseRedis
<1>7. CASE CloseDb(s)
  BY <1>7 DEF CloseDb
<1> QED
  BY <1>1, <1>2, <1>3, <1>4, <1>5, <1>6, <1>7 DEF ServerStep, Process

LEMMA ProcessEnd ==
    ASSUME TypeOK, ProcessInv, NEW s \in Servers, EndStep(s)
    PROVE  ProcessInv'
  BY LifecycleAssumption
  DEF TypeOK, LifecycleTypeOK, ProcessInv, Placed, GracefulStop, Overdue,
      EndStep, Exit, Kill, Gone

LEMMA ProcessArrive ==
    ASSUME TypeOK, ProcessInv, NEW r \in Requests, NEW s \in Servers, NEW n \in Names,
           NEW p \in Passwords, Register(r, s, n, p) \/ Login(r, s, n, p)
    PROVE  ProcessInv'
<1>1. Accept(r, s)
  BY DEF Register, Login, Arrive
<1> QED
  BY <1>1, LifecycleAssumption
  DEF TypeOK, LifecycleTypeOK, ProcessInv, Placed, GracefulStop, Overdue, Accept

LEMMA ProcessStep ==
    ASSUME TypeOK, ProcessInv, NEW r \in Requests, Step(r)
    PROVE  ProcessInv'
<1>1. Answer(r) \/ UNCHANGED lifecycle
  BY DEF Step, CreateUser, CheckRateLimit, GetUserByUsername, UpdateLastLogin,
         Respond, Goto
<1> QED
  BY <1>1, LifecycleAssumption
  DEF TypeOK, LifecycleTypeOK, ProcessInv, Placed, GracefulStop, Overdue, Answer,
      lifecycle

--------------------------------------------------------------------------------
(* The accounts                                                            *)

\* The answer 201 that a login relies on is still the answer for its name.
StillTold ==
    \A r \in Requests :
        entitled[r] => at[r] # Null /\ told[name[r]] = password[r]

AccountInv == OneOwner /\ StillTold /\ RegisteredCanLogIn

LEMMA AccountInit == Init => AccountInv
  BY DEF Init, AccountInv, OneOwner, StillTold, RegisteredCanLogIn

\* What is overdue stays so as long as the process lives.
LEMMA OverdueStays ==
    ASSUME TypeOK, ProcessInv, NEW s \in Servers, ServerStep(s),
           NEW r \in Requests, at[r] # Null, Overdue(at[r])
    PROVE  at'[r] = at[r] /\ Overdue(at[r])'
  BY LifecycleAssumption
  DEF TypeOK, LifecycleTypeOK, ProcessInv, Placed, Overdue, ServerStep, Process,
      Start, Listen, Signal, Pass, HttpStopped, CloseRedis, CloseDb

LEMMA AccountServer ==
    ASSUME TypeOK, ProcessInv, AccountInv, NEW s \in Servers, ServerStep(s)
    PROVE  AccountInv'
<1> USE DEF TypeOK, AccountInv
<1>1. /\ UNCHANGED <<users, lastLogin, pc, name, password, entitled, told>>
      /\ UNCHANGED at
  BY DEF ServerStep, Process, Start, Listen, Signal, Pass, HttpStopped, CloseRedis,
         CloseDb, table, locals
<1>2. OneOwner' /\ StillTold'
  BY <1>1 DEF OneOwner, StillTold
<1>3. RegisteredCanLogIn'
  <2> SUFFICES ASSUME NEW r \in Requests, entitled[r], ~Overdue(at[r])'
               PROVE  /\ pc[r] # "denied"
                      /\ pc[r] = "granted" => lastLogin[name[r]]
    BY <1>1 DEF RegisteredCanLogIn
  <2>1. ~Overdue(at[r])
    BY OverdueStays DEF StillTold
  <2> QED
    BY <2>1 DEF RegisteredCanLogIn
<1> QED
  BY <1>2, <1>3

LEMMA AccountEnd ==
    ASSUME TypeOK, AccountInv, NEW s \in Servers, EndStep(s)
    PROVE  AccountInv'
<1> USE DEF TypeOK, LifecycleTypeOK, AccountInv
<1>1. UNCHANGED <<users, lastLogin, told>>
  BY DEF EndStep, table
<1>2. \A r \in Requests :
         \/ at[r] = s /\ pc'[r] = "idle" /\ ~entitled'[r]
         \/ /\ at[r] # s /\ at'[r] = at[r] /\ pc'[r] = pc[r]
            /\ name'[r] = name[r] /\ password'[r] = password[r]
            /\ entitled'[r] <=> entitled[r]
  <2>1. \A r \in Requests : entitled'[r] <=> (at[r] # s /\ entitled[r])
    BY DEF EndStep, Finish, Running
  <2> QED
    BY <2>1 DEF EndStep, Finish, Running, Exit, Kill, Gone
<1>3. \A q \in Servers : q # s => phase'[q] = phase[q] /\ left'[q] = left[q]
  BY DEF EndStep, Exit, Kill, Gone
<1>4. OneOwner' /\ StillTold'
  BY <1>1, <1>2 DEF OneOwner, StillTold
<1>5. RegisteredCanLogIn'
  BY <1>1, <1>2, <1>3 DEF RegisteredCanLogIn, StillTold, Overdue
<1> QED
  BY <1>4, <1>5

LEMMA AccountArrive ==
    ASSUME TypeOK, AccountInv, NEW r \in Requests, NEW s \in Servers, NEW n \in Names,
           NEW p \in Passwords, Register(r, s, n, p) \/ Login(r, s, n, p)
    PROVE  AccountInv'
<1> USE DEF TypeOK, LifecycleTypeOK, AccountInv
<1>1. PICK label \in {"insert", "check"} : Arrive(r, s, n, p, label)
  BY DEF Register, Login
<1>2. UNCHANGED <<users, lastLogin, told, phase, left>>
  BY <1>1 DEF Arrive, Accept, table
<1>3. /\ at'[r] = s /\ pc'[r] = label /\ name'[r] = n /\ password'[r] = p
      /\ entitled'[r] <=> told[n] = p
  BY <1>1 DEF Arrive, Accept
<1>4. \A q \in Requests \ {r} :
         /\ at'[q] = at[q] /\ pc'[q] = pc[q] /\ name'[q] = name[q]
         /\ password'[q] = password[q] /\ entitled'[q] = entitled[q]
  BY <1>1 DEF Arrive, Accept
<1>5. OneOwner'
  BY <1>2, <1>3, <1>4 DEF OneOwner
<1>6. StillTold'
  BY <1>2, <1>3, <1>4, LifecycleAssumption DEF StillTold
<1>7. RegisteredCanLogIn'
  <2> SUFFICES ASSUME NEW q \in Requests, q # r, entitled[q], ~Overdue(at[q])'
               PROVE  /\ pc[q] # "denied"
                      /\ pc[q] = "granted" => lastLogin[name[q]]
    BY <1>2, <1>3, <1>4 DEF RegisteredCanLogIn, Overdue
  <2> QED
    BY <1>2, <1>4 DEF RegisteredCanLogIn, Overdue
<1> QED
  BY <1>5, <1>6, <1>7

\* A step of a request leaves the locals of the others alone.
LEMMA OneRequestMoves ==
    ASSUME TypeOK, NEW r \in Requests, Step(r), NEW q \in Requests, q # r
    PROVE  /\ at'[q] = at[q] /\ pc'[q] = pc[q] /\ name'[q] = name[q]
           /\ password'[q] = password[q] /\ (entitled'[q] <=> entitled[q])
           /\ UNCHANGED <<phase, left>>
<1> USE DEF TypeOK, LifecycleTypeOK, lifecycle, Goto
<1>1. CASE CreateUser(r) \/ CheckRateLimit(r)
  BY <1>1 DEF CreateUser, CheckRateLimit
<1>2. CASE GetUserByUsername(r)
  BY <1>2 DEF GetUserByUsername
<1>3. CASE UpdateLastLogin(r)
  BY <1>3 DEF UpdateLastLogin
<1>4. CASE Respond(r)
  <2>1. entitled'[q] <=> (q \notin {r} /\ entitled[q])
    BY <1>4 DEF Respond, Finish
  <2> QED
    BY <1>4, <2>1 DEF Respond, Finish, Answer
<1> QED
  BY <1>1, <1>2, <1>3, <1>4 DEF Step

\* A process without a database that still serves a request is overdue.
LEMMA ClosedIsOverdue ==
    ASSUME TypeOK, ProcessInv, NEW r \in Requests, at[r] # Null, ~DbOpen(at[r])
    PROVE  Overdue(at[r])
  BY DEF TypeOK, LifecycleTypeOK, ProcessInv, Placed, GracefulStop, DbOpen

LEMMA AccountCreateUser ==
    ASSUME TypeOK, AccountInv, NEW r \in Requests, CreateUser(r)
    PROVE  AccountInv'
<1> USE DEF TypeOK, LifecycleTypeOK, AccountInv
<1>1. /\ UNCHANGED <<phase, left, at, name, password, told, lastLogin, entitled>>
      /\ name[r] \in Names /\ password[r] \in Passwords
  BY DEF CreateUser, Goto, lifecycle
<1>2. \A q \in Requests \ {r} : pc'[q] = pc[q]
  BY DEF CreateUser, Goto
<1>3. \/ pc'[r] = "refused" /\ UNCHANGED users
      \/ /\ pc'[r] \in {"created", "refused"}
         /\ users[name[r]] = Null
         /\ users' = [users EXCEPT ![name[r]] = password[r]]
  BY DEF CreateUser, Goto, InsertUser
<1>4. OneOwner'
  <2>1. CASE UNCHANGED users
    BY <2>1, <1>1, <1>2, <1>3, AccountsAssumption DEF OneOwner
  <2>2. CASE /\ pc'[r] \in {"created", "refused"}
             /\ users[name[r]] = Null
             /\ users' = [users EXCEPT ![name[r]] = password[r]]
    <3>1. told[name[r]] = Null
      BY <2>2, <1>1 DEF OneOwner
    <3>2. \A n \in Names \ {name[r]} : users'[n] = users[n]
      BY <2>2
    <3>3. users'[name[r]] = password[r]
      BY <2>2, <1>1
    <3>4. \A q \in Requests \ {r} : pc[q] = "created" => name[q] # name[r]
      BY <2>2 DEF OneOwner
    <3> QED
      BY <3>1, <3>2, <3>3, <3>4, <1>1, <1>2 DEF OneOwner
  <2> QED
    BY <1>3, <2>1, <2>2
<1>5. StillTold'
  BY <1>1 DEF StillTold
<1>6. RegisteredCanLogIn'
  BY <1>1, <1>2, <1>3 DEF RegisteredCanLogIn, Overdue
<1> QED
  BY <1>4, <1>5, <1>6

LEMMA AccountGetUser ==
    ASSUME TypeOK, ProcessInv, AccountInv, NEW r \in Requests, GetUserByUsername(r)
    PROVE  AccountInv'
<1> USE DEF TypeOK, LifecycleTypeOK, AccountInv
<1>1. /\ UNCHANGED <<phase, left, at, name, password, told, users, lastLogin>>
      /\ name[r] \in Names /\ password[r] \in Passwords /\ at[r] # Null
  BY DEF GetUserByUsername, Goto, lifecycle, table
<1>2. \A q \in Requests \ {r} : pc'[q] = pc[q] /\ (entitled'[q] <=> entitled[q])
  BY OneRequestMoves DEF Step
<1>3. \/ ~entitled'[r] /\ pc'[r] = "denied"
      \/ (entitled'[r] <=> entitled[r]) /\ pc'[r] = "denied" /\ ~DbOpen(at[r])
      \/ /\ entitled'[r] <=> entitled[r]
         /\ pc'[r] = IF users[name[r]] = password[r] THEN "update" ELSE "denied"
  BY DEF GetUserByUsername, Goto
<1>4. OneOwner'
  BY <1>1, <1>2, <1>3 DEF OneOwner
<1>5. StillTold'
  BY <1>1, <1>2, <1>3 DEF StillTold
<1>6. entitled[r] => users[name[r]] = password[r]
  BY <1>1, AccountsAssumption DEF OneOwner, StillTold
<1>7. RegisteredCanLogIn'
  BY <1>1, <1>2, <1>3, <1>6, ClosedIsOverdue DEF RegisteredCanLogIn, Overdue
<1> QED
  BY <1>4, <1>5, <1>7

LEMMA AccountUpdateLastLogin ==
    ASSUME TypeOK, ProcessInv, AccountInv, NEW r \in Requests, UpdateLastLogin(r)
    PROVE  AccountInv'
<1> USE DEF TypeOK, LifecycleTypeOK, AccountInv
<1>1. /\ UNCHANGED <<phase, left, at, name, password, told, users>>
      /\ name[r] \in Names /\ at[r] # Null
  BY DEF UpdateLastLogin, Goto, lifecycle
<1>2. \A q \in Requests \ {r} : pc'[q] = pc[q] /\ (entitled'[q] <=> entitled[q])
  BY OneRequestMoves DEF Step
<1>3. /\ pc'[r] = "granted"
      /\ \/ ~entitled'[r]
         \/ (entitled'[r] <=> entitled[r]) /\ (lastLogin'[name[r]] \/ ~DbOpen(at[r]))
  BY <1>1 DEF UpdateLastLogin, Goto
<1>4. \A n \in Names : lastLogin[n] => lastLogin'[n]
  BY DEF UpdateLastLogin
<1>5. OneOwner'
  BY <1>1, <1>2, <1>3 DEF OneOwner
<1>6. StillTold'
  BY <1>1, <1>2, <1>3 DEF StillTold
<1>7. RegisteredCanLogIn'
  <2> SUFFICES ASSUME NEW q \in Requests, entitled'[q], ~Overdue(at[q])
               PROVE  /\ pc'[q] # "denied"
                      /\ pc'[q] = "granted" => lastLogin'[name[q]]
    BY <1>1 DEF RegisteredCanLogIn, Overdue
  <2>1. CASE q = r
    BY <2>1, <1>1, <1>3, ClosedIsOverdue
  <2>2. CASE q # r
    BY <2>2, <1>2, <1>4 DEF RegisteredCanLogIn
  <2> QED
    BY <2>1, <2>2
<1> QED
  BY <1>5, <1>6, <1>7

LEMMA AccountRespond ==
    ASSUME TypeOK, AccountInv, NEW r \in Requests, Respond(r)
    PROVE  AccountInv'
<1> USE DEF TypeOK, LifecycleTypeOK, AccountInv
<1>1. UNCHANGED <<phase, left, users, lastLogin>> /\ name[r] \in Names
  BY DEF Respond, Answer, table
<1>2. pc'[r] = "idle" /\ ~entitled'[r]
  BY DEF Respond, Finish
<1>3. \A q \in Requests \ {r} :
         /\ at'[q] = at[q] /\ pc'[q] = pc[q] /\ name'[q] = name[q]
         /\ password'[q] = password[q] /\ (entitled'[q] <=> entitled[q])
  BY OneRequestMoves DEF Step
<1>4. \/ UNCHANGED told
      \/ /\ pc[r] = "created"
         /\ told' = [told EXCEPT ![name[r]] = password[r]]
  BY DEF Respond
<1>5. OneOwner'
  BY <1>1, <1>2, <1>3, <1>4 DEF OneOwner
<1>6. \A n \in Names : told[n] # Null => told'[n] = told[n]
  BY <1>1, <1>4 DEF OneOwner
<1>7. StillTold'
  BY <1>2, <1>3, <1>6 DEF StillTold
<1>8. RegisteredCanLogIn'
  BY <1>1, <1>2, <1>3 DEF RegisteredCanLogIn, Overdue
<1> QED
  BY <1>5, <1>7, <1>8

LEMMA AccountStep ==
    ASSUME TypeOK, ProcessInv, AccountInv, NEW r \in Requests, Step(r)
    PROVE  AccountInv'
<1>1. CASE CheckRateLimit(r)
  BY <1>1 DEF TypeOK, LifecycleTypeOK, AccountInv, OneOwner, StillTold,
      RegisteredCanLogIn, Overdue, CheckRateLimit, Goto, lifecycle, table
<1> QED
  BY <1>1, AccountCreateUser, AccountGetUser, AccountUpdateLastLogin, AccountRespond
  DEF Step

\* The inductive invariant.
THEOREM Invariant == Spec => [](ProcessInv /\ AccountInv)
<1> DEFINE IInv == ProcessInv /\ AccountInv
<1>1. TypeOK /\ IInv /\ [Next]_vars => IInv'
  <2> SUFFICES ASSUME TypeOK, ProcessInv, AccountInv, [Next]_vars PROVE IInv'
    OBVIOUS
  <2>1. CASE Next
    <3>1. ProcessInv'
      BY <2>1, NextCases, ProcessServer, ProcessEnd, ProcessArrive, ProcessStep
    <3>2. AccountInv'
      BY <2>1, NextCases, AccountServer, AccountEnd, AccountArrive, AccountStep
    <3> QED
      BY <3>1, <3>2
  <2>2. CASE UNCHANGED vars
    BY <2>2 DEF vars, ProcessInv, Placed, GracefulStop, Overdue, AccountInv, OneOwner,
                StillTold, RegisteredCanLogIn
  <2> QED
    BY <2>1, <2>2
<1> QED
  BY ProcessInit, AccountInit, TypeCorrect, <1>1, PTL DEF Spec

\* A name has one owner, the one whose registration was answered 201.
THEOREM AccountHasOneOwner == Spec => []OneOwner
  BY Invariant, PTL DEF AccountInv

\* Who was answered 201 can log in.
THEOREM AccountCanLogIn == Spec => []RegisteredCanLogIn
  BY Invariant, PTL DEF AccountInv

\* Stores are closed under a running request only after its 30 seconds.
THEOREM StopIsGraceful == Spec => []GracefulStop
  BY Invariant, PTL DEF ProcessInv

================================================================================
