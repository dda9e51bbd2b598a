-------------------------------- MODULE Accounts --------------------------------
(***************************************************************************)
(* Registration and login (Register and Login of                           *)
(* server/models/auth/handler.go, server/models/user) in servers that      *)
(* start, drain, close their stores and die while requests run.            *)
(*                                                                         *)
(* The servers share one table of users.  Nothing but its UNIQUE           *)
(* constraint decides between two registrations of a name: Register does   *)
(* not look before it inserts, no transaction spans two calls, and a       *)
(* failing call may or may not have changed the table.                     *)
(*                                                                         *)
(* A name is the string the client sent (a name is validated trimmed and   *)
(* stored as it was sent), a password stands for its bcrypt hash.          *)
(* Requests that fail validation or the limit per address change nothing   *)
(* and do not appear; the counter of failed logins is in RateLimiter, and  *)
(* here its verdict may go either way.                                     *)
(***************************************************************************)
EXTENDS Lifecycle

CONSTANTS
    Names,      \* user names that pass ValidateUsername
    Passwords,  \* passwords that pass ValidatePassword
    Faults      \* which of "db" and "kill" can happen

ASSUME AccountsAssumption ==
    /\ Faults \subseteq {"db", "kill"}
    /\ Null \notin Passwords \cup Names

VARIABLES
    users,      \* users[n]: the password column of name n, Null without a row
    lastLogin,  \* lastLogin[n]: last_login_at is not NULL
    pc,         \* pc[r]: the call request r makes next, or the answer it has
    name,       \* name[r]: req.Username
    password,   \* password[r]: req.Password
    \* History variables: the program does not keep these.
    told,       \* told[n]: the password whose registration was answered 201
    entitled    \* entitled[r]: its name and password had been answered 201 when
                \* r came, and no call of r to the database has failed by itself

table  == <<users, lastLogin>>
locals == <<pc, name, password, entitled>>
vars   == <<phase, http, client, left, at, users, lastLogin, pc, name, password,
            told, entitled>>

Init ==
    /\ LifecycleInit
    /\ users = [n \in Names |-> Null]
    /\ lastLogin = [n \in Names |-> FALSE]
    /\ pc = [r \in Requests |-> "idle"]
    /\ name = [r \in Requests |-> Null]
    /\ password = [r \in Requests |-> Null]
    /\ told = [n \in Names |-> Null]
    /\ entitled = [r \in Requests |-> FALSE]

--------------------------------------------------------------------------------

Goto(r, label) ==
    /\ pc' = [pc EXCEPT ![r] = label]
    /\ UNCHANGED <<lifecycle, name, password, told>>

\* The requests of R are over, answered or not.
Finish(R) ==
    /\ pc' = [r \in Requests |-> IF r \in R THEN "idle" ELSE pc[r]]
    /\ name' = [r \in Requests |-> IF r \in R THEN Null ELSE name[r]]
    /\ password' = [r \in Requests |-> IF r \in R THEN Null ELSE password[r]]
    /\ entitled' = [r \in Requests |-> r \notin R /\ entitled[r]]

Arrive(r, s, n, p, label) ==
    /\ Accept(r, s)
    /\ pc' = [pc EXCEPT ![r] = label]
    /\ name' = [name EXCEPT ![r] = n]
    /\ password' = [password EXCEPT ![r] = p]
    /\ entitled' = [entitled EXCEPT ![r] = told[n] = p]
    /\ UNCHANGED <<table, told>>

Register(r, s, n, p) == Arrive(r, s, n, p, "insert")

Login(r, s, n, p) == Arrive(r, s, n, p, "check")

\* A slip: the name goes into both columns.
InsertNameTwice(n, p) == users[n] = Null /\ users' = [users EXCEPT ![n] = n]

\* A slip: ON CONFLICT (username) DO UPDATE.
InsertOrUpdate(n, p) == users' = [users EXCEPT ![n] = p]

\* The row is new, or the UNIQUE constraint refuses it.
InsertUser(n, p) == users[n] = Null /\ users' = [users EXCEPT ![n] = p]

\* 23505 is answered 409 and any other error 500, after which the row may be
\* there even so: the reply to a committed INSERT can be lost.
CreateUser(r) ==
    LET n == name[r] IN
    /\ pc[r] = "insert"
    /\ \/ DbOpen(at[r]) /\ InsertUser(n, password[r]) /\ Goto(r, "created")
       \/ DbOpen(at[r]) /\ users[n] # Null /\ Goto(r, "refused") /\ UNCHANGED users
       \/ /\ "db" \in Faults /\ DbOpen(at[r])
          /\ InsertUser(n, password[r]) \/ UNCHANGED users
          /\ Goto(r, "refused")
       \/ ~DbOpen(at[r]) /\ Goto(r, "refused") /\ UNCHANGED users
    /\ UNCHANGED <<lastLogin, entitled>>

\* A nil or closed client limits nobody, nor does one that fails.
CheckRateLimit(r) ==
    /\ pc[r] = "check"
    /\ \/ Goto(r, "select")
       \/ RedisOpen(at[r]) /\ Goto(r, "refused")
    /\ UNCHANGED <<table, entitled>>

\* GetUserByUsername takes every error for "no such user", and the password is
\* compared with what it read.  A token is issued and the counter reset without
\* another look at the table.
GetUserByUsername(r) ==
    /\ pc[r] = "select"
    /\ \/ /\ DbOpen(at[r])
          /\ Goto(r, IF users[name[r]] = password[r] THEN "update" ELSE "denied")
          /\ UNCHANGED entitled
       \/ ~DbOpen(at[r]) /\ Goto(r, "denied") /\ UNCHANGED entitled
       \/ /\ "db" \in Faults
          /\ Goto(r, "denied")
          /\ entitled' = [entitled EXCEPT ![r] = FALSE]
    /\ UNCHANGED table

\* Its error is ignored: the login succeeds even so.
UpdateLastLogin(r) ==
    LET recorded == lastLogin' = [lastLogin EXCEPT ![name[r]] = TRUE] IN
    /\ pc[r] = "update"
    /\ \/ DbOpen(at[r]) /\ recorded /\ UNCHANGED entitled
       \/ ~DbOpen(at[r]) /\ UNCHANGED <<lastLogin, entitled>>
       \/ /\ "db" \in Faults
          /\ recorded \/ UNCHANGED lastLogin
          /\ entitled' = [entitled EXCEPT ![r] = FALSE]
    /\ Goto(r, "granted")
    /\ UNCHANGED users

\* The handler returns its answer: 201 (created), 409, 429 or 500 (refused), 401
\* (denied) or 200 (granted).
Respond(r) ==
    /\ pc[r] \in {"created", "refused", "denied", "granted"}
    /\ Answer(r)
    /\ Finish({r})
    /\ told' = IF pc[r] = "created" THEN [told EXCEPT ![name[r]] = password[r]] ELSE told
    /\ UNCHANGED table

Step(r) ==
    \/ CreateUser(r)
    \/ CheckRateLimit(r)
    \/ GetUserByUsername(r)
    \/ UpdateLastLogin(r)
    \/ Respond(r)

--------------------------------------------------------------------------------

\* The process goes on without a change to any request.
Process(s) ==
    /\ Start(s) \/ Listen(s) \/ Signal(s)
    /\ UNCHANGED <<table, locals, told>>

\* Shutdown goes on; when it has returned, so does main, and what still runs is
\* cut off.  The table stays.
ShutdownStep(s) ==
    \/ /\ Pass(s) \/ HttpStopped(s) \/ CloseRedis(s) \/ CloseDb(s)
       /\ UNCHANGED <<table, locals, told>>
    \/ /\ Exit(s)
       /\ Finish(Running(s))
       /\ UNCHANGED <<table, told>>

Crash(s) ==
    /\ "kill" \in Faults
    /\ Kill(s)
    /\ Finish(Running(s))
    /\ UNCHANGED <<table, told>>

Next ==
    \/ \E s \in Servers : Process(s) \/ ShutdownStep(s) \/ Crash(s)
    \/ \E r \in Requests :
          \/ \E s \in Servers, n \in Names, p \in Passwords :
                Register(r, s, n, p) \/ Login(r, s, n, p)
          \/ Step(r)

Spec == Init /\ [][Next]_vars

\* The seconds of the context go by and main goes on through Shutdown, whose
\* calls return.  Nothing is assumed of requests: any of them may hang for ever.
FairSpec == Spec /\ \A s \in Servers : WF_vars(ShutdownStep(s))

--------------------------------------------------------------------------------

\* Every variable has its type, and a request that runs is at some server.
TypeOK ==
    /\ LifecycleTypeOK
    /\ users \in [Names -> Passwords \cup {Null}]
    /\ lastLogin \in [Names -> BOOLEAN]
    /\ pc \in [Requests -> {"idle", "insert", "created", "refused", "check", "select",
                            "denied", "update", "granted"}]
    /\ name \in [Requests -> Names \cup {Null}]
    /\ password \in [Requests -> Passwords \cup {Null}]
    /\ told \in [Names -> Passwords \cup {Null}]
    /\ entitled \in [Requests -> BOOLEAN]
    /\ \A r \in Requests :
          /\ pc[r] = "idle" <=> at[r] = Null
          /\ pc[r] # "idle" => name[r] # Null /\ password[r] # Null

\* Among all registrations of a name, in any servers, failing, retried or cut off
\* by a dying process, one at most is answered 201, and the account is and stays
\* the one of that answer.
OneOwner ==
    /\ \A n \in Names : told[n] # Null => users[n] = told[n]
    /\ \A r \in Requests : pc[r] = "created" =>
          told[name[r]] = Null /\ users[name[r]] = password[r]
    /\ \A q, r \in Requests :
          q # r /\ pc[q] = "created" /\ pc[r] = "created" => name[q] # name[r]

\* Who was answered 201 can log in, while other requests register and log in and
\* servers come and go: a login that comes later with that name and password is
\* only refused by the limiter, or with 401 when the 30 seconds of a shutdown
\* were over or its own SELECT failed; and the login is recorded but for the same
\* two reasons.
RegisteredCanLogIn ==
    \A r \in Requests :
        entitled[r] /\ ~Overdue(at[r]) =>
            /\ pc[r] # "denied"
            /\ pc[r] = "granted" => lastLogin[name[r]]

\* A shutdown that has begun ends, even if a request never does.
ShutdownEnds == \A s \in Servers : phase[s] = "draining" ~> phase[s] = "down"

================================================================================
