------------------------------- MODULE Lifecycle -------------------------------
(***************************************************************************)
(* The life of a server process (server/main.go, server/models/models.go   *)
(* and router.go): NewModels connects the stores, a goroutine of its own   *)
(* starts to listen, requests come and go, and after SIGINT or SIGTERM     *)
(* Shutdown first gives the running requests 30 seconds and then closes    *)
(* Redis and the database in turn, whoever still uses them.                *)
(*                                                                         *)
(* Several processes may run side by side.  What a request does between    *)
(* Accept and Answer is left to the modules that extend this one.          *)
(***************************************************************************)
EXTENDS Integers

CONSTANTS
    Servers,    \* server processes that may run side by side
    Requests,   \* goroutines serving a request
    Drain,      \* the 30 seconds of the shutdown context, in ticks
    RedisAtStart,  \* what NewModels can find: TRUE when Redis answers its Ping
    Null        \* no server, an empty local

ASSUME LifecycleAssumption ==
    /\ Drain \in Nat
    /\ RedisAtStart \subseteq BOOLEAN
    /\ Null \notin Servers

VARIABLES
    phase,      \* phase[s]: how far main and Shutdown have come
    http,       \* http[s]: the echo server
    client,     \* client[s]: it got a Redis client, which is decided once at the start
    left,       \* left[s]: what is left of the 30 seconds
    at          \* at[r]: the process that serves request r, Null when idle

lifecycle == <<phase, http, client, left, at>>

LifecycleInit ==
    /\ phase = [s \in Servers |-> "down"]
    /\ http = [s \in Servers |-> "none"]
    /\ client = [s \in Servers |-> FALSE]
    /\ left = [s \in Servers |-> 0]
    /\ at = [r \in Requests |-> Null]

RedisOpen(s) == client[s] /\ phase[s] \in {"up", "draining", "drained"}

DbOpen(s) == phase[s] \in {"up", "draining", "drained", "redisClosed"}

Running(s) == {r \in Requests : at[r] = s}

\* NewModels has returned: the database answered and its schema is current
\* (anything else is a panic or a Fatalf, and nothing has started).
Start(s) ==
    /\ phase[s] = "down"
    /\ phase' = [phase EXCEPT ![s] = "up"]
    /\ \E answers \in RedisAtStart : client' = [client EXCEPT ![s] = answers]
    /\ http' = [http EXCEPT ![s] = "starting"]
    /\ UNCHANGED <<left, at>>

\* A slip: the server starts to listen although Shutdown has been called.
ListenRegardless(s) ==
    /\ http[s] = "starting"
    /\ \E outcome \in {"listening", "closed"} : http' = [http EXCEPT ![s] = outcome]
    /\ UNCHANGED <<phase, left, at, client>>

\* e.Start in its goroutine.  It fails when the port is taken, which is logged
\* and leaves a process that serves nobody, or when Shutdown came first.
Listen(s) ==
    /\ http[s] = "starting"
    /\ \/ phase[s] = "up" /\ http' = [http EXCEPT ![s] = "listening"]
       \/ http' = [http EXCEPT ![s] = "closed"]
    /\ UNCHANGED <<phase, left, at, client>>

Accept(r, s) ==
    /\ at[r] = Null
    /\ http[s] = "listening"
    /\ at' = [at EXCEPT ![r] = s]
    /\ UNCHANGED <<phase, http, left, client>>

\* The response is written.
Answer(r) ==
    /\ at[r] # Null
    /\ at' = [at EXCEPT ![r] = Null]
    /\ UNCHANGED <<phase, http, left, client>>

\* SIGINT or SIGTERM: echo.Shutdown closes the listener and begins to wait.
Signal(s) ==
    /\ phase[s] = "up"
    /\ phase' = [phase EXCEPT ![s] = "draining"]
    /\ left' = [left EXCEPT ![s] = Drain]
    /\ http' = [http EXCEPT ![s] = IF @ = "listening" THEN "closed" ELSE @]
    /\ UNCHANGED <<at, client>>

\* The context runs while echo.Shutdown waits; nothing asks for it afterwards.
Pass(s) ==
    /\ phase[s] = "draining"
    /\ left[s] > 0
    /\ left' = [left EXCEPT ![s] = @ - 1]
    /\ UNCHANGED <<phase, http, at, client>>

\* A slip: a context without a deadline.
HttpStoppedNoDeadline(s) ==
    /\ phase[s] = "draining"
    /\ Running(s) = {}
    /\ phase' = [phase EXCEPT ![s] = "drained"]
    /\ UNCHANGED <<http, left, at, client>>

\* A slip: echo.Close, which does not wait for the running requests.
HttpClosed(s) ==
    /\ phase[s] = "draining"
    /\ phase' = [phase EXCEPT ![s] = "drained"]
    /\ UNCHANGED <<http, left, at, client>>

\* echo.Shutdown returns when no request is left or the context is over; its
\* error is only logged.
HttpStopped(s) ==
    /\ phase[s] = "draining"
    /\ Running(s) = {} \/ left[s] = 0
    /\ phase' = [phase EXCEPT ![s] = "drained"]
    /\ UNCHANGED <<http, left, at, client>>

\* Without a client there is nothing to close.
CloseRedis(s) ==
    /\ phase[s] = "drained"
    /\ phase' = [phase EXCEPT ![s] = "redisClosed"]
    /\ UNCHANGED <<http, left, at, client>>

\* sql.DB.Close: later calls fail, and it does not wait for a running one.
CloseDb(s) ==
    /\ phase[s] = "redisClosed"
    /\ phase' = [phase EXCEPT ![s] = "dbClosed"]
    /\ UNCHANGED <<http, left, at, client>>

\* Nothing of the process remains; a request it served never gets an answer.
Gone(s) ==
    /\ phase' = [phase EXCEPT ![s] = "down"]
    /\ http' = [http EXCEPT ![s] = "none"]
    /\ client' = [client EXCEPT ![s] = FALSE]
    /\ left' = [left EXCEPT ![s] = 0]
    /\ at' = [r \in Requests |-> IF at[r] = s THEN Null ELSE at[r]]

\* main returns.
Exit(s) == phase[s] = "dbClosed" /\ Gone(s)

\* SIGKILL, the loss of the machine, or a signal before signal.Notify.
Kill(s) == phase[s] # "down" /\ Gone(s)

--------------------------------------------------------------------------------

\* Every variable of the life cycle has its type.
LifecycleTypeOK ==
    /\ phase \in [Servers -> {"down", "up", "draining", "drained",
                              "redisClosed", "dbClosed"}]
    /\ http \in [Servers -> {"none", "starting", "listening", "closed"}]
    /\ client \in [Servers -> BOOLEAN]
    /\ left \in [Servers -> 0 .. Drain]
    /\ at \in [Requests -> Servers \cup {Null}]

\* The 30 seconds of a shutdown are over.
Overdue(s) == phase[s] \notin {"down", "up"} /\ left[s] = 0

\* "30-second timeout for graceful shutdown": Redis and the database are closed,
\* and the process ends by itself, under a running request only when its 30
\* seconds are over.  No request slips in through a server that started to
\* listen after the signal.
GracefulStop ==
    \A r \in Requests :
        at[r] # Null => phase[at[r]] \in {"up", "draining"} \/ Overdue(at[r])

================================================================================
