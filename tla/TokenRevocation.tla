---------------------------- MODULE TokenRevocation ----------------------------
(***************************************************************************)
(* Token issue, validation and revocation                                  *)
(* (server/models/auth/jwt.go, revocation.go, the RevokeToken and          *)
(* Protected handlers of handler.go and server/middleware/jwt.go).         *)
(*                                                                         *)
(* The revocation limit of a user lives in PostgreSQL                      *)
(* (users.last_revoked_token_at) and is cached in Redis under              *)
(* "revoke:<id>".  Every authenticated request reads it cache-aside: GET,  *)
(* on a miss SELECT, then SET.  Every revocation is an UPDATE followed by  *)
(* a DEL.  No lock and no transaction spans these calls, and any number of *)
(* requests - of one server process or of several sharing both stores -    *)
(* run them concurrently, so each call is a step of its own here.          *)
(*                                                                         *)
(* Time is counted in ticks.  A JWT carries whole seconds, so its times    *)
(* are rounded down to a multiple of TicksPerSecond; PostgreSQL and Redis  *)
(* keep full resolution.  The clock stops at MaxTime, which bounds the     *)
(* instants that can be told apart, but time to live keeps running out     *)
(* after that.                                                             *)
(***************************************************************************)
EXTENDS Integers

CONSTANTS
    Users,            \* user ids
    Requests,         \* goroutines serving authenticated requests
    ClientTimes,      \* values a client may send as revoke_before_time
    MaxTime,          \* bound: the last instant the clock shows
    TicksPerSecond,   \* resolution of the clock within a JWT second
    TokenDuration,    \* jwt_token_duration, in ticks
    RevokeDuration,   \* token_revoke_duration: the cache entry's TTL, in ticks
    HasRedis,         \* FALSE: the store was built with a nil Redis client
    Faults,           \* which of "redis", "db" and "crash" can happen
    Null              \* SQL NULL, a cache miss, an empty local

ASSUME RevocationAssumption ==
    /\ ClientTimes \subseteq Int
    /\ MaxTime \in Nat
    /\ TicksPerSecond \in Nat \ {0}
    /\ TokenDuration \in Int
    /\ RevokeDuration \in Nat
    /\ HasRedis \in BOOLEAN
    /\ Faults \subseteq {"redis", "db", "crash"}
    /\ Null \notin Int
    /\ Null \notin [user : Users, iat : Int]

VARIABLES
    now,       \* time.Now()
    tokens,    \* every token ever handed out by Login
    db,        \* db[u]: users.last_revoked_token_at
    cached,    \* cached[u]: value under "revoke:<u>" in Redis
    ttl,       \* ttl[u]: its remaining time to live, 0 when it has none
    pc,        \* pc[r]: the call request r makes next
    tok,       \* tok[r]: the token it presented
    seen,      \* seen[r]: lastRevokedAt, read by its SELECT
    before,    \* before[r]: the limit it is asked to set
    \* History variables: the program does not keep these.
    acked,     \* acked[u]: the latest limit acknowledged with a 200
    base,      \* base[r]: acked of its user when request r arrived
    superseded \* superseded[u]: a second limit has replaced u's first

store   == <<db, cached, ttl>>
locals  == <<pc, tok, seen, before, base>>
vars    == <<now, tokens, db, cached, ttl, pc, tok, seen, before,
             acked, base, superseded>>

--------------------------------------------------------------------------------
(* Times and tokens                                                        *)

Times == (0 .. MaxTime) \cup ClientTimes

\* A token is told apart by its user and the instant it was made.
Token == [user : Users, at : 0 .. MaxTime]

\* jwt.NewNumericDate drops the fraction of a second.
NumericDate(t) == t - (t % TicksPerSecond)

IssuedAt(tk)  == NumericDate(tk.at)
ExpiresAt(tk) == NumericDate(tk.at + TokenDuration)

\* Slips of the SQL condition: it is missing, or has no case for NULL.
LaterUnguarded(old, t) == t
LaterWithoutNull(old, t) == IF old # Null /\ old < t THEN t ELSE old

\* WHERE last_revoked_token_at IS NULL OR last_revoked_token_at < $1
Later(old, t) == IF old = Null \/ old < t THEN t ELSE old

PCs == {"idle", "cacheGet", "dbSelect", "cacheSet", "rejected",
        "accepted", "dbUpdate", "cacheDel", "respond", "failed"}

Init ==
    /\ now = 0
    /\ tokens = {}
    /\ db = [u \in Users |-> Null]
    /\ cached = [u \in Users |-> Null]
    /\ ttl = [u \in Users |-> 0]
    /\ pc = [r \in Requests |-> "idle"]
    /\ tok = [r \in Requests |-> Null]
    /\ seen = [r \in Requests |-> Null]
    /\ before = [r \in Requests |-> Null]
    /\ acked = [u \in Users |-> Null]
    /\ base = [r \in Requests |-> Null]
    /\ superseded = [u \in Users |-> FALSE]

--------------------------------------------------------------------------------
(* Steps that are not a request's own                                      *)

\* Redis drops an entry as soon as its time to live has run out; an entry
\* without one stays.
Tick ==
    /\ now' = IF now < MaxTime THEN now + 1 ELSE now
    /\ cached' = [u \in Users |-> IF ttl[u] = 1 THEN Null ELSE cached[u]]
    /\ ttl' = [u \in Users |-> IF ttl[u] = 0 THEN 0 ELSE ttl[u] - 1]
    /\ UNCHANGED <<tokens, db, locals, acked, superseded>>

\* A successful login: the token is stamped with the current time, whatever
\* the user's revocation limit is.
GenerateToken(u) ==
    /\ tokens' = tokens \cup {[user |-> u, at |-> now]}
    /\ UNCHANGED <<now, store, locals, acked, superseded>>

--------------------------------------------------------------------------------
(* One authenticated request                                               *)

Goto(r, label) == pc' = [pc EXCEPT ![r] = label]

\* The response is written and the goroutine's locals are gone.
Finish(r) ==
    /\ Goto(r, "idle")
    /\ tok' = [tok EXCEPT ![r] = Null]
    /\ seen' = [seen EXCEPT ![r] = Null]
    /\ before' = [before EXCEPT ![r] = Null]
    /\ base' = [base EXCEPT ![r] = Null]

\* A slip: !issuedAt.After(t).
JudgeInclusive(r, t) ==
    Goto(r, IF IssuedAt(tok[r]) <= t THEN "rejected" ELSE "accepted")

\* issuedAt.Before(t): the token is refused exactly when it is older than t.
Judge(r, t) == Goto(r, IF IssuedAt(tok[r]) < t THEN "rejected" ELSE "accepted")

\* The middleware found a bearer token whose signature and exp claim are good
\* (an expired one is answered 401 on the spot and changes nothing), and
\* IsTokenRevoked starts.
ValidateToken(r, tk) ==
    /\ pc[r] = "idle"
    /\ now < ExpiresAt(tk)
    /\ Goto(r, IF HasRedis THEN "cacheGet" ELSE "dbSelect")
    /\ tok' = [tok EXCEPT ![r] = tk]
    /\ base' = [base EXCEPT ![r] = acked[tk.user]]
    /\ UNCHANGED <<now, tokens, store, seen, before, acked, superseded>>

\* A hit decides at once; a miss and an error both fall through to the database.
CacheGet(r) ==
    LET u == tok[r].user IN
    /\ pc[r] = "cacheGet"
    /\ \/ cached[u] # Null /\ Judge(r, cached[u])
       \/ (cached[u] = Null \/ "redis" \in Faults) /\ Goto(r, "dbSelect")
    /\ UNCHANGED <<now, tokens, store, tok, seen, before, base, acked, superseded>>

\* A slip: "never revoked" is cached too, as the zero time.
DbSelectCachingNull(r) ==
    LET u == tok[r].user IN
    /\ pc[r] = "dbSelect"
    /\ Goto(r, "cacheSet")
    /\ seen' = [seen EXCEPT ![r] = IF db[u] = Null THEN 0 ELSE db[u]]
    /\ UNCHANGED <<now, tokens, store, tok, before, base, acked, superseded>>

\* NULL and a failed query both mean "not revoked", and neither is cached.
DbSelect(r) ==
    LET u == tok[r].user IN
    /\ pc[r] = "dbSelect"
    /\ \/ /\ db[u] = Null \/ "db" \in Faults
          /\ Goto(r, "accepted")
          /\ UNCHANGED seen
       \/ /\ db[u] # Null /\ HasRedis
          /\ Goto(r, "cacheSet")
          /\ seen' = [seen EXCEPT ![r] = db[u]]
       \/ /\ db[u] # Null /\ ~HasRedis
          /\ Judge(r, db[u])
          /\ UNCHANGED seen
    /\ UNCHANGED <<now, tokens, store, tok, before, base, acked, superseded>>

\* A slip: SET without the expiration.
CacheSetForEver(r) ==
    LET u == tok[r].user IN
    /\ pc[r] = "cacheSet"
    /\ cached' = [cached EXCEPT ![u] = seen[r]]
    /\ ttl' = [ttl EXCEPT ![u] = 0]
    /\ seen' = [seen EXCEPT ![r] = Null]
    /\ Judge(r, seen[r])
    /\ UNCHANGED <<now, tokens, db, tok, before, base, acked, superseded>>

\* A slip: the entry lives as long as a token does.
CacheSetTokenDuration(r) ==
    LET u == tok[r].user IN
    /\ pc[r] = "cacheSet"
    /\ cached' = [cached EXCEPT ![u] = seen[r]]
    /\ ttl' = [ttl EXCEPT ![u] = TokenDuration]
    /\ seen' = [seen EXCEPT ![r] = Null]
    /\ Judge(r, seen[r])
    /\ UNCHANGED <<now, tokens, db, tok, before, base, acked, superseded>>

\* The value read earlier is cached, whatever has happened to the row since;
\* an error is ignored.
CacheSet(r) ==
    LET u == tok[r].user IN
    /\ pc[r] = "cacheSet"
    /\ \/ /\ cached' = [cached EXCEPT ![u] = seen[r]]
          /\ ttl' = [ttl EXCEPT ![u] = RevokeDuration]
       \/ "redis" \in Faults /\ UNCHANGED <<cached, ttl>>
    /\ seen' = [seen EXCEPT ![r] = Null]
    /\ Judge(r, seen[r])
    /\ UNCHANGED <<now, tokens, db, tok, before, base, acked, superseded>>

\* 401 "token has been revoked"
Deny(r) ==
    /\ pc[r] = "rejected"
    /\ Finish(r)
    /\ UNCHANGED <<now, tokens, store, acked, superseded>>

\* Any authenticated handler that leaves revocation alone.
Protected(r) ==
    /\ pc[r] = "accepted"
    /\ Finish(r)
    /\ UNCHANGED <<now, tokens, store, acked, superseded>>

\* POST /api/revoke: without a usable body the limit is time.Now(), else it is
\* the time the client sent, past or future.
RevokeToken(r) ==
    /\ pc[r] = "accepted"
    /\ \E t \in {now} \cup ClientTimes : before' = [before EXCEPT ![r] = t]
    /\ base' = [base EXCEPT ![r] = Null]
    /\ Goto(r, "dbUpdate")
    /\ UNCHANGED <<now, tokens, store, tok, seen, acked, superseded>>

SetLimit(u, t) ==
    /\ db' = [db EXCEPT ![u] = Later(@, t)]
    /\ superseded' = [superseded EXCEPT ![u] =
           @ \/ (db[u] # Null /\ Later(db[u], t) # db[u])]

\* UPDATE users.  When Exec fails the handler never reaches the cache; the row
\* may or may not have been changed by then.
DbUpdate(r) ==
    /\ pc[r] = "dbUpdate"
    /\ \/ /\ SetLimit(tok[r].user, before[r])
          /\ Goto(r, IF HasRedis THEN "cacheDel" ELSE "respond")
       \/ /\ "db" \in Faults
          /\ SetLimit(tok[r].user, before[r]) \/ UNCHANGED <<db, superseded>>
          /\ Goto(r, "failed")
    /\ UNCHANGED <<now, tokens, cached, ttl, tok, seen, before, base, acked>>

\* 500 "Failed to revoke tokens"
Fail(r) ==
    /\ pc[r] = "failed"
    /\ Finish(r)
    /\ UNCHANGED <<now, tokens, store, acked, superseded>>

\* DEL revoke:<u>; an error is ignored.
CacheDel(r) ==
    LET u == tok[r].user IN
    /\ pc[r] = "cacheDel"
    /\ \/ /\ cached' = [cached EXCEPT ![u] = Null]
          /\ ttl' = [ttl EXCEPT ![u] = 0]
       \/ "redis" \in Faults /\ UNCHANGED <<cached, ttl>>
    /\ Goto(r, "respond")
    /\ UNCHANGED <<now, tokens, db, tok, seen, before, base, acked, superseded>>

\* 200: the caller now relies on the revocation.
Respond(r) ==
    /\ pc[r] = "respond"
    /\ acked' = [acked EXCEPT ![tok[r].user] =
          IF @ = Null \/ @ < before[r] THEN before[r] ELSE @]
    /\ Finish(r)
    /\ UNCHANGED <<now, tokens, store, superseded>>

\* The process serving r dies between two calls; both stores keep their state.
Crash(r) ==
    /\ "crash" \in Faults
    /\ pc[r] # "idle"
    /\ Finish(r)
    /\ UNCHANGED <<now, tokens, store, acked, superseded>>

Step(r) ==
    \/ \E tk \in tokens : ValidateToken(r, tk)
    \/ CacheGet(r)
    \/ DbSelect(r)
    \/ CacheSet(r)
    \/ Deny(r)
    \/ Protected(r)
    \/ RevokeToken(r)
    \/ DbUpdate(r)
    \/ Fail(r)
    \/ CacheDel(r)
    \/ Respond(r)
    \/ Crash(r)

Next ==
    \/ Tick
    \/ \E u \in Users : GenerateToken(u)
    \/ \E r \in Requests : Step(r)

Spec == Init /\ [][Next]_vars

\* Time passes.  Nothing is assumed of requests: any of them may hang for ever.
FairSpec == Spec /\ WF_vars(Tick)

--------------------------------------------------------------------------------
(* Safety                                                                  *)

Instant == Times \cup {Null}

\* Every variable has its type, and a request in progress has its token.
TypeOK ==
    /\ now \in 0 .. MaxTime
    /\ tokens \subseteq Token
    /\ db \in [Users -> Instant]
    /\ cached \in [Users -> Instant]
    /\ ttl \in [Users -> 0 .. RevokeDuration]
    /\ pc \in [Requests -> PCs]
    /\ tok \in [Requests -> Token \cup {Null}]
    /\ seen \in [Requests -> Instant]
    /\ before \in [Requests -> Instant]
    /\ acked \in [Users -> Instant]
    /\ base \in [Requests -> Instant]
    /\ superseded \in [Users -> BOOLEAN]
    /\ \A r \in Requests : pc[r] # "idle" => tok[r] \in Token
    /\ \A r \in Requests :
          pc[r] \in {"dbUpdate", "cacheDel", "respond"} => before[r] # Null

\* t is a limit that the row of u has reached.
Reached(u, t) == db[u] # Null /\ t <= db[u]

\* The cache may lag behind the database and never runs ahead of it: neither
\* the entry nor a SET still in flight holds a limit the row has not reached,
\* however reads, updates and deletes of the two stores interleave.
CacheNeverAhead ==
    /\ \A u \in Users : cached[u] # Null => Reached(u, cached[u])
    /\ \A r \in Requests :
          pc[r] = "cacheSet" => seen[r] # Null /\ Reached(tok[r].user, seen[r])

\* A request is never turned away for a revocation that did not happen: a token
\* answered with "token has been revoked" is older, at JWT resolution, than the
\* limit in the database, even when the verdict came from the cache.
RejectionSound ==
    \A r \in Requests :
        pc[r] = "rejected" =>
            /\ db[tok[r].user] # Null
            /\ IssuedAt(tok[r]) < db[tok[r].user]

\* A revocation that was answered with 200, or is past its UPDATE, is never
\* undone: not by an older revocation that arrives late, not by a crash, not by
\* anything the cache holds.
AckedDurable ==
    /\ \A u \in Users : acked[u] # Null => Reached(u, acked[u])
    /\ \A r \in Requests :
          pc[r] \in {"cacheDel", "respond"} => Reached(tok[r].user, before[r])

\* What the README promises: after a revocation was acknowledged no request that
\* arrives later is let through with a token issued before its limit.
Honours(r) == base[r] = Null \/ IssuedAt(tok[r]) >= base[r]

HonoursAcked == \A r \in Requests : pc[r] = "accepted" => Honours(r)

\* A token handed out after the instant of the limit survives the revocation
\* ("revoked if it was issued BEFORE the user's last_revoked_token_at").
LaterTokenSurvives ==
    \A r \in Requests :
        pc[r] = "rejected" => tok[r].at <= db[tok[r].user]

--------------------------------------------------------------------------------
(* What a step may never do                                                *)

\* No step takes a revocation limit back.
LimitForward ==
    \A u \in Users : db[u] # Null => db'[u] # Null /\ db[u] <= db'[u]

LimitNeverBack == [][LimitForward]_vars

\* The first revocation of a user takes effect at once, even through the cache:
\* "never revoked" is not cached, so as long as the row has held one limit only
\* no cached or freshly read value lets an older token pass.
FirstRevocationHonoured ==
    [][\A r \in Requests :
         (/\ pc[r] \in {"cacheGet", "cacheSet"}
          /\ pc'[r] = "accepted"
          /\ ~superseded[tok[r].user]) => Honours(r)]_vars

--------------------------------------------------------------------------------
(* Liveness                                                                *)

Stale(u) == cached[u] # Null /\ cached[u] # db[u]

\* A superseded limit does not stay in the cache for good: a SET that lost its
\* race with a revocation is undone by its time to live, with no help from
\* further requests and even if every DEL fails.
StaleHeals == \A u \in Users : []<>~Stale(u)

--------------------------------------------------------------------------------
(* The promise                                                             *)

VerdictOf(label) ==
    CASE label = "rejected" -> "revoked"
      [] label \in {"accepted", "dbUpdate", "cacheDel", "respond", "failed"} -> "valid"
      [] OTHER -> "none"

QuestionOf(label, tk) ==
    IF label = "idle" THEN Null ELSE [user |-> tk.user, iat |-> IssuedAt(tk)]

Promise == INSTANCE RevocationPromise WITH
    Times   <- Times,
    Prompt  <- ~HasRedis /\ "db" \notin Faults,
    limit   <- db,
    asked   <- [r \in Requests |-> QuestionOf(pc[r], tok[r])],
    verdict <- [r \in Requests |-> VerdictOf(pc[r])]

\* Every behaviour of the two stores and the requests is one of the promise:
\* prompt without Redis, lagging with it.
KeepsPromise == Promise!PromiseSpec

================================================================================
