-------------------------- MODULE TokenRevocationProofs --------------------------
(***************************************************************************)
(* Proofs about TokenRevocation, for any users, requests, clock bound,     *)
(* resolution, durations and faults.                                       *)
(***************************************************************************)
EXTENDS TokenRevocation, TLAPS

\* The instants of the model are integers, and so is everything compared.
LEMMA InstantsAreIntegers ==
    /\ Times \subseteq Int
    /\ 0 \in Times
    /\ Null \notin Times
<1>1. (0 .. MaxTime) \subseteq Int /\ 0 \in 0 .. MaxTime
    BY RevocationAssumption
<1>2. Times \subseteq Int
    BY <1>1, RevocationAssumption DEF Times
<1>3. Null \notin Times
    BY <1>2, RevocationAssumption
<1> QED BY <1>1, <1>2, <1>3 DEF Times

\* The issue time a JWT carries is an integer.
LEMMA IssuedAtInt == \A tk \in Token : IssuedAt(tk) \in Int
BY RevocationAssumption DEF Token, IssuedAt, NumericDate

\* It is never later than the instant the token was made, less than a second
\* earlier, and an instant of the clock.
LEMMA IssuedAtRoundsDown ==
    \A tk \in Token :
        /\ IssuedAt(tk) \in 0 .. MaxTime
        /\ IssuedAt(tk) <= tk.at
        /\ tk.at < IssuedAt(tk) + TicksPerSecond
<1> SUFFICES ASSUME NEW t \in 0 .. MaxTime
             PROVE  /\ NumericDate(t) \in 0 .. t
                    /\ t < NumericDate(t) + TicksPerSecond
    BY RevocationAssumption DEF Token, IssuedAt
<1>1. t \in Nat /\ TicksPerSecond \in Nat \ {0}
    BY RevocationAssumption
<1>2. t % TicksPerSecond \in 0 .. (TicksPerSecond - 1)
    BY <1>1
<1>3. t % TicksPerSecond <= t
    BY <1>1
<1> QED BY <1>1, <1>2, <1>3 DEF NumericDate

\* What the UPDATE leaves in the row: an instant, at least the one it was given,
\* and never before the one it found.
LEMMA LaterReaches ==
    ASSUME NEW old \in Instant, NEW t \in Times
    PROVE  /\ Later(old, t) \in Times
           /\ t <= Later(old, t)
           /\ old # Null => old <= Later(old, t)
BY InstantsAreIntegers DEF Instant, Later

--------------------------------------------------------------------------------
(* Types                                                                   *)

LEMMA InitTypeOK == Init => TypeOK
BY RevocationAssumption, InstantsAreIntegers
   DEF Init, TypeOK, Instant, Times, PCs

LEMMA StepTypeOK == TypeOK /\ [Next]_vars => TypeOK'
<1> SUFFICES ASSUME TypeOK, [Next]_vars PROVE TypeOK'
    OBVIOUS
<1> USE RevocationAssumption, InstantsAreIntegers DEF TypeOK, Instant, PCs, store, locals
<1>1. CASE Tick
    BY <1>1 DEF Tick, Times
<1>2. ASSUME NEW u \in Users, GenerateToken(u) PROVE TypeOK'
    BY <1>2 DEF GenerateToken, Token
<1>3. ASSUME NEW r \in Requests, Step(r) PROVE TypeOK'
    <2>1. ASSUME NEW tk \in tokens, ValidateToken(r, tk) PROVE TypeOK'
        <3>1. tk \in Token /\ tk.user \in Users
            BY DEF Token
        <3> QED BY <2>1, <3>1 DEF ValidateToken, Goto
    <2>2. CASE CacheGet(r)
        BY <2>2 DEF CacheGet, Judge, Goto
    <2>3. CASE DbSelect(r)
        <3>1. tok[r] \in Token /\ tok[r].user \in Users
            BY <2>3 DEF DbSelect, Token
        <3> QED BY <2>3, <3>1 DEF DbSelect, Judge, Goto
    <2>4. CASE CacheSet(r)
        BY <2>4 DEF CacheSet, Judge, Goto
    <2>5. CASE Deny(r)
        BY <2>5 DEF Deny, Finish, Goto
    <2>6. CASE Protected(r)
        BY <2>6 DEF Protected, Finish, Goto
    <2>7. CASE RevokeToken(r)
        <3>1. PICK t \in {now} \cup ClientTimes : before' = [before EXCEPT ![r] = t]
            BY <2>7 DEF RevokeToken
        <3>2. t \in Times
            BY DEF Times
        <3> QED BY <2>7, <3>1, <3>2 DEF RevokeToken, Goto
    <2>8. CASE DbUpdate(r)
        <3>1. tok[r] \in Token /\ tok[r].user \in Users /\ before[r] \in Times
            BY <2>8 DEF DbUpdate, Token
        <3>2. Later(db[tok[r].user], before[r]) \in Times
            BY <3>1, LaterReaches
        <3>3. CASE SetLimit(tok[r].user, before[r])
            <4>1. db' \in [Users -> Instant] /\ superseded' \in [Users -> BOOLEAN]
                BY <3>1, <3>2, <3>3 DEF SetLimit
            <4> QED BY <2>8, <4>1 DEF DbUpdate, Goto
        <3>4. CASE UNCHANGED <<db, superseded>>
            BY <2>8, <3>4 DEF DbUpdate, Goto
        <3> QED BY <2>8, <3>3, <3>4 DEF DbUpdate
    <2>9. CASE Fail(r)
        BY <2>9 DEF Fail, Finish, Goto
    <2>10. CASE CacheDel(r)
        BY <2>10 DEF CacheDel, Goto
    <2>11. CASE Respond(r)
        <3>1. before[r] \in Times
            BY <2>11 DEF Respond
        <3>2. acked' \in [Users -> Instant]
            BY <2>11, <3>1 DEF Respond
        <3> QED BY <2>11, <3>2 DEF Respond, Finish, Goto
    <2>12. CASE Crash(r)
        BY <2>12 DEF Crash, Finish, Goto
    <2> QED BY <1>3, <2>1, <2>2, <2>3, <2>4, <2>5, <2>6, <2>7, <2>8, <2>9, <2>10,
               <2>11, <2>12 DEF Step
<1>4. CASE UNCHANGED vars
    BY <1>4 DEF vars
<1> QED BY <1>1, <1>2, <1>3, <1>4 DEF Next

\* Type correctness, for every instance: the variables keep their types and a
\* request in progress always has a token, and a limit once it revokes.
THEOREM TypeCorrect == Spec => []TypeOK
<1>1. Init => TypeOK
    BY InitTypeOK
<1>2. TypeOK /\ [Next]_vars => TypeOK'
    BY StepTypeOK
<1> QED BY <1>1, <1>2, PTL DEF Spec

--------------------------------------------------------------------------------
(* The limit only moves forward                                            *)

LEMMA StepLimitForward == TypeOK /\ [Next]_vars => LimitForward
<1> SUFFICES ASSUME TypeOK, [Next]_vars, NEW u \in Users, db[u] # Null
             PROVE  db'[u] # Null /\ db[u] <= db'[u]
    BY DEF LimitForward
<1> USE DEF TypeOK, Instant, store
<1>0. db[u] \in Int
    BY InstantsAreIntegers
<1>1. CASE UNCHANGED db
    BY <1>0, <1>1
<1>2. ASSUME NEW r \in Requests, DbUpdate(r), SetLimit(tok[r].user, before[r])
      PROVE  db'[u] # Null /\ db[u] <= db'[u]
    <2>1. before[r] \in Times
        BY <1>2 DEF DbUpdate
    <2>2. Later(db[u], before[r]) \in Times /\ db[u] <= Later(db[u], before[r])
        BY <2>1, LaterReaches
    <2>3. db'[u] = db[u] \/ db'[u] = Later(db[u], before[r])
        BY <1>2 DEF SetLimit
    <2> QED BY <1>0, <2>2, <2>3, InstantsAreIntegers
<1>3. CASE Tick \/ \E v \in Users : GenerateToken(v)
    BY <1>1, <1>3 DEF Tick, GenerateToken
<1>4. ASSUME NEW r \in Requests, Step(r)
      PROVE  UNCHANGED db \/ (DbUpdate(r) /\ SetLimit(tok[r].user, before[r]))
    BY <1>4 DEF Step, ValidateToken, CacheGet, DbSelect, CacheSet, Deny, Protected,
                RevokeToken, DbUpdate, Fail, CacheDel, Respond, Crash
<1> QED BY <1>1, <1>2, <1>3, <1>4 DEF Next, vars

\* No step of any instance takes a revocation limit back.
THEOREM LimitIsMonotone == Spec => LimitNeverBack
<1>1. TypeOK /\ [Next]_vars => [LimitForward]_vars
    BY StepLimitForward
<1> QED BY <1>1, TypeCorrect, PTL DEF Spec, LimitNeverBack

--------------------------------------------------------------------------------
(* The inductive invariant                                                 *)

\* A request knows of no acknowledgement the row does not back.
BaseReached ==
    \A r \in Requests : base[r] # Null => pc[r] # "idle" /\ Reached(tok[r].user, base[r])

\* While a user's first limit stands, the cache and the SETs in flight hold it.
FirstLimitCached ==
    /\ \A u \in Users : cached[u] # Null /\ ~superseded[u] => cached[u] = db[u]
    /\ \A r \in Requests :
          pc[r] = "cacheSet" /\ ~superseded[tok[r].user] => seen[r] = db[tok[r].user]

\* Without Redis the cache is never looked at, and without failing queries a
\* request that is let through carries a token newer than all it relied on.
RowDecides ==
    ~HasRedis =>
        /\ \A r \in Requests : pc[r] \notin {"cacheGet", "cacheSet", "cacheDel"}
        /\ "db" \notin Faults => HonoursAcked

IInv ==
    /\ TypeOK
    /\ CacheNeverAhead
    /\ RejectionSound
    /\ AckedDurable
    /\ BaseReached
    /\ FirstLimitCached
    /\ RowDecides

LEMMA InitIInv == Init => IInv
BY InitTypeOK, InstantsAreIntegers
   DEF Init, IInv, CacheNeverAhead, RejectionSound, AckedDurable, BaseReached,
       FirstLimitCached, RowDecides, HonoursAcked

\* A limit the row has reached stays reached.
LEMMA ReachedStable ==
    ASSUME TypeOK, TypeOK', LimitForward,
           NEW u \in Users, NEW t \in Times, Reached(u, t)
    PROVE  Reached(u, t)'
<1>1. db[u] # Null /\ t <= db[u] /\ db'[u] # Null /\ db[u] <= db'[u]
    BY DEF LimitForward, Reached
<1>2. t \in Int /\ db[u] \in Int /\ db'[u] \in Int
    BY <1>1, InstantsAreIntegers DEF TypeOK, Instant
<1> QED BY <1>1, <1>2 DEF Reached

\* A step belongs to one request; the locals of the others stay as they are.
LEMMA OneRequestMoves ==
    ASSUME TypeOK, [Next]_vars, NEW q \in Requests
    PROVE  \/ Step(q)
           \/ UNCHANGED <<pc[q], tok[q], seen[q], before[q], base[q]>>
<1>1. CASE UNCHANGED locals
    BY <1>1 DEF locals
<1>2. CASE Tick \/ (\E u \in Users : GenerateToken(u)) \/ UNCHANGED vars
    BY <1>1, <1>2 DEF Tick, GenerateToken, vars, locals
<1>3. ASSUME NEW r \in Requests, Step(r), r # q
      PROVE  UNCHANGED <<pc[q], tok[q], seen[q], before[q], base[q]>>
    BY <1>3 DEF TypeOK, Step, ValidateToken, CacheGet, DbSelect, CacheSet, Deny, Protected,
                RevokeToken, DbUpdate, Fail, CacheDel, Respond, Crash, Goto, Judge, Finish
<1> QED BY <1>2, <1>3 DEF Next

\* Only a SET puts a value into the cache.
LEMMA OnlySetFillsCache ==
    ASSUME TypeOK, [Next]_vars, NEW u \in Users
    PROVE  \/ cached'[u] \in {cached[u], Null}
           \/ \E r \in Requests :
                 CacheSet(r) /\ u = tok[r].user /\ cached'[u] = seen[r]
<1> USE DEF TypeOK
<1>1. CASE UNCHANGED cached
    BY <1>1
<1>2. CASE Tick
    BY <1>2 DEF Tick
<1>3. CASE (\E v \in Users : GenerateToken(v)) \/ UNCHANGED vars
    BY <1>1, <1>3 DEF GenerateToken, vars, store
<1>4. ASSUME NEW r \in Requests, Step(r)
      PROVE  UNCHANGED cached \/ CacheDel(r) \/ CacheSet(r)
    BY <1>4 DEF Step, ValidateToken, CacheGet, DbSelect, Deny, Protected, RevokeToken,
                DbUpdate, Fail, Respond, Crash, store
<1>5. ASSUME NEW r \in Requests, CacheDel(r)
      PROVE  cached'[u] \in {cached[u], Null}
    BY <1>5 DEF CacheDel
<1>6. ASSUME NEW r \in Requests, CacheSet(r), cached'[u] # cached[u]
      PROVE  u = tok[r].user /\ cached'[u] = seen[r]
    BY <1>6 DEF CacheSet
<1> QED BY <1>1, <1>2, <1>3, <1>4, <1>5, <1>6 DEF Next

LEMMA StepCacheNeverAhead ==
    ASSUME IInv, TypeOK', LimitForward, [Next]_vars
    PROVE  CacheNeverAhead'
<1>0. TypeOK /\ CacheNeverAhead
    BY DEF IInv
<1>1. ASSUME NEW u \in Users, cached'[u] # Null PROVE Reached(u, cached[u])'
    <2>1. Reached(u, cached'[u])
        BY <1>0, <1>1, OnlySetFillsCache DEF CacheNeverAhead, CacheSet
    <2>2. cached'[u] \in Times
        BY <1>1 DEF TypeOK, Instant
    <2> QED BY <1>0, <2>1, <2>2, ReachedStable DEF Reached
<1>2. ASSUME NEW q \in Requests, pc'[q] = "cacheSet"
      PROVE  seen'[q] # Null /\ Reached(tok[q].user, seen[q])'
    <2>1. tok'[q].user \in Users
        BY <1>2 DEF TypeOK, Token
    <2>2. CASE Step(q)
        <3>1. DbSelect(q) /\ seen' = [seen EXCEPT ![q] = db[tok[q].user]]
              /\ db[tok[q].user] # Null /\ UNCHANGED <<tok, db>>
            BY <1>0, <1>2, <2>2
               DEF TypeOK, Step, ValidateToken, CacheGet, DbSelect, CacheSet, Deny, Protected,
                   RevokeToken, DbUpdate, Fail, CacheDel, Respond, Crash, Goto, Judge,
                   Finish, store
        <3>2. seen'[q] = db'[tok'[q].user]
            BY <1>0, <3>1 DEF TypeOK
        <3>3. seen'[q] \in Int /\ seen'[q] # Null
            BY <1>0, <2>1, <3>1, <3>2, InstantsAreIntegers DEF TypeOK, Instant
        <3> QED BY <3>2, <3>3 DEF Reached
    <2>3. CASE UNCHANGED <<pc[q], tok[q], seen[q], before[q], base[q]>>
        <3>1. seen[q] # Null /\ Reached(tok[q].user, seen[q])
            BY <1>0, <1>2, <2>3 DEF CacheNeverAhead
        <3>2. seen[q] \in Times
            BY <1>0, <3>1 DEF TypeOK, Instant
        <3> QED BY <1>0, <2>1, <2>3, <3>1, <3>2, ReachedStable DEF Reached
    <2> QED BY <1>0, <2>2, <2>3, OneRequestMoves
<1> QED BY <1>1, <1>2 DEF CacheNeverAhead

LEMMA StepRejectionSound ==
    ASSUME IInv, TypeOK', LimitForward, [Next]_vars
    PROVE  RejectionSound'
<1> SUFFICES ASSUME NEW q \in Requests, pc'[q] = "rejected"
             PROVE  db'[tok'[q].user] # Null /\ IssuedAt(tok'[q]) < db'[tok'[q].user]
    BY DEF RejectionSound, IssuedAt, NumericDate
<1> DEFINE tk == tok[q]
<1>0. TypeOK /\ CacheNeverAhead /\ RejectionSound
    BY DEF IInv
<1>1. ASSUME tk \in Token, db[tk.user] # Null, IssuedAt(tk) < db[tk.user], tok'[q] = tk
      PROVE  db'[tok'[q].user] # Null /\ IssuedAt(tok'[q]) < db'[tok'[q].user]
    <2>1. tk.user \in Users /\ IssuedAt(tk) \in Int
        BY <1>1, IssuedAtInt DEF Token
    <2>2. db'[tk.user] # Null /\ db[tk.user] <= db'[tk.user]
        BY <1>1, <2>1 DEF LimitForward
    <2>3. db[tk.user] \in Int /\ db'[tk.user] \in Int
        BY <1>0, <1>1, <2>1, <2>2, InstantsAreIntegers DEF TypeOK, Instant
    <2> QED BY <1>1, <2>1, <2>2, <2>3
<1>2. CASE UNCHANGED <<pc[q], tok[q], seen[q], before[q], base[q]>>
    BY <1>0, <1>1, <1>2 DEF RejectionSound, TypeOK
<1>3. CASE Step(q)
    <2>1. pc[q] # "idle" /\ tok'[q] = tk /\ tk \in Token /\ tk.user \in Users
        BY <1>0, <1>3
           DEF TypeOK, Token, Step, ValidateToken, CacheGet, DbSelect, CacheSet, Deny,
               Protected, RevokeToken, DbUpdate, Fail, CacheDel, Respond, Crash, Goto, Judge,
               Finish
    <2>2. PICK t \in Instant :
              t # Null /\ Reached(tk.user, t) /\ IssuedAt(tk) < t
        <3>1. CASE CacheGet(q) /\ Judge(q, cached[tk.user]) /\ cached[tk.user] # Null
            BY <1>0, <2>1, <3>1 DEF TypeOK, Judge, Goto, CacheNeverAhead
        <3>2. CASE CacheSet(q)
            BY <1>0, <2>1, <3>2 DEF TypeOK, CacheSet, Judge, Goto, CacheNeverAhead
        <3>3. CASE DbSelect(q) /\ Judge(q, db[tk.user]) /\ db[tk.user] # Null
            <4>1. IssuedAt(tk) < db[tk.user]
                BY <1>0, <3>3 DEF TypeOK, Judge, Goto
            <4>2. db[tk.user] \in Instant /\ db[tk.user] \in Int
                BY <1>0, <2>1, <3>3, InstantsAreIntegers DEF TypeOK, Instant
            <4>3. Reached(tk.user, db[tk.user])
                BY <3>3, <4>2 DEF Reached
            <4> QED BY <3>3, <4>1, <4>2, <4>3
        <3>4. \/ CacheGet(q) /\ Judge(q, cached[tk.user]) /\ cached[tk.user] # Null
              \/ CacheSet(q)
              \/ DbSelect(q) /\ Judge(q, db[tk.user]) /\ db[tk.user] # Null
            BY <1>0, <1>3
               DEF TypeOK, Step, ValidateToken, CacheGet, DbSelect, Deny, Protected,
                   RevokeToken, DbUpdate, Fail, CacheDel, Respond, Crash, Goto, Finish
        <3> QED BY <3>1, <3>2, <3>3, <3>4
    <2>3. t \in Int /\ IssuedAt(tk) \in Int /\ db[tk.user] \in Int
        BY <1>0, <2>1, <2>2, IssuedAtInt, InstantsAreIntegers DEF TypeOK, Instant, Reached
    <2>4. db[tk.user] # Null /\ IssuedAt(tk) < db[tk.user]
        BY <2>2, <2>3 DEF Reached
    <2> QED BY <1>1, <2>1, <2>4
<1> QED BY <1>0, <1>2, <1>3, OneRequestMoves

LEMMA StepAckedDurable ==
    ASSUME IInv, TypeOK', LimitForward, [Next]_vars
    PROVE  AckedDurable'
<1>0. TypeOK /\ AckedDurable
    BY DEF IInv
<1>1. ASSUME NEW u \in Users, acked'[u] # Null PROVE Reached(u, acked[u])'
    <2>1. CASE UNCHANGED acked
        <3>1. Reached(u, acked[u]) /\ acked[u] \in Times
            BY <1>0, <1>1, <2>1 DEF AckedDurable, TypeOK, Instant
        <3> QED BY <1>0, <2>1, <3>1, ReachedStable DEF Reached
    <2>2. ASSUME NEW r \in Requests, Respond(r) PROVE Reached(u, acked[u])'
        <3>1. acked'[u] = acked[u] \/ (u = tok[r].user /\ acked'[u] = before[r])
            BY <1>0, <2>2 DEF Respond, TypeOK
        <3>2. Reached(u, acked'[u]) /\ acked'[u] \in Times
            BY <1>0, <1>1, <2>2, <3>1 DEF AckedDurable, TypeOK, Instant, Respond
        <3> QED BY <1>0, <3>2, ReachedStable DEF Reached
    <2>3. UNCHANGED acked \/ \E r \in Requests : Respond(r)
        BY DEF Next, vars, Tick, GenerateToken, Step, ValidateToken, CacheGet, DbSelect,
               CacheSet, Deny, Protected, RevokeToken, DbUpdate, Fail, CacheDel, Crash
    <2> QED BY <2>1, <2>2, <2>3
<1>2. ASSUME NEW q \in Requests, pc'[q] \in {"cacheDel", "respond"}
      PROVE  Reached(tok[q].user, before[q])'
    <2>1. tok'[q].user \in Users
        BY <1>2 DEF TypeOK, Token
    <2>2. CASE pc[q] \in {"cacheDel", "respond"} /\ tok'[q] = tok[q] /\ before'[q] = before[q]
        <3>1. Reached(tok[q].user, before[q]) /\ before[q] \in Times
            BY <1>0, <2>2 DEF AckedDurable, TypeOK, Instant
        <3> QED BY <1>0, <2>1, <2>2, <3>1, ReachedStable DEF Reached
    <2>3. CASE DbUpdate(q) /\ SetLimit(tok[q].user, before[q])
        <3>1. before[q] \in Times /\ tok'[q] = tok[q] /\ before'[q] = before[q]
            BY <1>0, <2>3 DEF DbUpdate, TypeOK, Instant
        <3>2. db'[tok[q].user] = Later(db[tok[q].user], before[q])
            BY <1>0, <2>1, <2>3, <3>1 DEF SetLimit, TypeOK
        <3>3. db'[tok[q].user] \in Times /\ before[q] <= db'[tok[q].user]
            BY <1>0, <2>1, <3>1, <3>2, LaterReaches DEF TypeOK
        <3> QED BY <3>1, <3>3, InstantsAreIntegers DEF Reached
    <2>4. CASE Step(q)
        BY <1>0, <1>2, <2>2, <2>3, <2>4
           DEF TypeOK, Step, ValidateToken, CacheGet, DbSelect, CacheSet, Deny, Protected,
               RevokeToken, DbUpdate, Fail, CacheDel, Respond, Crash, Goto, Judge, Finish
    <2>5. CASE UNCHANGED <<pc[q], tok[q], seen[q], before[q], base[q]>>
        BY <1>2, <2>2, <2>5
    <2> QED BY <1>0, <2>4, <2>5, OneRequestMoves
<1> QED BY <1>1, <1>2 DEF AckedDurable

LEMMA StepBaseReached ==
    ASSUME IInv, TypeOK', LimitForward, [Next]_vars
    PROVE  BaseReached'
<1> SUFFICES ASSUME NEW q \in Requests, base'[q] # Null
             PROVE  pc'[q] # "idle" /\ Reached(tok[q].user, base[q])'
    BY DEF BaseReached
<1>0. TypeOK /\ AckedDurable /\ BaseReached
    BY DEF IInv
<1>1. CASE base'[q] = base[q] /\ tok'[q] = tok[q] /\ pc'[q] # "idle"
    <2>1. tok[q].user \in Users /\ base[q] \in Times /\ Reached(tok[q].user, base[q])
        BY <1>0, <1>1 DEF BaseReached, TypeOK, Instant, Token
    <2> QED BY <1>0, <1>1, <2>1, ReachedStable DEF Reached
<1>2. ASSUME NEW tk \in tokens, ValidateToken(q, tk)
      PROVE  pc'[q] # "idle" /\ Reached(tok[q].user, base[q])'
    <2>1. /\ tok'[q] = tk /\ base'[q] = acked[tk.user] /\ pc'[q] # "idle"
          /\ tk.user \in Users
        BY <1>0, <1>2 DEF ValidateToken, Goto, TypeOK, Token
    <2>2. Reached(tk.user, acked[tk.user]) /\ acked[tk.user] \in Times
        BY <1>0, <2>1 DEF AckedDurable, TypeOK, Instant
    <2> QED BY <1>0, <2>1, <2>2, ReachedStable DEF Reached
<1>3. CASE Step(q)
    BY <1>0, <1>1, <1>2, <1>3
       DEF TypeOK, Step, CacheGet, DbSelect, CacheSet, Deny, Protected, RevokeToken,
           DbUpdate, Fail, CacheDel, Respond, Crash, Goto, Judge, Finish
<1>4. CASE UNCHANGED <<pc[q], tok[q], seen[q], before[q], base[q]>>
    BY <1>0, <1>1, <1>4 DEF BaseReached
<1> QED BY <1>0, <1>3, <1>4, OneRequestMoves

\* A row that is still at its first limit after a step was so before it, or had
\* no limit at all.
LEMMA FirstLimitStands ==
    ASSUME TypeOK, [Next]_vars, NEW u \in Users, ~superseded'[u]
    PROVE  ~superseded[u] /\ (db[u] = Null \/ db'[u] = db[u])
<1>1. CASE UNCHANGED <<db, superseded>>
    BY <1>1
<1>2. ASSUME NEW r \in Requests, DbUpdate(r), SetLimit(tok[r].user, before[r])
      PROVE  ~superseded[u] /\ (db[u] = Null \/ db'[u] = db[u])
    BY <1>2 DEF SetLimit, TypeOK
<1>3. CASE Tick \/ \E v \in Users : GenerateToken(v)
    BY <1>1, <1>3 DEF Tick, GenerateToken, store
<1>4. ASSUME NEW r \in Requests, Step(r)
      PROVE  \/ UNCHANGED <<db, superseded>>
             \/ DbUpdate(r) /\ SetLimit(tok[r].user, before[r])
    BY <1>4 DEF Step, ValidateToken, CacheGet, DbSelect, CacheSet, Deny, Protected,
                RevokeToken, DbUpdate, Fail, CacheDel, Respond, Crash, store
<1> QED BY <1>1, <1>2, <1>3, <1>4 DEF Next, vars

LEMMA StepFirstLimitCached ==
    ASSUME IInv, TypeOK', LimitForward, [Next]_vars
    PROVE  FirstLimitCached'
<1>0. TypeOK /\ CacheNeverAhead /\ FirstLimitCached
    BY DEF IInv
<1>1. ASSUME NEW u \in Users, cached'[u] # Null, ~superseded'[u]
      PROVE  cached'[u] = db'[u]
    <2>1. ~superseded[u] /\ (db[u] = Null \/ db'[u] = db[u])
        BY <1>0, <1>1, FirstLimitStands
    <2>2. CASE cached'[u] = cached[u]
        BY <1>0, <1>1, <2>1, <2>2 DEF FirstLimitCached, CacheNeverAhead, Reached
    <2>3. ASSUME NEW r \in Requests, CacheSet(r), u = tok[r].user, cached'[u] = seen[r]
          PROVE  cached'[u] = db'[u]
        BY <1>0, <2>1, <2>3 DEF FirstLimitCached, CacheSet
    <2> QED BY <1>0, <1>1, <2>2, <2>3, OnlySetFillsCache
<1>2. ASSUME NEW q \in Requests, pc'[q] = "cacheSet", ~superseded'[tok'[q].user]
      PROVE  seen'[q] = db'[tok'[q].user]
    <2>1. tok'[q].user \in Users
        BY <1>2 DEF TypeOK, Token
    <2>2. CASE UNCHANGED <<pc[q], tok[q], seen[q], before[q], base[q]>>
        BY <1>0, <1>2, <2>1, <2>2, FirstLimitStands
           DEF FirstLimitCached, CacheNeverAhead, Reached
    <2>3. CASE Step(q)
        <3>1. DbSelect(q) /\ seen' = [seen EXCEPT ![q] = db[tok[q].user]] /\ UNCHANGED <<tok, db>>
            BY <1>0, <1>2, <2>3
               DEF TypeOK, Step, ValidateToken, CacheGet, DbSelect, CacheSet, Deny, Protected,
                   RevokeToken, DbUpdate, Fail, CacheDel, Respond, Crash, Goto, Judge,
                   Finish, store
        <3> QED BY <1>0, <3>1 DEF TypeOK
    <2> QED BY <1>0, <2>2, <2>3, OneRequestMoves
<1> QED BY <1>1, <1>2 DEF FirstLimitCached

LEMMA StepRowDecides ==
    ASSUME IInv, TypeOK', [Next]_vars
    PROVE  RowDecides'
<1> SUFFICES ASSUME ~HasRedis, NEW q \in Requests
             PROVE  /\ pc'[q] \notin {"cacheGet", "cacheSet", "cacheDel"}
                    /\ "db" \notin Faults /\ pc'[q] = "accepted" => Honours(q)'
    BY DEF RowDecides, HonoursAcked
<1>0. /\ TypeOK /\ BaseReached
      /\ pc[q] \notin {"cacheGet", "cacheSet", "cacheDel"}
      /\ "db" \notin Faults /\ pc[q] = "accepted" => Honours(q)
    BY DEF IInv, RowDecides, HonoursAcked
<1>1. CASE UNCHANGED <<pc[q], tok[q], seen[q], before[q], base[q]>>
    BY <1>0, <1>1 DEF Honours, IssuedAt, NumericDate
<1>2. CASE Step(q)
    <2>1. pc'[q] \notin {"cacheGet", "cacheSet", "cacheDel"}
        BY <1>0, <1>2
           DEF TypeOK, Step, ValidateToken, CacheGet, DbSelect, CacheSet, Deny, Protected,
               RevokeToken, DbUpdate, Fail, CacheDel, Respond, Crash, Goto, Judge, Finish
    <2>2. ASSUME "db" \notin Faults, pc'[q] = "accepted", base'[q] # Null
          PROVE  IssuedAt(tok[q])' >= base'[q]
        <3> DEFINE tk == tok[q]
        <3>1. /\ pc[q] = "dbSelect" /\ tok'[q] = tk /\ base'[q] = base[q]
              /\ db[tk.user] = Null \/ ~(IssuedAt(tk) < db[tk.user])
            BY <1>0, <1>2, <2>2
               DEF TypeOK, Step, ValidateToken, CacheGet, DbSelect, CacheSet, Deny, Protected,
                   RevokeToken, DbUpdate, Fail, CacheDel, Respond, Crash, Goto, Judge, Finish
        <3>2. tk \in Token /\ tk.user \in Users /\ Reached(tk.user, base[q])
            BY <1>0, <2>2, <3>1 DEF BaseReached, TypeOK, Token
        <3>3. IssuedAt(tk) \in Int /\ base[q] \in Int /\ db[tk.user] \in Int
            BY <1>0, <2>2, <3>1, <3>2, IssuedAtInt, InstantsAreIntegers
               DEF TypeOK, Instant, Reached
        <3>4. IssuedAt(tk) >= base[q]
            BY <3>1, <3>2, <3>3 DEF Reached
        <3> QED BY <3>1, <3>4 DEF IssuedAt, NumericDate
    <2> QED BY <2>1, <2>2 DEF Honours
<1> QED BY <1>0, <1>1, <1>2, OneRequestMoves

THEOREM Invariant == Spec => []IInv
<1>1. IInv /\ [Next]_vars => IInv'
    <2> SUFFICES ASSUME IInv, [Next]_vars PROVE IInv'
        OBVIOUS
    <2>1. TypeOK' /\ LimitForward
        BY StepTypeOK, StepLimitForward DEF IInv
    <2>2. CacheNeverAhead' /\ RejectionSound' /\ AckedDurable'
        BY <2>1, StepCacheNeverAhead, StepRejectionSound, StepAckedDurable
    <2>3. BaseReached' /\ FirstLimitCached' /\ RowDecides'
        BY <2>1, StepBaseReached, StepFirstLimitCached, StepRowDecides
    <2> QED BY <2>1, <2>2, <2>3 DEF IInv
<1> QED BY <1>1, InitIInv, PTL DEF Spec

--------------------------------------------------------------------------------
(* What the invariant gives                                                *)

\* The cache never holds a limit the row has not reached.
THEOREM CacheIsNeverAhead == Spec => []CacheNeverAhead
BY Invariant, PTL DEF IInv

\* No request is turned away for a revocation that did not happen.
THEOREM RejectionsAreSound == Spec => []RejectionSound
BY Invariant, PTL DEF IInv

\* An acknowledged revocation is never lost from the row.
THEOREM AckedIsDurable == Spec => []AckedDurable
BY Invariant, PTL DEF IInv

\* Without Redis, and while the database answers, an acknowledged revocation
\* holds against every request that arrives after it.
THEOREM RevocationWithoutRedis ==
    ASSUME ~HasRedis, "db" \notin Faults
    PROVE  Spec => []HonoursAcked
<1>1. IInv => HonoursAcked
    BY DEF IInv, RowDecides
<1> QED BY <1>1, Invariant, PTL

\* A user's first revocation is never missed because of the cache.
THEOREM FirstRevocationIsHonoured == Spec => FirstRevocationHonoured
<1> DEFINE Missed(r) ==
        /\ pc[r] \in {"cacheGet", "cacheSet"}
        /\ pc'[r] = "accepted"
        /\ ~superseded[tok[r].user]
<1>1. ASSUME IInv, [Next]_vars, NEW q \in Requests, Missed(q) PROVE Honours(q)
    <2> DEFINE tk == tok[q]
    <2>0. /\ TypeOK /\ CacheNeverAhead /\ BaseReached /\ FirstLimitCached
          /\ pc[q] # pc'[q]
        BY <1>1 DEF IInv
    <2>1. Step(q)
        BY <1>1, <2>0, OneRequestMoves
    <2>2. tk \in Token /\ tk.user \in Users /\ IssuedAt(tk) \in Int
        BY <1>1, <2>0, IssuedAtInt DEF TypeOK, Token
    <2>3. PICK t \in Instant : t # Null /\ t = db[tk.user] /\ ~(IssuedAt(tk) < t)
        <3>1. \/ CacheGet(q) /\ Judge(q, cached[tk.user]) /\ cached[tk.user] # Null
              \/ CacheSet(q)
            BY <1>1, <2>0, <2>1
               DEF TypeOK, Step, ValidateToken, CacheGet, DbSelect, Deny, Protected,
                   RevokeToken, DbUpdate, Fail, CacheDel, Respond, Crash, Goto, Finish
        <3>2. CASE CacheGet(q) /\ Judge(q, cached[tk.user]) /\ cached[tk.user] # Null
            BY <1>1, <2>0, <2>2, <3>2 DEF TypeOK, Judge, Goto, FirstLimitCached
        <3>3. CASE CacheSet(q)
            BY <1>1, <2>0, <2>2, <3>3
               DEF TypeOK, CacheSet, Judge, Goto, FirstLimitCached, CacheNeverAhead
        <3> QED BY <3>1, <3>2, <3>3
    <2>4. CASE base[q] # Null
        <3>1. base[q] \in Int /\ t \in Int /\ base[q] <= t
            BY <2>0, <2>3, <2>4, InstantsAreIntegers
               DEF TypeOK, Instant, BaseReached, Reached
        <3> QED BY <2>2, <2>3, <3>1 DEF Honours
    <2> QED BY <2>4 DEF Honours
<1>2. IInv /\ [Next]_vars => [\A r \in Requests : Missed(r) => Honours(r)]_vars
    BY <1>1
<1> QED BY <1>2, Invariant, PTL DEF Spec, FirstRevocationHonoured

--------------------------------------------------------------------------------
(* The stores and the requests implement the promise                       *)

LEMMA InitPromise == Init => Promise!PromiseInit
BY DEF Init, Promise!PromiseInit, QuestionOf, VerdictOf

\* Each step of a request is one step of the promise about that request, a
\* step of its user's limit, or invisible to the promise.
LEMMA StepPromise ==
    ASSUME IInv, IInv', [Next]_vars
    PROVE  [Promise!PromiseNext]_(Promise!vars)
<1> DEFINE asked == [r \in Requests |-> QuestionOf(pc[r], tok[r])]
           verdict == [r \in Requests |-> VerdictOf(pc[r])]
<1> USE DEF Promise!vars
<1>0. TypeOK /\ TypeOK' /\ RejectionSound'
    BY DEF IInv
<1>1. CASE Tick \/ (\E u \in Users : GenerateToken(u)) \/ UNCHANGED vars
    <2>1. UNCHANGED <<db, pc, tok>>
        BY <1>1 DEF Tick, GenerateToken, vars, locals, store
    <2> QED BY <2>1
<1>2. ASSUME NEW q \in Requests, Step(q)
      PROVE  [Promise!PromiseNext]_(Promise!vars)
    <2> DEFINE tk == tok[q]
    <2>1. \A r \in Requests \ {q} : pc'[r] = pc[r] /\ tok'[r] = tok[r]
        BY <1>0, <1>2
           DEF TypeOK, Step, ValidateToken, CacheGet, DbSelect, CacheSet, Deny, Protected,
               RevokeToken, DbUpdate, Fail, CacheDel, Respond, Crash, Goto, Judge, Finish
    <2>2. /\ asked' = [asked EXCEPT ![q] = QuestionOf(pc'[q], tok'[q])]
          /\ verdict' = [verdict EXCEPT ![q] = VerdictOf(pc'[q])]
        BY <2>1
    <2>3. asked[q] = QuestionOf(pc[q], tk) /\ verdict[q] = VerdictOf(pc[q])
        OBVIOUS
    <2>4. pc[q] # "idle" => tk \in Token /\ tk.user \in Users /\ IssuedAt(tk) \in Times
        BY <1>0, IssuedAtRoundsDown DEF TypeOK, Token, Times
    <2>5. pc[q] # "idle" => asked[q] # Null
        <3>1. [user |-> tk.user, iat |-> IssuedAt(tk)] \in [user : Users, iat : Int]
              \/ pc[q] = "idle"
            BY <2>4, InstantsAreIntegers
        <3>2. [user |-> tk.user, iat |-> IssuedAt(tk)] # Null \/ pc[q] = "idle"
            BY <3>1, RevocationAssumption
        <3> QED BY <2>3, <3>2 DEF QuestionOf
    <2>6. CASE \E t \in tokens : ValidateToken(q, t)
        <3>1. PICK t \in tokens : ValidateToken(q, t)
            BY <2>6
        <3> DEFINE question == [user |-> t.user, iat |-> IssuedAt(t)]
        <3>2. t \in Token /\ question \in Promise!Question
            BY <1>0, IssuedAtRoundsDown DEF TypeOK, Token, Times, Promise!Question
        <3>3. /\ pc[q] = "idle" /\ pc'[q] \in {"cacheGet", "dbSelect"}
              /\ tok'[q] = t /\ UNCHANGED db
            BY <1>0, <3>1 DEF ValidateToken, Goto, TypeOK, store
        <3>4. asked[q] = Null /\ asked' = [asked EXCEPT ![q] = question]
            BY <2>2, <2>3, <3>3 DEF QuestionOf
        <3>5. UNCHANGED verdict
            BY <2>2, <2>3, <3>3 DEF VerdictOf
        <3>6. Promise!Ask(q, question)
            BY <3>3, <3>4, <3>5 DEF Promise!Ask
        <3> QED BY <3>2, <3>6 DEF Promise!PromiseNext
    <2>7. CASE UNCHANGED <<db, tok>> /\ VerdictOf(pc'[q]) = VerdictOf(pc[q])
               /\ pc[q] # "idle" /\ pc'[q] # "idle"
        <3>1. tok'[q] = tk
            BY <2>7
        <3>2. UNCHANGED asked /\ UNCHANGED verdict
            BY <2>2, <2>3, <2>7, <3>1 DEF QuestionOf
        <3> QED BY <2>7, <3>2
    <2>8. CASE UNCHANGED <<db, tok>> /\ pc[q] \in {"cacheGet", "dbSelect", "cacheSet"}
               /\ pc'[q] \in {"accepted", "rejected"}
        <3> DEFINE v == VerdictOf(pc'[q])
        <3>1. /\ asked[q] = [user |-> tk.user, iat |-> IssuedAt(tk)]
              /\ verdict[q] = "none" /\ v \in {"valid", "revoked"}
            BY <2>3, <2>8 DEF QuestionOf, VerdictOf
        <3>2. UNCHANGED asked /\ verdict' = [verdict EXCEPT ![q] = v]
            BY <2>2, <2>3, <2>8, <3>1 DEF QuestionOf
        <3>3. ASSUME v = "revoked" PROVE Promise!Covered(asked[q])
            <4>1. pc'[q] = "rejected" /\ tok'[q] = tk /\ UNCHANGED db
                BY <2>8, <3>3 DEF VerdictOf
            <4>2. db[tk.user] # Null /\ IssuedAt(tk) < db[tk.user]
                BY <1>0, <4>1 DEF RejectionSound, IssuedAt, NumericDate
            <4> QED BY <3>1, <4>2 DEF Promise!Covered
        <3>4. ASSUME ~HasRedis, "db" \notin Faults, v = "valid"
              PROVE  ~Promise!Covered(asked[q])
            <4>1. db[tk.user] = Null \/ ~(IssuedAt(tk) < db[tk.user])
                <5>1. pc'[q] = "accepted" /\ pc[q] = "dbSelect"
                    BY <2>8, <3>4 DEF VerdictOf, IInv, RowDecides
                <5> QED BY <1>0, <1>2, <2>8, <3>4, <5>1
                        DEF TypeOK, Step, ValidateToken, CacheGet, DbSelect, CacheSet, Deny,
                            Protected, RevokeToken, DbUpdate, Fail, CacheDel, Respond, Crash,
                            Goto, Judge, Finish
            <4> QED BY <3>1, <4>1 DEF Promise!Covered
        <3>5. Promise!Judge(q, v)
            BY <2>5, <2>8, <3>1, <3>2, <3>3, <3>4 DEF Promise!Judge
        <3> QED BY <3>1, <3>5 DEF Promise!PromiseNext
    <2>9. CASE DbUpdate(q)
        <3> DEFINE u == tk.user
                   t == Later(db[u], before[q])
        <3>1. /\ pc[q] = "dbUpdate" /\ tok'[q] = tk
              /\ pc'[q] \in {"cacheDel", "respond", "failed"}
            BY <1>0, <2>9 DEF DbUpdate, Goto, TypeOK
        <3>2. UNCHANGED asked /\ UNCHANGED verdict
            <4>1. QuestionOf(pc'[q], tok'[q]) = asked[q]
                BY <2>3, <3>1 DEF QuestionOf
            <4>2. VerdictOf(pc'[q]) = verdict[q]
                BY <2>3, <3>1 DEF VerdictOf
            <4> HIDE DEF asked, verdict
            <4>3. asked = [r \in Requests |-> asked[r]] /\ verdict = [r \in Requests |-> verdict[r]]
                BY DEF asked, verdict
            <4> QED BY <2>2, <4>1, <4>2, <4>3
        <3>3. CASE UNCHANGED db
            BY <3>2, <3>3
        <3>4. CASE SetLimit(u, before[q]) /\ ~UNCHANGED db
            <4>1. before[q] \in Times /\ u \in Users /\ db[u] \in Instant
                BY <1>0, <2>4, <3>1 DEF TypeOK, Instant
            <4>2. t \in Times
                BY <4>1, LaterReaches
            <4>3. db' = [db EXCEPT ![u] = t]
                BY <3>4 DEF SetLimit
            <4>4. t # db[u]
                BY <1>0, <3>4, <4>3 DEF TypeOK
            <4>5. db[u] = Null \/ db[u] < t
                BY <4>4 DEF Later
            <4>6. Promise!Revoke(u, t)
                BY <3>2, <4>3, <4>5 DEF Promise!Revoke
            <4> QED BY <4>1, <4>2, <4>6 DEF Promise!PromiseNext
        <3> QED BY <2>9, <3>3, <3>4 DEF DbUpdate
    <2>10. CASE pc[q] # "idle" /\ Finish(q) /\ UNCHANGED db
        <3>1. pc'[q] = "idle"
            BY <1>0, <2>10 DEF Finish, Goto, TypeOK
        <3>2. asked' = [asked EXCEPT ![q] = Null] /\ verdict' = [verdict EXCEPT ![q] = "none"]
            BY <2>2, <3>1 DEF QuestionOf, VerdictOf
        <3>3. Promise!Leave(q)
            BY <2>5, <2>10, <3>2 DEF Promise!Leave
        <3> QED BY <3>3 DEF Promise!PromiseNext
    <2> QED BY <1>0, <1>2, <2>6, <2>7, <2>8, <2>9, <2>10
            DEF TypeOK, Step, CacheGet, DbSelect, CacheSet, Deny, Protected,
                RevokeToken, Fail, CacheDel, Respond, Crash, Goto, Judge, store, VerdictOf
<1> QED BY <1>1, <1>2 DEF Next

\* The two stores, the cache races and the faults included, implement the
\* promise: lagging with Redis, prompt without it.
THEOREM Implements == Spec => KeepsPromise
<1>1. IInv /\ IInv' /\ [Next]_vars => [Promise!PromiseNext]_(Promise!vars)
    BY StepPromise
<1> QED BY <1>1, InitPromise, Invariant, PTL DEF Spec, KeepsPromise, Promise!PromiseSpec

================================================================================
