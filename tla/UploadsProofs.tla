----------------------------- MODULE UploadsProofs -----------------------------
(***************************************************************************)
(* Theorems about Uploads, for any users, requests, images, readings of    *)
(* the clock and faults.                                                   *)
(***************************************************************************)
EXTENDS Uploads, TLAPS

--------------------------------------------------------------------------------
(* The invariant                                                           *)

Uploading == {"create", "copy", "insert", "remove", "cacheDel"}

\* The locals that a request has where it is.
LocalsKnown ==
    \A r \in Requests :
        /\ pc[r] \in Uploading => name[r] \in Name /\ image[r] \in Images
        /\ pc[r] \notin Uploading => name[r] = Null
        /\ pc[r] = "idle" => list[r] = Null

\* A name that two requests hold has been given twice.
NamesExclusive ==
    \A q, r \in Requests :
        q # r /\ name[r] # Null /\ name[q] = name[r] => name[r] \in shared

\* What an upload has done for its name, as long as it is the only one that was
\* given it: no row before its INSERT, none but a doubtful one after a failed
\* INSERT, and the whole file after the copy.
OwnName ==
    \A r \in Requests :
        name[r] \in shared
        \/ /\ pc[r] \in {"create", "copy", "insert"} =>
                 \A row \in rows : row.name # name[r]
           /\ pc[r] = "remove" =>
                 \A row \in rows \ doubtful : row.name # name[r]
           /\ pc[r] = "insert" => files[name[r]] = image[r]

IInv ==
    /\ TypeOK
    /\ LocalsKnown
    /\ NamesExclusive
    /\ OwnName
    /\ FilesBacked
    /\ OrphansExplained
    /\ OwnUploadsOnly

--------------------------------------------------------------------------------
(* Steps                                                                   *)

Arrive(r) ==
    \/ \E u \in Users, i \in Images : Upload(r, u, i)
    \/ \E u \in Users : GetUserUploads(r, u) \/ GetUploadByID(r, u)

Write(r) == Create(r) \/ Copy(r) \/ Insert(r) \/ Remove(r) \/ CacheDel(r)

Read(r) == SelectOne(r) \/ Show(r) \/ CacheGet(r) \/ Select(r) \/ CacheSet(r)

\* Every step is one of these.
LEMMA NextCases ==
    ASSUME Next
    PROVE  \/ Tick
           \/ \E u \in Users : Expire(u)
           \/ \E r \in Requests : Arrive(r) \/ Write(r) \/ Read(r) \/ Crash(r)
  BY DEF Next, Arrive, Write, Read

\* A step of one request leaves the locals of the others alone.
LEMMA OneRequestMoves ==
    ASSUME TypeOK, NEW r \in Requests, NEW q \in Requests, q # r,
           Arrive(r) \/ Write(r) \/ Read(r) \/ Crash(r)
    PROVE  /\ pc'[q] = pc[q]
           /\ user'[q] = user[q]
           /\ name'[q] = name[q]
           /\ image'[q] = image[q]
           /\ list'[q] = list[q]
<1> USE DEF Goto, Finish, Continue, store, TypeOK
<1>1. CASE Arrive(r)
  BY <1>1 DEF Arrive, Upload, GetUserUploads, GetUploadByID
<1>2. CASE Create(r) \/ Copy(r)
  BY <1>2 DEF Create, Copy
<1>3. CASE Insert(r) \/ Remove(r) \/ CacheDel(r)
  BY <1>3 DEF Insert, Remove, CacheDel
<1>4. CASE SelectOne(r) \/ Show(r)
  BY <1>4 DEF SelectOne, Show
<1>5. CASE CacheGet(r) \/ Select(r) \/ CacheSet(r)
  BY <1>5 DEF CacheGet, Select, CacheSet
<1>6. CASE Crash(r)
  BY <1>6 DEF Crash
<1> QED
  BY <1>1, <1>2, <1>3, <1>4, <1>5, <1>6 DEF Write, Read

--------------------------------------------------------------------------------
(* Types                                                                   *)

\* The halves of TypeOK.
StoreTyped ==
    /\ clock \in 0 .. MaxClock
    /\ files \in [Name -> Images \cup {Partial, Null}]
    /\ rows \subseteq Row
    /\ cached \in [Users -> (SUBSET Row) \cup {Null}]
    /\ shared \subseteq Name
    /\ leaked \subseteq Name
    /\ doubtful \subseteq Row

LocalsTyped ==
    /\ pc \in [Requests -> {"idle", "create", "copy", "insert", "remove", "cacheDel",
                            "cacheGet", "select", "cacheSet", "selectOne", "show"}]
    /\ user \in [Requests -> Users \cup {Null}]
    /\ name \in [Requests -> Name \cup {Null}]
    /\ image \in [Requests -> Images \cup {Null}]
    /\ list \in [Requests -> (SUBSET Row) \cup {Null}]

LEMMA TypeInit == Init => TypeOK
<1> SUFFICES ASSUME Init PROVE TypeOK
  OBVIOUS
<1>1. LocalsTyped
  BY DEF Init, LocalsTyped
<1>2. PICK earlier \in [Others -> Images] :
         /\ files = [n \in Name |->
                IF n.user \in Others /\ n.at = 0 THEN earlier[n.user] ELSE Null]
         /\ rows = {[name |-> [user |-> u, at |-> 0], image |-> earlier[u]] : u \in Others}
  BY DEF Init
<1>3. files \in [Name -> Images \cup {Partial, Null}]
  BY <1>2
<1>4. rows \subseteq Row
  BY <1>2, UploadsAssumption DEF Row, Name
<1>5. clock \in 0 .. MaxClock /\ cached \in [Users -> (SUBSET Row) \cup {Null}]
  BY UploadsAssumption DEF Init
<1>6. shared \subseteq Name /\ leaked \subseteq Name /\ doubtful \subseteq Row
  BY DEF Init
<1> QED
  BY <1>1, <1>3, <1>4, <1>5, <1>6 DEF TypeOK, StoreTyped, LocalsTyped

LEMMA UploadTyped ==
    ASSUME LocalsKnown, NEW r \in Requests, pc[r] \in Uploading
    PROVE  RowOf(r) \in Row /\ name[r] \in Name /\ image[r] \in Images
  BY DEF LocalsKnown, RowOf, Row

LEMMA FinishTyped ==
    ASSUME LocalsTyped, NEW r \in Requests, Finish(r)
    PROVE  LocalsTyped'
  BY DEF LocalsTyped, Finish, Goto

LEMMA ContinueTyped ==
    ASSUME LocalsTyped, NEW r \in Requests,
           NEW label \in {"copy", "insert", "remove", "cacheDel", "select"},
           Continue(r, label)
    PROVE  LocalsTyped'
  BY DEF LocalsTyped, Continue, Goto

LEMMA ArriveTyped ==
    ASSUME TypeOK, NEW r \in Requests, Arrive(r)
    PROVE  TypeOK'
<1>0. StoreTyped /\ LocalsTyped
  BY DEF TypeOK, StoreTyped, LocalsTyped
<1>1. ASSUME NEW u \in Users, NEW i \in Images, Upload(r, u, i)
      PROVE  TypeOK'
  <2> DEFINE n == [user |-> u, at |-> clock]
  <2>1. n \in Name
    BY <1>0 DEF Name, StoreTyped
  <2>2. shared' \subseteq Name
    BY <1>0, <1>1, <2>1 DEF Upload, StoreTyped
  <2>3. StoreTyped'
    BY <1>0, <1>1, <2>2 DEF Upload, StoreTyped, store
  <2>4. LocalsTyped'
    BY <1>0, <1>1, <2>1 DEF Upload, LocalsTyped, Goto
  <2> QED
    BY <2>3, <2>4 DEF TypeOK, StoreTyped, LocalsTyped
<1>2. ASSUME NEW u \in Users, GetUserUploads(r, u) \/ GetUploadByID(r, u)
      PROVE  TypeOK'
  <2>1. StoreTyped'
    BY <1>0, <1>2 DEF GetUserUploads, GetUploadByID, StoreTyped, store, history
  <2>2. LocalsTyped'
    BY <1>0, <1>2 DEF GetUserUploads, GetUploadByID, LocalsTyped, Goto
  <2> QED
    BY <2>1, <2>2 DEF TypeOK, StoreTyped, LocalsTyped
<1> QED
  BY <1>1, <1>2 DEF Arrive

LEMMA WriteTyped ==
    ASSUME TypeOK, LocalsKnown, NEW r \in Requests, Write(r)
    PROVE  TypeOK'
<1>1. StoreTyped /\ LocalsTyped
  BY DEF TypeOK, StoreTyped, LocalsTyped
<1>2. RowOf(r) \in Row /\ name[r] \in Name /\ image[r] \in Images
  BY UploadTyped DEF Write, Create, Copy, Insert, Remove, CacheDel, Uploading
<1>3. StoreTyped'
  <2> USE DEF StoreTyped, history
  <2>1. CASE Create(r)
    BY <1>1, <1>2, <2>1 DEF Create
  <2>2. CASE Copy(r)
    BY <1>1, <1>2, <2>2 DEF Copy
  <2>3. CASE Insert(r)
    BY <1>1, <1>2, <2>3 DEF Insert
  <2>4. CASE Remove(r)
    BY <1>1, <1>2, <2>4 DEF Remove
  <2>5. CASE CacheDel(r)
    BY <1>1, <1>2, <2>5 DEF CacheDel
  <2> QED
    BY <2>1, <2>2, <2>3, <2>4, <2>5 DEF Write
<1>4. Finish(r) \/ \E label \in {"copy", "insert", "remove", "cacheDel"} : Continue(r, label)
  BY DEF Write, Create, Copy, Insert, Remove, CacheDel
<1> QED
  <2>1. LocalsTyped'
    BY <1>1, <1>4, FinishTyped, ContinueTyped
  <2> QED
    BY <1>3, <2>1 DEF TypeOK, StoreTyped, LocalsTyped

LEMMA ReadTyped ==
    ASSUME TypeOK, NEW r \in Requests, Read(r)
    PROVE  TypeOK'
<1>1. StoreTyped /\ LocalsTyped
  BY DEF TypeOK, StoreTyped, LocalsTyped
<1>2. StoreTyped'
  <2> USE DEF StoreTyped, store, history
  <2>1. CASE SelectOne(r) \/ Show(r) \/ CacheGet(r) \/ Select(r)
    BY <1>1, <2>1 DEF SelectOne, Show, CacheGet, Select
  <2>2. CASE CacheSet(r)
    BY <1>1, <2>2 DEF CacheSet, LocalsTyped
  <2> QED
    BY <2>1, <2>2 DEF Read
<1>3. LocalsTyped'
  <2>1. CASE Finish(r) \/ Continue(r, "select")
    BY <1>1, <2>1, FinishTyped, ContinueTyped
  <2>2. ASSUME NEW l \in SUBSET RowsOf(user[r]), NEW label \in {"cacheSet", "show"},
               list' = [list EXCEPT ![r] = l], Goto(r, label),
               UNCHANGED <<user, name, image>>
        PROVE  LocalsTyped'
    BY <1>1, <2>2 DEF LocalsTyped, StoreTyped, RowsOf, Goto
  <2>3. CASE SelectOne(r)
    BY <2>1, <2>2, <2>3 DEF SelectOne
  <2>4. CASE Select(r)
    BY <2>1, <2>2, <2>4 DEF Select
  <2> QED
    BY <2>1, <2>3, <2>4 DEF Read, Show, CacheGet, CacheSet
<1> QED
  BY <1>2, <1>3 DEF TypeOK, StoreTyped, LocalsTyped

LEMMA CrashTyped ==
    ASSUME TypeOK, LocalsKnown, NEW r \in Requests, Crash(r)
    PROVE  TypeOK'
<1>1. StoreTyped /\ LocalsTyped
  BY DEF TypeOK, StoreTyped, LocalsTyped
<1>2. leaked' \subseteq Name
  BY <1>1, UploadTyped DEF Crash, StoreTyped, Uploading
<1>3. StoreTyped'
  BY <1>1, <1>2 DEF Crash, StoreTyped, store
<1>4. LocalsTyped'
  BY <1>1, FinishTyped DEF Crash
<1> QED
  BY <1>3, <1>4 DEF TypeOK, StoreTyped, LocalsTyped

LEMMA TypeStep ==
    ASSUME TypeOK, LocalsKnown, [Next]_vars
    PROVE  TypeOK'
<1>1. CASE Tick \/ (\E u \in Users : Expire(u)) \/ UNCHANGED vars
  BY <1>1, UploadsAssumption
  DEF TypeOK, Tick, Expire, vars, locals, history
<1>2. CASE \E r \in Requests : Arrive(r) \/ Write(r) \/ Read(r) \/ Crash(r)
  BY <1>2, ArriveTyped, WriteTyped, ReadTyped, CrashTyped
<1> QED
  BY <1>1, <1>2, NextCases

--------------------------------------------------------------------------------
(* The locals                                                              *)

LEMMA NullApart == Null \notin Name /\ Null \notin Images
  BY UploadsAssumption DEF Name

\* An upload moves along its calls or is over.
LEMMA WriteMoves ==
    ASSUME TypeOK, NEW r \in Requests, Write(r) \/ Crash(r)
    PROVE  \/ /\ Finish(r)
              /\ pc'[r] = "idle" /\ name'[r] = Null /\ list'[r] = Null
           \/ /\ pc[r] \in Uploading /\ pc'[r] \in Uploading
              /\ UNCHANGED <<user, name, image, list>>
<1> USE DEF TypeOK, Finish, Continue, Goto, Uploading
<1>1. CASE Create(r) \/ Copy(r)
  BY <1>1 DEF Create, Copy
<1>2. CASE Insert(r) \/ Remove(r) \/ CacheDel(r)
  BY <1>2 DEF Insert, Remove, CacheDel
<1>3. CASE Crash(r)
  BY <1>3 DEF Crash
<1> QED
  BY <1>1, <1>2, <1>3 DEF Write

\* A step that neither touches the files, the rows and the names nor concerns a
\* request that is uploading.
Quiet ==
    /\ UNCHANGED <<files, rows, name, shared, leaked, doubtful>>
    /\ \A r \in Requests :
          pc[r] \in Uploading \/ pc'[r] \in Uploading =>
              pc'[r] = pc[r] /\ image'[r] = image[r]

\* What a request that reads does to the locals.
LEMMA ReadMoves ==
    ASSUME TypeOK, LocalsKnown, NEW r \in Requests,
           Read(r) \/ \E u \in Users : GetUserUploads(r, u) \/ GetUploadByID(r, u)
    PROVE  /\ pc[r] \notin Uploading /\ pc'[r] \notin Uploading
           /\ name[r] = Null /\ name'[r] = Null
           /\ pc'[r] = "idle" => list'[r] = Null
           /\ UNCHANGED <<files, rows, shared, leaked, doubtful>>
<1> USE DEF TypeOK, LocalsKnown, Finish, Continue, Goto, Uploading, store, history
<1>1. CASE SelectOne(r) \/ Show(r)
  BY <1>1 DEF SelectOne, Show
<1>2. CASE CacheGet(r) \/ Select(r) \/ CacheSet(r)
  BY <1>2 DEF CacheGet, Select, CacheSet
<1>3. ASSUME NEW u \in Users, GetUserUploads(r, u) \/ GetUploadByID(r, u)
      PROVE  /\ pc[r] \notin Uploading /\ pc'[r] \notin Uploading
             /\ name[r] = Null /\ name'[r] = Null
             /\ pc'[r] = "idle" => list'[r] = Null
             /\ UNCHANGED <<files, rows, shared, leaked, doubtful>>
  BY <1>3 DEF GetUserUploads, GetUploadByID
<1> QED
  BY <1>1, <1>2, <1>3 DEF Read

LEMMA QuietSteps ==
    ASSUME TypeOK, TypeOK', LocalsKnown,
           \/ Tick
           \/ \E u \in Users : Expire(u)
           \/ UNCHANGED vars
           \/ \E r \in Requests :
                 Read(r) \/ \E u \in Users : GetUserUploads(r, u) \/ GetUploadByID(r, u)
    PROVE  Quiet
<1>1. CASE Tick \/ (\E u \in Users : Expire(u)) \/ UNCHANGED vars
  BY <1>1 DEF Tick, Expire, vars, locals, history, Quiet
<1>2. ASSUME NEW r \in Requests,
             Read(r) \/ \E u \in Users : GetUserUploads(r, u) \/ GetUploadByID(r, u)
      PROVE  Quiet
  <2>1. /\ pc[r] \notin Uploading /\ pc'[r] \notin Uploading
        /\ name[r] = Null /\ name'[r] = Null
        /\ UNCHANGED <<files, rows, shared, leaked, doubtful>>
    BY <1>2, ReadMoves
  <2>2. \A q \in Requests \ {r} :
           pc'[q] = pc[q] /\ name'[q] = name[q] /\ image'[q] = image[q]
    BY <1>2, OneRequestMoves DEF Arrive
  <2>3. name' = name
    BY <2>1, <2>2 DEF TypeOK
  <2> QED
    BY <2>1, <2>2, <2>3 DEF Quiet
<1> QED
  BY <1>1, <1>2

LEMMA LocalsKnownStep ==
    ASSUME TypeOK, LocalsKnown, [Next]_vars
    PROVE  LocalsKnown'
<1>1. CASE Tick \/ (\E u \in Users : Expire(u)) \/ UNCHANGED vars
  BY <1>1 DEF LocalsKnown, Tick, Expire, vars, locals, history
<1>2. ASSUME NEW r \in Requests, Arrive(r) \/ Write(r) \/ Read(r) \/ Crash(r)
      PROVE  LocalsKnown'
  <2> DEFINE Known(q) ==
          /\ pc'[q] \in Uploading => name'[q] \in Name /\ image'[q] \in Images
          /\ pc'[q] \notin Uploading => name'[q] = Null
          /\ pc'[q] = "idle" => list'[q] = Null
  <2>1. \A q \in Requests \ {r} : Known(q)
    BY <1>2, OneRequestMoves DEF LocalsKnown
  <2>2. ASSUME NEW u \in Users, NEW i \in Images, Upload(r, u, i)
        PROVE  Known(r)
    <3>1. pc'[r] = "create" /\ name'[r] = [user |-> u, at |-> clock] /\ image'[r] = i
      BY <2>2 DEF Upload, Goto, TypeOK
    <3>2. [user |-> u, at |-> clock] \in Name
      BY DEF Name, TypeOK
    <3> QED
      BY <3>1, <3>2 DEF Uploading
  <2>3. ASSUME Read(r) \/ \E u \in Users : GetUserUploads(r, u) \/ GetUploadByID(r, u)
        PROVE  Known(r)
    BY <2>3, ReadMoves
  <2>4. ASSUME Write(r) \/ Crash(r)
        PROVE  Known(r)
    <3>1. CASE pc'[r] = "idle" /\ name'[r] = Null /\ list'[r] = Null
      BY <3>1 DEF Uploading
    <3>2. CASE /\ pc[r] \in Uploading /\ pc'[r] \in Uploading
               /\ UNCHANGED <<user, name, image, list>>
      BY <3>2 DEF LocalsKnown, Uploading
    <3> QED
      BY <2>4, <3>1, <3>2, WriteMoves
  <2>5. Known(r)
    BY <1>2, <2>2, <2>3, <2>4 DEF Arrive
  <2> QED
    BY <2>1, <2>5 DEF LocalsKnown
<1> QED
  BY <1>1, <1>2, NextCases

--------------------------------------------------------------------------------
(* Names, rows and files                                                   *)

\* The part of the invariant that relates names, rows and files.
StoresAgree == NamesExclusive /\ OwnName /\ FilesBacked /\ OrphansExplained

LEMMA QuietAgrees ==
    ASSUME LocalsKnown, StoresAgree, Quiet
    PROVE  StoresAgree'
<1>1. NamesExclusive'
  BY DEF StoresAgree, Quiet, NamesExclusive
<1>2. OwnName'
  BY DEF StoresAgree, Quiet, OwnName, Uploading
<1>3. FilesBacked'
  BY DEF StoresAgree, Quiet, FilesBacked
<1>4. OrphansExplained'
  BY DEF StoresAgree, Quiet, OrphansExplained, Uploading
<1> QED
  BY <1>1, <1>2, <1>3, <1>4 DEF StoresAgree

\* An upload is given a name that nothing uses, or the name counts as shared.
LEMMA UploadAgrees ==
    ASSUME TypeOK, LocalsKnown, StoresAgree,
           NEW r \in Requests, NEW u \in Users, NEW i \in Images, Upload(r, u, i)
    PROVE  StoresAgree'
<1> DEFINE n == [user |-> u, at |-> clock]
<1>1. \A q \in Requests \ {r} :
         pc'[q] = pc[q] /\ name'[q] = name[q] /\ image'[q] = image[q]
  BY OneRequestMoves DEF Arrive
<1>2. pc[r] = "idle" /\ pc'[r] = "create" /\ name'[r] = n
  BY DEF Upload, Goto, TypeOK
<1>3. UNCHANGED <<files, rows, leaked, doubtful>> /\ shared \subseteq shared'
  BY DEF Upload, store
<1>4. \/ n \in shared'
      \/ (\A row \in rows : row.name # n) /\ (\A q \in Requests : name[q] # n)
  BY DEF Upload
<1> HIDE DEF n
<1>5. NamesExclusive'
  BY <1>1, <1>2, <1>3, <1>4 DEF StoresAgree, NamesExclusive
<1>6. OwnName'
  BY <1>1, <1>2, <1>3, <1>4 DEF StoresAgree, OwnName
<1>7. FilesBacked'
  BY <1>3 DEF StoresAgree, FilesBacked
<1>8. OrphansExplained'
  BY <1>1, <1>2, <1>3 DEF StoresAgree, OrphansExplained
<1> QED
  BY <1>5, <1>6, <1>7, <1>8 DEF StoresAgree

\* What all later steps of an upload have in common: the other requests stay
\* where they are, and this one keeps its name or is done with it.
LEMMA UploadGoesOn ==
    ASSUME TypeOK, LocalsKnown, StoresAgree,
           NEW r \in Requests, Write(r) \/ Crash(r)
    PROVE  /\ \A q \in Requests \ {r} :
                 pc'[q] = pc[q] /\ name'[q] = name[q] /\ image'[q] = image[q]
           /\ \/ pc'[r] = "idle" /\ name'[r] = Null
              \/ name'[r] = name[r] /\ image'[r] = image[r]
           /\ shared' = shared
           /\ NamesExclusive'
           /\ name[r] \notin shared =>
                 \A q \in Requests \ {r} : pc[q] \in Uploading => name[q] # name[r]
<1>1. \A q \in Requests \ {r} :
         pc'[q] = pc[q] /\ name'[q] = name[q] /\ image'[q] = image[q]
  BY OneRequestMoves
<1>2. \/ pc'[r] = "idle" /\ name'[r] = Null
      \/ name'[r] = name[r] /\ image'[r] = image[r]
  BY WriteMoves
<1>3. shared' = shared
  BY DEF Write, Create, Copy, Insert, Remove, CacheDel, Crash, history
<1>4. NamesExclusive'
  BY <1>1, <1>2, <1>3 DEF StoresAgree, NamesExclusive
<1>5. ASSUME name[r] \notin shared, NEW q \in Requests \ {r}, pc[q] \in Uploading
      PROVE  name[q] # name[r]
  BY <1>5, NullApart DEF StoresAgree, NamesExclusive, LocalsKnown
<1> QED
  BY <1>1, <1>2, <1>3, <1>4, <1>5

\* Creating the file, filling it and removing it again: only the file under the
\* name of the request changes, and the rows stay.
LEMMA FileStepsAgree ==
    ASSUME TypeOK, LocalsKnown, StoresAgree,
           NEW r \in Requests, Create(r) \/ Copy(r) \/ Remove(r)
    PROVE  StoresAgree'
<1>1. pc[r] \in {"create", "copy", "remove"} /\ name[r] \in Name
  BY DEF Create, Copy, Remove, LocalsKnown, Uploading
<1>2. /\ \A q \in Requests \ {r} :
            pc'[q] = pc[q] /\ name'[q] = name[q] /\ image'[q] = image[q]
      /\ \/ pc'[r] = "idle" /\ name'[r] = Null
         \/ name'[r] = name[r] /\ image'[r] = image[r]
      /\ shared' = shared
      /\ NamesExclusive'
      /\ name[r] \notin shared =>
            \A q \in Requests \ {r} : pc[q] \in Uploading => name[q] # name[r]
  BY UploadGoesOn DEF Write
<1>3. rows' = rows /\ doubtful' = doubtful /\ leaked \subseteq leaked'
  BY DEF Create, Copy, Remove, history
<1>4. \A n \in Name \ {name[r]} : files'[n] = files[n]
  BY DEF Create, Copy, Remove, TypeOK
<1>5. \/ pc'[r] = "idle" /\ files' = files
      \/ pc'[r] = "idle" /\ pc[r] = "remove" /\ files'[name[r]] = Null
      \/ pc[r] = "create" /\ pc'[r] = "copy" /\ name'[r] = name[r]
      \/ /\ pc[r] = "copy" /\ pc'[r] = "insert" /\ name'[r] = name[r]
         /\ image'[r] = image[r] /\ files'[name[r]] = image[r]
  BY <1>1 DEF Create, Copy, Remove, TypeOK, Finish, Continue, Goto
<1>6. pc[r] \in {"copy", "remove"} =>
         \/ name[r] \in leaked'
         \/ pc'[r] = "insert" /\ name'[r] = name[r]
         \/ files'[name[r]] = Null
  BY <1>1 DEF Create, Copy, Remove, TypeOK, Continue, Goto
<1>7. OwnName'
  BY <1>1, <1>2, <1>3, <1>4, <1>5 DEF StoresAgree, OwnName, LocalsKnown, Uploading
<1>8. FilesBacked'
  BY <1>1, <1>2, <1>3, <1>4 DEF StoresAgree, OwnName, FilesBacked, TypeOK, Row
<1>9. OrphansExplained'
  BY <1>1, <1>2, <1>3, <1>4, <1>5, <1>6 DEF StoresAgree, OrphansExplained
<1> QED
  BY <1>2, <1>7, <1>8, <1>9 DEF StoresAgree

\* The INSERT: a row appears that the file already backs, or it is doubtful.
LEMMA InsertAgrees ==
    ASSUME TypeOK, LocalsKnown, StoresAgree, NEW r \in Requests, Insert(r)
    PROVE  StoresAgree'
<1>1. pc[r] = "insert" /\ name[r] \in Name
  BY DEF Insert, LocalsKnown, Uploading
<1>2. /\ \A q \in Requests \ {r} :
            pc'[q] = pc[q] /\ name'[q] = name[q] /\ image'[q] = image[q]
      /\ shared' = shared
      /\ NamesExclusive'
      /\ name[r] \notin shared =>
            \A q \in Requests \ {r} : pc[q] \in Uploading => name[q] # name[r]
  BY UploadGoesOn DEF Write
<1>3. files' = files /\ leaked' = leaked /\ name'[r] = name[r] /\ image'[r] = image[r]
  BY DEF Insert, Continue
<1>4. \/ pc'[r] = "cacheDel" /\ rows' = rows \cup {RowOf(r)} /\ doubtful' = doubtful
      \/ /\ pc'[r] = "remove"
         /\ \/ rows' = rows /\ doubtful' = doubtful
            \/ rows' = rows \cup {RowOf(r)} /\ doubtful' = doubtful \cup {RowOf(r)}
  BY DEF Insert, Continue, Goto, TypeOK
<1>5. RowOf(r).name = name[r] /\ RowOf(r).image = image[r]
  BY DEF RowOf
<1>6. rows \subseteq rows' /\ \A row \in rows' : row \in rows \/ row.name = name[r]
  BY <1>4, <1>5
<1>7. rows' \ doubtful' \subseteq (rows \ doubtful) \cup {RowOf(r)}
  BY <1>4
<1>8. pc'[r] = "remove" => rows' \ doubtful' \subseteq rows \ doubtful
  BY <1>4
<1>9. OwnName'
  <2> SUFFICES ASSUME NEW q \in Requests, name'[q] \notin shared'
               PROVE  /\ pc'[q] \in {"create", "copy", "insert"} =>
                            \A row \in rows' : row.name # name'[q]
                      /\ pc'[q] = "remove" =>
                            \A row \in rows' \ doubtful' : row.name # name'[q]
                      /\ pc'[q] = "insert" => files'[name'[q]] = image'[q]
    BY DEF OwnName
  <2>1. CASE q = r
    BY <1>1, <1>2, <1>3, <1>4, <1>8, <2>1 DEF StoresAgree, OwnName
  <2>2. CASE q # r
    BY <1>2, <1>3, <1>5, <1>6, <1>7, <2>2 DEF StoresAgree, OwnName, Uploading
  <2> QED
    BY <2>1, <2>2
<1>10. FilesBacked'
  BY <1>1, <1>2, <1>3, <1>4, <1>5, <1>7, <1>8 DEF StoresAgree, OwnName, FilesBacked
<1>11. OrphansExplained'
  BY <1>1, <1>2, <1>3, <1>4, <1>5, <1>6 DEF StoresAgree, OrphansExplained
<1> QED
  BY <1>2, <1>9, <1>10, <1>11 DEF StoresAgree

\* The DEL that ends an upload, and a crash.
LEMMA EndAgrees ==
    ASSUME TypeOK, LocalsKnown, StoresAgree,
           NEW r \in Requests, CacheDel(r) \/ Crash(r)
    PROVE  StoresAgree'
<1>1. /\ \A q \in Requests \ {r} :
            pc'[q] = pc[q] /\ name'[q] = name[q] /\ image'[q] = image[q]
      /\ shared' = shared
      /\ NamesExclusive'
  BY UploadGoesOn DEF Write
<1>2. /\ pc'[r] = "idle"
      /\ UNCHANGED <<files, rows, doubtful>>
      /\ leaked \subseteq leaked'
      /\ pc[r] \in {"copy", "insert", "remove"} => name[r] \in leaked'
  BY DEF CacheDel, Crash, Finish, Goto, TypeOK, store, history
<1>3. OwnName'
  BY <1>1, <1>2 DEF StoresAgree, OwnName
<1>4. FilesBacked'
  BY <1>1, <1>2 DEF StoresAgree, FilesBacked
<1>5. OrphansExplained'
  BY <1>1, <1>2 DEF StoresAgree, OrphansExplained
<1> QED
  BY <1>1, <1>3, <1>4, <1>5 DEF StoresAgree

LEMMA StoresAgreeStep ==
    ASSUME TypeOK, TypeOK', LocalsKnown, StoresAgree, [Next]_vars
    PROVE  StoresAgree'
<1>1. CASE \/ Tick \/ (\E u \in Users : Expire(u)) \/ UNCHANGED vars
           \/ \E r \in Requests :
                 Read(r) \/ \E u \in Users : GetUserUploads(r, u) \/ GetUploadByID(r, u)
  BY <1>1, QuietSteps, QuietAgrees
<1>2. CASE \E r \in Requests : \E u \in Users, i \in Images : Upload(r, u, i)
  BY <1>2, UploadAgrees
<1>3. CASE \E r \in Requests : Write(r) \/ Crash(r)
  BY <1>3, FileStepsAgree, InsertAgrees, EndAgrees DEF Write
<1> QED
  BY <1>1, <1>2, <1>3, NextCases DEF Arrive

--------------------------------------------------------------------------------
(* Lists                                                                   *)

LEMMA OwnUploadsStep ==
    ASSUME TypeOK, LocalsKnown, OwnUploadsOnly, [Next]_vars
    PROVE  OwnUploadsOnly'
<1>1. rows \subseteq rows'
  <2>1. CASE Tick \/ (\E u \in Users : Expire(u)) \/ UNCHANGED vars
    BY <2>1 DEF Tick, Expire, vars
  <2>2. ASSUME NEW r \in Requests, Arrive(r) \/ Read(r) \/ Crash(r)
        PROVE  rows \subseteq rows'
    BY <2>2 DEF Arrive, Upload, GetUserUploads, GetUploadByID, Read, SelectOne,
                Show, CacheGet, Select, CacheSet, Crash, store
  <2>3. ASSUME NEW r \in Requests, Write(r)
        PROVE  rows \subseteq rows'
    BY <2>3 DEF Write, Create, Copy, Insert, Remove, CacheDel
  <2> QED
    BY <2>1, <2>2, <2>3, NextCases
<1>2. \A x : RowsOf(x) \subseteq RowsOf(x)'
  BY <1>1 DEF RowsOf
<1>3. CASE Tick \/ (\E u \in Users : Expire(u)) \/ UNCHANGED vars
  BY <1>2, <1>3 DEF OwnUploadsOnly, Tick, Expire, vars, locals, history, TypeOK
<1>4. ASSUME NEW r \in Requests, Arrive(r) \/ Write(r) \/ Read(r) \/ Crash(r)
      PROVE  OwnUploadsOnly'
  <2>1. \A q \in Requests \ {r} : user'[q] = user[q] /\ list'[q] = list[q]
    BY <1>4, OneRequestMoves
  <2>2. list'[r] # Null => list'[r] \subseteq RowsOf(user'[r])
    <3>1. CASE Arrive(r)
      BY <3>1 DEF Arrive, Upload, GetUserUploads, GetUploadByID, LocalsKnown
    <3>2. CASE Write(r) \/ Crash(r)
      BY <3>2, WriteMoves DEF OwnUploadsOnly
    <3>3. CASE Finish(r)
      BY <3>3 DEF Finish, TypeOK
    <3>4. CASE CacheGet(r) \/ SelectOne(r) \/ Select(r)
      BY <3>3, <3>4
      DEF CacheGet, SelectOne, Select, Continue, OwnUploadsOnly, TypeOK
    <3> QED
      BY <1>4, <3>1, <3>2, <3>3, <3>4 DEF Read, Show, CacheSet
  <2>3. \A u \in Users :
           cached'[u] # Null =>
               \/ cached'[u] = cached[u]
               \/ user[r] = u /\ cached'[u] = list[r]
    <3>1. CASE CacheSet(r) \/ CacheDel(r)
      BY <3>1 DEF CacheSet, CacheDel, TypeOK
    <3>2. CASE cached' = cached
      BY <3>2
    <3> QED
      BY <1>4, <3>1, <3>2
      DEF Arrive, Upload, GetUserUploads, GetUploadByID, Write, Create, Copy, Insert,
          Remove, Read, SelectOne, Show, CacheGet, Select, Crash, store
  <2>4. \A q \in Requests : (list[q] # Null => list[q] \subseteq RowsOf(user[q]))'
    BY <1>1, <2>1, <2>2 DEF OwnUploadsOnly, RowsOf
  <2>5. \A u \in Users : (cached[u] # Null => cached[u] \subseteq RowsOf(u))'
    BY <1>2, <2>3 DEF OwnUploadsOnly
  <2> QED
    BY <2>4, <2>5 DEF OwnUploadsOnly
<1> QED
  BY <1>3, <1>4, NextCases

--------------------------------------------------------------------------------
(* The theorems                                                            *)

LEMMA InitEstablishes == Init => IInv
<1> SUFFICES ASSUME Init PROVE IInv
  OBVIOUS
<1>1. TypeOK
  BY TypeInit
<1>2. LocalsKnown /\ NamesExclusive /\ OwnName /\ OwnUploadsOnly
  BY DEF Init, LocalsKnown, NamesExclusive, OwnName, OwnUploadsOnly, Uploading
<1>3. PICK earlier \in [Others -> Images] :
         /\ files = [n \in Name |->
                IF n.user \in Others /\ n.at = 0 THEN earlier[n.user] ELSE Null]
         /\ rows = {[name |-> [user |-> u, at |-> 0], image |-> earlier[u]] : u \in Others}
  BY DEF Init
<1>4. FilesBacked
  <2> SUFFICES ASSUME NEW u \in Others
               PROVE  files[[user |-> u, at |-> 0]] = earlier[u]
    BY <1>3 DEF FilesBacked
  <2>1. [user |-> u, at |-> 0] \in Name
    BY UploadsAssumption DEF Name
  <2> QED
    BY <1>3, <2>1
<1>5. OrphansExplained
  <2> SUFFICES ASSUME NEW n \in Name, files[n] # Null
               PROVE  \E row \in rows : row.name = n
    BY DEF OrphansExplained
  <2>1. n.user \in Others /\ n = [user |-> n.user, at |-> 0]
    BY <1>3 DEF Name
  <2>2. [name |-> n, image |-> earlier[n.user]] \in rows
    BY <1>3, <2>1
  <2> QED
    BY <2>2
<1> QED
  BY <1>1, <1>2, <1>4, <1>5 DEF IInv

LEMMA StepPreserves == IInv /\ [Next]_vars => IInv'
<1> SUFFICES ASSUME IInv, [Next]_vars PROVE IInv'
  OBVIOUS
<1>1. TypeOK'
  BY TypeStep DEF IInv
<1>2. LocalsKnown'
  BY LocalsKnownStep DEF IInv
<1>3. StoresAgree'
  BY <1>1, StoresAgreeStep DEF IInv, StoresAgree
<1>4. OwnUploadsOnly'
  BY OwnUploadsStep DEF IInv
<1> QED
  BY <1>1, <1>2, <1>3, <1>4 DEF IInv, StoresAgree

\* The inductive invariant holds in every reachable state.
THEOREM Invariant == Spec => []IInv
<1> QED
  BY InitEstablishes, StepPreserves, PTL DEF Spec

\* Every variable keeps its type; above all, no row ever describes a file that
\* a copy left incomplete.
THEOREM TypeCorrect == Spec => []TypeOK
<1>1. IInv => TypeOK
  BY DEF IInv
<1> QED
  BY Invariant, <1>1, PTL

\* Whatever uploads run concurrently, whichever store fails and whenever the
\* process dies, every row points to the complete file it describes, unless two
\* uploads were given one name or an INSERT took effect that was reported as
\* failed.
THEOREM FilesAreBacked == Spec => []FilesBacked
<1>1. IInv => FilesBacked
  BY DEF IInv
<1> QED
  BY Invariant, <1>1, PTL

\* A file without a row belongs to a running upload, or its upload crashed, broke
\* off in the copy, failed to remove it again, or shared its name.
THEOREM OrphansAreExplained == Spec => []OrphansExplained
<1>1. IInv => OrphansExplained
  BY DEF IInv
<1> QED
  BY Invariant, <1>1, PTL

\* No listing, no cached list and no single upload shown holds a row of another
\* user.
THEOREM OwnUploads == Spec => []OwnUploadsOnly
<1>1. IInv => OwnUploadsOnly
  BY DEF IInv
<1> QED
  BY Invariant, <1>1, PTL

================================================================================
