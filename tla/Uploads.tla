-------------------------------- MODULE Uploads --------------------------------
(***************************************************************************)
(* Uploading images and listing them (server/models/upload).               *)
(*                                                                         *)
(* An upload touches three stores one after the other: it writes a file    *)
(* under tmp/images, inserts a row into file_uploads that points to it and *)
(* deletes the user's cached list from Redis; when the INSERT fails it     *)
(* removes the file again.  A listing reads the cache, on a miss the rows, *)
(* and caches what it read.  Requests run concurrently and nothing spans   *)
(* two of these calls.                                                     *)
(*                                                                         *)
(* The name of the file is the user id and twenty letters that randSeq     *)
(* computes from the nanosecond clock alone, so it stands for one reading  *)
(* of the clock; its extension is left out, as if all images were of one   *)
(* type.  An upload that fails validation is answered at once and changes  *)
(* nothing; it does not appear.                                            *)
(***************************************************************************)
EXTENDS Integers

CONSTANTS
    Users,       \* user ids
    Others,      \* ids of users with an earlier upload each, who stay away meanwhile
    Requests,    \* goroutines serving authenticated requests
    Images,      \* contents that pass validateUploadFile and MaxFileSize
    MaxClock,    \* bound: readings of the nanosecond clock
    Faults,      \* which of "disk", "db", "redis" and "crash" can happen
    Null         \* no file, a cache miss, an empty local

ASSUME UploadsAssumption ==
    /\ Users \cap Others = {}
    /\ Null \notin Images \cup [user : Users \cup Others, at : 0 .. MaxClock]
    /\ MaxClock \in Nat
    /\ Faults \subseteq {"disk", "db", "redis", "crash"}

VARIABLES
    clock,      \* timeNow().UnixNano()
    files,      \* files[n]: what tmp/images holds under name n
    rows,       \* file_uploads
    cached,     \* cached[u]: the list under "uploads:<u>" in Redis
    pc,         \* pc[r]: the call request r makes next
    user,       \* user[r]: claims.UserID
    name,       \* name[r]: the file name its upload was given
    image,      \* image[r]: the content it uploads
    list,       \* list[r]: the rows its listing read
    \* History variables: the program does not keep these.
    shared,     \* names that were given to two uploads
    leaked,     \* names an upload gave up without removing its file
    doubtful    \* rows whose INSERT was reported as failed

store   == <<clock, files, rows, cached>>
locals  == <<pc, user, name, image, list>>
history == <<shared, leaked, doubtful>>
vars    == <<clock, files, rows, cached, pc, user, name, image, list,
             shared, leaked, doubtful>>

\* What os.Create leaves behind, and a copy that broke off.
Partial == "partial"

Name == [user : Users \cup Others, at : 0 .. MaxClock]
Row  == [name : Name, image : Images]

RowsOf(u) == {row \in rows : row.name.user = u}

Init ==
    /\ clock = 0
    /\ \E earlier \in [Others -> Images] :
          /\ files = [n \in Name |->
                 IF n.user \in Others /\ n.at = 0 THEN earlier[n.user] ELSE Null]
          /\ rows = {[name |-> [user |-> u, at |-> 0], image |-> earlier[u]] : u \in Others}
    /\ cached = [u \in Users |-> Null]
    /\ pc = [r \in Requests |-> "idle"]
    /\ user = [r \in Requests |-> Null]
    /\ name = [r \in Requests |-> Null]
    /\ image = [r \in Requests |-> Null]
    /\ list = [r \in Requests |-> Null]
    /\ shared = {}
    /\ leaked = {}
    /\ doubtful = {}

Goto(r, label) == pc' = [pc EXCEPT ![r] = label]

\* The response is written, or the process is gone.
Finish(r) ==
    /\ Goto(r, "idle")
    /\ user' = [user EXCEPT ![r] = Null]
    /\ name' = [name EXCEPT ![r] = Null]
    /\ image' = [image EXCEPT ![r] = Null]
    /\ list' = [list EXCEPT ![r] = Null]

Continue(r, label) == Goto(r, label) /\ UNCHANGED <<user, name, image, list>>

--------------------------------------------------------------------------------
(* POST /upload                                                            *)

\* randSeq reads the clock, which need not have moved since the last reading.
Upload(r, u, i) ==
    LET n == [user |-> u, at |-> clock] IN
    /\ pc[r] = "idle"
    /\ Goto(r, "create")
    /\ user' = [user EXCEPT ![r] = u]
    /\ name' = [name EXCEPT ![r] = n]
    /\ image' = [image EXCEPT ![r] = i]
    /\ shared' = IF \/ files[n] # Null
                    \/ n \in leaked
                    \/ \E row \in rows : row.name = n
                    \/ \E q \in Requests : name[q] = n
                 THEN shared \cup {n} ELSE shared
    /\ UNCHANGED <<store, list, leaked, doubtful>>

Tick ==
    /\ clock < MaxClock
    /\ clock' = clock + 1
    /\ UNCHANGED <<files, rows, cached, locals, history>>

\* os.Create truncates what is there.
Create(r) ==
    /\ pc[r] = "create"
    /\ \/ files' = [files EXCEPT ![name[r]] = Partial] /\ Continue(r, "copy")
       \/ "disk" \in Faults /\ Finish(r) /\ UNCHANGED files
    /\ UNCHANGED <<clock, rows, cached, history>>

\* A slip: the error of io.Copy is not looked at.
CopyUnchecked(r) ==
    /\ pc[r] = "copy"
    /\ \/ files' = [files EXCEPT ![name[r]] = image[r]]
       \/ "disk" \in Faults /\ UNCHANGED files
    /\ Continue(r, "insert")
    /\ UNCHANGED <<clock, rows, cached, history>>

\* A copy that breaks off is answered with 500 and leaves its file behind.
Copy(r) ==
    /\ pc[r] = "copy"
    /\ \/ /\ files' = [files EXCEPT ![name[r]] = image[r]]
          /\ Continue(r, "insert")
          /\ UNCHANGED leaked
       \/ /\ "disk" \in Faults
          /\ leaked' = leaked \cup {name[r]}
          /\ Finish(r)
          /\ UNCHANGED files
    /\ UNCHANGED <<clock, rows, cached, shared, doubtful>>

\* A slip: the row describes whatever is on disk by then.
RowOfDisk(r) == [name |-> name[r], image |-> files[name[r]]]

RowOf(r) == [name |-> name[r], image |-> image[r]]

\* A slip: the file stays when the INSERT fails.
InsertWithoutRemove(r) ==
    /\ pc[r] = "insert"
    /\ \/ rows' = rows \cup {RowOf(r)} /\ Continue(r, "cacheDel")
       \/ "db" \in Faults /\ Finish(r) /\ UNCHANGED rows
    /\ UNCHANGED <<clock, files, cached, history>>

\* CreateFileUpload.  When it fails, the row may have been committed even so.
Insert(r) ==
    /\ pc[r] = "insert"
    /\ \/ /\ rows' = rows \cup {RowOf(r)}
          /\ Continue(r, "cacheDel")
          /\ UNCHANGED doubtful
       \/ /\ "db" \in Faults
          /\ \/ UNCHANGED <<rows, doubtful>>
             \/ rows' = rows \cup {RowOf(r)} /\ doubtful' = doubtful \cup {RowOf(r)}
          /\ Continue(r, "remove")
    /\ UNCHANGED <<clock, files, cached, shared, leaked>>

\* os.Remove after a failed INSERT; its error is ignored.
Remove(r) ==
    /\ pc[r] = "remove"
    /\ \/ files' = [files EXCEPT ![name[r]] = Null] /\ UNCHANGED leaked
       \/ "disk" \in Faults /\ leaked' = leaked \cup {name[r]} /\ UNCHANGED files
    /\ Finish(r)
    /\ UNCHANGED <<clock, rows, cached, shared, doubtful>>

\* DEL uploads:<u>, its error ignored, then 200.
CacheDel(r) ==
    /\ pc[r] = "cacheDel"
    /\ \/ cached' = [cached EXCEPT ![user[r]] = Null]
       \/ "redis" \in Faults /\ UNCHANGED cached
    /\ Finish(r)
    /\ UNCHANGED <<clock, files, rows, history>>

--------------------------------------------------------------------------------
(* GET /api/uploads                                                        *)

GetUserUploads(r, u) ==
    /\ pc[r] = "idle"
    /\ Goto(r, "cacheGet")
    /\ user' = [user EXCEPT ![r] = u]
    /\ UNCHANGED <<store, name, image, list, history>>

\* A hit is answered from the cache.
CacheGet(r) ==
    /\ pc[r] = "cacheGet"
    /\ \/ cached[user[r]] # Null /\ Finish(r)
       \/ (cached[user[r]] = Null \/ "redis" \in Faults) /\ Continue(r, "select")
    /\ UNCHANGED <<store, history>>

\* GetFileUploadsByUserID does not look at rows.Err(): a result set that breaks
\* off passes for a shorter one.
Select(r) ==
    /\ pc[r] = "select"
    /\ \/ \E l \in SUBSET RowsOf(user[r]) :
            /\ l = RowsOf(user[r]) \/ "db" \in Faults
            /\ list' = [list EXCEPT ![r] = l]
            /\ Goto(r, "cacheSet")
            /\ UNCHANGED <<user, name, image>>
       \/ "db" \in Faults /\ Finish(r)
    /\ UNCHANGED <<store, history>>

\* The list read earlier is cached for 30 minutes, an error is ignored.
CacheSet(r) ==
    /\ pc[r] = "cacheSet"
    /\ \/ cached' = [cached EXCEPT ![user[r]] = list[r]]
       \/ "redis" \in Faults /\ UNCHANGED cached
    /\ Finish(r)
    /\ UNCHANGED <<clock, files, rows, history>>

\* A slip: the entry is stored without a time to live, and goes with the next
\* upload only.
ExpireNever(u) == FALSE /\ UNCHANGED vars

\* The 30 minutes of an entry are over.
Expire(u) ==
    /\ cached[u] # Null
    /\ cached' = [cached EXCEPT ![u] = Null]
    /\ UNCHANGED <<clock, files, rows, locals, history>>

--------------------------------------------------------------------------------
(* GET /api/uploads/:id                                                    *)

GetUploadByID(r, u) ==
    /\ pc[r] = "idle"
    /\ Goto(r, "selectOne")
    /\ user' = [user EXCEPT ![r] = u]
    /\ UNCHANGED <<store, name, image, list, history>>

\* A slip: the owner of the row is not compared with the claims.
SelectOneOfAnyone(r) ==
    /\ pc[r] = "selectOne"
    /\ \/ \E row \in rows : list' = [list EXCEPT ![r] = {row}]
          /\ Goto(r, "show") /\ UNCHANGED <<user, name, image>>
       \/ Finish(r)
    /\ UNCHANGED <<store, history>>

\* The id is any.  No such row and every error are 404, the row of someone else 403.
SelectOne(r) ==
    /\ pc[r] = "selectOne"
    /\ \/ /\ \E row \in RowsOf(user[r]) : list' = [list EXCEPT ![r] = {row}]
          /\ Goto(r, "show")
          /\ UNCHANGED <<user, name, image>>
       \/ Finish(r)
    /\ UNCHANGED <<store, history>>

Show(r) == pc[r] = "show" /\ Finish(r) /\ UNCHANGED <<store, history>>

--------------------------------------------------------------------------------

\* The process dies between two calls.
Crash(r) ==
    /\ "crash" \in Faults
    /\ pc[r] # "idle"
    /\ leaked' = IF pc[r] \in {"copy", "insert", "remove"}
                 THEN leaked \cup {name[r]} ELSE leaked
    /\ Finish(r)
    /\ UNCHANGED <<store, shared, doubtful>>

Next ==
    \/ Tick
    \/ \E u \in Users : Expire(u)
    \/ \E r \in Requests :
          \/ \E u \in Users, i \in Images : Upload(r, u, i)
          \/ \E u \in Users : GetUserUploads(r, u) \/ GetUploadByID(r, u)
          \/ SelectOne(r)
          \/ Show(r)
          \/ Create(r)
          \/ Copy(r)
          \/ Insert(r)
          \/ Remove(r)
          \/ CacheDel(r)
          \/ CacheGet(r)
          \/ Select(r)
          \/ CacheSet(r)
          \/ Crash(r)

Spec == Init /\ [][Next]_vars

\* Redis expires its entries; nothing is assumed of the requests.
FairSpec == Spec /\ \A u \in Users : WF_vars(Expire(u))

--------------------------------------------------------------------------------
(* Safety                                                                  *)

\* Every variable has its type: files hold an image or what a copy left behind,
\* and a row never describes such a remainder.
TypeOK ==
    /\ clock \in 0 .. MaxClock
    /\ files \in [Name -> Images \cup {Partial, Null}]
    /\ rows \subseteq Row
    /\ cached \in [Users -> (SUBSET Row) \cup {Null}]
    /\ pc \in [Requests -> {"idle", "create", "copy", "insert", "remove", "cacheDel",
                            "cacheGet", "select", "cacheSet", "selectOne", "show"}]
    /\ user \in [Requests -> Users \cup {Null}]
    /\ name \in [Requests -> Name \cup {Null}]
    /\ image \in [Requests -> Images \cup {Null}]
    /\ list \in [Requests -> (SUBSET Row) \cup {Null}]
    /\ shared \subseteq Name
    /\ leaked \subseteq Name
    /\ doubtful \subseteq Row

\* Every row points to the complete file it describes, through concurrent
\* uploads, failures of any store and crashes.  Two things only break it: two
\* uploads of a user that read the same nanosecond, and an INSERT that took
\* effect although it was reported as failed.
FilesBacked ==
    \A row \in rows \ doubtful :
        row.name \in shared \/ files[row.name] = row.image

\* A file without a row belongs to an upload that is still running, unless its
\* upload crashed, could not finish the copy or could not remove the file again.
OrphansExplained ==
    \A n \in Name :
        files[n] # Null =>
            \/ \E row \in rows : row.name = n
            \/ n \in leaked \cup shared
            \/ \E r \in Requests :
                  name[r] = n /\ pc[r] \in {"copy", "insert", "remove"}

\* No list, read, cached or about to be shown, holds an upload of another user,
\* whoever reads and uploads at the same time.
OwnUploadsOnly ==
    /\ \A r \in Requests : list[r] # Null => list[r] \subseteq RowsOf(user[r])
    /\ \A u \in Users : cached[u] # Null => cached[u] \subseteq RowsOf(u)

--------------------------------------------------------------------------------
(* Liveness                                                                *)

\* A cached list that misses an upload, because its SET lost the race with the
\* upload's DEL, because the DEL failed, or because the rows broke off, is gone
\* again in the end, with no help from further uploads.
ListHeals == \A u \in Users : []<>(cached[u] = Null \/ cached[u] = RowsOf(u))

================================================================================
