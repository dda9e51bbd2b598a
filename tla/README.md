# Verification of elotus_test

TLA+ modules for the Go server in `src/server` and the three exercises in
`src/dsa`, TLC runs on small instances, and theorems that TLAPS checks for every
value of the constants. Paths below are relative to `src/`; every definition that
models code is listed with its lines in `PROJECT.json` under `map`.

## 1. The system

An echo HTTP server keeps users, their revocation limits and the metadata of
uploads in PostgreSQL, image files under `tmp/images`, and counters and two
caches in Redis. It may run in several processes over the same stores
(DEVELOPER.md:705, `--scale app=3`). Requests are goroutines. There is no lock
and no transaction in the code: a handler is a sequence of separate calls to the
three stores, and any other handler may run between two of them. Redis is
optional: with a nil client every call to it is skipped, and the error of every
call but `Incr` and `Get` is ignored.

| component | state | operations | hard behaviour | correct means |
|---|---|---|---|---|
| token revocation (`models/auth/revocation.go`, `jwt.go`, `middleware/jwt.go`) | `users.last_revoked_token_at`; Redis `revoke:<id>` | GenerateToken, ValidateToken / IsTokenRevoked, RevokeUserTokensBefore | cache-aside over two stores, failing calls, crashes, JWT seconds against microseconds | the limit never goes back; the cache only lags; refusals are right; acknowledged revocations last |
| rate limiter (`bredis/bredis.go`, `middleware/ratelimit.go`) | Redis `rl:<key>` and its time to live | CheckRateLimit, ResetRateLimit | INCR and EXPIRE are not atomic; resets by other requests | a bounded number passes per window; a used-up key is freed |
| uploads (`models/upload`) | files, `file_uploads`, Redis `uploads:<id>` | Upload, GetUserUploads, GetUploadByID | three stores one after the other; file names from the clock; cache-aside list | rows point to whole files; files without a row are explained; the list heals |
| migrations (`psql/migrate.go`, `cmd/db.go`, `db/migrations`) | the schema, `schema_migrations`, the directory of files | MigrateUp at every start, MigrateDown, status, generate | SQL and record are two transactions; servers start together; truncated reads; developers change files while the database knows versions only | no server serves on a broken schema; the record describes the schema, and nothing stays pending |
| accounts (`models/auth/handler.go`, `models/user`) | `users` | Register, Login, UpdateLastLogin | UNIQUE alone decides between registrations; lost replies; every error of a SELECT means "no such user" | one owner a name, who can log in |
| lifecycle (`main.go`, `models/models.go`, `models/router.go`) | the process, its listener and its two clients | NewModels, the goroutine of e.Start, signals, Shutdown | the 30 s of Shutdown against running requests; a listener that starts late | no store is closed under a request before the 30 s are over; a shutdown ends |
| health check (`models/auth/handler.go`) | a report a request | HealthCheck | two pings at different moments of a process that drains or has no Redis | DEGRADED only for a reason |
| validation (`validation/validation.go`) | none | ValidateUsername, ValidatePassword, the hashing in Register | bytes against characters, trimmed against stored names, the limit of bcrypt | but for three known departures, the documented rules decide who gets an account |
| configuration (`env`, `renv`, `bsql/open.go`) | `env.E` | ParseCmd, SetDefaults, the getters | values left out, mistyped or zero; the order of the defaults | no limit is lost by accident; the pages call the right port |
| exercises (`dsa/*`) | locals | grayCode, findLength, sumOfDistancesInTree | index and counting arithmetic | the result is what the definition asks for |
| `bsql`, `response`, `logger`, HTML | none of interest | formatting, I/O | - | not modelled (section 7) |

How they interact: the JWT middleware runs IsTokenRevoked before every handler
behind it, so RevokeToken is itself an authenticated request; the limiter runs
before every handler (per address) and inside Login (per name), and Login resets
its counter when it issues a token; MigrateUp must return before a server
constructs its handlers; revocation, uploads and limiter share the one Redis
client and fail with it, and a process decides once, at its start, whether it has
one.

## 2. Modules

| module | models | checked by |
|---|---|---|
| `RevocationPromise` | what token revocation promises: one limit a user, an atomic verdict, prompt or lagging | refined by `TokenRevocation` |
| `TokenRevocation` | one action per store call of a request: `ValidateToken`, `CacheGet`, `DbSelect`, `CacheSet`, `Deny`, `Protected`, `RevokeToken`, `DbUpdate`, `Fail`, `CacheDel`, `Respond`, `Crash`; plus `GenerateToken` and `Tick` | `revocation_*` (through `MCTokenRevocation`) |
| `TokenRevocationProofs` | theorems on it | TLAPS |
| `RateLimiter` | `Incr`, `Expire`, `ResetRateLimit`, `Serve`, `Crash`, `Tick` over any number of keys and requests | `rate_limit*` |
| `RateLimiterProofs` | theorems on it | TLAPS |
| `Uploads` | `Upload`, `Create`, `Copy`, `Insert`, `Remove`, `CacheDel`; `GetUserUploads`, `CacheGet`, `Select`, `CacheSet`; `GetUploadByID`, `SelectOne`, `Show`; `Expire`, `Crash`, `Tick` | `uploads` |
| `UploadsProofs` | theorems on it | TLAPS |
| `Migrations` | the four migrations as what their SQL needs, bars, drops and adds; `MigrateUp`, `ExecUp`, `RecordMigration`, `UpDone`, `MigrationStatus`, `MigrateDown`, `ExecDown`, `RemoveMigration`, `DownDone`, `Fault`, `Exit` | `migrations*` |
| `MigrationsProofs` | theorems on it | TLAPS |
| `MigrationFiles` | the directory: `GenerateMigration`, `Write`, `Delete`, and a whole `MigrateUp` or `MigrateDown` a step, with `Load`, `UpSQL` and `DownSQL` | `parts` (through `MCParts`) |
| `MigrationFilesProofs` | theorems on it | TLAPS |
| `Lifecycle` | a server process: `Start`, `Listen`, `Signal`, `Pass`, `HttpStopped`, `CloseRedis`, `CloseDb`, `Exit`, `Kill`, and `Accept` and `Answer` of a request | through `Accounts` and `HealthCheck` |
| `Accounts` (extends `Lifecycle`) | `Register`, `Login`, `CreateUser`, `CheckRateLimit`, `GetUserByUsername`, `UpdateLastLogin`, `Respond` in several servers over one table | `accounts` |
| `AccountsProofs` | theorems on both | TLAPS |
| `HealthCheck` (extends `Lifecycle`) | `Check`, `PingDb`, `PingRedis`, `Report` | `parts` |
| `Validation` | `Register` up to the INSERT, over any texts | `parts` |
| `Configuration` | `ParseCmd`, `SetDefaults` and the getters | `parts` |
| `ServerPartsProofs` | theorems on `HealthCheck`, `Validation` and `Configuration` | TLAPS |
| `RepeatedSubarray` | the two loops of findLength, a turn a step | `parts` |
| `GrayCode`, `SumOfDistances` | the loop of grayCode; the two traversals of sumOfDistancesInTree | `parts` |
| `ExercisesProofs` | theorems on the three exercises | TLAPS |
| `MCParts` | one part moves in each behaviour, the others rest; it extends the parts, so that its run checks the very definitions that are proved | TLC |

Conventions. `pc[r]` is the next store call of a request; the other per-request
variables are the handler's locals and `Finish` forgets them when the response is
written. History variables, which the program does not have, are listed apart in
each module. A definition introduced by "A slip" is a plausible mistake in the
definition that follows it; `PROJECT.json` names, for every checked property, a
slip that breaks it.

Correspondence worth knowing:

- `TokenRevocation`: time is in ticks, `TicksPerSecond` to a JWT second;
  `NumericDate` rounds down as `jwt.NewNumericDate` does. Redis faults are calls
  that have no effect or a GET that fails; database faults are a failed SELECT and
  an UPDATE whose reply is lost, with or without effect. A request body may carry
  a time in the past or the future (`ClientTimes`). `Crash` ends one request at any
  point, which includes the death of a whole server, one of several or the only one.
- `RateLimiter`: `refused` is a command that is not executed, `lost` one whose
  reply is lost. The counter stops at `Limit + 1`, since the code only asks whether
  it is above `Limit`. The TTL read that fills `Retry-After` is left out. A reset
  starts the accounting of `WindowBudget` anew, as a successful login is meant to.
- `Uploads`: a name is the user and one reading of the clock, because `randSeq` is
  a function of the nanosecond clock; `Select` may return part of the rows under a
  database fault, because `rows.Err()` is not consulted. Without Redis the module
  behaves as with a Redis whose calls all fail. `Others` are users who have an
  upload from before and send nothing themselves; their rows are there to be asked
  for by id, and any row of a user stands for any id.
- `Lifecycle`: `Drain` ticks stand for the 30 seconds of the shutdown context, and
  the main goroutine goes through `phase`. `NewModels` is one step, because nothing
  of the process can be observed before it returns; its migrations are in
  `Migrations`. `client` is what initRedis returned to that process: a server that
  came up while Redis did not answer works without it until it is started again.
  `sql.DB.Close` makes later calls fail and does not wait. A signal
  before `signal.Notify` is a `Kill`.
- `Accounts`: each action of `Lifecycle` that ends a process also ends its requests
  without an answer. 409, 429 and 500 are one answer, `refused`. A password stands
  for its hash, which is only ever compared, and a name for the string as it was
  sent: it is validated trimmed and stored untrimmed, so "bob" and "bob " are two
  accounts. `CheckRateLimit` may go either way with an open client; the counter
  itself is in `RateLimiter`.
- `Migrations`: one `Exec` of several statements is one implicit transaction. A
  concurrent DDL statement that would wait for or collide with another one is the
  later of the two, or a `Fault`. `Applied` returns a first part of the recorded
  versions when the read breaks off, again because `rows.Err()` is not consulted.

- `MigrationFiles`: the SQL of a file is "create" or "drop" of one object of its own,
  between markers; crashes and failing statements are in `Migrations`. `sort.Slice`
  is not stable, so files of one version come in any order. The claims are about
  `Sound` files: as the guide has them, alone with their version, and untouched
  since that version was recorded. What happens to the others is in the model and
  excluded from the claims by name: a second file of a version runs and cannot be
  recorded, a template that a starting server has recorded never runs after it was
  filled in, markers in the reverse order make a rollback run the Up part, and a
  directory that is not found passes for an empty one (`status` "blind").
- `Validation`: characters, their classes and the bounds on lengths are constants. In
  the run one character stands for each class that the code tells apart, and two of
  them take two bytes.
- `GrayCode`: `^` is what it does bit by bit (`Xor`), and `1 << n` a power of 2.
- `SumOfDistances`: a traversal is given by its calls (node, parent). What a call adds
  up is a function of its children's sums, as in the code; the second traversal takes
  one call a step and its calls in any order in which a parent comes before its
  children, of which the code's is one.
- `Configuration`: the texts of the files and `time.ParseDuration`, in hours, are
  constants; a file is a record of the settings that
  matter, with the empty string for a key that is left out. `Duration` and `MaxOpen`
  are what is handed to Redis, the tokens and the pool, for which zero or less has a
  meaning of its own.
- `HealthCheck`: a ping of an open store may fail; only then, and after the 30
  seconds of a shutdown, may a report say DEGRADED.

## 3. Runs

| run | expect | what it shows | bounds |
|---|---|---|---|
| `revocation_safety` | pass | type, `CacheNeverAhead`, `RejectionSound`, `AckedDurable`, `LimitNeverBack`, `FirstRevocationHonoured`, `StaleHeals`, refinement of the lagging promise | 1 user, 2 requests, clock 0..1, a client time beyond it, every fault |
| `revocation_no_redis` | pass | `HonoursAcked`, refinement of the prompt promise | 1 user, 2 requests, clock 0..3, 2 ticks a second, tokens that expire, crashes |
| `revocation_race` | violation of `HonoursAcked` | with Redis and no fault an acknowledged revocation is not honoured | 2 requests |
| `revocation_same_second` | violation of `LaterTokenSurvives` | a token newer than the limit is refused | 1 request, 3 ticks a second |
| `rate_limit` | pass | `WindowBudget`, `CounterHasDeadline`, `WindowIsFixed`, `LockoutEnds` | 1 key that logins reset and 1 of an address, 2 requests, limit 2, window 3, every fault |
| `rate_limit_lockout` | violation of `EveryLockoutEnds` | a crash between INCR and EXPIRE locks a key for good | 2 requests, crashes |
| `uploads` | pass | `FilesBacked`, `OrphansExplained`, `OwnUploadsOnly`, `ListHeals` | 1 user who sends requests and 1 who has an upload, 2 requests, 2 clock readings, every fault |
| `migrations` | pass | `ServingSchema`, `RecordedPrefix`, `SchemaFollowsRecord`, `UpFailsForAReason` | 2 programs at once, 2 faults, rollbacks of 1 to 4 |
| `migrations_rollback` | violation of `RollbackWorks` | a full rollback fails with no fault | 1 program at a time |
| `migrations_retry` | violation of `RetryHelps` | one crash makes every later start fail | 1 program at a time, 1 crash |
| `accounts` | pass | `OneOwner`, `RegisteredCanLogIn`, `GracefulStop`, `ShutdownEnds` | 2 servers that restart, 2 requests, 1 name, 2 passwords, 1 tick of shutdown, database faults and kills |
| `parts` | pass | `CellsAreLongest`, `LongestRepeated`, `IsGraySequence`, `AnswersAreDistances` | arrays up to 3 over 3 values, 5 bits, all trees up to 5 nodes |
| | | `RulesDecide` | texts of up to 5 characters of 7 classes, with names of 2 to 3 bytes, passwords of 4 to 6 and a hash limit of 5 |
| | | `LimitsHold`, `PagesFindServer` | every combination of six values of two durations, port, address, two keys and a pool limit of -1, 0 and 1 |
| | | `RecordTellsEffect`, `NothingPending` | 3 files, two of one version, 4 bodies and the template, any number of runs, rollbacks and edits |
| | | `DegradedForAReason` | 1 process that restarts, 2 checks, with and without Redis |

Why these bounds are enough to be interesting. A race in the code is between one
request that sits between two calls and one that overtakes it, so two requests
reach every one of them; users, keys and files of different users never meet, so
one is enough (the theorems below drop the bound where they exist). Requests are
reused after they answer, so a run contains any number of requests, only not more
than two at once. Two instants of the clock plus a client time give three
limits that can be told apart. A window of the limiter
is longer than the limit needs to be used up, and requests may follow one another in it.
`migrations` has no bound on the number of starts and rollbacks, and `accounts`
none on starts, kills and requests one after the other; one tick is enough for
"still time" and "no time left". The bound of a
constant is commented where it is declared.

`parts` joins components that share no state. A behaviour moves one of them, chosen
in its initial state, from any of that component's inputs; the others keep their
smallest value, so the states add up and do not multiply. In `Validation` either the
name or the password varies, since no check looks at both. The reachable texts
include names with spaces around them, inside them and alone, and lengths just below,
at and above each bound in bytes and in characters.

`parts` ends because functions return, so its configuration turns the deadlock check
off; every other run checks for deadlock.

### Where the code and its documents disagree

- README.md:282: "All tokens issued before this timestamp are considered revoked".
  `revocation_race`: request A reads the first limit from the row; B revokes again
  (UPDATE, DEL, 200); A caches the old limit; from then on a token between the two
  limits is accepted until the entry expires (24 h by default). The first
  revocation of a user is not affected (`FirstRevocationHonoured`).
- revocation.go:48: "issued BEFORE". `revocation_same_second`: `iat` is rounded
  down, so a token issued after a revocation within the same second is refused.
- README.md:297: "5 attempts per 15 minutes". `rate_limit_lockout`: no deadline,
  no end. (bredis.go:86 also calls the window sliding; it is fixed, and
  `WindowBudget` states what it guarantees: twice the limit in a window.)
- DEVELOPER.md:482: "Rollback n migrations". `migrations_rollback`: the second
  migration's Down leaves `token_revocations` behind, which refers to `users`.
- DEVELOPER.md:772: "Rollback and retry". `migrations_retry`: after a crash between
  the SQL of the last migration and its record, the RENAME can never succeed again,
  and no rollback removes the column in its way: every later start is a `Fatalf`.
- README.md:144-145 and 267: names are "3-50 characters", "only letters, numbers, and
  underscores". validation.go:22 trims the name that it looks at, and the name is stored
  as it came (models/auth/handler.go:75): " bob" gets an account, and another one than "bob".
- README.md:138 and 267: "Minimum 8 characters", "8+ chars". validation.go:48 counts
  bytes: seven characters, one of which takes two bytes, are accepted, although the
  message at line 49 speaks of characters too.
- README.md:138 and 267 name no longest password, and validation.go:53 one of 128
  characters. bcrypt refuses more than 72 bytes: from 73 to 128 bytes a password of the
  rules is answered 500, "Failed to process password" (models/auth/handler.go:70-73), and above
  128 bytes 400.
- README.md:197: `DISABLED` means "Redis not configured (system still works)". A Redis that
  is configured and does not answer when the server starts is reported the same way,
  with UP, until the process is started again; models.go:151 calls that "Redis
  disabled" as well. `DegradedForAReason` says what the code does: DISABLED is what a
  process without a client reports.
- DEVELOPER.md:678 says revocation caches the limit; the code deletes the entry.
  This is why a first revocation takes effect at once.

The first five have a run that shows them. The others need one step and no particular
order of events, so they are listed with their lines only. `RulesDecide` names the three
of registration (`SpacesAround`, `CountedInBytes`, `BeyondHashing`), claims nothing for
the requests they touch, and claims both directions of the rules for all others.

## 4. Fairness

- `TokenRevocation!FairSpec`: weak fairness of `Tick` only. Time passes and Redis
  expires entries; requests may hang for ever. `StaleHeals` needs no more, and
  holds although every DEL may fail.
- `RateLimiter!FairSpec`: time passes, and a request between INCR and EXPIRE goes
  on (to success, failure or a crash): go-redis bounds every call by a timeout.
- `Uploads!FairSpec`: weak fairness of `Expire`: an entry has 30 minutes to live.
  Nothing is assumed of requests.
- `Accounts!FairSpec`: weak fairness of `ShutdownStep` for each server. The context's
  time runs, and the main goroutine goes on through calls that return; requests may
  hang for ever, which is what `ShutdownEnds` is about.
- `Migrations!RetrySpec`: a program at work goes on (weak), and operators try both
  a migration and a rollback again and again (strong). It is generous on purpose:
  the run shows that even this does not help.

## 5. Proofs

All theorems hold for any sets of users, requests and keys, any durations and any
subset of the faults. What they assume of the constants is in the ASSUME of the
module they are about, which every run evaluates: durations and bounds are numbers,
`Null` is none of the values it stands beside (in `Uploads` neither an image nor a
name), a limit and a window are positive; letters, digits and "_" are neither spaces
nor wide, names are not empty and bcrypt takes no more bytes than a password may have;
ParseDuration reads "24h" as 24 hours.

Every safety invariant and every refinement of the passing runs is proved.

Some of these results need an induction over data: a sum over the window, a fold over
a directory. The theorems of the library for that take the induction hypothesis as an
operator, which the provers do not instantiate. The lemma `Induct` takes it as a set
of numbers instead, and follows from the well-foundedness of the order on them. A
recursive function or a fold is a CHOOSE of a function that satisfies an equation;
`Induct` builds one for every size (`PartExists`, `FoldExists`, `Iterates`), and from
then on the equation can be used (`UptoSteps`, `UpFoldSteps`, `DownFoldSteps`,
`ShiftedSteps`, `BallSteps`, `LevelSteps`); two functions that satisfy it are the same
(`Agree`). `SchemaAt` of `Migrations` is defined on five numbers, so there the
function is written down.

**Token revocation.** `TypeCorrect` first. `LimitIsMonotone` follows from the type
invariant alone, because the UPDATE is conditional. The other results on single
requests need to know where a limit in flight came from, so the inductive
invariant `IInv` adds to `CacheNeverAhead`, `RejectionSound` and `AckedDurable`:
`BaseReached` (the row has reached what was acknowledged when a request arrived),
`FirstLimitCached` (as long as a row has had one limit only, every cached or read
value is that limit) and `RowDecides` (without Redis and database errors a verdict
agrees with the row the request saw). `CacheNeverAhead` is not inductive without
its half about SETs in flight, and `FirstRevocationHonoured` not without
`FirstLimitCached`. The step proof has one lemma per action; `OneRequestMoves` says
that an action changes the locals of one request only, `ReachedStable` that what a
row has reached it keeps. From `IInv`: `CacheIsNeverAhead`, `RejectionsAreSound`,
`AckedIsDurable`, `RevocationWithoutRedis` (under `~HasRedis` and no database
faults) and `FirstRevocationIsHonoured`. `Implements` is the refinement: initial
states map to initial states, and each action to `Revoke`, `Ask`, `Judge`, `Leave`
or a stutter of `RevocationPromise`; the verdict steps need `RejectionSound` and,
for the prompt promise, `RowDecides`.

**Rate limiter.** `TypeCorrect` and `CountersHaveDeadlines`: the request that
brought a counter to 1 is at its EXPIRE until the counter has a deadline or a fault
is noted; every action keeps that, including resets and the expiry of a key between
the two calls. `BudgetHolds` is `WindowBudget`: what was admitted in a window splits
into two generations, that of the present counter and that of the one before
(`Generations`). Each is at most the limit, the present one at most the counter, and
the older one lies so far back that all of it leaves the window before the present
deadline runs out; when a key expires, the older generation is therefore empty, and
the present one takes its place. A key without a deadline never expires, so its older
generation may be anything. The lemmas on `SumFunction` say that it adds up, that
ageing makes it no larger, and that one more request adds one. `WindowsAreFixed` is an
action property: before a counter that nobody resets has a deadline, one request alone
has found it missing (`OneOpens`), so no EXPIRE ever meets a deadline that is set.

**Uploads.** `FilesBacked` and `OrphansExplained` speak of the disk and the table; to
be inductive they need to know what an upload that is still running has done for its
name: `OwnName` (no row before its INSERT, none but a doubtful one after a failed one,
the whole file after the copy), `NamesExclusive` (a name that two requests hold was
given twice, which only one reading of the clock for both can cause) and
`LocalsKnown`. `OwnUploadsOnly` is inductive with the types: a SET writes the list that
its own request read. From `Invariant`: `FilesAreBacked`, `OrphansAreExplained` and
`OwnUploads`, for any users, requests and images under every fault and crash.

**Migrations.** Two invariants, for two promises. `GoingUp` holds until somebody starts
a rollback, whoever overlaps, fails or dies: a recorded version's SQL has run and its
predecessors are recorded, and a program at work has recorded or found recorded what it
has behind it, which stays true although it read the record long ago, since the record
only grows. It gives `ServersFindTheirSchema` and `RecordHasNoGaps`. `TakingTurns` holds
with rollbacks, as long as programs do not overlap and none is torn between SQL and
record: for some n the versions 1 .. n are recorded, the schema is the one after n
migrations (`Describes`), and the one program at work is one step ahead of the record
or not at all (`Ahead`). It gives `RecordTellsSchema` and `UpFailsOnlyForAReason`. The
numbers of programs, rollbacks and faults are unbounded; the four migrations are those
of the repository.

**Migration files.** `RecordIsTrue` and `NothingStaysPending`, for any file names,
directories of any size and files with any content. What they need besides is
`Remembered`: nothing is in the database whose version was never recorded. So a file
that appears, or becomes the only one of its version, with a version that was never
recorded has left nothing behind, and one whose version was is no longer `Sound`. The
two loops are folds; `ApplyGood` and `RollBackGood` say what one turn keeps
(`UpGood`, `DownGood`), and that MigrateUp misses no file follows from the pigeonhole
principle (`AllAreLoaded`).

**Health check.** `DegradedHasReason` and `ChecksStopGracefully`. As in **Accounts**,
`ProcessInv` says where a server listens and a request runs, so that a store is closed
only under a check that is overdue (`ClosedIsOverdue`). `Explained` follows the report
from the first ping on: a report that is spoiled in the first one is still explained
after the second one, because what is overdue stays so as long as its process lives, and
what Redis is said to be rests on `client`, which no process changes while it lives.

**Accounts.** `TypeCorrect`, then one invariant in two parts. `ProcessInv` adds
`Placed` to `GracefulStop`: a server listens only before it is told to stop, and a
request is at a process that lives; without it a late listener or a restart could
put a request into a closing server. `AccountInv` adds `StillTold` to `OneOwner` and
`RegisteredCanLogIn`: the answer 201 that a login relies on is still the answer for
its name. That a closed database is only met by overdue requests
(`ClosedIsOverdue`) ties the two parts together. From `Invariant`:
`AccountHasOneOwner`, `AccountCanLogIn` and `StopIsGraceful`, for any servers,
requests and names, with and without Redis.

**Repeated subarray.** `FindLengthIsLongest`: for arrays of any length over any
values. The loop invariant is `CellsAreLongest` (each cell passed is the length of a
match that cannot be made longer, each other one is 0) with `ResultIsReached` (no
cell is above `result`, and some block has that length). `CellIsLongest` is the
heart: a match that begins at (i+1, j+1) and cannot be made longer becomes one that
begins at (i, j). No induction over arrays is needed, since the loops do it.

**Gray code.** `GrayCodesAreASequence`, for every number of bits. Bit k of the code at
u is the sum of bits k and k + 1 of u, modulo 2 (`CodeIs`); that the `CHOOSE` in `Xor`
has something to choose, within its bound, is `XorExists`. Adding 1 flips the lowest
bits of u up to the first 0, and of the sums just one changes (`Neighbours`). Two
numbers with the same sums differ in no bit, because the highest ones are 0 and each
bit determines the next lower one (`CodesDiffer`). So no code comes twice, and as many
codes as there are numbers of n bits are all of them (`AllCodes`).

**Sum of distances.** `AnswersAreTheSums`, for every tree of `Trees(n)`: n - 1 edges
between n nodes that are all reached from node 0. First that `Distance` is one: it is
symmetric, changes by one at most along an edge, and every other node has a neighbour
that is nearer (`Metric`). These neighbours give every node but w an edge of its own;
there are n - 1 edges, so these are all, and along any edge the distance to w
changes by exactly one, towards a single neighbour (`EdgeSteps`). Hence what a call
reaches is its node and, disjoint from each other, what its children reach
(`CallParts`); the traversal makes one call for each node (`CallsAre`, `CallOfNode`);
and the sums the calls return are the number of nodes they reach (`SizeIs`) and the sum
of the distances to them (`SumIs`). `Reroot` is the line of dfsReroot. The invariant
`TreeInv` says that the counted subtrees are what the calls reach and that every answer
written is right, whichever branch the second traversal has come to.

**Validation.** `RulesAreDecisive`, for any characters, classes and limits and texts of
any length. `TrimSpace` leaves a name of the rules as it is (`NothingToTrim`); no character
takes less than one byte, and more only if it is wide (`BytesAndCharacters`). The
invariant says which answer goes with which verdicts.

**Configuration.** `LimitsAreHeld` and `PagesCallTheirServer`, for any texts and any
parser that reads the built-in "24h". `ConfigInv` says what the settings have become at
the stage main is in: a setting that is left out has its default, and a mistyped one
is replaced only where it is used.

## 6. What is model-checked only

The liveness properties (`StaleHeals`, `LockoutEnds`, `ListHeals`, `ShutdownEnds`) and
the runs that end in a violation, which show that something is reachable. The provers
treat neither.

`AnswersAreDistances` and its theorem speak of the answers that have been written. That
the second traversal comes to every node is not stated as a property: it is a recursion
over a finite tree without a condition that could end it early.

## 7. Not modelled, and why

`bsql` (a thin layer over `database/sql`; its calls are the atomic steps here, and no
handler holds one connection while it waits for another, so the pool can make a
request wait and not block it for good), `response`, `logger`,
`middleware/logging.go`, the routes of static files and the HTML page (output only),
`GetUserByID` (called nowhere), `features.enable_registration` and
`enable_token_revoke` (read from the file and consulted nowhere), the exact value of
`Retry-After` and the digits that `randSeq` makes of a clock reading (numbers no other
code depends on; a clock reading is one name here), what a process whose port is taken
should do (it stays up; no document says more), detection of content types, signatures
of tokens and parsing of headers (libraries, or without state). go-redis may repeat a
command after a network error; a repeated INCR counts a request twice, which only
makes the limiter stricter, and the other commands are idempotent. A user's list may
miss an upload that was just acknowledged; README.md:80 promises no more than a list,
so only its healing is stated. A failed SELECT lets a token pass; no document promises
otherwise, and `HonoursAcked` is only claimed without database faults.
`token_revoke_duration: 0s` makes Redis keep a stale limit for ever. `LimitsHold`
shows that only a file that says so leads there; `StaleHeals` is checked for positive
durations, and the proofs of the safety properties include 0.

## 8. Plan

Done: every component of section 1 is modelled, but for those of section 7, and every
safety property of the runs is proved.

Next:

- `Uploads` over `Lifecycle`: which files and rows a shutdown under running uploads
  leaves behind (so far a `Crash` between two calls).
