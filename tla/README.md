# Verification of the Honua Python SDK

TLA+ modules, TLC configurations and TLAPS proofs for the packages `honua-sdk`,
`honua-gp` and `honua-admin` of this repository. A module models the whole of a
handler, with the code's guards, early returns and error paths; payloads, names and
formats are model values. Paths below are relative to
`packages/honua-sdk/honua_sdk/` unless another package is named. `PROJECT.json`
maps every definition to the lines it stands for and lists what is hard to test in
this code, with the properties that are about it.

To check a run: `tlc -workers 2 -config MCGpWait.cfg MCGpWait.tla`. To check the
proofs: `tlapm GpWaitProofs.tla`.

## 1. Inventory

| Part | State it keeps | Operations | Interacts with | Hard because | Module |
|---|---|---|---|---|---|
| Job lifecycle, `geoprocessing.py` | a job id, its last status, a deadline, a delay | execute, submit, wait, cancellation, dismiss, results | HTTP to the server's jobs, other callers of the same job | a timeout races the job's end; lost answers; a task cancelled between any two awaits | `JobServer`, `JobCall`, `GpWait` |
| Job runner, honua-gp `_process_jobs.py` | the same, with a fixed sleep | submit_and_wait | the same | the same, and answers that lack an id or outputs | `ShimJob` |
| Retrying transport, `_retry*.py` | tries, the response in hand | handle_request | the connection pool, the server | duplicated effects, pool starvation, overrides | `RetryTransport` |
| Token providers, `auth.py` | a token in a store, a lock | auth_headers, refresh, revoke | callbacks, every request | threads at one expiry, two clocks, a callback that fails in the lock | `TokenProvider` |
| Clients and clones, `client.py`, `async_client.py`, `geocoding.py`, `grpc/` | an httpx client or channel, who owns it | constructors, with_options, copy, close | the caller's client and transport | ownership through chains of clones | `ClientOptions` |
| Client methods, `client.py`, `async_client.py`, `protocols/`, honua-admin `_client.py`, `_async_client.py` | keys, If-Match, streams, the page of a list | every request method | the transport, the server, other programs | lost, repeated, late and cancelled requests; refusals in three forms | `ClientMethods`, `AdminMethods`, `ErrorMapping`, `ClientCalls` |
| SDK cursors, `cursors.py` | a buffer of rows, a snapshot of ids | insert_row, update_row, flush, the with block | applyEdits, the page walkers | partial failure, flushes that await, edits that move the pages being read | `EditCursor`, `UpdateWalk` |
| Page walkers and sources, `protocols/`, `ogc.py`, `source.py`, `_query_dispatch.py` | an offset or a link | every method that pages | servers that announce pages in different ways | walks that end early or never, limits, silent cuts | `QueryMethods`, `Pagination` |
| Scene packages, `protocols/scenes.py` | a queue of tilesets, a manifest | build_offline_package, validate | the scene server, the disk, the clock | cycles, bounds, budgets, expiry, names that collide | `ScenePackage` |
| Job diagnostics, `gp_diagnostics.py` | a cursor into a journal | logs, inspect | the writer of the journal, a server | files that grow, tear and are replaced while they are read | `JobJournal` |
| Session, honua-gp `_session.py`, `_resolve.py` | layer aliases, unbound outputs, cached clients, settings | register, resolve, reset, configure, the lazy accessors | every tool | calls made of several locked sections | `LayerAliases`, `SessionClients` |
| Tools, honua-gp `_process_tools.py`, `management/` | none of their own | run_layer_process, MakeFeatureLayer, SelectLayerByAttribute, GetCount | the session, the job runner | outputs that do not exist yet, selections | `LayerAliases` |
| da cursors and audit, honua-gp `da/`, `_audit.py` | a buffer, an audit record, a day file | insertRow, flush, close, reset, record_call, write | applyEdits, the disk | the record must tell how the block really ended, and reach its file | `DaCursor`, `AuditWriter` |

The layers stack: a tool of honua-gp resolves its inputs through the session and
runs a job through `submit_and_wait`, which uses a client's `_request`; that takes
headers from the token provider and goes through the retrying transport to the httpx
pool. The modules cut this stack at the HTTP request: a module of a caller treats a
request as steps (sent, served or lost, answered), `RetryTransport` shows what a
single request may do to the server, and `ClientCalls` puts every method of the
clients on top of a transport that repeats.

What makes each part correct, in a phrase: a job call never reports or destroys
work that it should not; a retry never repeats an effect that was to happen
once; a token is refreshed once and not used once revoked; closing is neither
missed nor done for somebody else; a conditional update changes what its caller
read; an exception says why; no edit or row is lost or repeated in silence, and a
cut is signalled; an alias never stands for data that does not exist; what the logs
and the audit trail say is what happened.

## 2. Modules

* **`JobServer`** (external) is the OGC Processes server as the clients rely on it:
  jobs that are accepted, run, end and are forgotten; dismissing an active job ends
  it and dismissing an ended one removes it.
* **`JobCall`** is the abstract specification of a blocking call: it waits, and
  ends as succeeded only if work it started was done.
* **`GpWait`** is `execute` and `wait(job_id)` of both clients. `pc[c]` is the await
  a call is in, `net[c]` what became of its request, `left[c]` and `nap[c]` the time
  to the deadline and of the current sleep, `current[c]` the last status.
  `LoopTimesOut`, `LoopSleeps` and `PollReturns` are one turn of the loop, `Cancel`
  is `CancelledError`, allowed in asynchronous calls at each await. `strayPosts` and
  `strayDeletes` are requests that reach the server after the client gave up on
  them. `ImplementsJobCall` is the refinement.
* **`ShimJob`** is `submit_and_wait` over the same server, with its own loop:
  deadline before sleep, a sleep that is not cut short, results fetched by
  `_finalize`. It refines `JobCall` as well.
* **`RetryTransport`** follows requests through one pool. `attempt`, `remaining`,
  `nap` and `hint` are the loop's variables; which request holds a connection, and
  what the server carried out, are kept beside them. The response is drained before
  the sleep, as the code does, in steps of its own.
* **`TokenProvider`** has threads or tasks, provider objects with a lock each, and
  one store. `left[k]` is what `expires_at` makes the client believe, `trueLeft[k]`
  what the server counts: they differ by the time the refresh answer travels.
* **`ClientOptions`** has `http[c]`, `owns[c]`, `transport[c]` and `parent[c]` for
  every client object of the SDK's client classes (`class`), and the set of closed
  httpx clients. `IndependentClone` and `SharingClone` are the outcomes of
  `with_options` and `copy`.
* **`ClientMethods`** and **`AdminMethods`** are tables: one record for each request
  method of the SDK's and the admin client, with its verb, what it does to which
  resource, where its Idempotency-Key comes from, whether it sends If-Match, how
  it reads an answer. **`ErrorMapping`** takes an HTTP status, a GeoServices code in
  an answer of 200, or a gRPC code to the exception, and takes what the answer
  declares (its own `kind` and `retryable`) before what the code stands for.
  **`ClientCalls`** extends all three: `Begin` builds the request, `Resend`, `GiveUp` and `Cancel` are what
  transport and task do to it, `late` the requests whose client has given up,
  `Answered`, `RefusedAnswer`, `PageAnswered` and `FallBack` the ways an answer is
  read. The server keeps a resource with a version (its ETag), a catalogue in order
  and the keys it has seen.
* **`EditCursor`** is the SDK's insert cursor: a synchronous one flushes a full
  batch by itself, an asynchronous one may be shared by tasks.
* **`UpdateWalk`** is the loop over an update cursor, in which the edits move rows
  out of the predicate while the pages are read: the SDK's with its snapshot of ids,
  and `da.UpdateCursor` without. `left` counts the pages a query may still ask for; at
  0 it ends, with rows behind it or not.
* **`QueryMethods`** is the table of the methods that walk pages, **`Pagination`**
  the walk: three walkers (`AnswerFeatureServer`, `AnswerOgc`, `AnswerStac`, the last
  for STAC, Records and OData), the dispatcher and the source in front of them, the
  collector and its signals, over servers of four kinds. A server announces another
  page in one of four forms (`LinkForms`): `Linked` says whether the walker follows
  that form, `Flagged` whether the collector of a result sees it. They are read by
  different code and agree for neither `Next` nor OData's `nextLink`.
* **`JobJournal`** is `honua gp logs` and `inspect`: each page reads the receipt and
  then the journal, which the writer (external) extends meanwhile; or asks a server.
* **`ScenePackage`** is `build_offline_package`, a breadth-first walk over tilesets,
  and `validate` with the state of a package as time passes. `Reachable` says what a
  bundle should hold without a walk: the least set that holds the root document's
  references and those of its own documents. `requests` counts every fetch, the root
  document's included.
* **`LayerAliases`** has the map of aliases, the unbound outputs and a heap of
  alias objects, because a call keeps the object it looked up when the name has
  been bound to another. Each locked section and each request is an action. `arg` is
  the where clause a call is given, which a layer-aware tool and a reader combine with
  the alias's; `vetted` remembers whether an alias has the clause it was made with,
  which no server has seen, or a selection, and whether that was counted on the
  layer's own dataset.
* **`SessionClients`** is the other half of the session: the cached clients, the
  accessors that build them, `configure`, `reset` and the environment.
* **`DaCursor`** is `da.InsertCursor` with the audit record of its block;
  **`AuditWriter`** takes the record to the day's file.
* The theorems (section 4) are in a module for each group of modules: `GpWaitProofs`;
  `ShimJobProofs`; `TransportProofs` (`RetryTransport`, `TokenProvider`,
  `ClientOptions`); `ClientCallsProofs`; `CursorProofs` (`EditCursor`, `DaCursor`,
  `AuditWriter`); `SessionProofs` (`LayerAliases`, `SessionClients`); `WalkProofs`
  (`JobJournal`, `Pagination`, `UpdateWalk`); `SceneProofs`.

The `MC` modules name the instances for TLC. Some of them hold several parts that
share no state: `MCTransport`, `MCLayerAliases`, `MCCursors` and `MCWalks` choose in
the initial state, by the variable `part`, which of them this behaviour is one of,
and the others stand still. So a run is the sum of its parts and not their product.
The modules with several actors state their types (`TypeOK`, `DaTypeOK` and so on),
checked with TLC and proved where a theorem rests on them.
Operators called mutants in a comment are not part of a specification: each is a
wrong version of the definition it precedes, kept to show which property notices it.

## 3. Runs

| Run | Instance | Shows |
|---|---|---|
| `gpwait` | 2 calls, one of which may be cancelled, 1 job id, poll intervals -1 and 3 under a cap of 2, timeouts 0, 2, none | no false verdict or result, one execution per call, no orphan, no DELETE after a verdict, the promise of `JobCall`; a `wait` with a timeout ends, and does not sleep past its deadline |
| `shim` | 2 tools, 2 jobs, interval 2, timeouts 0, 1, 3 | a timeout ends the job, the promise of `JobCall`; the loop ends, and past its deadline sleeps less than an interval |
| `transport` | 2 requests, GET and POST, 1 connection, budgets 2 and -1, Retry-After 5 over a ceiling of 2; 2 threads, 1 provider, 2 tokens, lifetimes 3 and never over a window of 2; 4 client objects | no effect beyond the budget, none twice with a key, delays in bounds, no connection held in a sleep; no needless refresh, no stale or revoked token on a request; ownership in any tree of clones; every request and every call of a provider ends |
| `calls` | 2 programs: every method alone, answered, lost, repeated, late, cancelled and refused for each of 8 reasons in each form, with and without words of the server's own; the methods that meet on one resource, one catalogue of up to 4 entries, one stream | conditional updates, POST once, true outcomes, whole lists, exceptions that say why |
| `cursors` | 3 rows, batches of 2, 4 requests, one user or 2 tasks, with and without rollback; da: 3 rows, 2 blocks, 4 requests; audit: 3 threads, 2 days, 2 closes | no row lost or repeated; the record tells the outcome; a clean block has sent its rows; a record is in its day's file |
| `walks` | 4 rows under 21 update cursors (batches and pages, page caps of 1, 3 and 100) with 2 foreign edits; every paging method over collections of 0 to 5 rows, pages of 1 to 3, caps of 1 to 4, limits and page caps, every form of link; journals of up to 3 lines | which cursors visit every match their pages reach; exact results, honest signals; whole logs, verdicts with their events; every loop ends |
| `scenes` | 15 scenes (shared tiles, a cycle, broken documents, sizes 0 to 2), 10 builds, every small manifest, a clock to 4 | a bundle is whole unless a bound cut it; what is called usable is |
| `session` | 2 threads, 1 name, 3 alias objects, with 2 jobs and no clauses, and with 1 job and every clause over 1 row; 2 threads, 3 client handles, 2 changes of settings | aliases, selections and outputs between threads; clients follow the settings, credentials stay off plain HTTP |
| `walk_small_pages` | batches of 2, pages of 1 | *violated*: the SDK's cursor visits every match |
| `pages_links_only` | OGC walker, a server that knows links only, a full last page | *violated*: the walk ends |
| `pages_resume` | a source of each protocol resumed at an offset | *violated*: the rows from the offset on are collected |
| `scenes_built` | default arguments, two plain scenes, one without bounds | *violated*: a package just built validates (a scene without bounds) |

### Bounds

Two threads, calls or requests are what it takes to interleave one operation
with another; the properties speak of one call and what others do to it, and
the job server accepts foreign dismissals and expiries at any time, which stand
for any number of further callers. In `gpwait` both calls meet on one job id,
where they can hurt each other. The theorems of section 4 hold for any number of
calls, requests, threads, rows and ids. Clocks are countdowns capped by the largest
argument, so time needs no bound. Three rows with batches of two give a full batch,
a partial one and a row left over; four rows give the walks two pages before and
after a flush. A token lifetime lies one tick above the refresh window. Three
alias objects suffice for an alias held by a call, one bound, and one being made;
an object nobody refers to is used again. Four entries with pages of two give a
catalogue with a full last page, a short one, and an insertion before, at and after
the page just read. `Cursors`, `Walks`, `Plans`, `Commands`, `Scenes`, `Builds` and
`Manifests` are sets of whole instances, one of which `Init` chooses, so that a run
covers the cases that belong together and leaves out those that cannot occur.
Symmetry is declared where a run checks no liveness. In `session` the competition of
two tools for one output name (`OverwriteProtected`) needs two jobs at once and no
clause; a selection and a call's own clause need one row each selects or does not; so
they are two parts, each complete for two threads, of 2.5 million states together with
the clients. The page caps of 1 and 3 in `walks` end some of its queries before
the rows do, that of 100 none. Of a server's answers `LoopsEnd` leaves out two by name:
for OGC API Features one that knows links only, for STAC and OData one that ignores
offsets, announces nothing that is followed and fills every page (section 5, 2); the
journal ends at `MaxLines`.

`WaitEnds` and `ShimWaitEnds` say that a call ends, not that it ends by its deadline,
which neither does: `wait` may be in a status request when it passes and sends a DELETE
afterwards, `submit_and_wait` may be asleep too. What the SDK itself adds is bounded:
`wait` cuts its sleep at the deadline, `submit_and_wait` sleeps past it for less than
one interval.

Named bounds: `HistoryBound` (effects counted), `MaxSends` and `MaxDaSends`
(requests of a cursor), `MaxBlocks`, `MaxForeign`, `LastDay`, `MaxCloses`,
`MaxLines`, `MaxTime`, `MaxChanges`, and the sets `Jobs`, `Tokens`, `Objects` and
`Handles`. In `Pagination` an offset past the end reads as the end, copies of a row
are counted to two, and pages and rows are counted only when something is compared
with them.

`CHECK_DEADLOCK FALSE` stands where programs end: all calls have returned, the
cursor is closed, the query is done, a bounded supply is used up.

### Fairness

* `GpWait`, `ShimJob`: weak fairness of each call's next step (an event loop or
  a thread goes on), of the network (a request is answered, or fails by the
  httpx timeout) and of the clock. Nothing is asked of the worker: a job may run
  for ever.
* `MCTransport`: weak fairness of each request's steps and of the server's answer or
  failure; weak fairness of each call of a provider, and strong fairness of getting
  its lock, since `asyncio.Lock` wakes its waiters in order and threads are not
  starved for ever by short critical sections. Clones need none.
* `MCWalks`: weak fairness of the loops, which are sequential code. Neither foreign
  edits nor the writer of a journal have any.

## 4. Proofs

Each theorem holds for every value of the constants that the named assumptions of
its module allow: any number of calls, requests, threads, tasks, rows, tokens and
clients, any timeouts, intervals, budgets and sizes. Each is proved as
initialisation, preservation by every action, with one step for each action, and
implication. Where a property is not inductive as it stands, what had to be added to
it is said below.

**`GpWaitProofs`** (`NoJobAssumption`, `ClockAssumption`)

* `TypeCorrect`: after a loop turn a call polls `job[c]`, which must be a job id and
  not `NoJob`; `Addressed` says at which points the id is known.
* `VerdictsAreFinal` (`VerdictIsFinal`): a status may be in flight while the job moves
  on, so `AnswersAreFinal` adds that a terminal status in an answer not yet read is
  still true of its job, or the record is gone.
* `NoLateDismissal` (`NoDismissAfterVerdict`): with `Undecided`, a call that polls,
  sleeps or dismisses holds no terminal status.
* `ResultsStayReal` (`ResultsAreReal`): with `SuccessIsEarned`, a job whose status is,
  or was read as, successful has run to success.
* `AtMostOneExecution` (`OneJobPerCall`): with `NothingYet`, until its request is
  served a call has started nothing.
* `CallsKeepTheirPromise` (`ImplementsJobCall`): the refinement. `InitMaps` and
  `StepMaps` take every initial state and action to one of `JobCall` or a stutter;
  `SuccessIsBacked` joins the two invariants before, so that a call that returns has
  in its own `made` a job that ran, or waited on one that did.
* `NothingLeftBehind` (`NoJobLeftBehind`): `Accounted` is the bookkeeping this needs:
  once its submission is answered a call knows every job it started, and what its
  DELETE has reached is no longer going.

**`ShimJobProofs`** (`ShimAssumption`): `ShimTypeCorrect`, `TimeoutEndsTheJob`
(`TimedOutJobsEnd`) and `ShimKeepsThePromise` (`ImplementsJobCall`), with `Known`
(from the loop on a call has an id that the server gave it) and its own
`SuccessIsBacked`.

**`TransportProofs`**, in three parts. Requests (`BudgetAssumption`, `DelayAssumption`):
`TransportTypeCorrect`; `RetriesAreMeasured` (`ServerIsSpared`) from `Ledger`, which
balances attempts made, retries left and effects at each point of the loop and
counts a request still under way for one that has ended; `SleepersHoldNothing`
(`IdleHoldsNoConnection`). `DelaysBelowCeiling` is a lemma about the delays.

Tokens (`TokenAssumption`, `TimeAssumption`): `RevokedStaysOut` (`RevokedNotServed`) and
`TokensAreGoodInUse` (`TokensServeTheirTime`), both under the hypothesis `OneProvider`,
the second under `TokensLastLongEnough` as well: the refresh window covers the travel of
a refresh answer and of a request, and tokens live longer than both. Neither holds
without, as section 6 says. `Guarded` is mutual exclusion and who may hold which token;
`NoneRevoked` keeps revoked tokens out of the store; `Timely` bounds how far the two
clocks may be apart.

Clones (`ClientsAssumption`): `OwnersCloseEverything` (`NothingLeaks`) and
`ClonesCloseThemselves` (`CloneCloseIsHarmless`), both from `OneOwner`: what the SDK
built has one owner, who is no clone of somebody using it.

**`ClientCallsProofs`** (`ClientAssumption`: plans refuse for a known reason and begin
with as many entries as there are)

* `ConditionalChangesHold` (`UpdatesBuildOnWhatWasRead`) with `RequestsTrue`: a request
  on its way, however late, carries the version its caller named.
* `PostsHaveOneEffect` (`PostsActOnce`) with `PostedOnce`: a key that has acted is spent,
  and without a key and without a transport that repeats POST at most one attempt is
  left when the call ends.
* `CallsSayWhatWasDone` (`OutcomesAreTrue`) with `OutcomesInv`: before its first attempt
  is repeated or lost a call has had no effect and left no request behind, and a key the
  server knows of the running call is one it has carried out.
* `ExceptionsNameTheReason` (`ErrorsSayWhy`) with `ErrorsInv`. `SignalsSayWhy` is the
  lemma about the three mappings, code by code: a server that declares its reason, with
  any code, and one that declares nothing and sends a code that stands for it
  (`StatusCodes`, `EnvelopeCodes`, `GrpcCodes`). `SaysWhy` names the exceptions: 501 in an
  envelope, without a word, reads as unknown, and 498 or 499 as an HTTP status is no
  `HonuaAuthError`.
* `ListsKeepWhatStays` (`ListsWhatStays`) with `WalksInv`: what a walk began with and
  lies on the pages behind it has been collected, and no more has been collected than
  those pages hold. From the second it follows that a walk that ends has the rest behind
  it. `InsertMovesOn` says where the entries of a catalogue go when one is
  published among them.

**`CursorProofs`** (`CursorAssumption`, `BoundsAssumption`, `AuditAssumption`):
`NoRowVanishes` (`RowsAccountedFor`) with `FlushesCover` and `NothingVanishes`;
`NoRowTwice` (`WrittenOnce`) with `WaitsOnce`: a row waits in the buffer or in one
request, and is not stored before that one is answered. Both for any number of tasks,
with rows that crossed another task's flush exempt. `AuditIsTrue`
(`AuditTellsTheOutcome`), where the record is open exactly while the cursor is entered;
`CleanBlocksSend` (`CleanBlockHasSent`) with `BlockSends`; `RecordsAreFiled`
(`RecordsReachTheirDay`) with `HandleIsNamed`: the handle is that of the file it is
named for, but between the two statements that replace it, under the lock.

**`SessionProofs`** (`SessionAssumption`; `HeapAssumption`: as many alias objects as
names and threads together, so that `register_layer` always finds a fresh one)

* `SharedClientsBelongTogether` (`ClientsFollowSettings`) with `ClientsInv`: a client the
  session built and caches was built from settings that name a URL, which the
  environment can then no longer fill in, and a processes client is cached only beside
  the client it is over.
* `CredentialsNeverGoPlain` (`CredentialsStayGuarded`) with the types alone: each
  client is vetted by the action that makes it, with the settings it uses.
* `AliasesAreNotReplaced` (`OverwriteProtected`, an action property) with `AliasesInv`:
  what each call keeps at each of its points, no object under two names, and an object a
  call keeps under no other name than the call's.
* `NamesStandForRealOutputs` (`OnlyRealOutputs`) with `OutputsAreDone` and
  `AskedAreMarked`: an output that was asked for is marked as unbound, and has no alias.
* `SelectionsReachTheirWork` (`SelectionReachesWork`): a tool or a reader that nobody
  disturbed works on the dataset of its input, on the rows selected there that meet its
  own clause, and a selection was counted on the layer's own dataset. The clause of
  MakeFeatureLayer, which is stored without a request, is no such selection. With
  `VettedInv`, a selection is
  written only to a layer its call has counted, by way of the layer's name if it has one;
  and `StableInv`: what a call that nobody disturbed has taken from its input is, at
  every point of it, what the session would still give.

**`WalkProofs`**, in three parts

* Journals (`JournalAssumption`). `VerdictsHaveTheirEvents`
  (`VerdictsComeWithTheirEvents`) with `VerdictsInv`: a receipt read as final was final
  before the journal was read, which has not grown since. `LogsPrintEveryRecord`
  (`LogsAreWhole`) with `LogsInv`: a log's cursor is its first one plus what it has
  printed. `ReadJournal` is a recursive function; what it returns for any journal is
  proved by induction over a set (`NaturalsByInduction`), which the library's
  well-founded minimum gives in first-order form.
* Pages (`WalksAssumption`). `WalksCollectWhatWasAsked` (`CollectsWhatWasAsked`) holds
  under `WellServed`, which excludes by name the servers of `pages_links_only` and
  `pages_resume`; the instances of `walks` all satisfy it. With `CollectInv`: there is a
  row up to which everything has been handed out once and where the next request goes on
  (`WalkedTo`), or the FeatureServer that repeats its first page has been heard once
  (`HeardOnce`). `WellServed` asks for links in a form the walker follows.
  `MissingRowsAreSignalled` (`TruncationIsSignalled`) with `SignalInv` needs no such
  hypothesis, but is about announcements in a form the collector sees (`Flagged`);
  that of OData does not see `nextLink` and `next` (section 5, 22).
* Update cursors (`WalkAssumption`: finitely many rows). `WalksAreTyped` (`TypeOK`)
  bounds the offset by the rows of the query and the SDK's queued updates by the batch
  size. `SafeCursorsSkipNothing` (`SafeCursorsVisitTheirPages`) is about the rows that
  the pages of a query reach (`Due`), as no cursor sees those behind its page cap. With
  `EditsInv`, `ReadInv` and `VisitInv`: rows visited, in the page, in the pages to come
  and in the batches to come are apart, and a safe cursor has visited each row due, or
  finds it in one of them. An edit moves the
  rows behind it up: the lemmas on `Rank` (`RankShrinks`, `RanksAreTaken`,
  `PagesHoldTheNextRanks`) say by how much, and which rows a page then holds.

**`SceneProofs`** (`SceneAssumption`: a scene's documents refer to its files)

* `PackagesAreTyped` (`SceneTypes`), with what the recursive functions return for
  sequences of any length: `LeftToRight`, proved by the same first-order induction,
  says that what is computed from the left exists; `SumsAddUp`, `BudgetsAddUp`,
  `ContentsAreKept` and `ManifestsParse` rest on it.
* `BundlesAreWhole` (`BundleIsWhole`) with `BundleInv`: what has been fetched or waits
  can be reached (`Walked`), and as long as documents are followed it is all that those
  followed refer to; when nothing waits any more the fetched files are a closed set, and
  so contain the least one.
* `UsableManifestsAreUsable` (`UsableIsUsable`) with `VerdictInv`: a verdict is about
  the manifest at hand. `PassingIsUsable` is the lemma on `State`: that no two names agree,
  by counting, and that sizes which are added up one by one without going over the budget
  have a sum within it.

So every invariant and every action property that a passing run checks is proved, and
both refinements. Model-checked only: liveness (`WaitEnds`, `ShimWaitEnds`, `CallsEnd`,
`LoopsEnd`), which needs fairness and ENABLED, beyond the proof system here. The four runs
that expect a violation check statements that are false of the code. No module declares a
RECURSIVE operator.

## 5. Where the code and its documents differ

Four differences have a run that ends in the counterexample; `PROJECT.json` quotes
the lines.

1. The SDK's update cursor skips rows when a page is smaller than a batch of ids
   and its own flush falls between two pages (`walk_small_pages`).
2. OGC `items_pages` starts over after a full last page, and never ends against a
   server that knows links only (`pages_links_only`). STAC and OData have the
   missing test, but go on by offset after a full *first* page without a link,
   with the same end; `MCWalks` leaves that collection out.
3. A source's query with an offset starts at the first row on OGC Features, because
   the walker overwrites the offset with its own (`pages_resume`).
4. A package built from a scene without bounds does not validate (`scenes_built`). The
   source reads the same for one with a tile of 0 bytes, whose size validation refuses.

The models have further behaviours that a document or a comment excludes, or that a
reader would not expect. No property of a run speaks of them, and those near them
name the exemption.

Jobs, transport, tokens, clones:

5. `wait` cancelled in its first status request (geoprocessing.py:1606) leaves the
   job running: the `try` whose handler dismisses it begins later. Its docstring
   (1599-1601) promises the dismissal. In `GpWait`: `Cancel` in "fetching".
6. A Retry-After above `backoff_max` is clamped (_retry_core.py:95), where the class
   documentation (_retry.py:82-84) says verbatim. In `RetryTransport`: `Delays`.
7. A client over a transport that retries POST sends no generated key, since
   `_retry_methods` is that of the transport it builds itself (client.py:237, and
   the docstring at 1388-1392; the same in honua-admin `_client.py`). In
   `ClientCalls`: `KnownRetryMethods`. A transport of the caller's that retries is
   put below another one that does, and their attempts multiply.
8. With tokens that live no longer than the refresh window every caller that
   waited for a refresh makes its own (auth.py:233, against 202-204). Headers are
   applied once for each request, so that a repeated attempt carries the same token.
9. Closing the original closes the caller's transport under an independent clone
   (client.py:342, against 280-281 and 300-303). In `ClientOptions`: `Close(Root)`
   sets `callerDown`. An independent clone of a client over the caller's httpx
   client carries none of that client's credentials.

Client methods (`ClientCalls`, `ErrorMapping`):

10. A conditional PUT that was carried out, lost and repeated is refused with 412,
    and the caller is told of a conflict with its own change.
11. `create_metadata_resource`, the connection tests, the encryption methods and the
    decisions on proposals send a key only if the caller gives one, where the other
    POST methods of the admin client try to generate one.
12. An admin answer of status 200 with `success: false`, and an error document under
    200 that a bytes or text method receives, are returned as data; the geocoding
    client raises only for statuses of 400 and above.
13. `add_attachment` sends an empty file for a stream that has been read;
    `upload_file` refuses it.
14. HTTP 498 and 499 have the kind authentication but not its class; 501 has the kind
    unavailable but is not retryable, and in an envelope reads as unknown; gRPC ABORTED
    is a conflict and retryable.
15. A page of a catalogue without `total` and `page` ends the walk.

Session and tools (`LayerAliases`, `SessionClients`):

16. A name looked up while another thread binds it can resolve to the workspace
    (_resolve.py:91 and 103, against _process_tools.py:235-238), and a new layer can
    join the source of one dataset with the output of another (management, 65-66):
    `ResolveAlias` then `Bind` then `ResolvePath`, or `Bind` between `ResolvePath` and
    `ReadInput`.
17. `configure` with a new URL keeps the API key of the old one, and clients that it
    drops are never closed.

Cursors and audit:

18. `AsyncInsertCursor.flush` drops the rows another task queues while it awaits
    (cursors.py:439). In `EditCursor`: two `Tasks`.
19. `da.UpdateCursor` skips rows when its loop body flushes (da, 556). In
    `UpdateWalk`: `Safe` is false.
20. The `da` cursors do not look at per-row failures (da, 633), while
    docs/audit/platform-20261006/issue-281.md:15 says every flush does.
21. `AuditWriter.close` takes no lock; a write alongside can lose its record.

Walks, logs and scenes:

22. A source's query cannot be unbounded: `max_pages=None` becomes 100 (source.py:1056),
    where the comment above (1053-1055) reserves None for an explicit unbounded walk and
    docs/pagination.md:70-75 promises one. `query_all` signals the cut with a warning,
    the iterators not at all; so the update cursors of the SDK and of `da` pass over the
    rows behind 100 pages without a word. In `UpdateWalk`: `left`; in `Pagination`:
    `PageCap`. The collector of OGC API Features and STAC takes a link for a further
    page with `rel` in any case and without an `href`, the walker neither.
    `total_count` stays None where the documents say it falls back to the length.
    The exceeded flag of OData looks at `@odata.nextLink` only, where its walker
    follows `nextLink` and `next` too.
23. `honua gp logs`: docs/cli/reference.md:25 gives exit 6 for an interrupted stream,
    but an HTTP error in the middle of one exits 1, 3, 4 or 5, and a local cursor
    past a replaced journal, an unreadable receipt or a journal torn inside a
    character exits 2. A complete stream of several pages is disclosed as truncated.
24. A nested tileset that is no JSON raises an error that is no `HonuaSceneError`; a
    bundle that the bound on tilesets has cut is incomplete without a word, and
    still READY; a `tilesetUrl` other than the endpoint's resolves to a URL that is
    not among them. A nested tileset that refers back to `tileset.json` has the root
    document fetched, followed and bundled a second time.

## 6. Limits of the models

* `GpWait`: a call that fails on a status request leaves its job running, as the
  code does; `NoJobLeftBehind` exempts that, a lost DELETE, and a call that never
  learnt of its job.
* `TokenProvider`: the lock belongs to a provider, so two providers over one
  store can each refresh, and one can put back a token the other revoked; run and
  theorems have one. A revoke callback that raises leaves the token in the store.
  Callbacks do not call their own provider, which would wait for itself.
* `ErrorMapping`: a server that declares a kind declares the true one; one that is
  silent sends a code listed for its reason (a silent 410 would read as unknown).
* `ClientCalls`: one resource, one catalogue, one file. Methods that only read
  differ in how they take a refusal; what an answer says is left out. A removal from
  a catalogue exempts the walks under way. `OutcomesAreTrue` exempts the methods that
  do not look into an answer of 200, and `ListsWhatStays` a refusal in an envelope, which a
  list reads as an empty page.
* `LayerAliases`: the second input of SpatialJoin is a call of its own over that input,
  so the two are not looked up as one pair; two threads that select on one alias
  at once overwrite each other; a selection on an alias that has been replaced
  is committed to the old object. The clause a layer is made with is checked by nobody
  before it is used. Its run has one output name.
* `SessionClients`: which client is what matters, not what it does; a URL is plain
  or safe.
* `EditCursor`: the server answers with one result for each row of a request.
  `SearchCursor` and `delete_row` are left out.
* `DaCursor`: a cursor entered again after a block left by an exception still has
  that block's rows and writes them with the next; close does nothing in a second
  block. The model has both, and no property forbids them. `AuditWriter` leaves out
  errors of the disk, which the code suppresses.
* `UpdateWalk`: rows that other programs edit are exempt from visiting once, and
  so is every row once another program edits while pages of the whole query are
  read.
* `Pagination`: the collection does not change during a walk, and rows have ids;
  filters, fields and geometry are not there.
* `JobJournal`: a journal replaced by another run's under the same cursor is exempt;
  nothing in the files tells the two apart.
* `ScenePackage`: URIs are what they resolve to; tile content is a size. The keys
  of files are a constant set. A manifest entry's key and path are separate, but no rule
  of the code compares paths, so a path is only inside the package or not.

## 7. Plan

What is left, in order of weight:

1. A weaker `WellServed`: OGC walks over a server that knows links only do collect
   everything when the last page is short.
2. An abstract specification of a read by pages (rows are handed out once, and at the
   end all of them or a signal), which `Pagination` and `JobJournal` implement, with the
   refinement proved step by step.
3. A gate of the release and conformance scripts, if they come to keep state between
   two runs.

## 8. Not modelled

* honua-gp's dispatch and compatibility tables, its stubs and `env`: names and
  functions. `dispatch_process`, with its rollback of registrations, is called by no
  promoted tool.
* `models/`, `geopandas.py`, `raster.py`, the raster tools' cell arithmetic, WKB, and
  the parsing of WMS, WMTS and WFS documents: conversions of immutable values.
* The text of requests: paths, parameters, filters, bodies; the models that results
  are parsed into; messages of errors.
* `honua doctor` and the other command lines, which print one answer.
* Scripts under `scripts/`, `conformance/` and honua-gp's `eval/`: build and
  certification tooling, run once and one after the other. Two things read there may
  interest a maintainer: `cleanup_smoke_records` deletes what its query returns without
  a look at the marker, and `operation_scope.complete` cannot be true while a public
  factory is uncovered.
