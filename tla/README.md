# Specifications of apk-cache

TLA+ models of apk-cache, a caching proxy for Alpine (APK) and Debian (APT)
package repositories written in Go, with an administration console in
TypeScript. They are translated from the code under `internal/`, checked with TLC on
small instances; every safety property that holds is also proved with TLAPS,
for every size. `PROJECT.json` lists every run, the source lines every
definition stands for, the hazards of the code and the disagreements found.

## 1. The system

A request enters `App` (`internal/app/app.go`), which decides by path and
method which handler it gets. APK, APT and (if configured) plain proxy requests
all become a `cacheRequest` and go through one pipeline, `serveCached`:

    memory? -> disk? -> lock(path) -> memory? -> disk? -> fetch -> temp file
            -> validate -> rename -> load index -> row -> memory -> unlock

| component | state | operations | interacts with |
|---|---|---|---|
| key locks (`cache/cache.go`) | map path -> counted lock object | Lock, its unlock closure | pipeline |
| memory cache (`cache/cache.go`) | items, recorded size, access and creation times | Get, Set, Delete, Clear, expiry ticker | pipeline, admin |
| cache pipeline (`app/app.go`) | files of the cache directory, temporary files | serveCached, tryMemory, tryDisk, fetchAndStore | all others |
| upstream manager (`upstream/upstream.go`) | servers, health flags, rotation counter | Add, Fetch, mark, HealthyCount | pipeline, `/_health` |
| hash store (`hashstore/hashstore.go`, Pebble) | expected hashes by target, by hash and by source; actual-hash memo; by-hash map; dictionary | ReplaceSource, DeleteSource, GetExpected, GetOrComputeActual, DeleteActual, FindAPTByHash, rebuild | APK and APT index |
| APK index (`apk/`) | in-memory packages, store records | LoadFile, ValidatePackage, signature check | pipeline |
| APT index (`apt/`) | in-memory records, store records | LoadFile, LoadFileByHash, ValidateFile, ValidateByHash | pipeline, background group |
| routing (`app/app.go`) | configuration | classification, safeCacheKey, mirrors | handlers |
| HTTP proxy and CONNECT (`app/app.go`) | 500 slots of `connectCh` | handleProxyHTTP, handleConnect | pipeline, transport |
| runtime configuration (`store/`, `app/admin.go`) | SQLite rows, revision; the running `cfg` | edits, reload, apply | everything `applyRuntimeConfig` replaces |
| admin (`app/admin.go`) | sessions, login failures, `cache_objects`, request log | login, delete, batch delete, prewarm, reconcile, clear | pipeline, store |
| console sign-in (`admin/web/src/App.tsx`, `api.ts`) | the user shown, the CSRF token, the browser's cookies | boot, login, logout, change of name and password | `requireAdmin`, other tabs |
| console pages (`admin/web/src/pages/`) | rows, query, forms and drafts, loading and error flags | load, search, turn, edit, save, delete, reload | the admin API, other administrators |
| lifecycle (`app/app.go`) | listeners, background group | New, Run, shutdown, rebuild | everything |

Hard behaviour: `serveCached` looks at memory and disk before it has the lock
and `tryDisk` cleans up there as well; the administrator deletes without the
lock; files, hash records, memory and SQLite rows are four stores changed by
separate calls; health flags are atomics read twice in one scan; batches are
committed with NoSync; indexes may be loaded in the background; the
configuration is edited by concurrent calls that write, validate, load and
apply it statement by statement, and replaced under running requests; pages of
the console send requests whose answers come late, out of order or not at all,
to views that may have been left, while other tabs and other administrators
change what they show.

What makes each component correct:

- key locks: at most one caller inside per key; no entry lost while in use or
  kept when unused; a waiter gets in.
- memory cache: limits respected, nothing stale served, the least recently used
  item goes first.
- pipeline: the path names a whole, validated file or nothing; only such files
  are served; one download at a time; nothing left behind on any path out; the
  four stores agree again when the requests are over.
- upstream manager: all servers tried before failure; no server twice; health
  reported as it is.
- hash store: the records of a source are those of its last replacement; a
  target has a record while a source declares it; memoised hashes are those of
  the file.
- indexes: a package is validated by the index that lists it once that index is
  cached; by-hash requests resolve to the canonical file.
- configuration: what runs is valid; it agrees with what is stored once an edit
  succeeds; a rule that was created is in force; host rules in force are never
  suspended; deleted ones stay deleted; what is stored can be started again.
- sign-in: the warning about default credentials is never hidden wrongly; the
  token of a tab is that of the browser's cookies.
- console pages: what is shown in the end is what was chosen and what was
  written; nothing waits for an answer that will not come; saving writes what
  was edited and nothing else.
- tunnels, login throttle, lifecycle: slots returned once; throttle effective;
  no use of closed stores.

## 2. Modules

| module | models | state -> code |
|---|---|---|
| `KeyMutex` | nothing of its own: the promise of a table of locks | `want`, `holder` |
| `KeyLocks` | `KeyLocks.Lock` and its closure | `locks` = `l.locks`, `refs` and `owner` = the fields of `refLock`, `pc`, `key`, `ref` = the caller's position and locals |
| `KeyLocks_proofs`, `MemoryCache_proofs`, `CachePipeline_proofs`, `Upstream_proofs`, `AdminSession_proofs`, `RuntimeConfig_proofs`, `AdminConsole_proofs` | theorems | |
| `MemoryCache` | `Memory` | `items` = `c.items`, `currentSize` the same, `before` = which of two items has the earlier `accessedAt`, `last` = the result of the last call; history: `since` |
| `CachePipeline` | one cache path with everything that touches it | `disk`, `mem`, `records`, `row` = the four stores at that path; `kind` = what the handler serves there; `pc`, `phase`, `info`, `tmp`, `out` = locals of a request; `bg` = background loads; `admin` = the administrator's operation; histories: `alone`, `failed`, `deleted` |
| `Upstream` | `orderedServers`, `Fetch`, `mark` | `healthy` = the flags, `next` = the counter, `order` = the list built, `at` = the loop index |
| `AdminSession` | App.tsx, api.ts, `requireAdmin` and the handlers of `/auth` and `/account` | `sessions` = `admin_sessions`, `account` = `is_default_credential`, `jar` = the cookies, `user`, `csrf` = React state and `csrfToken` of each tab, `flight` = requests under way; history: `disturbed` |
| `Console` | what the pages share: mounting, `load()`, requests, continuations, the server | `view`, `page`, `form` = React state, `flight`, `version` = how often the tables have changed, `stored` = the settings |
| `ListPages`, `EditPages` | the handlers and continuations of each page | |
| `AdminConsole` | their composition under the router, and the properties | |
| `RuntimeConfig` | admin API calls on settings, upstreams and host rules; `applyRuntimeConfig`; the start | `settings`, `ups`, `rules`, `allowed` = the tables, `cfg`, `guarded` = fields of App, `call` = position and locals of each call |
| `MC...` | symmetry and histories for TLC | |

**KeyLocks.** Register is the section under `l.mu`, Acquire the blocking lock
outside it, Unlock and Deregister the two parts of the closure. Lock objects
are collected by Go: an identity may be used again once neither the map nor a
caller refers to it. The refinement mapping reads the holder of a key from the
object the map holds for it.

**MemoryCache.** Each method runs under `c.mu` and is one action. `before` is
the order of the access times and nothing else of them. What the eviction loop
can have removed at any moment is a set that contains with an item everything
accessed before it; the loop ends with the least such set after which
`needsSpaceLocked` is false. The double subtraction of `Set` is kept as it is in
the code. Whether the access times are the right ones is judged by `since`, a
history of the calls: for every key, which keys have been used since it was used
last. No guard reads it.

**CachePipeline.** Each system call, hash-store batch, memory-cache call, SQL
statement and write to the client is one step, so that any two requests
interleave at every point where the goroutines can. The lock is an instance of
`KeyMutex`, which is sound because `KeyLocks` implements it. A file is the
version of the object, whether it is whole, and whether it is older than the
TTL. `kind` is what the path holds, APK or APT, index or package, from which
follow, as in `handleAPK` and `handleAPTTarget`, whether a commit loads records,
at once or in a goroutine (`apt.load_index_async`, on by default), whether the
response is kept in memory, and what is validated; a cached proxy answer behaves
like an APT package no index lists. By-hash requests, whose records go to
another source, are left to `AptIndexLoading`. `Accepts` is the verdict of
`validateAPK` and `validateAPT` on the content: the declared version, when an
index declares one, and a good signature, when signatures are checked. The
validators may fail as well, because the hash store or the file cannot be read
or a memo cannot be written, and then `tryDisk` removes the file all the same.
`records` are those of the hash store; the copies that the index objects keep in
memory (and never remove) are part of what `expected` may be, which changes
freely.

Failures of the upstream, the body, the disk, rename, parsing and SQL are
alternatives of the actions concerned, and so are those the code ignores: an
`os.Remove` after which the file is still there, a `DeleteSource` after which
the records are, a background load that is only logged. `failed` is the history
of these, as far as the stores still show them. A temporary file that cannot be
removed is not followed further, since no request ever reads its name, and
`os.Stat` and `os.Open` are taken to find a file that is there. A crash forgets
all locals, the locks and the memory and may lose the last batch of the hash
store.

The history `alone` says that nothing has overlapped so far, a request and the
background load it leaves counted as one. It separates what the pipeline
guarantees by itself from what the unlocked clean-up of `tryDisk` breaks. With
two requests that both find the expired file, one may download the new file and
the other remove it, so that it is downloaded twice.

**Upstream.** One step per flag read, one per request, one per mark. The
history variable `flipped` collects the servers whose flag changed while a
fetch was scanning; it is what the guarantees are relative to: such a server
may be in both halves of the order or in neither, and the list may even be
empty. Every status but 200 and 206 counts against a server, a missing package
and a client that has left included, so that `/_health` can be degraded while
all servers answer.

**AdminSession.** A session, its cookie and its CSRF token are made and kept
together and are one value. A request is let in by `requireAdmin` in one step
and handled in another; it may be refused or lost on either way. The answer to a
login or a logout arrives in two steps, as in the browser: with the headers
(`Arrive`) the cookies change, with the body (`OnLogin`, `LoggedOut`) the page
goes on, and the body may be lost after the headers. The form stays enabled, so
a tab can have two logins under way. When a page goes, its requests run on as
orphans whose cookies the browser still minds. The two forms of the account
dialog are one request (`SaveAccount`, `AdminUpdateAccount`): either ends the
default credential, and neither answers with anything else that is shown. The code does not keep cookies
and token together in every case: `disturbed` collects the tabs to which, since
their page was loaded, one of four things has happened. The cookies have been
changed by another tab or by an answer to a page that has gone, or have expired; two of its own answers
with cookies were under way at once; one has lost its body; or the boot has
answered after the tab was signed in. What remains wrong then is the token,
`requireAdmin` refuses what the page sends, and loading the page again repairs
it.

**Console, ListPages, EditPages, AdminConsole.** One view is mounted at a time;
`Mount` is React's effect on mounting. Handlers capture what their render saw:
a request carries the query for the `load()` that follows it. Continuations run
in any order; those of a view that was left set nothing, and what they write is
`Elsewhere`, which also stands for other administrators. A table is its
version, settings excepted, where drafts are compared key by key. A write may
be done and still be answered by an error (the configuration it leads to is
refused, or the answer is lost). The histories `crossed`, `failed` and `mine`
say whether the last load overlapped another one, has failed, and how new the
view's own writes are.

**RuntimeConfig.** Every statement of the seven kinds of calls is a step of a
call, `applyRuntimeConfig` three (what it parses and reads, `cfg`, the flag for
host rules), since nothing excludes calls from each other. Three settings are
kept, one of each kind that matters: validated with other tables
(`apk.enabled`), parsed only when applied (`cache.memory.max_size`), waiting
for a restart (`cache.root`). Any statement may fail (the database, or the
context of a client that has left), clean-up included; the process may be
killed between any two steps and started again, and a start imports, as
`EnsureRuntimeConfig` does. Three histories:

- `agreed`: the last call to end ran alone and succeeded.
- `ruled`: the proxy has been guarded while no call that had found the table
  empty was still to install that, and the table has never been empty since. The
  code lets such a call win over the creation of a first rule
  (`CreatedRuleInForce` is violated); it does not let it suspend rules that are
  in force.
- `absent`: hosts without a rule when the setting `proxy.allowed_hosts` was
  written without them, that no other call had then listed and was still to
  write, and that none has added since. Calls may overlap in every other way. A
  list made before a deletion and written after it is what brings the host back
  in the code.

## 3. Runs

Bounds are small because every property concerns one path, one object or one
pair of requests; a third request or server adds no new pairs of steps, only
copies of them (`MCKeyLocks` has three callers, because a third can take the
entry that the other two pass on).

| run | instance | shows |
|---|---|---|
| `MCKeyLocks` | 3 callers, 2 keys, one lock object per caller | types, exclusion, counts, entries, no blocking across keys; every waiter enters; refinement of `KeyMutex` with its fairness |
| `MCMemoryCache` | 3 keys, sizes from empty to too large, both limits and the TTL active | limits, evictions that make room and follow the calls, expired items leave unasked |
| `MCCachePipeline` | 2 requests at once and the administrator for a signed package; 2 requests in turn for an APK index and for an APT index loaded in the background; other indexes, failing calls, crashes | intact files and answers, exclusive downloads, nothing left, records that follow the cached index, every request returns |
| `MCUpstream` | 2 fetches, 2 servers that may not answer | complete failover, no server twice, every fetch returns |
| `MCAdminSession` | 2 tabs, 2 sign-ins, 2 requests in flight beside the boots, the second one only a form submitted once more | no warning hidden wrongly, tokens that match the cookies |
| `MCAdminConsole` | 2 requests in flight, 2 changes of the tables, 2 texts, 2 pages, 1 row with details, 2 settings with 2 values | pages show what was chosen and written, nothing waits in vain, only edits are saved |
| `MCRuntimeConfig` | 3 calls, 2 at once, 2 upstreams (1 imported), 1 host, 2 values of `cache.root` | valid, in agreement after a success, rules in force not suspended, deletions that last, restart fields kept |

In `CachePipeline` two requests for an index at once are left to the runs that
show what goes wrong then (`Overlapping`, `Administered`): once requests have
overlapped or the administrator has acted `alone` is false for good, so
`RecordsFollowIndex` loses nothing, the other properties treat an index like a
package with fewer steps after the commit, and the theorems cover every kind
with any number of requests. One background load at a time (`Loaders`) is what
one request after another can have before the next one begins; a request that
finds it busy is covered by the load that fails.

In `AdminSession` two requests of all tabs together (`InFlight`), two of them in
one tab only if the form is submitted again (`Repeats`), already give every
order of two answers, of their headers and bodies, and of each with a boot, and
two sign-ins a cookie that replaces another. In `AdminConsole` two requests are
what can overtake each other, two changes one of the view and one of somebody else. In `RuntimeConfig` two calls
interleave and a third can start from what they leave; one host is enough
because rules only matter as none or some. Symmetry is used for requests, tabs,
sessions, slots, settings, calls and roots, and in runs without liveness only
or (`RestartFieldsKept`) for an action property that treats them alike.

`MaxDrift` bounds how far the recorded size of the memory cache may fall behind
the real one, which it does without limit in the code; the properties of those
runs do not depend on how large the gap is. The file ages once, the age of
an item stops at TTL + 1, and there is one administrator; no other counter is
bounded. `AdminRemove` also stands for batch deletion, which repeats it.

Runs whose property is violated show a disagreement between the code and its
documentation:

| run | what TLC finds |
|---|---|
| `MCMemoryCacheSize` | overwriting an item that the same call evicts subtracts its size twice; the cache then grows beyond `max_size` |
| `MCCachePipelineRecords` | a request that found the expired index, and has removed it, deletes the records of the new one that another request has just committed, and the file stays: its packages are validated against what the process still has in memory, and after a restart against nothing |
| `MCCachePipelineDeleted` | a disk hit reads the file, the administrator deletes it, the hit stores it in memory: the next request is served the deleted object |
| `MCRuntimeConfigRules` | a reload reads that there are no rules, the first rule is created, loaded, applied and answered, the reload then assigns what it has read: the rule is in the table and the proxy open to every host |
| `MCRuntimeConfigStored` | the only enabled upstream is disabled: the row is written, the reload refuses it, and the next start ends with the same error; or a memory size that does not parse is stored |

Each property of a passing run has a mutant, a plausible bug in the modelled
code, under which TLC finds it violated (`PROJECT.json`, "mutants").

### Fairness

`KeyLocks`: Go's mutex hands itself to a waiter that has starved for a
millisecond, so Acquire is strongly fair; the closure is deferred and the
goroutine runs, so Unlock and Deregister are weakly fair. That is the contract
of whoever takes the lock, and the pipeline keeps it only as far as its clients
let it.

`CachePipeline`: a goroutine runs, so the steps of a request that wait for
nobody outside are weakly fair. Fetching is among them, since `http.Client` has
a timeout (`transport.timeout`, 30 s by default) that covers the reading of the
body as well. Writing to a client is not. The server sets no `WriteTimeout`
(`app.go:282`), and the pipeline writes to clients while it holds the lock of
the path: a client that stops reading and keeps its connection keeps its request
for ever, and with it every later one for the path that is not answered from
memory or disk. `Fairness` therefore leaves out `Reply`, `Serve`, `Stream` and
`Return`, and `EveryRequestReturns` states its assumption itself: if clients read
or leave (`ClientsRead`), every request returns.

`Upstream`: requests end, by the same timeout. `MemoryCache`: the ticker runs
until `Stop`, and time passes. Nothing is assumed of the administrator, the
upstream servers, the background loads or the clock. `AdminSession`,
`AdminConsole` and `RuntimeConfig` assume no fairness: browsers and networks owe
nobody an answer, and what they check is safety. `NothingWaitsInVain` is how far
the pages can go: whatever is loading has a request under way whose end,
answered or failed, ends the loading.

## 4. Proofs

`KeyLocks_proofs` proves, for every set of callers and keys and every
assignment of object identities:

- `TypeCorrect`, `MutualExclusionHolds`, `RefsExactHolds`, `EntryIffUsedHolds`,
  `BlockedBySameKeyOnlyHolds`: the invariants of `MCKeyLocks`;
- `RefinesKeyMutex`: `SafeSpec => Abstract!SafeSpec`, the safety part of the
  refinement.

The only assumptions are `KeyLocksAssumption`: finitely many callers, and a null
value that is none of them. The invariants are not inductive as they stand.
Exclusion could be lost if two objects stood for one key, or if an object in
use were deleted from the map. `IInv` therefore adds: a caller has an object
and a key exactly while it is not idle (`LocalsSet`), distinct keys have
distinct objects (`EntriesDistinct`), the object of every caller is still the
map's object for its key (`EntryUsed`), an owner is a caller that is holding it
(`OwnerInside`), and the count of an object is the number of its users
(`RefsExact`). The count decides in Deregister: it reaches zero only for the
last user, which is a fact about cardinalities (`LastUser`) and the reason the
callers have to be finite.

`CachePipeline_proofs` proves, for any number of requests, any versions and
every kind of object, with the administrator, other indexes and crashes allowed
or not: `TypeCorrect`, `DiskIntactHolds`, `HitsIntactHolds`,
`NoNeedlessFetchHolds` and `NothingLeftHolds`, invariants of `MCCachePipeline`
(`RecordsFollowIndexHolds` below). The assumption is `PipelineAssumption`.
`IInv` adds to the properties themselves: the place of a request determines whether it is outside
the lock, inside it or storing (`PhaseFits`); the lock is held exactly from the
grant to the deferred unlock (`LockHeld`); a request that is about to download,
or cleaning up just before it, has no file at its path, or one that could not be
removed (`NothingThere`), which stays so because only the holder of the lock
renames; and what a request has read or downloaded is intact by the time it is renamed or put in memory
(`CopiesIntact`). There is one lemma per part, with one step per action or per
few actions that do not touch it. `HitsIntact` is where the unlocked accesses
could hurt: the file a request validated is not the one it opens, but no file
that is ever at the path is broken, so neither is the copy.

`AdminSession_proofs` proves, for any tabs, sessions and slots,
`TypeCorrect`, `WarningNotHiddenHolds` and `TokenMatchesCookieHolds`, from
`SessionAssumption`. What a tab shows comes from requests, so `IInv` adds that
no request in flight carries news of the account that is not so (`SeenTrue`),
which lasts because the credential never becomes the default again. For the
token it adds what an undisturbed page is waiting for: its boot asks about the
cookies of the browser (`BootCurrent`), and the answer whose body it is reading
is the only one, and has set them (`ArrivedCurrent`). Each of the four exceptions
is where one of the two would fail.

`RuntimeConfig_proofs` proves, for any number of calls, upstreams, hosts and
roots, from `ConfigAssumption`: `TypeCorrect`, `RunningValidHolds`,
`RulesStayInForceHolds`, `DeletedRulesStayAwayHolds` and
`RestartFieldsKeptHolds`. `IInv` carries along each call what its steps have
established: what it loaded has been validated, then parsed, and has the root
in force (`Checked`); what it still has to store (`Unsaved`); and that a list of
hosts about to be written names none of `absent` (`Seen`), which together with
the setting naming none is what a start needs. Rules in force last because no
call is then on its way to install that there are none: one that finds the table
empty ends `ruled`, and as long as the table is not empty none finds it so. The
root in force is never replaced while a call is between copying and installing
it because every installation keeps it. There is one lemma per kind of step.

`AdminConsole_proofs` proves, for any number of requests in flight and any
texts, rows and settings, from `ConsoleAssumption`, all the properties that the
run `console` checks: `TypeCorrect`, `PageShowsQueryHolds`,
`PageShowsOwnWritesHolds`, `NothingWaitsInVainHolds` and
`OnlyTouchedWrittenHolds`. `IInv` adds what a request carries and what its
answer may hold (`Sent`), that a draft differs from the loaded setting only if
it was edited (`Drafts`), and the way of a load that ran alone
(`LoadFollows`): while it is under way it is for the query of the page, its
answer is at least as new as the last write the view knows of, and once it is
over the page shows it or its error. The lemmas follow the shapes of steps:
loads, requests, answers, continuations, mounting.

`MemoryCache_proofs` proves, for any keys, sizes, limits and TTL, from
`MemoryAssumption`, every safety property that the run `MCMemoryCache` checks:
`TypeCorrect` (`before` is a strict order of the items), `ItemsBoundedHolds`,
`NeverOvercountedHolds`, `EvictionSucceedsHolds` and `EvictsLeastRecentHolds`.
`IInv` adds that the cache is finite; the limit of items and the recorded size
rest on each other, since a `Set` stores within the limit only if its loop ends,
and the loop ends because, with everything evicted, what is subtracted is the
whole real size, which is never less than the recorded one
(`EmptyingMakesRoom`). That evictions follow the calls is a fact about histories:
of two items, the one with the later access time was used since the other was
last used (`Remembered`), through hits, overwrites, deletions and returns of a
key. The finding about `max_size` is then located: what the
cache records never exceeds the limit (`RecordedWithinLimitHolds`), and the two
sizes, once equal, only part in a `Set` whose own evictions take out the item it
overwrites (`PartsOnlyByEvictingOverwrittenHolds`): until such a `Set` happens
the limit holds for the real size too. Sums over sets of items are folds
in the model. What the proofs need of them (`TotalEmpty`, `TotalAdd`,
`TotalMinus`, ...) is derived without induction, from two facts of the library:
a set of subsets of a finite set has a smallest member, and so has a set of
naturals.

`Upstream_proofs` proves, for any number of fetches and servers, from
`UpstreamAssumption`: `TypeCorrect`, `FailoverCompleteHolds` and
`AskedOnceHolds`. `IInv` adds the positions of the scans and of the loop
(`Bounds`) and what the scans have made of a server whose flag has not changed
meanwhile (`Lists`): in the first scan it is listed if it has been visited and
is healthy, in the second if it is healthy or has been visited, so in the end
it is listed. `Rotation` says that a round from any start visits every server
once, which is where the arithmetic of the counter enters.

Two proofs rest on histories of whole requests or calls.
`AgreesAfterSuccessHolds` (in `RuntimeConfig_proofs`) carries along a call that
runs alone that what it has loaded is what is stored (`Fresh`), and what it has
installed too (`Current`); that a start would load the same follows where it has
nothing to import. `RecordsFollowIndexHolds` (in `CachePipeline_proofs`) is about
`alone`: only one request is then anywhere, and if a background load is under
way its request is past everything that touches file or records (`Solo`). The
place of either says whether file and records match, up to the calls in
`failed`, or which of the two has been dealt with already (`InStep`): a request
that has left a file behind knows that it could not be removed, one that goes on
to download that nothing is left in the hash store that could be deleted, and
what is about to be loaded is what the path names. It also needs
`NoneAssumption`: the value for "no file" is not a file.

`EveryStepCountsHolds`, in `CachePipeline_proofs` and in `Upstream_proofs`, is
the safety half of liveness. `Left` is a bound on the steps a request, or a
fetch, still has to take; each of its own steps lowers it and no step of
anybody else raises it (a crash ends the request). A request returns after at
most 33 of its own steps and a fetch of N servers after 6N + 2, so that what is
left to fairness is only that each single step is taken in the end.

Only model-checked are liveness (`EveryWaiterEnters`, `ExpiredLeave`,
`EveryRequestReturns`, `EveryFetchReturns`) and the fairness part of the
refinement: the prover has no rules for ENABLED. TLC has also checked, on the
instances of the runs, the inductive invariants of `MemoryCache`, `Upstream`,
`AdminSession`, `RuntimeConfig` and `CachePipeline`, and the properties that only
the theorems state. Leaves never conclude `P(x)` from `x = CHOOSE y : P(y)` alone: where a
definition chooses, existence is a step of its own.

## 5. Not modelled

Parsing of indexes, archives and signatures (the verdict is modelled), HTTP
headers and ranges, metrics, log lines, SQL filters, dialing through proxies,
Docker files. Of the console: rendering, notifications, the texts of forms
other than the settings, formatting, and the generated bundle in
`admin/static`. Of the configuration: APT mirrors, whose rows only the console
model has, URLs, priorities, and settings that behave like one of the three
kept. Of sign-in: the login throttle, names and passwords. Still to be
modelled: everything in the plan.

Behaviour met while modelling that no property covers, because no document says
what should hold: any error of a validator, the store's own included, makes
`tryDisk` remove a fresh and valid file; a background load that fails leaves an
index without records until it expires; a refused creation that is undone leaves
its host in `proxy.allowed_hosts`, and leaves its row when the client has left;
deleting the last upstream row keeps the running upstreams and a restart takes those of
`config.toml`; a deletion of a rule whose sync fails is undone by the next start
without rules, even if a settings call has succeeded meanwhile, and so is one
that another call has overtaken with an older list; a login whose answer loses
its body, or is submitted twice, may leave a page with the token of other
cookies; a dry run of a batch deletion may count other objects than the
deletion removes; old answers reopen the detail dialog; saving a row empties the
form even if another row has been chosen since; a double click creates a row
twice; drafts typed during a save are lost; most failed writes of the upstream
and proxy pages are not shown; evicted files keep their `cache_objects` row.

## 6. Plan

In this order:

1. `HashStore`: expected records, mappings and by-hash entries of several
   sources with shared targets; ReplaceSource and DeleteSource as a read and a
   batch; the actual-hash memo against files that change. Abstract
   specification: what each source declares. Theorem: one replacement at a time
   keeps mappings and records consistent.
2. `AptIndexLoading`, on `HashStore`: Release, Packages and by-hash downloads,
   the order of their background loads (each by itself is in `CachePipeline`),
   crash, and the rebuild at start.
3. `ConnectTunnels`: slots of `connectCh` (theorem: the slots taken are the
   tunnels alive, never more than the limit).
4. `ProxyCache`: method, query and status of cached proxy answers.
5. Pure operators: `joinPath`, `ParseSize` modulo 2^64, classification and
   cache paths, each against a reference definition.
6. `Lifecycle`: start, shutdown, background loads and the closed store; the
   login throttle.
7. Proofs about each of these modules as it is written, with the theorems
   named above first.
