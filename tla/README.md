# miniblink2 in TLA+

miniblink2 embeds Chromium's Blink in one process. What Chromium keeps in a
browser process - storage, locks, blobs, sockets, profiles, navigation, the
network - the host code under `src/src/miniblink_host/` does itself, behind
Blink's own Mojo interfaces and behind a C interface for the embedder. That code is
the program's own logic and the subject of these modules.

The specifications are translations of the C++ code. A definition that stands for
code is listed in `PROJECT.json` under `map` with the lines it stands for; the
names are the code's wherever TLA+ allows it. Line numbers below are of files
under `src/src/miniblink_host/` unless a path says otherwise.

1. [The system](#1-the-system)
2. [Modules](#2-modules)
3. [Runs](#3-runs)
4. [What is assumed](#4-what-is-assumed)
5. [Properties](#5-properties)
6. [Where code and documentation differ](#6-where-code-and-documentation-differ)
7. [Proofs](#7-proofs)
8. [What is left](#8-what-is-left)
9. [Running](#9-running)

## 1. The system

### Threads and messages

Blink, the host and the C interface share the *engine* (main) thread. The storage
services (IndexedDB, locks, blobs, caches, OPFS, channels, cookies, sockets) run on
a *service* thread that executes one task or one message at a time; dedicated and
shared workers, streams, socket transports, DevTools connections and the watchdog
have threads of their own.

A handler of a service is atomic with respect to the other handlers of its thread,
and one handler is one action of the models. What interleaves is the order of
handlers: messages of different pipes are not ordered with one another, a
disconnect arrives after the messages of its own pipe but at any time otherwise,
and a task that a handler posts runs after whatever was already there. Four things
are finer than a handler:

* the engine thread nests: a callback into the host may call back, and most calls
  of the host run a message loop before they return. The modules `Navigation`,
  `HostCalls` and `ImageSources` have the stack as a variable and a step for what
  each frame of it does next; `Downloads` splits the task that makes several
  callbacks in a row (`running`), and `SessionHistory` has the task in progress;
* threads that block one another: a worker's load waits for the engine thread
  (`URLLoader`, `HostRules`), the save of IndexedDB for the service thread
  (`IDBSave`), a DevTools connection for the engine thread (`DevToolsServer`);
* threads that share memory: the watchdog's atomics, one access a step
  (`ScriptWatchdog`), a socket's queues under their mutex (`WebSocket`);
* code the host supplies, which may answer anything or call anything the interface
  allows at that point.

### Components

| Component | State it keeps | Operations | What makes it correct |
|---|---|---|---|
| IndexedDB transactions (`frame/mb_indexeddb.cc`) | records, per-transaction lazy snapshots of single stores, metadata and the copy of it an upgrade saves, the tracked upgrade | open with and without upgrade, createTransaction, writes, create/delete store, commit, abort, disconnect | transactions look atomic; an aborted upgrade restores the schema; no pointer to a dead transaction |
| IndexedDB object stores (same file) | records, secondary indexes, key generator, index metadata | put/add/delete/clear, createIndex and its filling, deleteIndex | indexes list exactly the records; unique ones are; generated keys are new; aborts undo everything |
| IndexedDB registry and files (same file) | process-wide registry of backends, graveyard, snapshot files | open/delete database, save, load, merge, clear | handles point at backends that exist, one owner each, profiles apart, Blobs saved with their bytes |
| IndexedDB queries, cursors, key encoding (same file) | a cursor's entries, its position, what was fetched ahead | get, getAll, count, openCursor, continue, advance, prefetch and its reset | a cursor passes over no entry that stayed, in order; keys sort as their encodings and come back |
| Web Locks (`frame/mb_lock_manager.cc`) | per scope: held locks, queue | request (wait, ifAvailable, steal), release, abandon | exclusion, first come first served, nobody waits for nothing |
| Sessions and profiles (`session/mb_session.cc`) | per identity: handles, restore and backup flags; on disk a marker and snapshots | create, flush, clear, detach, release | damaged or foreign snapshots are kept, one directory per identity, restored once |
| Blobs and blob URLs (`blob/mb_blob_registry.cc`) | parts to fetch, bytes so far, pending requests, clones, URLs | register, read, slice, clone, resolve, revoke | reads are whole and answered, dropped blobs go |
| BroadcastChannel (`frame/mb_broadcast_channel.cc`, `mb_frame_origin.cc`) | channels of a name, scopes of frames and workers | open, post, disconnect, commit of a frame | order, no echo, withheld from other scopes |
| Cache storage and buckets (`frame/mb_cache_storage.cc`, `mb_storage_buckets.cc`) | caches of a key, entries with Vary, buckets | open/delete, batches, match; bucket open/delete/close | no entry hidden, caches apart |
| OPFS (`frame/mb_opfs.cc`) | trees of nodes, locks on files, snapshot files | directories, files, writers, access handles, save, load | locks have holders, a load is whole and its own profile's |
| DOM storage (`frame/mb_dom_storage.cc`) | areas, observers | bind, put, delete, clear; clear of a session | caches of all contexts converge, areas stay apart |
| Frame interface broker (`frame/mb_frame_broker.cc`) | the cookie mirror and its observers; the position, who waits for it and who observes its permission; forwards the rest | document.cookie, cookieStore, clearing; setting the position, watching, permission queries | what scripts read is what requests send; no change of the position is missed |
| URL loader (`loader/mb_url_loader.cc`, `mb_retry_policy.h`) | requests and their hops, policy tables, loads per view and worker, traffic counters, image sources, cookie jars | start, redirect, retry, mock, block, hook, cancel, stream | the last hop is delivered, credentials stay, one end per load, nothing after a cancel, counts are true |
| Workers (`worker/`) | shared worker instances, worker scripts | connect, start, terminate | one serving instance, nobody waits for a thread that is gone |
| Downloads (`view/mb_webview.cc`) | running downloads, their streams | begin, data, finish, cancel, change of sink | begin, data, finish once |
| WebSocket (`frame/mb_websocket.cc`) | queues of both directions, transport thread | connect, send, receive, close | messages in order, none after the close, an end for everyone |
| DevTools server (`devtools/`) | connections, sockets, sessions of views | accept, attach, dispatch, stop | no use of a closed socket, a session is its client's |
| Script watchdog (`runtime/mb_script_watchdog.cc`) | five atomics, a monitor thread | task observer, monitor loop, start/stop | the right task is terminated, a runaway one always is |
| Navigation and history (`view/mb_webview.cc`, `frame/mb_frame_client.cc`) | generation, pending navigation, fetches and tasks, two histories | LoadHTML, LoadURL, NavigateEx, the page's own, cancel, stop, back/forward, reload, pushState | each navigation is told start to end once; only the latest commits; the cursor is at the document shown |
| Web view (`view/mb_webview.cc`, `widget/mb_widget.cc`) | task queue, loops, buttons and keys held | scripts, input, selectors, waits, loads | every call returns, nothing stays held, nothing loads while a document is prepared |
| Damage tracker (`view/mb_damage_tracker.cc`, paints of `mb_webview.cc`) | frame request, damage, baseline | paint, resize, background, purge | damage is enough, nothing is missed |
| Audio player (`media/mb_audio_player.cc`) | clock, anchor, timer, packets and frames | load, play, pause, seek, rate, decoding, shutdown | the clock is where the clip is, the picture is of that time |
| Media player (`media/mb_media_player.cc`), runtime and platform, compositor and GPU, notifications, C interface, tools | - | - | not modelled, see section 8 |

How they interact: the frame broker binds a page's requests to the services under
the storage scope that the frame's commit published (`mb_frame_origin.cc`), which
goes when the frame does; a session flushes through the save functions of IndexedDB
and OPFS; a save of IndexedDB reads Blobs, and a Blob made of Blobs reads them
through their pipes; loads of every kind meet in the policy tables and tell the
counters of their view; workers bind the same services as pages and reach the
host's tables through the engine thread; a navigation's document runs page code,
whose calls come back through the host's callbacks; the watchdog observes every
task of the engine thread.

### Behaviours that are hard

* Handlers of two pages in an order nobody wrote a test for.
* Pages, connections, blob handles, views and workers that disappear at any point
  and are seen to be gone only later; addresses that are used again.
* State that is undone by more than one mechanism (records by snapshots, schema by
  a saved copy, index metadata by neither alone).
* Callbacks that navigate, cancel, delete or register what they are called for, and
  loops that run other people's tasks before a call returns.
* Threads that wait for each other while one of them shuts down.
* Answers held back until something changes, and changes that come between two questions.
* What was fetched ahead, while others write to the store it came from.
* Flushes that fail half way, crashes, torn files, directories copied by the user.
* State of two places told apart by flags or by URLs (the two histories, the cookie
  jar and its mirror, the damage and its baseline).

`PROJECT.json` lists them one by one under `hazards`, with the line at which each
bites and the properties that would notice it going wrong.

## 2. Modules

| Module | Models | Explored by |
|---|---|---|
| `AtomicStores` | abstract: transactions that own object stores and keep what they wrote or take it back | refined by `IDBTransactions` (`INSTANCE ... WITH`) |
| `IDBTransactions` | `MbIDBBackend`, `MbIDBDatabase`, `MbIDBTransactionImpl`, `MbIDBFactory::Open` | `MCStored` |
| `SessionProfile` | `MbSession`, `ProfileState`, marker and snapshot files | `MCStored` |
| `IDBObjectStore` | one object store: records, indexes, key generator | `MCDatabases` |
| `IDBCursor` | `GetAll`, `Count`, `MbIDBCursor`, Blink's prefetching | `MCDatabases` |
| `IDBKeys` | `EncodeKey`, `DecodeKey` and the order of keys | `MCDatabases` |
| `IDBRegistry` | `Registry`, `Graveyard`, loads, merges, clearing, deleteDatabase | `MCDatabases` |
| `OPFS` | trees, handles, writers, locks, files | `MCDatabases`, twice |
| `LockManager` | `OriginLockState` | `MCOrigins` |
| `CacheStorage` | `CacheRegistry`, entries and Vary, `MbBucketHost` | `MCOrigins`, twice |
| `DOMStorage` | areas, keys, observers, Blink's caches | `MCOrigins` |
| `BroadcastChannel` | the channel registry and the map of frame scopes | `MCOrigins`, in two parts |
| `CookieJar` | curl's jars, their mirror, observers, the file of a jar | `MCOrigins`, twice; itself |
| `Geolocation` | `MbGeolocation`, the observers of `MbPermissionService`, `MbSetGeolocation` | `MCOrigins` |
| `ScriptWatchdog` | `MbScriptWatchdog` on both of its threads | `MCServices` |
| `WebSocket` | page, `MbWebSocket`, `CurlWsTransport`, server | `MCServices` |
| `Downloads` | streaming downloads of a view | `MCServices` |
| `DevToolsServer` | acceptor, connections, engine thread | `MCServices` |
| `AudioPlayer` | `MbAudioPlayer` | `MCServices` |
| `Fetch` | the hops of one load in its five drivers | `MCFetch` |
| `HostRules` | header registrations, rewrites, blocks, mocks, hooks | `MCFetch`, twice |
| `BlobRegistry` | `MbBlob`, `BlobRefReader`, `MbBlobRegistry`, `MbBlobURLStore` | `MCFetch` |
| `IDBSave` | `SerializeWithBlobsOnService` with the blocked main thread | `MCFetch` |
| `URLLoader` | loads of views and workers, the shared worker, streams | `MCHost`, by way of `MCURLLoader` |
| `Navigation` | main-frame navigation with everything its callbacks may do | `MCNavigation`; itself |
| `SessionHistory` | the host's history and the page's | `MCNavigation` |
| `NetworkActivity` | contexts, counters, the wait for idle | `MCNavigation`, in two parts |
| `ImageSources` | images the host lends | `MCNavigation` |
| `HostCalls` | calls of the host that run page code | `MCHost`, twice |
| `Painting` | frame request, damage, paints | `MCHost`; itself |
| `*Proofs` | theorems about the module they extend, component or sum | `tlapm` |

An `MC` module is a sum: it extends one component and instantiates the others, and
the variable `which`, fixed by the initial state, says whose behaviours are
explored. The others' variables stay as they are, so that the sum has the states of
its parts added up, not multiplied. The constants of an instance that theorems are
about are constants of the sum, with values in the `.cfg` and assumptions in the
sum; those of the others are given where they are instantiated. A property of the
sum is the conjunction of its parts' (`ProfilesAreSafe`, `SharedAsIntended`, ...),
each of which is stated and explained in its own module. The properties of the
component that is extended hold in every state of the sum and are checked by their
own names, which are those the theorems are about. Where TLC explores two parts of
one instance (channels of frames or of a frame and its worker; contexts that come
and go or a wait for idle), a conjunct of the sum's steps leaves out what belongs to
the other part (`FramesAlone`, `OneFrame`, `NobodyWaits`, `HostWaits`).

The pieces compose where a component uses another: `IDBTransactions` treats the
content of a store as one value that `IDBObjectStore` opens up, and `IDBCursor`
reads it while others write; `URLLoader` takes
from a transfer what `Fetch` shows it can end in; `Fetch` takes the tables as
constants that `HostRules` explores, and `HostRules` a single hop; `Downloads`
takes the stream's end from `Fetch`; `CookieJar` and `BroadcastChannel` both model
the part of the scope map they depend on.

### How state and actions correspond

**IDBTransactions.** `data`, `txn_snapshots`, `metadata`, `pre_upgrade_metadata`
and `version_change_txn` are the fields of `MbIDBBackend`; a transaction is named
by the address of its connection and its id, as in `Snapshot`'s key. `connection`,
`seen`, `phase`, `kind` and `scope` are what the page knows and may ask for.
`Put`, `AddRejected`, `DeleteRange` and `DeleteObjectStore` all arm the snapshot of
their store before they write (`EnsureSnapshot`), `Abort` restores what is captured
(`RolledBack`) and, if the aborted id is the tracked one, the saved schema.
`Disconnect` destroys the connection's transactions without rolling back, as the
destructors do, and leaves snapshots behind. `upgradeBase` is history: the schema
each upgrade began on.

**IDBObjectStore.** Values are what indexes see of them. `PutStored`,
`AddRejected`, `UniqueRejected` and `PutWithoutKey` are the four ways out of `Put`,
in the order of the code: the snapshot is armed and the generator moved before the
checks. An index entry whose set became empty is kept apart from no entry, as
`std::map` does. `CreateIndex` changes metadata only; Blink's populator reads
records one by one (`CursorReads`) and sends their keys back (`SetIndexKeys`), so
the record may have changed in between. `ToDouble` rounds numbers the way doubles
do beyond `MaxExact`. Two variables are fixed by `Init`: whether the store has a
key generator, and whether pages are `careful`. `base` is history: what the
transaction found.

**IDBCursor.** A cursor takes the entries of its range when it is opened and looks
each record up when it comes to it (`AppendCurrent`, here `Found`), so entries
outlive their records and records come that no entry is for. `cache` and `used` are
Blink's: what `Prefetch` brought, and how much of it the page has taken when
`PrefetchReset` gives the rest back. `delivered` and `owed` are history: what the
page has had, and what it is still to get as long as it stays. **IDBKeys** has nothing
that changes: the encoding (`EncodeKey`), the way back and the order of keys, each
a recursive function over bounded keys. Strings are ordered by the bytes of their
UTF-8, which is the code's order; IndexedDB orders them by UTF-16 code units, which
differs for characters past U+FFFF.

**IDBRegistry.** A backend is owned by `registry` or by `graveyard`; anything else
has been freed. `Load`, `Merge` and `LoadMergeScoped` are the three ways to read a
file, `Installs` what `DeserializeRegistry` puts into place of live slots,
`RetiredBy` what it retires. `ClearScoped` erases, so what it took is `freed` (history),
and a write through a handle that still points there goes wherever it may (`Reached`). **IDBSave.** The main thread's `Save` and `WriteFile`,
the service thread's `Gather` and `Answer`, and operations of workers in between. A
record's Blob is identified by the address of its `WebBlobInfo`, which `Put` draws
from a free list, so that addresses are reused.

**LockManager.** `held` and `queue` are `held_` and `queue_`; `id` is
`Waiter::id`, which orders the queue. `RequestLock` has the outcomes of the code
(granted, failed, queued); the disconnect handlers post `OnWaiterGone` and
`OnReleased` to `tasks`. The scan-and-restart loop of `ProcessQueue` is one step,
`GrantedBy`; `LoopGrants` is the loop itself, and that both grant the same is an
invariant and a theorem. `stolen` is history.

**SessionProfile.** `marker`, `file` and `backups` are on disk and survive `Crash`;
`profiles` is `ProfileStates()`, `session` the handles. A flush has a set of
outcomes (`FlushOutcomes`): refused, backed up and failed before, during or after
the write. `Copy` and `Rename` are the user's. `idb.dat` and `opfs.dat` go through
the same steps and are one file here.

**BlobRegistry.** A blob is known by its pipe. `mail` is what is in the pipe,
`parts`, `asking` and `data` how far `Materialize` has come, `pending` what waits.
`Received` is `OnProviderBytes`/`OnBlobRefBytes` followed by `DrainPending` and the
deletion check. `content` and `wanted` are history: what a read should get.

**OPFS.** A tree is nodes with children; the page is assumed to hold a handle of
every node it can name, and a write is one byte. `sessions` are the objects behind
writers and access handles, `Close` and a vanished pipe both release. Loading
the files of a profile (`MbLoadOPFSScoped`) parses a file first and merges it then;
the process-wide `MbLoadOPFS` merges as it reads, some upward-closed part of a torn
file, and `LoadsAreWhole` is claimed for the first.

**CacheStorage.** A registry key is a sequence of segments, as the code's string
with `\x01`; requests are a path, a query and the value of the one header a Vary
may name. A batch deletes what the code's matching says it replaces before it puts.
Hosts of buckets, their scope keys and the bucket's deletion are steps of their own.

**DOMStorage.** `calls` and `events` are the two directions of a context's pipe to
its area; `cache` and `pending` are Blink's copy and the changes of its own it has
yet to hear of, by which it ignores the store's events about the same key.

**BroadcastChannel.** `by_frame` is the map of scopes, written at a frame's commit
and by the worker's host; `calls` are what an agent did with its channels and the
service thread has not seen. Destruction is posted (`Destroy`), delivery looks the
scopes up when it happens.

**CookieJar.** Three copies of a cookie: `jar` (curl's, which requests use),
`store` (the mirror scripts read) and what an observer was told. A page's call is
handled when the frame's scope may have gone; clearing a session posts the clearing
of its mirror. `author`, `foreign`, `kept` and `intact` are history.

**Geolocation.** `set` and `version` are the fix and the number of its changes.
`MbSetGeolocation` is three steps of the main thread: the fix, those who wait
(`WakeWaiters`), the observers of the permission (`PostToObservers`). A watcher's
first question is answered at once, the next is held until something changes; the
answer is posted and reads the fix when it runs. A change that comes between an
answer and the next question, or between a permission's answer and the
registration of its observer, is not told until the one after it: the code promises
no more, and `GeolocationIsSound` says no more.

**ScriptWatchdog.** Every access to an atomic is an action; `main` and `monitor`
are the program counters of the two threads. `tasks` are the tasks the main thread is
in, one inside another; the model keeps their generations where the code keeps their
number. `armed`, `nested` and `killed` are history.

**WebSocket.** `calls`/`told` are the message pipes, `written`/`read` and `inPipe`
the data pipes; the worker of `CurlWsTransport` is a program counter with its two
queues. The n-th message of each side is the number n; the server plays one of
the scripts of the instance, and may let the worker wait for as long as it likes (`stalled`).
Loopback sockets echo and have no worker.

**Downloads.** `downloads` is `downloads_`; `streams` the detached workers and
what they have left to do; `tasks` what they posted, run against a view that may
have gone, a sink that has changed, a download that was cancelled. A server may
leave a transfer open for ever; one that was stopped sees it (`RunStopped`).

**DevToolsServer.** A connection's thread posts its wish and waits; the engine
thread performs it on the view that is at that address now. `fd` and `writer` say
whether a socket is open and who holds its send lock. A client may stop reading
(`deaf`), which holds up whoever writes to it. `lost` are clients whose session was
ended under them, `strays` those that reached another's: history.

**AudioPlayer.** The clock is an anchor in the clip (`anchor_media`) and the time since
(`elapsed`) at a rate; `TimePasses` is any amount of it between two ticks of the
timer. Decoding is a task or a decoder's callback at a time (`decoding`), and frames
may come out of the order they are shown in. `position` is history: where the clip
is, moved on as time passes rather than computed. The end of the
decoding shows the first frame, wherever a seek has put the clock, until the next
paint.

**Fetch.** `pc` is where a load is in its hop; `StartHop`, `Perform` and the
driver's own steps (`FetchHttp`, `NavOnHop`, `OnHopComplete`,
`WaitForStreamRedirectPolicy`) are the parts of the five drivers; `Redirected` and
`EvaluateRequestPolicy` are shared, as in the code. A URL stands for its origin.
`requests` is history: every request that left, with its hop, method, attempt,
whether credentials of the caller went along and whether the host moved that hop;
`listed` is the last URL the client was told.

**HostRules.** The five tables in the order of the host's calls; `Matches` merges
the three kinds of header registration by their sequence number, `Apply`
and the hook build the lines of a request. A view is known by an address that a
later view may get. A stream, of a page or a download, has a stop flag instead of the
question whether its view is alive (`Refused`).

**URLLoader.** A load has a kind (of a page, of a worker, a worker's script, a
navigation), a place in its life and what its client heard; a view closes in two
steps with the worker threads still running; the shared worker is replaced when its
last client has gone. Event streams buffer what their pipe does not take. A load that
the host deletes in a policy callback of its first hop is `orphaned` until the handler,
which does not look, has gone on (`DeliverGoesOn`).

**Navigation.** `stack` holds the calls that have not returned, innermost first,
and what a call does after a callback is an action of its own (the disjuncts
of `Returns`); a synchronous commit pumps the loop, in which any posted task may run
(`Loop`). `generation`, `pending`, `fetches` and `posted` are the fields of
`MbWebView` and what the reactor and the task queue owe. `told` and `finishes` are
history.

**SessionHistory.** Both histories with the flags by which a commit is told from a
traversal (`inHistoryNav`, `historyUrl`, `reloading`, `replacing`, `suppressed`).
An entry carries the visit it was made for, which the code does not know. Documents
may be loaded at URLs shown before, states pushed, any operation may fail, and pages
traverse what the host's list does not have. `failed` and `astray` are history: that a
page's traversal failed and its flag is still up, and that the latest commit was
taken for something it was not (`IsMisplaced`).

**NetworkActivity.** A counter lives under the address of a context; a worker's
load is counted and finished for one context after the other while the engine
thread reads. `wait` is `WaitForNetworkIdle` with its samples. **ImageSources.** An
image's release callback runs in the middle of the call that replaced it (`calls`).

**HostCalls.** A call is a program (`Programs`) of posts, bodies with events, loops
and waits; a step is one of the frame on top of `stack`. `queue` is the default task
runner, `late` the loops whose delayed quit has not fallen due, `held` what the page
has seen go down and not up.

**Painting.** The picture is a row of pixels. `UpdateAllLifecyclePhases`
is a paint cycle with what the tracker makes of it (`DamageAfter`, `BaselineAfter`),
`BeginPaint`, `ServiceAnimations` and `EndPaint` the steps of `PaintToBitmap`; what Blink does is taken
from how the code uses it. The host copies nothing but the damage.

## 3. Runs

Every passing run ends within four minutes on two workers.

| Run | Parts and their bounds | Properties |
|---|---|---|
| `stored` | `IDBTransactions`: 2 connections, 2 ids, 2 stores, 2 versions, 1 key; new and stored databases, connections that vanish. `SessionProfile`: 2 directories, 2 identities, 2 handles, 1 view, 2 contents, torn files, failed flushes, crashes | `SnapshotsAreDisjoint`, `TrackedUpgradeIsLive`, `ImplementsAtomicStores`, `AbortedUpgradeRestoresSchema`; `ProfilesAreSafe`, `ProfilesKeepTheirOwn` |
| `databases` | `IDBObjectStore`: 2 primary keys, 1 index key, 2 indexes of which one is unique, `MaxExact` 8, with and without a generator, careful pages and others. `IDBCursor`: 3 primary and 2 index keys, 3 ranges, up to 2 entries ahead, 1 write. `IDBKeys`: 4 doubles of 16 bits, 3 strings, arrays of 2 within each other. `IDBRegistry`: 2 sessions of 2 databases, 2 backends, 1 handle. `OPFS`: 3 sessions on one file; 2 profiles saved and loaded three times | `StoreIsSound`, `AbortUndoesEverything`, `GeneratedKeyIsNew`; `ReadsAreRight`; `RegistryIsSound`, `ProfilesStayApart`; `LocksHaveHolders` |
| `origins` | `LockManager`: 3 requests, 2 resources, every mode, steals. `CacheStorage`: 3 entries of 2 queries, 2 header values and 3 kinds of Vary; 2 origins, a bucket, 2 hosts. `DOMStorage`: 2 contexts in 4 places, 2 calls. `BroadcastChannel`: 2 frames, or a frame and its worker, 2 channels, 2 messages, 3 calls. `CookieJar`: 2 sessions, 2 frames, 2 writes; jars saved and loaded. `Geolocation`: 1 watcher, 2 observers, 2 changes | `MutualExclusion`, `NoIdleLock`, `LoopGrantsGrantedBy`, `GrantsInOrder`, `LocksMoveOn`; `SharedAsIntended`, `MessagesStayInTheirScope` |
| `services` | `ScriptWatchdog`: 3 tasks that nest twice, timeouts 0 and 1, 4 ticks. `WebSocket`: 2 messages each way, one of them empty, loopback or a server that fragments, closes, resets, errs, or stops reading and answering. `Downloads`: 2 downloads, streamed in one chunk or none, a change of sink. `DevToolsServer`: 2 clients that may stop reading, 2 views at one address, a frame each way, 1 stop. `AudioPlayer`: a video, a sound and a picture, rates 0 to 2, 2 calls, 2 seeks | `ClaimIsOfItsTask`; `ServicesAreOrderly`, `ServicesEnd` |
| `fetch` | `Fetch`: five URLs (a site, the backend it is rewritten to, somebody else's, a blocked one, a file), 2 redirects, all drivers. `HostRules`: 3 registrations on 3 URLs; 2 tables, 2 views at one address, requests and streams. `BlobRegistry`: 3 pipes, 2 reads, blobs of two parts. `IDBSave`: 2 records, 2 Blobs, 3 addresses | `RequestsAreAllowed`, `AnswerIsOfTheLastHop`; `LatestRegistrationWins`, `HooksAnswerForTheirView`; `BlobsAreSound`, `EveryRecordGetsItsBytes`; `LoadsEnd` |
| `view` | `Navigation`: 4 navigations, 3 nested calls. `SessionHistory`: 2 entries, 3 visits, 4 URLs, of which one is pushed. `NetworkActivity`: 2 views and a worker at 3 addresses; 2 loads under a wait of 4 ticks. `ImageSources`: 2 ids, 2 buffers, 2 nested calls | `EveryNavigationIsTold`, `OnlyTheLatestCommits`, `NavigationsEnd`; `CommitsAreRecordedAsWhatTheyAre`, `AccountsAreTrue` |
| `host` | `HostCalls`: 2 calls of any kind, or 3 of four kinds, with a page task and a load. `Painting`: 2 pixels of 2 values, 3 changes. `URLLoader`: 2 views, 2 instances of their shared worker, 2 loads of any kind, 1 redirect, streams of 2 bytes over a pipe of 1 | `CallsAreSound`; `PicturesAreTrue`; `LoadsAreSafe`, `OverIsOver`, `NobodyIsStranded` |
| `idb_lostschema` | `IDBTransactions`: 1 store, upgrades that overlap | `AbortedUpgradeRestoresSchema`, violated |
| `idb_clear` | `IDBRegistry`: 2 sessions of a database each, 1 handle | `HandlesPointToBackends`, violated |
| `cookie_sessions` | `CookieJar`: 2 sessions, 2 frames | `SessionsAreApart`, violated |
| `view_twofinishes` | `Navigation`: 3 navigations, 4 nested calls | `ExactlyOneFinish`, violated |
| `paint_skipped` | `Painting`: 3 changes, in-place moves | `HostIsCurrent`, violated |

Every property of a passing run has a mutant in `PROJECT.json`: a change of a
mapped definition, of the kind a programmer makes, under which TLC finds the
property violated. The mutants stand next to what they replace in the modules,
marked `Mutant:`.

### Why the bounds are enough

*IDBTransactions*: interference needs two transactions and two stores (one that
both want and one only one of them wrote); a schema is lost with two versions. A
second key or value adds nothing: `EnsureSnapshot` and `RolledBack` treat a store
as a whole. *IDBObjectStore*: a conflict needs two records under one index key; two
indexes separate "the unique one" from "another" and let one be created after
another was deleted; four numbers of the generator on each side of an explicit key
fit below `MaxExact`, which is 8 in place of 2^53. *LockManager*: three requests
are the smallest case in which a waiter can be overtaken. *Fetch*: two redirects
are the smallest case in which credentials come back to where they started; the
block list matters on the first hop and on a later one. *Navigation*: the fourth
navigation supersedes one that was started in the callbacks of another that
superseded a third. *HostCalls*: three calls are a call in the callback of a call
whose loop runs a third's. *Painting*: one pixel that changed and one that did not,
with a change before, during and after a paint. *ScriptWatchdog*:
three tasks give the monitor a predecessor and a successor of the task it watches,
or one inside another and the next;
the clock runs past every deadline that can be armed. For these eight, and for
*SessionProfile*, *IDBRegistry*, the locks of *OPFS*, *URLLoader*, the hooks of
*HostRules*, *IDBSave*, *SessionHistory*, *NetworkActivity*, *ImageSources*,
*BroadcastChannel*, *Geolocation*, *DevToolsServer*, *Downloads* and the clock of
*AudioPlayer*, the proofs of section 7 remove the bounds from the safety properties.

*IDBCursor*: a seek, what was fetched ahead and the one write meet at the second of
three entries; an index key with two primary keys is what a unique direction skips.
*IDBKeys*: the doubles are both zeros' neighbours, a negative and two positive ones
that differ in one byte only; strings hold the byte that is escaped, at the end and
alone; an array in an array escapes twice. *AudioPlayer*: frames that come out of
order need three; the second call meets what the first one anchored. *Geolocation*:
the second change meets a watcher that has not asked again since the first.
*IDBRegistry*: a merge needs two profiles and two names to mix anything up; two
backends are the one that is live and the one that replaces it. *SessionProfile*: a
copied directory needs a second directory and a second identity; two handles and
one view are the smallest case in which the last flush is not done by who opened
first. *BlobRegistry*: three pipes are a blob, one made of it and a clone of either;
parts of two kinds come in both orders; the largest offset is 15, and the range
that is read overflows when it is added up. *OPFS*: shared locks need two holders
and a third that asks for an exclusive one. *CacheStorage*: to hide an entry takes
that entry, the one in front of it, and one that is replaced in between.
*DOMStorage*, *BroadcastChannel*, *CookieJar*: two writers, with what each is told of
the other's write while its own is under way. *WebSocket*: an empty message between
others, a pipe that holds half of a message. *DevToolsServer*: the session of one
client and another that wants it. *URLLoader*: two loads wait for one engine thread;
a second instance of the worker comes while the first is on its way out.
*NetworkActivity*: an address is used by a second context while a load of the first
is ending. *SessionHistory*: two entries lie behind or ahead of the cursor, and the
third visit meets the limit, comes to a URL again or follows what failed.

`CHECK_DEADLOCK FALSE` appears everywhere because these systems may stop: pages and
hosts are free to do nothing more, and the bounds on ids, calls, tasks and time end
every run.

### Fairness

Fairness is asked of the program's threads only, never of what a page or a host
chooses to do, except that a page gives back what it holds.

* `LockManager`: the service thread runs posted tasks and delivers disconnects; a
  page closes the locks it *holds* (the callback settles or the page goes).
* `IDBSave`: the posted task runs, every Blob answers, the woken main thread runs.
* `BlobRegistry`: the service thread goes on as long as it has something to do; a
  provider of bytes lives in this process and is assumed to answer.
* `ScriptWatchdog`: time passes, the monitor thread is scheduled, V8 stops a script
  it was asked to stop. Runaway scripts and the ends of tasks are not fair.
* `WebSocket`: the service thread, the transport thread, and the page's handling of
  what it is told, as long as it is there. The server need do nothing: while it
  `stalled`, handshakes and frames do not end, and the properties ask nothing of the
  socket but that a stop ends its thread where one is seen.
* `Downloads`: the engine thread runs its tasks, and a transfer that was stopped
  ends. A server may keep a stream open for ever: downloads have no timeout.
* `AudioPlayer`: decoding tasks run and decoders call back. The timer need not.
* `DevToolsServer`: the connections' threads, the engine thread, and the end of the
  accept loop once its socket is shut. Clients need do nothing, and one that does
  not read what it is sent holds up who writes to it (`Blocked`).
* `Fetch`: the drivers run, and curl's timeouts end every transfer but that of an
  event stream, which ends when it is stopped.
* `URLLoader`: posted work runs, a view that closes gets on with it.
* `Navigation`: weak fairness of calls that return and strong fairness of the
  message loop, which is enabled only where nothing else is on the stack or a
  commit pumps it; a host may nest calls for ever but for the bound.

A sum states the conditions of its parts as `WF_v(which = "part" /\ ...)`: `which`
never changes, so that those of the other parts are vacuous.

## 4. What is assumed

Conditions under which the code keeps its promises are constants, variables or
guards of the models rather than silent omissions.

* `SerializedTxns` (IDBTransactions): Blink is told to start transactions whose
  scopes overlap one after another, and an upgrade alone. Neither
  `CreateTransaction` nor `Open` looks at scope or mode, so nothing on this side
  enforces it. With FALSE the abort of one transaction puts back a store as it was
  before what another has committed to it, and `idb_lostschema` shows what happens
  to schemas.
* `ProcessWideIds` (IDBTransactions): transaction ids are not reused. With ids per
  connection, a snapshot left behind by a vanished connection can meet a new one at
  the same address with the same id, and `Abort` recognises the tracked upgrade by
  its id alone.
* `careful` (IDBObjectStore): the page waits for its indexes to be filled, and
  creates unique indexes over unique data. Otherwise an index keeps keys of values
  that have been replaced, and a unique one lists both records: `SetIndexKeys`
  checks nothing. `NewIndexesStartEmpty`, `AbortUndoesEverything` and
  `GeneratedKeyIsNew` hold for careless pages too. Past 2^53 key generators hand out
  numbers that round to keys already used; `GeneratedKeyIsNew` is stated below that.
* `disturbed` (IDBSave): the comment at the save says that no IndexedDB operation
  runs while the caller blocks. Workers are not blocked; if one replaces a record
  during the save, the record may be saved without its bytes or with those of
  another. `EveryRecordGetsItsBytes` is claimed for undisturbed saves.
* No directory appears under an open profile (SessionProfile, `Arrives`).
* The atomics of the watchdog are sequentially consistent in the model; the code uses acquire and release for the generation and most accesses
  to the deadline, and relaxed order for the rest.
* `Views` of one view (HostCalls): with a second view, or with a pump or a load in
  the callback of a document's start, a load may go on while a document is prepared.
  Such calls are left out by a guard.
* `MovesUnseen` FALSE (Painting): what a page moves without a repaint while the
  damage is full is painted anew before the next cycle; `paint_skipped` shows the
  other case.
* `Reenters` FALSE (ImageSources): a release callback does not touch the id it is
  called for.
* HookTargets (Fetch): the code does not consult the block list again after a hook's
  `set_url`, so `BlockedIsLeftAlone` is about the URLs no hook moves to.
* Cookies have the path "/"; a cache body is its entry; one name of channels.

The theorems' assumptions on constants are the named `ASSUME`s of the modules
(`ConstantsAssumption`, `UrlsAssumption`, `NavigationAssumption`,
`HostCallsAssumption`, `PaintingAssumption`, `LoadsAssumption` and, of sums,
`ProfilesAssumption`, `RegistryAssumption`, `ChannelsAssumption`,
`ServicesAssumption`, `SaveAssumption`, `AccountsAssumption`): bounds are natural
numbers, markers such as `None` are not values, tables map what they say they map,
and sets that the code counts over (loads, ids, names, scopes) are finite. TLC
evaluates them in the runs. What a theorem assumes beyond them is in its statement:
`ProcessWideIds`, `SerializedTxns`, `OneView` and `~MovesUnseen`, each of them the
condition of that name in the list above. Where the code does not keep a promise
whatever the circumstances, the property itself says what it keeps (`OnlyClearsFree`,
`ClaimIsOfItsTask`, `IsMisplaced`, `ClientsKeepToTheirSession`, `OverIsOver`), and
section 6 says what it does not.

## 5. Properties

Each is stated in its module, with the code behaviour it is about. By component:

* **Transactions.** `ImplementsAtomicStores`: every behaviour of the backend is one
  of `AtomicStores`; the mapping shows as `committed` what a store will be when the
  running transaction that captured it aborts, and as `owner` that transaction; one
  whose connection vanished keeps its writes, as in the code. `SnapshotsAreDisjoint`
  is why; `AbortedUpgradeRestoresSchema` and `TrackedUpgradeIsLive` are about the
  schema, which another mechanism undoes.
* **Object store.** `StoreIsSound` (indexes agree, unique ones are, new ones start
  empty), `AbortUndoesEverything`, `GeneratedKeyIsNew`.
* **Reads.** `ReadsAreRight`: a cursor goes in its direction, gives no entry twice and
  passes over none whose record stayed, whatever is fetched ahead, given back or
  written meanwhile; counts and `getAll` agree with it; encodings sort as keys do and
  lead back to them; and a load of OPFS brings the whole of a whole file.
* **Profiles, registry, files.** `ProfilesAreSafe`: a snapshot that came from outside
  is never the only copy that is lost, and identities stay with one directory;
  `ProfilesKeepTheirOwn`; `RegistryIsSound`: nothing but a clear takes a backend from
  under its handles, and each has one owner; `ProfilesStayApart`; `LocksHaveHolders`: the locks of a file are
  those its open sessions hold.
* **Locks.** `MutualExclusion`, `GrantsInOrder`, `NoIdleLock`, `LocksMoveOn`: nobody is
  overtaken, nobody waits for nothing, everybody's turn comes as long as nobody
  steals. `LoopGrantsGrantedBy`: the loop that starts its scan again after each grant
  does what its one-step form says.
* **What an origin shares.** `SharedAsIntended`: no cache entry is hidden behind
  another, caches are found by their owners; Blink's caches of local storage converge
  and areas are of one place; messages come in order and not to their sender; scripts
  read what requests send, observers keep up, jars come back
  whole; no watcher waits through a change of the position, and observers know of it.
  `MessagesStayInTheirScope`.
* **Threads of a view.** `ClaimIsOfItsTask`: what the monitor claims has passed, and is
  of the task it holds to it or of the one around that; `ServicesAreOrderly`: nothing sent or
  heard over a socket changes places or is doubled, downloads are told begin, data,
  finish, no DevTools socket is used after its close and no client reaches a session that is
  not its own before its own was ended under it, the
  clock and the picture of a player are where its clip is;
  `ServicesEnd`.
* **Requests.** `RequestsAreAllowed`: credentials stay where they were meant to go,
  writes are sent once, the block list is obeyed on each hop; `AnswerIsOfTheLastHop`;
  `LatestRegistrationWins`, `HooksAnswerForTheirView`; `LoadsEnd`.
* **Blobs.** `BlobsAreSound`, `EveryRecordGetsItsBytes`.
* **Loads.** `LoadsAreSafe`: counters are exact, the registry has the one worker that
  serves, streams are whole; `OverIsOver`, once the handler of a load that was deleted
  in its callback has returned; `NobodyIsStranded`.
* **Navigation.** `EveryNavigationIsTold`, `OnlyTheLatestCommits`, `NavigationsEnd`,
  `CommitsAreRecordedAsWhatTheyAre`: the host's history takes a commit for what it is,
  whatever failed before, but for the three kinds of `IsMisplaced`; `AccountsAreTrue`
  (the cursor is at the document unless the latest commit was misplaced, the counters
  and the wait for idle, the pixels lent).
* **Host.** `CallsAreSound`: a body and its quit wait only for a loop that is there,
  every loop has a quit to come, nothing loads while a document is prepared, nothing
  stays held. `PicturesAreTrue`: copying the damage is enough, a clean view misses
  nothing, no diff reads what was freed, a page at rest costs nothing.

## 6. Where code and documentation differ

Five disagreements have a run; `findings` in `PROJECT.json` quotes both sides.

| Run | Property | What happens |
|---|---|---|
| `idb_lostschema` | `AbortedUpgradeRestoresSchema` | the backend saves one schema; of two overlapping upgrades one aborts to the other's (`frame/mb_indexeddb.cc:1117`) |
| `idb_clear` | `HandlesPointToBackends` | clearing the databases of a session erases their backends, which deletions and loads retire because pages may point at them (`frame/mb_indexeddb.cc:1732`, comment at 402) |
| `view_twofinishes` | `ExactlyOneFinish` | a load of an unhandled scheme, made in a callback of a commit, ends the committed navigation, whose document then finishes again (`view/mb_webview.cc:2669`) |
| `cookie_sessions` | `SessionsAreApart` | the scope of a frame is looked up when the page's asynchronous write is handled; when the frame has gone by then the cookie is filed with the default session (`frame/mb_frame_broker.cc:111`) |
| `paint_skipped` | `HostIsCurrent` | while the damage is full a scroll in place keeps a baseline that was never shown; the scroll back is no damage (`view/mb_damage_tracker.cc:43`) |

Others are stated as properties of their modules and violated when TLC is asked,
or are switched on by a constant. They have no run of their own:

* IndexedDB: an index entry whose record has gone still refuses its key
  (`RejectedOnlyForAnother`; `frame/mb_indexeddb.cc:1045`, comment at 1036).
* Keys: the encoding is said to sort as IndexedDB does (`frame/mb_indexeddb.cc:73`);
  strings sort by their UTF-8, IndexedDB's by UTF-16 code units, so that characters
  past U+FFFF come after those from U+E000 on and not before. `IDBKeys` models the
  order of bytes.
* Locks: a steal breaks locks without a look at the queue, whose first waiter may
  be forgotten (`EveryWaiterIsServed`; `frame/mb_lock_manager.cc:54`, comment at 199).
* Watchdog: a task may end between the last check and the termination, which then
  meets the next script (`OnlyOverrunsAreTerminated`; `runtime/mb_script_watchdog.cc:97`,
  comment at 91). Tasks nest (lines 52 and 65), and a nested one bumps the generation
  while the deadline of the one around it is armed: the monitor may claim that deadline
  and hold it to the nested task, which has only begun, and terminate it
  (`GenerationIsOfTheDeadline`, `OnlyOverrunsAreTerminated`; comment at 53). When the
  nested task ends, nothing is armed for the rest of the outer one, and a task whose
  script was terminated goes on to its other scripts unwatched: `NoRunaway` leaves out
  both.
* WebSocket: frames that arrive before `StartReceiving` are told after the drop
  (`NothingAfterTheDrop`; `frame/mb_websocket.cc:637`); `ws.send("")` waits for the
  next message, since only bytes in the pipe wake the reader
  (`CompleteMessagesAreDispatched`; line 493).
* Downloads: an empty body never begins, and its end is a failure without a reason
  of those the header lists (`FailsForAReason`; `src/src/miniblink2/webview.h:657`).
* Buckets: `caches.keys()` and `caches.match()` of a frame go by the prefix of the
  key, which its buckets' caches share (`BucketsAreApart`; `frame/mb_storage_buckets.cc:53`);
  deleting a bucket leaves its IndexedDB and OPFS.
* Channels: scopes are looked up when a message is handled, when the frame may be at
  its next document (`SameOriginOnly`; `frame/mb_broadcast_channel.cc:76`), and the
  worker of a third-party frame gets the scope of a first party
  (`WorkersShareTheirWindowsScope`; `worker/mb_dedicated_worker_host.cc:114`).
* Navigation: a load event may finish a navigation that is not its document's
  (`FinishedByItsOwnDocument`; `view/mb_webview.h:952`).
* Histories: `TraverseHistory` rolls back "so a failed traversal doesn't corrupt
  history (which would otherwise swallow the next real navigation's commit)"
  (`view/mb_webview.cc:3173`), and for traversals of the host it does. A page's, which
  sets the same flag by `set_page_history_nav` and calls `LoadURL`
  (`frame/mb_frame_client.cc:792`), rolls nothing back: when it fails, the next
  navigation is taken for a traversal and not recorded. Two more kinds of commit are
  misplaced: a page's traversal to a URL the host's list has twice or not at all
  (pages have entries for pushed states and for reloads), and a navigation to the
  current URL after a reload that failed. Without any of the three in `IsMisplaced`
  TLC finds `CommitsAreRecordedAsWhatTheyAre` violated.
* Loads: `OnHopComplete` looks whether the load is still there when the callbacks of
  its policy have returned (`loader/mb_url_loader.cc:4110`); `Deliver`, for the first
  hop, does not (3837) and goes on with the client of a load that the host may have
  deleted. `OverIsOver` begins when `Deliver` has returned.
* Streams: where a redirect leads an event stream or a download is decided with the
  raw context of the view and without `is_alive` (`loader/mb_url_loader.cc:3040`); the
  view's end stops its streams first, which `HooksAnswerForTheirView` relies on.
* Idle: the window of a wait restarts at samples that see a load, not when the load
  ends (`IdleWindowIsQuiet`; `src/src/miniblink2/automation.h:46`).
* Images: a release callback that registers its own id again is overwritten by the
  call it interrupts (`Reenters` TRUE; `loader/mb_url_loader.cc:2044`).
* DevTools: a client that is attached but not yet registered survives `Stop`
  (`StopClosesClients`); a client whose session was ended under it, by the host or with
  its view, commands and ends the session of whoever is at that address next
  (`devtools/mb_devtools_server.cc:419`): `ClientsKeepToTheirSession` leaves it out. A
  client that reads no more what it is sent holds the engine thread in `WriteAll` for
  as long as it likes, `Stop` included (line 72): `Settled` leaves it out as `Blocked`.
* Requests: `NavStartHop` does not strip the credentials of a navigation when a hook
  moves a hop; `OnHopComplete` ignores `MbFollowRedirects`, which webview.h says is
  process-wide; a hook's `set_url` is not held against the block list. The first is
  why `CredentialsStayPut` allows the places the host itself moved a hop to.
* Cookies: `MbGetCookiesForUrl` ignores tailmatch, path and secure; a page's write
  over an HttpOnly cookie replaces it; clearing a session notifies no observer.
* Host calls: the comment that input is bracketed by the run loop
  (`view/mb_webview.cc:1202`) does not hold for touch, wheel and selector clicks,
  which dispatch directly; that a commit's callback is "already within the commit's
  task" (line 3469) does not hold for loads the host calls.

## 7. Proofs

TLAPS checks these for every value of the constants that the `ASSUME`s admit. In
each, the invariant that is proved inductive was first checked by TLC. A theorem
about a part of a sum says `SumSpec => ...`: the steps of the other parts leave its
variables alone, which is the last step of each of these proofs.

### Transactions and profiles (`StoredProofs`)

* `TypeCorrect`: `Spec => []TypeOK`, split into `BackendOK`, `PageOK`, `HistoryOK`.
* `TrackedUpgradeLive`: `[]TrackedUpgradeIsLive`, inductive with `TypeOK`; it needs
  neither unique ids nor serialized transactions, because the destructor looks at
  the address.
* `SnapshotsDisjoint`, given `ProcessWideIds` and `SerializedTxns`. Disjointness is
  not inductive: a write arms a snapshot, and only the scopes say that nobody else
  has that store. `SnapshotInv` adds that scopes of running transactions are
  disjoint, that an upgrade's is everything, that a transaction captures stores of
  its scope only and that an id never used has no snapshot.
* `Refinement`: `Spec => ImplementsAtomicStores`, same hypotheses. `Init` maps to
  `Init`; writes to `Write`, commits and disconnects to `Keep`, aborts to `Undo`,
  the rest stutters, under `SnapshotInv`.
* `SchemaRestored`, given `SerializedTxns`. `SchemaInv`: the upgrade that runs is
  alone, owns all stores, is the one the backend tracks, and its saved schema is the
  one it began on; scopes are not empty, so that "disjoint from everything" means
  "alone". `idb_lostschema` shows that without the hypothesis the property fails.
* `ProfilesSafe`: `[]ProfilesAreSafe`; `ProfilesKept`: `ProfilesKeepTheirOwn`.
  `ProfilesInv`: a token is bound to one directory by every marker and handle that
  names it, wherever the marker was copied (`TokensAreBound`); a profile that is open
  has been restored, one that is not is new (`OpenIsRestored`); and a snapshot from
  outside of which there is no backup is in a directory whose marker does not claim
  it (`OutsidersAreForeign`), where every identity that could write over it may not
  or still has to back it up (`OutsidersAreKept`).

### Object stores, registry, locks on files (`DatabasesProofs`)

* `StoreSound`: `[]StoreIsSound`; `AbortsUndo`: `AbortUndoesEverything`;
  `GeneratedKeysAreNew`: `GeneratedKeyIsNew`. No hypotheses: the properties say
  themselves which pages they are about. None of the three is inductive alone,
  since an abort brings an old content back. `BaseInv` ties what the transaction
  began on to what its snapshot would restore and says of that content everything
  that is said of the present one; `IndexesInv` says of an index that is being
  filled that it lists exactly the records its cursor has passed; `ContentInv` that
  ids no index has had have no entries and that the generator is ahead of every
  record.
* `RegistrySound`: `[]RegistryIsSound`; `ProfilesApart`: `ProfilesStayApart`. The
  first is inductive with types, whatever is cleared under whom; the second needs it, since only
  an owner that is known tells whose databases a step changes.
* `LocksAreHeld`: `[]LocksHaveHolders`. The counters of a node are compared with the
  number of sessions that hold a lock of its, so `SessionsOK` keeps the sessions
  finite and says that an access handle that can still be closed holds its lock.

### Locks, channels, position (`LockManagerProofs`)

* `TypeCorrect`, `Exclusion`: `LockInv` is types, the order of the queue, idle
  requests are nowhere, exclusion. `GrantedExclude` says that `GrantedBy` adds locks
  that agree with those held and with each other.
* `FirstComeFirstServed`: `GrantsInOrder`; `GrantedBy` is closed towards the front
  of the queue.
* `NobodyWaitsForNothing`: `[]NoIdleLock`; the first waiter is blocked when it is
  queued, and every step that frees something ends in `ProcessQueue`; `~stolen` is
  needed because a steal does not.
* `LoopGrantsAll`: `[]LoopGrantsGrantedBy`. `ScansGrantTheRest` is about one turn of
  the loop: its scan grants one of those `GrantedBy` names, none only if there are
  none, and what `GrantedBy` names afterwards is exactly the rest. Hence "what has been
  granted, and what `GrantedBy` names now" solves the equation of the recursive
  function `LoopGrants` (`LoopGrantsThem`); and there is but one solution
  (`LoopsAgree`), for two that differ would differ at a set of granted waiters with
  the fewest left, where the next turn leaves fewer still. The queue is finite
  because ids are given once (`QueueIsFinite`). The least element comes from
  `WFMin`, so that no induction over an operator is needed.
* `PagesHearInOrder`: `[]ChannelsAreOrderly` and `[]GeolocationIsSound`;
  `MessagesAreWithheld`: `MessagesStayInTheirScope`. These are conjuncts of
  `SharedAsIntended`. `ChannelsInv`: the registry has a channel once and none that is
  gone (`RegistryInv`); what an agent has done and the service has not seen is in the
  order it was done (`CallsInv`); and what a client was sent of one agent ascends and
  is older than what that agent has still on its way (`InboxInv`). `PositionInv`: an
  observer that does not know of a change is on the list, and the main thread or a
  posted task is about to tell it (`ObserversInv`).

### Watchdog, DevTools, downloads, audio clock (`ScriptWatchdogProofs`)

* `TypeCorrect`: includes that no deadline is armed outside of a task, for any
  nesting.
* `ClaimsAreSound`: `[]ClaimIsOfItsTask`, for any nesting. `LastArmed` ties deadline,
  generation and the main thread's position together: a deadline that is there is the
  last that was armed, and the generation read after it is of its task or of a task
  inside it that has not armed its own yet.
* `SessionsAreOfTheirClients`: types, `SocketsAreTheirOwn` and
  `SessionsFollowClients` of `DevToolsServer`, whatever the host detaches and however
  often its views are replaced. `EndpointInv`: a connection asks the engine thread
  for one thing at a time (`AskedInv`); between its attachment and its detachment
  (`InSession`), and only then, it may be listed, written to, or have a session.
* `ClientsKeepApart`: `DevToolsAreSound` in full, whatever the host detaches and
  however often its views are replaced. `OwnInv`: a client in a session has the view
  for itself or has lost it.
* `DownloadsInOrder`: `[]DownloadsAreOrderly`. One task opens a download, before
  anything else is told of it; what came of a stream comes behind its begin in the
  queue, or the download has begun (`OpenInv`, `ChunkInv`, `StreamInv`, `BodyInv`,
  the last for a task that makes several callbacks); what the host has heard fits
  what the view keeps of the download, unless it took the sink away in between
  (`HeardInv`).
* `TheClockIsTrue`: `[](ClockIsTrue /\ DecodingGoesOn)`, for any clips and rates and a
  timer however late. `ClockInv` adds that the position lies in the clip, whose
  length was set before it could be played.

### Host calls and pictures (`HostProofs`)

* `CallsReturn`: `[](TypeOK /\ CallsAreSound)`, given one view, for any `Calls` and
  any nesting. `LoopInv`: a quit that is queued or late has its loop, every loop has
  one, and quits of inner loops come before those of outer ones (the queue is first
  in first out, and a loop takes the quit of no other). `Sound(stack)`: one document
  at a time is prepared, and above its callback are only calls that do not wait.
  `HeldInv`: what is held comes up in what is left of some body on the stack, which
  is why it is about suffixes of event sequences (`RunsTail`, `RunsConcat`).
* `Pictures`: `[](PaintingTypeOK /\ PicturesAreTrue)`, given `~MovesUnseen`. The
  conjuncts hold each other up (`PaintingInv`): what the host shows differs from the
  page only where there is damage pending or where a diff of the baseline will find
  it (`HostShowsBaseline`); the baseline is of an artifact that is kept (`Kept`); a
  change that is not painted has asked for a frame (`RequestStands`); and a page at
  rest runs out of damage in at most three paints (`ComesToRest`). Without the hypothesis
  it is false: `paint_skipped`.

### Navigation, history, accounts (`NavigationProofs`)

* `NavigationsAreTold`: `[](TypeOK /\ EveryNavigationIsTold)`; `TheLatestCommits`:
  `OnlyTheLatestCommits`, for any number of navigations and any depth. The stack
  carries the argument: above a call inside a commit there are only calls that never
  commit (`Nested`); each navigation is held by at most one of the calls, the queued
  tasks and the fetches (`HoldersInv`, `TasksInv`); a call that supersedes has told
  nobody of what it will install (`SupersedingInv`); the one that commits is the
  pending one, or was ended in the callback it waits for (`CommittingInv`,
  `PendingInv`); and one that has started and not ended is pending (`OpenInv`).
* `TheAccountsAreTrue`: `[]AccountsAreTrue`; `TheCommitsAreRecorded`:
  `CommitsAreRecordedAsWhatTheyAre`. Four invariants, one a component. `HistoryInv`:
  the cursor is at the entry of the document shown unless the latest commit was
  misplaced (`IsAt`), and each flag stands for an operation in progress, or is one of
  the two that a failure may have left (`FlagsOK`, `HostTraversal`, `PageTraversal`).
  That a traversal finds its entry by URL is `LeastPlace`. `NetInv`: the counter at an
  address is the number of loads counted there (`CountedBy`), and an address without
  a counter is counted by none, so that a later context at it begins at zero.
  `WaitInv`: between two samples the wait knows when it last saw a load, and what has
  started since is seen at the next (`Watches`). `ImagesInv`: lent less returned is
  what the table and the calls on the stack hold.

### Requests, hooks, saves (`FetchProofs`)

* `HopsAreAllowed`: `[]RequestsAreAllowed`; `AnswersAreOfTheLastHop`:
  `[]AnswerIsOfTheLastHop`, for any URLs, rewrites, block list, hooks, drivers and
  number of hops. `HopInv`: the hop on its way is the last one, and headers hold
  credentials only if credentials may be where it is; `WaitInv`: the decision a
  stream's thread waits for is one the policy allows; `ListedInv`: a resource's
  client has been told of the URL its driver shows.
* `HooksAnswer`: `[]HooksAnswerForTheirView`. `HooksOK`: a hook at an address is of
  the view that is there now, because a view's end takes it away; `RequestOK`: a
  stream that runs is of the view at its address, because that end stops it.
* `RecordsGetTheirBytes`: `EveryRecordGetsItsBytes`. `Gathered`: while the main thread
  waits undisturbed, what was asked and has not answered is the Blob of a record at
  the address that is still the record's, and the others have their bytes there.

### Loads (`URLLoaderProofs`)

* `LoadsSafe`: `[]LoadsAreSafe`; `LoadsStayOver`: `OverIsOver`, for any finite set of
  loads of any kinds, deleted in any callback. `LoaderInv`: whoever told its client the end does nothing but
  go, and a stream that ended has nothing on its way (`LoadOK`); a counter is the
  cardinality of the loads with its key (`CountsOK`); an instance that does not
  serve has no clients (`InstancesOK`).

### Only model-checked

* Liveness: `LocksMoveOn`, `ServicesEnd`, `LoadsEnd`, `NobodyIsStranded`,
  `NavigationsEnd`. TLAPS does not reason about fairness here.
* What recursive functions, folds, filters and sorted sequences compute, since facts
  about those need induction over data, which the theorems of the library do with an
  operator as a parameter and the installed provers cannot apply: `ReadsAreRight`
  (sorted entries, recursive encodings, a load that merges with a fold),
  `LatestRegistrationWins` (registrations sorted and applied in turn),
  `BlobsAreSound` (bytes put together by a fold); of `SharedAsIntended` the parts of
  `CacheStorage`, `DOMStorage` and `CookieJar`; of `ServicesAreOrderly` the part of
  `WebSocket` and `PictureIsInTime`. The other parts of these two are proved, each
  under its own name.

## 8. What is left

Not modelled:

* The byte format of the snapshot files: no property here tells it apart from the
  values it holds.
* `query()` of the lock manager, statistics, quota: they change no state.
* The chunked streaming of blob bodies (`BlobReadSession`, `RegisterFromStream`).
* The request log, the file and media stores of the URL loader; session
  namespaces that are cloned.
* Child frames, new windows, printing, find-in-page, file selection, the clipboard.
* DevTools' version and target lists and its frame format.
* The composited fallback of painting and the frame-sink slot.
* The codecs; `media/mb_media_player.cc`, which gives Blink's own player a sink for
  its sound; start-up and shut-down of the runtime but for what `URLLoader` sees of
  it; compositor, GPU, WebGL and WebGPU, whose state is in Chromium's libraries;
  notifications and the C interface, which forward; tools, samples and tests, which
  are clients.

Known behaviours that no property covers, since nothing in the repository promises
otherwise: a save writes what running transactions have written so far; an upgrade
whose connection vanishes keeps its version and half-filled indexes; the ordinary
snapshot does not survive a crash in the middle of being written; after a flush
that failed, reopening the profile replaces what is in memory by the file; a bytes
provider that dies without an answer leaves its blob waiting; a socket's or a
download's server that neither answers nor closes is waited for until the page or the
host stops it, since neither transfer has a timeout; a DOM storage area that is bound
before its frame's scope is known is of the default session; a
change of the position that comes between a watcher's answer and its next question,
or before its permission observer is registered, is told with the one after it.

Where the project goes from here: the streaming of blob bodies, child frames and the
runtime's shut-down as modules of their own; the folds of `CookieJar` and
`CacheStorage` as recursive functions with their equations proved by the argument
of `LoopsAgree`.

## 9. Running

    tlc -workers 2 -config MCStored_stored.cfg MCStored
    tlapm LockManagerProofs.tla

`PROJECT.json` names the module and the configuration of each run. A run of a sum
can be narrowed to one part with an additional constraint on `which`.
`ScriptWatchdogProofs` and `NavigationProofs` take some minutes each.
