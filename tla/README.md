# A TLA+ model of the lumeo core

lumeo is a media application in two processes: a core written in Go
(`src/core`), which finds titles, downloads them, streams them and remembers
what was watched, and a Qt client (`src/desktop`) that talks to it over HTTP.
This directory models the core. Every definition is translated from the Go
source; `PROJECT.json` names the lines each one stands for.

## The system

| part | state it keeps | operations | talks to |
|---|---|---|---|
| `acquire.Manager` | rows (`m.rows`), tasks (`m.tasks`), holds, the downloads table | Start, OpenLocal, SetPaused, Remove, StopSharing, Identify, Get/List/Find/File, Hold, Release, ReleaseDevice, Resume, recover, Close | backends, store |
| `acquire/torrent` backend | one torrent per infohash with counts of its downloads, wanted files and end pieces; open tasks | Start, selectFile, want, unwant, release, Free, Close | BitTorrent client, storage |
| `acquire/torrent` storage | completion record, files under `.part` or their own name, counts of missing pieces | OpenTorrent, WriteAt, MarkComplete, MarkNotComplete, Completion, free, want | disk |
| `acquire/local` | nothing: a task is a path and a size | Start | disk |
| `library.Service` | open streams, what stopped or was chosen lately | Run/Clean, Play, Opened, Picked, Start, Released | manager, progress, preferences |
| `flight.Group` | fetches in flight by key | Go, Wait, Close | catalog and artwork send requests through it |
| `catalog.Service` | items, pages and rows in the store; fetches in flight, slots of the background | Item, Cached, Browse, Rows, Search, Find, Close | add-ons, store |
| `progress`, `watchlist`, `ratings` | what was watched, My list, scores | Put, WatchedThrough, Delete, Hide, Continue, History, Add, Remove, Set, Clear | store, catalog |
| `personal`, `searches`, `preferences` | files of a viewer's data, the searches made, one record of settings and its listeners | Export, Import, Record, Get, Patch, Reset, Write | store |
| `addons`, `stremio` | the list of add-ons and their manifests; clients | Load, Run, Add, Update, Remove, Refresh, retryMissing | HTTP, store |
| `remote`, `api/remote`, `api/devices` | paired devices and their holds; the link to a media server | Pair, Revoke, Link, Unlink, KeepHolds | another core |
| `subtitles` | subtitles found and kept beside downloads | Search, Get, keeper's passes | add-ons, manager |
| `local.Service` | folders of local files | Scan, Identify | manager, catalog |
| `artwork` | a cache of image files by key | Get, evictions | HTTP, disk |
| `store` | SQLite, one transaction per call | | |
| `cmd/lumeo` | the lock on the data directory, order of boot and shutdown | | everything |
| desktop client | what is on screen, the player | | the API |

What is hard here. HTTP handlers, the cleaning goroutine, the network watch and
the torrent client's goroutines run at once. Most operations copy state under a
lock, work without it (a disk, a swarm, the store) and write back what they
found: the copy may be stale by then. Rows are written to the store and to
memory in two steps, and the core may be killed between them. Counters shared
by several downloads of a pack must come out right in any order of closes. The
cleaning passes decide from what they read earlier, while viewers play. Two
clients report on the same episode. Manifests and provider answers arrive after
what they are about has changed. A link to a media server loses requests, or has
them handled after the one who sent them gave up. Two cores of different
versions exchange files.

What makes each part correct:

* manager: one row per source; a pause of the user's lasts until the user lifts
  it; nothing runs that is not recorded; a removed download stays removed;
* backend: a torrent lives exactly as long as a task of it, and an open task
  keeps what it asked the swarm for;
* storage: no record of bytes that are not there, through crashes and frees;
* library: nothing being played or just started is freed, and what is watched,
  or held by nobody any more, goes in the end;
* flight: one fetch per key, answers for everyone who waits, nothing after Close;
* catalog: a list never spoils the details of a title, and what is kept is
  served whatever fails;
* progress and watchlist: what plays next, the shelves and the history, each
  with rules of its own, agree; a play never takes a watched mark away;
* personal: merging is the same whichever way files go, and again changes
  nothing; those who apply the settings have the stored ones;
* add-ons: the list in memory is the one a restart would read, no manifest of
  another address is kept, and one that is missing comes in the end;
* remote: a code pairs one device, and the holds of a device come to say what
  its viewer watched and wants.

## Modules

| module | models | composed of |
|---|---|---|
| `Acquire` | `acquire/manager.go`, `recover` of `network.go`, `SaveDownload` | |
| `TorrentBackend` | `acquire/torrent/backend.go` | |
| `TorrentStorage` | `acquire/torrent/storage.go` | |
| `Library` | `library/library.go`, the handlers of `api` that start, stream, hold, release and remove, `Manager.Hold`/`Release`/`ReleaseDevice` | |
| `SharedFetch` | what a group of `flight` promises its callers (abstract) | |
| `Flight` | `flight/flight.go` | implements `SharedFetch` (`SharesFetches`) |
| `Catalog` | `catalog/service.go`, `store`'s items, pages and rows, the handlers that ask | extends `Flight` |
| `History` | `progress`, `watchlist`, `ratings`, their tables and handlers | |
| `Personal` | `personal`, `searches`, `preferences`, the choices of `progress`, `store/personal.go` | |
| `Remote` | `remote`, `api`'s `remote.go`, `link.go`, `devices.go`, `mode.go` | |
| `Addons` | `addons/addons.go`, its table and handlers | |
| `CatalogProofs` | theorems about `Flight` and `Catalog` | extends `Catalog` |
| `ViewerProofs` | theorems about `History` and `Personal` | extends both |
| `AcquireProofs`, `TorrentBackendProofs`, `TorrentStorageProofs`, `LibraryProofs`, `RemoteProofs`, `AddonsProofs` | theorems about the module each is named after | extend it |
| `MC*` | constants and symmetry for TLC | extend the module they are named after |

Definitions whose comment begins with *Mutant* are wrong versions of the one
that follows them. No specification uses them; replacing the right one by the
wrong one shows that a property notices (`mutants` in `PROJECT.json`).

### Acquire

`startMu` is held for the whole of every operation that starts, stops, pauses
or removes; `mu` for single reads and writes. A critical section of `mu` is one
step. What an operation read under `mu` and uses later is a field of its record
in `calls`; its `pc` says which section comes next:

    copied -> tasked -> [forget] -> read -> snapped     snapshot, persist
    snapped -> close -> pausing                         SetPaused(true)
    snapped -> [close] -> [resave -> restartRow] -> starting   restart
    create -> createRow -> starting                     a new download
    starting -> failRow -> failSave                     startTask failed
    close -> delete                                     Remove

A row keeps its locator, state, who paused it, whether its file is known and
whether Identify has named it. Rates and times are left out: whether a transfer
is stalled is a free choice for one that is active and still the task read.
`Stop` is both `Close` and a crash, since either loses only memory. A local
file's tasks are values that compare equal, as Go's comparison of the interface
makes them. `Outside` truncates or restores files behind the core's back.

### TorrentBackend

A task's `Close` is four steps (mark closed, `unwant`, leave `b.tasks`,
`release`), and `selectFile` runs beside it. The client's file and piece
priorities are what `want` and `unwant` set. Metadata comes at once, when saved,
or later.

### TorrentStorage

The steps are those between which a crash or another goroutine can come: write,
sync, record and count (one step, under `markMu`), rename; and for `free` the
withdrawal of the record, the client's `forget` of each piece, the reset of the
count, the rename back, the replacement. Bytes written and not synced may be
lost in a crash. A file may be deleted while the core is stopped.

### Library

A pass is a sequence of steps (list, choose copies, pause and drop each, stop
sharing each, list again, read progress, free each), with the requests of
viewers between any two. Time is kept as ages up to a cap no rule can see past.
Passes and handlers take no time against the settle time; a served stream does.
The downloads' own machinery is `Acquire`'s; here they are active, waiting,
paused, seeding or done. A download that left is not started again under the
same id, as ids are not reused.

Which copy was picked or played last is an order of times in the code and is read
only to compare them: `recent` keeps for each download how it was last chosen and
the downloads whose last choice was before (`over`). The copies to drop are a set,
taken in any order, as the rows may be listed in any.

`Service.Start` is one step under `mu` (`Starts`); the handler around it goes on to
`Picked` and to a device's hold in steps of their own, and answers. The player
comes later, if at all. `fresh`, which the code does not have, remembers which
downloads were started and for how long they have had no stream: it falls with
the ticks, is cleared when a stream opens, and no action reads it.

Every download takes one unit of room, arrived or still arriving. A prefetch has to
fit in what the disk limit leaves (`Usage`, `Room`, `Fits`), which its handler
measures in a step before the one that starts it. The disk itself never fills.

### Flight and SharedFetch

`Go`, the four steps of the fetch's goroutine, `Wait` and `Close`. What a fetch
does belongs to the caller: it returns some answer. `SharedFetch` knows no calls
and no goroutines: how many fetches of a key are out, who waits for which and
whether the answer is there. The mapping (`Shared` in `Flight`) counts the
calls that run, and takes a caller for answered as soon as the call it waits
for is.

### Catalog

A request of a client looks in the cache, asks the group, waits or leaves, and
answers from the fetch or from what was kept. The fetch's last step is `Flight`'s
*answer*; the titles of a page are written one step before the page itself, which may
fail to be written, as a provider's rows may. A page that came without titles is kept
as one never fetched, and takes the place of an older one. The
payload of a title is where it came from: a list, which has no episodes, or
`Meta`, which has. A search asks for the rows of a provider and goes on to the
page of the query in them; `Find` asks `Meta` itself, outside the groups. With one
title the slots of the background are taken and given back and never fought
over, and the run has no relay.

### History

Every call of the store is a step, so two handlers meet between any read and the
write that follows. A call may fail (`Fails`), and the core may stop between two
(`Stop`): a title that could not be added to My list is only logged, anything
else ends the handler. `missed` keeps the titles whose one adding failed, until they
are added. A position is one of four stretches of an episode: the
start, the opening (`rewatchFrom`), the middle, the end; `Put` treats a report of
the first two alike, and the run reports the last three. `latestEntry`,
`goesOnFrom`, `next`, `Continue`, `NewEpisodes`, `ComingUp` and the history are
operators over the tables, each after its own code, so that what they say can
be compared.

### Personal

Cores write, export and import; a file is a copy of what the core's version
would write. Import is one transaction under the lock of the preferences, and
the notification of their subscribers, still under it, is a second step, which
may fail to read the document back (`NotifyFails`): then nobody is told, and `untold`
has the core until a later change is. A change of a choice reads it and writes it
back in two steps under `choiceMu`, which an import does not take. The
older of two versions takes fewer values, and may have found one it does not
take in its table.

### Remote

A request is sent, let in (`requireToken`) and handled in three steps; it may be
lost, or handled after its sender's timeout. A pass of `KeepHolds` reads the
holds of the server, compares each with what the viewer watched and wants, and
sends one request at a time; it ends at the first that fails or is refused. What
the viewer wants is kept for each download, since a choice is of one title and a
preference of all; some of it the server refuses (`Refused`: more languages than
it takes). Either side restarts; a device is revoked in two
writes; the core forgets its link, pairs again, or runs without it from its next
start.

### Addons

A critical section of `Service.mu` is a step, its write of the store included,
which may fail. A fetch of a manifest carries the entry and the client it was
made for, and its answer is dropped when these are not the current ones.

## Runs

| run | bounds | shows |
|---|---|---|
| `Acquire` | 1 torrent, 2 goroutines, 2 tasks, 1 restart, every operation | `UserPauseHolds`, `UserPauseLifted`, `NeverReturns` |
| `AcquireTwo` | 2 ids, a torrent and a local file, 2 goroutines, 1 task, 1 restart, saves may fail | `UniqueLocator`, `RunningIsRecorded`, `PauseSurvives`, `StartMuReleased` |
| `TorrentBackend` | 3 tasks, 1 torrent of 2 files in 4 pieces, one shared | `RefsCount`, `RunningAsked`, `StoppedNotAsked`, `BackendCloses` |
| `TorrentStorage` | 2 files, 3 pieces, one shared, 1 crash, 1 file deleted | `RecordHasBytes`, `FreedStaysMissing`, `CountRight`, `WholeIsNamed` |
| `Library` | 2 copies of an episode, the owner, 4 requests, the days rule and a disk limit, 2 ticks to settle | `StreamNotFreed`, `StartedNotFreed`, `DeadPickKeepsOld` |
| `LibraryDevices` | 1 copy, the owner and a device, 3 requests | `WatchedGoes`, `NothingStaysForever` |
| `Catalog` | a title, a page and an add-on's rows, 2 fetches, 2 clients, 2 requests, a Close, copies that go stale | `OneFetch`, `DetailsAsFetched`, `ServedFromCache`, `CloseEnds`, `SharesFetches`, `FetchesWriteBeforeClose` |
| `History` | a series of 2 seasons with a special, a film, 2 handlers at once, 3 requests, of which a failure or a stop takes the place of one, 2 days | `ShelvesAgree`, `StartedIsListed`, `GoesOnFromMarked`, `PlaysNeverUnwatch` |
| `Personal` | 2 cores of different versions, 3 changes, 1 value of a choice, 3 searches of which 2 are kept, the file of one core | `ImportTwiceChangesNothing`, `CoresConverge`, `AppliedIsStored`, `RecordedComesFirst` |
| `Remote` | 1 download, 2 devices, 1 code, 3 requests, 2 faults, 3 wishes of which one is refused | `OneDeviceACode`, `HoldsFollow`, `ReleasedStays` |
| `Addons` | 3 addresses: two configurations of one add-on, and another of the same name; 3 requests, 2 faults | `InOrder`, `ManifestOfUrl`, `MissingArrives` |

Why these bounds. The races of `Acquire` are between one operation under
`startMu` and one that looks, so two goroutines meet all of them pairwise; one
id suffices for what happens to a row, and two for what happens to a locator,
since an id is created once. Two tasks are the one in `m.tasks` and one more. In
`TorrentBackend` three tasks give a file two readers and the pack a third. In
`TorrentStorage` each file has a piece of its own and one it shares, which is
every kind of piece there is; a file with none of its own is `WantedIsNamed`'s. In `Library` the number of requests is what a
viewer does between two passes, and two ticks to settle leave one in which a
start is over and not yet settled. In `Catalog` two clients are enough for a fetch to
be shared, left by one and cancelled under the other, and the clock's one tick
is what makes a copy stale. In `History` three requests are an entry, something
that changes it and a third that meets one of them; the second season is not out
until the clock ticks, so both sides of a release date are seen. In `Personal`
either core's file is taken to the other, in one behaviour one of the two (`CONSTRAINT
OneFile`; the way back is worked out in `CoresConverge` itself, and a run without the
constraint, of 954,938 states, finds nothing either), and the third search pushes one out; one value
of a choice is enough to tell set from not set, and times tell the rest. In
`Remote` two devices are the one revoked and the one paired after it, two faults
a request lost and a restart, three wishes the default, another and one refused. In `Addons` three requests install, change and
remove one add-on with a fault at either end. Deadlock is not checked: the requests are
bounded, and a system asked for nothing may stop.

The type invariants (`TypeOK`, `CatalogTypeOK`, `PersonalTypeOK`) and `Flight!NothingAfterClose` hold on
these instances too, and can be put in the cfg of the module's run.

One run is expected to fail. It states what a comment in the code says and the
code does not do:

| run | comment | what happens |
|---|---|---|
| `AcquireUserPauseStopsTransfer` | `manager.go:301` "A pause stops the transfer" | a stale snapshot marks a running row failed; a resume starts a second task over the first, which no later pause stops |

More statements of this kind are kept in the modules, with no run of their own;
put one in the cfg of a run of its module and TLC finds it violated:

* `Acquire!PauseOnlyIfAsked` (`manager.go:116`, Resume "restarts at boot what was
  running"): Identify between `restart`'s two writes stores the old paused row;
  `Acquire!PausedMeansStopped` (`acquire.go:24`) and `Acquire!TitleKept`
  (`manager.go:1012`): the same stale snapshot, and `restart` and `fail`, which
  write the whole copied row back over what Identify set;
* `TorrentBackend!NoPieceLeft` (`backend.go:533`, "what the last reader of a file
  asked for goes with it"): end pieces are counted once per reader and uncounted
  once per file; `TorrentBackend!TasksFirst` (`backend.go:437`): a task between
  leaving `b.tasks` and `release` is not waited for;
* `TorrentStorage!WholeNameIsWhole` (`storage.go:295`, "a file under its own name
  is one the library treats as whole"): a shared piece marked during `free` is
  counted off a stale count; `WantedIsNamed` (`storage.go:140`, a file is under "its
  own name once complete, the .part name until then"), with `FilesOf <- MCSmallFilesOf`:
  `free` renames a file that shares every piece it has and finds none to withdraw;
  wanted again, it is complete and recorded, and stays under `.part` until the
  torrent is opened anew;
* `Library!StartedNotFreed` (`library.go:164`, "must not free it in between"), with
  two devices, starts and releases: `Released` looks at open streams only;
  `PickedNotPaused` (`:155`), with starts and plays of two copies: a pass between
  `Start` and `Picked`; `FinishedCopyStays` (`:286`), the same: a copy that finishes
  during the pass is dropped though `SetPaused` refused it; `UnwatchedStays`
  (`:180`), with starts and progress: a candidate marked unwatched during the
  pass; `RevokedHoldsNothing` (`devices.go:121`, also in `Remote`): a request under
  way holds again after `ReleaseDevice`;
* `Catalog!NoWriteAfterClose` ("so none writes to the store after it is closed"):
  the write of `Find` is its caller's, and no group waits for it;
* `History!OpeningKeepsFinished` ("Opened by mistake and closed, it stays
  watched"): the report of another client that finishes the episode lies between
  `Put`'s read and its write; `History!TakenOutStaysOut`: the second of two first
  reports lists again what was taken out between them; `History!EveryStartIsListed`
  (`api/progress.go:56`): where adding fails or the core stops first, no later
  report adds the title;
* `Personal!LaterTracksWin`: `RememberSource` moves the time of a choice of tracks
  with no track picked; `Personal!GetSkipsRefused` (`preferences.go:403`, "which Get
  skips too"): `Get` skips only what does not decode; `Personal!EveryChangeIsTold`
  (`preferences.go:226`, "has fn called with the whole document after every change"):
  not where `notify` cannot read it back;
* `Remote!EachHoldFollows` (`api/remote.go:533`, "what changed while the server was
  away is sent once it is back"): `syncHolds` returns at the first row the server
  refuses (`:641`), and the rows behind it are never told. A server takes 16 languages
  (`mode.go:202`), the preferences any number, and a track picked for one title adds
  another (`:226`), so one title's row may be refused in every pass while the others
  would be taken. TLC finds it with `Downloads = {d1, d2}`, `Devices = {v1}`,
  `Wishes = {y1, y2}`, `Refused = {y2}`, 4 requests, 1 fault and `CONSTRAINT LinkedFirst`,
  which leaves out what happens before the core is linked and to the link after:
  the constraint could hide a violation, and cannot make one;
* `Addons!InstalledOnce`: an add-on whose own manifest has not come yet is not
  recognised when its address is pasted with another configuration.

## Fairness

* `Acquire!FairSpec`: a goroutine inside an operation goes on. Its calls (the
  store, the disk, the backend's Start, which does not wait for the swarm) return.
* `TorrentBackend!FairSpec`: a Close that has begun goes on. Nothing is assumed
  of metadata or peers.
* `Flight!FairSpec`: the goroutine of a fetch runs, and its fetch ends, since
  the HTTP clients behind it have a timeout and the context is cancelled.
  Callers may leave; none has to.
* `Library!FairSpec`: the ticker fires and passes go on; handlers go on and
  streams end; time passes; a transfer that is getting bytes ends. Time is
  strongly fair because requests may keep interrupting it for a moment; the
  requests themselves are not assumed.
* `Catalog!CatalogFairSpec`: the goroutines of fetches, of requests under way and
  of Close run; a provider's client has a timeout, so every fetch ends. It is
  under this that `Flight`'s steps implement `SharedFetch!FairSpec`, which says it of
  states: again and again no fetch of a key is out, and no caller has an answer waiting.
* `Remote!FairSpec`: `KeepHolds` runs, its ticker fires, and a server that can be
  reached handles what it is sent. Nothing makes a server reachable: `HoldsFollow`
  begins once one stays so.
* `Addons!FairSpec`: a core that was stopped is started again, `Run` goes round
  and a request ends, by its timeout at the latest.

## Proofs

Each theorem holds for every value of the constants its module's `ASSUME` allows:
any number of goroutines, downloads, files, devices, add-ons, requests, crashes
and faults. A proof has the same three parts: an inductive invariant holds at
first, every step keeps it (one lemma per action, or per group of actions that
touch the same state), and it implies the property.

### Acquire

| theorem | states |
|---|---|
| `TypeCorrect` | `[]TypeOK` |
| `UserPauseIsKept` | `[]UserPauseHolds` |
| `RunningRecorded` | `[]RunningIsRecorded` |
| `PauseIsStored` | `[]PauseSurvives` |
| `OnlyUserLifts` | `UserPauseLifted`, an action property |
| `RemovedStaysRemoved` | `NeverReturns`, an action property |
| `OneRowPerSource` | `[]UniqueLocator`, where the store deletes what it is asked to |

None is inductive alone. `IInv` adds `Control` (which operation can be at which
`pc`, with which fields), `CopiedRow` (the row an operation carries is of its
download, and what a restart carries is not paused by the user), `Locking` (an
operation that is past its start holds `startMu`, and no two do), `Recorded` (an
operation about to start a task has its row in memory and in the store) and
`RunningHasRow`. `Locking` is what makes the rest work: a task can only appear
under `startMu`, so a row seen paused under it has none, and `persist`, which does
not take it, leaves a row paused by the user alone.

`PauseSurvives` needs `RecoverAwake` besides: `recover` works on a download that was
not paused when it took `startMu`, and nobody can pause it since. `UniqueLocator`
needs `Loaded` (a stored row is in memory, or a boot, a creation or a removal is
about to change that), `NewLocator` (the lookup of a new download found nothing,
and `startMu` keeps it so) and `StoreUnique`. Its theorem assumes that deletes do not
fail, as the run does: when one fails, the stored row stays behind a download
that is gone from memory, and a new one of the same source makes two
(`manager.go:667`).

### Flight and Catalog

| theorem | states |
|---|---|
| `OneFetchPerKey`, `ClosedIsQuiet`, `FetchIsKept` | `[]OneFetch`, `[]NothingAfterClose`, `[]FetchGoesOn` |
| `GroupSharesFetches` | `Spec => Shared!Spec` |
| `CatalogUsesGroup` | `CatalogSpec => Spec /\ Shared!Spec` |
| `CatalogOneFetch`, `CatalogClosedIsQuiet` | the group's, of the catalogue's requests |
| `DetailsKeepTheirTime` | `[]DetailsAsFetched` |
| `KeptIsServed` | `[]ServedFromCache` |
| `FetchesStopWriting` | `FetchesWriteBeforeClose`, an action property |

The group's invariant is `Kept` (a fetch is in the map until its goroutine takes it
out), `ClosersClosed` (a Close under way has set `closed`), `NothingAfterClose` and
the types. `GroupSharesFetches` takes each action of `Flight` to one of
`SharedFetch` or to a stutter: `Fetch` to `Start`; `Join` to `Join`, or to `Late` when
the answer came before; `Refuse` to `Late`; `Answer` to `Answer` and `Delete` to
`Forget`; `Return` and `Leave` to `Take` or `Leave`, by whether the answer is there;
the first `Close` to `Close` and the first to return to `CloseReturns`. That is the safety part of the run's `SharesFetches`; that fetches end
and everyone is answered rests on fairness and is checked by TLC.

`CatalogUsesGroup` shows that each step of the catalogue is one of its group or leaves
it alone, so the group's theorems hold of it without being proved again. `CInv`
adds `AskersSound` (a request is answered with an error only if it found nothing
kept), `DetailsAsFetched` and `WorkIsOut` (only a fetch that runs has work left).
From the last and `NothingAfterClose` follows `FetchesWriteBeforeClose`: what is
written after `Close` returned is the title of a `Find` under way. That nothing at
all is written then is `NoWriteAfterClose`, which is false.

### TorrentBackend

| theorem | states |
|---|---|
| `Invariant` | `[]IInv` |
| `TorrentsAreCounted` | `[]RefsCount` |
| `OpenTasksAreAsked` | `[]RunningAsked` |
| `NothingElseIsAsked` | `[]StoppedNotAsked` |

`IInv` has, for each torrent, `Counted` (the downloads that have not released it
and the readers of each file are finite sets, and the counts their cardinalities),
`EndsCounted` (an end piece is counted at least once for each wanted file that
ends in it) and `AskedFor` (the swarm is asked for just the wanted files, their
ends first). `EndsCounted` is an inequality because the code counts ends once per
reader and uncounts them once per file: equality does not hold, which is what
`NoPieceLeft` shows, and *at least* is what keeps another episode's ends asked for.
The layout of files over pieces is arbitrary and the same in each torrent.

### TorrentStorage

| theorem | states |
|---|---|
| `Invariant` | `[]IInv` |
| `RecordedIsOnDisk` | `[]RecordHasBytes` |
| `FreedIsForgotten` | `[]FreedStaysMissing` |
| `CountsFollowTheRecord` | `[]CountRight` |
| `WholeFilesAreNamed` | `[]WholeIsNamed`, where every file has a piece of its own |

`HashOK` says that what a hash has read is there, and synced once it says so, until
it is recorded; `FreeOK` that no hash is of a piece the client has heard is gone;
`LostOK` that a file about to be demoted lacks a piece no hash is about to record;
`Exact` that a count is the number of pieces missing, but between the withdrawals of
a `free` and its reset of the count. `WholeIsNamed` needs, over that, who will rename
a file that is whole and not yet named (`Named`), and that a freed file lacks a
piece, which it does when it has one of its own. The assumption is not for the
proof's sake: without it the property fails while the file is freed, and, what
matters more, after it is wanted again (`WantedIsNamed`).

### Library

| theorem | states |
|---|---|
| `StreamKeepsItsFile` | `[]StreamNotFreed` |
| `StartKeepsItsFile` | `[]StartedNotFreed`, where nobody releases |
| `DeadPickKeepsBytes` | `DeadPickKeepsOld`, an action property |

For any keep policy, limits and schedule of passes. Every removal of the library
looks under `mu` at the streams `Play` counted, so the first needs no more than
types and `StreamsOf`. The second has an invariant of its own, `FreshSettles`: a
download that was started and not yet opened (`fresh`) is there, and is played or
has not settled for at least as long (`stopped`), so a pass finds it busy. Both
ages are set by `Service.Start` in one step and fall together with each tick;
what ends a stream sets `stopped` anew, and opening one clears `fresh`. It holds from
the start on, through the handler's answer and the time until the player comes. It assumes `NoRelease` (no devices, or
none that releases): `Service.Released` looks at open streams alone, and frees what
another device has just started. That is the code, and the property fails with it.

The third has `CopiesInv`: of two downloads at most one was chosen after the other
(`Ordered`), and while a pass drops copies, each episode it takes for opened has a
copy that opened and is not among those to drop (`OpenedStays`). At the step that
chooses them `ChosenStays` gives that copy: two copies of an episode cannot
both be the last chosen, so the one that makes the episode count as opened
replaces the others and nothing replaces it. What other requests do meanwhile
only adds to what has opened. That the copy dropped is not the one its viewer has
gone back to since is `BackIsBusy`: a copy chosen again after the choice was worked
out was started or played then, and while the pass goes on nothing lets it
settle, so `busy` saves it. The property is about steps of the pass: a download
may also go while a pass drops copies because a device lets go of it
(`ReleasedFrees`), which has nothing to do with which copy was picked.

### Remote

| theorem | states |
|---|---|
| `Invariant`, `TypeCorrect` | `[]IInv`, `[]TypeOK` |
| `CodePairsOne` | `[]OneDeviceACode` |
| `ReleaseStays` | `ReleasedStays`, an action property |

`CodesOK` is what `OneDeviceACode` needs: the devices minted, and one more while a
code is open, are no more than the codes given out. It stands through restarts
of the server because a restart forgets the open code and no device.
`ReleasedStays` needs `HoldsOK` and `WireOK` (holds and requests are of devices that
paired), and looks at each way a request is handled.

### Addons

| theorem | states |
|---|---|
| `Invariant` | `[]IInv` |
| `ListIsStored` | `[]InOrder` |
| `ManifestsOwn` | `[]ManifestOfUrl` |

`Listed` (no two entries share a place, an id or a client), `Agree` (each row of the
table is what its entry would write) and `Asked` (a client that is still an entry's
is being asked that entry's address). `TableOfList` counts: a list in
order that agrees with the table has as many entries as the table has rows, and
no two rows share a place, so a boot can read them in one order only.
`Asked` is why a late answer is harmless: entries are recognised by client, not
by id, and ids may be used again.

### History

| theorem | states |
|---|---|
| `HistoryTypeCorrect` | `[]TypeOK` |
| `WhatIsStartedIsListed` | `[]StartedIsListed` |
| `PlaysKeepTheMark` | `PlaysNeverUnwatch`, an action property |
| `MarkedThroughGoesOn` | `GoesOnFromMarked`, an action property |
| `TheShelvesAgree` | `[]ShelvesAgree` |

For any titles with any finite sets of episodes, any dates and any number of
failures and stops. `IInv` adds to the types `Sound` (what a handler under way has
read belongs to what it was asked, and the episodes it is about to mark end with
the right one), `EntriesPromised` (a title with an entry is on the list, was taken out,
missed its one adding, or some handler will list it yet) and
`WritesPromised` (the same of a title that a handler is about to write without
listing it). The last is the one that makes `StartedIsListed` inductive: a handler
that found an entry lists nothing, and leans on the one that wrote the entry. A
failure or a stop of the one that owes the adding puts the title among `missed`.

`MarkedThroughGoesOn` rests on `MarkedGoesOn`: when nothing else is as new as the
marks, `latestEntry` takes the furthest of them, which is the last; `next` and
`upcoming` go on from it, the one when what follows is out and the other when not.
`TheShelvesAgree` needs no invariant but the types: `ShelvesFollow` is a fact about
the operators over any tables, shown one conjunct at a time (`PlayedIsViewed`,
`NewIsNotSeen`, `NewIsNext`, `WaitsIsComing`) after a lemma for each computation on
what it returns. The proof found that the property asked too much: Coming up and
what a series waits for name the same episode only when the dates follow the order
of the episodes (`InOrder`). With dates out of order, which a provider may send,
they name different ones, and the run's instance had none such.

### Personal

| theorem | states |
|---|---|
| `PersonalInductive`, `PersonalTypeCorrect` | `[]PersonalInv`, `[]PersonalTypeOK` |
| `AppliedAsStored` | `[]AppliedIsStored` |
| `TheLatestSearchIsFirst` | `RecordedComesFirst`, an action property |
| `ImportedTwiceIsOnce` | `[]ImportTwiceChangesNothing` |
| `CoresAgree` | `[]CoresConverge` |

For any number of cores, versions, titles and queries. `PersonalInv` has `Store` for
the tables of each core (times in the past, no two searches with one rowid), `Doc`
for each file, `Own` (a core takes every preference its own file has), `Choosing`
(what a change of a choice has read is a choice) and `AppliedIsStored`.

The searches are what is hard: an import takes the later time of each, and then
forgets all but the `Keep` newest, ties broken by rowids that the import itself
gives out. `MergedIs` says what the merge holds before anything is forgotten,
`TrimmedIs` and `KeptIsNewer` what is forgotten, and `MergedAgain` that the same
searches are left after merging again and forgetting. From it come `SearchesTwice` and
`SearchesConverge`; entries, the list and the choices are a maximum by time, and
preferences are the file's, less what the other core refuses (`PreferencesConverge`).
The two properties are about files that are `Apart` from the tables, that is, whose
times differ where their contents do. The proof found a condition missing there:
two searches in a file with the same millisecond get rowids in the order of the
file, which is the reverse of what they had, so a second import can order them
the other way round.

### Only model-checked

Liveness: `StartMuReleased`, `BackendCloses`, `WatchedGoes`, `NothingStaysForever`,
`CloseEnds`, `HoldsFollow`, `MissingArrives`, and in `SharesFetches` that fetches end
and callers are answered. They need fairness and `ENABLED`, which the prover does not
treat. Every safety invariant and every other action property that a run checks has a
theorem; three of them assume something the section of their module names
(`OneRowPerSource`, `WholeFilesAreNamed`, `StartKeepsItsFile`).

## Not modelled

SQL, HTTP and JSON, the add-on protocol (`stremio`), parsing of release names and
playlists, formats and hashes of subtitles, certificates, proofs and tokens,
updates: conversions and I/O their tests reach. `local` keeps nothing between two
requests, and the downloads it opens are `Acquire`'s. `artwork` is a cache of
files behind a group of `Flight`; `subtitles` fetches again what it does not
find; neither decides anything from what it read before. `cmd/lumeo` is the order
in which the others are made and closed. The desktop client is a client of the
API, in another language.

Within the modelled parts: I/O errors of `storage.go`, the directories
`removeData` deletes, rates and durations, the disk's free room, the merge of
external ids and the relevance of search results, the rule of each preference,
several links at once. `PROJECT.json` lists every component with what is left
out of it.

## Plan

What a next step would add:

1. the data lock of `cmd/lumeo` and the order of its shutdown over `Catalog`,
   `Acquire` and `TorrentBackend`, whose own `Close` are modelled;
2. `Sources` of the API: answers of several add-ons merged as they arrive;
3. `artwork`'s evictions, listed among the hazards;
4. the desktop client's choice of what to play next, against `History`'s.
