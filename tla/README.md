# Stremio Torrent Bridge: models, checks and proofs

The bridge is one Go process. It re-publishes Stremio addons under its own URLs, turns the torrents in
their streams into HTTP streams of a torrent engine (TorrServer, rqbit or qBittorrent), keeps the engine's
disk use within limits, and, where an addon refuses the server's address, has a page of its web interface
fetch for it. This directory holds TLA+ modules of the parts that keep state and run concurrently,
TLC configurations for small instances, and proofs for TLAPS. Paths below are relative to the repository.

Conventions: a module names definitions after the functions and fields they model. An operator called
`X_Something` with a comment that starts "Variant:" is a deliberately wrong form of `X`, not used by any
specification: put in the place of `X`, it makes the property it was written for fail, which shows that the
property can fail. `ghost` marks variables that record history and that no guard reads.

## 1. Inventory

| Part | State | Operations | Interacts with |
|---|---|---|---|
| Relay server (`internal/relay/relay.go`) | queue `pending`, answer `channels`, `nextID`, `lastPoll` | `Fetch`, `HandlePending` (long poll), `HandleResponse`, `dequeue`, `Connected` | called by the wrapper; polled by pages |
| Relay page (`internal/ui/static/app.js` 79-231) | `relayActive`, `relayAbortController`, the loops that poll, requests being fetched | `checkRelayNeeded`, `startRelay`, `stopRelay`, `relayPollLoop`, `processRelayRequest` | HTTP to the relay server and the API |
| Cache manager (`internal/cache/manager.go`) | `accessLog`, its file | `RecordAccess`, `syncWithEngine`, `RunCleanup`, `save`/`load` | engine calls without the lock; called by proxy, API and its own loop |
| Stream proxy (`internal/proxy/stream.go`) | none of its own | `HandleStream`: `StreamFile`, background `RecordAccess`, body handed to fasthttp | engine, cache manager |
| qBittorrent adapter (`internal/engine/qbittorrent.go`) | `magnets`, login | `PreloadTorrent`, `StreamFile` (add or resume, sweep, waits), `pieceAwareReader`, `removeOtherTorrents`, `RemoveTorrent`, `parseRangeHeader` | qBittorrent's API and files |
| rqbit adapter (`internal/engine/rqbit.go`) | `hashToID`, `idToHash` | `AddTorrent`, `StreamFile`, `GetTorrent`, `RemoveTorrent`, `ListTorrents` | rqbit's API |
| TorrServer adapter (`internal/engine/torrserver.go`) | none | one request per method | TorrServer's API |
| Addon store (`internal/addon/store.go`) | `addons`, `addons.json` | `Add`, `Remove`, `Get`, `List`, `UpdateName`, `UpdateFetchMethod`, `save`/`load` | API handlers, wrapper |
| Wrapper (`internal/addon/wrapper.go`) | `manifestCache` | `HandleManifest`, `HandleStream` (rewrites, preloads), `fetchForAddon` | store, relay, engine |
| API (`internal/api/handlers.go`) | shares `Config` unlocked | addons, configuration, cache, torrents, health | all of the above |
| Start (`cmd/bridge/main.go`), configuration | `Config` | load, wire, serve, shut down | all |

What is hard about them, and what makes each correct:

* **Relay.** Calls, polls and answers are goroutines of the server and of browsers that may vanish at any
  step. Correct means: a request goes to one page at most, an answer reaches the call it belongs to and no
  other, each call ends, a request with a live caller is not lost in the queue, and a page that is gone is noticed.
* **Relay page.** The page learns the fetch methods by asking, in checks that may overlap, and starts and stops
  a loop that may be waiting, fetching or sleeping. Correct means: it relays when an addon needs it and not
  otherwise, with one loop, and a request that is to go through it is taken.
* **Cache manager.** Decisions are taken under a lock and carried out without it, against an engine and limits that
  change meanwhile. Correct means: the selection is least-recently-used and minimal, the log follows
  the engine, and the disk use comes to fit. Saves are not kept apart; the file is correct when it has
  every access after the last save, and a restart does not make a torrent look older than it is.
* **qBittorrent adapter.** Several responses share one torrent, each stream has all others removed in the
  background, and reads wait on a download somebody else may pause or delete. Correct means: the body is
  the range asked for, made of downloaded bytes; start-up ends; one torrent stays; nobody's torrent is taken away.
* **rqbit adapter.** A map between hashes and numbers, read and written around requests. Correct means: a
  number names the torrent it was looked up for.
* **Addon store.** A map and a file, a save that may fail and a process that may die in it, and pointers that
  escape from the lock. Correct means: what was acknowledged stands.

`PROJECT.json` lists the hazards at their lines, each with the properties that are about it.

## 2. Modules

| Module | Models |
|---|---|
| `FetchService` | what `Server.Fetch` promises: every call ends once, with an answer for its URL or an error |
| `Relay` | the relay server and the pages that serve it |
| `RelayProofs` | proofs about `Relay`: its invariants, what its steps never do, and that it implements `FetchService` |
| `FetchPath` | the settings that choose how addons are fetched, the page's checks and polling loops, and the requests that wait for them |
| `FetchPathProofs` | proofs about `FetchPath` |
| `CacheManager` | access log, sync, cleanups, limits, and an engine that changes |
| `CacheManagerProofs` | proofs about `CacheManager` |
| `CacheFile` | the file of the access log: saves that overlap, fail and are cut off, and loading it |
| `CacheFileProofs` | proofs about `CacheFile` |
| `RangeHeader` | `parseRangeHeader` on `int64` |
| `PieceReader` | one response: range, waits, reads, close |
| `PieceReaderProofs` | proofs about `RangeHeader` and `PieceReader` |
| `QbitEngine` | all requests of the qBittorrent adapter and their background removals |
| `QbitEngineProofs` | proofs about `QbitEngine` |
| `RqbitMapping` | the hash-to-number map of the rqbit adapter |
| `RqbitMappingProofs` | proofs about `RqbitMapping` |
| `AddonStore` | store, file and the requests that change them |
| `AddonStoreProofs` | proofs about `AddonStore` |
| `MC*` | constants and symmetry sets for TLC |

**Relay.** `pending` is a set of entries with their place of arrival; each `Fetch` (`caller`), each
`HandlePending` (`handler`) and each request in a page (`jobs`) has its program point. A step ends where the
code takes or releases `Server.mu`, draws a number, waits or touches a channel: `FetchBegin` draws the number,
`FetchEnqueue` takes the lock, `FetchReceive`/`FetchTimesOut`/`FetchReturn` are the select and the deferred
deletion; `PollArrive`, `PollTake`, `PollEmpty`, `PollTick` and `PollDeadline` are `HandlePending`; `PostLookup`
and `PostSend` are the two halves of `HandleResponse`, between which the call may time out. Time is counted in
ticks: `age` of a call, an entry and a poll, and `pollAge` since `lastPoll`, each up to its limit. The server is
not told that a poll's client is gone; the handler then works for no tab, and what it takes is fetched by nobody.
`Restart` keeps the pages and their jobs (marked by `epoch`) and nothing of the server.

**CacheManager.** `engine` maps hashes to sizes (0 before the metadata), `log` maps them to last access and
size. The loop is `ListTorrents`, `Reconcile`, `SelectVictims`; every cleanup is `SelectVictims`, then
`RemoveTorrent` or `RemoveFails` and `DeleteEntry` for each victim, then `CleanupReturns`. Accesses are recorded
by background goroutines (`recording`) that carry the size they read. The engine drops torrents by itself or through the API.
`config` holds the limits, which a request sets while cleanups run, under no lock: `HandleUpdateConfig` the size and, if it asks for an age that is accepted,
`UpdateMaxAge` that later; one that is refused leaves the size in force. `Wrapped` is the multiplication to bytes and nanoseconds, at a width of `Width`.

**CacheFile.** `log` maps hashes to dates. An access takes two steps, since saves read entries without the lock (`AccessBegins`,
`AccessEnds`); the goroutine it starts takes the lock for the list of pointers (`Snapshot`), follows them one by one
(`Marshal`), truncates the file (`OpenFile`) and writes it (`WriteFile`). An entry loaded from the file has no monotonic clock
reading, and one that is read while it is overwritten may combine the words of both dates: the result is long ago, far off, or of a year
`MarshalJSON` refuses. Over the text of another save the longer text leaves its tail, and such a file is `Torn`. The sync and the cleanup change the log as in
`CacheManager`, which says what they choose; here the choice is free, and one cleanup runs at a time. `Restart` ends all goroutines, which is what the end of
`main` does too: nothing waits for a save. `played` is the last access of each torrent, forgotten where a restart came before the
file was settled; `apart` says that the last save to take its snapshot had no other beside it.

**FetchPath.** `default` and `method` are the settings. A change the page makes leads to a check (`due`), others do not (`unseen`). A check
(`checks`) sends two requests, whose answers show the settings at two moments (`ConfigRead`, `AddonsRead`), and then starts
or stops the relay (`CheckDecides`). A loop is off, polling or in its back-off; `controller` is the loop an abort would
reach. `waiting` are the addons with a request in `fetchViaRelay`; the relay server in between is module `Relay`, of which a poll is kept here, and
that a request is answered or times out. The server is not told when the page gives a poll up, by stopping, being loaded again or losing the connection: its handler (`orphaned`) then
looks for requests until its deadline, and what it takes (`OrphanTakes`, `lost`) is never answered, whether or not the page polls by then. A request that nothing took
times out (`TimesOut`) only if no poll is under way at that moment: one that is looks five times a second, and the request waits for 30 s. `HandleManifest`'s answer from its cache when a fetch fails is not modelled.

**RangeHeader, PieceReader.** Positions are bytes, `Piece(pos)` is the code's division. A response is opened with
or without a header, waits for its first piece, and then reads: `ReadBegins` decides by `lastPieceOK`,
`WaitForPiece` waits and remembers the run of pieces, `Copy` returns any number of bytes up to the buffer.
Arithmetic wraps at `MaxInt` as `int64` does. Only between two reads can the response be closed. A stream is `direct` when the pieces of the files
selected at the time (`Selections`, any of those before, at and after the one asked for) are there, which need not be all pieces, nor its own. `asked` and `sent` are ghosts:
the bytes the request names, by a definition of its own (`Requested`), and those that have been served.

**QbitEngine.** A torrent is absent, running or paused, has its metadata or not, and of each of its files none, the first or both
of two parts; `sel` are the files that are to be downloaded. Every call to qBittorrent is one step, and those in `Failing` may fail. A request goes from
`StreamBegins` (which takes the magnet) through adding or resuming to the loop that waits for the metadata: an attempt is `InfoRead`, which also reads the progress,
and `FilesRead`, between which anything may happen, and one that fails is made again (`AttemptFails`) or was the last (`MetadataTimesOut`; the model makes no assumption about 60 s).
`FocusOthers` and `FocusTarget` are the two calls of `focusFile`, and the second leads to the file itself (`direct`) or, through its opening and first piece, to the reader. A sweep
(`removeOtherTorrents`) is a record of its own, with the list it read and has still to remove. Three ghosts: `played`, the files of a torrent that were ever asked for, `removed`, the
requests whose torrent was removed, and `unswept`, that a removal failed.

**RqbitMapping.** `held` and `given` are rqbit's torrents and the numbers it gave, `hashToID` the adapter's map,
`call` the calls under way, with the request they are about to make or the update of the map that follows. The hash in rqbit's answer may be that of the torrent it
numbered or, when it tells none, the one the call was made for, here and when details are read. rqbit is external: it is
taken to number torrents in the order they come, never twice, and to list them in that order.

**AddonStore.** `addons` and `file` are maps from ids to addons, `file` may be torn. A change is made, then
saved or not (`Saved`, `SaveFails`), under the lock the other requests wait for. `acked` is a ghost: what the last
completed request about an id was told. An addition is acknowledged with 201 whether the addon is new and saved or was in memory already; `unsaved`, a ghost too, are
those a failed save left there and no later save has written. Requests that hold a pointer across unlocked code remember in `gone`
whether the addon was removed meanwhile.

## 3. Runs

Passing runs:

| Run | Module | Checks | Instance |
|---|---|---|---|
| `relay_safety` | MCRelay | `TypeOK`, `HandedOutOnce`, `AnswersMatch`, `StaleHasTimedOut`, `NoSilentDrop`, `FirstAnswerWins`, and `KeepsPromise` (`FetchService!Spec`) | two calls for two URLs, one poll at a time, one page; every limit one or two ticks |
| `relay_liveness` | MCRelay | `FetchTerminates`, `DisconnectNoticed` | one call, one poll, one restart, the number used twice |
| `fetch_path` | FetchPath | `TypeOK`, `RelayFollowsSettings`, `OneLoop`, `RelayedIsTaken`, `StoppedLoopsEnd` | one addon, two changes, three restarts, reloads or failures, room for three loops |
| `cache_cleanup` | MCCacheManager | `TypeOK`, `SelectionSound`, `LogFollowsEngine`, `UsageFits` | two torrents that do not fit together, the loop and the API, one change of the size and then of the age |
| `cache_file` | MCCacheFile | `TypeOK`, `FileIsCurrent`, `DatesStand` | two torrents, saves of two accesses and a cleanup at once, two accesses or syncs, two restarts, two failing calls |
| `reader` | PieceReader | `TypeOK`, `StartsDownloaded`, `BodyIsTheRange`, `StreamEnds` | a file over three of four pieces, all headers of a 4-bit `int64`, fair download |
| `qbit` | MCQbitEngine | `TypeOK`, `OneTorrentStays`, `DirectIsDownloaded`, `ResponseEnds` | a torrent of two files and one of one, two requests; every call but those of `focusFile` may fail |
| `rqbit_safety` | RqbitMapping | `TypeOK`, `NumbersAreRight` | two torrents, three numbers, two calls at once |
| `addon_safety` | MCAddonStore | `TypeOK`, `AcksAreDurable` | two addons, two requests at once |

Why these bounds are enough to mean something: every hazard they are about needs two actors of a kind (two calls,
two polls, two cleanups, two streams, two requests of the store) or one actor twice. The limits of the relay are a
tick or two so that every order of the four timeouts occurs; `relay_liveness` gives a poll two ticks, since one that
renewed its deadline at every wake-up would not be seen with one. Two polls at once, with which
the run would not end in reasonable time, are left to the theorem `OneDelivery`, which has no such bound. The torrents of `cache_cleanup` are one more than fit, and become too old
when two others were used since; its limits are a size that holds the smaller or either, and an age that is theirs or overflows. Three saves at once
are one more than it takes to mix two. In `fetch_path` two changes and three failures are too few for a third loop at once, so that the room for three does not limit anything. `qbit` lets every call
fail but those of `focusFile`, whose failures are modelled (`"focus"` in `Failing`) and would double the states of the run; its requests are
two, which is what it takes for one to disturb the other. A file over three pieces begins inside one, ends inside one and has one in between. Three rqbit
numbers are needed for a list with a gap that two torrents can fill. The bounds named in the modules (`MaxId`, `MaxRestarts`,
`MaxStreams`, `MaxUpdates`, `MaxNow`, `MaxFaults`, `MaxChanges`, `MaxEvents`, `Loops`, `Saves`, `MaxBegins`, `MaxIDs`) limit what is started, never what goes on. The theorems below have no such
bounds except as parameters.

Runs that end in a violation, each of a sentence the repository says of itself (`PROJECT.json` quotes it):

| Run | Shows |
|---|---|
| `relay_stale_answer` | an answer from before a restart is returned by a `Fetch` for another URL |
| `qbit_paused` | the end of one response pauses a torrent another is being sent, which has yet to get the rest |
| `rqbit_wrong_torrent` | after a removal, `GetTorrent` returns the info of another torrent |

### Known limits of the code

The properties above are the strongest forms that hold. The models also have the following behaviours,
which are not errors of the models; none of them is excluded, and no property says they cannot happen
(where a property has an exception, it is one of these).

* `manager.go:250`: a victim that is played after it was selected is removed all the same; `manager.go:256`: two
  cleanups that select it both count it as removed; `manager.go:184`: the entry of a torrent added while the engine is listed is deleted (and made anew by the next sync).
* `manager.go:206`: a maximal age of more than 106751 days, or a size of 2^33 GB, overflows: cleanups then
  remove everything. (`cache_cleanup` has an age that does.) `handlers.go:292` and `config.go:125` accept such values; `config.go` accepts those that are not positive, too.
* `handlers.go:288`: an update that is refused stays in force up to the field that was wrong. Nothing of it is saved, and a restart brings the environment's values back.
* `manager.go:357`: of two saves that overlap the older may be written last, or the file be torn; it stays so until the next
  save. A torn or unreadable file is an empty log (`manager.go:59`), and the sync at the start dates everything as used just now. The sync does not
  save (`manager.go:188`): a torrent it found has a new date after every restart. `manager.go:352` reads entries that accesses write to; a date made
  of two survives only if the bridge is restarted before the save of that access.
* `app.js:194`: a relay stopped and started while its loop sits in the back-off has two loops from then on. `app.js:106`: of two
  checks the one that read the settings first may act last. `app.js:545`, `app.js:571`: adding or removing an addon is followed by no
  check, although the page says the relay starts automatically; changes made in another page, and a restart that undoes a change of the default method,
  are not noticed until the page is loaded again.
* `relay.go:124`: the poll of a page that is gone refreshes `lastPoll` until its deadline, so `Connected` is late; and it takes requests. A page that was loaded
  again, or whose relay was stopped and started, within those 25 s may poll and yet see a request time out, because the poll it gave up took it.
* `qbittorrent.go:713`: a `Read` longer than what is left of its piece copies bytes of a next piece nobody has
  checked. `qbittorrent.go:703`: where a file ends with a piece, the read that would find the end first waits for a piece of the next file.
* `qbittorrent.go:325`: `progress` is of the files that were selected before, so another file of the torrent may be served as if
  it were complete: what `DirectIsDownloaded` says holds where no other file of the torrent was ever played. `qbittorrent.go:796`: the file of a second player takes that of the first out of the download, whose reader then waits.
* `qbittorrent.go:831`: a sweep removes a torrent another request is streaming. `qbittorrent.go:259`: adding a
  torrent that is there and paused, because a second list of streams preloaded its magnet, does not resume it, although `qbittorrent.go:757` says that `StreamFile` does "if the user plays again".
  `qbittorrent.go:255`: the magnet is gone when the call that adds it fails, and the next attempt finds no torrent.
  `qbittorrent.go:897`: a suffix length with a sign of its own that overflows gets the whole file.
  `stream.go:96`: `StreamFile` and the reader have a context without end, so a response that waits for a piece of a paused or removed torrent stays, with or without a player.
* `rqbit.go:110`: a hash mapped to the number of a torrent rqbit lost is not sent again.
* `store.go:64`, `store.go:107`: a change whose save failed stays in memory. The same registration made again is then
  answered with 201 without a save (`store.go:50`), and a restart may lose it; a second removal is answered as not found, although the file still has the addon. `store.go:208`: a crash in a save leaves a file that `load` refuses.

## 4. Fairness

* `Relay`: time passes; a goroutine that can run does (weak fairness of each call and of each poll that has
  arrived or been woken). `PollDeadline` is strongly fair: the deadline and the ticker are ready together again and again, and
  Go's `select` chooses among ready channels at random. Nothing is assumed of pages, browsers or networks.
* `FetchPath`: the page's timers fire, what it asks is answered, and its back-offs end. `StoppedLoopsEnd` needs no more.
* `CacheManager`: the loop's steps, each goroutine of `RecordAccess` and each cleanup that has begun are weakly
  fair. A removal is strongly fair: the engine may refuse it any number of times, not for ever. The API never has to ask for a cleanup, nor to change a limit.
* `PieceReader`: the pieces of the file are downloaded, and the writer of the response goes on reading.
* `QbitEngine`: requests and sweeps go on, responses are written, and qBittorrent downloads what is selected and not paused.
  `ResponseEnds` says that with all that granted a response only waits for ever for a piece of a torrent that is paused or gone or of a file that is not selected, whoever made it so, and that before the wait for
  its first piece `StreamFile` is never stuck. For that, attempts to get the metadata that go on failing come to the deadline, which is looked at after each of them: `MetadataTimesOut` is weakly fair by itself.

## 5. Proofs

All proofs are checked to the last leaf by tlapm with Z3, Zenon and LS4. They hold for every value of the
constants that meets the modules' `ASSUME`s.

* **RelayProofs.** `TypeCorrect`, `OneDelivery` (`HandedOutOnce`), `Correlation` (`AnswersMatch`) and
  `StaleIsSafe` (`StaleHasTimedOut`). The properties are not inductive: that an answer finds the right
  call rests on numbers being in one place at a time. `IInv` adds that open calls have distinct numbers already drawn
  (`Numbers`, `Distinct`), that queue entries and this run's jobs belong to the call with their number or to none that is open (`QueueOwned`,
  `JobsOwned`), and that an entry is never older than its waiting call (`ClocksAgree`). Assumed of the
  constants: `FetchTimeout <= StaleAge`; the code has 30 s (wrapper.go:402) and 60 s (relay.go:204).
  `FirstAnswer` (`FirstAnswerWins`) and `NothingLost` (`NoSilentDrop`) say what no step does; the second
  rests on `StaleIsSafe`. `Refinement` (`KeepsPromise`) is for `MaxRestarts = 0`: every step is a step of `FetchService` or
  none. It needs `AnswersMatch` and `Settled`: all answers are of this run, and a call that is not over has taken none.
  With a restart it does not hold, which is what `relay_stale_answer` shows.
* **FetchPathProofs.** `TypeCorrect`, `SingleLoop` (`OneLoop`), `RelayIsRight` (`RelayFollowsSettings`) and `RelayedTaken`
  (`RelayedIsTaken`). `LoopsInv` is exact about the page: one that relays has one loop, which the
  controller reaches while it polls, and one that does not has none, unless it has been stopped in a back-off. That the page follows the settings is
  true only at rest; what holds on the way (`Follows`) is a disjunction that each change of a setting takes from one side to the other. Once no check is due, either
  the check started last has read nothing but the present settings and has not been overtaken (`LastIsCurrent`), or it has had its effect, all that are left
  were marked as overtaken, and the page is right unless one of those was late (`LastIsDone`). `RelayedIsTaken` is an action property: the page that does not fetch for a waiting
  request would have to be settled, active and without a loop in its back-off, and then has a loop that polls (`ActiveHasLoop`), while a request that met no poll times out only when none is under way.
  What is left are the requests an abandoned poll took. `RequestsAlone` says that the steps of requests leave the page and its checks alone.
* **CacheManagerProofs.** `TypeCorrect`, and `CleanupIsSound` (`SelectionSound`), for limits that fit an `int64`. What a cleanup selects is a list the code makes
  by sorting and dropping; `SelectedProperties` says what such a list has: the expired entries, then the first `n` of the others, and keeps
  what comes after. Sorting in the code is not stable and compares with `Before`, so the order among equal times is anyone's; that
  no two entries have the same time (`TimesDiffer`) is what makes the selection least-recently-used, and it is the part of `IInv` that has to be inductive: `time.Now` advances
  with every access, and a sync dates each torrent it finds at a time of its own. The prover knows nothing of sums over sets; the only fact about `Bytes` that is needed is that
  nothing takes no bytes (`BytesOfNone`), for a log that was dropped to the end.
* **CacheFileProofs.** `TypeCorrect`, `FileCurrent` (`FileIsCurrent`) and `DatesRight` (`DatesStand`). What is to be
  preserved is the truth of a half-finished save: `AloneIsCurrent` says that a save with none beside it is the only one, that the file it has
  opened is empty, and that while no access is in progress what it has read, with the entries it has still to read, already says
  what `FileIsCurrent` wants of the file. An access in progress ends by starting a save, so that the file is not settled then. An entry that leaves the
  log is read by the saves that point to it (`OrphansAreRead`, `AloneWhenEntriesLeave`). `CleanerWaits` and `WriterIsNow` add that the
  cleaner saves after its last removal only, and that the entry being written is not dated ahead.
* **PieceReaderProofs.** `RangeInBounds` and `RangeExact`, by cases on the form of the header, for every `MaxInt` and size; `TypeCorrect`,
  `ReadsStartDownloaded` (`StartsDownloaded`) and `ServesTheRange` (`BodyIsTheRange`). The invariant adds that the pieces from
  the reader's last check up to `lastPieceOK` are there; pieces are never lost, and a position moves
  through pieces in order (`PieceMonotone`). `BodyIsTheRange` is inductive once a range that was accepted is what the header names (`RangeExact`): what has been
  served and what is left are that range, and a `Copy` moves bytes from the one to the other.
* **QbitEngineProofs.** `TypeCorrect`, `SweepsLeaveOne` (`OneTorrentStays`) and `DirectIsWhole` (`DirectIsDownloaded`). The invariant has parts that look at different things.
  `SweepsCounted` counts: every removal under way and every one to come is of a request of its own, so there is a number for each (`FreeNumber` is the pigeonhole argument). `Surplus` is what
  `OneTorrentStays` becomes while removals are under way: of any two torrents, some removal has one on its list or has yet to read the list; it holds because a request adds or resumes its torrent before its
  removal reads the list, and `UnlistedIsEmpty` keeps lists from being used before they are read. `OnlyIsSelected` is why progress can be trusted where `DirectIsDownloaded` trusts it: a file that
  is the only one of its torrent ever asked for (`PlayedOK` ties requests to what was asked for) is always selected, since both calls of `focusFile` leave it so and a torrent that is added again starts with all files.
  `WholeIsDownloaded` then extends `DirectIsDownloaded` back to the moment `StreamFile` read a progress of 1; parts are lost only by a removal, which marks the request in `removed`.
* **RqbitMappingProofs.** `TypeCorrect` and `RightTorrent` (`NumbersAreRight`). The invariant adds the same of the map, of answers not yet
  written to it and of lists not yet taken over, and that numbers not yet given belong to nothing.
  It says exactly where the adapter goes wrong: by reading a list with a gap, and not otherwise.
* **AddonStoreProofs.** `TypeCorrect` and `Durability` (`AcksAreDurable`). The invariant adds that one request at a time is inside
  the lock, with its change in memory (`LockHolds`), and that a pointer whose addon was not removed leads
  to a registered one (`PointersHold`), and that what is in memory and not in a file that can be read is on its way there or is in `unsaved` (`FileHolds`). `IdOf` is any function: ids may collide.

Each inductive invariant was checked by TLC on the instance of its module's run before it was proved. With these, every invariant, every action property and
the refinement that a passing run checks is also a theorem. `MaxId`, which bounds the numbers of
calls, is any number in `RelayProofs`; the code's `nextID` is a `uint64`, and is taken never to come round.

Only model-checked: what needs the fairness of section 4 (`FetchTerminates`, `DisconnectNoticed`, `StoppedLoopsEnd`, `LogFollowsEngine`, `UsageFits`, `StreamEnds` and
`ResponseEnds`), since the prover has no rule for liveness under fairness; and of course the violations of section 3, which are runs of small instances.

## 6. Not modelled

* TorrServer's adapter, which keeps no state: each method is one request, and what it returns is TorrServer's answer.
* HTTP routing, headers, CORS, logging, the rendering of the web interface; the health, statistics and status endpoints, which only read.
* Rewriting of manifests and streams, the cache of manifests, and how names, sizes and MIME types are derived. A removed addon answers 404 before the
  cache is looked at, and an addon added again has the same id only if it has the same URL.
* `AddTorrent` of the qBittorrent adapter, which has no caller, and its login.
* Torrents removed and added again under an open file: a reader then has the descriptor of a deleted file.
* Memory-level data races on strings (`addon.Name` in HandleManifest, `Config.DefaultFetchMethod`) beyond the
  order of reads and writes that `AddonStore` and `FetchPath` give them.

Assumed of the libraries: the strings a Fiber handler is given stay what they are after it has returned. `stream.go:109` keeps one as a key
of the access log, and `wrapper.go:144` one as a key of the manifest cache; Fiber 1 takes them from the request's buffer unless it is set up as immutable.

## 7. Order of the work

The modules were written in this order, the most important behaviour first: `FetchService`, `Relay` and its proofs; `CacheManager`; `RangeHeader`, `PieceReader` and
their proofs; `AddonStore` and its proofs; `RqbitMapping` and its proofs; `QbitEngine`, with several files per torrent; `FetchPath`; `CacheFile`; the limits in `CacheManager`;
the proofs of `CacheFile`, `FetchPath`, `QbitEngine` and `CacheManager`.

Two things stay out of reach of the prover: the safety part of `UsageFits` is about sums over sets of entries, which could only be related by induction, and the liveness properties
need their fairness. `CacheManager` and `CacheFile` are two views of one log, tied by reading and not by a proof.
