# Verification of deeplink in TLA+

deeplink is a self-hosted short-link service written in Go: a library
(`deeplink`), three stores, an MCP server and a command that puts them together.
This directory holds TLA+ modules translated from its source, the TLC
configurations that check them on small instances, and proofs, checked by
TLAPS, of theorems about them for all instances. Paths below are relative to
the root of the repository.

## 1. The system

| Part | Source | State it keeps | Operations |
|---|---|---|---|
| Click tracker | `click.go` | bounded channel `events`, channel `done`, a ticker, the worker's `batch` | `track`, `run`, `flush`, `stop` |
| Memory store | `memory_store.go` | maps `links`, `clicks`, `stats`, `deletedAt` under one mutex | `Save`, `Get`, `Delete`, `List`, `IncrClickBy`, `RecordEvents`, `Stats` |
| Redis store | `redisstore/redis.go` | three keys per link, each with a time to live | the same, several commands each |
| SQLite store | `sqlitestore/sqlite.go` | tables `links`, `click_events` | the same, several statements each |
| Service and HTTP handlers | `server.go`, `link.go`, `url.go` | none of their own; a request holds a copy of a link between store calls | create, PATCH, DELETE, resolve, read, list |
| Registry | `registry.go` | processors by type | `Register`, `Get`, `Types` |
| Process | `cmd/deeplink/main.go`, `service.go` | where `run` is; deferred calls | open the store, build the service, serve, shut down, close the service, close the store |
| MCP server | `mcpserver/server.go` | none | one service call per tool; `delete_link` and `list_links` differ from the HTTP handlers |
| Redirects, previews, user agents, configuration | `redirect.go`, `preview.go`, `useragent.go`, `config.go`, `errors.go`, `templates/`, `example/` | none that changes | pure functions and rendering |

How they interact. A request handler (a goroutine per request) makes a handful
of store calls with nothing held between them. A resolved link puts an event
into the tracker's channel and goes on, whether or not there was room; the
tracker's one worker takes events from there and writes them to the store, long
after the request was answered. The stores purge on access (memory, SQLite) or
by times to live (Redis). On a signal `run` stops the server, then the tracker,
then the store.

What is hard about it, and what makes each part correct:

* *Tracker* (concurrency, partial failure, termination). No click may be counted
  twice, whichever store calls of a flush fail; `stop` must hand over
  everything accepted before it and must return; nothing may be lost inside.
* *Stores* (two records of one fact, rounding of times, commands of two requests
  interleaved). What hides a deleted link and what decides its purge must agree;
  a link must not leave early, and a deleted one must leave; counters must
  survive a re-save.
* *Handlers* (read, then write, with anything in between). A PATCH must not undo a
  DELETE or another PATCH; a created link must be reachable and alone.
* *Listing* (links come and go between pages). No more links skipped than have
  gone, none twice for want of an arrival, and an end.
* *Process* (order of deferred calls, a deadline, a start that fails half way, a
  kill). The store is closed after the last flush; a signal ends the process even
  if a handler hangs; a restart counts nothing again.

`PROJECT.json` lists these hazards one by one, with the line at which each bites
and the properties aimed at it.

## 2. The modules

```
ClickLedger    <=implements=  ClickTracker  <=extends=  Shutdown
ClickFlushes   <=implements=  ClickTracker, LinkService (its counters)
LinkLifecycle  <=implements=  LinkService (each link), RedisStore, SqliteStore
MemoryStore    <=extends=     LinkService
LinkListing                   over all three stores

ClickTrackerProofs  <=extends=  ShutdownProofs
LinkServiceProofs   <=extends=  LinkUpdateProofs
SqliteStoreProofs, RedisStoreProofs, LinkListingProofs
MC*                           instances for TLC
```

**ClickTracker** (`click.go`). One action per step of the worker: the cases of
`run`'s `select` (`Receive`, `TakeTick`, `SeeDone`), the drain loop (`Receive`,
`DrainEmpty`), and the store calls of `flush` (`IncrClickBy(l)`, one per link in
any order, as Go walks a map, and `RecordEvents`). `track`, `CloseDone`,
`WaitReturns` and `Tick` run beside it. With `StoreFaults`, a call may take
effect wholly, in part or not at all. `todo` holds the links `flush` has yet to
count and `final` says that the worker exits after this flush. `accepted`,
`dropped` and `beforeClose` are history and guard nothing but that an event is
tracked once.

**ClickLedger** is what counting promises without buffer, batch and worker: an
event is dropped or accepted, an accepted one is settled once, together with
others of its link, and a total grows by exactly the events being settled, or
not at all when the store refuses. `ClickTracker` implements it by `FateOf`.

**ClickFlushes** is the tracker as the store sees it, with numbers of clicks per link
for events: clicks wait, a flush takes some, counts each link it took a click of once,
records them, and only then does the next one begin. It joins two modules.
`ClickTracker` implements it by counting events per link (`Unflushed`, `InFlush`,
`InBreakdowns`), channel, ticker, worker and `stop` being invisible; and the counters in
`LinkService`, among requests and purges, change by its steps only (`FollowsFlushes`,
with purges as `Forget`). So the tracker that `LinkService` works with is not a guess.

**MemoryStore** (`memory_store.go`). Every method holds the mutex from beginning to
end, so each is one operator on the four maps, the eviction it does on the way
included. Time runs in ticks, `SecondLen` to the second, because the code compares
times exactly and writes them down in whole seconds (`Stamp`).

**LinkService** (`server.go`, `link.go`, `url.go` and the tool `delete_link`, over the
memory store). A handler is split where it leaves the store's mutex: `shortenURL` /
`saveCreated` for create, `updateRead` / `updateSave` for PATCH, `startFlush` /
`flushClicks` / `flushEvents` for a flush. `handleDelete`, `deleteLink` (the MCP
tool, which no skip path filters), `handlePreview` (resolve), `getLink` and `list`
make one store call. A patch maps the fields it names to values (`linkPatch`), and
`applyTo` sets them on the copy that `Get` returned, which is then saved whole.
A create may come with a `deleted_at` in its body (`BodyDeletedAt`): `handleGenerate`
decodes the body into the whole `Link`, and nothing clears that field before `Save`. Its
value, `Given`, is no time, since the code asks of it only whether it is empty. The same
input is in `RedisStore` and `SqliteStore`.
`inflight` is what a handler holds between its calls. `overtaken` and `outdated` are
history: PATCHes whose link a deletion marked, or another PATCH saved, after they
read it. The service's tracker is abstracted to what it does to the store
(`ClickFlushes`): clicks wait (`tracked`), a flush takes some of them (`batch`); the
tracker's own steps are in `ClickTracker`. A click that a full tracker drops is a `getLink`.

**LinkLifecycle** is what a store promises about one link (`store.go`, `model.go`):
it appears, is rewritten, its expiry never moves, and it leaves only past its
expiry or at the end of the grace window its deletion opened. A link that was created
as deleted has no such window: nothing writes to it again, and it leaves past its
expiry only. `Bury` admits the one exception the Redis commands make: a DELETE may write its mark after the link
expired, and what it leaves is hidden and on its way out. `RedisStore` and
`SqliteStore`, which model one link, implement it; of `LinkService`, every link
does, whatever happens to the others (`Lifecycle(i)`).

**RedisStore** (`redisstore/redis.go`). The three keys of one link, each a value and
the time it lives until. The server runs one command at a time and those of
several clients interleave: `Save` is `SaveSet`, `SideClicks`, `SideStats`, and
`Delete` is `GetForDelete`, `DeleteSet`, `SideClicks`, `SideStats`. Any command may
fail. After a failed SET `Save` gives up, though the server may have run it all the same
(`SaveGivesUp`), and what happens to the side keys it ignores (`SideKeyFails`). Of
`Delete`'s pipeline, sent as a whole, the server runs what comes after a command it
refuses (`DeleteSetRefused`, `SideKeyFails`) unless the connection breaks
(`PipelineBreaks`). Of a flush's calls nothing, all or a part may take effect.
`Crash` kills the process and starts it again: the requests and the clicks in its
memory are gone, the keys are as the last command left them. `SET`, `EXPIRE`,
`PERSIST`, `INCRBY` are what Redis and go-redis do with them (external), including
that `EXPIRE` is sent in whole seconds. `disturbed` is history: did a PATCH
and a DELETE ever overlap, or the EXPIREs of a DELETE follow a SET that was refused?

**SqliteStore** (`sqlitestore/sqlite.go`). The row of one link and its rows of
events. A statement, or `RecordEvents`' transaction, is one action; `Get` is its
SELECT and, if the link is due, the two DELETEs of `purge`, whose errors it
ignores. `Delete` is its `Get` and its UPDATE. `Crash` as above, the tables being
as the last statement left them.

**LinkListing** (`server.go`, `link.go`, `mcpserver/server.go`, `List` of the three
stores, `registry.go`). Three requests list: `handleLinkList` of one type,
`handleLinkListAll` of all up to `ListCap`, and the tool `list_links` of one or all
with a limit. All end in the loop of `listLinksByType` over pages. What a page and a
cursor are depends on the store: an offset into the links that are listable now,
in memory (`MemoryPage`) and in SQLite (`SqlitePage`, where a full page always
announces another one), and the cursor of a SCAN in Redis, which returns keys of
any links, perhaps again or none at all (`SCAN`), whose payloads are read in a
second round trip (`GetPayloads`). Between two calls links are created, disappear
and return.

**Shutdown** (`cmd/deeplink/main.go`, `service.go`) extends `ClickTracker` with the
requests, each the click of one event, and with `run` from start to exit:
`buildStore` and `New`, either of which may fail; a request's `Arrive`, `expandURL`
(its store call, which finds a link if the store answers, and finds none or fails
at any time) and `Respond` (which tracks the click); `Signal`, `ServeFails`,
`ShutdownReturns`, `ShutdownTimesOut`; the deferred `CloseService` and `CloseStore`,
and `Exit`. `Kill` ends the process anywhere while it serves or stops, and
`Restart` starts it again over what the chosen `backend` keeps: nothing of a memory
store, everything of the others, of a Redis pipeline cut off perhaps a part. `storeOpen`
says whether there is a store that `closeStore` has yet to close; that of a memory store
does nothing, so a memory store answers to the end. `lost`
and `torn` are history: events that went with a process, and events that a flush had
counted and not recorded when it was killed. `Background` is the worker and its ticker.

## 3. The runs

Bounds are CONSTANTs in the configurations. `BufSize`, `Grace`, `PageSize`, `ListCap`
and `DefaultLimit` are the code's own, made small; `MaxTime`, `MaxClicks`, `MaxStarts`
and the sizes of the sets are the model's.

| Run | Instance | Shows |
|---|---|---|
| `tracker_faults` | four events, three of them about one link, channel of two, calls that fail in part | no click is counted twice (`AtMostOnce`), `stop` drains (`DrainedWhenStopped`), every step is one of the ledger's (`ImplementsLedger`), the store sees whole flushes (`ImplementsFlushes`) |
| `tracker_live` | the same without failures, with fairness | counters and breakdowns are exact (`ExactWithoutFaults`), every event accepted before the close reaches the store (`EventuallySettled`), `stop` returns (`StopReturns`) |
| `service_core` | two IDs and one that a skip path hides, one field of two values, two requests in flight, a `deleted_at` in the body of a create or none, grace window and second of two ticks, an expiry of 3 or none, `MaxTime` 3, one click | the two records of a deletion agree (`DeletionRecordsAgree`), a created link is alone and not hidden (`Reachable`), none leaves early (`NoEarlyPurge`), a deleted link comes back only by a PATCH that a DELETE overtook (`BackOnlyByStalePatch`), a field a PATCH does not name changes only if another PATCH overtook it (`OmittedFieldsKept`), clicks and expiry stay (`KeepsClicksAndExpiry`), nothing is overcounted (`CountersBounded`), each link lives as `LinkLifecycle` says (`ImplementsLifecycle`), counters change by whole flushes and purges (`FollowsFlushes`) |
| `redis_races` | two clients, commands that fail, kills; grace window of four ticks, second of two, `MaxTime` 6, one click | a link that a DELETE marked is always on its way out (`DeletedIsTemporary`); whatever fails, counters do not vanish before the link unless a PATCH overlaps a DELETE or the SET of a DELETE is refused (`CountersKept`; side keys may go in the last second before an expiry); the link's key implements `LinkLifecycle` |
| `sqlite_races` | three requests, statements that fail, kills; grace window of four, second of two, `Patience` 1, `MaxTime` 8, two clicks | columns and payload agree, but for a link created as deleted, of which the column says nothing (`ColumnsAgree`), clicks stay (`ClicksKept`), no purge prunes the events of a link that stays (`EventsKept`), the row implements `LinkLifecycle` |
| `listing_pages` | three IDs, two types, pages of two, a cap of three, a limit of one, all three stores | a listing skips at most as many links as went, and none over Redis (`NoneSkipped`); it repeats at most as many as came, but for Redis (`NoneTwice`); all it returns was there (`OnlyListable`); a page ends the request or its type, or moves the offset on within the links there are (`PagesMoveOn`); it ends (`ListingEnds`) |
| `shutdown_exit` | three requests, channel of two, two starts, all three stores | a flush finds the store open and no way out of `run` leaves it open (`StoreLifetime`), what is lost by a stop is bounded (`LossIsBounded`), counters are exact over kills and restarts (`ExactAcrossRestarts`), breakdowns drift only by a kill inside a flush (`DriftOnlyByKill`), a signal ends the process (`SignalEndsProcess`) |

The largest of these have about 330,000 (`service_core`), 785,000 (`redis_races`),
115,000 (`sqlite_races`), 460,000 (`listing_pages`) and 230,000 (`shutdown_exit`)
distinct states.

Why the bounds are enough for the cases to happen.

* Tracker: four events overflow a channel of two, a batch holds two events of one
  link beside one of another, and a flush begins while the channel is full.
* Service: three ticks with a window and a second of two let a link be deleted, its
  window run out and be purged, a link expire, and a time stamp be rounded. Two
  requests are all that a race between a PATCH and a create, between two PATCHes, or
  between a PATCH and a DELETE needs. One click is enough to wait in the tracker over
  a purge.
* Redis: `CountersKept` needs a window of more than a second, so that the last second
  before an expiry is not all of it; two clients overlap in every pair of operations.
* SQLite: the clock runs past two grace windows; three requests let a PATCH, a DELETE
  and a `Get` that purges overlap. `Patience` and the rounding of a second fit into
  the window with nothing to spare, so the refinement is tried at its limit.
* Listing: two links are a full page, the third is the next one, and with the types
  between them the cap is reached in the middle of a page; a limit of one ends the
  first page.
* Process: two starts let a kill, in every phase of a flush, be followed by a run that
  stops gracefully.

Deadlock is not checked where the system really stops: the event supply, the clock or
the process ends. The listing never stops, and deadlock is checked there.

Each remaining run checks one sentence of a comment, a doc or a test and finds an
execution of the code against it:

| Run | What the code does |
|---|---|
| `service_deleted` | A PATCH that read a link before a DELETE brings it back: "It stops resolving at once and is purged" (`mcpserver/server.go`) |
| `redis_resurrect` | A PATCH between the commands of a DELETE leaves a permanent link whose counters expire after the grace period ("in lock-step", `redis.go`) |
| `redis_ttl` | Side keys created after `Save` have no time to live ("All three keys share the link's TTL", `redis.go`) |
| `redis_expired` | A link saved after its expiry is kept for ever and resolves ("Once past, the link resolves as not found", `model.go`) |
| `listing_spelling` | A link created with type `EVENT` is in no listing of all types ("across all registered types", `server.go`) |

Other behaviour of the code that a reader of these modules should know, and that
they contain:

* Of two PATCHes that both read before either saves, the later one writes back the
  old values of the fields it omits. `OmittedFieldsKept` says that this is the only
  way a field changes that no PATCH named.
* An expiry less than a second ahead is accepted and stored as one that has passed
  (`Stamp` in `shortenURL`). Over Redis such a link is then permanent (`redis_expired`).
* A flush after the eviction of a link recreates its counters in the memory store
  (`flushClicks`); nothing removes them again, since no ID is used twice.
* A POST whose body has a `deleted_at` stores a link that is hidden from the start
  (`BodyDeletedAt`), although "Soft-deleted links are hidden from list and preview; the
  underlying record is purged after [DeleteGracePeriod] elapses" (`model.go`). No store
  knows of that deletion. In memory there is no `deletedAt` entry, so only the link's
  expiry ever removes it. SQLite sets the column to NULL, so its `List` shows a link
  that resolve and `Get` hide, and nothing but the expiry purges it. Redis gives it the
  time to live of any new link, and none if it has no expiry. `DeletionRecordsAgree`,
  `ColumnsAgree`, `DeletedIsTemporary` and `LinkLifecycle` say this of it, and that no
  PATCH or DELETE ever writes to such a link.
* If Redis refuses the SET of a DELETE and runs the EXPIREs after it, the caller is told
  of the error and the link stays, but its counters are gone after the grace period
  (`DeleteSetRefused`; why `CountersKept` excludes it).
* Two DELETEs over SQLite that both read the link first both succeed (`Mark`).
* A link that goes between two pages moves the later ones forward under an offset
  that stays, so the next page skips one: why `NoneSkipped` counts departures. A SCAN
  skips none, but may return a link twice.
* `delete_link` deletes a link whose ID a skip path hides, `DELETE` does not (and
  create never makes one).
* A handler that Shutdown gave up on may find the store closed, or track a click
  after the tracker's last flush; that click is lost (`LossIsBounded`).

### Fairness

* Tracker: weak fairness of `Tick` (a running ticker), of each of the worker's
  steps (Go's `select` picks among ready cases at random, so one that stays ready
  is picked in the end; store calls return, since `flush` gives them a context of
  five seconds), and of `WaitReturns`. Nothing says that requests arrive or that
  `stop` is called. `EventuallySettled` and `StopReturns` need no strong
  fairness, as the events tracked are finitely many.
* Listing: weak fairness of `Page`, `SCAN` and `GetPayloads`: a store call returns, and
  the loop goes on. Links may keep changing meanwhile. In the model every SCAN moves
  its cursor on, as it does in Redis, where a SCAN that is followed to its end is
  finite.
* Shutdown: `server.Shutdown` returns after thirty seconds at the latest, deferred
  calls run, and the worker makes progress. A handler need not ever finish.
* The other modules assume none; their properties are safety properties.

## 4. The proofs

TLAPS checks the following for all values of the constants that satisfy the named
assumptions. Every invariant is proved from an inductive one that is written down
beside the model, where TLC can check it too.

**`ClickTrackerProofs`** assumes `TrackerAssumption` (every event is about a link, the
channel has room for one event or more), with or without faults. `TypeCorrect`, `NeverCountedTwice` (`AtMostOnce`), `StopDrains`
(`DrainedWhenStopped`), `ExactCounts` (`ExactWithoutFaults`), `TrackerImplementsLedger`
(`ImplementsLedger`), `TrackerImplementsFlushes` (`ImplementsFlushes`). `AtMostOnce` is not inductive: that a counter stays below the
settled events needs to know that an event is at one place only. `IInv` adds `OnePlace`
(channel and batch are injective, disjoint, and hold accepted events only),
`RecordedOnce` (the breakdowns hold only events the worker is done with), and
`Draining` (from the last flush on, nothing from before the close is in the channel).
Of an `IncrClickBy(l)` the count is the number of events of `l` in the batch, which by
`OnePlace` is the number of events that become settled by it; the lemmas on cardinality
before the invariant say so. The refinement follows action by action: `Receive` and
`Tick` stutter, `IncrClickBy(l)` is a `Settle`. That of the flushes needs lemmas on
events per link (`PerLinkOfBoth`, `PerLinkOfOneMore`, `LinksOfBatch`: the keys of
`counts` are the links with a click in the batch), `FlushSound` (a flush in progress has
a batch), and for `RecordEvents` that what it adds to the breakdowns was not in them.

**`ShutdownProofs`** assumes `ProcessAssumption` too and proves of `RunSpec`:
`ProcessTyped`, `StoreOpenedAndClosed` (`StoreLifetime`), `LossBounded`
(`LossIsBounded`), `ExactOverRestarts` (`ExactAcrossRestarts`), `DriftBounded`
(`DriftOnlyByKill`), for any number of starts. A step of the process that neither
builds a service nor ends the process is a step of the tracker, so the tracker's
lemmas apply as they are; `RunIInv` adds where the tracker is, and whether the store is
open, while `run` goes through its parts (`Phases`), that what is lost is in the tracker no more (`LostOutside`), and
what counters and breakdowns hold without it (`Counted`, `Recorded`).

**`LinkServiceProofs`** assumes `StoreAssumption` (`Never` and `Given` are no times, grace
window and second are positive) and `ServiceAssumption` (skip paths are IDs, expiries are times,
bounds are numbers): `TypeCorrect`, `DeletionsAgree` (`DeletionRecordsAgree`),
`CreatedIsReachable` (`Reachable`), `NeverPurgedEarly` (`NoEarlyPurge`). The
strengthening is `InflightSound`: a request in progress holds a copy that no DELETE has
marked, of an ID that was generated, and a create is alone with its ID. Without it
a `Save` could store a marked payload while dropping its `deletedAt` entry.
`NoEarlyPurge` follows because the stamp in the payload is the time of the deletion
rounded down, so a window that is over by `deletedAt` is over by the stamp.

**`LinkUpdateProofs`** goes on from there: `BackOnlyByOvertaken`
(`BackOnlyByStalePatch`), `OmittedKept` (`OmittedFieldsKept`), `ClicksAndExpiryKept`
(`KeepsClicksAndExpiry`), `EachLinkPromised` (`ImplementsLifecycle`) and, for each ID,
`ServiceImplementsLifecycle` (`Spec => Lifecycle(i)!Spec`), `NeverOvercounted`
(`CountersBounded`). `PatchSound` says what a PATCH in progress knows about the link it
read: the expiry, always; that it was not created as deleted; that it was deleted or saved since, in which case it is in
`overtaken` or `outdated`; and otherwise the fields it does not name.
`ServiceFollowsFlushes` (`FollowsFlushes`) is a refinement into `ClickFlushes` whose
mapping is the identity but for names: every step is one of a flush, or a purge, or
leaves counters and waiting clicks alone.

**`SqliteStoreProofs`** assumes `SqliteAssumption`, which bounds `Patience`, and
`GoneAssumption` (no row is `Gone`): `TypeCorrect`, `ColumnsAndPayloadAgree`,
`ClicksAreKept`, `EventsAreKept`, `SqliteImplementsLifecycle`. What needs an argument is
that `purge` deletes by a decision made earlier. A request that will write read the
link at most `Patience` ago, and a mark's stamp is at most `Patience` and a second
older than its UPDATE, and of a link created as deleted there are no copies but the
create's own (`WritersSound`); so when `Get` finds a link due by its deletion,
no request that read it alive is still in progress, and when it finds it due by its
expiry, whatever is written has that expiry (`DueIsExpired`). Hence what a purger is
about to delete stays due until it does (`PurgesSound`).

**`RedisStoreProofs`** assumes `RedisAssumption` (a grace window of whole seconds) and
`GoneAssumption`: `TypeCorrect`, `DeletedGoes` (`DeletedIsTemporary`), `CountersAreKept`
(`CountersKept`), `RedisImplementsLifecycle`. There are no deadlines here: a copy may be
as old as it likes. All copies have the one expiry of the link (`OneExpiry`), and if the
link is gone while a DELETE holds a copy, it went because it was due by that copy
(`CopiesSound`, which also says that nobody holds a copy of a link created as deleted),
which makes what the DELETE writes a `Bury`. What no DELETE has marked goes by its
expiry or not at all (`LiveUntilExpiry`). `CountersKept` rests on `Undisturbed`: where
no PATCH overlaps a DELETE and no SET of a DELETE is refused, nothing brings back a
hidden link, and each side key outlives the link but for the last second.

**`LinkListingProofs`** assumes `ListingAssumption` (finitely many IDs, numbered in the
order a store lists them; positive page size, cap and default limit; no type registered
twice):
`TypeCorrect`, `AnswersWereThere` (`OnlyListable`), `SkipsAtMostDepartures`
(`NoneSkipped`), `RepeatsAtMostArrivals` (`NoneTwice`), `PagesGetOn` (`PagesMoveOn`),
for any number of links, types and pages and over each store. None of the four
invariants is inductive. A cursor says how many links are behind it, not which; so
`Passed` names them by `Rank`, the number of links that come no later, and a page is
the links whose rank lies between two cursors (`PageTakes`). `MissedBound` says that
links passed without being taken are at most as many as went: when one goes, every rank
after it drops by one, so at most one link slips behind the cursor (`RankDrops`,
`OneGoes`). `RepeatsBound` is the mirror image: when one comes, at most one link that
was taken is moved in front of the cursor again (`Ahead`, `OneComes`), and `OneEach`
keeps the total below the number of links there are, so that the tally of arrivals,
which the model caps, does not matter. Over Redis the keys of a SCAN are noted until
their payloads are read (`scanned`), and nothing is missed. That a page of a sorted
sequence is the links of the next ranks needs no induction over data: `Sorted` is any
increasing enumeration of the set, and its values up to a position are in bijection
with the positions (`SortedRank`). `PagesGetOn` is the safety half of `ListingEnds`:
a page that is neither the last of its type nor of the request moves the cursor on.

Only model-checked: liveness (`EventuallySettled`, `StopReturns`, `ListingEnds`,
`SignalEndsProcess`), which is out of the prover's reach. Every other property of a
passing run is stated by a theorem.

## 5. Assumptions and what is left out

* Link data other than expiry, deletion and settable fields is one value, and so is
  every `deleted_at` a client sends (`Given`); a listing leaves out the links created
  with one that its store never lists. Status
  codes, bodies, headers, CORS, `/.well-known`, templates and user agent strings carry
  no state.
* The IDs nanoid draws do not repeat; two that do would make `Save` overwrite a link.
* `service.Close` is called once, as `run` does; a second call would close a
  closed channel.
* A request over SQLite ends within `Patience`, and `SqliteAssumption` says that two
  of them and the rounding of a second fit into a grace window: the server's
  timeouts are seconds and the grace period is hours. Without it `Get` could decide
  to purge a link that a PATCH then saves again.
* `RedisStore` and `SqliteStore` model one link: operations on two share no key and no
  row, but for `List`, which is in `LinkListing`. `Clicks` and `Stats` only read.
* Buffer size and flush interval are positive. A negative one from the environment
  passes `Config.defaults` and panics when the tracker is made.
* Configuration, API keys and registration of processors happen before the server
  starts and are fixed. `Register` keeps capitals that `Get` then looks up in lower
  case; the types here are registered in lower case, as the bundled processors' are.
* Redirect checks, previews, user agent parsing, the MCP server's schemas and the
  examples are pure functions or one service call each, and have no module.

## 6. Plan

Done, in this order: tracker with its ledger and proofs; memory store and handlers
with proofs; Redis and SQLite against the lifecycle, with kills and proofs; listing over
the three stores, with proofs; the process from start to exit over kills and restarts,
with proofs; the flushes between tracker and service, with proofs.

Next:

1. Model more. The handlers over Redis and SQLite with several links, where
   `LinkService` has the memory store. A link's breakdowns by dimension, which the
   models count as one.
2. Prove more. The life of several links over Redis and SQLite, once modelled; of the
   process, that what its tracker does is in each run a behaviour of `ClickFlushes` over
   what the runs before left in the store.
