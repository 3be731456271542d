# Plotline in TLA+

Plotline builds the history of a US address: a visitor geocodes an address,
the API finds or creates a *parcel*, and a Celery worker assembles its
*timeline* from six upstream sources (NAIP, Landsat and Sentinel-2 imagery,
USGS topographic maps, census data, county property records). This directory
models the parts of Plotline whose correctness depends on interleavings,
redelivery, partial failure and retries, checks them with TLC and proves the
central invariants with TLAPS. Paths below are relative to `backend/app/`
unless they start with another top-level directory.

## Inventory

| component | state it keeps | operations | hard behaviour | what makes it correct |
|---|---|---|---|---|
| timeline request lifecycle (`services/imagery.py`, `tasks/timeline.py`, `tasks/celery_app.py`) | `timeline_requests` (status, scope, updated_at), `timeline_request_tasks`, the broker's queue and unacked set | visit: reuse, take over, refetch, create, dispatch; worker: claim, create task rows, run sources, fold a verdict, acknowledge; worker boot: sweep | concurrent visits, late acknowledgement, visibility timeout, kills at the hard limit, lost processes, takeovers of live work | one in-flight request per parcel, no request executed twice at once, no request forgotten, verdicts that describe the run |
| admission control (`services/admission.py`) | none of its own: counts in-flight rows | gate; wait loop of batch scripts | count-then-insert, reserve for user traffic | batch work cannot fill the reserve; the wait and the gate agree |
| backfill and retry policy (`services/imagery.py` `maybe_refetch_for_backfill`, `services/ledger.py`) | per-year ledger (read) | decide which sources a visit re-runs | cooldown against the last attempt, "latest outcome" across redelivered runs, retry-once | what is settled is never retried, what failed is retried, no re-run storm |
| imagery source run and per-year ledger (`tasks/timeline.py`, `services/year_ledger.py`) | task row, `timeline_task_years` | search per year, classify empty years, validate, suppress, persist, reconcile | failed years beside good ones, all-failed, truncation, crash between commits | every attempted group gets one verdict; `ok` means a served scene; a failed year never erases a served one |
| scene store (`services/imagery.py` `reconcile_source_snapshots`) | `scenes`, `parcel_scenes` | insert, replace in place, delete what a run suppressed | two runs of one parcel, a row read and then changed by another run | one scene per group, never fewer scenes because a query failed |
| census run (`tasks/timeline.py`, `services/census.py`, `services/demographics.py`) | `census_snapshots`, ledger | per-vintage tract lookup with cache, per-year fetch | one outage poisoning a vintage, missing key | a failed lookup never turns into a wrong tract |
| property run (`tasks/timeline.py`, `services/county_adapters.py`, `services/property_events.py`) | `property_events`, task counts | adapter queries, address match, upsert | some queries failing, per-row commits | verdict partial exactly when something was lost and something was served |
| parcels and geocoding (`services/parcels.py`, `api/v1/geocode.py`, `services/geocoder.py`) | `parcels`, served coordinates in Redis | forward geocode, reverse fallback, find nearby, insert | advisory lock on exact coordinates, proximity deduplication | no two parcels for one place |
| SAS signing (`services/stac.py`) | token copies in Redis, in-flight mints | get, mint, wait, retry | single flight, expiry margins, clients that leave while others wait | a served token has its margin to live; misses share a mint; nobody fails for another's |
| served scene caches and tile proxy (`api/v1/imagery.py`) | rows cached per process, `stac:{id}` in Redis, Titiler's items by URL | list, tile, warm-up, STAC callback | scene replaced in place while three caches keep it; mosaics partly signed | no read with an expired token; a replaced scene goes away |
| rate limiter (`api/rate_limit.py`) | Redis counters | increment, expire, refuse | Redis failure, window edges | bounded calls per window |
| client polling (`frontend/src/hooks/queries.ts`, `utils/timelineStatus.ts`) | query cache | poll until terminal, give up | request superseded while polled | polling ends, and ends with what the server says |
| upstream clients (`services/retry.py`, `census.py`, `arcgis.py`, `stac.py`) | none | retry, back off, sleep, give up | Retry-After against a budget, deadlines, slots | a call ends within its budget and raises what failed last |
| batch heal scripts (`scripts/requeue_parcels.py`, `revalidate_landsat.py`, `requeue_empty_property.py`) | none of their own | select from ledger, create with waiting, dispatch | admission waits, parcels already in flight | every selected parcel is queued, skipped or reported |
| scene selection (`services/stac.py` selectors, `services/usgs_topo.py`) | none | choose scenes per group | ties, mosaics, validation walks | selection covers the point and is stable |
| geometry, repair scripts, configuration, logging, migrations, featured places, previews, user interface | - | - | - | see *Not modelled* |

Interactions: the API and the worker share only PostgreSQL and Redis. The API
writes requests and publishes a message per dispatch; the worker writes
requests, task rows, ledger rows and scenes; the next visit's backfill reads
the ledger; the client polls the request; the booting worker sweeps.

`PROJECT.json` lists the hazards of the code with the line where each bites
and the properties that would catch it.

## Modules

| module | models |
|---|---|
| `TimelineStatus` | status vocabularies, the fold of task rows (`aggregate_request_status`), the admission cap (`effective_cap`) |
| `RequestBoard` | abstract: what may happen to the requests of all parcels |
| `TimelineLifecycle` | the life of requests: API threads, broker, workers, clock; implements `RequestBoard` |
| `MCTimelineLifecycle` | its TLC instances |
| `TimelineLifecycleProofs` | type correctness, proved |
| `TimelineDeliveryProofs` | the delivery invariants, the freshness of live runs, the verdict and the refinement of `RequestBoard`, proved |
| `ServedTimeline` | abstract: what a source run may do to served scenes and verdicts |
| `SourceRun` | one imagery source of one parcel: search, classify, select, persist, reconcile; implements `ServedTimeline` |
| `MCSourceRun` | its TLC instances |
| `SourceRunProofs` | its invariants and the refinement, proved |
| `SceneSelection` | which Landsat or Sentinel-2 scene of a year is served: filter, pick, validation walk |
| `MosaicSelection` | which NAIP tiles of a year are served: the greedy cover and its gate |
| `CensusRun` | the census task: tracts per geography, the API's answers, snapshots and ledger |
| `CountyRecords` | pure: the counties' adapters, record ids, permit kinds, the comparison of addresses |
| `PropertyRun` | the property task: queries, rows about this address, upserts, coverage, re-asking |
| `TopoRun` | the topographic-map task: one capped query, the best sheet of a decade |
| `UpstreamRetry` | one call of any upstream client, with its retries and budget |
| `CensusRunProofs` | its types and verdicts, proved |
| `SourceTaskProofs` | `PropertyRun`, `TopoRun`, `UpstreamRetry`, `SceneSelection`, `MosaicSelection` and the studies of `MCSourceTasks`, proved |
| `MCSourceTasks` | TLC instances of the task modules, selection and upstream calls |
| `BackfillPolicy` | what a visit or a heal asks again, over all requests of a parcel |
| `BackfillPolicyProofs` | its invariants and action properties, proved |
| `MCBackfill` | the constants of its TLC instance |
| `AddressSearch` | geocoding and the parcel of a place |
| `BatchRequeue` | a sweep of the fleet beside visitors, under the admission gate |
| `BatchRequeueProofs` | the gate and the sweep, proved |
| `MCRequests` | TLC instance of what requests do to each other: `BackfillPolicy`, `BatchRequeue` |
| `TokenMint` | the token of one container: copy, single flight, mint |
| `TileServing` | tiles of one period through the caches |
| `RateLimit` | one client's counter on one route |
| `ClientPolling` | the explore page |
| `ServingProofs` | `RateLimit`, `TokenMint`, `AddressSearch`, `TileServing` and the studies of `MCServing`, proved |
| `MCServing` | TLC instances of the search, token, tile, limiter and page modules |

### RequestBoard and TimelineLifecycle

*The promise.* `RequestBoard` knows the requests as the database shows them
and which of them are being executed, and nothing of threads, messages, task
rows or time. One request of a parcel is open (`Create` and `Begin` need the
others closed); one run executes a request at a time; only that run calls it
complete or partial (`Conclude`); everybody else can only fail it (`Fail`, the
janitor's `FailOpen`). There is no action that deletes a request, moves it,
changes its scope or queues it again. `KeepsBoard` says that
`TimelineLifecycle` implements it; `executing` is mapped to `Executing`, the
requests of workers between the claim and the verdict.

*State.* `status`, `parcel`, `declared`, `age` are the columns of
`timeline_requests` (`age` is the time since `updated_at`), `rows` the task
rows, `msg`/`held` the broker's view of the request's message, `run[w]` the
control point of a worker's pool child with the progress of each source,
`call[c]` the control point of an API thread; `run[w].sweep` is what a booting worker's
sweep has locked and read. Two history variables: `stranded`, the requests
whose only holder died or failed to write, and `run[w].swept`, the ended
sources of a run whose rows a sweep wrote over.

*Actions.* One per database transaction or broker operation. A visit is
`VisitFirst`/`VisitStale`/`VisitRefetch` (the read), then `TakeOver`,
`Admit`/`Refuse`, `Insert`/`LoseInsertRace`, `Dispatch`/`DispatchRaises` and
`MarkUndispatched`, because the code commits between these and a different
thread may run in each gap. A worker's run is `Deliver`, `Claim` (or
`ClaimConflicts`, the unique index), `CreateRequestTasks`, per source
`StartSource`, `FinishSource`, `SkipSource` or `LoseSource`, then `Fold` (the
task rows are read), `Conclude` (the verdict is written) and `Ack`; errors and
the soft limit lead to `MarkFailed`/`MarkFailedRaises`.
`HardKill`, `ChildLost`, `MachineLost` and `CallerDies` end processes;
`SweepReads` and `SweepCommits` are the janitor of a booting worker,
`BootUnswept` is a boot whose sweep hit the database error it swallows;
`Restore` is the visibility timeout.

*Details that matter.*

* `updated_at` has an ORM `onupdate`: it moves only when an UPDATE is
  emitted, so writing `processing` over `processing` leaves it
  (`AgeAfterWrite`).
* The janitor locks the request rows in flight (skipping those somebody has
  locked) and nothing else: the task rows of what it takes for lost it reads
  unlocked, and it writes them by primary key when it commits. A source that
  ends in between is written over; who writes a locked request waits
  (`Unlocked`). Its reads are one step: what it locked cannot change before
  the commit, and task rows read later only make the window shorter.
* The claim writes `processing` over any status, terminal ones included; the
  partial unique index is then the only guard.
* Celery acknowledges a task that hit its time limit and requeues the message
  of a lost child (`task_reject_on_worker_lost`); a lost machine does neither.
* `worker_prefetch_multiplier=1` with late acknowledgement means a message is
  unacknowledged only while a child runs it, which is why `held` starts with
  the run.

*Abstractions.* Time is ticks with 35, 45 and 60 minutes reduced to their
order (`TimeAssumption`). The soft and the hard limit are one limit. A worker
is one pool child on a machine of its own; a machine with two children dies
in two steps. Each dispatch publishes at most one message (a broker client
that publishes twice on a retry is not modelled). Which sources a refetch
asks for is any nonempty set here; `BackfillPolicy` has the decision. Sources
are opaque: each ends with one of the verdicts its coroutine may write.

### ServedTimeline and SourceRun

*The promise.* `ServedTimeline` knows only what a parcel serves and the
ledger. A run publishes both in one step (`Publish`): a group called `ok` is
served afterwards, only a group called `suppressed` may stop being served,
every other group is untouched. Later it may only restate verdicts other than
`ok` (`Restate`) or start over (`Forget`). `KeepsPromise` says that
`SourceRun` implements it, with `verdict <- ledger`.

*State.* `task[r]` and `ledger[r]` are the committed task row and year rows of
run `r`, `served` the source's `parcel_scenes` rows of the parcel, `work[r]`
the coroutine: control point, the next year, `found` (`raw_by_key`),
`truncated`, `staged` (the `YearOutcomeLog` in memory), `chosen`
(`selected_groups`), `named` (`suppressed_items`), `uncogged`, and `seen`, the
rows its transaction read.

*Actions.* `SearchYear`/`SearchedYears` is the year loop of Landsat and
Sentinel-2 with the cloud probe, `SearchWhole` NAIP's single query;
`FlushLedger` the flush before the raise of a wholly failed search; `Select`
the spatial filter, classification, selection, validation walk or coverage
gate; `OpenSession` the beginning of the persist session with the COG check
and the read; `Reconcile`/`ReconcileNothing`/`ReconcileConflicts` the three
ends of `reconcile_source_snapshots`; `FillGaps` the last loop and its commit;
`Complete` the task row. `Raise` is an exception anywhere in between, the soft
time limit included; `LoseProcess` rolls an open transaction back and
`Redeliver` is `create_request_tasks` of the redelivered message, which resets
the task row and drops its year rows in one transaction.

*Where atomicity is kept and where it is not.* The read (`seen`) and the
commit are separate steps, so an overlapping run can commit in between:
READ COMMITTED, the unique key on (parcel, source, group) and the row count of
an UPDATE or DELETE are what decides then (`InsertConflict`, `Upserted`,
`Deleted`). The two reads the code makes inside the transaction, of all rows
and again of each group's row, are one.

*Abstractions.* A scene is an item with its mosaic; item identifiers, assets,
footprints and reasons are not modelled, so a validation walk or a selector is
any choice it could make. A row of `parcel_scenes` is identified by its group:
a row deleted and inserted again between the read and the update of another
run is taken for the same row. A group dropped by the NAIP gate names any
nonempty set of scenes. `Overlap = FALSE` is the normal case of one run of a
parcel after the other; `Overlap = TRUE` is the takeover, restoration or
duplicate dispatch of a request whose run is still alive
(`LifecycleServedFailed` shows how a live run comes to look lost). The topographic maps have decades,
no classification and a whole-source key: they are `TopoRun`.

### SceneSelection and MosaicSelection

What `Select` of `SourceRun` may choose, here is how the code chooses.
`SceneSelection` follows one search's scenes through `Filter` (the footprint,
or the bounding box when there is none, contains the parcel), `Select` (one
scene per year: the clearest; the Landsat selector takes Landsat 7 only for a
year with nothing else), `ValidateFirst` (the picks are asked together: the
asset is missing, or signing or probing fails), `WalkOne` (a refused year's
other scenes, clearest first) and `DropYear`. What a probe answers is
nondeterministic: a scene is servable or refused for a reason of its own.
`MosaicSelection` adds tiles by what they gain of the rectangle still open, on
a viewport of unit cells in place of degrees; `TakeBlind` is the tile without a
bounding box, `Gate` the check that a tile of the mosaic contains the parcel.
Both compare with a definition of their own: `NoServableYearIsLost` with all
scenes of the year, `EveryTileAddsView` with the cells, not with the rectangle
arithmetic.

*Abstractions.* A NAIP tile's footprint fills its box, and the tiles of a year
are some of one grid of tiles larger than the viewport (`GridAssumption`), as
quarter quads are. That a covering tile is never passed over depends on it: of
tiles that lie anyhow, two that nearly meet at the parcel are enough of the
viewport (`coverage_target`), and a third, smaller one over the parcel would
be left, the year suppressed.

### CensusRun

*State.* `task` and `ledger` are the task row and the year rows, `rows` the
committed `census_snapshots`, `work` the coroutine with its cache of tracts per
geography (`resolved_tracts`), the vintages whose lookup failed and the staged
outcomes. *Actions* follow the loop body: `UseKnownTract`, `LookUpTract` or
`LookUpFails`, then `FetchData`, `FetchNothing`, `FetchFails` or `KeyRefused`,
then `Flush` and `Complete`; `Raise`, `LoseProcess` and `Redeliver` come
between any two. Decennial years precede ACS years, as in the code, so that a
cached failure of one dataset meets the other. *Abstractions.* Which tract
holds the parcel in which geography and what the API publishes are constants;
a tract is a name, and the truncated identifiers of some years are a set of
years whose names are cut. Numbers of a snapshot are the tract they are of.

### CountyRecords and PropertyRun

`CountyRecords` has the adapters as data and functions: the queries of each
county, what a row becomes (`Event`, with the record id that makes it unique),
which status and body count as an answer, and `IsAddressMatch` over the words
of an address. `PropertyRun` is the task: `Begin`, one `Answer` per query,
`Gather` (rows about this address, one event per record id), `Store` (one
commit each), `Finish` with its verdict, and the loss, redelivery and failure
paths. `Visit` is the next request's decision to ask again (`NeedsProperty`),
which reads the coverage column; `PortalChanges` is a portal that lists new
rows between runs. *Abstractions.* Text columns that no decision reads are
left out; a price is present or absent with the date; an address is a sequence
of words, so the split of a string into words is given.

The filter of rows has a reference of its own: a record *contradicts* a word of
the parcel's street if neither name is a part of the other. Over any history,
what is on file has the parcel's number and shares more than two words in three
with it, and what contradicts no word is not turned away
(`PropertyFilterIsFair`). The docstring claims more, that no word is
contradicted (`EventsAreThisAddress`), which a street of four words refutes.

### TopoRun

`SearchAnswers` returns any response the cap allows, `Save` writes the best
sheet of every decade and the outcome under the whole-source key, `FinishTopo`
the task row. Extent and date decide the best sheet; the order in which the service
lists equal sheets is nondeterministic.

### UpstreamRetry

A client is a record of its numbers and of what it retries (`CensusPolicy`,
`VintagePolicy`, `ArcGISPolicy`, `SearchPolicy`, `SignPolicy`). `Attempt` is a
request with any answer, `BackOff` the sleep (doubling, or Retry-After, with
the jitter's extremes), `GiveUp` the end. Time is in seconds and an attempt
costs its client's timeout or nothing; the queue for a signing slot is waited
out first and counts against the budget.

### BackfillPolicy

*State.* `requests` is the parcel's history of `timeline_requests`, each with
its task rows and year rows; `now` counts cooldowns, `code` is the deployed
version, `covered` whether the county is the permit authority. *Actions.* `VisitFirst` and `VisitBackfill` are
`maybe_refetch_for_backfill` under its early returns, `HealFromLedger` the
selection of `requeue_parcels` with its flags, `Finish` a run in one step (its
inside is the modules above), `Lose` and `Redeliver` the broker's part: an old
request may run after newer ones and then holds the older creation time.
`TimePasses` and `Deploy` move the clock and the code. *Reading the ledger* is
translated as the code's query: the row of the most recently created request
that has one (`Newest`, `Outcome`), attempts counted over all of them
(`Attempts`). *Abstractions.* A source has one or two groups; `Attempted` says
which groups the worker's code of each version asks about, so that a deploy can
retire a group.

### AddressSearch

A search is `Forward`, then `Reverse` if Census matches nothing, then
`LockLocation`, `FindNearbyParcel`, and `Backfill` or `Insert`, then `Answer`;
`Refused` and `Crash` end it early, and release the advisory lock with the
transaction. `Suggest` is the autocomplete that serves a coordinate and
`Forget` its expiry. *Abstractions.* Points lie on a line and `Radius` is the
proximity; what a search finds lacking on a parcel (`lacked`)
is its tract and county.

### BatchRequeue

One session of the batch loop (`EnsureAdmission`, `Insert`, `Dispatch`,
`WaitForAdmissionSlot`, `StopRefused`, `Resume`) beside sessions of the API
(`VisitorAdmitted`, `VisitorInserts`), runs that end (`RunEnds`), late messages
and the operator's kill switch. The gate and the insert are separate steps, as
they are in the code; the duplicate check of the insert is inside it, as the
unique index makes it. A request may end while a message of it is left (`late`):
it was taken over, swept or its dispatch raised after publishing, or its run
ended and the worker was lost before the acknowledgement. `ClaimedAgain`
delivers that message: the claim writes `processing` over whatever the status
is and asks no gate, so the depth grows behind the gate's back; `again` names
the parcels whose request in flight came back that way. *Abstractions.* A
request is what it is for (`Flights`); its life is `TimelineLifecycle`. One
ended request a parcel has a message left. The deadline is a number of polls.

### TokenMint and TileServing

`TokenMint`: a caller reads the copy (`ReadCopy`), joins or starts a flight
(`JoinOrMint`, no await between), is answered or leaves (`GiveUp`, shielded); a
mint is `Minted`/`MintFails`, then `Stored`; `Callback` empties the flight,
before the event loop delivers another network answer; `StartupMint` is outside
the flights. `TileServing`: `ReadRow` through the process's cache, `CogTile` or
`StacUrl` to Titiler (`AskTitiler`, which may have the item already),
`CallbackRow`, `CallbackItem`, `CallbackSign` for the STAC document Titiler
asks back for; `Replace` is a run that changes the row in place, `List` the
timeline's answer with the tiles it could sign. Each cache has a life of its
own and nothing invalidates any. *Abstractions.* A token is its expiry; a scene
a version; one container.

### RateLimit and ClientPolling

`RateLimit` is `INCR` and `EXPIRE NX` in one step, with a Redis that may fail
at any call and the policy of the route. `ClientPolling` is the page's two
queries, their intervals as conditions, the delayed refetch on delivery and
reads that fail after their retries.

## Runs

| run | instance | shows |
|---|---|---|
| `LifecycleDelivery` | 1 thread, 2 workers, 2 requests, no eligible source, 2 losses | the promise of `RequestBoard` (`KeepsBoard`), no double execution, every in-flight request has an owner |
| `LifecycleStudies` | 2 workers; 2 threads, 2 requests, no loss; or 1 request, 2 sources, 1 loss | types, one in-flight request per parcel, a live run is not stale, the verdict describes the run |
| `LifecycleProgress` | 1 thread, 1 worker, 2 requests, fair | the current request of a parcel leaves the in-flight state |
| `LifecycleServedFailed` | 1 thread, 2 workers, 1 request, 1 loss | violated: a redelivered live run looks lost, a sweep's commit writes over what it served, and the run is called failed |
| `SourceChunked` | 2 runs, 2 years, 2 scenes, 1 loss, no overlap | types, a verdict for every group of a complete task, no stale verdicts, the promise |
| `SourceOverlap` | 2 runs, 1 year, NAIP's single query, overlapping | a scene vanishes only by a run that condemned it |
| `SourceTasks` | studies `census`, `property`, `topo`, `scenes`, `mosaic`, `upstream` | what a task calls complete, ok or absent is so; selection shows the parcel and loses no year; calls end in time |
| `PropertyAddress` | study `property` | violated: a record of another quadrant is on file |
| `Requests` | studies `backfill` (4 sources, 2 code versions, 3 requests), `sweep` and `late` | backfills wait, settle, leave the healed alone and forget nothing that failed; the gate's bounds, a sweep that drops nobody and ends |
| `BackfillTopoForever` | 1 parcel, 4 sources, 3 requests | violated: one failed map search is dispatched again after every cooldown |
| `Serving` | studies `tokens`, `tiles`, `requests`, `search`, `limit`, `page` | tokens with life left, old scenes that go away, one parcel per place, ends of callers, searches and polling |
| `ServingMosaicGap` | study `tiles` | violated: a signed component of a mosaic is not drawn |

`SourceTasks`, `Requests` and `Serving` check parts that share no state: a
behaviour is one *study*, the variables of the others do not move, so the state
space is a sum. `LifecycleStudies` is two instances of one module, on a parcel
each.
Modules with theorems are extended, so that a run checks the very definition
a theorem states (`PropertyCompleteIsWhole` of `PropertyRun`, not a copy); the
others are instantiated, and their properties are conjunctions in the MC module:

| property | says |
|---|---|
| `CensusVerdictsAreHonest`, `CensusCompleteIsAccounted` | an `ok` year has the numbers of the right tract under its own label, `absent` is the API's answer about the right tract; a complete task has a verdict per year and is not an outage |
| `VerdictReflectsRun` | a run that is called complete had no failure, and one that is called failed served nothing but what a sweep wrote over |
| `PropertyCompleteIsWhole`, `PropertyFilterIsFair`, `PropertyThinIsRefetched` | complete means every query answered and every row about this address on file; nothing on file contradicts the number or one word in three of the street, and nothing is turned away that contradicts none; a thin history is asked for again |
| `TopoVerdictsAreHonest` | an `ok` decade serves its finest, then oldest sheet; a decade lost to the cap leaves the source indeterminate; `absent` only if there is none |
| `SelectionServesWhatItCan`, `MosaicShowsTheParcel` | what is served contains the parcel, and a year or a mosaic that could be served is not given up |
| `UpstreamEndsWell` | a call ends at most one attempt after its budget and raises the last failure |
| `QueueIsShared`, `NobodyIsDropped`, `SweepEnds` | the cap is passed by the racing sessions and by what is claimed again, and by no more; of what the gate lets in visitors keep their reserve; a parcel a sweep is silent about was really run; a sweep ends |
| `MintsAreSound`, `WaitersAreAnswered` | one mint at a time, nobody fails for another's, a copy has its margin to live; callers and searches that stay are answered |
| `TokensOutliveReads` | no tile is read with an expired token, through every cache that keeps its address |
| `OldScenesGoAway` | a replaced scene is not drawn for longer than its caches live |
| `ParcelsAreSound` | one parcel per place except two searches that looked at once at two points; where it was matched; healed by who finds it |
| `RefusalsAreFair`, `DeliveredIsShown` | at most the limit per window, and a refused client waits less than a window; an open page comes to show what was delivered |
| `BackfillsWait`, `BackfillStaysQuiet`, `BackfillSettles`, `BackfillHealsOnce`, `NothingFailedIsForgotten` | a source is asked again no sooner than its cooldown, not when its newest run answered everything, in full only for what a full run left open, once per deploy by a heal; and what failed is asked again |

*Bounds, source runs.* Two years are the least for a failed year beside a
good one, two scenes the least for a replacement and for a condemned scene
that is no longer the served one, two runs the least for a previous answer (in
sequence) or a conflict (overlapping), one loss the least for a redelivery. A
run keeps nothing of other years while it handles one, so more years add
products of the same cases. These runs end when every task is done, which is
why deadlock is not checked.

*Bounds, lifecycle.* Two requests are the least for which an old message can meet a new
request; two workers and two threads the least for each race; one loss
suffices for every redelivery, since a restored message needs exactly one; a
second lets the redelivered run be lost as well. In
`LifecycleDelivery` the parcel is eligible for nothing, so that a run is its
claim, its fold and its verdict: no property there speaks of sources.
`HardLimit = 1`, `StaleAfter = 1`, `Visibility = 2` keep the code's order with
the fewest ticks. One parcel is enough: requests of different parcels meet
only in the admission count, which `BatchRequeue` has. `TwoSources` takes
`census` (neither skipped nor partial) and `property` (may be either).

*Bounds, tasks.* Census: two decennial and two ACS years; one uses the stored
tract, two a geography in which the tract has changed, one a geography that
cannot place the parcel; one API year trims tract codes. Property: a place of every adapter,
covered and not; portals with a blank record id, a record in two queries, an
unreadable date, a lot with several permits and addresses that almost match, of
a street with four words too, whose quadrant is left out or another; two runs
and one change. Maps: every catalogue of at most three sheets out of
eight, a cap of two. Scenes: every pool of at most four scenes out of eight
that differ in each thing a selector looks at, under both selectors. Mosaic: a
viewport of six cells (2500 m) over every position of a grid of quads of 5.4 km
that overlap, every subset of the four quads at a corner, with and without a
tile that has no box. Upstream: the code's own numbers.

*Bounds, backfill.* Four sources: Landsat with one year, the census with a
decennial and an ACS year of which the newer code no longer asks the former,
property with its coverage, and the maps with their whole-source key. Three requests are the least for an old message that runs
between two newer ones.

*Bounds, sweeps.* Two parcels of the fleet and two others, one visitor,
a cap of 2, a reserve of 1 or of more than the cap, one poll until the
deadline, one resumption: the bound of the overshoot is reached. The study
`late` has one late message at a time, of a parcel of the fleet (of another it
would only count), beside whole runs; to stay small it starts with an empty
queue, keeps the switch on, and its visitor makes first visits. The theorems have no such restriction.

*Bounds, serving.* Tokens: two
callers and the startup mint, tokens that live longer and shorter than the
margin. Tiles: one request, two tokens, time for each cache to run out after
one replacement (`tiles`), or two requests at once (`requests`); an instance
with two requests, two tokens and the longer clock was checked as well. Search:
two visitors, an address whose match and suggestion differ by the radius, three
searches. Limit: two calls per window of three units. Page: two changes, two
failures. The studies stop at their bounds, and deadlock is not checked there.

*Fairness.* API threads, workers, the broker and the clock are weakly fair:
they are threads, consumers and time. Delivery is strongly fair per request
because the queue is first-in first-out. A visit that finds a stale request
is strongly fair per parcel: the claim is only that a parcel somebody keeps
visiting recovers. A machine that is down comes back, but its sweep may fail,
and no machine is assumed to go down so that one can sweep. In `Requests` the
sweep's own loop, in `Serving` the event loop, the mints (bounded by their time budget), a
search's handler and the page's timers are weakly fair; the lock of a place is
strongly fair per search, because PostgreSQL queues for it. Nothing is assumed
of visitors, of operators or of runs: `SweepEnds` says what happens once
visitors stop coming and nothing is claimed again.

*Divergences.* The four violated runs are disagreements between what a comment
or a docstring says and what the code does; `PROJECT.json` quotes each. More
effects are in the models and no property denies them. With overlapping runs an
`ok` row can be committed for a group whose scene another run just deleted (the
code judges by a row it read earlier). An exception after the search drops the
staged outcomes, so that a failed task may have no year rows. `no_cog_url` is
overwritten by the reconciler's `indeterminate`. `effective_cap` says that user
traffic gets the whole cap and heals stop short of it; that is so of what the
gate lets in, while heals that are claimed again may fill the reserve as well.
The record id of a DC sale is its lot and the insert leaves a conflicting row
alone, so that a resale keeps the first sale's price and date.

## Proofs

Every safety property of the passing runs is a theorem, for every value of the
constants. Each proof is the same argument: an inductive
invariant, one lemma per action or group of alike actions, and a last temporal
step. What follows says what the invariant adds and from which assumptions; an
assumption is evaluated by TLC on the run that extends its module.

**Lifecycle** (`ScopeAssumption`, `BoundAssumption`: bounds are naturals,
`TimeAssumption`: `HardLimit <= StaleAfter`, `HardLimit < Visibility`, which is
2100 s, 2700 s, 3600 s). The number of parcels, workers, callers, requests and
losses is arbitrary.

* `TypeCorrect`: types, strengthened with `RefsOK` (a busy worker and a caller
  past its insert hold a real request), since typed updates need a request to
  index with.
* `NeverExecutedTwice`, `OneInflight`, `InflightIsOwned`,
  `DeliveryInvariant`: from `DeliveryInv`. None of the three is inductive
  alone. No double execution needs `RunHoldsMessage` (the message of a busy
  worker is unacked and was delivered no earlier than the run began, so a
  restore, which needs the message held for longer than any run may last,
  cannot hit a live run). Ownership needs `VerdictBeforeAck` (the
  acknowledgement comes after a terminal write or a recorded failure to write)
  and `DispatchesOnce` / `CreatedBeforeSent` (a caller about to publish is
  alone with its request). Most actions are `Quiet` (they leave broker and
  ownership alone, one lemma); the others have a lemma each with a step per
  conjunct.
* `LifecycleKeepsBoard`: the refinement. Most actions stutter; `Insert` is a
  `Create`, `Claim` a `Begin`, `Conclude` itself, the ends of a run without a
  verdict are `Leave`, `TakeOver`, `MarkUndispatched` and `MarkFailed` are
  `Fail`, `SweepCommits` is `FailOpen`. A `Begin` needs `NoDuplicateExecution`, since
  the board admits one run of a request; `Leave` needs it too, or the request
  would still be executed by the other run. `BoardInv` adds that what a caller
  is about to fail exists, that a claimed request is not queued, and that what a
  sweep has locked is still in flight when it commits (`BoardSweeps`).
  `DeliveryInvariant` is a theorem only; no run checks `DeliveryInv` by itself.
* `LiveRunsAreFresh`: until a process is lost, a running request does not look
  lost. `LiveInv` adds that a claimed request is no older than its run
  (`RunsAreFresh`), that it is not `processing` before its first claim and that
  only a busy worker holds a message. It is stated under `losses = 0` because
  it is false after a loss, see `LifecycleServedFailed`.
* `VerdictDescribesRun`: an action property. `RowsShowOutcomes` says that the
  rows of a run's request hold what its own sources ended with, but for those
  in `swept`, which read failed: so a sweep can make a verdict worse and never
  better. It needs `NoDuplicateExecution`, since no other run may write those
  rows. `FoldShows` takes it from the rows to the verdict, by
  `AggregateIsHonest`, the lemma about the fold.

**Source runs** (`SourceAssumption`: at least one year, a natural bound on
losses, `Nothing` is no scene and no outcome).

* `SourceTyped`, `CompleteHasVerdicts`, `VerdictsAreFresh`: from the inductive
  invariant `Accounting`. A complete task has its verdicts because, at each
  control point, the run knows why its ledger is what it is: `LogOK` (every
  year searched is staged or found), `SelectionOK` (a chosen group is not
  staged, a condemned one is staged `suppressed` or has no COG), `LedgerOK`
  (the ledger is empty until a commit, and full from `finish` on). Each of the
  three theorems needs all three parts.
* `ScenesVanishByName`: from the same invariant, for overlapping runs too.
* `RunKeepsPromise`: the refinement, assuming `~Overlap`. It needs `Alone`
  (at most one run executes, so what a run read is what it writes over):
  `Reconcile` is a `Publish`, `Redeliver` a `Forget`, `FlushLedger` and
  `FillGaps` are `Restate`, and everything else stutters. With overlapping
  runs the refinement is false: the read of one run is no longer what it writes
  over. TLC checks it for the year-by-year sources; for NAIP the theorem covers it.

**Census** (`ScheduleAssumption`: the schedule is finite and names each year
once, `CensusBound`). `VerdictsAreHonest` and `CompleteIsNoOutage` follow from
`Census`: what is remembered of a geography is what the geocoder says of it
(`MemoOK`), nothing is staged `ok` and nothing `absent` but of the right tract
(`StagedOK`), and behind the loop every year is staged or committed while the
count of failures reaches the years passed only if all failed (`WalkOK`). The
tracts, what the API publishes and the number of losses are arbitrary.

**Property** (`AddressAssumption`: an address is a finite sequence of words;
`PropertyBound`: at least one run).
The invariant is `PropertyInv`; its part `StoreAccounts` is what makes
`CompleteHistoryIsWhole` inductive: while a run stores, every row about this
address is on file or still to do, and no counted failure means that no query
failed, because a reply that is not the rows a client takes is never taken for
rows (`BadRepliesAreSeen`). `ThinHistoryIsAskedAgain` needs that a covered
address is never marked `not_covered` and that a run at rest is partial,
failed, skipped or complete without failures. `TheFilterIsFair` is about the
filter and the file at once: a record that is kept shares more than two words
in three with the parcel's street (`MatchesShareMost`), whose name may have any
length, and one that leaves out words only is kept (`ShortFormsMatch`); a
complete history has stored what it kept, and rows on file keep their ids
whatever a later run does. `PropertyTyped` bounds what a report counts: the failed queries
by the county's queries, at most eight (`QueriesAreFew`), and the rows by the
records on file.

**Topographic maps** (`CatalogueAssumption`: fields are naturals and a year
that could be read has a decade, `TopoBound`). `MapVerdictsAreHonest` follows
from `TopoInv`: until it saves a run has no rows, its answer is the whole
catalogue unless it was cut, and what it saved speaks of that answer. A best
sheet exists in every decade of an answer that has any although the sets are
arbitrary (`BestExists`, by well-foundedness of the naturals).

**Upstream calls** (`PolicyAssumption`: the types of a policy, a missing
header is possible). `CallsEndWell` follows from `RetryInv`: a call about to ask
has attempts and budget left, so that it overshoots by one attempt and one
wait for a slot, and what it remembers of the failures is what failed last.

**Selection** (`PoolsAssumption`: an id names one scene of an answer, a year is
a natural; `GridAssumption`: the viewport has an even side, and the tiles
that meet it are no smaller than it and lie in at most two columns and two
rows). `ServesWhatItCan` follows from `SelectionInv`: a year whose
walk goes on has no servable scene among those asked and a reason noted; a year
off the walk is served, or every scene of it was asked and refused.
`MosaicsShowTheParcel` follows from `MosaicInv`, which at each pick says that
nothing is taken yet, or the parcel is shown, or no tile could show it, or that
one tile is taken, which ends beside the parcel (`EndsBeside`), and the strip
beyond it is open. A tile over the parcel shows more than half of both sides of
the viewport. So a first pick beside it ends beside it in one direction only,
is no more than half of the viewport and hence not enough
(`FirstPickBeside`), and what is open next is the strip beyond it, since the
others are smaller (`LargestStripIsBeyond`). In that strip the first tile's
column gains nothing, and of the other column the tile that gains most is over
the parcel (`SecondPickCovers`). The side, the tiles' size and what is missing
are arbitrary.

**Backfill** (`GroupsAssumption`, `SeedsAssumption`: a parcel starts with
ended requests in order of creation, none a backfill). `PolicyInv` adds one
request in flight, creation times in order, rows only under the tasks of a
request. From it: `BackfillTypes`, `EveryBackfillWaited`,
`FailuresAreAskedAgain`, and the action properties `FullBackfillsSettle`,
`HealsAskOnce`. `HealedSourcesStayQuiet` also assumes `GroupsOnlyLeave`, that a
deploy only retires groups, and then uses `CleanRunsAnswer`, that a finished
run has a row for every group still attempted. The code adds a group when the
calendar year turns (`attempted_group_keys` ranges up to the current year); a
message of the old year redelivered after a run of the new one may then record
a failure the newer run never had a row for, and the theorem does not speak of
that.

**Batch and gate** (`BatchAssumption`: finite parcels and sessions). `BatchInv`
counts what the gate let through: of it, requests in flight and pending inserts
exceed the cap by at most the sessions, and heals fit what the reserve leaves
(`GateIsKept`). What is claimed again is counted apart, since no gate saw it;
the bound on the depth adds the two. For the
report, `SweptIsRerun` and `SweepIsAccounted` say what is known of a parcel
that is no longer left to do. From it: `TheQueueIsShared`,
`TheSweepDropsNobody`.

**Limiter, tokens, searches, tiles** (`RateAssumption`, `MintAssumption`,
`SearchAssumption`, `TileAssumption`: lives, windows and bounds are naturals,
points are integers, a token outlives its copy's margin, which is not zero). `WindowsAreFair`: `RateInv` ties the calls passed and the time a
client has waited to the counter and its remaining life. `TokensAreShared`:
`MintInv` ties the flight to the one unfinished mint of a miss
(`FlightsAreTracked`), the callers to mints that had not ended when they asked
(`JoinsAreLate`) and a copy to its token (`CopyDiesEarly`).
`PlacesHaveOneParcel`: `SearchInv` says of every search what its lock and its
look at the parcels still guarantee (`Fits`).
`TilesAreDrawn` and `TilesFollowTheRow`: `TileInv` follows a version and a
token along the chain of caches. A row is cached at most a unit after it
stopped being served, the raw item dies within its life of that, and Titiler
keeps an item under a URL whose token was issued (or whose bucket came) before
the raw item had to be gone (`KeyEnds`); the item carries a token no older than
the copy its URL names (`ItemOK`), and the URL is asked for only while that
copy lives or by a request one unit late (`AskOK`). The number of requests,
processes, versions, tokens and replacements is arbitrary.

**Studies.** `StudiesAreComponents` and `ServingStudiesAreComponents` say that
a behaviour of `TasksSpec` or of `ServingSpec` is one of each component's
specification, parked or not: the studies share no variable, and an instance
only narrows a component's initial states and steps. So what is proved of a
component holds of the very instance TLC runs. From them and the components'
invariants follow `TasksAreTyped` and `ServingIsTyped`, with three more facts:
no mint is beyond the bound on tokens (`FewTokens`), the item in Redis is of a
version that exists (`RawTyped`), and the page shows no more than is served
(`PageTyped`, for the two changes and two failures of the instance).

Model-checked only: every liveness property (`CurrentRequestResolves`,
`SweepEnds`, `WaitersAreAnswered`, `DeliveredIsShown`), since fairness is out
of the prover's reach.

## Not modelled

* Floating-point geometry (footprints, reprojection, distances): shapely and
  PostGIS do it. Where it decides, its answer is a value: a scene contains the
  parcel or not, a point is within the radius or not.
* The one-off repair and enrichment scripts: they edit rows the modelled
  actions also write, by hand and once.
* The deploy gate and the validation of flags of `requeue_parcels`.
* The insert-only `scenes` catalogue; eviction of the row cache and the
  browser's day-long tile cache; signing of single URLs outside a container;
  the host allowlist.
* Paging of a STAC or portal search: a search answers, is truncated or fails.
* The split of an address string into words.
* Configuration, logging, redaction, schemas, migrations (the constraints they
  create are in the actions), featured places, demographics reads, previews and
  the user interface.

## Plan

Modelled: the lifecycle, the source tasks, selection, backfill, admission with
batch scripts, signing, tiles, searches, limiter and polling. Proved: every
safety property, and two refinements of abstract specifications. Left:

1. The `scenes` catalogue, with the scripts that enrich it.
2. The deploy gate of `requeue_parcels`.
