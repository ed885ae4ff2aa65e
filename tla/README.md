# KŻ-Panel: formal models of the panel's core

TLA+ models of the job-offer panel in this repository: the NestJS API
(`backend/`), the Angular client (`frontend/`) and the scraper worker
(`scraper/`).  Every definition is translated from the source; `PROJECT.json`
maps each to the lines it stands for, and lists the runs, the faulty variants
that show each property can fail, the findings, the hazards and the theorems.

    tlc -config ScrapeService.cfg MCScrapeService.tla   # one of the runs
    tlapm ScrapeServiceProofs.tla                       # one of the proofs

Contents: 1 inventory, 2 modules, 3 runs and bounds, 4 fairness, 5 proofs,
6 findings, 7 what is not modelled, 8 plan.

## 1. Inventory

How the parts interact: a browser calls the API over HTTP and hears of finished
runs over a websocket; the scheduler and the users ask for runs, which wait in
the run queue; the run underway asks the worker for one target at a time; the
worker drives one browser over the portals and answers with offers, which the
run writes into the table that the browsers list.

### The API (backend/)

| part | state | operations | what is hard | correct when |
| --- | --- | --- | --- | --- |
| run queue (`scrape-queue.service.ts`) | `queue`, `running`, in memory only | `enqueue`, `drain` | the push and the end of the drain loop; a rejected run ends the process and with it the queue | one run at a time, in order, each once, none left waiting |
| scrape run (`scrape-orchestrator.service.ts`) | rows of `job_offers` | `runTargets`, `runForTarget`, `upsert`, `pruneStale` | every await lets a request in: the target is removed or cleared, an offer deleted or dismissed, between select and write | one row per offer, stale only with evidence, decisions of users survive |
| scrape targets (`scrape-targets.service.ts`) | rows of `scrape_targets` | create, update, clear, remove, counts | remove is two statements | a removed target leaves nothing behind |
| time slots (`scrape-schedules.service.ts`, `scrape.scheduler.ts`) | rows of `scrape_schedules`, the clock | create, update, remove, `handleTick` | update validates a row it read before an await; a minute missed is missed | slots are valid, fire again and again while active, never while off |
| users (`users.service.ts`, `jwt.strategy.ts`) | rows of `users`, the map `authCache` | `getAuthInfo`, update, remove | the map is filled and emptied across awaits | a change takes effect |
| accounts (`auth.service.ts`, `sliding-token.interceptor.ts`) | rows of `refresh_tokens`, one-time tokens | register, activate, login, refresh, logout, reset | two requests with the same row | a client keeps or ends its session, never half |
| offers, recruitment (`jobs.service.ts`, `recruitment.service.ts`) | rows of `job_offers`, `recruitments` | list, dismiss, delete; apply, update, delete | meet the run above; soft-deleted rows | what is listed is what is stored |
| notifications (`notifications.gateway.ts`) | none | `emitScrapeCompleted` | a browser that is not connected is not told | |
| search (`search.service.ts`) | none | one query | the text is trimmed before its length is looked at | rows that contain the text |
| statistics, audit (a log row after each write, always without a user), health, guards, filters, configuration, migrations | none of their own | queries, plumbing | | |

### The client (frontend/)

| part | state | operations | what is hard | correct when |
| --- | --- | --- | --- | --- |
| session (`core/auth`, `core/interceptors`) | tokens in storage, the user, the shared refresh | login, refresh, logout, resume | several refusals at once, answers of an earlier session, another tab over the same storage | signed in as one account or none; a refresh token is sent once |
| jobs page (`features/jobs`) | scrapers, selection, filter form, NgRx store | pick, filter, page, dismiss, delete | lists, updates and counts answered in any order, a debounced form, the route; a page left behind whose calls go on | it shows what was asked for last |
| scraping page, websocket (`features/scraping`, `core/websocket`) | `running`, `lastResult`, `targets`, the socket | run, change, load | the end of a run is news over a line that breaks, and is told to all | waits exactly while a run is owed |
| recruitment (`features/recruitment`) | `items` | load, apply, status, delete | answers in any order | shows what is stored |
| users page (`features/users`) | the rows shown, the one that waits (`pendingId`), the dialog open | load; activate, role, permissions, remove | answers overlap each other, the changes of others and the visit before | what is shown in the end is what is stored |
| global search (`shared/ui/global-search`) | the text, the rows found, `loading`, `open`, the stream | input, answers, close | the list is cleared at once, the stream only after the debounce; it ends with its first error | the list belongs to the text |
| settings, landing, sign-in pages, shared components | page state | forms, one call each | | |

### The scraper worker (scraper/)

| part | state | operations | what is hard | correct when |
| --- | --- | --- | --- | --- |
| pipeline (`scrape.service.ts`) | none | `scrape` | partial failures make short answers | every scrape ends; a row says what the portal said |
| browser (`playwright.fetcher.ts`) | one browser, one detail page | `getBrowser`, `withPage`, `extractDetail` | launches side by side, overlapping scrapes, a crash | contexts are closed, an extractor sees its own offer |
| portal strategies (`strategies/`) | none | seven paging loops, filters, the reading of card and page | the portal changes between two requests, between card and page; a page fails; salaries are texts | loops end and miss nothing; offers fit the search; a pay is stored as stated; a failed page costs nothing |

## 2. Modules

A step is what runs between two awaits (API, worker) or one callback
(client); the code is single-threaded in each process, so nothing runs inside
a step.  Calls and answers underway are sets of records, delivered in any
order.  History variables, named so at their declaration, only record what
happened, for the properties.  `MC*` modules hold the constants of the runs.
Operators `<definition>_<fault>` are plausible mistakes and no part of any
specification.

| module | models | state and actions |
| --- | --- | --- |
| `RunQueue` | the promise of the run queue: served in order, once, lost only with the process | abstract |
| `ScrapeQueue` | `ScrapeQueueService` | `queue`, `running`, `inFlight` (the loops suspended in a run); `Enqueue`, `RunResolves`, `RunRejects`, `Stop`. Implements `RunQueue` (`ImplementsRunQueue`) |
| `OfferLifecycle` | the promise about an offer: what may become of the copy of a url | abstract |
| `ScrapeRun` | one run of the orchestrator over all targets, each await a boundary, with the requests that create, disable, clear and remove targets and dismiss and delete offers | `offers` as a set of rows, `pc` of the run, the snapshot `todo`, the answer `raws`, `seen`; one action per await. Implements `OfferLifecycle` |
| `ScrapeService` | the two together: what the loop of `drain` awaits is the run underway | both states and `wanted` (what each entry asks for); `Ask`, `Start`, `Complete`, `FindFails`, `Crash`, and the steps of the run and of users |
| `ScrapeServiceProofs` | theorems about `ScrapeRun`, `ScrapeQueue` and it | |
| `ScrapeSchedules` | time slots and `ScrapeScheduler` | slots, clock over a short calendar, the tick's query and its enqueues as two steps, updates as read and write |
| `AuthCache` | `getAuthInfo` and the changes that empty the map; a hit changes nothing and is no action | `db`, `cache`, the phase of each request, outstanding invalidations |
| `UsersPage` | the users page over `AuthCache`: each change it asks for is a statement, an invalidation and a second query, while others change users too | `shown`, `pendingId`, `dialog`, `calls` and how far each is in the API |
| `ClientSession` | one tab, and another that writes the same storage: user, two interceptors, start-up, sign-in and sign-out; the API only as what the client sees of it | `access`, `stored` and `refresh` (this tab's signal and the two tokens in storage), one record per call underway, one for the shared refresh, `other` (the account of the other tab) |
| `ClientSessionProofs` | theorems about it | |
| `JobsBrowser` | the jobs page with its form and debounce, the NgRx store and effects, the queries of the API behind them | `route`, `pending`, `selected`, `form`, `rows`, `lists` (switchMap leaves one), `updates` (mergeMap keeps all), `left` (pages destroyed whose calls for the scrapers go on, and may apply a scraper to the store); `LeftPageAnswered`, `LeftPageFailed` |
| `JobsBrowserProofs` | theorems about it | |
| `Recruitment` | the facade's `items` over the table of entries, as the recruitment page and the jobs page use it | `entries`, `items`, `calls` |
| `ApiProofs` | theorems about `Recruitment` and `ScrapeSchedules` | |
| `GlobalSearch` | the search box, its stream and the query behind it | `query`, `results`, `open`, `timer` (the debounce), `last`, `call` (switchMap leaves one), `alive` |
| `ClientProofs` | theorems about `AuthCache`, `UsersPage` and `GlobalSearch` | |
| `ScrapingPanel` | the scraping page of each user, its websocket, the queue and the gateway | `running`, `runningId`, `lastResult`, `calls`, `socket`, `events` (numbered: two equal ones are two), `queue`; the line breaks (`Unplug`, `ConnectError`), comes back (`Connected`) or is made anew (`Reload`, `SignAgain`) |
| `ScrapingPanelProofs` | theorems about it | |
| `PortalCrawl` | the paging loop of each of the seven strategies over a portal that changes | `listing` (the portal), `page`, `from`, `pages`, `found` |
| `OfferIntake` | one offer from its portal to its row: the filters of each `fetchList`, each `fetchDetails` for work modes, pay, levels and forms of contract (the tables of words are in `OfferWords`), `normalize` and `upsert` | `offer` (the portal's), `card`, `page`, `raw`, `row`; `FetchList`, `FetchDetails`, `DropOffer`, `Upsert`, `ScrapeFails`, `Change` |
| `SalaryText` | a salary as a portal writes it, and the four parsers of such texts: pracuj.pl's, bulldogjob's, theprotocol's and the API's | no state: an amount is a head, a tail and one of eight ways to write them (13 005, 13.005, 13,05, 13.05, 13,5k ...); each parser is what its regular expression and its replacements make of each way |
| `OfferIntakeProofs` | theorems about the two | |
| `ScrapeWorker` | overlapping scrapes over one browser and one detail page | one `pc` per task, `browser`, `running` (processes), `context`, `detailPage` |
| `WorkerProofs` | theorems about `ScrapeWorker` and `PortalCrawl` | |

`ScrapeService` extends `ScrapeRun` and instantiates `ScrapeQueue`, `UsersPage`
extends `AuthCache`.  Three modules of proofs serve two unrelated modules each; where
these would share a name, one says whose it is (`CrawlSpec`, `SearchSpec`,
`SchedulesSpec`, `PageSpec`).  `ScrapingPanel` composes the client with the queue in its plainest form, a
sequence; that the queue is one is what `ScrapeQueue` shows of it.  `ScrapeRun`
takes runs one at a time, which `SerialRuns` proves of `ScrapeService`, and the answers of the worker
as any set of offers, complete or not, which is what `PortalCrawl` and
`ScrapeWorker` leave open.  `OfferIntake` fills in what an offer is: it takes up
a card where `PortalCrawl` has found it, and ends with the write that
`ScrapeRun` places among the requests of users.

## 3. Runs and bounds

Every run ends with all states explored.  The one marked * finds the violation
that section 6 describes.

| run | bounds | why they are enough |
| --- | --- | --- |
| `scrape_run` (`ScrapeService`), `scrape_run_orphans`* (`ScrapeRun` alone) | 2 targets, 2 urls, answers of up to 2 offers (the same one twice included), 3 runs, 3 requests; 3 runs asked for | a row is found, lost, found again; a request falls between any two awaits of a run, and two before it; two entries wait behind the one in hand, one comes after a restart |
| `scrape_schedules` | 1 slot, days of 2 minutes, a calendar with days that a slot does not fall on, 5 requests | two updates overlap and three further requests follow; the clock comes round |
| `users_page` | 2 users and 2 values for them (symmetric), 1 request, 2 statements, 2 visits or calls, any call may fail | two calls about the same user or different ones, or one and a change of somebody else, overlap with each other, the list and a request; that more requests are no different is proved |
| `client_session` | 2 accounts, 2 roles, 2 calls at once (all symmetric), the other tab in any account | a call of each account is underway; two refusals share a refresh; the other tab signs in as the other account between any two steps |
| `jobs_browser` | an own scraper and one of another account, 3 offers, 2 filters, pages of one row, any call may fail, 3 acts of the user | pick, type, leave or pick again: each answer can come after each later act, that of a page left behind after another scraper was picked on the next |
| `recruitment` | 2 offers, an entry of another user seen by an administrator, 2 statuses, 4 acts | two applications, a change and a list overlap |
| `global_search` | two texts that rows contain or not, one too short, one too short once trimmed, the empty one; searches may fail | type, shorten, put back: each answer can come after each later input |
| `scraping_panel` | 1 user, 1 scraper and the scheduler, 3 acts, 2 faults | the scheduler's runs are the foreign ones; a fault (a broken line, a reload, a new sign-in, a restart) and its consequence |
| `portal_crawl` | portals of up to 7 offers, 2 posted and any number removed meanwhile, windows of 2, 3 pages or clicks | full, partial and empty last windows, the limit, a change between any two requests |
| `offer_intake` | one offer of each portal, every set of modes, range (open, whole, none) over 2 heads with or without a tail, written in every one of the 8 ways at either end on the three portals that write texts (in one setting of the rest), and period, up to 2 words for levels or forms with a whole range; every search; 1 change, 2 scrapes | amounts that do not divide by 12, fractions, thousands with and without figures after the separator, ranges that mix two ways; the change falls between list and page, between the scrapes, or nowhere; either page may fail |
| `scrape_worker` | 3 scrapes (a list with two details, two lists side by side, one detail), 1 given up, 1 crash | the one given up overlaps each of the others |

What each checks, in short:

- `scrape_run`: one row per offer (part of `ServiceTypeOK`), freshness exactly for what
  was stored, stale only with evidence, decisions of users survive, removals are
  final unless they raced a run, and the table implements `OfferLifecycle`; runs are
  served first come, first served, each call once and in the end, no backlog is
  idle: with the real runs behind it the queue implements `RunQueue`.
- `scrape_schedules`: slots are valid unless updates of them overlapped, never
  fire while off, fire again and again while active.
- `users_page`: an entry of the cache is stale only after a change in the gap of a
  request; a row that waits gets an answer (part of `PageTypeOK`), and what is
  shown in the end is what is stored, but for the exceptions of section 6.
- `client_session`: one identity, across two tabs, and a role that follows the token; one refresh
  serves all (each refresh token sent once, no call waiting for nothing, a session
  ended by a failed refresh or the user only).
- `jobs_browser`: rows, filter and view are those asked for last, and the
  loading state is up exactly while a list is asked for (part of `TypeOK`).
- `recruitment`: an offer is applied to twice only in haste, and what is shown in
  the end is what is stored.
- `scraping_panel`: a scraper is marked as running only while its page waits
  (`MarkedWhileRunning`, part of `TypeOK`), the page waits exactly while a run is owed to it, and its list
  follows what it was told.
- `global_search`: at rest the list belongs to the text in the box; spinner and
  loading bar are up exactly while a search is underway (part of `SearchTypeOK`).
- `portal_crawl`: loops end and miss nothing that was there from the start.
- `offer_intake`: a row says what the portal said of the offer, its pay as far as
  the strategy reads the way it is written, and belongs to the search of its scraper, and a page that fails takes nothing from it, each with
  the exceptions named in section 6.
- `scrape_worker`: contexts are closed (part of `TypeOK`), one browser unless raced, extractors go
  wrong only when scrapes overlap, every scrape ends.

`CHECK_DEADLOCK FALSE` stands where the bounds, or a system with nothing to
do, may stop.

## 4. Fairness

Only what the runtime guarantees is assumed to happen:

- an await settles (API, worker): queries end, the client of the worker gives
  up after half an hour of silence, page loads and fetches have timeouts;
- the clock goes on while the process is up (`ScrapeSchedules`).

Nothing is assumed of users, of portals, of a restart of the process, or of a
connection coming back.  `PortalCrawl` assumes only that a request which does
not fail is answered: no loop may rely on a failure to end it.  `ScrapeQueue`
assumes that runs end; in `ScrapeService` the run itself has to, under weak
fairness of its own steps (`ServiceStep`), and `ImplementsRunQueue` shows that it
does.  `UsersPage`, `ClientSession`, `GlobalSearch`, `JobsBrowser`, `Recruitment` and
`ScrapingPanel` assume nothing and check safety only: that something is waited for only while an answer is owed
is an invariant (part of `OneRefreshServesAll`, `WaitsWhileOwed`, `loading` in `TypeOK` of
`JobsBrowser`), and that answers come is up to the network.

## 5. Proofs

Every theorem holds for every value of the constants; `PROJECT.json` lists them
with the properties of the runs they state.  Every invariant and every action
property of the passing runs is among them, and so are the refinements, but for
the part of `ImplementsRunQueue` that is liveness.  All safety proofs have the same
frame: an inductive invariant (`IInv`; `PageIInv`, `SearchInv`, `SchedulesInv`,
`CrawlInv`, `QueueInv` where a module has several), a lemma that the initial states
have it, a lemma for each action, and the properties as its consequences.  None
of the properties is inductive alone, for a step of theirs uses what another
step left behind; what follows is what had to be added.

### API

`ScrapeServiceProofs`, about `ScrapeRun`: `TypeOK` (with
`OneRowPerOffer` in it), `FreshIffStored`, `CleanRemovalIsFinal`, the action
property `RunsTouchFreshnessOnly` and the refinement of `OfferLifecycle`.  The
rows divide at the end of a scrape because what it stored is fresh well before
its prune (`SeenFresh`), and an update hits because the row its select found stays
in the table until the offers are cleared (`HitThere`); a removal is
final because a removed target that the run still has to do, or works on, is
recorded as raced (`RacedTargets`).  For the refinement each action changes the life of each
(target, url) by a lawful step or not at all (`LawfulLife`, `StepLawful`); it
does not use the fairness of the run.

About `ScrapeQueue` as `ScrapeService` instantiates it: that no backlog is idle
after a run needs that the run that ends was the only one, which needs the flag
to be up exactly while one is suspended; the refinement of `RunQueue` needs that
no call is in two places (`QueueInv`).  The lemmas before it say what `Append`,
`Head` and `Tail` do to the range of a sequence without repetitions.

About `ScrapeService`: each of its steps is a step of `ScrapeQueue`
or leaves the queue alone (a crash with nothing queued among them), and is a step
of `ScrapeRun` or leaves run and tables alone.  What is proved of the two
modules so holds of the composition (`BacklogIsServed`, `SerialRuns`,
`CallsAccountedFor`, `ServiceRefinesRunQueue`, `ServiceKeepsFreshness`,
`ServiceRemovalIsFinal`, `ServiceDecisionsSurvive`, `ServiceImplementsLifecycle`);
`ServiceTypes` adds what they share, that every pending entry asks for something
and that a run underway has an entry in hand (`Joint`).

`ApiProofs`, about `Recruitment`: `TypeOK`, `AppliedTwiceOnlyInHaste`,
`SettledItemsTellTheTruth`.  The tab may be wrong about an offer while a change of
it is underway, so the invariant says how wrong: of an offer the tab is sure of
one change is underway at most, and the items tell its entries but for the one
that this change has written (`SureOfItems`, `Fits`).  A load makes the tab sure
again of what no call touched meanwhile, so its answer has to tell the table
before it arrives (`LoadsTell`).  That there is one application needs that no
other is on its way (`OneApplication`), and that the table holds no more entries
than there were acts needs that each act makes one at most (`RoomForEntries`).
`Kept` filters a list one by one; that it keeps what it should, once and in
order (`KeptKeeps`), is an induction over the places of the list, which `IntervalInduction`
makes possible: a set of numbers that holds 0 and each successor up to n holds
all up to n, since those it missed could be mapped one to one to fewer.

About `ScrapeSchedules`: `SchedulesTypeOK`, `InvalidOnlyByRace`, `NoRunWhileOff`.  A patch
was judged by a row that may have changed since, so the invariant says that the
patch of a slot that was not raced is the only one of it and leaves the row valid
(`PatchesValid`, `PatchAlone`); and that a slot that is off is inactive or absent
(`OffIsOff`), and what a wake-up found due does not outlast it (`DueInTick`).

### Client

`ClientProofs`, about `AuthCache`: `TypeOK` and `StaleOnlyByRace`.  A
fill writes what was read earlier, so `IInv` adds `ReadsAgree`, that a read
not overtaken by a change agrees with the table.

About `UsersPage`: the page implements `AuthCache`
(`PageImplementsCache`), since each of its steps is one of `AuthCache` or leaves
table and cache alone; `StaleOnlyByRace` so holds with any number of its
calls underway, lost or cut off (`RolesStaleOnlyByRace`).  `PageTellsTheTruth` needs
what each call carries: a list or an answer that was read agrees with the
table but for users changed since (`CallsRight`), a list is alone (`ListAlone`),
a call of a user that is not unsure is the only one, and changes are asked of
users that are shown (`ShownRight`, `DialogShown`).  That calls have different
numbers is the pigeonhole principle (`FreeNumber`).

About `GlobalSearch`: `SearchTypeOK` and `ListAnswersTheBox`.  The latter speaks of a
box at rest; `SearchInv` says what holds in between: the search underway is for the
text let through last (`CallForLast`), the rows are of that text (`RowsOfLast`), and
with no timer running that text is the one in the box (`LastIsBox`).

`ClientSessionProofs`: `TypeOK`, `OneIdentity` and `OneRefreshServesAll`, an
action property within.  While no sign-in or sign-out has crossed
anything, each call underway, the refresh and the other tab are of the owner of
the session or of nobody (`CallsFit`, `RefreshingFits`, `OneSession`); a start-up
refresh makes no call meanwhile (`BootAlone`); a call waits only with
a refresh underway.

`JobsBrowserProofs`: `TypeOK`, `ListAnswersTheBar`, `SettledRowsTellTheTruth`,
`ViewFollowsRoute`.  With something underway the rows are allowed to differ from
the table, so the invariant speaks of the calls: one list call at most, of the
filter in the store (`OneList`, `ListsFit`), with what the API holds when it is
answered (`ListsTrue`); one update for a row that is trusted and no list beside
it (`UpdatesAlone`), whose answer is what the API holds (`UpdatesTrue`).  The filter
asked differs from the bar only while the timer runs, which will pass on what
the bar shows (`FilterOfSelected`, `BarWaits`), or after a page left behind asked
last, with no filter and for a scraper the address has named (`haunted`); and a pending address is the one
in the bar of the browser unless the tab strayed (`PendingIsRoute`).  The pages of
the table are counted by a division, bounded in `PagesBound`.

`ScrapingPanelProofs`: `TypeOK`, `WaitsWhileOwed`, `ListKeepsUp`, for any number of
browsers, where the run looks at one.  A call for a run that has been
answered, not yet heard, does not justify waiting by itself: the run it asked
for is queued, or told of, or the news was missed (`NewsOnItsWay`).  And a user whose
loads did not overlap has one load at most, which read nothing old
(`OneLoad`, `LoadsAreNew`), so a page that is outdated is loading.

### Worker

`WorkerProofs`, about `ScrapeWorker`: `TypeOK`, `OneBrowserUnlessRaced`,
`MixedOnlyWhenShared`, for any number of scrapes, pages and crashes.  A second
browser would come from a launch that ends when there is one already: unless
two were underway at once the field is empty while one is (`OneLaunch`).  An
extractor reads its own offer because the shared page, while one scrape is
underway, is the page that its detail waits for and goes where that sent it
(`OneScrape`); which needs that a detail underway has an offer left
(`TasksPlaced`), and that lists never have the page of a detail in hand
(`PagesApart`).

About `PortalCrawl`: `CrawlTypeOK` and `NothingMissed`, for windows, limits and
portals of every size.  `NothingMissed` speaks of the end of a crawl.  While it goes
on, what was there at the start and stands above the next window has been taken
(`PassedTaken`), and what stands below the window that was asked for last has not
been seen (`BelowUnseen`): offers that are added push others down, never up, and
by less than a window between two requests.  A loop that stops because the
portal announces no more is then past the last offer (`SearchEnds`), and so is one
that stops because a window has no news (`NoNewsIsTheEnd`).  For the two that count
pages at the start the pages counted have room for all offers, if none is added
(`CountRight`, `AnnouncedHolds`); for those that search twice what the first search
held stays held (`FirstHeld`, `RemoteHeld`).  One lemma for each strategy says that
its turn is one of these.

`OfferIntakeProofs`: `TypeOK`, `RowTellsTheOffer`, `RowFitsTheSearch` and the action
property `LostPageHarmless`, for all amounts and any number of changes, scrapes
and words.  Card, page and row are read at different moments; the invariant says
what each was made of (`Sources`): the card passed the filters of its strategy, and
raw offer and row are what the strategy and the API make of the card and the
page kept with them.  What remains is about one card and one page, proved for
each strategy: its table of words (`Agrees` with what the words mean), its
arithmetic of pay, its modes.  Of a text with amounts it is shown what each
parser makes of each way of writing them (`PracujPlReads`, `BulldogReads`,
`TheProtocolReads`), which numbers become the ends (`EndsOfOne`, `EndsOfTwo`), and
that ends read off amounts written as the parser expects are the stated ones
(`ReadOut`); where numbers were read at all, the API's second reading of the text
adds none (`NothingAdded`).

### Assumptions

They are named in the modules that declare the constants, and every run
evaluates its own.  Bounds are numbers (`BoundAssumption`, `PanelAssumption`), `None`
is none of the values it stands in for (`NoneAssumption` of `ClientSession`, `JobsBrowser`
and `OfferIntake`, `SalaryAssumption`, `NoAmountAssumption`); there are finitely many offers where a table has them
(`JobsBrowser`, `Recruitment`), and at least one to apply to; a portal shows at first
offers that are not the ones added later, each once in a list (`ListingAssumption`).
No theorem assumes fairness.

### Only model-checked

- Liveness, which TLAPS cannot prove here: `CrawlEnds`, `ScrapesEnd`,
  `ActiveSlotsKeepFiring`, and of `ImplementsRunQueue` that every run asked for is
  served (its safety part is `ServiceRefinesRunQueue`).
- `RemovedWithAllOffers` is violated (section 6), so there is nothing to prove.

## 6. Findings

One run fails on a property that a text of the repository states.

| run | what the code does |
| --- | --- |
| `scrape_run_orphans` | a target removed while a run scrapes it leaves offers behind |

Other departures are the exceptions that the properties make, most of them kept
by a history variable, and each reached in its run:

- `InvalidOnlyByRace` (`raced`): two overlapping updates, each valid, leave a
  weekly slot without a day;
- `StaleOnlyByRace` (`raced`): a change between the read and the fill of a
  request leaves the old role in the cache until the next change;
- `CleanRemovalIsFinal` (`raced`): the orphans of the finding;
- `NothingMissed`: LinkedIn's second crawl, for remote offers, stops at its first
  page when the first crawl has seen those cards, and misses the ones below, where
  the comment has it page "until it runs dry" (`linkedin.strategy.ts:60`);
- `RowFitsTheSearch`: with `includeAllRemote` ("Include remote from all Poland",
  `scraping.json:36`; the API takes it, but no source's fields show the box,
  `source-fields.ts:21-53`) JustJoinIT is asked for no city at all, and brings every offer of every city
  unless remote ones only are wanted; theprotocol and LinkedIn do not look at the
  mode wanted;
- `LostPageHarmless`: a page of NoFluffJobs that fails wipes the modes, the pay, the
  levels and the forms of contract of a row that was complete (and the recruitment
  form then assumes remote), one of LinkedIn the levels and forms; bulldogjob
  falls back to a coarser mode;
- `ListAnswersTheBar` (`haunted`): a page left before its scrapers came applies the
  scraper it was waiting for when they do, and so puts that scraper's offers,
  unfiltered, under the scraper and the filter of the page now open, which shows
  them until it loads again;
- `ListKeepsUp` (`crossed`): two loads underway are answered in any order, and the
  older one may be shown last, or a load fails;
- `RowTellsTheOffer` (`ReadRight`): each strategy reads amounts in some of the ways a
  portal may write them, and makes other amounts of the rest.  pracuj.pl reads
  13 005, but 13.005 and 13,05 as two amounts and 13k as 13; bulldogjob drops all
  but digits, so 13,05 becomes 1305; theprotocol reads 13.5k, but 13 005 as two
  amounts, 13.005 as 13 and of 13,5k nothing after the comma, a second end
  included.  NoFluffJobs' yearly pay is stored as if it were monthly;
- `RowTellsTheOffer`: of an open range OLX keeps a lower end only, and it,
  pracuj.pl, bulldogjob and theprotocol make a single amount both ends; LinkedIn's
  internships are for a JUNIOR, not an INTERN, and OLX has no level but MID;
- `MixedOnlyWhenShared` (`shared`): two overlapping scrapes share the detail page
  and mix up details;
- `OneIdentity` (`mixed`): the answer to a sign-out, arriving after somebody else
  has signed in, brings the token of the account that signed out; (`split`): a
  sign-in or sign-out in one tab is not seen by the other, whose next answers put
  its own access token into storage, beside the refresh token of the first, until
  it is loaded again, or signs out or in;
- `SettledRowsTellTheTruth` of `UsersPage` (`unsure`): a row keeps what the page
  read of it while somebody else changed the user, two calls about the user were
  answered out of order, or one failed after its statement;
- `ListAnswersTheBox`: a text shortened and put back within 300 ms leaves an empty
  list, for `distinctUntilChanged` has seen it already (`cleared`); an answer
  opens the list over a text shortened meanwhile (`late`); after a failed search
  the box searches no more until it is created anew (`alive`);
- `ViewFollowsRoute` (`strayed`): a scraper waited for, then left, takes the view
  back when it is loaded;
- `AppliedTwiceOnlyInHaste` (`hasty`), `SettledItemsTellTheTruth` (`unsure`):
  clicks before an answer, overlapping answers;
- `WaitsWhileOwed` (`adrift`, `missed`): the end of a run
  of somebody else is taken for the own one, and news can be lost.

Also met while reading: an offer the portal lists, whose write fails, is marked
stale although the panel then says "No longer on the portal"; an offer whose
recruitment entry was deleted does not count as pending again; the counts of the
picker are read before the dismissals they should reflect are served; the answer
to a dismissal puts the offer among the rows of another scraper picked
meanwhile; opening a job found by the global search passes `scrapeTargetId`,
which the jobs page does not read (it reads `scraper`), so the picker opens;
an hourly amount of pracuj.pl, bulldogjob, theprotocol or OLX is
stored next to monthly ones; OLX's amounts with a fraction do not fit the
integer columns, so that the offer is not written; clearing the location or the mode of a scraper in the edit form sends no field and
changes nothing; `scrapersLoading` stays up when the list of scrapers fails; a list that
fails leaves the rows before it in place; an administrator does not see Apply
for offers another user applied to; the users page sends the whole set of
permissions that it read when the panel was opened; one `pendingId` serves all its
rows, so that the answer for one row releases another that still waits.

## 7. Not modelled

- Fields of an offer other than work modes, pay, levels and forms of contract
  (technologies, texts, language, dates), currencies, and the texts that portals
  write modes in: `OfferIntake` takes a mode for its words, and `OfferWords` one
  word for all the texts that a strategy takes for the same level or form.
- Of pay: one contract's for each offer, the one its strategy takes
  (JustJoinIT's first; NoFluffJobs' b2b, else permanent, else first); whole amounts
  where the portal sends numbers (JustJoinIT and NoFluffJobs round others, OLX
  does not); one range in a text, with figures in it (of one without, bulldogjob
  would make 0).
- Failures whose effect is that of one that is modelled, or of none: the query for
  the slots due fails (the tick is lost, as a minute in which the process is down
  is); a listing does not say how many pages it has (the crawl ends with its first
  page; portals are taken to announce them); `addInitScript` fails after
  `newContext` (one step in `ScrapeWorker`: with the browser gone, which takes its
  contexts along; if it failed otherwise the context would stay open).
- A second socket: the session ends without `logout()` while the first retries,
  and `connect()` after the next sign-in makes another beside it.
- Statistics, audit, guards, configuration, health, migrations: queries
  and plumbing without state of their own; nothing reads the audit log.
- Presentation: layout, translations, theme, toasts, tables.
- The other tab's calls overlapping its own other steps: `ClientSession` answers
  them at once; which role its stored token carries is left open.
- `scrapeList`, `scrapeDetails`, `autoScroll`: nothing calls them.
- Ownership checks of the controllers: every request modelled passes them.

## 8. Plan

Done: the modules above, and a theorem for every safety property that the
passing runs check.  Next, in this order:

1. `Accounts`: registration, activation, passwords, the rows of
   `refresh_tokens`; composed with `ClientSession` so that its
   API is no longer nondeterministic.  Abstract specification: a session begins,
   is renewed and ends.
2. `TargetsAdmin`: uniqueness of targets with empty locations and soft-deleted
   rows; ownership; the edit form.
3. Two browsers and the real queue in `ScrapingPanel`.
