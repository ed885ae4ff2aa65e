----------------------------- MODULE JobsBrowser -----------------------------
(***************************************************************************)
(* The jobs page of one browser tab: JobsListPage, the NgRx store behind   *)
(* it and the part of the API it calls.  The address decides which scraper *)
(* is selected; its offers are listed, filtered, dismissed and removed.    *)
(* Every call is sent, served by the API and answered in steps of its own, *)
(* and the answers of different calls come in any order.  A new list call  *)
(* cancels the one underway (switchMap), updates run side by side          *)
(* (mergeMap).  Which row is unfolded, the order of the rows and the       *)
(* recruitment entries of an offer are left out.                           *)
(***************************************************************************)
EXTENDS Naturals, FiniteSets

CONSTANTS
  Offer, Scraper,
  ScraperOf,   \* the scraper of each offer
  Others,      \* the scrapers of other accounts: {} unless the user is ADMIN
  Filter,      \* contents of the filter bar; NoFilter is the empty one
  NoFilter,
  Hits,        \* the offers each filter lets through
  PageSize,    \* PAGE_SIZE: 100 in the code
  Failures,    \* whether calls may fail
  MaxActs,     \* bound: what the user does in one behaviour
  None

ASSUME BrowserAssumption ==
  /\ IsFiniteSet(Offer) /\ ScraperOf \in [Offer -> Scraper]
  /\ Others \subseteq Scraper
  /\ Hits \in [Filter -> SUBSET Offer] /\ NoFilter \in Filter /\ Hits[NoFilter] = Offer
  /\ PageSize \in Nat \ {0} /\ MaxActs \in Nat /\ Failures \in BOOLEAN

\* None is no scraper, no filter, no row and no count.
ASSUME NoneAssumption == None \notin Scraper \cup Filter \cup BOOLEAN \cup Nat

VARIABLES
  route,       \* the scraper named by the address
  visited,     \* the addresses in the history of the tab
  selected,    \* selectedScraper
  pending,     \* pendingScraperId
  cards,       \* scrapers and otherScrapers: the pending count of each one known
  scrapersLoading,
  cardCalls,   \* calls for the scrapers underway
  left,        \* pages left behind that still wait for their pending scraper
  form,        \* the filter bar
  debounce,    \* the value the 300 ms timer will pass on
  page,        \* currentPage
  rows,        \* the store: the offers held, and whether each is dismissed
  filter,      \* the store: the filter of the last load
  loading,     \* the store
  error,       \* the store: what failed last
  lists,       \* list calls underway whose answer is still wanted
  updates,     \* PATCH and DELETE calls underway
  alive,       \* the API: offers not deleted
  dismissed,   \* the API
  acts,        \* what the user has done so far
  leftover,    \* history: rows that are not of the answer to the last load
  doubtful,    \* history: rows whose calls overlapped or failed
  strayed,     \* history: another scraper was shown while one was pending
  haunted      \* history: the last load was asked for by a page left behind

address == <<route, visited, strayed>>
picker == <<cards, scrapersLoading, cardCalls>>
bar == <<form, debounce>>
store == <<rows, filter, loading, error, lists, leftover, doubtful, haunted>>
api == <<alive, dismissed>>
vars == <<address, selected, pending, picker, left, bar, page, store, updates, api, acts>>

Row == BOOLEAN \cup {None}
Asked == [scraper : Scraper, by : Filter]
Count == 0..Cardinality(Offer)
CardCall == [n : 0..MaxActs, of : SUBSET Scraper, at : {"sent", "served", "refused"},
             counts : [Scraper -> Count \cup {None}]]
\* A component that was destroyed, and the scraper it still has as pending.
LeftPage == [n : 0..MaxActs, pending : Scraper]
ListCall == [asked : Asked, at : {"sent", "served", "refused"}, rows : [Offer -> Row]]
Update == [n : 0..MaxActs, of : Offer, to : Row,
           at : {"sent", "written", "served", "refused"}, answer : Row]

TypeOK ==
  /\ route \in Scraper \cup {None} /\ visited \subseteq Scraper
  /\ selected \in Scraper \cup {None} /\ pending \in Scraper \cup {None}
  /\ cards \in [Scraper -> Count \cup {None}] /\ scrapersLoading \in BOOLEAN
  /\ \A c \in cardCalls : c \in CardCall
  /\ \A p \in left : p \in LeftPage
  /\ form \in Filter /\ debounce \in Filter \cup {None}
  /\ page \in 1..(Cardinality(Offer) + 1)
  /\ rows \in [Offer -> Row] /\ filter \in Asked \cup {None}
  /\ loading = (lists # {})
  /\ error \in {None, "load", "update", "delete"}
  /\ \A l \in lists : l \in ListCall
  /\ \A u \in updates : u \in Update
  /\ alive \subseteq Offer /\ dismissed \in [Offer -> BOOLEAN]
  /\ acts \in 0..MaxActs
  /\ leftover \subseteq Offer /\ doubtful \subseteq Offer /\ haunted \in BOOLEAN

Known == {s \in Scraper : cards[s] # None}
Held == {o \in Offer : rows[o] # None}

\* What the page shows of the store: the table, or nothing while it loads.
Shown == IF selected # None /\ ~loading THEN Held ELSE {}

\* totalPages.
TotalPages ==
  LET full == (Cardinality(Held) + PageSize - 1) \div PageSize
  IN  IF full = 0 THEN 1 ELSE full

\* withOfferCounts: the offers of s nothing has been done about.
PendingOf(s) == Cardinality({o \in alive : ScraperOf[o] = s /\ ~dismissed[o]})

NoRows == [o \in Offer |-> None]
NoCounts == [s \in Scraper |-> None]

-----------------------------------------------------------------------------
\* loadScrapers: own scrapers, and for an ADMIN those of the others, with the
\* calls in live still underway.
LoadScrapers(live) ==
  /\ scrapersLoading' = TRUE
  /\ cardCalls' = live \cup
       {[n |-> acts, of |-> s, at |-> "sent", counts |-> NoCounts]
          : s \in {Scraper \ Others} \cup (IF Others = {} THEN {} ELSE {Others})}

Init ==
  /\ route \in Scraper \cup {None}
  /\ visited = {route} \ {None}
  /\ selected = None /\ pending = route
  /\ cards = NoCounts
  /\ scrapersLoading = TRUE
  /\ cardCalls = {[n |-> 0, of |-> s, at |-> "sent", counts |-> NoCounts]
                    : s \in {Scraper \ Others} \cup (IF Others = {} THEN {} ELSE {Others})}
  /\ left = {}
  /\ form = NoFilter /\ debounce = None /\ page = 1
  /\ rows = NoRows /\ filter = None /\ loading = FALSE /\ error = None /\ lists = {}
  /\ updates = {}
  /\ alive = Offer /\ dismissed = [o \in Offer |-> FALSE]
  /\ acts = 0 /\ strayed = FALSE
  /\ leftover = {} /\ doubtful = {} /\ haunted = FALSE

Act == acts < MaxActs /\ acts' = acts + 1

-----------------------------------------------------------------------------
(* Faulty variants: <definition>_<fault> is not part of the specification; *)
(* it stands for a plausible mistake in the code that a property catches.  *)

\* The effect uses mergeMap: an earlier list call is not cancelled.
Load_MergeMap(asked) ==
  /\ filter' = asked
  /\ loading' = TRUE /\ error' = None
  /\ lists' = lists \cup {[asked |-> asked, at |-> "sent", rows |-> NoRows]}
  /\ doubtful' = {u.of : u \in updates} /\ haunted' = FALSE
  /\ UNCHANGED <<rows, leftover>>

\* JobsFacade.setFilter: the store is told, and the effect sends the call.
\* old: it is a page left behind that calls.
LoadFor(asked, old) ==
  /\ filter' = asked
  /\ loading' = TRUE /\ error' = None
  /\ lists' = {[asked |-> asked, at |-> "sent", rows |-> NoRows]}
  /\ doubtful' = {u.of : u \in updates} /\ haunted' = old
  /\ UNCHANGED <<rows, leftover>>

Load(asked) == LoadFor(asked, FALSE)

\* applyScraper does not clear the filter bar.
ApplyScraper_KeepsBar(s) ==
  /\ selected' = s
  /\ page' = 1
  /\ UNCHANGED bar
  /\ Load([scraper |-> s, by |-> NoFilter])

\* applyScraper: clearFilters starts the timer again.
ApplyScraper(s) ==
  /\ selected' = s
  /\ page' = 1
  /\ form' = NoFilter /\ debounce' = NoFilter
  /\ Load([scraper |-> s, by |-> NoFilter])

\* The pending scraper is not forgotten when the address names none.
RouteChanged_KeepsPending(r) ==
  IF r # None /\ r \in Known
  THEN ApplyScraper(r) /\ UNCHANGED <<pending, picker>>
  ELSE /\ selected' = IF r = None THEN None ELSE selected
       /\ pending' = IF r = None THEN pending ELSE r
       /\ UNCHANGED <<picker, bar, page, store>>

\* The queryParamMap subscription of ngOnInit, told of the address r.
RouteChanged(r) ==
  \/ /\ r = None
     /\ selected' = None /\ pending' = None
     /\ IF selected # None THEN LoadScrapers(cardCalls) ELSE UNCHANGED <<scrapersLoading, cardCalls>>
     /\ UNCHANGED <<bar, page, store, cards>>
  \/ /\ r # None /\ r = selected
     /\ UNCHANGED <<selected, pending, picker, bar, page, store>>
  \/ /\ r # None /\ r # selected /\ r \in Known
     /\ ApplyScraper(r)
     /\ UNCHANGED <<pending, picker>>
  \/ /\ r # None /\ r # selected /\ r \notin Known
     /\ pending' = r
     /\ UNCHANGED <<selected, picker, bar, page, store>>

\* The cards of the picker, "back to scrapers", the history of the browser,
\* and the global search, which opens the page without naming a scraper.
Navigate(r) ==
  /\ Act
  /\ r # route
  /\ \/ r = None
     \/ r \in visited
     \/ selected = None /\ ~scrapersLoading /\ r \in Known
  /\ route' = r
  /\ visited' = visited \cup ({r} \ {None})
  /\ strayed' = (r # None /\ (strayed \/ (pending # None /\ r \in Known \cup {selected})))
  /\ RouteChanged(r)
  /\ UNCHANGED <<left, updates, api>>

\* ngOnDestroy does not cancel the calls for the scrapers.  Of those of a page
\* left behind only one matters: the first to be answered that can contain the
\* scraper still pending there.
Leave ==
  left' = left \cup
    (IF \E c \in cardCalls : pending \in c.of /\ c.at # "refused"
     THEN {[n |-> acts, pending |-> pending]} ELSE {})

\* The user leaves for another page and comes back to the address r: the
\* component is a new one, the store and its effects are the same.
Reopen(r) ==
  /\ Act
  /\ r \in visited \cup {None}
  /\ Leave
  /\ route' = r
  /\ selected' = None /\ pending' = r /\ strayed' = FALSE
  /\ cards' = NoCounts
  /\ LoadScrapers({})
  /\ form' = NoFilter /\ debounce' = None /\ page' = 1
  /\ UNCHANGED <<visited, store, updates, api>>

\* The user changes the filter bar.
Type(f) ==
  /\ Act
  /\ selected # None /\ f # form
  /\ form' = f /\ debounce' = f
  /\ UNCHANGED <<address, selected, pending, picker, left, page, store, updates, api>>

\* 300 ms without a change of the filter bar.
Debounced ==
  /\ debounce # None
  /\ debounce' = None
  /\ IF selected = None
     THEN UNCHANGED <<page, store>>
     ELSE /\ page' = 1
          /\ Load([scraper |-> selected, by |-> debounce])
  /\ UNCHANGED <<address, selected, pending, picker, left, form, updates, api, acts>>

GoToPage(p) ==
  /\ Act
  /\ Shown # {} /\ p # page
  /\ page' = p
  /\ UNCHANGED <<address, selected, pending, picker, left, bar, rows, filter, loading, error,
                 lists, leftover, doubtful, haunted, updates, api>>

\* The effects of the updates use switchMap: a click drops the answers to the
\* updates of other rows, which the API has carried out or will.
Send_SwitchMap(o, to) ==
  /\ Act
  /\ o \in Shown /\ page <= TotalPages
  /\ \A u \in updates : u.at # "sent"
  /\ updates' = {[n |-> acts, of |-> o, to |-> to, at |-> "sent", answer |-> None]}
  /\ doubtful' = doubtful \cup
       (IF lists # {} \/ \E u \in updates : u.of = o THEN {o} ELSE {})
  /\ UNCHANGED <<address, selected, pending, picker, left, bar, page, rows, filter, loading,
                 error, lists, leftover, haunted, api>>

\* A click on a row of the page shown: dismiss, restore (to) or remove (None).
\* Which rows the page holds depends on the order: any of those shown.
Send(o, to) ==
  /\ Act
  /\ o \in Shown /\ page <= TotalPages
  /\ updates' = updates \cup
       {[n |-> acts, of |-> o, to |-> to, at |-> "sent", answer |-> None]}
  /\ doubtful' = doubtful \cup
       (IF lists # {} \/ \E u \in updates : u.of = o THEN {o} ELSE {})
  /\ UNCHANGED <<address, selected, pending, picker, left, bar, page, rows, filter, loading,
                 error, lists, leftover, haunted, api>>

ToggleDismissed(o) == Send(o, ~rows[o])
Remove(o) == Send(o, None)

-----------------------------------------------------------------------------
\* The API's side of a call.
Served(c) == [c EXCEPT !.at = "served"]
Refused(c) == [c EXCEPT !.at = "refused"]

\* JobsService.findAll.
ServeList(l) ==
  /\ l \in lists /\ l.at = "sent"
  /\ LET found == {o \in alive : ScraperOf[o] = l.asked.scraper /\ o \in Hits[l.asked.by]}
         answer == [o \in Offer |-> IF o \in found THEN dismissed[o] ELSE None]
     IN  \/ lists' = (lists \ {l}) \cup {[Served(l) EXCEPT !.rows = answer]}
         \/ Failures /\ lists' = (lists \ {l}) \cup {Refused(l)}
  /\ UNCHANGED <<address, selected, pending, picker, left, bar, page, rows, filter, loading,
                 error, leftover, doubtful, haunted, updates, api, acts>>

\* ScrapeTargetsService.findAll or findOthers.
ServeCards(c) ==
  /\ c \in cardCalls /\ c.at = "sent"
  /\ LET answer == [s \in Scraper |-> IF s \in c.of THEN PendingOf(s) ELSE None]
     IN  \/ cardCalls' = (cardCalls \ {c}) \cup {[Served(c) EXCEPT !.counts = answer]}
         \/ Failures /\ cardCalls' = (cardCalls \ {c}) \cup {Refused(c)}
  /\ UNCHANGED <<address, selected, pending, cards, scrapersLoading, left, bar, page, store,
                 updates, api, acts>>

Step(u, v) == updates' = (updates \ {u}) \cup {v}

\* JobsService.update: findOne and the write, then findOne again for the
\* answer; a row that is gone is answered 404.
ServePatch(u) ==
  /\ u \in updates /\ u.to # None
  /\ \/ /\ u.at = "sent" /\ u.of \in alive
        /\ dismissed' = [dismissed EXCEPT ![u.of] = u.to]
        /\ Step(u, [u EXCEPT !.at = "written"])
     \/ /\ u.at = "written" /\ u.of \in alive
        /\ Step(u, [Served(u) EXCEPT !.answer = dismissed[u.of]])
        /\ UNCHANGED dismissed
     \/ /\ u.at \in {"sent", "written"} /\ (u.of \notin alive \/ Failures)
        /\ Step(u, Refused(u))
        /\ UNCHANGED dismissed
  /\ UNCHANGED <<address, selected, pending, picker, left, bar, page, store, alive, acts>>

\* JobsService.remove: a soft delete; the answer may be lost.
ServeDelete(u) ==
  /\ u \in updates /\ u.to = None /\ u.at = "sent"
  /\ \/ u.of \in alive /\ alive' = alive \ {u.of} /\ Step(u, Served(u))
     \/ Failures /\ alive' = alive \ {u.of} /\ Step(u, Refused(u))
     \/ (u.of \notin alive \/ Failures) /\ Step(u, Refused(u)) /\ UNCHANGED alive
  /\ UNCHANGED <<address, selected, pending, picker, left, bar, page, store, dismissed, acts>>

-----------------------------------------------------------------------------
\* loadFailure leaves loading as it is.
ListAnswered_FailureKeepsLoading(l) ==
  /\ l \in lists /\ l.at # "sent"
  /\ lists' = lists \ {l}
  /\ \/ /\ l.at = "served"
        /\ loading' = FALSE
        /\ rows' = l.rows /\ leftover' = {}
        /\ UNCHANGED <<error, doubtful>>
     \/ /\ l.at = "refused"
        /\ error' = "load" /\ leftover' = Held /\ doubtful' = Offer
        /\ UNCHANGED <<rows, loading>>
  /\ UNCHANGED <<address, selected, pending, picker, left, bar, page, filter, haunted,
                 updates, api, acts>>

\* loadSuccess and loadFailure.
ListAnswered(l) ==
  /\ l \in lists /\ l.at # "sent"
  /\ lists' = lists \ {l}
  /\ loading' = FALSE
  /\ \/ /\ l.at = "served"
        /\ rows' = l.rows /\ leftover' = {}
        /\ UNCHANGED <<error, doubtful>>
     \/ /\ l.at = "refused"
        /\ error' = "load" /\ leftover' = Held /\ doubtful' = Offer
        /\ UNCHANGED rows
  /\ UNCHANGED <<address, selected, pending, picker, left, bar, page, filter, haunted,
                 updates, api, acts>>

\* setDismissedSuccess: upsertOne, whatever the store holds by now.
PatchAnswered(u) ==
  /\ u \in updates /\ u.to # None /\ u.at = "served"
  /\ updates' = updates \ {u}
  /\ rows' = [rows EXCEPT ![u.of] = u.answer]
  /\ leftover' = leftover \cup (IF rows[u.of] = None THEN {u.of} ELSE {})
  /\ UNCHANGED <<address, selected, pending, picker, left, bar, page, filter, loading, error,
                 lists, doubtful, haunted, api, acts>>

\* deleteSuccess.
DeleteAnswered(u) ==
  /\ u \in updates /\ u.to = None /\ u.at = "served"
  /\ updates' = updates \ {u}
  /\ rows' = [rows EXCEPT ![u.of] = None]
  /\ leftover' = leftover \ {u.of}
  /\ UNCHANGED <<address, selected, pending, picker, left, bar, page, filter, loading, error,
                 lists, doubtful, haunted, api, acts>>

\* setDismissedFailure and deleteFailure.
UpdateFailed(u) ==
  /\ u \in updates /\ u.at = "refused"
  /\ updates' = updates \ {u}
  /\ error' = IF u.to = None THEN "delete" ELSE "update"
  /\ doubtful' = doubtful \cup {u.of}
  /\ UNCHANGED <<address, selected, pending, picker, left, bar, page, rows, filter, loading,
                 lists, leftover, haunted, api, acts>>

\* An answer to loadScrapers, and resolvePending; the address is not read again.
CardsAnswered(c) ==
  /\ c \in cardCalls /\ c.at = "served"
  /\ cardCalls' = cardCalls \ {c}
  /\ cards' = [s \in Scraper |-> IF s \in c.of THEN c.counts[s] ELSE cards[s]]
  /\ scrapersLoading' = IF c.of = Others THEN scrapersLoading ELSE FALSE
  /\ IF pending # None /\ cards'[pending] # None
     THEN pending' = None /\ ApplyScraper(pending)
     ELSE UNCHANGED <<pending, selected, bar, page, store>>
  /\ UNCHANGED <<address, left, updates, api, acts>>

\* The call of loadScrapers has no error handler: the skeleton stays.
CardsFailed(c) ==
  /\ c \in cardCalls /\ c.at = "refused"
  /\ cardCalls' = cardCalls \ {c}
  /\ UNCHANGED <<address, selected, pending, cards, scrapersLoading, left, bar, page, store,
                 updates, api, acts>>

\* An answer that reaches a page left behind: resolvePending applies the
\* scraper there.  Its own signals are shown to nobody and its filter bar is no
\* longer listened to, but the store is that of the page now open.
LeftPageAnswered(p) ==
  /\ p \in left
  /\ left' = left \ {p}
  /\ LoadFor([scraper |-> p.pending, by |-> NoFilter], TRUE)
  /\ UNCHANGED <<address, selected, pending, picker, bar, page, updates, api, acts>>

\* The last of its calls that could have brought the scraper fails.
LeftPageFailed(p) ==
  /\ Failures
  /\ p \in left
  /\ left' = left \ {p}
  /\ UNCHANGED <<address, selected, pending, picker, bar, page, store, updates, api, acts>>

-----------------------------------------------------------------------------
UserActs ==
  \/ \E r \in Scraper \cup {None} : Navigate(r) \/ Reopen(r)
  \/ \E f \in Filter : Type(f)
  \/ \E p \in 1..TotalPages : GoToPage(p)
  \/ \E o \in Offer : ToggleDismissed(o) \/ Remove(o)

ApiServes ==
  \/ \E l \in lists : ServeList(l)
  \/ \E c \in cardCalls : ServeCards(c)
  \/ \E u \in updates : ServePatch(u) \/ ServeDelete(u)

Answered ==
  \/ \E l \in lists : ListAnswered(l)
  \/ \E c \in cardCalls : CardsAnswered(c) \/ CardsFailed(c)
  \/ \E p \in left : LeftPageAnswered(p) \/ LeftPageFailed(p)
  \/ \E u \in updates : PatchAnswered(u) \/ DeleteAnswered(u) \/ UpdateFailed(u)

Next == UserActs \/ Debounced \/ ApiServes \/ Answered

Spec == Init /\ [][Next]_vars

-----------------------------------------------------------------------------
ListIsOfTheScraper == selected # None => filter.scraper = selected

FilterShownIsFilterAsked == selected # None /\ debounce = None => filter.by = form

RowsOfLastLoad ==
  \A o \in Shown \ leftover : ScraperOf[o] = filter.scraper /\ o \in Hits[filter.by]

\* The list answers what the page shows.  The last load was for the scraper
\* shown, and the filter in the bar is the one the offers were asked with, once
\* the timer has run out: a scraper picked while a change of the bar was waiting
\* is not searched with the filter meant for another one.  It can be otherwise
\* in one way only: a page that was left before its scrapers came loads the
\* offers of its own scraper, unfiltered, into the store of the page now open.
\* And a row shown belongs to the search made last, whoever made it, unless the
\* list failed, or the row came back with the answer to an update: no answer to
\* an earlier load is ever taken for the one asked last.
ListAnswersTheBar ==
  /\ haunted \/ (ListIsOfTheScraper /\ FilterShownIsFilterAsked)
  /\ haunted => filter.scraper \in visited /\ filter.by = NoFilter
  /\ RowsOfLastLoad

\* With nothing underway every row tells what the API holds of its offer,
\* unless calls about that offer overlapped or failed.
SettledRowsTellTheTruth ==
  updates = {} /\ lists = {} =>
    \A o \in Shown \ doubtful : o \in alive /\ rows[o] = dismissed[o]

\* The scraper shown is the one in the address, the one picked last, unless the
\* address names one that is not known yet.  With two lists of scrapers it can be
\* otherwise in one way only: a pending address is not forgotten when a scraper
\* of the list that came first is picked, and takes over when the other comes.
ViewFollowsRoute ==
  selected # None /\ selected # route => strayed \/ (pending = route /\ pending # None)
=============================================================================
