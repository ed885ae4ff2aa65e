-------------------------- MODULE JobsBrowserProofs --------------------------
(***************************************************************************)
(* Theorems about JobsBrowser, for every set of offers, scrapers, filters  *)
(* and calls, and answers in any order.  What the page shows depends on    *)
(* what is underway, so the inductive invariant speaks of that as well: of *)
(* the one list call whose answer counts (ListsFit, ListsTrue), of the     *)
(* updates, one for each row that can be trusted (UpdatesAlone,            *)
(* UpdatesTrue), and of the timer and the address that are yet to be       *)
(* obeyed (BarWaits, PendingIsRoute).                                      *)
(***************************************************************************)
EXTENDS JobsBrowser, FiniteSetTheorems, TLAPS

\* An offer that a search finds.
Finds(asked, o) == ScraperOf[o] = asked.scraper /\ o \in Hits[asked.by]

\* switchMap: one list call at most has an answer that is wanted.
OneList == lists = {} \/ \E l \in ListCall : lists = {l}

ListsFit ==
  \A l \in lists :
    /\ l.asked = filter
    /\ l.at = "served" => \A o \in Offer : l.rows[o] # None => Finds(filter, o)

RowsFit ==
  lists = {} => \A o \in Offer \ leftover : rows[o] # None => filter \in Asked /\ Finds(filter, o)

\* A row no other call is about has one update, sent with no list underway.
UpdatesAlone ==
  \A u \in updates : u.of \notin doubtful =>
    lists = {} /\ \A v \in updates : v.of = u.of => v = u

UpdatesTrue ==
  \A u \in updates : u.of \notin doubtful /\ u.at = "served" /\ u.to # None =>
    u.of \in alive /\ u.answer = dismissed[u.of]

RowsTrue ==
  lists = {} => \A o \in Offer \ doubtful :
    rows[o] # None /\ (\A u \in updates : u.of = o => u.at = "sent") =>
      o \in alive /\ rows[o] = dismissed[o]

ListsTrue ==
  \A l \in lists : l.at = "served" => \A o \in Offer \ doubtful :
    l.rows[o] # None => o \in alive /\ l.rows[o] = dismissed[o]

StoreInv ==
  OneList /\ ListsFit /\ RowsFit /\ UpdatesAlone /\ UpdatesTrue /\ RowsTrue /\ ListsTrue

\* What the timer will pass on is what the bar shows.
BarWaits == debounce # None => debounce = form

FilterOfSelected ==
  selected # None /\ ~haunted =>
    filter \in Asked /\ filter.scraper = selected /\ (debounce = None => filter.by = form)

PendingIsRoute == pending # None => pending = route \/ strayed

\* What is pending, here or on a page left behind, was once opened; so was the
\* scraper that a page left behind has loaded.
LeftInv ==
  /\ \A p \in left : p \in LeftPage /\ p.pending \in visited
  /\ pending # None => pending \in visited
  /\ haunted => filter \in Asked /\ filter.scraper \in visited /\ filter.by = NoFilter

ViewInv == BarWaits /\ FilterOfSelected /\ PendingIsRoute /\ ViewFollowsRoute

IInv == TypeOK /\ StoreInv /\ ViewInv /\ LeftInv

-----------------------------------------------------------------------------
\* None is none of what it stands in for.
LEMMA Nones ==
  /\ \A s \in Scraper : s # None
  /\ \A f \in Filter : f # None
  /\ \A b \in BOOLEAN : b # None
  /\ \A n \in Nat : n # None
BY NoneAssumption

\* The page number stays within one more than the offers there are.
LEMMA PagesBound == ASSUME TypeOK PROVE TotalPages \in 1..(Cardinality(Offer) + 1)
<1> DEFINE h == Cardinality(Held)
           full == (h + PageSize - 1) \div PageSize
<1>1. h \in Nat /\ h <= Cardinality(Offer) /\ Cardinality(Offer) \in Nat
  <2>1. Held \in SUBSET Offer /\ IsFiniteSet(Offer)
    BY BrowserAssumption DEF Held
  <2>2. IsFiniteSet(Held) /\ Cardinality(Held) <= Cardinality(Offer)
    BY <2>1, FS_Subset
  <2> QED BY <2>1, <2>2, FS_CardinalityType
<1>2. PageSize \in Nat \ {0}
  BY BrowserAssumption
<1> HIDE DEF h
<1>3. full \in Int /\ full * PageSize <= h + PageSize - 1 /\ full >= 0
  BY <1>1, <1>2
<1>4. full <= h
  <2> HIDE DEF full
  <2> SUFFICES ASSUME full > h PROVE FALSE
    BY <1>1, <1>3
  <2>1. full >= h + 1
    BY <1>1, <1>3
  <2>2. full * PageSize >= (h + 1) * PageSize
    BY <1>1, <1>2, <1>3, <2>1
  <2>3. (h + 1) * PageSize = h * PageSize + PageSize /\ h * PageSize >= h
    BY <1>1, <1>2
  <2> QED BY <1>1, <1>2, <1>3, <2>2, <2>3
<1> HIDE DEF full
<1>5. TotalPages = IF full = 0 THEN 1 ELSE full
  BY DEF TotalPages, full, h
<1> QED BY <1>1, <1>3, <1>4, <1>5

\* The pending offers of a scraper are some of the offers.
LEMMA CountBound == ASSUME TypeOK, NEW s PROVE PendingOf(s) \in Count
<1> DEFINE S == {o \in alive : ScraperOf[o] = s /\ ~dismissed[o]}
<1>1. S \in SUBSET Offer /\ IsFiniteSet(Offer)
  BY BrowserAssumption DEF TypeOK
<1> HIDE DEF S
<1>2. IsFiniteSet(S) /\ Cardinality(S) <= Cardinality(Offer)
  BY <1>1, FS_Subset
<1>3. Cardinality(S) \in Nat /\ Cardinality(Offer) \in Nat
  BY <1>1, <1>2, FS_CardinalityType
<1> QED BY <1>2, <1>3 DEF PendingOf, Count, S

LEMMA CountsNat == Count \subseteq Nat
<1>1. Cardinality(Offer) \in Nat
  BY BrowserAssumption, FS_CardinalityType
<1> QED BY <1>1 DEF Count

-----------------------------------------------------------------------------
\* The picker, typed on its own: the calls for the scrapers and their answers.
PickerOK ==
  /\ cards \in [Scraper -> Count \cup {None}] /\ scrapersLoading \in BOOLEAN
  /\ \A c \in cardCalls : c \in CardCall

LEMMA LoadScrapersOK ==
  ASSUME TypeOK, NEW live, live \subseteq cardCalls, LoadScrapers(live)
  PROVE  scrapersLoading' \in BOOLEAN /\ \A c \in cardCalls' : c \in CardCall
<1>1. acts \in 0..MaxActs /\ NoCounts \in [Scraper -> Count \cup {None}]
  BY DEF TypeOK, NoCounts
<1>2. Scraper \ Others \subseteq Scraper /\ Others \subseteq Scraper
  BY BrowserAssumption
<1>3. \A s \in SUBSET Scraper : [n |-> acts, of |-> s, at |-> "sent", counts |-> NoCounts] \in CardCall
  BY <1>1 DEF CardCall
<1> QED BY <1>2, <1>3 DEF LoadScrapers, TypeOK

\* The store, typed on its own.
StoreOK ==
  /\ rows \in [Offer -> Row] /\ filter \in Asked \cup {None}
  /\ loading = (lists # {})
  /\ error \in {None, "load", "update", "delete"}
  /\ \A l \in lists : l \in ListCall
  /\ leftover \subseteq Offer /\ doubtful \subseteq Offer /\ haunted \in BOOLEAN

\* A load replaces the call underway, and trusts no row that is being updated.
LEMMA LoadStore ==
  ASSUME IInv, NEW asked \in Asked, NEW old \in BOOLEAN, LoadFor(asked, old),
         UNCHANGED <<updates, api>>
  PROVE  StoreInv' /\ StoreOK' /\ filter' = asked /\ haunted' = old
<1> DEFINE l == [asked |-> asked, at |-> "sent", rows |-> NoRows]
<1>1. /\ filter' = asked /\ loading' = TRUE /\ error' = None /\ lists' = {l}
      /\ doubtful' = {u.of : u \in updates} /\ haunted' = old
      /\ rows' = rows /\ leftover' = leftover
      /\ updates' = updates /\ alive' = alive /\ dismissed' = dismissed
  BY DEF LoadFor, api
<1>2. l \in ListCall /\ l.asked = asked /\ l.at = "sent"
  BY DEF ListCall, NoRows, Row
<1> HIDE DEF l
<1>3. StoreOK'
  BY <1>1, <1>2 DEF StoreOK, IInv, TypeOK, Update
<1>4. OneList' /\ ListsFit' /\ RowsFit'
  BY <1>1, <1>2 DEF OneList, ListsFit, RowsFit
<1>5. UpdatesAlone' /\ UpdatesTrue'
  BY <1>1 DEF UpdatesAlone, UpdatesTrue
<1>6. RowsTrue' /\ ListsTrue'
  BY <1>1, <1>2 DEF RowsTrue, ListsTrue
<1> QED BY <1>1, <1>3, <1>4, <1>5, <1>6 DEF StoreInv

LEMMA SameStore ==
  ASSUME IInv, UNCHANGED <<store, updates, api>>
  PROVE  StoreInv' /\ StoreOK' /\ filter' = filter /\ haunted' = haunted
<1>1. /\ rows' = rows /\ filter' = filter /\ loading' = loading /\ error' = error /\ lists' = lists
      /\ leftover' = leftover /\ doubtful' = doubtful /\ haunted' = haunted
      /\ updates' = updates /\ alive' = alive /\ dismissed' = dismissed
  BY DEF store, api
<1>2. StoreOK'
  BY <1>1 DEF StoreOK, IInv, TypeOK
<1>3. OneList' /\ ListsFit' /\ RowsFit'
  BY <1>1 DEF IInv, StoreInv, OneList, ListsFit, RowsFit
<1>4. UpdatesAlone' /\ UpdatesTrue'
  BY <1>1 DEF IInv, StoreInv, UpdatesAlone, UpdatesTrue
<1>5. RowsTrue' /\ ListsTrue'
  BY <1>1 DEF IInv, StoreInv, RowsTrue, ListsTrue
<1> QED BY <1>1, <1>2, <1>3, <1>4, <1>5 DEF StoreInv

\* The types of what is neither picker nor store.
PageOK ==
  /\ route \in Scraper \cup {None} /\ visited \subseteq Scraper
  /\ selected \in Scraper \cup {None} /\ pending \in Scraper \cup {None}
  /\ form \in Filter /\ debounce \in Filter \cup {None}
  /\ page \in 1..(Cardinality(Offer) + 1)
  /\ acts \in 0..MaxActs

ApiOK ==
  /\ \A u \in updates : u \in Update
  /\ alive \subseteq Offer /\ dismissed \in [Offer -> BOOLEAN]

LeftOK == \A p \in left : p \in LeftPage

LEMMA TypeParts == TypeOK <=> PickerOK /\ StoreOK /\ PageOK /\ ApiOK /\ LeftOK
BY DEF TypeOK, PickerOK, StoreOK, PageOK, ApiOK, LeftOK

LEMMA TypePartsNext == TypeOK' <=> PickerOK' /\ StoreOK' /\ PageOK' /\ ApiOK' /\ LeftOK'
BY DEF TypeOK, PickerOK, StoreOK, PageOK, ApiOK, LeftOK

\* The pages left behind are as before, and what is pending here has been opened.
LEMMA SameLeft ==
  ASSUME IInv, left' = left, visited \subseteq visited', pending' \in visited' \cup {None},
         ~haunted' \/ (haunted' = haunted /\ filter' = filter)
  PROVE  LeftInv' /\ LeftOK'
BY DEF IInv, LeftInv, LeftOK

LEMMA OnePage == 1 \in 1..(Cardinality(Offer) + 1)
<1>1. Cardinality(Offer) \in Nat
  BY BrowserAssumption, FS_CardinalityType
<1> QED BY <1>1

-----------------------------------------------------------------------------
\* At first the page waits for its scrapers and nothing else is underway.
LEMMA InitIInv == Init => IInv
<1> SUFFICES ASSUME Init PROVE IInv
  OBVIOUS
<1>1. /\ route \in Scraper \cup {None} /\ visited = {route} \ {None}
      /\ selected = None /\ pending = route /\ cards = NoCounts /\ scrapersLoading = TRUE
      /\ form = NoFilter /\ debounce = None /\ page = 1
      /\ rows = NoRows /\ filter = None /\ loading = FALSE /\ error = None /\ lists = {}
      /\ updates = {} /\ alive = Offer /\ dismissed = [o \in Offer |-> FALSE]
      /\ acts = 0 /\ leftover = {} /\ doubtful = {} /\ haunted = FALSE /\ left = {}
  BY DEF Init
<1>2. 0 \in 0..MaxActs /\ NoCounts \in [Scraper -> Count \cup {None}]
  BY BrowserAssumption DEF NoCounts
<1>3. \A s \in SUBSET Scraper : [n |-> 0, of |-> s, at |-> "sent", counts |-> NoCounts] \in CardCall
  BY <1>2 DEF CardCall
<1>4. \A c \in cardCalls : c \in CardCall
  BY <1>3, BrowserAssumption DEF Init
<1>5. PickerOK
  BY <1>1, <1>2, <1>4 DEF PickerOK
<1>6. StoreOK /\ ApiOK
  BY <1>1 DEF StoreOK, ApiOK, NoRows, Row
<1>7. PageOK
  BY <1>1, <1>2, OnePage, BrowserAssumption DEF PageOK
<1>8. StoreInv
  BY <1>1 DEF StoreInv, OneList, ListsFit, RowsFit, UpdatesAlone, UpdatesTrue, RowsTrue, ListsTrue,
              NoRows
<1>9. ViewInv
  BY <1>1 DEF ViewInv, BarWaits, FilterOfSelected, PendingIsRoute, ViewFollowsRoute
<1>10. LeftInv /\ LeftOK
  BY <1>1 DEF LeftInv, LeftOK
<1> QED BY <1>5, <1>6, <1>7, <1>8, <1>9, <1>10, TypeParts DEF IInv

\* A scraper applied: its unfiltered list is asked for, and the bar is empty.
LEMMA Applied ==
  ASSUME IInv, NEW s \in Scraper, ApplyScraper(s), UNCHANGED <<updates, api>>
  PROVE  /\ StoreInv' /\ StoreOK' /\ BarWaits' /\ FilterOfSelected'
         /\ selected' = s /\ page' = 1 /\ form' \in Filter /\ debounce' \in Filter /\ ~haunted'
<1> DEFINE asked == [scraper |-> s, by |-> NoFilter]
<1>1. selected' = s /\ page' = 1 /\ form' = NoFilter /\ debounce' = NoFilter /\ LoadFor(asked, FALSE)
  BY DEF ApplyScraper, Load
<1>2. asked \in Asked /\ asked.scraper = s /\ asked.by = NoFilter /\ NoFilter \in Filter
  BY BrowserAssumption DEF Asked
<1> HIDE DEF asked
<1>3. StoreInv' /\ StoreOK' /\ filter' = asked /\ ~haunted'
  BY <1>1, <1>2, LoadStore
<1>4. NoFilter # None
  BY <1>2, Nones
<1>5. BarWaits' /\ FilterOfSelected'
  BY <1>1, <1>2, <1>3, <1>4 DEF BarWaits, FilterOfSelected
<1> QED BY <1>1, <1>2, <1>3, <1>5

\* What the page keeps when it neither loads nor changes the bar or the scraper.
LEMMA SameView ==
  ASSUME IInv, UNCHANGED <<selected, bar, haunted>>, filter' = filter
  PROVE  BarWaits' /\ FilterOfSelected'
BY DEF IInv, ViewInv, bar, BarWaits, FilterOfSelected

LEMMA SamePicker == ASSUME IInv, UNCHANGED picker PROVE PickerOK'
BY DEF IInv, TypeOK, PickerOK, picker

\* The types of the page but for those of the address and the clicks.
ShownOK ==
  /\ selected \in Scraper \cup {None} /\ pending \in Scraper \cup {None}
  /\ form \in Filter /\ debounce \in Filter \cup {None}
  /\ page \in 1..(Cardinality(Offer) + 1)

\* The page told of an address shows its scraper, now or once it is known.
LEMMA RouteObeyed ==
  ASSUME IInv, NEW r \in Scraper \cup {None}, RouteChanged(r), UNCHANGED <<updates, api>>
  PROVE  /\ StoreInv' /\ StoreOK' /\ PickerOK' /\ BarWaits' /\ FilterOfSelected' /\ ShownOK'
         /\ ~haunted' \/ (haunted' = haunted /\ filter' = filter)
         /\ \/ r = None /\ selected' = None /\ pending' = None
            \/ r # None /\ selected' = r /\ pending' = pending /\ r \in Known \cup {selected}
            \/ r # None /\ selected' = selected /\ pending' = r
<1>1. ShownOK
  BY DEF IInv, TypeOK, ShownOK
<1>2. CASE /\ r = None
           /\ selected' = None /\ pending' = None
           /\ IF selected # None THEN LoadScrapers(cardCalls)
                                 ELSE UNCHANGED <<scrapersLoading, cardCalls>>
           /\ UNCHANGED <<bar, page, store, cards>>
  <2>1. StoreInv' /\ StoreOK' /\ filter' = filter /\ haunted' = haunted
    BY <1>2, SameStore
  <2>2. PickerOK'
    <3>1. CASE selected # None
      BY <1>2, <3>1, LoadScrapersOK DEF IInv, PickerOK, TypeOK
    <3>2. CASE selected = None
      BY <1>2, <3>2 DEF IInv, PickerOK, TypeOK
    <3> QED BY <3>1, <3>2
  <2>3. BarWaits' /\ FilterOfSelected'
    BY <1>2 DEF IInv, ViewInv, bar, BarWaits, FilterOfSelected
  <2> QED BY <1>1, <1>2, <2>1, <2>2, <2>3 DEF ShownOK, bar
<1>3. CASE r # None /\ r = selected /\ UNCHANGED <<selected, pending, picker, bar, page, store>>
  <2>1. StoreInv' /\ StoreOK' /\ filter' = filter /\ haunted' = haunted
    BY <1>3, SameStore
  <2> QED BY <1>1, <1>3, <2>1, SameView, SamePicker DEF ShownOK, bar
<1>4. CASE r # None /\ r # selected /\ r \in Known /\ ApplyScraper(r) /\ UNCHANGED <<pending, picker>>
  <2>1. r \in Scraper
    BY <1>4
  <2> QED BY <1>1, <1>4, <2>1, Applied, SamePicker, OnePage DEF ShownOK
<1>5. CASE /\ r # None /\ r # selected /\ r \notin Known
           /\ pending' = r /\ UNCHANGED <<selected, picker, bar, page, store>>
  <2>1. StoreInv' /\ StoreOK' /\ filter' = filter /\ haunted' = haunted
    BY <1>5, SameStore
  <2> QED BY <1>1, <1>5, <2>1, SameView, SamePicker DEF ShownOK, bar
<1> QED BY <1>2, <1>3, <1>4, <1>5 DEF RouteChanged

LEMMA Acting == ASSUME IInv, Act PROVE acts' \in 0..MaxActs
BY BrowserAssumption DEF IInv, TypeOK, Act

LEMMA SameApi == ASSUME IInv, UNCHANGED <<updates, api>> PROVE ApiOK'
BY DEF IInv, TypeOK, ApiOK, api

LEMMA NavigateIInv == ASSUME IInv, NEW r \in Scraper \cup {None}, Navigate(r) PROVE IInv'
<1>1. /\ Act /\ route' = r /\ visited' = visited \cup ({r} \ {None})
      /\ strayed' = (r # None /\ (strayed \/ (pending # None /\ r \in Known \cup {selected})))
      /\ RouteChanged(r) /\ UNCHANGED <<left, updates, api>>
  BY DEF Navigate
<1>2. /\ StoreInv' /\ StoreOK' /\ PickerOK' /\ BarWaits' /\ FilterOfSelected' /\ ShownOK'
      /\ ~haunted' \/ (haunted' = haunted /\ filter' = filter)
      /\ \/ r = None /\ selected' = None /\ pending' = None
         \/ r # None /\ selected' = r /\ pending' = pending /\ r \in Known \cup {selected}
         \/ r # None /\ selected' = selected /\ pending' = r
  BY <1>1, RouteObeyed
<1>3. PageOK' /\ ApiOK'
  BY <1>1, <1>2, Acting, SameApi DEF ShownOK, PageOK, IInv, TypeOK
<1>4. PendingIsRoute' /\ ViewFollowsRoute'
  BY <1>1, <1>2 DEF PendingIsRoute, ViewFollowsRoute
<1>5. visited \subseteq visited' /\ pending' \in visited' \cup {None}
  BY <1>1, <1>2 DEF IInv, LeftInv
<1>6. LeftInv' /\ LeftOK'
  BY <1>1, <1>2, <1>5, SameLeft
<1> QED BY <1>2, <1>3, <1>4, <1>6, TypePartsNext DEF IInv, ViewInv

LEMMA ReopenIInv == ASSUME IInv, NEW r \in Scraper \cup {None}, Reopen(r) PROVE IInv'
<1>1. /\ Act /\ r \in visited \cup {None} /\ route' = r
      /\ selected' = None /\ pending' = r /\ strayed' = FALSE
      /\ cards' = NoCounts /\ LoadScrapers({})
      /\ form' = NoFilter /\ debounce' = None /\ page' = 1
      /\ visited' = visited /\ UNCHANGED <<store, updates, api>>
  BY DEF Reopen
<1>2. StoreInv' /\ StoreOK' /\ filter' = filter /\ haunted' = haunted
  BY <1>1, SameStore
<1>3. PickerOK'
  BY <1>1, LoadScrapersOK DEF IInv, PickerOK, NoCounts
<1>4. PageOK' /\ ApiOK'
  BY <1>1, Acting, SameApi, OnePage, BrowserAssumption DEF PageOK, IInv, TypeOK
<1>5. ViewInv'
  BY <1>1 DEF ViewInv, BarWaits, FilterOfSelected, PendingIsRoute, ViewFollowsRoute
<1>6. LeftInv' /\ LeftOK'
  <2>1. left' = left \/ (pending # None /\ left' = left \cup {[n |-> acts, pending |-> pending]})
    <3>1. \A c \in cardCalls : pending \in c.of => pending # None
      BY Nones DEF IInv, TypeOK, CardCall
    <3> QED BY <3>1 DEF Reopen, Leave
  <2>2. pending # None => [n |-> acts, pending |-> pending] \in LeftPage /\ pending \in visited
    BY DEF IInv, TypeOK, LeftPage, LeftInv
  <2>3. \A p \in left' : p \in LeftPage /\ p.pending \in visited
    BY <2>1, <2>2 DEF IInv, LeftInv
  <2> QED BY <1>1, <1>2, <2>3 DEF IInv, LeftInv, LeftOK
<1> QED BY <1>2, <1>3, <1>4, <1>5, <1>6, TypePartsNext DEF IInv

\* What the address says and what is shown are as before.
LEMMA SameRoute ==
  ASSUME IInv, UNCHANGED <<address, selected, pending>>
  PROVE  PendingIsRoute' /\ ViewFollowsRoute'
BY DEF IInv, ViewInv, PendingIsRoute, ViewFollowsRoute, address

LEMMA TypeIInv == ASSUME IInv, NEW f \in Filter, Type(f) PROVE IInv'
<1>1. /\ Act /\ form' = f /\ debounce' = f
      /\ UNCHANGED <<address, selected, pending, picker, left, page, store, updates, api>>
  BY DEF Type
<1>2. StoreInv' /\ StoreOK' /\ filter' = filter /\ haunted' = haunted
  BY <1>1, SameStore
<1>3. PageOK' /\ ApiOK' /\ PickerOK'
  BY <1>1, Acting, SameApi, SamePicker DEF PageOK, IInv, TypeOK, address
<1>4. BarWaits' /\ FilterOfSelected'
  BY <1>1, <1>2, Nones DEF IInv, ViewInv, BarWaits, FilterOfSelected
<1>5. LeftInv' /\ LeftOK'
  BY <1>1, <1>2, SameLeft DEF IInv, LeftInv, address
<1> QED BY <1>1, <1>2, <1>3, <1>4, <1>5, SameRoute, TypePartsNext DEF IInv, ViewInv

LEMMA DebouncedIInv == ASSUME IInv, Debounced PROVE IInv'
<1>1. /\ debounce # None /\ debounce' = None
      /\ UNCHANGED <<address, selected, pending, picker, left, form, updates, api, acts>>
  BY DEF Debounced
<1>2. ApiOK' /\ PickerOK' /\ PendingIsRoute' /\ ViewFollowsRoute'
  BY <1>1, SameApi, SamePicker, SameRoute
<1>3. CASE selected = None
  <2>1. page' = page /\ UNCHANGED store
    BY <1>3 DEF Debounced
  <2>2. StoreInv' /\ StoreOK' /\ filter' = filter /\ haunted' = haunted
    BY <1>1, <2>1, SameStore
  <2>4. LeftInv' /\ LeftOK'
    BY <1>1, <2>2, SameLeft DEF IInv, LeftInv, address
  <2>3. PageOK' /\ BarWaits' /\ FilterOfSelected'
    BY <1>1, <1>3, <2>1 DEF IInv, TypeOK, PageOK, address, BarWaits, FilterOfSelected
  <2> QED BY <1>2, <2>2, <2>3, <2>4, TypePartsNext DEF IInv, ViewInv
<1>4. CASE selected # None
  <2> DEFINE asked == [scraper |-> selected, by |-> debounce]
  <2>1. page' = 1 /\ LoadFor(asked, FALSE)
    BY <1>4 DEF Debounced, Load
  <2>2. asked \in Asked /\ asked.scraper = selected /\ asked.by = form
    BY <1>1, <1>4 DEF Asked, IInv, TypeOK, ViewInv, BarWaits
  <2> HIDE DEF asked
  <2>3. StoreInv' /\ StoreOK' /\ filter' = asked /\ ~haunted'
    BY <1>1, <2>1, <2>2, LoadStore
  <2>4. PageOK'
    BY <1>1, <2>1, OnePage DEF IInv, TypeOK, PageOK, address
  <2>5. BarWaits' /\ FilterOfSelected'
    BY <1>1, <2>2, <2>3 DEF BarWaits, FilterOfSelected
  <2>6. LeftInv' /\ LeftOK'
    BY <1>1, <2>3, SameLeft DEF IInv, LeftInv, address
  <2> QED BY <1>2, <2>3, <2>4, <2>5, <2>6, TypePartsNext DEF IInv, ViewInv
<1> QED BY <1>3, <1>4

LEMMA GoToPageIInv == ASSUME IInv, NEW p \in 1..TotalPages, GoToPage(p) PROVE IInv'
<1>1. /\ Act /\ page' = p
      /\ UNCHANGED <<address, selected, pending, picker, left, bar, store, updates, api>>
  BY DEF GoToPage, store
<1>2. StoreInv' /\ StoreOK' /\ filter' = filter /\ haunted' = haunted
  BY <1>1, SameStore
<1>3. p \in 1..(Cardinality(Offer) + 1)
  <2>1. TypeOK /\ Cardinality(Offer) \in Nat
    BY BrowserAssumption, FS_CardinalityType DEF IInv
  <2>2. TotalPages \in 1..(Cardinality(Offer) + 1)
    BY <2>1, PagesBound
  <2> QED BY <2>1, <2>2
<1>4. PageOK' /\ ApiOK' /\ PickerOK'
  BY <1>1, <1>3, Acting, SameApi, SamePicker DEF PageOK, IInv, TypeOK, address, bar
<1>5. BarWaits' /\ FilterOfSelected'
  BY <1>1, <1>2, SameView
<1>6. LeftInv' /\ LeftOK'
  BY <1>1, <1>2, SameLeft DEF IInv, LeftInv, address
<1> QED BY <1>1, <1>2, <1>4, <1>5, <1>6, SameRoute, TypePartsNext DEF IInv, ViewInv

-----------------------------------------------------------------------------
\* A call served or answered leaves what the page is to show as it was.
LEMMA SamePage ==
  ASSUME IInv, UNCHANGED <<address, selected, pending, left, bar, page, filter, haunted, acts>>
  PROVE  PageOK' /\ ViewInv' /\ LeftInv' /\ LeftOK'
<1>1. PageOK'
  BY DEF IInv, TypeOK, PageOK, address, bar
<1>2. LeftInv' /\ LeftOK'
  BY SameLeft DEF IInv, LeftInv, address
<1> QED BY <1>1, <1>2, SameView, SameRoute DEF ViewInv

\* A click sends an update of a row that is shown, so no list is underway; a
\* row with a second update is trusted no longer.
LEMMA SendIInv == ASSUME IInv, NEW o \in Offer, NEW to \in Row, Send(o, to) PROVE IInv'
<1> DEFINE v == [n |-> acts, of |-> o, to |-> to, at |-> "sent", answer |-> None]
<1>1. /\ Act /\ o \in Shown /\ updates' = updates \cup {v}
      /\ doubtful' = doubtful \cup (IF lists # {} \/ \E u \in updates : u.of = o THEN {o} ELSE {})
      /\ UNCHANGED <<address, selected, pending, picker, left, bar, page, rows, filter, loading,
                     error, lists, leftover, haunted, api>>
  BY DEF Send
<1>2. lists = {}
  BY <1>1 DEF Shown, IInv, TypeOK
<1>3. v \in Update /\ v.of = o /\ v.at = "sent"
  BY DEF Update, Row, IInv, TypeOK
<1> HIDE DEF v
<1>4. StoreOK' /\ ApiOK' /\ PickerOK'
  BY <1>1, <1>2, <1>3, SamePicker DEF StoreOK, ApiOK, IInv, TypeOK, api
<1>5. OneList' /\ ListsFit' /\ RowsFit' /\ ListsTrue'
  BY <1>1, <1>2 DEF IInv, StoreInv, OneList, ListsFit, RowsFit, ListsTrue
<1>6. UpdatesAlone'
  BY <1>1, <1>2, <1>3 DEF IInv, StoreInv, UpdatesAlone
<1>7. UpdatesTrue'
  BY <1>1, <1>3 DEF IInv, StoreInv, UpdatesTrue, api
<1>8. RowsTrue'
  BY <1>1, <1>2, <1>3 DEF IInv, StoreInv, RowsTrue, api
<1>9. PageOK' /\ BarWaits' /\ FilterOfSelected' /\ PendingIsRoute' /\ ViewFollowsRoute'
  BY <1>1, Acting, SameView, SameRoute DEF IInv, TypeOK, PageOK, address, bar
<1>10. LeftInv' /\ LeftOK'
  BY <1>1, SameLeft DEF IInv, LeftInv, address
<1> QED BY <1>4, <1>5, <1>6, <1>7, <1>8, <1>9, <1>10, TypePartsNext DEF IInv, StoreInv, ViewInv

LEMMA ClickIInv ==
  ASSUME IInv, NEW o \in Offer, ToggleDismissed(o) \/ Remove(o)
  PROVE  IInv'
<1>1. CASE ToggleDismissed(o)
  <2>1. o \in Shown
    BY <1>1 DEF ToggleDismissed, Send
  <2>2. rows[o] \in BOOLEAN
    BY <2>1 DEF Shown, Held, IInv, TypeOK, Row
  <2>3. (~rows[o]) \in Row
    BY <2>2 DEF Row
  <2> QED BY <1>1, <2>3, SendIInv DEF ToggleDismissed
<1>2. CASE Remove(o)
  BY <1>2, SendIInv DEF Remove, Row
<1> QED BY <1>1, <1>2

\* The list is answered with what the search finds, as the API holds it.
LEMMA ServeListIInv == ASSUME IInv, NEW l \in lists, ServeList(l) PROVE IInv'
<1> DEFINE found == {o \in alive : ScraperOf[o] = l.asked.scraper /\ o \in Hits[l.asked.by]}
           answer == [o \in Offer |-> IF o \in found THEN dismissed[o] ELSE None]
           served == [Served(l) EXCEPT !.rows = answer]
<1>1. /\ \/ lists' = (lists \ {l}) \cup {served}
         \/ lists' = (lists \ {l}) \cup {Refused(l)}
      /\ UNCHANGED <<address, selected, pending, picker, left, bar, page, rows, filter, loading,
                     error, leftover, doubtful, haunted, updates, api, acts>>
  BY DEF ServeList
<1>2. l \in ListCall /\ lists = {l} /\ l.asked = filter /\ lists # {}
  BY DEF IInv, TypeOK, StoreInv, OneList, ListsFit
<1>3. answer \in [Offer -> Row]
  BY DEF IInv, TypeOK, Row
<1>4. \A o \in Offer : answer[o] # None => Finds(filter, o) /\ o \in alive /\ answer[o] = dismissed[o]
  BY <1>2 DEF Finds
<1> HIDE DEF answer
<1>5. /\ served \in ListCall /\ served.asked = filter /\ served.at = "served" /\ served.rows = answer
      /\ Refused(l) \in ListCall /\ Refused(l).asked = filter /\ Refused(l).at = "refused"
  BY <1>2, <1>3 DEF ListCall, Served, Refused
<1> HIDE DEF served
<1>6. PICK m \in {served, Refused(l)} : lists' = {m}
  BY <1>1, <1>2
<1>7. /\ m \in ListCall /\ m.asked = filter
      /\ m.at = "served" => m.rows = answer
  BY <1>5, <1>6
<1>8. StoreOK' /\ ApiOK' /\ PickerOK'
  BY <1>1, <1>2, <1>6, <1>7, SamePicker DEF StoreOK, ApiOK, IInv, TypeOK, api
<1>9. OneList' /\ ListsFit' /\ RowsFit' /\ RowsTrue'
  BY <1>1, <1>4, <1>6, <1>7 DEF OneList, ListsFit, RowsFit, RowsTrue
<1>10. ListsTrue'
  BY <1>1, <1>4, <1>6, <1>7 DEF ListsTrue, api
<1>11. UpdatesAlone' /\ UpdatesTrue'
  BY <1>1, <1>2 DEF IInv, StoreInv, UpdatesAlone, UpdatesTrue, api
<1> QED BY <1>1, <1>8, <1>9, <1>10, <1>11, SamePage, TypePartsNext DEF IInv, StoreInv

LEMMA ServeCardsIInv == ASSUME IInv, NEW c \in cardCalls, ServeCards(c) PROVE IInv'
<1> DEFINE answer == [s \in Scraper |-> IF s \in c.of THEN PendingOf(s) ELSE None]
           served == [Served(c) EXCEPT !.counts = answer]
<1>1. /\ \/ cardCalls' = (cardCalls \ {c}) \cup {served}
         \/ cardCalls' = (cardCalls \ {c}) \cup {Refused(c)}
      /\ UNCHANGED <<address, selected, pending, cards, scrapersLoading, left, bar, page, store,
                     updates, api, acts>>
  BY DEF ServeCards
<1>2. answer \in [Scraper -> Count \cup {None}] /\ c \in CardCall
  BY CountBound DEF IInv, TypeOK
<1> HIDE DEF answer
<1>3. served \in CardCall /\ Refused(c) \in CardCall
  BY <1>2 DEF CardCall, Served, Refused
<1> HIDE DEF served
<1>4. PickerOK' /\ ApiOK'
  BY <1>1, <1>3, SameApi DEF PickerOK, IInv, TypeOK
<1>5. StoreInv' /\ StoreOK'
  BY <1>1, SameStore
<1> QED BY <1>1, <1>4, <1>5, SamePage, TypePartsNext DEF IInv, store

-----------------------------------------------------------------------------
\* An update that moves on: it stays the update of its row, and what it does
\* to the row at the API is told by its answer.
Onward(u, v) ==
  /\ updates' = (updates \ {u}) \cup {v}
  /\ v \in Update /\ v.of = u.of /\ v.at # "sent"
  /\ alive' \subseteq alive /\ alive \ alive' \subseteq {u.of}
  /\ dismissed' \in [Offer -> BOOLEAN]
  /\ \A o \in Offer \ {u.of} : dismissed'[o] = dismissed[o]
  /\ v.at = "served" /\ v.to # None => v.of \in alive' /\ v.answer = dismissed'[v.of]

LEMMA OnwardIInv ==
  ASSUME IInv, NEW u \in updates, NEW v, Onward(u, v),
         UNCHANGED <<address, selected, pending, picker, left, bar, page, store, acts>>
  PROVE  IInv'
<1> USE DEF Onward
<1>1. /\ rows' = rows /\ filter' = filter /\ loading' = loading /\ error' = error /\ lists' = lists
      /\ leftover' = leftover /\ doubtful' = doubtful /\ haunted' = haunted
  BY DEF store
<1>2. u \in Update /\ u.of \in Offer /\ \A w \in updates : w \in Update /\ w.of \in Offer
  BY DEF IInv, TypeOK, Update
<1>3. StoreOK' /\ PickerOK'
  BY <1>1, SamePicker DEF StoreOK, IInv, TypeOK
<1>4. ApiOK'
  BY <1>2 DEF ApiOK, IInv, TypeOK
<1>5. OneList' /\ ListsFit' /\ RowsFit'
  BY <1>1 DEF IInv, StoreInv, OneList, ListsFit, RowsFit
<1>6. UpdatesAlone'
  BY <1>1 DEF IInv, StoreInv, UpdatesAlone
<1>7. UpdatesTrue'
  <2> SUFFICES ASSUME NEW w \in updates', w.of \notin doubtful, w.at = "served", w.to # None
               PROVE  w.of \in alive' /\ w.answer = dismissed'[w.of]
    BY <1>1 DEF UpdatesTrue
  <2>1. CASE w = v
    BY <2>1
  <2>2. CASE w # v
    <3>1. w \in updates /\ w # u
      BY <2>2
    <3>2. w.of \in alive /\ w.answer = dismissed[w.of]
      BY <3>1 DEF IInv, StoreInv, UpdatesTrue
    <3>3. w.of # u.of
      BY <3>1 DEF IInv, StoreInv, UpdatesAlone
    <3> QED BY <1>2, <3>1, <3>2, <3>3
  <2> QED BY <2>1, <2>2
<1>8. RowsTrue'
  <2> SUFFICES ASSUME lists = {}, NEW o \in Offer \ doubtful, rows[o] # None,
                      \A w \in updates' : w.of = o => w.at = "sent"
               PROVE  o \in alive' /\ rows[o] = dismissed'[o]
    BY <1>1 DEF RowsTrue
  <2>1. o # u.of
    OBVIOUS
  <2>2. \A w \in updates : w.of = o => w.at = "sent"
    BY <2>1
  <2> QED BY <2>1, <2>2 DEF IInv, StoreInv, RowsTrue
<1>9. ListsTrue'
  <2> SUFFICES ASSUME NEW l \in lists, l.at = "served", NEW o \in Offer \ doubtful, l.rows[o] # None
               PROVE  o \in alive' /\ l.rows[o] = dismissed'[o]
    BY <1>1 DEF ListsTrue
  <2>1. o # u.of
    BY DEF IInv, StoreInv, UpdatesAlone
  <2> QED BY <2>1 DEF IInv, StoreInv, ListsTrue
<1> QED BY <1>1, <1>3, <1>4, <1>5, <1>6, <1>7, <1>8, <1>9, SamePage, TypePartsNext DEF IInv, StoreInv

LEMMA ServePatchIInv == ASSUME IInv, NEW u \in updates, ServePatch(u) PROVE IInv'
<1>1. /\ u.to # None /\ alive' = alive
      /\ UNCHANGED <<address, selected, pending, picker, left, bar, page, store, acts>>
  BY DEF ServePatch
<1>2. u \in Update /\ u.to \in BOOLEAN /\ u.of \in Offer
  BY <1>1 DEF IInv, TypeOK, Update, Row
<1>3. dismissed \in [Offer -> BOOLEAN]
  BY DEF IInv, TypeOK
<1>4. CASE /\ u.at = "sent" /\ u.of \in alive
           /\ dismissed' = [dismissed EXCEPT ![u.of] = u.to]
           /\ Step(u, [u EXCEPT !.at = "written"])
  <2> DEFINE v == [u EXCEPT !.at = "written"]
  <2>1. v \in Update /\ v.of = u.of /\ v.at = "written" /\ updates' = (updates \ {u}) \cup {v}
    BY <1>2, <1>4 DEF Update, Step
  <2> HIDE DEF v
  <2>2. Onward(u, v)
    BY <1>1, <1>2, <1>3, <1>4, <2>1 DEF Onward
  <2> QED BY <1>1, <2>2, OnwardIInv
<1>5. CASE /\ u.at = "written" /\ u.of \in alive
           /\ Step(u, [Served(u) EXCEPT !.answer = dismissed[u.of]])
           /\ UNCHANGED dismissed
  <2> DEFINE v == [Served(u) EXCEPT !.answer = dismissed[u.of]]
  <2>1. /\ v \in Update /\ v.of = u.of /\ v.at = "served" /\ v.answer = dismissed[u.of]
        /\ updates' = (updates \ {u}) \cup {v}
    BY <1>2, <1>3, <1>5 DEF Update, Row, Served, Step
  <2> HIDE DEF v
  <2>2. Onward(u, v)
    BY <1>1, <1>2, <1>3, <1>5, <2>1 DEF Onward
  <2> QED BY <1>1, <2>2, OnwardIInv
<1>6. CASE Step(u, Refused(u)) /\ UNCHANGED dismissed
  <2>1. Refused(u) \in Update /\ Refused(u).of = u.of /\ Refused(u).at = "refused"
    BY <1>2 DEF Update, Refused
  <2>2. Onward(u, Refused(u))
    BY <1>1, <1>3, <1>6, <2>1 DEF Onward, Step
  <2> QED BY <1>1, <2>2, OnwardIInv
<1> QED BY <1>4, <1>5, <1>6 DEF ServePatch

LEMMA ServeDeleteIInv == ASSUME IInv, NEW u \in updates, ServeDelete(u) PROVE IInv'
<1>1. /\ u.to = None /\ dismissed' = dismissed
      /\ UNCHANGED <<address, selected, pending, picker, left, bar, page, store, acts>>
      /\ alive' \in {alive, alive \ {u.of}}
      /\ Step(u, Served(u)) \/ Step(u, Refused(u))
  BY DEF ServeDelete
<1>2. u \in Update /\ u.of \in Offer /\ dismissed \in [Offer -> BOOLEAN]
  BY DEF IInv, TypeOK, Update
<1>3. /\ Served(u) \in Update /\ Served(u).of = u.of /\ Served(u).at = "served" /\ Served(u).to = None
      /\ Refused(u) \in Update /\ Refused(u).of = u.of /\ Refused(u).at = "refused"
  BY <1>1, <1>2 DEF Update, Served, Refused
<1>4. Onward(u, Served(u)) \/ Onward(u, Refused(u))
  BY <1>1, <1>2, <1>3 DEF Onward, Step
<1> QED BY <1>1, <1>4, OnwardIInv

-----------------------------------------------------------------------------
\* The only list call there is: with its answer the store holds what it found.
LEMMA ListAnsweredIInv == ASSUME IInv, NEW l \in lists, ListAnswered(l) PROVE IInv'
<1>1. /\ l.at # "sent" /\ lists' = lists \ {l} /\ loading' = FALSE
      /\ \/ l.at = "served" /\ rows' = l.rows /\ leftover' = {} /\ UNCHANGED <<error, doubtful>>
         \/ l.at = "refused" /\ error' = "load" /\ leftover' = Held /\ doubtful' = Offer /\ rows' = rows
      /\ UNCHANGED <<address, selected, pending, picker, left, bar, page, filter, haunted, updates, api, acts>>
  BY DEF ListAnswered
<1>2. l \in ListCall /\ lists = {l} /\ l.asked = filter /\ l.rows \in [Offer -> Row] /\ filter \in Asked
  BY DEF IInv, TypeOK, StoreInv, OneList, ListsFit, ListCall
<1>3. lists' = {} /\ filter' = filter
  BY <1>1, <1>2
<1>4. StoreOK' /\ ApiOK' /\ PickerOK'
  BY <1>1, <1>2, <1>3, SamePicker, SameApi DEF StoreOK, Held, IInv, TypeOK
<1>5. OneList' /\ ListsFit' /\ ListsTrue'
  BY <1>3 DEF OneList, ListsFit, ListsTrue
<1>6. RowsFit'
  BY <1>1, <1>2, <1>3 DEF IInv, StoreInv, ListsFit, RowsFit, Held
<1>7. UpdatesAlone' /\ UpdatesTrue'
  BY <1>1, <1>3 DEF IInv, TypeOK, Update, StoreInv, UpdatesAlone, UpdatesTrue, api
<1>8. RowsTrue'
  BY <1>1, <1>2, <1>3 DEF IInv, StoreInv, ListsTrue, RowsTrue, api
<1> QED BY <1>1, <1>3, <1>4, <1>5, <1>6, <1>7, <1>8, SamePage, TypePartsNext DEF IInv, StoreInv

\* An update answered is over: the other rows are as true as they were, and
\* its own row is new, gone or trusted no longer.
LEMMA UpdateAnswered ==
  ASSUME IInv, NEW u \in updates, updates' = updates \ {u}, u.at # "sent",
         StoreOK', RowsFit',
         UNCHANGED <<address, selected, pending, picker, left, bar, page, filter, haunted, lists, api, acts>>,
         doubtful \subseteq doubtful',
         \A o \in Offer \ {u.of} : rows'[o] = rows[o],
         u.of \notin doubtful' /\ rows'[u.of] # None =>
           u.of \in alive /\ rows'[u.of] = dismissed[u.of]
  PROVE  IInv'
<1>1. alive' = alive /\ dismissed' = dismissed /\ filter' = filter /\ lists' = lists
  BY DEF api
<1>2. ApiOK' /\ PickerOK'
  BY <1>1, SamePicker DEF ApiOK, IInv, TypeOK
<1>3. OneList' /\ ListsFit' /\ ListsTrue'
  BY <1>1 DEF IInv, StoreInv, OneList, ListsFit, ListsTrue
<1>4. UpdatesAlone' /\ UpdatesTrue'
  BY <1>1 DEF IInv, StoreInv, UpdatesAlone, UpdatesTrue
<1>5. RowsTrue'
  <2> SUFFICES ASSUME lists = {}, NEW o \in Offer \ doubtful', rows'[o] # None,
                      \A w \in updates' : w.of = o => w.at = "sent"
               PROVE  o \in alive /\ rows'[o] = dismissed[o]
    BY <1>1 DEF RowsTrue
  <2>1. CASE o = u.of
    BY <2>1
  <2>2. CASE o # u.of
    <3>1. \A w \in updates : w.of = o => w.at = "sent"
      BY <2>2
    <3> QED BY <2>2, <3>1 DEF IInv, StoreInv, RowsTrue
  <2> QED BY <2>1, <2>2
<1> QED BY <1>1, <1>2, <1>3, <1>4, <1>5, SamePage, TypePartsNext DEF IInv, StoreInv

LEMMA PatchAnsweredIInv == ASSUME IInv, NEW u \in updates, PatchAnswered(u) PROVE IInv'
<1>1. /\ u.to # None /\ u.at = "served" /\ updates' = updates \ {u}
      /\ rows' = [rows EXCEPT ![u.of] = u.answer]
      /\ leftover' = leftover \cup (IF rows[u.of] = None THEN {u.of} ELSE {})
      /\ UNCHANGED <<address, selected, pending, picker, left, bar, page, filter, loading, error,
                     lists, doubtful, haunted, api, acts>>
  BY DEF PatchAnswered
<1>2. u.of \in Offer /\ u.answer \in Row /\ rows \in [Offer -> Row]
  BY DEF IInv, TypeOK, Update
<1>3. rows'[u.of] = u.answer /\ \A o \in Offer \ {u.of} : rows'[o] = rows[o]
  BY <1>1, <1>2
<1>4. StoreOK'
  BY <1>1, <1>2 DEF StoreOK, IInv, TypeOK
<1>5. RowsFit'
  BY <1>1, <1>2, <1>3 DEF IInv, StoreInv, RowsFit
<1>6. u.of \notin doubtful => u.of \in alive /\ u.answer = dismissed[u.of]
  BY <1>1 DEF IInv, StoreInv, UpdatesTrue
<1> QED BY <1>1, <1>3, <1>4, <1>5, <1>6, UpdateAnswered

LEMMA DeleteAnsweredIInv == ASSUME IInv, NEW u \in updates, DeleteAnswered(u) PROVE IInv'
<1>1. /\ u.at = "served" /\ updates' = updates \ {u}
      /\ rows' = [rows EXCEPT ![u.of] = None]
      /\ leftover' = leftover \ {u.of}
      /\ UNCHANGED <<address, selected, pending, picker, left, bar, page, filter, loading, error,
                     lists, doubtful, haunted, api, acts>>
  BY DEF DeleteAnswered
<1>2. u.of \in Offer /\ rows \in [Offer -> Row]
  BY DEF IInv, TypeOK, Update
<1>3. rows'[u.of] = None /\ \A o \in Offer \ {u.of} : rows'[o] = rows[o]
  BY <1>1, <1>2
<1>4. StoreOK'
  BY <1>1, <1>2 DEF StoreOK, IInv, TypeOK, Row
<1>5. RowsFit'
  BY <1>1, <1>2, <1>3 DEF IInv, StoreInv, RowsFit
<1> QED BY <1>1, <1>3, <1>4, <1>5, UpdateAnswered

LEMMA UpdateFailedIInv == ASSUME IInv, NEW u \in updates, UpdateFailed(u) PROVE IInv'
<1>1. /\ u.at = "refused" /\ updates' = updates \ {u}
      /\ error' \in {"delete", "update"} /\ doubtful' = doubtful \cup {u.of}
      /\ UNCHANGED <<address, selected, pending, picker, left, bar, page, rows, filter, loading,
                     lists, leftover, haunted, api, acts>>
  BY DEF UpdateFailed
<1>2. u.of \in Offer
  BY DEF IInv, TypeOK, Update
<1>3. StoreOK'
  BY <1>1, <1>2 DEF StoreOK, IInv, TypeOK
<1>4. RowsFit'
  BY <1>1 DEF IInv, StoreInv, RowsFit
<1> QED BY <1>1, <1>3, <1>4, UpdateAnswered

\* The cards come, and the address that waited for one of them is obeyed.
LEMMA CardsAnsweredIInv == ASSUME IInv, NEW c \in cardCalls, CardsAnswered(c) PROVE IInv'
<1>1. /\ cardCalls' = cardCalls \ {c}
      /\ cards' = [s \in Scraper |-> IF s \in c.of THEN c.counts[s] ELSE cards[s]]
      /\ scrapersLoading' = IF c.of = Others THEN scrapersLoading ELSE FALSE
      /\ UNCHANGED <<address, left, updates, api, acts>>
  BY DEF CardsAnswered
<1>2. c.counts \in [Scraper -> Count \cup {None}] /\ cards \in [Scraper -> Count \cup {None}]
  BY DEF IInv, TypeOK, CardCall
<1>3. scrapersLoading' \in BOOLEAN
  BY <1>1 DEF IInv, TypeOK
<1>4. PickerOK' /\ ApiOK'
  BY <1>1, <1>2, <1>3, SameApi DEF PickerOK, IInv, TypeOK
<1>5. CASE pending # None /\ cards'[pending] # None
  <2>1. pending' = None /\ ApplyScraper(pending)
    BY <1>5 DEF CardsAnswered
  <2>2. pending \in Scraper
    BY <1>5 DEF IInv, TypeOK
  <2>3. /\ StoreInv' /\ StoreOK' /\ BarWaits' /\ FilterOfSelected'
        /\ selected' = pending /\ page' = 1 /\ form' \in Filter /\ debounce' \in Filter
        /\ ~haunted'
    BY <1>1, <2>1, <2>2, Applied
  <2>4. PageOK'
    BY <1>1, <2>1, <2>2, <2>3, OnePage DEF PageOK, IInv, TypeOK, address
  <2>5. PendingIsRoute' /\ ViewFollowsRoute'
    BY <1>1, <1>5, <2>1, <2>3 DEF IInv, ViewInv, PendingIsRoute, ViewFollowsRoute, address
  <2>6. LeftInv' /\ LeftOK'
    BY <1>1, <2>1, <2>3, SameLeft DEF address
  <2> QED BY <1>4, <2>3, <2>4, <2>5, <2>6, TypePartsNext DEF IInv, ViewInv
<1>6. CASE ~(pending # None /\ cards'[pending] # None)
  <2>1. UNCHANGED <<pending, selected, bar, page, store>>
    BY <1>6 DEF CardsAnswered
  <2>2. StoreInv' /\ StoreOK' /\ filter' = filter /\ haunted' = haunted
    BY <1>1, <2>1, SameStore
  <2> QED BY <1>1, <1>4, <2>1, <2>2, SamePage, TypePartsNext DEF IInv
<1> QED BY <1>5, <1>6

LEMMA CardsFailedIInv == ASSUME IInv, NEW c \in cardCalls, CardsFailed(c) PROVE IInv'
<1>1. /\ cardCalls' = cardCalls \ {c}
      /\ UNCHANGED <<address, selected, pending, cards, scrapersLoading, left, bar, page, store,
                     updates, api, acts>>
  BY DEF CardsFailed
<1>2. PickerOK' /\ ApiOK'
  BY <1>1, SameApi DEF PickerOK, IInv, TypeOK
<1>3. StoreInv' /\ StoreOK' /\ filter' = filter /\ haunted' = haunted
  BY <1>1, SameStore
<1> QED BY <1>1, <1>2, <1>3, SamePage, TypePartsNext DEF IInv

\* The answer that reaches a page left behind loads what that page was opened for.
LEMMA LeftPageAnsweredIInv == ASSUME IInv, NEW p \in left, LeftPageAnswered(p) PROVE IInv'
<1> DEFINE asked == [scraper |-> p.pending, by |-> NoFilter]
<1>1. /\ left' = left \ {p} /\ LoadFor(asked, TRUE)
      /\ UNCHANGED <<address, selected, pending, picker, bar, page, updates, api, acts>>
  BY DEF LeftPageAnswered
<1>2. asked \in Asked /\ asked.scraper \in visited /\ asked.by = NoFilter
  BY BrowserAssumption DEF Asked, IInv, LeftInv, LeftPage
<1> HIDE DEF asked
<1>3. StoreInv' /\ StoreOK' /\ filter' = asked /\ haunted'
  BY <1>1, <1>2, LoadStore
<1>4. LeftInv' /\ LeftOK'
  BY <1>1, <1>2, <1>3 DEF IInv, LeftInv, LeftOK, address
<1>5. PageOK' /\ PickerOK' /\ ApiOK'
  BY <1>1, SamePicker, SameApi DEF IInv, TypeOK, PageOK, address, bar
<1>6. BarWaits' /\ FilterOfSelected'
  BY <1>1, <1>3 DEF IInv, ViewInv, bar, BarWaits, FilterOfSelected
<1> QED BY <1>1, <1>3, <1>4, <1>5, <1>6, SameRoute, TypePartsNext DEF IInv, ViewInv

LEMMA LeftPageFailedIInv == ASSUME IInv, NEW p \in left, LeftPageFailed(p) PROVE IInv'
<1>1. /\ left' = left \ {p}
      /\ UNCHANGED <<address, selected, pending, picker, bar, page, store, updates, api, acts>>
  BY DEF LeftPageFailed
<1>2. StoreInv' /\ StoreOK' /\ filter' = filter /\ haunted' = haunted
  BY <1>1, SameStore
<1>3. LeftInv' /\ LeftOK'
  BY <1>1, <1>2 DEF IInv, LeftInv, LeftOK, address
<1>4. PageOK' /\ PickerOK' /\ ApiOK'
  BY <1>1, SamePicker, SameApi DEF IInv, TypeOK, PageOK, address, bar
<1> QED BY <1>1, <1>2, <1>3, <1>4, SameView, SameRoute, TypePartsNext DEF IInv, ViewInv

LEMMA NextIInv == IInv /\ [Next]_vars => IInv'
<1> SUFFICES ASSUME IInv, [Next]_vars PROVE IInv'
  OBVIOUS
<1>1. CASE UserActs
  BY <1>1, NavigateIInv, ReopenIInv, TypeIInv, GoToPageIInv, ClickIInv DEF UserActs
<1>2. CASE Debounced
  BY <1>2, DebouncedIInv
<1>3. CASE ApiServes
  BY <1>3, ServeListIInv, ServeCardsIInv, ServePatchIInv, ServeDeleteIInv DEF ApiServes
<1>4. CASE Answered
  BY <1>4, ListAnsweredIInv, CardsAnsweredIInv, CardsFailedIInv, PatchAnsweredIInv,
     DeleteAnsweredIInv, UpdateFailedIInv, LeftPageAnsweredIInv, LeftPageFailedIInv DEF Answered
<1>5. CASE UNCHANGED vars
  <2>1. StoreInv' /\ StoreOK' /\ filter' = filter /\ haunted' = haunted
    BY <1>5, SameStore DEF vars
  <2> QED BY <1>5, <2>1, SamePage, SamePicker, SameApi, TypePartsNext DEF IInv, vars
<1> QED BY <1>1, <1>2, <1>3, <1>4, <1>5 DEF Next

\* What the invariant says of the list, in the words of the property.
LEMMA ListAnswers == IInv => ListAnswersTheBar
<1> SUFFICES ASSUME IInv PROVE ListAnswersTheBar
  OBVIOUS
<1>1. haunted \/ (ListIsOfTheScraper /\ FilterShownIsFilterAsked)
  BY DEF IInv, ViewInv, FilterOfSelected, ListIsOfTheScraper, FilterShownIsFilterAsked
<1>2. haunted => filter.scraper \in visited /\ filter.by = NoFilter
  BY DEF IInv, LeftInv
<1>3. RowsOfLastLoad
  BY DEF IInv, TypeOK, StoreInv, RowsFit, RowsOfLastLoad, Shown, Held, Finds
<1> QED BY <1>1, <1>2, <1>3 DEF ListAnswersTheBar

LEMMA RowsSettled == IInv => SettledRowsTellTheTruth
BY DEF IInv, StoreInv, RowsTrue, SettledRowsTellTheTruth, Shown, Held

LEMMA Inductive == Spec => []IInv
<1>1. IInv /\ [Next]_vars => IInv'
  BY NextIInv
<1> QED BY <1>1, InitIInv, PTL DEF Spec

\* The jobs page, its store and the calls underway are of their types in every
\* reachable state: the page number never runs past the offers there are by
\* more than one, and loading is set just while the answer to a list call is
\* wanted, whatever is cancelled or fails.
THEOREM TypeCorrect == Spec => []TypeOK
<1>1. IInv => TypeOK
  BY DEF IInv
<1> QED BY <1>1, Inductive, PTL

\* The list shown answers what the filter bar shows, however the timer, the
\* clicks on the picker and the answers to the calls are ordered: switchMap
\* leaves one list call, and its filter is the one in the store.  Only a page left
\* behind, whose calls go on, can put the offers of another scraper there.
THEOREM ListIsOfTheBar == Spec => []ListAnswersTheBar
BY ListAnswers, Inductive, PTL

\* With nothing underway the rows tell what the API holds, but for the offers
\* whose calls overlapped or failed.
THEOREM RowsTellTheTruth == Spec => []SettledRowsTellTheTruth
BY RowsSettled, Inductive, PTL

\* The scraper shown is the one in the address, in every order of navigation
\* and of the two answers that fill the picker, but for the one way out the
\* property names.
THEOREM RouteIsShown == Spec => []ViewFollowsRoute
<1>1. IInv => ViewFollowsRoute
  BY DEF IInv, ViewInv
<1> QED BY <1>1, Inductive, PTL
=============================================================================
