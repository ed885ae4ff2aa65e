----------------------------- MODULE PortalCrawl -----------------------------
(***************************************************************************)
(* The paging loops of the portal strategies of the worker (fetchList).    *)
(* A portal shows the offers that match a search as a list, newest first,  *)
(* a window at a time; between two requests offers may be added on top or  *)
(* taken off, and a request may fail.  The strategies differ in when they  *)
(* stop: that is what this module is about.  LinkedIn and NoFluffJobs run  *)
(* a second search for remote offers; the two pages NoFluffJobs loads side *)
(* by side share nothing, so one is taken after the other here.            *)
(***************************************************************************)
EXTENDS Integers, Sequences, Functions, FiniteSetsExt

CONSTANTS Portal,      \* the strategies looked at
          Offers,      \* offers are 1..Offers; a smaller number is newer
          New,         \* bound: the offers 1..New appear during the crawl
          PageSize,    \* offers a portal shows in one window
          MaxPages,    \* the MAX_PAGES or MAX_LOAD_MORE of a strategy
          MaxIdle,     \* clicks without effect NoFluffJobs puts up with
          MaxFresh,    \* bound: offers added between two requests
          Listings     \* what a portal may show for the two searches at first

ASSUME PortalAssumption ==
  Portal \subseteq {"olx", "justjoinit", "pracujpl", "bulldogjob", "theprotocol",
                    "linkedin", "nofluffjobs"}
ASSUME SizeAssumption ==
  /\ Offers \in Nat /\ New \in 0..Offers /\ MaxFresh \in Nat
  /\ PageSize \in Nat \ {0} /\ MaxPages \in Nat \ {0} /\ MaxIdle \in Nat \ {0}

Search == {"all", "remote"}

ASSUME ListingAssumption ==
  \A l \in Listings : /\ l \in [Search -> Seq((New + 1)..Offers)]
                      /\ \A s \in Search : IsInjective(l[s])

TwoSearches == {"linkedin", "nofluffjobs"}

VARIABLES portal,   \* the strategy at work
          listing,  \* what the portal shows for each search
          phase,    \* "paging" or "done"
          search,   \* the search underway
          page,     \* requests of this search, this one included
          from,     \* offers of the search before the window
          pages,    \* the number of pages announced by the first answer
          idle,     \* NoFluffJobs: clicks in a row without effect
          dom,      \* NoFluffJobs: the cards the open page has
          found,    \* what was collected
          first,    \* history: what the portal showed at the start
          fresh,    \* history: offers added since the last request
          moved,    \* history: an offer was taken off, or a whole window added
          added,    \* history: the number of offers added
          cut,      \* history: the loop stopped at its own limit, or gave up
          failed    \* history: a request failed

progress == <<search, page, from, pages, idle, dom>>
history == <<first, moved, added, cut, failed>>
crawlVars == <<portal, listing, phase, progress, found, history, fresh>>

Shown(s) == Range(listing[s])

CrawlTypeOK ==
  /\ portal \in Portal
  /\ listing \in [Search -> Seq(1..Offers)] /\ \A s \in Search : IsInjective(listing[s])
  /\ phase \in {"paging", "done"}
  /\ search \in Search
  /\ page \in 1..(Max({MaxPages, pages}) + 1)
  /\ from \in 0..(page * PageSize)
  /\ pages \in Nat \ {0}
  /\ idle \in 0..MaxIdle
  /\ dom \subseteq 1..Offers /\ found \subseteq 1..Offers
  /\ first \in [Search -> SUBSET (1..Offers)]
  /\ fresh \in 0..MaxFresh /\ added \in 0..New
  /\ moved \in BOOLEAN /\ cut \in BOOLEAN /\ failed \in BOOLEAN

CrawlInit ==
  /\ portal \in Portal
  /\ listing \in Listings
  /\ phase = "paging"
  /\ search = "all"
  /\ page = 1 /\ from = 0 /\ pages = 1 /\ idle = 0
  /\ dom = {} /\ found = {}
  /\ first = [s \in Search |-> Shown(s)]
  /\ fresh = 0
  /\ moved = FALSE /\ added = 0 /\ cut = FALSE /\ failed = FALSE

-----------------------------------------------------------------------------
(* The portal *)

\* A new offer is on top of a search.  The loops follow a page that moves
\* down by less than a window between two of their requests.
Add(s) ==
  /\ phase = "paging" /\ (s = "remote" => portal \in TwoSearches)
  /\ added < New /\ fresh < MaxFresh /\ ~moved
  /\ listing' = [listing EXCEPT ![s] = <<New - added>> \o @]
  /\ added' = added + 1
  /\ fresh' = fresh + 1
  /\ moved' = (fresh + 1 >= PageSize)
  /\ UNCHANGED <<portal, phase, progress, found, first, cut, failed>>

\* The offer at place i is taken off: those below it move up.
TakeOff(s, i) ==
  /\ phase = "paging" /\ (s = "remote" => portal \in TwoSearches)
  /\ i \in DOMAIN listing[s] /\ ~moved
  /\ listing' = [listing EXCEPT ![s] = SubSeq(@, 1, i - 1) \o SubSeq(@, i + 1, Len(@))]
  /\ moved' = TRUE
  /\ UNCHANGED <<portal, phase, progress, found, first, added, cut, failed, fresh>>

-----------------------------------------------------------------------------
(* The loops *)

Total == Len(listing[search])
Window(n) == SubSeq(listing[search], n + 1, Min({n + PageSize, Total}))
Cards == Range(Window(from))
More == from + PageSize < Total                    \* links.next
(* Faulty variants: <definition>_<fault> is not part of the specification; *)
(* it stands for a plausible mistake in the code that a property catches.  *)

\* The number of pages is rounded down.
Announced_Floor == Max({1, Total \div PageSize})

\* The pages the first answer announces: all offers, counted in pages.
Announced == Max({1, (Total + PageSize - 1) \div PageSize})

\* The search is over: the next one, or the end.
EndSearch ==
  IF portal \in TwoSearches /\ search = "all"
  THEN /\ search' = "remote"
       /\ page' = 1 /\ from' = 0 /\ pages' = 1 /\ idle' = 0 /\ dom' = {}
       /\ UNCHANGED phase
  ELSE /\ phase' = "done"
       /\ UNCHANGED progress

\* The page number stays what it is.
Collect_SamePage(stop, step) ==
  /\ found' = found \cup Cards
  /\ IF stop THEN EndSearch
     ELSE /\ pages' = IF page = 1 THEN Announced ELSE pages
          /\ UNCHANGED <<phase, search, idle, dom, page, from>>

\* A window is collected; the loop asks for the next one, step offers on,
\* unless it stops here.
Collect(stop, step) ==
  /\ found' = found \cup Cards
  /\ IF stop THEN EndSearch
     ELSE /\ page' = page + 1
          /\ from' = from + step
          /\ pages' = IF page = 1 THEN Announced ELSE pages
          /\ UNCHANGED <<phase, search, idle, dom>>

NothingNew == Cards \subseteq found

\* The loop stops at its limit though the portal has more.
AtLimit == page = MaxPages /\ More

\* OLX: an offset, a next link; an empty page or one without news ends it.
Olx ==
  /\ Collect(NothingNew \/ ~More \/ page = MaxPages, PageSize)
  /\ cut' = (cut \/ AtLimit)

\* JustJoinIT: as many pages as the first answer announces, while full.
JustJoinIT ==
  /\ LET last == IF page = 1 THEN Announced ELSE pages
     IN  Collect(Len(Window(from)) < PageSize \/ page >= last, PageSize)
  /\ UNCHANGED cut

\* Pracuj.pl: as many pages as the first answer announces, to a limit.
PracujPl ==
  /\ LET last == Min({IF page = 1 THEN Announced ELSE pages, MaxPages})
     IN  Collect(Cards = {} \/ page >= last, PageSize)
  /\ cut' = (cut \/ AtLimit)

\* BulldogJob: until an empty page or one without news.
Bulldog ==
  /\ Collect(NothingNew \/ page = MaxPages, PageSize)
  /\ cut' = (cut \/ AtLimit)

\* theprotocol.it: the same.
TheProtocol == Bulldog

\* LinkedIn: the same, but the offset grows by what the page had, and the
\* second search goes on collecting into what the first one found.
LinkedIn ==
  /\ Collect(NothingNew \/ page = MaxPages, Len(Window(from)))
  /\ cut' = (cut \/ AtLimit)

\* Only a series of clicks without effect stops the loop.
NoFluffJobs_Unlimited(works) ==
  LET start == IF page = 1 THEN PageSize ELSE from
      cards == IF page = 1 THEN Range(Window(0)) ELSE dom
  IN  IF start >= Total \/ idle = MaxIdle
      THEN found' = found \cup cards /\ EndSearch /\ UNCHANGED cut
      ELSE /\ page' = page + 1
           /\ from' = IF works THEN start + PageSize ELSE start
           /\ dom' = IF works THEN cards \cup Range(Window(start)) ELSE cards
           /\ idle' = IF works \/ page = 1 THEN 0 ELSE idle + 1
           /\ UNCHANGED <<phase, search, pages, found, cut>>

\* NoFluffJobs: the page opens with a window of cards, and grows by one with
\* each click on a button that is there while the list goes on.  A click may
\* do nothing; the loop ends with the button, at its limit or after several
\* such clicks in a row (the first click never counts as one), and what the
\* page shows then is collected.
NoFluffJobs(works) ==
  LET start == IF page = 1 THEN PageSize ELSE from
      cards == IF page = 1 THEN Range(Window(0)) ELSE dom
  IN  IF start >= Total \/ page > MaxPages \/ idle = MaxIdle
      THEN /\ found' = found \cup cards
           /\ cut' = (cut \/ start < Total)
           /\ EndSearch
      ELSE /\ page' = page + 1
           /\ from' = IF works THEN start + PageSize ELSE start
           /\ dom' = IF works THEN cards \cup Range(Window(start)) ELSE cards
           /\ idle' = IF works \/ page = 1 THEN 0 ELSE idle + 1
           /\ UNCHANGED <<phase, search, pages, found, cut>>

\* A request fails.  What was collected stands, but JustJoinIT throws it away
\* when the request ends in an exception, and a search of NoFluffJobs that
\* fails is an empty one.
Fail ==
  /\ failed' = TRUE
  /\ \/ /\ portal # "nofluffjobs"
        /\ phase' = "done"
        /\ UNCHANGED <<progress, found>>
     \/ /\ portal = "justjoinit"
        /\ phase' = "done"
        /\ found' = {}
        /\ UNCHANGED progress
     \/ /\ portal = "nofluffjobs"
        /\ EndSearch
        /\ UNCHANGED found
  /\ UNCHANGED cut

\* One request of the strategy at work.
Request ==
  /\ phase = "paging"
  /\ fresh' = 0
  /\ UNCHANGED <<portal, listing, first, moved, added>>

\* The portal answers, and the loop of its strategy takes a turn.
Answered ==
  /\ Request
  /\ UNCHANGED failed
  /\ \/ portal = "olx" /\ Olx
     \/ portal = "justjoinit" /\ JustJoinIT
     \/ portal = "pracujpl" /\ PracujPl
     \/ portal = "bulldogjob" /\ Bulldog
     \/ portal = "theprotocol" /\ TheProtocol
     \/ portal = "linkedin" /\ LinkedIn
     \/ portal = "nofluffjobs" /\ \E works \in BOOLEAN : NoFluffJobs(works)

CrawlNext ==
  \/ Answered
  \/ Request /\ Fail
  \/ \E s \in Search : Add(s) \/ \E i \in 1..Offers : TakeOff(s, i)

\* A request that does not fail is answered.
CrawlFairness == WF_crawlVars(Answered)

CrawlSpec == CrawlInit /\ [][CrawlNext]_crawlVars /\ CrawlFairness

-----------------------------------------------------------------------------
Undisturbed == phase = "done" /\ ~failed /\ ~cut /\ ~moved

\* A crawl no request of which failed, and which no offer left under its
\* feet, has every offer the portal showed for the search when it began.
\* Strategies that count pages once, at the start, promise that only of a
\* portal that shows nothing new meanwhile.  Of the two strategies that search
\* a second time for remote offers, one promises the same of these: the second
\* crawl of LinkedIn stops at a page that the first has seen, whatever is below.
NothingMissed ==
  /\ Undisturbed /\ (portal \in {"justjoinit", "pracujpl"} => added = 0) => first["all"] \subseteq found
  /\ Undisturbed /\ portal = "nofluffjobs" => first["remote"] \subseteq found

\* Every crawl ends: the windows run out, stop having news, or the limit is
\* reached.
CrawlEnds == <>(phase = "done")
=============================================================================
