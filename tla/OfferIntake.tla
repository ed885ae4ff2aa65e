----------------------------- MODULE OfferIntake -----------------------------
(***************************************************************************)
(* What becomes of one offer between its portal and its row: the filters   *)
(* of a strategy's fetchList, what its fetchDetails makes of the card of   *)
(* the listing and of the offer's page, and the normalisation that the API *)
(* applies before it writes.  The card and the page are read at different  *)
(* moments and the portal changes the offer whenever it likes; the page    *)
(* may not come at all.  Every scrape writes the whole row again.          *)
(*                                                                         *)
(* Of an offer the model keeps the work modes, the pay, the words for its  *)
(* levels and forms of contract, whether it is in the city searched and    *)
(* whether its text has the words searched.  The words a portal has for a  *)
(* work mode are the mode.  The pay is that of the contract the strategy   *)
(* takes it from, if there are several: JustJoinIT's first, NoFluffJobs'   *)
(* b2b, else permanent, else first.  Texts of salaries are SalaryText's.   *)
(***************************************************************************)
EXTENDS SalaryText, OfferWords

CONSTANTS
  Portal,      \* the strategies in use
  MaxChanges,  \* bound on the changes the portal makes
  MaxScrapes   \* bound on the scrapes

ASSUME OfferIntakeAssumption ==
  /\ Portal \subseteq {"olx", "justjoinit", "pracujpl", "bulldogjob", "theprotocol",
                     "linkedin", "nofluffjobs"}
  /\ MaxChanges \in Nat /\ MaxScrapes \in Nat /\ MaxWords \in Nat

VARIABLES
  portal, target,   \* the strategy, and the parameters of the scraper
  offer,            \* the offer on the portal
  card,             \* what the listing showed of it (stub.meta), None if there is no stub
  page,             \* what its page showed, None if it failed
  raw,              \* what fetchDetails made of it, None before
  row,              \* what the table holds of it, None before it is stored
  was,              \* history: the card and the page the row was made of
  changes, scrapes  \* counted for the bounds

vars == <<portal, target, offer, card, page, raw, row, was, changes, scrapes>>

Mode == {"REMOTE", "HYBRID", "ONSITE"}
Remote(o) == "REMOTE" \in o.modes

\* The modes a portal states, none included; one at most, but on three portals.
ModesOf(p) ==
  {{}} \cup {{m} : m \in Mode} \cup
  (IF p \in {"olx", "theprotocol", "bulldogjob"} THEN {{"REMOTE", "HYBRID"}} ELSE {})

\* The periods that amounts are stated for, as far as the strategy looks.
Periods(p) ==
  CASE p = "justjoinit" -> {"month", "year"}
    [] p = "nofluffjobs" -> {"month", "year", "day", "hour"}
    [] OTHER -> {"month"}

\* Portals that write the pay; of the others the strategies get numbers.
TextPortals == {"pracujpl", "bulldogjob", "theprotocol"}
WaysOf(p) == IF p \in TextPortals THEN Way ELSE {"plain"}

\* A range, an open one, or none.
PaysIn(p, ways) ==
  {w \in [from : AmountsIn(ways) \cup {None}, to : AmountsIn(ways) \cup {None}, per : Periods(p)] :
     w.from # None /\ w.to # None => Hundredths(w.from) <= Hundredths(w.to)}
PaysOf(p) == PaysIn(p, WaysOf(p))

StatedIn(pay) == {pay.from, pay.to} \ {None}
Plainly(pay) == \A a \in StatedIn(pay) : a.way = "plain"

OffersOf(p) ==
  [modes : ModesOf(p), pay : PaysOf(p), near : BOOLEAN,
   mentions : IF p = "nofluffjobs" THEN BOOLEAN ELSE {TRUE}, words : WordsOf(p)]

\* To begin with the levels vary while the forms do not, and either, or the way
\* in which the pay is written, while the rest does not: no strategy reads one
\* from the other, but for TheProtocol's forms, which are stated with the pay,
\* and Change makes the rest vary.
OneAtATime(o) ==
  /\ o.words # NoWords =>
       /\ o.words.levels = {} \/ o.words.forms = {}
       /\ o.pay.from # o.pay.to /\ None \notin {o.pay.from, o.pay.to}
       /\ Plainly(o.pay)
  /\ o.words # NoWords \/ ~Plainly(o.pay) => o.near /\ o.mentions /\ Remote(o)

\* Only one strategy reads includeAllRemote.
TargetsOf(p) ==
  [remoteType : {None, "REMOTE"}, city : BOOLEAN,
   includeAllRemote : IF p = "justjoinit" THEN BOOLEAN ELSE {FALSE}]

CardsOf(p) == [of : OffersOf(p), remote : BOOLEAN]

Figure == Nat \cup {None}
Level == {"INTERN", "JUNIOR", "MID", "SENIOR", "LEAD"}
Form == {"PERMANENT", "B2B", "MANDATE", "INTERNSHIP", "OTHER"}

RawOffer ==
  [modes : SUBSET Mode, min : Figure, max : Figure, text : Text,
   levels : SUBSET Level, forms : SUBSET Form]
Row ==
  [modes : SUBSET Mode, min : Figure, max : Figure, levels : SUBSET Level, forms : SUBSET Form]
SourcesOf(p) == [card : CardsOf(p), page : OffersOf(p) \cup {None}]

\* None says that there is no row, offer or source: it is none of them itself.
ASSUME NoneAssumption ==
  None \notin Row /\ \A p \in Portal : None \notin OffersOf(p) \cup SourcesOf(p)

TypeOK ==
  /\ portal \in Portal /\ target \in TargetsOf(portal)
  /\ offer \in OffersOf(portal)
  /\ card # None => card \in CardsOf(portal)
  /\ page # None => page \in OffersOf(portal)
  /\ raw # None => raw \in RawOffer /\ card # None
  /\ row # None => row \in Row
  /\ was # None => was \in SourcesOf(portal)
  /\ row = None <=> was = None
  /\ changes \in 0..MaxChanges /\ scrapes \in 0..MaxScrapes

Init ==
  /\ portal \in Portal /\ target \in TargetsOf(portal)
  /\ offer \in OffersOf(portal) /\ OneAtATime(offer)
  /\ card = None /\ page = None /\ raw = None
  /\ row = None /\ was = None
  /\ changes = 0 /\ scrapes = 0

\* Faulty variants: <definition>_<fault> is not part of the specification; it
\* stands for a plausible mistake in the code that a property is there to catch.

-----------------------------------------------------------------------------
(* fetchList: does the search bring the offer? *)

WantsRemote == target.remoteType = "REMOTE"
InCity(o) == target.city => o.near
Wanted(o) == WantsRemote => Remote(o)

\* The portal filters by work mode, the strategy by city.
Olx(o) == InCity(o) /\ Wanted(o)

\* No city is sent when remote offers from anywhere are wanted.
JustJoinIT(o) == (target.includeAllRemote \/ InCity(o)) /\ Wanted(o)

PracujPl_AnyMode(o) == InCity(o)

\* These portals filter by city, the strategies by work mode.
PracujPl(o) == InCity(o) /\ Wanted(o)
BulldogJob(o) == InCity(o) /\ Wanted(o)

\* Whatever mode is wanted, the strategy keeps all that are near or remote.
TheProtocol(o) == InCity(o) \/ Remote(o)

\* One crawl of the city and one of remote offers, which need not get as far.
LinkedIn(o, reached) == InCity(o) \/ reached

\* The remote page only, the pages of the city and of remote offers, or all.
NoFluffJobs(o) == IF WantsRemote THEN Remote(o) ELSE InCity(o) \/ Remote(o)

\* remote: the card came with the crawl of remote offers.
FetchList(remote) ==
  /\ card = None /\ scrapes < MaxScrapes
  /\ remote => portal = "linkedin" /\ Remote(offer)
  /\ CASE portal = "olx" -> Olx(offer)
       [] portal = "justjoinit" -> JustJoinIT(offer)
       [] portal = "pracujpl" -> PracujPl(offer)
       [] portal = "bulldogjob" -> BulldogJob(offer)
       [] portal = "theprotocol" -> TheProtocol(offer)
       [] portal = "linkedin" -> LinkedIn(offer, remote)
       [] portal = "nofluffjobs" -> NoFluffJobs(offer)
  /\ card' = [of |-> offer, remote |-> remote]
  /\ scrapes' = scrapes + 1
  /\ UNCHANGED <<portal, target, offer, page, raw, row, was, changes>>

-----------------------------------------------------------------------------
(* fetchDetails: what the strategy makes of the card c and the page d *)

NoPay == [min |-> None, max |-> None, text |-> NoText]
Raw(modes, pay, words) ==
  [modes |-> modes, min |-> pay.min, max |-> pay.max, text |-> pay.text,
   levels |-> words.levels, forms |-> words.forms]

\* What the words of an offer are taken for.
Words(o) == Reading(portal, o.words)

Number(a) == IF a = None THEN None ELSE a.head

\* A salary without a lower end is dropped; an equal upper one is not written.
OlxSalary(pay) ==
  IF pay.from = None THEN NoPay
  ELSE [min |-> Number(pay.from), max |-> Number(pay.to),
        text |-> [from |-> pay.from, to |-> IF pay.to = pay.from THEN None ELSE pay.to]]

OlxMode(o) ==
  IF Remote(o) THEN "REMOTE" ELSE IF "HYBRID" \in o.modes THEN "HYBRID" ELSE "ONSITE"

OlxDetails(c) == Raw({OlxMode(c.of)}, OlxSalary(c.of.pay), Words(c.of))

JjitSalary_LowerOnly(pay) ==
  [min |-> IF pay.from = None \/ pay.per = "month" THEN Number(pay.from)
           ELSE Rounded(Number(pay.from), 12),
   max |-> Number(pay.to), text |-> NoText]

\* Yearly amounts are made monthly; no text is passed on.
JjitSalary(pay) ==
  LET Monthly(a) == IF a = None \/ pay.per = "month" THEN Number(a) ELSE Rounded(Number(a), 12)
  IN  [min |-> Monthly(pay.from), max |-> Monthly(pay.to), text |-> NoText]

\* On-site, if no mode is stated.
JjitModes(o) == IF o.modes = {} THEN {"ONSITE"} ELSE o.modes

\* Of the page only the text is read.
JjitDetails(c) == Raw(JjitModes(c.of), JjitSalary(c.of.pay), Words(c.of))

\* The text of the pay.
Written(pay) == [from |-> pay.from, to |-> pay.to]

\* What was read out of a text, and the text.
Parsed(ends, text) == [min |-> ends.min, max |-> ends.max, text |-> text]

PracujPlSalary(pay) == Parsed(PracujPlEnds(Written(pay)), Written(pay))

RemoteOrNot(remote) == IF remote THEN {"REMOTE"} ELSE {"ONSITE"}

PracujPlDetails_FromPage(c, d) ==
  IF d = None THEN Raw({"ONSITE"}, NoPay, NoWords)
  ELSE Raw(RemoteOrNot(Remote(d)), PracujPlSalary(d.pay), Words(d))

PracujPlDetails(c, d) ==
  Raw(RemoteOrNot(Remote(c.of)), PracujPlSalary(c.of.pay), Words(c.of))

\* The text is not passed on.
BulldogSalary(pay) == Parsed(BulldogEnds(Written(pay)), NoText)

\* The modes of the page, or what the card says if it has none.
BulldogModes(o, d) ==
  IF d # None /\ d.modes # {} THEN d.modes ELSE RemoteOrNot(Remote(o))

BulldogDetails(c, d) == Raw(BulldogModes(c.of, d), BulldogSalary(c.of.pay), Words(c.of))

TheProtocolModes(o) == IF o.modes = {} THEN {"ONSITE"} ELSE o.modes

\* The forms are read from the text of the pay.
TheProtocolWords(o) == IF Written(o.pay) = NoText THEN NoWords ELSE Words(o)

TheProtocolSalary(pay) == Parsed(TheProtocolEnds(Written(pay)), Written(pay))

TheProtocolDetails(c) ==
  Raw(TheProtocolModes(c.of), TheProtocolSalary(c.of.pay), TheProtocolWords(c.of))

\* Neither modes nor pay are shown to a visitor who is not signed in; levels
\* and forms are on the page.
LinkedInDetails(c, d) ==
  Raw(RemoteOrNot(c.remote), NoPay, IF d = None THEN NoWords ELSE Words(d))

\* Hours and days are made months, years are not.
NfjSalary(pay) ==
  LET factor == CASE pay.per = "hour" -> 168 [] pay.per = "day" -> 22 [] OTHER -> 1
      Monthly(a) == IF a = None THEN None ELSE factor * Number(a)
      min == Monthly(pay.from)
      max == Monthly(pay.to)
  IN  [min |-> min, max |-> max,
       text |-> IF None \in {min, max} THEN NoText ELSE [from |-> Plain(min), to |-> Plain(max)]]

\* All is on the page; without it nothing is known but title and company.
NfjDetails(d) ==
  IF d = None THEN Raw({}, NoPay, NoWords)
  ELSE Raw(IF d.modes = {} THEN {"ONSITE"} ELSE d.modes, NfjSalary(d.pay), Words(d))

Details(c, d) ==
  CASE portal = "olx" -> OlxDetails(c)
    [] portal = "justjoinit" -> JjitDetails(c)
    [] portal = "pracujpl" -> PracujPlDetails(c, d)
    [] portal = "bulldogjob" -> BulldogDetails(c, d)
    [] portal = "theprotocol" -> TheProtocolDetails(c)
    [] portal = "linkedin" -> LinkedInDetails(c, d)
    [] portal = "nofluffjobs" -> NfjDetails(d)

\* An offer of NoFluffJobs whose page lacks the words searched is dropped.
Dropped(d) == portal = "nofluffjobs" /\ d # None /\ ~d.mentions

EndScrape_RawKept ==
  /\ card' = None /\ page' = None
  /\ UNCHANGED <<portal, target, offer, raw, changes, scrapes>>

EndScrape ==
  /\ card' = None /\ page' = None /\ raw' = None
  /\ UNCHANGED <<portal, target, offer, changes, scrapes>>

\* d: the page, None if it fails.  OLX has all in the list.
FetchDetails(d) ==
  /\ card # None /\ raw = None
  /\ portal = "olx" => d = None
  /\ ~Dropped(d)
  /\ page' = d
  /\ raw' = Details(card, d)
  /\ UNCHANGED <<portal, target, offer, card, row, was, changes, scrapes>>

DropOffer(d) ==
  /\ card # None /\ raw = None
  /\ Dropped(d)
  /\ EndScrape
  /\ UNCHANGED <<row, was>>

-----------------------------------------------------------------------------
(* The API *)

\* What fetchDetails left open is taken from the text.
Normalize(r) ==
  LET parsed == ParseSalary(r.text)
  IN  [modes |-> r.modes, min |-> Either(r.min, parsed.min), max |-> Either(r.max, parsed.max),
       levels |-> r.levels, forms |-> r.forms]

\* The row is written whole, whatever it held.
Upsert ==
  /\ raw # None
  /\ row' = Normalize(raw)
  /\ was' = [card |-> card, page |-> page]
  /\ EndScrape

\* The worker does not answer, or the write fails.
ScrapeFails ==
  /\ card # None
  /\ EndScrape
  /\ UNCHANGED <<row, was>>

\* The portal changes the work modes or the pay of the offer, which it then
\* writes plainly.
Change ==
  /\ changes < MaxChanges
  /\ changes' = changes + 1
  /\ offer' \in {[offer EXCEPT !.modes = m] : m \in ModesOf(portal)} \cup
               {[offer EXCEPT !.pay = w] : w \in PaysIn(portal, {"plain"})}
  /\ UNCHANGED <<portal, target, card, page, raw, row, was, scrapes>>

Next ==
  \/ \E remote \in BOOLEAN : FetchList(remote)
  \/ \E d \in {None, offer} : FetchDetails(d) \/ DropOffer(d)
  \/ Upsert
  \/ ScrapeFails
  \/ Change

Spec == Init /\ [][Next]_vars

-----------------------------------------------------------------------------
Shown == {was.card.of} \cup (IF was.page = None THEN {} ELSE {was.page})

\* The ways of writing amounts in which their digits are read as what they mean.
ReadRight(p) ==
  CASE p = "pracujpl" -> {"plain", "spaced"}
    [] p = "bulldogjob" -> {"plain", "spaced", "dotted"}
    [] p = "theprotocol" -> {"plain", "point", "k", "kpoint"}
    [] OTHER -> {"plain"}

\* An amount that a row holds is the stated one, by the month if the strategy
\* cares about periods, rounded.
SameByMonth(x, a, per) ==
  CASE per = "year" -> 1200 * x - Hundredths(a) \in -600..600
    [] per = "day" -> 100 * x = 22 * Hundredths(a)
    [] per = "hour" -> 100 * x = 168 * Hundredths(a)
    [] OTHER -> 100 * x - Hundredths(a) \in -50..50

\* What the ends min and max of a row tell of a pay on the portal p.
PayTold(p, min, max, pay) ==
  LET per == IF p = "nofluffjobs" /\ pay.per = "year" THEN "month" ELSE pay.per
  IN  /\ (\A a \in StatedIn(pay) : a.way \in ReadRight(p)) =>
           /\ \A x \in {min, max} \ {None} : \E a \in StatedIn(pay) : SameByMonth(x, a, per)
           /\ None \notin {pay.from, pay.to} =>
                /\ min # None /\ SameByMonth(min, pay.from, per)
                /\ max # None /\ SameByMonth(max, pay.to, per)
      /\ p \in TextPortals => (None \in {min, max} <=> StatedIn(pay) = {})

\* A row says what the portal said of the offer while it was scraped, whenever
\* the portal changed it meanwhile.  It says remote only of an offer shown as
\* remote; of one shown as remote all along it says so, but for LinkedIn, which
\* need not come across it again, and NoFluffJobs without the page.
\* The pay of a row is the stated one, rounded: no amount is made up, and a
\* range stated whole is kept whole.  Two things the code does not do: amounts
\* that a portal writes otherwise than its strategy expects (ReadRight) may
\* become any others, though a pay that is written is never lost and one that
\* is not is never made up; and the yearly pay of NoFluffJobs is stored as if
\* it were monthly.
\* The levels and forms are those that the words mean, whoever says them: none
\* is made up, none that was stated is lost, but LinkedIn's interns are
\* juniors, OLX knows no level but MID, TheProtocol states none, and the page
\* may be missing.
RowTellsTheOffer ==
  row # None =>
    LET paid == IF portal = "nofluffjobs" THEN was.page ELSE was.card.of
        worded == IF portal \in {"nofluffjobs", "linkedin"} THEN was.page ELSE was.card.of
    IN
    /\ "REMOTE" \in row.modes => \E o \in Shown : Remote(o)
    /\ (\A o \in Shown : Remote(o)) /\ "REMOTE" \notin row.modes =>
         portal = "linkedin" \/ (portal = "nofluffjobs" /\ was.page = None)
    /\ IF portal = "linkedin" \/ paid = None
       THEN {row.min, row.max} = {None}
       ELSE PayTold(portal, row.min, row.max, paid.pay)
    /\ IF worded = None THEN row.levels = {} /\ row.forms = {}
       ELSE /\ \/ Fits(row.levels, worded.words.levels, LevelSense)
               \/ portal = "olx" /\ row.levels \subseteq {"MID"}
               \/ portal = "linkedin" /\ worded.words.levels = {"internship"}
            /\ \/ Fits(row.forms, worded.words.forms, FormSense)
               \/ portal = "theprotocol" /\ {row.min, row.max} = {None}

\* A row is there because its scraper asked for it.  To a search for remote
\* offers belong rows that say remote: the portal's filter, the strategy's and
\* the reading of the modes agree.  Two strategies do not look at the mode that
\* is wanted, and two go by the page, which may say otherwise than the listing
\* did or, for NoFluffJobs, be missing.  An offer of another city is a remote
\* one, but not with includeAllRemote ("Include remote from all Poland",
\* scraping.json:36): JustJoinIT then takes every offer of every city.
RowFitsTheSearch ==
  row # None =>
    /\ WantsRemote /\ portal \notin {"theprotocol", "linkedin"} =>
         \/ "REMOTE" \in row.modes
         \/ portal \in {"bulldogjob", "nofluffjobs"} /\ was.page # None /\ ~Remote(was.page)
         \/ portal = "nofluffjobs" /\ was.page = None
    /\ target.city /\ ~target.includeAllRemote => was.card.of.near \/ Remote(was.card.of)

\* A scrape that saw the same card as the one before but not the page takes
\* nothing from the row: pages only add texts.  But bulldogjob then goes by its
\* card for the modes, LinkedIn's levels and forms are wiped out, and all but
\* the title of an offer of NoFluffJobs.
LostPageHarmless ==
  [][row # None /\ row' # row /\ was'.card = was.card /\ was'.page = None =>
       \/ portal = "bulldogjob" /\ row' = [row EXCEPT !.modes = RemoteOrNot(Remote(was.card.of))]
       \/ portal = "linkedin" /\ row' = [row EXCEPT !.levels = {}, !.forms = {}]
       \/ portal = "nofluffjobs" /\ row' = Normalize(Raw({}, NoPay, NoWords))]_vars
=============================================================================
