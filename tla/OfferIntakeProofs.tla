------------------------- MODULE OfferIntakeProofs --------------------------
(***************************************************************************)
(* Theorems about OfferIntake, for every set of strategies, every set of   *)
(* amounts and whatever way they are written in, any number of words       *)
(* stated at once, and any number of changes and scrapes.                  *)
(*                                                                         *)
(* Card, page, raw offer and row are read at different moments, so the     *)
(* invariant (Sources) says what each was made of: the card passed the     *)
(* filters of its strategy when it was listed, and the raw offer and the   *)
(* row are what the strategy and the API make of the card and the page     *)
(* kept with them.  What remains is about one card and one page.           *)
(***************************************************************************)
EXTENDS OfferIntake, FiniteSetTheorems, SequenceTheorems, TLAPS

-----------------------------------------------------------------------------
(* The words *)

Within(T, S) == \A w \in DOMAIN T : T[w] \subseteq S
Agrees(T, sense, ws) == \A w \in ws \cap DOMAIN T \cap DOMAIN sense : T[w] # {} /\ T[w] \subseteq sense[w]
Read(T, ws) == UNION {T[w] : w \in ws}

LEMMA ReadFits ==
  ASSUME NEW T, NEW sense, NEW ws, ws \subseteq DOMAIN T, Agrees(T, sense, ws)
  PROVE  Fits(Read(T, ws), ws, sense)
<1> DEFINE known == ws \cap DOMAIN sense
           meant == UNION {sense[w] : w \in known}
<1>1. \A w \in known : T[w] # {} /\ T[w] \subseteq sense[w] /\ T[w] \subseteq Read(T, ws)
  BY DEF Agrees, Read
<1>2. \A w \in known : Read(T, ws) \cap sense[w] # {}
  BY <1>1
<1>3. ws = known => Read(T, ws) \subseteq meant
  BY <1>1 DEF Read
<1> QED BY <1>2, <1>3 DEF Fits

LEMMA NoWordsFit ==
  ASSUME NEW sense
  PROVE  Fits({}, {}, sense)
<1> DEFINE meant == UNION {sense[w] : w \in {} \cap DOMAIN sense}
<1>1. {} \subseteq meant
  OBVIOUS
<1>2. \A w \in {} \cap DOMAIN sense : {} \cap sense[w] # {}
  OBVIOUS
<1> QED BY <1>1, <1>2, Zenon DEF Fits

LEMMA ReadWithin ==
  ASSUME NEW T, NEW S, Within(T, S), NEW ws, ws \subseteq DOMAIN T
  PROVE  Read(T, ws) \subseteq S
BY DEF Read, Within

LEMMA LevelTables ==
  /\ Within(OlxLevels, {"MID"}) /\ Within(JjitLevels, Level) /\ Within(PracujPlLevels, Level)
  /\ Within(BulldogLevels, Level) /\ Within(LinkedInLevels, Level) /\ Within(NfjLevels, Level)
  /\ Within(<< >>, Level)
<1>1. Within(OlxLevels, {"MID"})
  BY DEF Within, OlxLevels
<1>2. Within(JjitLevels, Level)
  BY DEF Within, JjitLevels, Level
<1>3. Within(PracujPlLevels, Level)
  BY DEF Within, PracujPlLevels, Level
<1>4. Within(BulldogLevels, Level)
  BY DEF Within, BulldogLevels, Level
<1>5. Within(LinkedInLevels, Level)
  BY DEF Within, LinkedInLevels, Level
<1>6. Within(NfjLevels, Level)
  BY DEF Within, NfjLevels, Level
<1>7. Within(<< >>, Level)
  BY DEF Within
<1> QED BY <1>1, <1>2, <1>3, <1>4, <1>5, <1>6, <1>7

LEMMA LevelsAgree ==
  /\ \A ws : Agrees(JjitLevels, LevelSense, ws) /\ Agrees(PracujPlLevels, LevelSense, ws)
  /\ \A ws : Agrees(BulldogLevels, LevelSense, ws) /\ Agrees(NfjLevels, LevelSense, ws)
  /\ \A ws : Agrees(<< >>, LevelSense, ws)
  /\ \A ws : "internship" \notin ws => Agrees(LinkedInLevels, LevelSense, ws)
<1>1. \A ws : Agrees(JjitLevels, LevelSense, ws)
  BY DEF Agrees, JjitLevels, LevelSense
<1>2. \A ws : Agrees(PracujPlLevels, LevelSense, ws)
  BY DEF Agrees, PracujPlLevels, LevelSense
<1>3. \A ws : Agrees(BulldogLevels, LevelSense, ws)
  BY DEF Agrees, BulldogLevels, LevelSense
<1>4. \A ws : Agrees(NfjLevels, LevelSense, ws)
  BY DEF Agrees, NfjLevels, LevelSense
<1>5. \A ws : Agrees(<< >>, LevelSense, ws)
  BY DEF Agrees
<1>6. \A ws : "internship" \notin ws => Agrees(LinkedInLevels, LevelSense, ws)
  BY DEF Agrees, LinkedInLevels, LevelSense
<1> QED BY <1>1, <1>2, <1>3, <1>4, <1>5, <1>6

LEMMA ContractsAndAgrees ==
  ASSUME NEW table, Within(table, Form), \A ws : Agrees(table, FormSense, ws)
  PROVE  Within(ContractsAnd(table), Form) /\ \A ws : Agrees(ContractsAnd(table), FormSense, ws)
<1>1. Within(Contracts, Form) /\ \A ws : Agrees(Contracts, FormSense, ws)
  BY DEF Within, Agrees, Contracts, FormSense, Form
<1>2. /\ DOMAIN ContractsAnd(table) = DOMAIN Contracts \cup DOMAIN table
      /\ \A w \in DOMAIN Contracts : ContractsAnd(table)[w] = Contracts[w]
      /\ \A w \in DOMAIN table \ DOMAIN Contracts : ContractsAnd(table)[w] = table[w]
  BY DEF ContractsAnd
<1> QED BY <1>1, <1>2 DEF Within, Agrees

LEMMA FormTables ==
  ASSUME NEW p \in {"olx", "justjoinit", "pracujpl", "bulldogjob", "theprotocol",
                    "linkedin", "nofluffjobs"}
  PROVE  Within(FormTable(p), Form) /\ \A ws : Agrees(FormTable(p), FormSense, ws)
<1> DEFINE Good(T) == Within(T, Form) /\ \A ws : Agrees(T, FormSense, ws)
<1>1. Good(OlxForms)
  <2> DEFINE rest == [specific_work |-> {"OTHER"}, internship |-> {"INTERNSHIP"}, other |-> {}]
  <2>1. Good(rest)
    BY DEF Within, Agrees, FormSense, Form
  <2> QED BY <2>1, ContractsAndAgrees DEF OlxForms
<1>2. Good(JjitForms)
  <2> DEFINE rest == [specific_work |-> {"OTHER"}, internship |-> {"OTHER"}, other |-> {"OTHER"}]
  <2>1. Good(rest)
    BY DEF Within, Agrees, FormSense, Form
  <2> QED BY <2>1, ContractsAndAgrees DEF JjitForms
<1>3. Good(PracujPlForms) /\ Good(TheProtocolForms)
  <2> DEFINE rest == [specific_work |-> {"OTHER"}, other |-> {}]
  <2>1. Good(rest)
    BY DEF Within, Agrees, FormSense, Form
  <2> QED BY <2>1, ContractsAndAgrees DEF PracujPlForms, TheProtocolForms
<1>4. Good(BulldogForms)
  BY DEF Within, Agrees, FormSense, Form, BulldogForms
<1>5. Good(LinkedInForms)
  BY DEF Within, Agrees, FormSense, Form, LinkedInForms
<1>6. Good(NfjForms)
  <2> DEFINE rest == [other |-> {}]
  <2>1. Good(rest)
    BY DEF Within, Agrees, FormSense, Form
  <2> QED BY <2>1, ContractsAndAgrees DEF NfjForms
<1> HIDE DEF Good
<1>7. Good(FormTable(p))
  BY <1>1, <1>2, <1>3, <1>4, <1>5, <1>6 DEF FormTable
<1> QED BY <1>7 DEF Good

Strategies == {"olx", "justjoinit", "pracujpl", "bulldogjob", "theprotocol", "linkedin", "nofluffjobs"}

LEMMA WordsTell ==
  ASSUME NEW p \in Strategies, NEW o \in OffersOf(p)
  PROVE  /\ Reading(p, o.words).levels \subseteq Level /\ Reading(p, o.words).forms \subseteq Form
         /\ Fits(Reading(p, o.words).forms, o.words.forms, FormSense)
         /\ p = "olx" => Reading(p, o.words).levels \subseteq {"MID"}
         /\ p # "olx" => \/ Fits(Reading(p, o.words).levels, o.words.levels, LevelSense)
                         \/ p = "linkedin" /\ o.words.levels = {"internship"}
<1> DEFINE ls == o.words.levels
           fs == o.words.forms
           T == LevelTable(p)
           F == FormTable(p)
<1>1. /\ ls \subseteq DOMAIN T /\ fs \subseteq DOMAIN F
      /\ p = "linkedin" => Cardinality(ls) <= 1
  BY DEF OffersOf, WordsOf, Stated, Strategies
<1>2. Reading(p, o.words).levels = Read(T, ls) /\ Reading(p, o.words).forms = Read(F, fs)
  BY DEF Reading, Read
<1>3. Within(F, Form) /\ Agrees(F, FormSense, fs)
  BY FormTables DEF Strategies
<1>4. /\ Within(T, IF p = "olx" THEN {"MID"} ELSE Level)
      /\ p \notin {"olx", "linkedin"} => Agrees(T, LevelSense, ls)
      /\ p = "linkedin" /\ "internship" \notin ls => Agrees(T, LevelSense, ls)
  <2>1. CASE p = "linkedin"
    BY <2>1, LevelTables, LevelsAgree DEF LevelTable
  <2>2. CASE p # "linkedin"
    BY <2>2, LevelTables, LevelsAgree DEF LevelTable, Strategies
  <2> QED BY <2>1, <2>2
<1>5. p = "linkedin" /\ "internship" \in ls => ls = {"internship"}
  <2> SUFFICES ASSUME p = "linkedin", "internship" \in ls, NEW w \in ls, w # "internship" PROVE FALSE
    OBVIOUS
  <2>1. ls \subseteq {"internship", "entry", "associate", "mid_senior", "director", "executive", "other"}
    BY <1>1 DEF LevelTable, LinkedInLevels
  <2>2. IsFiniteSet({"internship", "entry", "associate", "mid_senior", "director", "executive", "other"})
    <3>1. \A S, x : IsFiniteSet(S) => IsFiniteSet(S \cup {x})
      BY FS_AddElement
    <3>2. IsFiniteSet({"internship"} \cup {"entry"} \cup {"associate"} \cup {"mid_senior"}
                      \cup {"director"} \cup {"executive"} \cup {"other"})
      BY <3>1, FS_Singleton
    <3>3. {"internship", "entry", "associate", "mid_senior", "director", "executive", "other"} =
            {"internship"} \cup {"entry"} \cup {"associate"} \cup {"mid_senior"}
            \cup {"director"} \cup {"executive"} \cup {"other"}
      OBVIOUS
    <3> QED BY <3>2, <3>3
  <2>3. IsFiniteSet(ls)
    BY <2>1, <2>2, FS_Subset
  <2> HIDE DEF ls
  <2>4. Cardinality({"internship", w}) = 2
    <3>1. IsFiniteSet({w}) /\ Cardinality({w}) = 1
      BY FS_Singleton
    <3>2. Cardinality({w} \cup {"internship"}) = 2
      BY <3>1, FS_AddElement
    <3>3. {w} \cup {"internship"} = {"internship", w}
      OBVIOUS
    <3> QED BY <3>2, <3>3
  <2>5. Cardinality({"internship", w}) <= Cardinality(ls)
    <3>1. {"internship", w} \subseteq ls
      OBVIOUS
    <3> QED BY <2>3, <3>1, FS_Subset
  <2>6. Cardinality(ls) \in Nat
    BY <2>3, FS_CardinalityType
  <2> QED BY <1>1, <2>4, <2>5, <2>6
<1> HIDE DEF ls, fs, T, F
<1>6. Read(F, fs) \subseteq Form /\ Fits(Read(F, fs), fs, FormSense)
  BY <1>1, <1>3, ReadWithin, ReadFits
<1>7. Read(T, ls) \subseteq IF p = "olx" THEN {"MID"} ELSE Level
  BY <1>1, <1>4, ReadWithin
<1>8. p # "olx" => Fits(Read(T, ls), ls, LevelSense) \/ (p = "linkedin" /\ ls = {"internship"})
  BY <1>1, <1>4, <1>5, ReadFits
<1>9. {"MID"} \subseteq Level
  BY DEF Level
<1> DEFINE r == Reading(p, o.words)
<1>10. r.levels = Read(T, ls) /\ r.forms = Read(F, fs)
  BY <1>2
<1> HIDE DEF r
<1>11. /\ r.levels \subseteq Level /\ r.forms \subseteq Form /\ Fits(r.forms, fs, FormSense)
       /\ p = "olx" => r.levels \subseteq {"MID"}
  BY <1>6, <1>7, <1>9, <1>10
<1>12. p # "olx" => Fits(r.levels, ls, LevelSense) \/ (p = "linkedin" /\ ls = {"internship"})
  BY <1>8, <1>10
<1> QED BY <1>11, <1>12 DEF ls, fs, r

-----------------------------------------------------------------------------
(* The pay *)

Salary == [min : Figure, max : Figure, text : Text]

\* What normalize() leaves of a salary.
Least(s) == Either(s.min, ParseSalary(s.text).min)
Most(s) == Either(s.max, ParseSalary(s.text).max)

PayTells(p, min, max, pay) == {min, max} \subseteq Figure /\ PayTold(p, min, max, pay)

Paid(p, pay) ==
  {pay.from, pay.to} \subseteq AmountsIn(WaysOf(p)) \cup {None} /\ pay.per \in Periods(p)

LEMMA AmountIs ==
  ASSUME NEW ways, ways \subseteq Way, NEW a \in AmountsIn(ways)
  PROVE  /\ a \in AnAmount /\ a # None /\ a.way \in ways /\ a.way \in Way
         /\ a.head \in Nat \ {0} /\ a.tail \in Nat /\ a.tail < Places(a.way)
<1>1. /\ a \in [head : Amount, tail : Rest \cup {0}, way : ways] /\ a.tail < Places(a.way)
  BY DEF AmountsIn
<1>2. a.head \in Amount /\ a.tail \in Rest \cup {0} /\ a.way \in ways
      /\ a = [head |-> a.head, tail |-> a.tail, way |-> a.way]
  BY <1>1
<1>3. a.head \in Nat \ {0} /\ a.tail \in Nat /\ a.way \in Way
  BY <1>2, SalaryAssumption
<1>4. a \in AnAmount
  BY <1>2, <1>3 DEF AnAmount
<1> QED BY <1>1, <1>2, <1>3, <1>4, NoAmountAssumption

LEMMA PlainIs ==
  ASSUME NEW a \in AmountsIn({"plain"})
  PROVE  /\ a \in AnAmount /\ a # None /\ a.head \in Nat \ {0} /\ a.way = "plain"
         /\ Together(a) = a.head /\ Hundredths(a) = 100 * a.head
<1>1. /\ a \in AnAmount /\ a # None /\ a.way = "plain"
      /\ a.head \in Nat \ {0} /\ a.tail \in Nat /\ a.tail < Places(a.way)
  BY AmountIs DEF Way
<1>2. Places(a.way) = 1
  BY <1>1 DEF Places
<1> QED BY <1>1, <1>2 DEF Together, Hundredths

LEMMA EndsOfNone == Ends(<<>>, <<>>) = [min |-> None, max |-> None]
<1>1. <<>> \o <<>> = <<>> /\ Len(<<>>) = 0
  OBVIOUS
<1> QED BY <1>1 DEF Ends, At, Either

LEMMA EndsOfOne ==
  ASSUME NEW a \in Nat
  PROVE  /\ Ends(<<a>>, <<>>) = [min |-> a, max |-> a]
         /\ Ends(<<>>, <<a>>) = [min |-> a, max |-> a]
<1>1. <<a>> \o <<>> = <<a>> /\ <<>> \o <<a>> = <<a>> /\ Len(<<a>>) = 1 /\ <<a>>[1] = a
  OBVIOUS
<1> QED BY <1>1 DEF Ends, At, Either

LEMMA EndsOfTwo ==
  ASSUME NEW a \in Nat, NEW b \in Nat
  PROVE  Ends(<<a>>, <<b>>) = [min |-> a, max |-> b]
<1> DEFINE x == <<a>>
           y == <<b>>
           s == x \o y
<1>1. x \in Seq(Nat) /\ Len(x) = 1 /\ x[1] = a /\ y \in Seq(Nat) /\ Len(y) = 1 /\ y[1] = b
  OBVIOUS
<1> HIDE DEF x, y
<1>2. Len(s) = 2 /\ s[1] = x[1] /\ s[2] = y[1]
  <2>1. /\ Len(s) = Len(x) + Len(y)
        /\ \A i \in 1..Len(x) + Len(y) : s[i] = IF i <= Len(x) THEN x[i] ELSE y[i - Len(x)]
    BY <1>1, ConcatProperties
  <2> HIDE DEF s
  <2>2. Len(x) = 1 /\ Len(y) = 1 /\ Len(x) + Len(y) = 2
    BY <1>1
  <2>3. s[1] = x[1] /\ s[2] = y[2 - 1]
    BY <2>1, <2>2
  <2> QED BY <2>1, <2>2, <2>3
<1>3. b # None
  BY SalaryAssumption
<1>4. Ends(x, y) = [min |-> At(s, 1), max |-> Either(At(s, 2), At(s, 1))]
  BY DEF Ends
<1> HIDE DEF s
<1>5. At(s, 1) = a /\ At(s, 2) = b
  BY <1>1, <1>2 DEF At
<1> QED BY <1>3, <1>4, <1>5 DEF Either, x, y

\* Whatever the numbers are, with one of them there are both ends.
LEMMA EndsOfSome ==
  ASSUME NEW x \in Seq(Nat), NEW y \in Seq(Nat), x # <<>> \/ y # <<>>
  PROVE  Ends(x, y).min \in Nat /\ Ends(x, y).max \in Nat
<1> DEFINE s == x \o y
<1>1. s \in Seq(Nat) /\ Len(s) = Len(x) + Len(y) /\ Len(x) \in Nat /\ Len(y) \in Nat
  OBVIOUS
<1>2. Len(x) > 0 \/ Len(y) > 0
  OBVIOUS
<1>3. Len(s) >= 1
  BY <1>1, <1>2
<1>4. Ends(x, y) = [min |-> At(s, 1), max |-> Either(At(s, 2), At(s, 1))]
  BY DEF Ends
<1> HIDE DEF s
<1>5. At(s, 1) \in Nat
  BY <1>1, <1>3 DEF At
<1>6. At(s, 2) \in Nat \cup {None}
  BY <1>1 DEF At
<1> QED BY <1>4, <1>5, <1>6 DEF Either

\* Where the strategy found both ends, or there is no text, the API adds nothing.
LEMMA NothingAdded ==
  ASSUME NEW min \in Figure, NEW max \in Figure, NEW text \in Text,
         None \in {min, max} => text = NoText,
         NEW s, s = [min |-> min, max |-> max, text |-> text]
  PROVE  s \in Salary /\ Least(s) = min /\ Most(s) = max
<1>1. s \in Salary
  BY DEF Salary
<1>2. ParseSalary(NoText) = [min |-> None, max |-> None]
  BY EndsOfNone DEF ParseSalary, ApiNumbers, NoText
<1>3. Least(s) = Either(min, ParseSalary(text).min) /\ Most(s) = Either(max, ParseSalary(text).max)
  BY DEF Least, Most
<1>4. CASE None \in {min, max}
  <2>1. ParseSalary(text).min = None /\ ParseSalary(text).max = None
    BY <1>2, <1>4
  <2> QED BY <1>1, <1>3, <2>1 DEF Either
<1>5. CASE None \notin {min, max}
  BY <1>1, <1>3, <1>5 DEF Either
<1> QED BY <1>4, <1>5

LEMMA NoTextIs == NoText \in Text
BY DEF NoText, Text

LEMMA NoPayTells ==
  NoPay \in Salary /\ Least(NoPay) = None /\ Most(NoPay) = None
<1>1. None \in Figure
  BY DEF Figure
<1> QED BY <1>1, NoTextIs, NothingAdded DEF NoPay

\* An offer whose portal gives numbers.
LEMMA OlxPay ==
  ASSUME NEW pay, Paid("olx", pay)
  PROVE  LET s == OlxSalary(pay) IN s \in Salary /\ PayTells("olx", Least(s), Most(s), pay)
<1> DEFINE from == pay.from
           to == pay.to
           s == OlxSalary(pay)
<1>1. from \in AmountsIn({"plain"}) \cup {None} /\ to \in AmountsIn({"plain"}) \cup {None} /\ pay.per = "month"
  BY DEF Paid, WaysOf, TextPortals, Periods
<1>2. CASE from = None
  <2>1. s \in Salary /\ Least(s) = None /\ Most(s) = None
    BY <1>2, NoPayTells DEF OlxSalary
  <2> QED BY <1>2, <2>1 DEF PayTells, PayTold, Figure, TextPortals
<1>3. ASSUME from # None
      PROVE  /\ from \in AnAmount /\ from.head \in Nat /\ from.way = "plain"
             /\ Together(from) = from.head /\ SameByMonth(from.head, from, "month")
  <2>1. from \in AmountsIn({"plain"})
    BY <1>1, <1>3
  <2> QED BY <2>1, PlainIs DEF SameByMonth
<1>4. ASSUME to # None
      PROVE  /\ to \in AnAmount /\ to.head \in Nat /\ to.way = "plain"
             /\ Together(to) = to.head /\ SameByMonth(to.head, to, "month")
  <2>1. to \in AmountsIn({"plain"})
    BY <1>1, <1>4
  <2> QED BY <2>1, PlainIs DEF SameByMonth
<1>5. None \notin Nat
  BY SalaryAssumption
<1>6. CASE from # None /\ to = None
  <2>1. s = [min |-> from.head, max |-> None, text |-> [from |-> from, to |-> None]]
    BY <1>6 DEF OlxSalary, Number
  <2>2. ParseSalary(s.text) = [min |-> from.head, max |-> from.head]
    BY <1>3, <1>6, <2>1, EndsOfOne DEF ParseSalary, ApiNumbers
  <2>3. s \in Salary
    BY <1>3, <1>6, <2>1 DEF Salary, Text, Figure
  <2> HIDE DEF s, from, to
  <2>4. Least(s) = from.head /\ Most(s) = from.head
    BY <1>3, <1>5, <1>6, <2>1, <2>2 DEF Least, Most, Either
  <2>5. PayTold("olx", from.head, from.head, pay)
    BY <1>1, <1>3, <1>6 DEF PayTold, TextPortals, StatedIn, from, to
  <2> QED BY <1>3, <1>6, <2>3, <2>4, <2>5 DEF PayTells, Figure, s
<1>7. CASE from # None /\ to # None
  <2> DEFINE text == [from |-> from, to |-> IF to = from THEN None ELSE to]
  <2>1. s = [min |-> from.head, max |-> to.head, text |-> text]
    BY <1>7 DEF OlxSalary, Number
  <2>2. text \in Text /\ from.head \in Figure /\ to.head \in Figure /\ None \notin {from.head, to.head}
    BY <1>3, <1>4, <1>5, <1>7 DEF Text, Figure
  <2> HIDE DEF s, text, from, to
  <2>3. s \in Salary /\ Least(s) = from.head /\ Most(s) = to.head
    BY <2>1, <2>2, NothingAdded
  <2>4. PayTold("olx", from.head, to.head, pay)
    BY <1>1, <1>3, <1>4, <1>5, <1>7 DEF PayTold, TextPortals, StatedIn, from, to
  <2> QED BY <2>2, <2>3, <2>4 DEF PayTells, s
<1> QED BY <1>2, <1>6, <1>7

\* Rounding to months is off by half a month's part of the year at most.
LEMMA RoundedTells ==
  ASSUME NEW a \in Nat
  PROVE  Rounded(a, 12) \in Nat /\ 1200 * Rounded(a, 12) - 100 * a \in -600..600
BY DEF Rounded

\* What is made of the ends of a pay, one by one, by a strategy that gets
\* numbers and passes on a text of both or none.
LEMMA EndByEnd ==
  ASSUME NEW p \in {"justjoinit", "nofluffjobs"}, NEW pay, Paid(p, pay),
         NEW per, per = IF p = "nofluffjobs" /\ pay.per = "year" THEN "month" ELSE pay.per,
         NEW min, NEW max,
         pay.from = None => min = None, pay.to = None => max = None,
         pay.from # None => min \in Nat /\ SameByMonth(min, pay.from, per),
         pay.to # None => max \in Nat /\ SameByMonth(max, pay.to, per)
  PROVE  min \in Figure /\ max \in Figure /\ PayTells(p, min, max, pay)
<1>1. None \notin Nat
  BY SalaryAssumption
<1>2. min \in Figure /\ max \in Figure
  BY DEF Figure
<1>3. \A x \in {min, max} \ {None} : \E a \in StatedIn(pay) : SameByMonth(x, a, per)
  BY DEF StatedIn
<1>4. None \notin {pay.from, pay.to} =>
        /\ min # None /\ SameByMonth(min, pay.from, per)
        /\ max # None /\ SameByMonth(max, pay.to, per)
  BY <1>1
<1>5. PayTold(p, min, max, pay)
  BY <1>3, <1>4 DEF PayTold, TextPortals
<1> QED BY <1>2, <1>5 DEF PayTells

LEMMA JjitPay ==
  ASSUME NEW pay, Paid("justjoinit", pay)
  PROVE  LET s == JjitSalary(pay) IN s \in Salary /\ PayTells("justjoinit", Least(s), Most(s), pay)
<1> DEFINE Monthly(a) == IF a = None \/ pay.per = "month" THEN Number(a) ELSE Rounded(Number(a), 12)
           min == Monthly(pay.from)
           max == Monthly(pay.to)
           s == JjitSalary(pay)
<1>1. s = [min |-> min, max |-> max, text |-> NoText]
  BY DEF JjitSalary
<1>2. pay.per \in {"month", "year"} /\ {pay.from, pay.to} \subseteq AmountsIn({"plain"}) \cup {None}
  BY DEF Paid, Periods, WaysOf, TextPortals
<1>3. \A a \in AmountsIn({"plain"}) :
        a # None /\ Monthly(a) \in Nat /\ SameByMonth(Monthly(a), a, pay.per)
  <2> SUFFICES ASSUME NEW a \in AmountsIn({"plain"})
               PROVE  a # None /\ Monthly(a) \in Nat /\ SameByMonth(Monthly(a), a, pay.per)
    OBVIOUS
  <2>1. a # None /\ a.head \in Nat /\ Hundredths(a) = 100 * a.head
    BY PlainIs
  <2>2. CASE pay.per = "month"
    BY <2>1, <2>2 DEF SameByMonth, Number
  <2>3. CASE pay.per = "year"
    BY <2>1, <2>3, RoundedTells DEF SameByMonth, Number
  <2> QED BY <1>2, <2>2, <2>3
<1>4. Monthly(None) = None
  BY DEF Number
<1> HIDE DEF Monthly
<1>5. min \in Figure /\ max \in Figure /\ PayTells("justjoinit", min, max, pay)
  BY <1>2, <1>3, <1>4, EndByEnd
<1>6. s \in Salary /\ Least(s) = min /\ Most(s) = max
  <2> HIDE DEF s, min, max
  <2> QED BY <1>1, <1>5, NoTextIs, NothingAdded
<1> HIDE DEF s
<1> QED BY <1>5, <1>6 DEF s

LEMMA NfjPay ==
  ASSUME NEW pay, Paid("nofluffjobs", pay)
  PROVE  LET s == NfjSalary(pay) IN s \in Salary /\ PayTells("nofluffjobs", Least(s), Most(s), pay)
<1> DEFINE factor == CASE pay.per = "hour" -> 168 [] pay.per = "day" -> 22 [] OTHER -> 1
           Monthly(a) == IF a = None THEN None ELSE factor * Number(a)
           min == Monthly(pay.from)
           max == Monthly(pay.to)
           s == NfjSalary(pay)
           per == IF pay.per = "year" THEN "month" ELSE pay.per
           text == IF None \in {min, max} THEN NoText ELSE [from |-> Plain(min), to |-> Plain(max)]
<1>1. s = [min |-> min, max |-> max, text |-> text]
  BY DEF NfjSalary
<1>2. /\ pay.per \in {"month", "year", "day", "hour"}
      /\ {pay.from, pay.to} \subseteq AmountsIn({"plain"}) \cup {None}
  BY DEF Paid, Periods, WaysOf, TextPortals
<1>3. \A a \in AmountsIn({"plain"}) :
        a # None /\ Monthly(a) \in Nat /\ SameByMonth(Monthly(a), a, per)
  <2> SUFFICES ASSUME NEW a \in AmountsIn({"plain"})
               PROVE  a # None /\ Monthly(a) \in Nat /\ SameByMonth(Monthly(a), a, per)
    OBVIOUS
  <2>1. a # None /\ a.head \in Nat /\ Hundredths(a) = 100 * a.head
    BY PlainIs
  <2>2. CASE pay.per = "hour"
    BY <2>1, <2>2 DEF SameByMonth, Number
  <2>3. CASE pay.per = "day"
    BY <2>1, <2>3 DEF SameByMonth, Number
  <2>4. CASE pay.per \in {"month", "year"}
    BY <2>1, <2>4 DEF SameByMonth, Number
  <2> QED BY <1>2, <2>2, <2>3, <2>4
<1>4. Monthly(None) = None
  OBVIOUS
<1> HIDE DEF factor, Monthly
<1>5. min \in Figure /\ max \in Figure /\ PayTells("nofluffjobs", min, max, pay)
  BY <1>2, <1>3, <1>4, EndByEnd
<1>6. text \in Text
  <2> HIDE DEF min, max
  <2>1. CASE None \in {min, max}
    BY <2>1, NoTextIs
  <2>2. CASE None \notin {min, max}
    <3>1. Plain(min) \in AnAmount /\ Plain(max) \in AnAmount
      BY <1>5, <2>2 DEF Plain, AnAmount, Way, Figure
    <3> QED BY <2>2, <3>1 DEF Text
  <2> QED BY <2>1, <2>2
<1>7. s \in Salary /\ Least(s) = min /\ Most(s) = max
  <2>1. None \in {min, max} => text = NoText
    OBVIOUS
  <2> HIDE DEF s, min, max, text
  <2> QED BY <1>1, <1>5, <1>6, <2>1, NothingAdded
<1> HIDE DEF s
<1> QED BY <1>5, <1>7 DEF s

-----------------------------------------------------------------------------
(* The pay, read out of a text *)

Half(x, a) == 100 * x - Hundredths(a) \in -50..50

LEMMA PracujPlReads ==
  ASSUME NEW a \in AmountsIn(Way)
  PROVE  /\ PracujPlNumbers(a) \in Seq(Nat) /\ PracujPlNumbers(a) # <<>>
         /\ a.way \in ReadRight("pracujpl") => \E n \in Nat : PracujPlNumbers(a) = <<n>> /\ Half(n, a)
<1>1. a # None /\ a.way \in Way /\ a.head \in Nat /\ a.tail \in Nat /\ a.tail < Places(a.way)
  BY AmountIs
<1>2. CASE a.way \in {"plain", "spaced", "k"}
  <2>1. Together(a) \in Nat /\ PracujPlNumbers(a) = <<Together(a)>>
    BY <1>1, <1>2 DEF PracujPlNumbers, Together, Places
  <2>2. a.way \in {"plain", "spaced"} => Half(Together(a), a)
    BY <1>1, <2>1 DEF Half, Hundredths
  <2> QED BY <2>1, <2>2 DEF ReadRight
<1>3. CASE a.way \notin {"plain", "spaced", "k"}
  <2>1. PracujPlNumbers(a) \in {<<a.head>>, <<a.head, a.tail>>}
    BY <1>1, <1>3 DEF PracujPlNumbers, HeadAndTail
  <2>2. \A n, m \in Nat : <<n>> \in Seq(Nat) /\ <<n, m>> \in Seq(Nat) /\ <<n>> # <<>> /\ <<n, m>> # <<>>
    OBVIOUS
  <2> QED BY <1>1, <1>3, <2>1, <2>2 DEF ReadRight
<1> QED BY <1>2, <1>3

LEMMA BulldogReads ==
  ASSUME NEW a \in AmountsIn(Way)
  PROVE  /\ BulldogNumbers(a) \in Seq(Nat) /\ BulldogNumbers(a) # <<>>
         /\ a.way \in ReadRight("bulldogjob") => \E n \in Nat : BulldogNumbers(a) = <<n>> /\ Half(n, a)
<1>1. a # None /\ a.way \in Way /\ a.head \in Nat /\ a.tail \in Nat
  BY AmountIs
<1>2. Together(a) \in Nat /\ BulldogNumbers(a) = <<Together(a)>>
  BY <1>1 DEF BulldogNumbers, Together, Places, Way
<1>3. a.way \in {"plain", "spaced", "dotted"} => Half(Together(a), a)
  BY <1>2 DEF Half, Hundredths
<1> QED BY <1>2, <1>3 DEF ReadRight

LEMMA TheProtocolReads ==
  ASSUME NEW a \in AmountsIn(Way)
  PROVE  /\ TheProtocolNumbers(a) \in Seq(Nat) /\ TheProtocolNumbers(a) # <<>>
         /\ a.way \in ReadRight("theprotocol") =>
              \E n \in Nat : TheProtocolNumbers(a) = <<n>> /\ Half(n, a)
<1>1. a # None /\ a.way \in Way /\ a.head \in Nat /\ a.tail \in Nat
  BY AmountIs
<1> DEFINE t == Together(a)
<1>2. t \in Nat
  BY <1>1 DEF Together, Places, Way
<1> HIDE DEF t
<1>3. CASE a.way = "plain"
  <2>1. TheProtocolNumbers(a) = <<Rounded(t, 1)>> /\ Hundredths(a) = 100 * t
    BY <1>1, <1>3 DEF TheProtocolNumbers, Places, Hundredths, t
  <2>2. Rounded(t, 1) = t
    BY <1>2 DEF Rounded
  <2>3. Half(t, a)
    BY <1>2, <2>1 DEF Half
  <2> QED BY <1>2, <2>1, <2>2, <2>3
<1>4. CASE a.way = "point"
  <2>1. TheProtocolNumbers(a) = <<Rounded(t, 100)>> /\ Hundredths(a) = t
    BY <1>1, <1>2, <1>4 DEF TheProtocolNumbers, Places, Hundredths, t
  <2>2. Rounded(t, 100) \in Nat /\ 100 * Rounded(t, 100) - t \in -50..50
    BY <1>2 DEF Rounded
  <2> QED BY <2>1, <2>2 DEF Half
<1>5. CASE a.way = "dotted"
  <2>1. TheProtocolNumbers(a) = <<Rounded(t, 1000)>>
    BY <1>1, <1>5 DEF TheProtocolNumbers, Places, t
  <2>2. Rounded(t, 1000) \in Nat
    BY <1>2 DEF Rounded
  <2> QED BY <1>5, <2>1, <2>2 DEF ReadRight
<1>6. CASE a.way = "k"
  <2>1. TheProtocolNumbers(a) = <<1000 * t>> /\ Hundredths(a) = 100000 * t
    BY <1>1, <1>6 DEF TheProtocolNumbers, Hundredths, t
  <2> QED BY <1>2, <2>1 DEF Half
<1>7. CASE a.way = "kpoint"
  <2>1. TheProtocolNumbers(a) = <<100 * t>> /\ Hundredths(a) = 10000 * t
    BY <1>1, <1>7 DEF TheProtocolNumbers, Hundredths, t
  <2> QED BY <1>2, <2>1 DEF Half
<1>8. CASE a.way \in {"comma", "kcomma", "spaced"}
  <2>1. TheProtocolNumbers(a) \in {<<a.head>>, <<a.head, a.tail>>}
    BY <1>1, <1>8 DEF TheProtocolNumbers, HeadAndTail
  <2>2. \A n, m \in Nat : <<n>> \in Seq(Nat) /\ <<n, m>> \in Seq(Nat) /\ <<n>> # <<>> /\ <<n, m>> # <<>>
    OBVIOUS
  <2> QED BY <1>1, <1>8, <2>1, <2>2 DEF ReadRight
<1> QED BY <1>1, <1>3, <1>4, <1>5, <1>6, <1>7, <1>8 DEF Way

\* The numbers x of the lower end and y of the upper one, or of what is left
\* of the text.
LEMMA ReadOut ==
  ASSUME NEW p \in TextPortals, NEW pay, Paid(p, pay),
         NEW x \in Seq(Nat), NEW y \in Seq(Nat),
         x = <<>> <=> pay.from = None,
         pay.to = None => y = <<>>,
         pay.from = None /\ pay.to # None => y # <<>>,
         (\A a \in StatedIn(pay) : a.way \in ReadRight(p)) =>
           /\ pay.from # None => \E n \in Nat : x = <<n>> /\ Half(n, pay.from)
           /\ pay.to # None => \E n \in Nat : y = <<n>> /\ Half(n, pay.to)
  PROVE  LET e == Ends(x, y)
         IN  /\ PayTells(p, e.min, e.max, pay)
             /\ None \in {e.min, e.max} <=> pay.from = None /\ pay.to = None
             /\ pay.from = None /\ pay.to = None => e.min = None /\ e.max = None
<1> DEFINE e == Ends(x, y)
           from == pay.from
           to == pay.to
           right == \A a \in StatedIn(pay) : a.way \in ReadRight(p)
           Told(min, max) ==
             /\ \A m \in {min, max} \ {None} : \E a \in StatedIn(pay) : Half(m, a)
             /\ None \notin {from, to} => min # None /\ Half(min, from) /\ max # None /\ Half(max, to)
<1>1. None \notin Nat /\ (StatedIn(pay) = {} <=> from = None /\ to = None)
  BY SalaryAssumption DEF StatedIn
<1>2. /\ from = None /\ to = None => e.min = None /\ e.max = None
      /\ from # None \/ to # None => e.min \in Nat /\ e.max \in Nat
  BY EndsOfNone, EndsOfSome
<1>3. ASSUME right PROVE Told(e.min, e.max)
  <2> HIDE DEF right
  <2>1. CASE from = None /\ to = None
    BY <1>2, <2>1
  <2>2. CASE from # None /\ to = None
    <3>1. PICK n \in Nat : x = <<n>> /\ Half(n, from)
      BY <1>3, <2>2 DEF right
    <3>2. e.min = n /\ e.max = n
      <4>1. Ends(<<n>>, <<>>) = [min |-> n, max |-> n] /\ y = <<>>
        BY <2>2, EndsOfOne
      <4> QED BY <3>1, <4>1
    <3>3. from \in StatedIn(pay)
      BY <2>2 DEF StatedIn
    <3> HIDE DEF e
    <3> QED BY <2>2, <3>1, <3>2, <3>3
  <2>3. CASE from = None /\ to # None
    <3>1. PICK n \in Nat : y = <<n>> /\ Half(n, to)
      BY <1>3, <2>3 DEF right
    <3>2. e.min = n /\ e.max = n
      <4>1. Ends(<<>>, <<n>>) = [min |-> n, max |-> n] /\ x = <<>>
        BY <2>3, EndsOfOne
      <4> QED BY <3>1, <4>1
    <3>3. to \in StatedIn(pay)
      BY <2>3 DEF StatedIn
    <3> HIDE DEF e
    <3> QED BY <2>3, <3>1, <3>2, <3>3
  <2>4. CASE from # None /\ to # None
    <3>1. PICK n \in Nat : x = <<n>> /\ Half(n, from)
      BY <1>3, <2>4 DEF right
    <3>2. PICK m \in Nat : y = <<m>> /\ Half(m, to)
      BY <1>3, <2>4 DEF right
    <3>3. e.min = n /\ e.max = m
      <4>1. Ends(<<n>>, <<m>>) = [min |-> n, max |-> m]
        BY EndsOfTwo
      <4> QED BY <3>1, <3>2, <4>1
    <3>4. from \in StatedIn(pay) /\ to \in StatedIn(pay)
      BY <2>4 DEF StatedIn
    <3> HIDE DEF e
    <3> QED BY <1>1, <3>1, <3>2, <3>3, <3>4
  <2> QED BY <2>1, <2>2, <2>3, <2>4
<1>4. pay.per = "month" /\ p # "nofluffjobs"
  BY DEF Paid, Periods, TextPortals
<1>5. \A m, a : SameByMonth(m, a, "month") <=> Half(m, a)
  BY DEF SameByMonth, Half
<1>6. None \in {e.min, e.max} <=> from = None /\ to = None
  BY <1>1, <1>2
<1> HIDE DEF e, Told
<1>7. {e.min, e.max} \subseteq Figure
  BY <1>2 DEF Figure
<1>8. PayTold(p, e.min, e.max, pay)
  BY <1>1, <1>3, <1>4, <1>5, <1>6 DEF PayTold, Told, right, from, to
<1> QED BY <1>2, <1>6, <1>7, <1>8 DEF PayTells, e, from, to

\* What the three strategies read, whether they pass the text on or not.
LEMMA TextPay ==
  ASSUME NEW pay
  PROVE  /\ Paid("pracujpl", pay) =>
              LET s == PracujPlSalary(pay)
              IN  s \in Salary /\ PayTells("pracujpl", Least(s), Most(s), pay)
         /\ Paid("bulldogjob", pay) =>
              LET s == BulldogSalary(pay)
              IN  s \in Salary /\ PayTells("bulldogjob", Least(s), Most(s), pay)
         /\ Paid("theprotocol", pay) =>
              LET s == TheProtocolSalary(pay)
              IN  /\ s \in Salary /\ PayTells("theprotocol", Least(s), Most(s), pay)
                  /\ Written(pay) = NoText => Least(s) = None /\ Most(s) = None
<1> DEFINE from == pay.from
           to == pay.to
           text == Written(pay)
<1>1. ASSUME NEW p \in TextPortals, Paid(p, pay)
      PROVE  /\ from \in AmountsIn(Way) \cup {None} /\ to \in AmountsIn(Way) \cup {None}
             /\ text \in Text /\ (text = NoText <=> from = None /\ to = None)
  <2>1. from \in AmountsIn(Way) \cup {None} /\ to \in AmountsIn(Way) \cup {None}
    BY <1>1 DEF Paid, WaysOf
  <2>2. AmountsIn(Way) \subseteq AnAmount
    BY AmountIs
  <2> QED BY <2>1, <2>2 DEF Written, Text, NoText
<1>2. None \notin AmountsIn(Way) /\ <<>> \in Seq(Nat)
  BY AmountIs
<1>3. ASSUME NEW p \in TextPortals, Paid(p, pay), NEW e,
             PayTells(p, e.min, e.max, pay), None \in {e.min, e.max} <=> from = None /\ to = None,
             NEW t \in {text, NoText}, NEW s, s = Parsed(e, t)
      PROVE  s \in Salary /\ Least(s) = e.min /\ Most(s) = e.max
  <2>1. e.min \in Figure /\ e.max \in Figure
    BY <1>3 DEF PayTells
  <2>2. t \in Text /\ (None \in {e.min, e.max} => t = NoText)
    BY <1>1, <1>3, NoTextIs
  <2>3. s = [min |-> e.min, max |-> e.max, text |-> t]
    BY <1>3 DEF Parsed
  <2> QED BY <2>1, <2>2, <2>3, NothingAdded
<1>4. ASSUME Paid("pracujpl", pay)
      PROVE  LET s == PracujPlSalary(pay)
             IN  s \in Salary /\ PayTells("pracujpl", Least(s), Most(s), pay)
  <2> DEFINE x == PracujPlNumbers(from)
             y == PracujPlNumbers(to)
  <2>1. "pracujpl" \in TextPortals
    BY DEF TextPortals
  <2>2. \A a \in {from, to} : a = None => PracujPlNumbers(a) = <<>>
    BY DEF PracujPlNumbers
  <2>3. \A a \in {from, to} : a # None => a \in AmountsIn(Way)
    BY <1>1, <1>4, <2>1
  <2>4. /\ x \in Seq(Nat) /\ y \in Seq(Nat)
        /\ x = <<>> <=> from = None
        /\ y = <<>> <=> to = None
        /\ (\A a \in StatedIn(pay) : a.way \in ReadRight("pracujpl")) =>
             /\ from # None => \E n \in Nat : x = <<n>> /\ Half(n, from)
             /\ to # None => \E n \in Nat : y = <<n>> /\ Half(n, to)
    BY <1>2, <2>2, <2>3, PracujPlReads DEF StatedIn
  <2>5. PracujPlSalary(pay) = Parsed(Ends(x, y), text)
    BY DEF PracujPlSalary, PracujPlEnds, Written
  <2> HIDE DEF x, y, text
  <2>6. /\ PayTells("pracujpl", Ends(x, y).min, Ends(x, y).max, pay)
        /\ None \in {Ends(x, y).min, Ends(x, y).max} <=> from = None /\ to = None
    BY <1>4, <2>1, <2>4, ReadOut
  <2> QED BY <1>3, <1>4, <2>1, <2>5, <2>6
<1>5. ASSUME Paid("bulldogjob", pay)
      PROVE  LET s == BulldogSalary(pay)
             IN  s \in Salary /\ PayTells("bulldogjob", Least(s), Most(s), pay)
  <2> DEFINE x == BulldogNumbers(from)
             y == BulldogNumbers(to)
  <2>1. "bulldogjob" \in TextPortals
    BY DEF TextPortals
  <2>2. \A a \in {from, to} : a = None => BulldogNumbers(a) = <<>>
    BY DEF BulldogNumbers
  <2>3. \A a \in {from, to} : a # None => a \in AmountsIn(Way)
    BY <1>1, <1>5, <2>1
  <2>4. /\ x \in Seq(Nat) /\ y \in Seq(Nat)
        /\ x = <<>> <=> from = None
        /\ y = <<>> <=> to = None
        /\ (\A a \in StatedIn(pay) : a.way \in ReadRight("bulldogjob")) =>
             /\ from # None => \E n \in Nat : x = <<n>> /\ Half(n, from)
             /\ to # None => \E n \in Nat : y = <<n>> /\ Half(n, to)
    BY <1>2, <2>2, <2>3, BulldogReads DEF StatedIn
  <2>5. BulldogSalary(pay) = Parsed(Ends(x, y), NoText)
    BY DEF BulldogSalary, BulldogEnds, Written
  <2> HIDE DEF x, y, text
  <2>6. /\ PayTells("bulldogjob", Ends(x, y).min, Ends(x, y).max, pay)
        /\ None \in {Ends(x, y).min, Ends(x, y).max} <=> from = None /\ to = None
    BY <1>5, <2>1, <2>4, ReadOut
  <2> QED BY <1>3, <1>5, <2>1, <2>5, <2>6
<1>6. ASSUME Paid("theprotocol", pay)
      PROVE  LET s == TheProtocolSalary(pay)
             IN  /\ s \in Salary /\ PayTells("theprotocol", Least(s), Most(s), pay)
                 /\ Written(pay) = NoText => Least(s) = None /\ Most(s) = None
  <2> DEFINE x == TheProtocolNumbers(from)
             cut == from # None /\ from.way \in {"comma", "kcomma"}
             y == IF cut THEN <<>> ELSE TheProtocolNumbers(to)
  <2>1. "theprotocol" \in TextPortals
    BY DEF TextPortals
  <2>2. \A a \in {from, to} : a = None => TheProtocolNumbers(a) = <<>>
    BY DEF TheProtocolNumbers
  <2>3. \A a \in {from, to} : a # None => a \in AmountsIn(Way)
    BY <1>1, <1>6, <2>1
  <2>4. /\ x \in Seq(Nat) /\ y \in Seq(Nat)
        /\ x = <<>> <=> from = None
        /\ to = None => y = <<>>
        /\ from = None /\ to # None => y # <<>>
    BY <1>2, <2>2, <2>3, TheProtocolReads
  <2>5. (\A a \in StatedIn(pay) : a.way \in ReadRight("theprotocol")) =>
             /\ from # None => \E n \in Nat : x = <<n>> /\ Half(n, from)
             /\ to # None => \E n \in Nat : y = <<n>> /\ Half(n, to)
    <3> SUFFICES ASSUME \A a \in StatedIn(pay) : a.way \in ReadRight("theprotocol")
                 PROVE  /\ from # None => \E n \in Nat : x = <<n>> /\ Half(n, from)
                        /\ to # None => \E n \in Nat : y = <<n>> /\ Half(n, to)
      OBVIOUS
    <3>1. ~cut
      BY DEF StatedIn, ReadRight
    <3>2. \A a \in StatedIn(pay) : \E n \in Nat : TheProtocolNumbers(a) = <<n>> /\ Half(n, a)
      BY <2>3, TheProtocolReads DEF StatedIn
    <3> QED BY <3>1, <3>2 DEF StatedIn
  <2>6. TheProtocolSalary(pay) = Parsed(Ends(x, y), text)
    BY DEF TheProtocolSalary, TheProtocolEnds, Written
  <2> HIDE DEF x, y, cut, text
  <2>7. /\ PayTells("theprotocol", Ends(x, y).min, Ends(x, y).max, pay)
        /\ None \in {Ends(x, y).min, Ends(x, y).max} <=> from = None /\ to = None
        /\ from = None /\ to = None => Ends(x, y).min = None /\ Ends(x, y).max = None
    BY <1>6, <2>1, <2>4, <2>5, ReadOut
  <2>8. text = NoText => from = None /\ to = None
    BY <1>1, <1>6, <2>1
  <2> QED BY <1>3, <1>6, <2>1, <2>6, <2>7, <2>8 DEF text
<1> QED BY <1>4, <1>5, <1>6

-----------------------------------------------------------------------------
(* What is made of a card and a page *)

ModesMade(p, c, d) ==
  CASE p = "olx" -> {OlxMode(c.of)}
    [] p = "justjoinit" -> JjitModes(c.of)
    [] p = "pracujpl" -> RemoteOrNot(Remote(c.of))
    [] p = "bulldogjob" -> BulldogModes(c.of, d)
    [] p = "theprotocol" -> TheProtocolModes(c.of)
    [] p = "linkedin" -> RemoteOrNot(c.remote)
    [] p = "nofluffjobs" ->
         IF d = None THEN {} ELSE IF d.modes = {} THEN {"ONSITE"} ELSE d.modes

PayMade(p, c, d) ==
  CASE p = "olx" -> OlxSalary(c.of.pay)
    [] p = "justjoinit" -> JjitSalary(c.of.pay)
    [] p = "pracujpl" -> PracujPlSalary(c.of.pay)
    [] p = "theprotocol" -> TheProtocolSalary(c.of.pay)
    [] p = "bulldogjob" -> BulldogSalary(c.of.pay)
    [] p = "linkedin" -> NoPay
    [] p = "nofluffjobs" -> IF d = None THEN NoPay ELSE NfjSalary(d.pay)

WordsMade(p, c, d) ==
  CASE p \in {"olx", "justjoinit", "pracujpl", "bulldogjob"} -> Reading(p, c.of.words)
    [] p = "theprotocol" -> IF Written(c.of.pay) = NoText THEN NoWords ELSE Reading(p, c.of.words)
    [] p \in {"linkedin", "nofluffjobs"} -> IF d = None THEN NoWords ELSE Reading(p, d.words)

\* A card and a page that a strategy may have read.
IsPage(p, d) == d = None \/ d \in OffersOf(p)
Readable(p, c, d) == p \in Portal /\ c \in CardsOf(p) /\ IsPage(p, d)

LEMMA OfferFacts ==
  ASSUME NEW p \in Portal, NEW o \in OffersOf(p)
  PROVE  /\ p \in Strategies /\ o # None
         /\ o.modes \in ModesOf(p) /\ o.modes \subseteq Mode
         /\ Paid(p, o.pay)
         /\ o.near \in BOOLEAN
<1>1. p \in Strategies /\ o # None
  BY OfferIntakeAssumption, NoneAssumption DEF Strategies
<1>2. o.modes \in ModesOf(p) /\ o.pay \in PaysOf(p) /\ o.near \in BOOLEAN
  BY DEF OffersOf
<1>3. o.modes \subseteq Mode
  BY <1>2 DEF ModesOf, Mode
<1>4. Paid(p, o.pay)
  BY <1>2 DEF PaysOf, PaysIn, Paid
<1> QED BY <1>1, <1>2, <1>3, <1>4

LEMMA ReadableFacts ==
  ASSUME NEW p, NEW c, NEW d, Readable(p, c, d)
  PROVE  /\ p \in Portal /\ p \in Strategies
         /\ c.of \in OffersOf(p) /\ c.remote \in BOOLEAN
         /\ d # None => d \in OffersOf(p)
BY OfferIntakeAssumption DEF Readable, IsPage, CardsOf, Strategies

DetailsOf(p, c, d) == Raw(ModesMade(p, c, d), PayMade(p, c, d), WordsMade(p, c, d))

LEMMA DetailsMade ==
  ASSUME NEW c, NEW d, Readable(portal, c, d)
  PROVE  Details(c, d) = DetailsOf(portal, c, d)
<1> USE DEF DetailsOf, ModesMade, PayMade, WordsMade, Details, Words
<1>1. portal \in Strategies
  BY ReadableFacts
<1>2. CASE portal = "olx"
  BY <1>2 DEF OlxDetails
<1>3. CASE portal = "justjoinit"
  BY <1>3 DEF JjitDetails
<1>4. CASE portal = "pracujpl"
  BY <1>4 DEF PracujPlDetails
<1>5. CASE portal = "bulldogjob"
  BY <1>5 DEF BulldogDetails
<1>6. CASE portal = "theprotocol"
  BY <1>6 DEF TheProtocolDetails, TheProtocolWords
<1>7. CASE portal = "linkedin"
  BY <1>7 DEF LinkedInDetails
<1>8. CASE portal = "nofluffjobs"
  BY <1>8 DEF NfjDetails
<1> QED BY <1>1, <1>2, <1>3, <1>4, <1>5, <1>6, <1>7, <1>8 DEF Strategies

\* The modes are those of the card or the page, or ONSITE where none is stated.
LEMMA ModesTell ==
  ASSUME NEW p, NEW c, NEW d, Readable(p, c, d)
  PROVE  LET modes == ModesMade(p, c, d)
         IN  /\ modes \subseteq Mode
             /\ p \in {"olx", "justjoinit", "pracujpl", "theprotocol"} =>
                  ("REMOTE" \in modes <=> Remote(c.of))
             /\ p = "linkedin" => ("REMOTE" \in modes <=> c.remote)
             /\ p = "bulldogjob" =>
                  ("REMOTE" \in modes <=> Remote(IF d # None /\ d.modes # {} THEN d ELSE c.of))
             /\ p = "nofluffjobs" => ("REMOTE" \in modes <=> d # None /\ Remote(d))
<1>1. /\ p \in Strategies /\ p \in Portal
      /\ c.of \in OffersOf(p) /\ (d # None => d \in OffersOf(p))
  BY ReadableFacts
<1>2. c.of.modes \subseteq Mode /\ (d # None => d.modes \subseteq Mode)
  BY <1>1, OfferFacts
<1>3. CASE p = "olx"
  BY <1>3 DEF ModesMade, OlxMode, Mode, Remote
<1>4. CASE p = "justjoinit"
  BY <1>2, <1>4 DEF ModesMade, JjitModes, Mode, Remote
<1>5. CASE p = "pracujpl"
  BY <1>5 DEF ModesMade, RemoteOrNot, Mode, Remote
<1>6. CASE p = "bulldogjob"
  BY <1>2, <1>6 DEF ModesMade, BulldogModes, RemoteOrNot, Mode, Remote
<1>7. CASE p = "theprotocol"
  BY <1>2, <1>7 DEF ModesMade, TheProtocolModes, Mode, Remote
<1>8. CASE p = "linkedin"
  BY <1>8 DEF ModesMade, RemoteOrNot, Mode
<1>9. CASE p = "nofluffjobs"
  BY <1>2, <1>9 DEF ModesMade, Mode, Remote
<1> QED BY <1>1, <1>3, <1>4, <1>5, <1>6, <1>7, <1>8, <1>9 DEF Strategies

LEMMA PayMadeTells ==
  ASSUME NEW p, NEW c, NEW d, Readable(p, c, d)
  PROVE  LET s == PayMade(p, c, d)
             paid == IF p = "nofluffjobs" THEN d ELSE c.of
         IN  /\ s \in Salary
             /\ p = "linkedin" \/ paid = None => Least(s) = None /\ Most(s) = None
             /\ p # "linkedin" /\ paid # None => PayTells(p, Least(s), Most(s), paid.pay)
             /\ p = "theprotocol" /\ Written(c.of.pay) = NoText => Least(s) = None /\ Most(s) = None
<1>1. /\ p \in Strategies /\ p \in Portal
      /\ c.of \in OffersOf(p) /\ c.of # None /\ (d # None => d \in OffersOf(p))
  BY ReadableFacts, NoneAssumption
<1>2. Paid(p, c.of.pay) /\ (d # None => Paid(p, d.pay))
  BY <1>1, OfferFacts
<1>3. CASE p = "olx"
  BY <1>1, <1>2, <1>3, OlxPay DEF PayMade
<1>4. CASE p = "justjoinit"
  BY <1>1, <1>2, <1>4, JjitPay DEF PayMade
<1>5. CASE p \in {"pracujpl", "theprotocol", "bulldogjob"}
  BY <1>1, <1>2, <1>5, TextPay DEF PayMade
<1>6. CASE p = "linkedin"
  BY <1>6, NoPayTells DEF PayMade
<1>7. CASE p = "nofluffjobs"
  BY <1>2, <1>7, NoPayTells, NfjPay DEF PayMade
<1> QED BY <1>1, <1>3, <1>4, <1>5, <1>6, <1>7 DEF Strategies

LEMMA WordsMadeTell ==
  ASSUME NEW p, NEW c, NEW d, Readable(p, c, d)
  PROVE  LET words == WordsMade(p, c, d)
             worded == IF p \in {"nofluffjobs", "linkedin"} THEN d ELSE c.of
         IN  /\ words.levels \subseteq Level /\ words.forms \subseteq Form
             /\ worded = None => words.levels = {} /\ words.forms = {}
             /\ worded # None =>
                  /\ \/ Fits(words.levels, worded.words.levels, LevelSense)
                     \/ p = "olx" /\ words.levels \subseteq {"MID"}
                     \/ p = "linkedin" /\ worded.words.levels = {"internship"}
                  /\ \/ Fits(words.forms, worded.words.forms, FormSense)
                     \/ p = "theprotocol" /\ Written(c.of.pay) = NoText
<1>1. /\ p \in Strategies /\ p \in Portal
      /\ c.of \in OffersOf(p) /\ c.of # None /\ (d # None => d \in OffersOf(p))
  BY ReadableFacts, NoneAssumption
<1>2. /\ Reading(p, c.of.words).levels \subseteq Level /\ Reading(p, c.of.words).forms \subseteq Form
      /\ Fits(Reading(p, c.of.words).forms, c.of.words.forms, FormSense)
      /\ p = "olx" => Reading(p, c.of.words).levels \subseteq {"MID"}
      /\ p \notin {"olx", "linkedin"} => Fits(Reading(p, c.of.words).levels, c.of.words.levels, LevelSense)
  BY <1>1, WordsTell
<1>3. ASSUME d # None
      PROVE  /\ Reading(p, d.words).levels \subseteq Level /\ Reading(p, d.words).forms \subseteq Form
             /\ Fits(Reading(p, d.words).forms, d.words.forms, FormSense)
             /\ p # "olx" => \/ Fits(Reading(p, d.words).levels, d.words.levels, LevelSense)
                             \/ p = "linkedin" /\ d.words.levels = {"internship"}
  BY <1>1, <1>3, WordsTell
<1>4. CASE p \in {"olx", "justjoinit", "pracujpl", "bulldogjob"}
  BY <1>1, <1>2, <1>4 DEF WordsMade
<1>5. CASE p = "theprotocol"
  <2>1. CASE Written(c.of.pay) # NoText
    BY <1>1, <1>2, <1>5, <2>1 DEF WordsMade
  <2>2. CASE Written(c.of.pay) = NoText
    <3>1. WordsMade(p, c, d) = NoWords
      BY <1>5, <2>2 DEF WordsMade
    <3>2. c.of.words.levels = {}
      <4>1. DOMAIN LevelTable(p) = {}
        BY <1>5 DEF LevelTable
      <4> QED BY <1>1, <4>1 DEF OffersOf, WordsOf, Stated
    <3>3. Fits({}, {}, LevelSense)
      BY NoWordsFit
    <3>4. WordsMade(p, c, d).levels = {} /\ WordsMade(p, c, d).forms = {}
      BY <3>1 DEF NoWords
    <3>5. Fits(WordsMade(p, c, d).levels, c.of.words.levels, LevelSense)
      BY <3>2, <3>3, <3>4
    <3> QED BY <1>1, <1>5, <2>2, <3>4, <3>5
  <2> QED BY <2>1, <2>2
<1>6. CASE p \in {"linkedin", "nofluffjobs"}
  BY <1>3, <1>6 DEF WordsMade, NoWords
<1> QED BY <1>1, <1>4, <1>5, <1>6 DEF Strategies

\* normalize() keeps the modes and the words, and takes the pay from the text
\* where the strategy left it open.
LEMMA RowMade ==
  ASSUME NEW p, NEW c, NEW d, Readable(p, c, d)
  PROVE  LET r == Normalize(DetailsOf(p, c, d))
         IN  /\ DetailsOf(p, c, d) \in RawOffer /\ r \in Row
             /\ r.modes = ModesMade(p, c, d)
             /\ r.min = Least(PayMade(p, c, d)) /\ r.max = Most(PayMade(p, c, d))
             /\ r.levels = WordsMade(p, c, d).levels /\ r.forms = WordsMade(p, c, d).forms
<1> DEFINE m == ModesMade(p, c, d)
           s == PayMade(p, c, d)
           w == WordsMade(p, c, d)
           raw0 == Raw(m, s, w)
           r == Normalize(raw0)
<1>1. m \subseteq Mode /\ s \in Salary /\ w.levels \subseteq Level /\ w.forms \subseteq Form
  BY ModesTell, PayMadeTells, WordsMadeTell
<1>2. Least(s) \in Figure /\ Most(s) \in Figure
  <2>1. (\E pay : PayTells(p, Least(s), Most(s), pay))
        \/ (Least(s) = None /\ Most(s) = None)
    BY PayMadeTells
  <2> QED BY <2>1 DEF PayTells, Figure
<1>3. DetailsOf(p, c, d) = raw0
  BY DEF DetailsOf
<1> HIDE DEF m, s, w
<1>4. raw0 = [modes |-> m, min |-> s.min, max |-> s.max, text |-> s.text,
              levels |-> w.levels, forms |-> w.forms]
  BY DEF Raw
<1> HIDE DEF raw0
<1>5. raw0 \in RawOffer
  BY <1>1, <1>4 DEF RawOffer, Salary
<1>6. r = [modes |-> m, min |-> Least(s), max |-> Most(s), levels |-> w.levels, forms |-> w.forms]
  BY <1>4 DEF Normalize, Least, Most
<1>7. r \in Row
  BY <1>1, <1>2, <1>6 DEF Row
<1> QED BY <1>3, <1>5, <1>6, <1>7 DEF r, m, s, w

-----------------------------------------------------------------------------
(* The invariant *)

\* Why the search brought the card c.
Brought(p, t, c) ==
  /\ c.remote => p = "linkedin" /\ Remote(c.of)
  /\ t.remoteType = "REMOTE" /\ p \notin {"theprotocol", "linkedin"} => Remote(c.of)
  /\ t.city /\ ~t.includeAllRemote => c.of.near \/ Remote(c.of)

\* What the raw offer and the row were made of.
Sources ==
  /\ card # None => Brought(portal, target, card)
  /\ raw # None => Readable(portal, card, page) /\ raw = DetailsOf(portal, card, page)
  /\ row # None => /\ Readable(portal, was.card, was.page) /\ Brought(portal, target, was.card)
                   /\ row = Normalize(DetailsOf(portal, was.card, was.page))

IInv == TypeOK /\ Sources

LEMMA InitInv == Init => IInv
<1> SUFFICES ASSUME Init PROVE IInv
  OBVIOUS
<1>1. /\ portal \in Portal /\ target \in TargetsOf(portal) /\ offer \in OffersOf(portal)
      /\ card = None /\ page = None /\ raw = None /\ row = None /\ was = None
      /\ changes = 0 /\ scrapes = 0
  BY DEF Init
<1>2. changes \in 0..MaxChanges /\ scrapes \in 0..MaxScrapes
  BY <1>1, OfferIntakeAssumption
<1>3. TypeOK
  BY <1>1, <1>2 DEF TypeOK
<1> QED BY <1>1, <1>3 DEF IInv, Sources

\* The card is listed.
LEMMA FetchListInv == ASSUME IInv, NEW remote \in BOOLEAN, FetchList(remote) PROVE IInv'
<1> DEFINE c == [of |-> offer, remote |-> remote]
<1>1. /\ card = None /\ scrapes < MaxScrapes /\ scrapes' = scrapes + 1 /\ card' = c
      /\ UNCHANGED <<portal, target, offer, page, raw, row, was, changes>>
      /\ remote => portal = "linkedin" /\ Remote(offer)
  BY DEF FetchList
<1>2. c \in CardsOf(portal) /\ c.of = offer /\ c.remote = remote
  BY DEF CardsOf, IInv, TypeOK
<1>3. raw = None
  BY <1>1 DEF IInv, TypeOK
<1>4. Brought(portal, target, c)
  <2>1. portal \in Strategies
    BY OfferIntakeAssumption DEF IInv, TypeOK, Strategies
  <2> HIDE DEF c
  <2>2. CASE portal \in {"olx", "pracujpl", "bulldogjob"}
    <3>1. InCity(offer) /\ Wanted(offer)
      BY <2>2 DEF FetchList, Olx, PracujPl, BulldogJob
    <3> QED BY <1>1, <1>2, <3>1 DEF Brought, InCity, Wanted, WantsRemote
  <2>3. CASE portal = "justjoinit"
    <3>1. (target.includeAllRemote \/ InCity(offer)) /\ Wanted(offer)
      BY <2>3 DEF FetchList, JustJoinIT
    <3> QED BY <1>1, <1>2, <3>1 DEF Brought, InCity, Wanted, WantsRemote
  <2>4. CASE portal = "theprotocol"
    <3>1. InCity(offer) \/ Remote(offer)
      BY <2>4 DEF FetchList, TheProtocol
    <3> QED BY <1>1, <1>2, <2>4, <3>1 DEF Brought, InCity
  <2>5. CASE portal = "linkedin"
    <3>1. InCity(offer) \/ remote
      BY <2>5 DEF FetchList, LinkedIn
    <3> QED BY <1>1, <1>2, <2>5, <3>1 DEF Brought, InCity
  <2>6. CASE portal = "nofluffjobs"
    <3>1. IF WantsRemote THEN Remote(offer) ELSE InCity(offer) \/ Remote(offer)
      BY <2>6 DEF FetchList, NoFluffJobs
    <3> QED BY <1>1, <1>2, <2>6, <3>1 DEF Brought, InCity, WantsRemote
  <2> QED BY <2>1, <2>2, <2>3, <2>4, <2>5, <2>6 DEF Strategies
<1>5. scrapes' \in 0..MaxScrapes
  BY <1>1, OfferIntakeAssumption DEF IInv, TypeOK
<1> HIDE DEF c
<1>6. TypeOK'
  BY <1>1, <1>2, <1>3, <1>5 DEF IInv, TypeOK
<1>7. Sources'
  BY <1>1, <1>3, <1>4 DEF IInv, Sources
<1> QED BY <1>6, <1>7 DEF IInv

\* Card and page become the raw offer.
LEMMA FetchDetailsInv == ASSUME IInv, NEW d \in {None, offer}, FetchDetails(d) PROVE IInv'
<1>1. /\ card # None /\ raw = None /\ page' = d /\ raw' = Details(card, d)
      /\ UNCHANGED <<portal, target, offer, card, row, was, changes, scrapes>>
  BY DEF FetchDetails
<1>2. Readable(portal, card, d)
  BY <1>1 DEF IInv, TypeOK, Readable, IsPage
<1>3. raw' = DetailsOf(portal, card, d) /\ raw' \in RawOffer
  BY <1>1, <1>2, DetailsMade, RowMade
<1>4. TypeOK'
  BY <1>1, <1>3 DEF IInv, TypeOK
<1>5. Sources'
  BY <1>1, <1>2, <1>3 DEF IInv, Sources
<1> QED BY <1>4, <1>5 DEF IInv

LEMMA EndInv ==
  ASSUME IInv, EndScrape, UNCHANGED <<row, was>>
  PROVE  IInv'
<1>1. /\ card' = None /\ page' = None /\ raw' = None
      /\ UNCHANGED <<portal, target, offer, row, was, changes, scrapes>>
  BY DEF EndScrape
<1>2. TypeOK' /\ Sources'
  BY <1>1 DEF IInv, TypeOK, Sources
<1> QED BY <1>2 DEF IInv

\* The row is written whole.
LEMMA UpsertInv == ASSUME IInv, Upsert PROVE IInv'
<1>1. /\ raw # None /\ row' = Normalize(raw) /\ was' = [card |-> card, page |-> page]
      /\ card' = None /\ page' = None /\ raw' = None
      /\ UNCHANGED <<portal, target, offer, changes, scrapes>>
  BY DEF Upsert, EndScrape
<1>2. /\ portal \in Portal /\ Readable(portal, card, page) /\ Brought(portal, target, card)
      /\ raw = DetailsOf(portal, card, page)
  BY <1>1 DEF IInv, TypeOK, Sources
<1>3. row' \in Row /\ row' # None
  BY <1>1, <1>2, RowMade, NoneAssumption
<1>4. was' \in SourcesOf(portal) /\ was' # None /\ was'.card = card /\ was'.page = page
  BY <1>1, <1>2, NoneAssumption DEF SourcesOf, Readable, IsPage
<1>5. TypeOK'
  BY <1>1, <1>3, <1>4 DEF IInv, TypeOK
<1>6. Sources'
  BY <1>1, <1>2, <1>4 DEF Sources
<1> QED BY <1>5, <1>6 DEF IInv

LEMMA ChangeInv == ASSUME IInv, Change PROVE IInv'
<1>1. /\ changes < MaxChanges /\ changes' = changes + 1
      /\ offer' \in {[offer EXCEPT !.modes = m] : m \in ModesOf(portal)} \cup
                    {[offer EXCEPT !.pay = w] : w \in PaysIn(portal, {"plain"})}
      /\ UNCHANGED <<portal, target, card, page, raw, row, was, scrapes>>
  BY DEF Change
<1>2. offer' \in OffersOf(portal)
  <2>1. AmountsIn({"plain"}) \subseteq AmountsIn(WaysOf(portal))
    BY DEF AmountsIn, WaysOf, Way
  <2>2. PaysIn(portal, {"plain"}) \subseteq PaysOf(portal)
    BY <2>1 DEF PaysOf, PaysIn
  <2> QED BY <1>1, <2>2 DEF IInv, TypeOK, OffersOf
<1>3. changes' \in 0..MaxChanges
  BY <1>1, OfferIntakeAssumption DEF IInv, TypeOK
<1>4. TypeOK' /\ Sources'
  BY <1>1, <1>2, <1>3 DEF IInv, TypeOK, Sources
<1> QED BY <1>4 DEF IInv

LEMMA NextInv == IInv /\ [Next]_vars => IInv'
<1> SUFFICES ASSUME IInv, [Next]_vars PROVE IInv'
  OBVIOUS
<1>1. ASSUME NEW remote \in BOOLEAN, FetchList(remote) PROVE IInv'
  BY <1>1, FetchListInv
<1>2. ASSUME NEW d \in {None, offer}, FetchDetails(d) PROVE IInv'
  BY <1>2, FetchDetailsInv
<1>3. ASSUME NEW d \in {None, offer}, DropOffer(d) PROVE IInv'
  BY <1>3, EndInv DEF DropOffer
<1>4. CASE Upsert
  BY <1>4, UpsertInv
<1>5. CASE ScrapeFails
  BY <1>5, EndInv DEF ScrapeFails
<1>6. CASE Change
  BY <1>6, ChangeInv
<1>7. CASE UNCHANGED vars
  BY <1>7 DEF vars, IInv, TypeOK, Sources
<1> QED BY <1>1, <1>2, <1>3, <1>4, <1>5, <1>6, <1>7 DEF Next

LEMMA IInvHolds == Spec => []IInv
BY InitInv, NextInv, PTL DEF Spec

-----------------------------------------------------------------------------
(* The theorems *)

\* Of an offer the worker and the API keep modes, pay, levels and forms that
\* are of their kind, and a row whenever they keep what it was made of.
THEOREM TypeCorrect == Spec => []TypeOK
<1>1. IInv => TypeOK
  BY DEF IInv
<1> QED BY <1>1, IInvHolds, PTL

\* fetchDetails, normalize() and upsert() put into a row what the portal said,
\* whatever it changed between the listing and the page.  The pay is the stated
\* one wherever it is written in a way that the parser of its strategy reads.
THEOREM RowsTell == Spec => []RowTellsTheOffer
<1>1. IInv => RowTellsTheOffer
  <2> SUFFICES ASSUME IInv, row # None PROVE RowTellsTheOffer
    BY DEF RowTellsTheOffer
  <2> DEFINE c == was.card
             d == was.page
             paid == IF portal = "nofluffjobs" THEN d ELSE c.of
             worded == IF portal \in {"nofluffjobs", "linkedin"} THEN d ELSE c.of
             s == PayMade(portal, c, d)
             w == WordsMade(portal, c, d)
  <2>1. /\ Readable(portal, c, d) /\ Brought(portal, target, c)
        /\ row = Normalize(DetailsOf(portal, c, d))
    BY DEF IInv, Sources
  <2>2. /\ portal \in Strategies /\ portal \in Portal /\ c.of \in OffersOf(portal)
        /\ d # None => d \in OffersOf(portal)
    BY <2>1, ReadableFacts
  <2>3. c.of # None
    BY <2>2, OfferFacts
  <2>4. /\ row.modes = ModesMade(portal, c, d) /\ row.min = Least(s) /\ row.max = Most(s)
        /\ row.levels = w.levels /\ row.forms = w.forms
    BY <2>1, RowMade
  <2>5. Shown = {c.of} \cup (IF d = None THEN {} ELSE {d})
    BY DEF Shown
  <2> HIDE DEF c, d, s, w
  <2>6. "REMOTE" \in row.modes => \E o \in Shown : Remote(o)
    <3>1. c.remote => Remote(c.of)
      BY <2>1 DEF Brought
    <3> QED BY <2>1, <2>2, <2>4, <2>5, <3>1, ModesTell DEF Strategies
  <2>7. (\A o \in Shown : Remote(o)) /\ "REMOTE" \notin row.modes =>
          portal = "linkedin" \/ (portal = "nofluffjobs" /\ d = None)
    BY <2>1, <2>2, <2>4, <2>5, ModesTell DEF Strategies
  <2>8. IF portal = "linkedin" \/ paid = None
        THEN {row.min, row.max} = {None}
        ELSE PayTells(portal, row.min, row.max, paid.pay)
    BY <2>1, <2>4, PayMadeTells DEF s
  <2>9. /\ worded = None => row.levels = {} /\ row.forms = {}
        /\ worded # None =>
             /\ \/ Fits(row.levels, worded.words.levels, LevelSense)
                \/ portal = "olx" /\ row.levels \subseteq {"MID"}
                \/ portal = "linkedin" /\ worded.words.levels = {"internship"}
             /\ \/ Fits(row.forms, worded.words.forms, FormSense)
                \/ portal = "theprotocol" /\ Written(c.of.pay) = NoText
    BY <2>1, <2>4, WordsMadeTell DEF w
  <2>10. portal = "theprotocol" /\ Written(c.of.pay) = NoText => {row.min, row.max} = {None}
    BY <2>1, <2>4, PayMadeTells DEF s
  <2> QED BY <2>6, <2>7, <2>8, <2>9, <2>10 DEF RowTellsTheOffer, PayTells, c, d
<1> QED BY <1>1, IInvHolds, PTL

\* The portal's filter, that of fetchList and the reading of the modes agree on
\* what a search for remote offers, or for those of a city, brings.
THEOREM RowsFit == Spec => []RowFitsTheSearch
<1>1. IInv => RowFitsTheSearch
  <2> SUFFICES ASSUME IInv, row # None PROVE RowFitsTheSearch
    BY DEF RowFitsTheSearch
  <2> DEFINE c == was.card
             d == was.page
  <2>1. /\ Readable(portal, c, d) /\ Brought(portal, target, c)
        /\ row = Normalize(DetailsOf(portal, c, d))
    BY DEF IInv, Sources
  <2>2. portal \in Strategies
    BY <2>1, ReadableFacts
  <2>3. row.modes = ModesMade(portal, c, d)
    BY <2>1, RowMade
  <2> HIDE DEF c, d
  <2>4. WantsRemote /\ portal \notin {"theprotocol", "linkedin"} => Remote(c.of)
    BY <2>1 DEF Brought, WantsRemote
  <2>5. target.city /\ ~target.includeAllRemote => c.of.near \/ Remote(c.of)
    BY <2>1 DEF Brought
  <2>6. WantsRemote /\ portal \notin {"theprotocol", "linkedin"} =>
          \/ "REMOTE" \in row.modes
          \/ portal \in {"bulldogjob", "nofluffjobs"} /\ d # None /\ ~Remote(d)
          \/ portal = "nofluffjobs" /\ d = None
    BY <2>1, <2>2, <2>3, <2>4, ModesTell DEF Strategies
  <2> QED BY <2>5, <2>6 DEF RowFitsTheSearch, c, d
<1> QED BY <1>1, IInvHolds, PTL

\* A page that does not come takes nothing from the row of an unchanged card,
\* but for the three strategies that go by the page.
THEOREM LostPagesHarmless == Spec => LostPageHarmless
<1> DEFINE Step == row # None /\ row' # row /\ was'.card = was.card /\ was'.page = None =>
             \/ portal = "bulldogjob" /\ row' = [row EXCEPT !.modes = RemoteOrNot(Remote(was.card.of))]
             \/ portal = "linkedin" /\ row' = [row EXCEPT !.levels = {}, !.forms = {}]
             \/ portal = "nofluffjobs" /\ row' = Normalize(Raw({}, NoPay, NoWords))
<1>1. IInv /\ [Next]_vars => [Step]_vars
  <2> SUFFICES ASSUME IInv, [Next]_vars, row # None, row' # row, was'.card = was.card, was'.page = None
               PROVE  Step
    OBVIOUS
  <2> DEFINE c == was.card
             d == was.page
             old == DetailsOf(portal, c, d)
             new == DetailsOf(portal, c, None)
  <2>1. Upsert
    BY DEF Next, FetchList, FetchDetails, DropOffer, ScrapeFails, Change, vars
  <2>2. card = c /\ page = None
    BY <2>1 DEF Upsert
  <2>3. raw = new /\ row' = Normalize(new) /\ Readable(portal, c, None)
    BY <2>1, <2>2 DEF Upsert, IInv, Sources
  <2>4. row = Normalize(old) /\ Readable(portal, c, d) /\ row \in Row
    BY DEF IInv, Sources, TypeOK
  <2>5. portal \in Strategies
    BY <2>4, ReadableFacts
  <2> HIDE DEF c, d
  <2>6. portal \in {"olx", "justjoinit", "pracujpl", "theprotocol"} => new = old
    BY DEF DetailsOf, ModesMade, PayMade, WordsMade
  <2>7. CASE portal = "bulldogjob"
    <3> DEFINE s == BulldogSalary(c.of.pay)
               w == Reading(portal, c.of.words)
               modes == RemoteOrNot(Remote(c.of))
    <3>1. /\ PayMade(portal, c, d) = s /\ PayMade(portal, c, None) = s
          /\ WordsMade(portal, c, d) = w /\ WordsMade(portal, c, None) = w
          /\ ModesMade(portal, c, None) = modes
      BY <2>7 DEF PayMade, WordsMade, ModesMade, BulldogModes
    <3>2. /\ Normalize(new).modes = modes /\ Normalize(new) \in Row
          /\ Normalize(new).min = row.min /\ Normalize(new).max = row.max
          /\ Normalize(new).levels = row.levels /\ Normalize(new).forms = row.forms
      BY <2>3, <2>4, <3>1, RowMade
    <3> HIDE DEF modes, new
    <3>3. Normalize(new) = [row EXCEPT !.modes = modes]
      BY <2>4, <3>2 DEF Row
    <3> QED BY <2>3, <2>7, <3>3 DEF c, modes
  <2>8. CASE portal = "linkedin"
    <3>1. /\ PayMade(portal, c, d) = PayMade(portal, c, None)
          /\ WordsMade(portal, c, None) = NoWords
          /\ ModesMade(portal, c, d) = ModesMade(portal, c, None)
      BY <2>8 DEF PayMade, WordsMade, ModesMade
    <3>2. NoWords.levels = {} /\ NoWords.forms = {}
      BY DEF NoWords
    <3>3. /\ Normalize(new).modes = row.modes /\ Normalize(new) \in Row
          /\ Normalize(new).min = row.min /\ Normalize(new).max = row.max
          /\ Normalize(new).levels = {} /\ Normalize(new).forms = {}
      BY <2>3, <2>4, <3>1, <3>2, RowMade
    <3> HIDE DEF new
    <3>4. Normalize(new) = [row EXCEPT !.levels = {}, !.forms = {}]
      BY <2>4, <3>3 DEF Row
    <3> QED BY <2>3, <2>8, <3>4
  <2>9. CASE portal = "nofluffjobs"
    <3>1. new = Raw({}, NoPay, NoWords)
      BY <2>9 DEF DetailsOf, PayMade, WordsMade, ModesMade
    <3> QED BY <2>3, <2>9, <3>1
  <2> QED BY <2>3, <2>4, <2>5, <2>6, <2>7, <2>8, <2>9 DEF Strategies
<1>2. Spec => [][Step]_vars
  BY <1>1, IInvHolds, PTL DEF Spec
<1> QED BY <1>2 DEF LostPageHarmless
=============================================================================
