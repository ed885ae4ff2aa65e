------------------------------ MODULE ApiProofs ------------------------------
(***************************************************************************)
(* Theorems about two tables of the API: that of Recruitment, with the tab *)
(* that shows it, and that of ScrapeSchedules (at the end of the module).  *)
(*                                                                         *)
(* First Recruitment, for every set of offers and statuses, every number   *)
(* of acts, and answers in any order.                                      *)
(*                                                                         *)
(* Both properties rest on what the tab knows of an offer it is sure of:   *)
(* at most one change of it is underway, and the items tell its entries,   *)
(* but for the one entry that change has already written (SureOfItems).    *)
(* A load may make the tab sure again, so it carries what its answer tells *)
(* (LoadsTell); and no entry of an offer waits for a second one that has   *)
(* not been applied to in haste (OneApplication).                          *)
(***************************************************************************)
EXTENDS Recruitment, ScrapeSchedules, FiniteSetTheorems, SequenceTheorems, TLAPS

-----------------------------------------------------------------------------
(* The table E and what it says: the operators of Recruitment for any table *)

Seen(E, o) == {i \in DOMAIN E : E[i].offer = o /\ Visible(E[i])}
ItemIn(E, i) == [id |-> i, offer |-> E[i].offer, status |-> E[i].status]

\* The items are of entries there are.
Named(E, s) == \A k \in DOMAIN s : s[k].id \in DOMAIN E /\ s[k].offer = E[s[k].id].offer

\* The items s tell the visible entries of o, each once and as it is, but for
\* the entry x (there is none with the number 0).
Tells(E, s, o, x) ==
  /\ \A k \in DOMAIN s : s[k].offer = o /\ s[k].id # x =>
       s[k].id \in Seen(E, o) /\ s[k] = ItemIn(E, s[k].id)
  /\ \A i \in Seen(E, o) \ {x} : \E k \in DOMAIN s : s[k].id = i /\ s[k].offer = o
  /\ \A k, l \in DOMAIN s : s[k].offer = o /\ s[l].offer = o /\ s[k].id = s[l].id => k = l

Holds(s, x) == \E k \in DOMAIN s : s[k].id = x

\* What the items s are to the one change c of an offer the tab is sure of.
Fits(E, s, c) ==
  /\ c.at = "sent" => Tells(E, s, c.offer, 0)
  /\ c.at = "written" \/ (c.at = "served" /\ c.kind = "status") =>
       Tells(E, s, c.offer, c.id) /\ c.id \in Seen(E, c.offer) /\ Holds(s, c.id)
  /\ c.at = "served" /\ c.kind = "status" => c.answer[1] = ItemIn(E, c.id)
  /\ c.at = "served" /\ c.kind = "remove" =>
       Tells(E, s, c.offer, c.id) /\ c.id \notin Seen(E, c.offer)
  /\ c.at = "served" /\ c.kind = "apply" =>
       LET x == c.answer[1].id
       IN  /\ Tells(E, s, c.offer, x) /\ ~Holds(s, x)
           /\ x \in Seen(E, c.offer) /\ c.answer[1] = ItemIn(E, x)

-----------------------------------------------------------------------------
(* The invariant *)

Changes == {c \in calls : c.kind # "load"}

CallsApart ==
  /\ \A c \in calls : c.n < acts
  /\ \A c, d \in calls : c.n = d.n => c = d

CallsNamed ==
  \A c \in calls :
    /\ c.kind \in {"status", "remove"} => c.id \in DOMAIN entries /\ entries[c.id].offer = c.offer
    /\ c.at = "written" => c.kind = "status"
    /\ c.at = "served" /\ c.kind \in {"load", "apply", "status"} => Named(entries, c.answer)
    /\ c.at = "served" /\ c.kind \in {"apply", "status"} =>
         Len(c.answer) = 1 /\ c.answer[1].offer = c.offer
    /\ c.at = "served" /\ c.kind = "status" => c.answer[1].id = c.id

\* Every entry is one of the first or was asked for by an act of the user.
Unserved == {c \in calls : c.kind = "apply" /\ c.at = "sent"}
RoomForEntries ==
  /\ IsFiniteSet(Unserved)
  /\ Len(entries) + Cardinality(Unserved) <= Cardinality(Foreign) + acts

SureOfItems ==
  /\ Named(entries, items)
  /\ \A o \in Offer \ unsure :
       /\ \A c, d \in Changes : c.offer = o /\ d.offer = o => c = d
       /\ o \notin Touched => Tells(entries, items, o, 0)
       /\ \A c \in Changes : c.offer = o => Fits(entries, items, c)

LoadsTell ==
  \A c \in calls : c.kind = "load" =>
    \A o \in Offer \ c.dirty :
      /\ o \notin Touched
      /\ c.at = "served" => Tells(entries, c.answer, o, 0)

OneApplication ==
  \A o \in Offer \ hasty :
    /\ \A i, j \in Seen(entries, o) : entries[i].mine /\ entries[j].mine => i = j
    /\ \A c \in Unserved : c.offer = o => \A i \in Seen(entries, o) : ~entries[i].mine
    /\ \A c, d \in Unserved : c.offer = o /\ d.offer = o => c = d

IInv == /\ TypeOK /\ CallsApart /\ CallsNamed /\ RoomForEntries
        /\ SureOfItems /\ LoadsTell /\ OneApplication

-----------------------------------------------------------------------------
(* Induction up to a number, and what Kept keeps *)

\* A set of numbers that holds 0, and with a number the next one up to n, holds
\* all of them up to n: had it a gap k, the numbers missing up to k could be
\* mapped one to one to themselves without k.
LEMMA IntervalInduction ==
  ASSUME NEW n \in Nat, NEW S, 0 \in S, \A k \in 0..(n - 1) : k \in S => k + 1 \in S
  PROVE  \A k \in 0..n : k \in S
<1> SUFFICES ASSUME NEW k \in 0..n, k \notin S PROVE FALSE
  OBVIOUS
<1> DEFINE out == {j \in 0..k : j \notin S}
           f == [j \in out |-> j - 1]
<1>1. IsFiniteSet(out)
  <2>1. IsFiniteSet(0..k)
    BY FS_Interval
  <2> QED BY <2>1, FS_Subset
<1>2. \A j \in out : j - 1 \in out \ {k}
  OBVIOUS
<1>3. f \in Injection(out, out \ {k})
  <2>1. f \in [out -> out \ {k}]
    BY <1>2
  <2>2. IsInjective(f)
    BY DEF IsInjective
  <2> QED BY <2>1, <2>2 DEF Injection
<1>4. Cardinality(out \ {k}) = Cardinality(out) - 1 /\ IsFiniteSet(out \ {k})
  <2>1. k \in out
    OBVIOUS
  <2> HIDE DEF out
  <2> QED BY <1>1, <2>1, FS_RemoveElement
<1>5. Cardinality(out) <= Cardinality(out \ {k})
  <2> HIDE DEF out, f
  <2> QED BY <1>3, <1>4, FS_Injection
<1>6. Cardinality(out) \in Nat
  BY <1>1, FS_CardinalityType
<1> QED BY <1>4, <1>5, <1>6

\* The function that Kept is computed by, up to m.
KeptUpTo(s, S, f, n) ==
  IF n = 0 THEN <<>>
  ELSE IF s[n] \in S THEN Append(f[n - 1], s[n]) ELSE f[n - 1]
KeptTable(s, S, m) == CHOOSE f : f = [n \in 0..m |-> KeptUpTo(s, S, f, n)]

LEMMA KeptTableExists ==
  ASSUME NEW A, NEW s \in Seq(A), NEW S
  PROVE  \E f : f = [n \in 0..Len(s) |-> KeptUpTo(s, S, f, n)]
<1> DEFINE good == {m \in 0..Len(s) : \E f : f = [n \in 0..m |-> KeptUpTo(s, S, f, n)]}
<1>1. 0 \in good
  <2> DEFINE g == [n \in 0..0 |-> <<>>]
  <2>1. g = [n \in 0..0 |-> KeptUpTo(s, S, g, n)]
    BY DEF KeptUpTo
  <2>2. 0 \in 0..Len(s)
    OBVIOUS
  <2> HIDE DEF g
  <2> QED BY <2>1, <2>2
<1>2. ASSUME NEW k \in 0..(Len(s) - 1), k \in good PROVE k + 1 \in good
  <2>1. PICK f : f = [n \in 0..k |-> KeptUpTo(s, S, f, n)]
    BY <1>2
  <2> DEFINE g == [n \in 0..(k + 1) |-> IF n = k + 1 THEN KeptUpTo(s, S, f, n) ELSE f[n]]
  <2>2. \A n \in 0..(k + 1) : g[n] = KeptUpTo(s, S, g, n)
    <3> SUFFICES ASSUME NEW n \in 0..(k + 1) PROVE g[n] = KeptUpTo(s, S, g, n)
      OBVIOUS
    <3>1. n # 0 => g[n - 1] = f[n - 1]
      OBVIOUS
    <3>2. KeptUpTo(s, S, g, n) = KeptUpTo(s, S, f, n)
      BY <3>1 DEF KeptUpTo
    <3>3. n \in 0..k => f[n] = KeptUpTo(s, S, f, n)
      BY <2>1
    <3> QED BY <3>2, <3>3
  <2>3. g = [n \in 0..(k + 1) |-> KeptUpTo(s, S, g, n)]
    BY <2>2
  <2>4. k + 1 \in 0..Len(s)
    OBVIOUS
  <2> HIDE DEF g
  <2> QED BY <2>3, <2>4
<1>3. Len(s) \in Nat
  OBVIOUS
<1> HIDE DEF good
<1>4. \A m \in 0..Len(s) : m \in good
  BY <1>1, <1>2, <1>3, IntervalInduction
<1>5. Len(s) \in good
  BY <1>3, <1>4
<1> QED BY <1>5 DEF good

\* r holds the members of S among the first n of s, each once, by the places f
\* it has them from.
KeepsBy(s, S, r, n, f) ==
  /\ f \in [DOMAIN r -> 1..n]
  /\ \A j \in DOMAIN r : s[f[j]] \in S /\ r[j] = s[f[j]]
  /\ \A k \in 1..n : s[k] \in S => \E j \in DOMAIN r : f[j] = k
  /\ \A i, j \in DOMAIN r : f[i] = f[j] => i = j

LEMMA KeptKeeps ==
  ASSUME NEW A, NEW s \in Seq(A), NEW S
  PROVE  Kept(s, S) \in Seq(A) /\ \E f : KeepsBy(s, S, Kept(s, S), Len(s), f)
<1> DEFINE t == KeptTable(s, S, Len(s))
           good == {m \in 0..Len(s) : t[m] \in Seq(A) /\ \E f : KeepsBy(s, S, t[m], m, f)}
<1>1. Kept(s, S) = t[Len(s)]
  BY DEF Kept, KeptTable, KeptUpTo
<1>2. t = [n \in 0..Len(s) |-> KeptUpTo(s, S, t, n)]
  BY KeptTableExists DEF KeptTable
<1>3. Len(s) \in Nat
  OBVIOUS
<1> HIDE DEF t
<1>4. 0 \in good
  <2>1. t[0] = <<>> /\ 0 \in 0..Len(s)
    BY <1>2, <1>3 DEF KeptUpTo
  <2>2. KeepsBy(s, S, <<>>, 0, <<>>)
    BY DEF KeepsBy
  <2>3. <<>> \in Seq(A)
    OBVIOUS
  <2> QED BY <2>1, <2>2, <2>3
<1>5. ASSUME NEW k \in 0..(Len(s) - 1), k \in good PROVE k + 1 \in good
  <2>1. t[k] \in Seq(A) /\ k + 1 \in 0..Len(s) /\ s[k + 1] \in A
    BY <1>5, <1>3
  <2>2. PICK f : KeepsBy(s, S, t[k], k, f)
    BY <1>5
  <2>3. t[k + 1] = IF s[k + 1] \in S THEN Append(t[k], s[k + 1]) ELSE t[k]
    <3>1. t[k + 1] = KeptUpTo(s, S, t, k + 1)
      BY <1>2, <2>1
    <3>2. k + 1 # 0 /\ (k + 1) - 1 = k
      OBVIOUS
    <3> QED BY <3>1, <3>2 DEF KeptUpTo
  <2>4. CASE s[k + 1] \notin S
    <3>1. KeepsBy(s, S, t[k], k + 1, f)
      BY <2>2, <2>4 DEF KeepsBy
    <3> QED BY <3>1, <2>1, <2>3, <2>4
  <2>5. CASE s[k + 1] \in S
    <3> DEFINE r == t[k]
               q == Append(r, s[k + 1])
               g == [j \in DOMAIN q |-> IF j = Len(r) + 1 THEN k + 1 ELSE f[j]]
    <3>1. /\ q \in Seq(A) /\ DOMAIN q = 1..(Len(r) + 1) /\ DOMAIN r = 1..Len(r) /\ Len(r) \in Nat
          /\ q[Len(r) + 1] = s[k + 1] /\ \A j \in 1..Len(r) : q[j] = r[j]
      BY <2>1
    <3> HIDE DEF r, q
    <3>2. KeepsBy(s, S, r, k, f)
      BY <2>2 DEF r
    <3>3. g \in [DOMAIN q -> 1..(k + 1)]
      BY <3>1, <3>2 DEF KeepsBy
    <3>4. /\ g[Len(r) + 1] = k + 1 /\ \A j \in 1..Len(r) : g[j] = f[j] /\ f[j] \in 1..k
      BY <3>1, <3>2 DEF KeepsBy
    <3> HIDE DEF g
    <3>5. \A j \in DOMAIN q : s[g[j]] \in S /\ q[j] = s[g[j]]
      BY <2>5, <3>1, <3>2, <3>4 DEF KeepsBy
    <3>6. \A i \in 1..(k + 1) : s[i] \in S => \E j \in DOMAIN q : g[j] = i
      <4> SUFFICES ASSUME NEW i \in 1..(k + 1), s[i] \in S PROVE \E j \in DOMAIN q : g[j] = i
        OBVIOUS
      <4>1. CASE i = k + 1
        BY <4>1, <3>1, <3>4
      <4>2. CASE i # k + 1
        <5>1. PICK j \in DOMAIN r : f[j] = i
          BY <4>2, <3>2 DEF KeepsBy
        <5> QED BY <5>1, <3>1, <3>4
      <4> QED BY <4>1, <4>2
    <3>7. \A i, j \in DOMAIN q : g[i] = g[j] => i = j
      BY <3>1, <3>2, <3>4 DEF KeepsBy
    <3>8. KeepsBy(s, S, q, k + 1, g)
      BY <3>3, <3>5, <3>6, <3>7 DEF KeepsBy
    <3> QED BY <2>1, <2>3, <2>5, <3>1, <3>8 DEF q, r
  <2> QED BY <2>4, <2>5
<1> HIDE DEF good
<1>6. \A m \in 0..Len(s) : m \in good
  BY <1>3, <1>4, <1>5, IntervalInduction
<1>7. Len(s) \in good
  BY <1>3, <1>6
<1> QED BY <1>1, <1>7 DEF good

-----------------------------------------------------------------------------
(* What is listed, and what goes on telling the table *)

LEMMA Counts ==
  ASSUME TypeOK, RoomForEntries
  PROVE  /\ Cardinality(Foreign) \in Nat /\ Cardinality(Unserved) \in Nat
         /\ Len(entries) \in Nat /\ DOMAIN entries = 1..Len(entries)
         /\ acts \in Nat /\ acts <= MaxActs
         /\ DOMAIN entries \subseteq Id
<1>1. IsFiniteSet(Foreign)
  BY RecruitmentAssumption, FS_Subset
<1>2. Cardinality(Foreign) \in Nat /\ Cardinality(Unserved) \in Nat
  BY <1>1, FS_CardinalityType DEF RoomForEntries
<1>3. Len(entries) \in Nat /\ DOMAIN entries = 1..Len(entries)
  BY DEF TypeOK
<1>4. acts \in Nat /\ acts <= MaxActs /\ MaxActs \in Nat
  BY RecruitmentAssumption DEF TypeOK
<1>5. Len(entries) <= Cardinality(Foreign) + MaxActs
  BY <1>2, <1>3, <1>4 DEF RoomForEntries
<1> QED BY <1>2, <1>3, <1>4, <1>5 DEF Id

\* findAll shows each visible entry once, as it is.
LEMMA ListedTells ==
  ASSUME TypeOK, RoomForEntries
  PROVE  /\ Listed \in Seq(Item) /\ Named(entries, Listed)
         /\ \A o \in Offer : Tells(entries, Listed, o, 0)
<1> DEFINE n == Len(entries)
           ids == [i \in 1..n |-> i]
           visible == {i \in DOMAIN entries : Visible(entries[i])}
           found == Kept(ids, visible)
           shown == [k \in 1..Len(found) |-> ItemOf(found[k])]
<1>1. n \in Nat /\ DOMAIN entries = 1..n /\ DOMAIN entries \subseteq Id
  BY Counts
<1>2. ids \in Seq(1..n) /\ Len(ids) = n
  BY <1>1
<1>3. Listed = Reverse(shown)
  BY DEF Listed
<1> HIDE DEF n
<1>4. found \in Seq(1..n) /\ \E f : KeepsBy(ids, visible, found, n, f)
  <2> HIDE DEF ids, visible, found
  <2> QED BY <1>2, KeptKeeps DEF found
<1>5. PICK f : KeepsBy(ids, visible, found, n, f)
  BY <1>4
<1>6. \A k \in 1..n : ids[k] = k
  OBVIOUS
<1> DEFINE m == Len(found)
<1>7. m \in Nat /\ DOMAIN found = 1..m
  <2> HIDE DEF found
  <2> QED BY <1>4
<1>8. /\ \A k \in 1..m : found[k] \in visible
      /\ \A i \in visible : \E k \in 1..m : found[k] = i
      /\ \A k, l \in 1..m : found[k] = found[l] => k = l
  <2>1. \A i \in visible : i \in 1..n
    BY <1>1
  <2> HIDE DEF ids, visible, found, m
  <2>2. \A k \in 1..m : f[k] \in 1..n /\ found[k] = f[k] /\ found[k] \in visible
    BY <1>5, <1>6, <1>7 DEF KeepsBy
  <2> QED BY <1>5, <1>6, <1>7, <2>1, <2>2 DEF KeepsBy
<1> HIDE DEF found, m
<1>9. /\ Len(Listed) = m /\ DOMAIN Listed = 1..m
      /\ \A k \in 1..m : Listed[k] = ItemOf(found[m - k + 1])
  <2>1. Len(shown) = m
    BY <1>7 DEF m
  <2>2. Listed = [k \in 1..m |-> shown[m - k + 1]]
    BY <1>3, <2>1 DEF Reverse
  <2> QED BY <1>7, <2>2 DEF m
<1> HIDE DEF shown
<1>10. \A i \in visible : ItemOf(i) \in Item
  <2> SUFFICES ASSUME NEW i \in DOMAIN entries PROVE ItemOf(i) \in Item
    OBVIOUS
  <2>1. i \in Id
    BY <1>1
  <2>2. entries[i] \in Entry
    BY <1>1 DEF TypeOK
  <2> QED BY <2>1, <2>2 DEF ItemOf, Item, Entry
<1>11. \A k \in 1..m : m - k + 1 \in 1..m /\ m - (m - k + 1) + 1 = k
  BY <1>7
<1>12. Listed = [k \in 1..m |-> ItemOf(found[m - k + 1])]
  <2>1. Listed = [k \in 1..m |-> shown[m - k + 1]]
    BY <1>3, <1>7 DEF Reverse, shown, m
  <2> QED BY <2>1, <1>11 DEF shown, m
<1>13. Listed \in Seq(Item)
  BY <1>7, <1>8, <1>10, <1>11, <1>12
<1>14. \A k \in 1..m : LET i == found[m - k + 1]
                       IN  /\ i \in visible /\ Listed[k] = ItemOf(i)
                           /\ Listed[k].id = i /\ Listed[k].offer = entries[i].offer
  BY <1>8, <1>9, <1>11 DEF ItemOf
<1>15. Named(entries, Listed)
  BY <1>9, <1>14 DEF Named
<1>16. ASSUME NEW o \in Offer PROVE Tells(entries, Listed, o, 0)
  <2>1. \A k \in DOMAIN Listed : Listed[k].offer = o =>
          Listed[k].id \in Seen(entries, o) /\ Listed[k] = ItemIn(entries, Listed[k].id)
    BY <1>9, <1>14 DEF Seen, ItemIn, ItemOf
  <2>2. \A i \in Seen(entries, o) : \E k \in DOMAIN Listed : Listed[k].id = i /\ Listed[k].offer = o
    <3> SUFFICES ASSUME NEW i \in Seen(entries, o)
                 PROVE  \E k \in DOMAIN Listed : Listed[k].id = i /\ Listed[k].offer = o
      OBVIOUS
    <3>1. i \in visible /\ entries[i].offer = o
      BY DEF Seen
    <3>2. PICK k \in 1..m : found[k] = i
      BY <3>1, <1>8
    <3>3. m - k + 1 \in 1..m /\ m - (m - k + 1) + 1 = k
      BY <1>11
    <3>4. Listed[m - k + 1].id = i /\ Listed[m - k + 1].offer = entries[i].offer
      BY <3>2, <3>3, <1>14
    <3> QED BY <3>1, <3>3, <3>4, <1>9
  <2>3. \A k, l \in DOMAIN Listed : Listed[k].id = Listed[l].id => k = l
    <3> SUFFICES ASSUME NEW k \in 1..m, NEW l \in 1..m, Listed[k].id = Listed[l].id PROVE k = l
      BY <1>9
    <3>1. found[m - k + 1] = found[m - l + 1]
      BY <1>14
    <3>2. m - k + 1 = m - l + 1
      BY <3>1, <1>8, <1>11
    <3> QED BY <3>2, <1>7
  <2> QED BY <2>1, <2>2, <2>3 DEF Tells
<1> QED BY <1>13, <1>15, <1>16

\* A change of the table that an offer has no part in changes nothing of what
\* is told of it.
SameOffer(E, F, o) ==
  /\ Seen(F, o) = Seen(E, o)
  /\ \A i \in Seen(E, o) : ItemIn(F, i) = ItemIn(E, i)

LEMMA SameTells ==
  ASSUME NEW E, NEW F, NEW o, SameOffer(E, F, o), NEW s, NEW x
  PROVE  Tells(F, s, o, x) <=> Tells(E, s, o, x)
BY DEF SameOffer, Tells

LEMMA SameFits ==
  ASSUME NEW E, NEW F, NEW c, SameOffer(E, F, c.offer), NEW s
  PROVE  Fits(E, s, c) => Fits(F, s, c)
<1>1. \A x : Tells(F, s, c.offer, x) <=> Tells(E, s, c.offer, x)
  BY SameTells
<1> QED BY <1>1 DEF Fits, SameOffer

-----------------------------------------------------------------------------
(* The invariant holds at first *)

LEMMA InitInv == Init => IInv
<1> SUFFICES ASSUME Init PROVE IInv
  OBVIOUS
<1> DEFINE m == Cardinality(Foreign)
<1>1. IsFiniteSet(Foreign) /\ m \in Nat
  <2>1. IsFiniteSet(Foreign)
    BY RecruitmentAssumption, FS_Subset
  <2> QED BY <2>1, FS_CardinalityType
<1>2. SetToSeq(Foreign) \in [1..m -> Foreign]
  <2>1. ExistsBijection(1..m, Foreign)
    BY <1>1, FS_CardinalityType
  <2>2. PICK f : f \in Bijection(1..m, Foreign)
    BY <2>1 DEF ExistsBijection
  <2>3. f \in [1..m -> Foreign] /\ IsInjective(f)
    BY <2>2 DEF Bijection, Injection, IsInjective
  <2> QED BY <2>3 DEF SetToSeq
<1>3. entries = [i \in 1..m |-> [offer |-> SetToSeq(Foreign)[i], mine |-> FALSE,
                                 status |-> "CV_SENT", live |-> TRUE]]
  BY DEF Init
<1> HIDE DEF m
<1>4. /\ DOMAIN entries = 1..m
      /\ \A i \in 1..m : entries[i] \in Entry /\ entries[i].mine = FALSE
  <2> SUFFICES ASSUME NEW i \in 1..m PROVE entries[i] \in Entry /\ entries[i].mine = FALSE
    BY <1>3
  <2>1. entries[i] = [offer |-> SetToSeq(Foreign)[i], mine |-> FALSE,
                      status |-> "CV_SENT", live |-> TRUE]
    BY <1>3
  <2>2. SetToSeq(Foreign)[i] \in Offer /\ "CV_SENT" \in Status
    BY <1>2, RecruitmentAssumption
  <2> QED BY <2>1, <2>2 DEF Entry
<1>5. entries \in Seq(Entry) /\ Len(entries) = m
  <2>1. entries \in [1..m -> Entry]
    BY <1>3, <1>4
  <2> QED BY <1>1, <2>1, IsASeq
<1>6. items = <<>> /\ items \in Seq(Item) /\ DOMAIN items = {}
  <2>1. items = <<>>
    BY DEF Init
  <2>2. <<>> \in Seq(Item)
    OBVIOUS
  <2> QED BY <2>1, <2>2
<1>7. calls = {} /\ acts = 0 /\ unsure = Offer /\ hasty = {} /\ loading = FALSE
  BY DEF Init
<1>8. TypeOK
  <2>1. acts \in 0..MaxActs
    BY <1>7, RecruitmentAssumption
  <2>2. \A c \in calls : c \in CallState
    BY <1>7
  <2> QED BY <1>5, <1>6, <1>7, <2>1, <2>2 DEF TypeOK
<1>9. CallsApart /\ CallsNamed /\ LoadsTell
  BY <1>7 DEF CallsApart, CallsNamed, LoadsTell
<1>10. RoomForEntries
  <2>1. Unserved = {}
    BY <1>7 DEF Unserved
  <2>2. IsFiniteSet({}) /\ Cardinality({}) = 0
    BY FS_EmptySet
  <2> QED BY <1>1, <1>5, <1>7, <2>1, <2>2 DEF RoomForEntries, m
<1>11. SureOfItems
  BY <1>6, <1>7 DEF SureOfItems, Named
<1>12. OneApplication
  BY <1>4, <1>7 DEF OneApplication, Seen, Unserved
<1> QED BY <1>8, <1>9, <1>10, <1>11, <1>12 DEF IInv

-----------------------------------------------------------------------------
(* A call is sent *)

\* A change of an offer is sent, and the loads underway are unsure of it.
LEMMA SendChangeInv ==
  ASSUME IInv, NEW kind \in {"apply", "status", "remove"}, NEW o \in Offer,
         NEW id \in Id \cup {0}, NEW to \in Status, Send(kind, o, id, to),
         kind \in {"status", "remove"} => id \in DOMAIN entries /\ entries[id].offer = o,
         loading' = loading, hasty' \subseteq Offer, hasty \subseteq hasty',
         kind = "apply" => ~Applied(o) /\ (o \in unsure \cup Touched => o \in hasty')
  PROVE  IInv'
<1> DEFINE call == [n |-> acts, kind |-> kind, offer |-> o, id |-> id, to |-> to,
                    at |-> "sent", answer |-> <<>>, dirty |-> {}]
           Dirtied(c) == IF c.kind = "load" THEN [c EXCEPT !.dirty = @ \cup {o}] ELSE c
<1>1. /\ acts < MaxActs /\ acts' = acts + 1
      /\ calls' = {call} \cup {Dirtied(c) : c \in calls}
      /\ unsure' = unsure \cup ({o} \cap Touched)
      /\ UNCHANGED <<entries, items>>
  BY DEF Send
<1>2. acts \in Nat /\ acts + 1 \in 0..MaxActs /\ acts \in 0..MaxActs
  BY <1>1, RecruitmentAssumption DEF IInv, TypeOK
<1>3. /\ call \in CallState /\ call.n = acts /\ call.kind = kind /\ call.offer = o /\ call.id = id
      /\ call.to = to /\ call.at = "sent" /\ call.dirty = {}
  <2>1. <<>> \in Seq(Item)
    OBVIOUS
  <2> QED BY <1>2, <2>1 DEF CallState
<1>4. \A c \in calls :
        /\ Dirtied(c) \in CallState
        /\ Dirtied(c).n = c.n /\ Dirtied(c).kind = c.kind /\ Dirtied(c).offer = c.offer
        /\ Dirtied(c).id = c.id /\ Dirtied(c).to = c.to /\ Dirtied(c).at = c.at
        /\ Dirtied(c).answer = c.answer
        /\ c.kind = "load" => Dirtied(c).dirty = c.dirty \cup {o}
        /\ c.kind # "load" => Dirtied(c) = c
  BY DEF IInv, TypeOK, CallState
<1> HIDE DEF call, Dirtied
<1>5. /\ call \in calls'
      /\ \A d \in calls' : d = call \/ \E c \in calls : d = Dirtied(c)
      /\ \A c \in calls : Dirtied(c) \in calls'
  BY <1>1
<1>6. Changes' = Changes \cup {call}
  BY <1>3, <1>4, <1>5 DEF Changes
<1>7. Touched' = Touched \cup {o}
  <2>1. Touched' = {c.offer : c \in Changes'} /\ Touched = {c.offer : c \in Changes}
    BY DEF Touched, Changes
  <2> QED BY <1>3, <1>6, <2>1
<1>8. Unserved' = IF kind = "apply" THEN Unserved \cup {call} ELSE Unserved
  BY <1>3, <1>4, <1>5 DEF Unserved
<1>9. call \notin calls
  BY <1>2, <1>3 DEF IInv, CallsApart
<1>10. TypeOK'
  BY <1>1, <1>2, <1>3, <1>4, <1>5 DEF IInv, TypeOK
<1>11. CallsApart'
  <2>1. \A c \in calls : c.n \in Nat /\ c.n < acts
    BY DEF IInv, CallsApart, TypeOK, CallState
  <2>2. \A d \in calls' : d.n < acts'
    BY <1>1, <1>2, <1>3, <1>4, <1>5, <2>1
  <2>3. \A d, e \in calls' : d.n = e.n => d = e
    BY <1>2, <1>3, <1>4, <1>5, <2>1 DEF IInv, CallsApart
  <2> QED BY <2>2, <2>3 DEF CallsApart
<1>12. CallsNamed'
  BY <1>1, <1>3, <1>4, <1>5 DEF IInv, CallsNamed
<1>13. RoomForEntries'
  <2>1. /\ Cardinality(Foreign) \in Nat /\ Cardinality(Unserved) \in Nat /\ Len(entries) \in Nat
        /\ Len(entries) + Cardinality(Unserved) <= Cardinality(Foreign) + acts /\ IsFiniteSet(Unserved)
    BY Counts DEF IInv, RoomForEntries
  <2>2. CASE kind # "apply"
    BY <1>1, <1>2, <1>8, <2>1, <2>2 DEF RoomForEntries
  <2>3. CASE kind = "apply"
    <3>1. call \notin Unserved
      BY <1>9 DEF Unserved
    <3>2. IsFiniteSet(Unserved') /\ Cardinality(Unserved') = Cardinality(Unserved) + 1
      BY <1>8, <2>1, <2>3, <3>1, FS_AddElement
    <3> QED BY <1>1, <1>2, <2>1, <3>2 DEF RoomForEntries
  <2> QED BY <2>2, <2>3
<1>14. SureOfItems'
  <2> SUFFICES ASSUME NEW p \in Offer \ unsure'
               PROVE  /\ \A c, d \in Changes' : c.offer = p /\ d.offer = p => c = d
                      /\ p \notin Touched' => Tells(entries, items, p, 0)
                      /\ \A c \in Changes' : c.offer = p => Fits(entries, items, c)
    BY <1>1 DEF SureOfItems, IInv
  <2>1. p \notin unsure /\ (p = o => p \notin Touched)
    BY <1>1
  <2>2. \A c \in Changes : c.offer \in Touched
    BY DEF Changes, Touched
  <2>3. /\ \A c, d \in Changes : c.offer = p /\ d.offer = p => c = d
        /\ p \notin Touched => Tells(entries, items, p, 0)
        /\ \A c \in Changes : c.offer = p => Fits(entries, items, c)
    BY <2>1 DEF IInv, SureOfItems
  <2>4. p = o => Fits(entries, items, call)
    BY <1>3, <2>1, <2>3 DEF Fits
  <2> QED BY <1>3, <1>6, <1>7, <2>1, <2>2, <2>3, <2>4
<1>15. LoadsTell'
  <2> SUFFICES ASSUME NEW d \in calls', d.kind = "load", NEW p \in Offer \ d.dirty
               PROVE  p \notin Touched' /\ (d.at = "served" => Tells(entries, d.answer, p, 0))
    BY <1>1 DEF LoadsTell
  <2>1. PICK c \in calls : d = Dirtied(c)
    BY <1>3, <1>5
  <2>2. c.kind = "load" /\ p \in Offer \ c.dirty /\ p # o /\ d.at = c.at /\ d.answer = c.answer
    BY <1>4, <2>1
  <2> QED BY <1>7, <2>2 DEF IInv, LoadsTell
<1>16. OneApplication'
  <2> SUFFICES ASSUME NEW p \in Offer \ hasty'
               PROVE  /\ \A i, j \in Seen(entries, p) : entries[i].mine /\ entries[j].mine => i = j
                      /\ \A c \in Unserved' : c.offer = p => \A i \in Seen(entries, p) : ~entries[i].mine
                      /\ \A c, d \in Unserved' : c.offer = p /\ d.offer = p => c = d
    BY <1>1 DEF OneApplication, Seen, Visible
  <2>1. /\ \A i, j \in Seen(entries, p) : entries[i].mine /\ entries[j].mine => i = j
        /\ \A c \in Unserved : c.offer = p => \A i \in Seen(entries, p) : ~entries[i].mine
        /\ \A c, d \in Unserved : c.offer = p /\ d.offer = p => c = d
    BY DEF IInv, OneApplication
  <2>2. CASE kind # "apply" \/ p # o
    BY <1>3, <1>8, <2>1, <2>2
  <2>3. CASE kind = "apply" /\ p = o
    <3>1. p \notin unsure /\ p \notin Touched /\ ~Applied(p)
      BY <2>3
    <3>2. Tells(entries, items, p, 0)
      BY <3>1 DEF IInv, SureOfItems
    <3>3. \A i \in Seen(entries, p) : i # 0
      BY DEF Seen, IInv, TypeOK
    <3>4. Seen(entries, p) = {}
      BY <3>1, <3>2, <3>3 DEF Tells, Applied
    <3>5. \A c \in Unserved : c.offer \in Touched
      BY DEF Unserved, Touched
    <3> QED BY <1>3, <1>8, <2>1, <3>1, <3>4, <3>5
  <2> QED BY <2>2, <2>3
<1> QED BY <1>10, <1>11, <1>12, <1>13, <1>14, <1>15, <1>16 DEF IInv

\* A load is sent, unsure of the offers that a change is underway for.
LEMMA LoadInv == ASSUME IInv, Load PROVE IInv'
<1> DEFINE o == CHOOSE o \in Offer : TRUE
           call == [n |-> acts, kind |-> "load", offer |-> o, id |-> 0, to |-> "CV_SENT",
                    at |-> "sent", answer |-> <<>>, dirty |-> Touched]
<1>1. /\ acts < MaxActs /\ acts' = acts + 1
      /\ calls' = calls \cup {call}
      /\ loading' = TRUE
      /\ UNCHANGED <<entries, items, unsure, hasty>>
  <2> DEFINE sent == [n |-> acts, kind |-> "load", offer |-> o, id |-> 0, to |-> "CV_SENT",
                      at |-> "sent", answer |-> <<>>, dirty |-> {}]
  <2>1. [sent EXCEPT !.dirty = Touched] = call
    <3> DEFINE t == Touched
               loaded == [n |-> acts, kind |-> "load", offer |-> o, id |-> 0, to |-> "CV_SENT",
                          at |-> "sent", answer |-> <<>>, dirty |-> t]
    <3> HIDE DEF o, t
    <3>1. [sent EXCEPT !.dirty = t] = loaded
      OBVIOUS
    <3> QED BY <3>1 DEF t
  <2>2. Send("load", o, 0, "CV_SENT") /\ loading' = TRUE /\ UNCHANGED hasty
    BY DEF Load
  <2>3. calls' = calls \cup {[sent EXCEPT !.dirty = Touched]}
    BY <2>2 DEF Send
  <2> QED BY <2>1, <2>2, <2>3 DEF Send
<1>2. acts \in Nat /\ acts + 1 \in 0..MaxActs /\ acts \in 0..MaxActs
  BY <1>1, RecruitmentAssumption DEF IInv, TypeOK
<1>3. Touched \subseteq Offer
  BY DEF Touched, IInv, TypeOK, CallState
<1>4. /\ call \in CallState /\ call.n = acts /\ call.kind = "load" /\ call.at = "sent"
      /\ call.dirty = Touched
  <2>1. <<>> \in Seq(Item)
    OBVIOUS
  <2>2. o \in Offer /\ "CV_SENT" \in Status
    BY RecruitmentAssumption
  <2> HIDE DEF o
  <2> QED BY <1>2, <1>3, <2>1, <2>2 DEF CallState
<1> HIDE DEF call
<1>5. Changes' = Changes /\ Touched' = Touched /\ Unserved' = Unserved
  BY <1>1, <1>4 DEF Changes, Touched, Unserved
<1>6. TypeOK'
  BY <1>1, <1>2, <1>4 DEF IInv, TypeOK
<1>7. CallsApart'
  <2>1. \A c \in calls : c.n \in Nat /\ c.n < acts
    BY DEF IInv, CallsApart, TypeOK, CallState
  <2>2. \A d \in calls' : d.n < acts'
    BY <1>1, <1>2, <1>4, <2>1
  <2>3. \A d, e \in calls' : d.n = e.n => d = e
    BY <1>1, <1>2, <1>4, <2>1 DEF IInv, CallsApart
  <2> QED BY <2>2, <2>3 DEF CallsApart
<1>8. CallsNamed'
  BY <1>1, <1>4 DEF IInv, CallsNamed
<1>9. RoomForEntries'
  <2>1. /\ Cardinality(Foreign) \in Nat /\ Cardinality(Unserved) \in Nat /\ Len(entries) \in Nat
        /\ Len(entries) + Cardinality(Unserved) <= Cardinality(Foreign) + acts /\ IsFiniteSet(Unserved)
    BY Counts DEF IInv, RoomForEntries
  <2> QED BY <1>1, <1>2, <1>5, <2>1 DEF RoomForEntries
<1>10. SureOfItems'
  BY <1>1, <1>5 DEF IInv, SureOfItems
<1>11. LoadsTell'
  BY <1>1, <1>4, <1>5 DEF IInv, LoadsTell
<1>12. OneApplication'
  BY <1>1, <1>5 DEF IInv, OneApplication, Seen, Visible
<1> QED BY <1>6, <1>7, <1>8, <1>9, <1>10, <1>11, <1>12 DEF IInv

LEMMA ItemFacts ==
  ASSUME IInv, NEW i \in DOMAIN items
  PROVE  /\ items[i].offer \in Offer /\ items[i].id \in Id \cup {0}
         /\ items[i].id \in DOMAIN entries /\ entries[items[i].id].offer = items[i].offer
<1>1. items[i] \in Item
  BY DEF IInv, TypeOK
<1> QED BY <1>1 DEF Item, IInv, SureOfItems, Named

LEMMA UserActsInv == ASSUME IInv, UserActs PROVE IInv'
<1>1. ASSUME NEW o \in Offer, Apply(o) PROVE IInv'
  <2>1. /\ ~Applied(o) /\ Send("apply", o, 0, "CV_SENT") /\ loading' = loading
        /\ hasty' = hasty \cup ({o} \cap (unsure \cup Touched))
    BY <1>1 DEF Apply
  <2>2. hasty' \subseteq Offer /\ hasty \subseteq hasty' /\ (o \in unsure \cup Touched => o \in hasty')
    BY <2>1 DEF IInv, TypeOK
  <2>3. "CV_SENT" \in Status
    BY RecruitmentAssumption
  <2> QED BY <2>1, <2>2, <2>3, SendChangeInv
<1>2. ASSUME NEW i \in DOMAIN items, NEW to \in Status, UpdateStatus(i, to) PROVE IInv'
  <2>1. /\ items[i].offer \in Offer /\ items[i].id \in Id \cup {0}
        /\ items[i].id \in DOMAIN entries /\ entries[items[i].id].offer = items[i].offer
    BY ItemFacts
  <2>2. Send("status", items[i].offer, items[i].id, to) /\ loading' = loading /\ hasty' = hasty
    BY <1>2 DEF UpdateStatus
  <2>3. hasty' \subseteq Offer
    BY <2>2 DEF IInv, TypeOK
  <2> QED BY <2>1, <2>2, <2>3, SendChangeInv
<1>3. ASSUME NEW i \in DOMAIN items, RemoveItem(i) PROVE IInv'
  <2>1. /\ items[i].offer \in Offer /\ items[i].id \in Id \cup {0}
        /\ items[i].id \in DOMAIN entries /\ entries[items[i].id].offer = items[i].offer
    BY ItemFacts
  <2>2. Send("remove", items[i].offer, items[i].id, "CV_SENT") /\ loading' = loading /\ hasty' = hasty
    BY <1>3 DEF RemoveItem
  <2>3. hasty' \subseteq Offer /\ "CV_SENT" \in Status
    BY <2>2, RecruitmentAssumption DEF IInv, TypeOK
  <2> QED BY <2>1, <2>2, <2>3, SendChangeInv
<1> QED BY <1>1, <1>2, <1>3, LoadInv DEF UserActs

-----------------------------------------------------------------------------
(* A call goes on *)

\* d is the call c further on its way.
Further(c, d) ==
  /\ d \in CallState
  /\ d.n = c.n /\ d.kind = c.kind /\ d.offer = c.offer /\ d.id = c.id /\ d.to = c.to
  /\ d.dirty = c.dirty /\ d.at # "sent"

LEMMA FurtherFacts ==
  ASSUME IInv, NEW c \in calls, NEW d, Further(c, d), Step(c, d), acts' = acts
  PROVE  /\ c \in CallState
         /\ d \in calls' /\ \A e \in calls' : e = d \/ (e \in calls /\ e # c)
         /\ Changes' = IF c.kind = "load" THEN Changes ELSE (Changes \ {c}) \cup {d}
         /\ Touched' = Touched
         /\ Unserved' = Unserved \ {c}
         /\ CallsApart'
<1>1. c \in CallState /\ calls' = (calls \ {c}) \cup {d}
  BY DEF IInv, TypeOK, Step
<1>2. d \in calls' /\ \A e \in calls' : e = d \/ (e \in calls /\ e # c)
  BY <1>1
<1>3. Changes' = IF c.kind = "load" THEN Changes ELSE (Changes \ {c}) \cup {d}
  BY <1>1 DEF Changes, Further
<1>4. Touched' = Touched
  <2>1. Touched' = {e.offer : e \in Changes'} /\ Touched = {e.offer : e \in Changes}
    BY DEF Touched, Changes
  <2>2. c.kind # "load" => c \in Changes
    BY DEF Changes
  <2> QED BY <1>3, <2>1, <2>2 DEF Further
<1>5. Unserved' = Unserved \ {c}
  BY <1>1 DEF Unserved, Further
<1>6. CallsApart'
  BY <1>1, <1>2 DEF IInv, CallsApart, Further
<1> QED BY <1>1, <1>2, <1>3, <1>4, <1>5, <1>6

\* The table becomes F by a change of the offer o.
Changed(E, F, o) ==
  /\ F \in Seq(Entry) /\ DOMAIN E \subseteq DOMAIN F
  /\ \A i \in DOMAIN E : F[i].offer = E[i].offer /\ F[i].mine = E[i].mine
  /\ \A p \in Offer \ {o} : SameOffer(E, F, p)

\* What a change leaves of the invariant, and what it must itself see to: that
\* the items of its offer still fit it, and that it adds one entry at most, and
\* only if it is an application served for the first time.
LEMMA ChangeGoesOn ==
  ASSUME IInv, NEW c \in calls, NEW d, Further(c, d), Step(c, d), c.kind # "load",
         Changed(entries, entries', c.offer),
         UNCHANGED <<items, loading, acts, unsure, hasty>>,
         d.at = "written" => d.kind = "status",
         d.at = "served" /\ d.kind \in {"apply", "status"} =>
           Named(entries', d.answer) /\ Len(d.answer) = 1 /\ d.answer[1].offer = d.offer,
         d.at = "served" /\ d.kind = "status" => d.answer[1].id = d.id,
         c.offer \notin unsure /\ Fits(entries, items, c) => Fits(entries', items, d),
         \/ Seen(entries', c.offer) \subseteq Seen(entries, c.offer)
            /\ Len(entries') = Len(entries)
         \/ c \in Unserved /\ Len(entries') = Len(entries) + 1
            /\ \E x : Seen(entries', c.offer) \subseteq Seen(entries, c.offer) \cup {x}
  PROVE  IInv'
<1> DEFINE o == c.offer
<1>1. /\ c \in CallState
      /\ d \in calls' /\ \A e \in calls' : e = d \/ (e \in calls /\ e # c)
      /\ Changes' = (Changes \ {c}) \cup {d}
      /\ Touched' = Touched
      /\ Unserved' = Unserved \ {c}
      /\ CallsApart'
  BY FurtherFacts
<1>2. o \in Offer /\ c \in Changes /\ o \in Touched
  BY <1>1 DEF CallState, Changes, Touched
<1>3. /\ DOMAIN entries \subseteq DOMAIN entries' /\ entries' \in Seq(Entry)
      /\ \A i \in DOMAIN entries : entries'[i].offer = entries[i].offer /\ entries'[i].mine = entries[i].mine
      /\ \A p \in Offer \ {o} : SameOffer(entries, entries', p)
  BY DEF Changed
<1>4. \A s : Named(entries, s) => Named(entries', s)
  BY <1>3 DEF Named
<1>5. TypeOK'
  <2>1. \A e \in calls' : e \in CallState
    BY <1>1 DEF Further, IInv, TypeOK
  <2> QED BY <1>3, <2>1 DEF IInv, TypeOK
<1>6. CallsNamed'
  <2> SUFFICES ASSUME NEW e \in calls'
               PROVE  /\ e.kind \in {"status", "remove"} => e.id \in DOMAIN entries' /\ entries'[e.id].offer = e.offer
                      /\ e.at = "written" => e.kind = "status"
                      /\ e.at = "served" /\ e.kind \in {"load", "apply", "status"} => Named(entries', e.answer)
                      /\ e.at = "served" /\ e.kind \in {"apply", "status"} =>
                           Len(e.answer) = 1 /\ e.answer[1].offer = e.offer
                      /\ e.at = "served" /\ e.kind = "status" => e.answer[1].id = e.id
    BY DEF CallsNamed, Named
  <2>1. CASE e = d
    <3>1. e.kind \in {"status", "remove"} => e.id \in DOMAIN entries' /\ entries'[e.id].offer = e.offer
      BY <2>1, <1>3 DEF Further, IInv, CallsNamed
    <3> QED BY <2>1, <3>1 DEF Further
  <2>2. CASE e # d
    BY <2>2, <1>1, <1>3, <1>4 DEF IInv, CallsNamed
  <2> QED BY <2>1, <2>2
<1>7. RoomForEntries'
  <2>1. /\ Cardinality(Foreign) \in Nat /\ Cardinality(Unserved) \in Nat /\ Len(entries) \in Nat
        /\ Len(entries) + Cardinality(Unserved) <= Cardinality(Foreign) + acts /\ IsFiniteSet(Unserved)
        /\ acts \in Nat
    BY Counts DEF IInv, RoomForEntries
  <2>2. /\ IsFiniteSet(Unserved \ {c})
        /\ Cardinality(Unserved \ {c}) = IF c \in Unserved THEN Cardinality(Unserved) - 1 ELSE Cardinality(Unserved)
    BY <2>1, FS_RemoveElement
  <2>3. Len(entries') + Cardinality(Unserved \ {c}) <= Cardinality(Foreign) + acts
    BY <2>1, <2>2
  <2> QED BY <1>1, <2>2, <2>3 DEF RoomForEntries
<1>8. SureOfItems'
  <2>1. Named(entries', items)
    BY <1>4 DEF IInv, SureOfItems
  <2> SUFFICES ASSUME NEW p \in Offer \ unsure
               PROVE  /\ \A e, f \in Changes' : e.offer = p /\ f.offer = p => e = f
                      /\ p \notin Touched => Tells(entries', items, p, 0)
                      /\ \A e \in Changes' : e.offer = p => Fits(entries', items, e)
    BY <1>1, <2>1 DEF SureOfItems, Tells, Fits, Named, Seen, Visible, ItemIn, Holds
  <2>2. /\ \A e, f \in Changes : e.offer = p /\ f.offer = p => e = f
        /\ p \notin Touched => Tells(entries, items, p, 0)
        /\ \A e \in Changes : e.offer = p => Fits(entries, items, e)
    BY DEF IInv, SureOfItems
  <2>3. CASE p = o
    <3>1. Fits(entries', items, d)
      BY <1>2, <2>2, <2>3
    <3> QED BY <1>1, <1>2, <2>2, <2>3, <3>1
  <2>4. CASE p # o
    <3>1. SameOffer(entries, entries', p)
      BY <1>3, <2>4
    <3>2. p \notin Touched => Tells(entries', items, p, 0)
      BY <2>2, <3>1, SameTells
    <3>3. d.offer # p
      BY <2>4 DEF Further
    <3>4. \A e \in Changes : e.offer = p => Fits(entries', items, e)
      BY <2>2, <3>1, SameFits
    <3> QED BY <1>1, <2>2, <3>2, <3>3, <3>4
  <2> QED BY <2>3, <2>4
<1>9. LoadsTell'
  <2> SUFFICES ASSUME NEW e \in calls', e.kind = "load", NEW p \in Offer \ e.dirty
               PROVE  p \notin Touched /\ (e.at = "served" => Tells(entries', e.answer, p, 0))
    BY <1>1 DEF LoadsTell, Tells, Seen, Visible, ItemIn
  <2>1. e \in calls
    BY <1>1 DEF Further
  <2>2. p \notin Touched /\ (e.at = "served" => Tells(entries, e.answer, p, 0))
    BY <2>1 DEF IInv, LoadsTell
  <2>3. SameOffer(entries, entries', p)
    BY <1>2, <1>3, <2>2
  <2> QED BY <2>2, <2>3, SameTells
<1>10. OneApplication'
  <2> SUFFICES ASSUME NEW p \in Offer \ hasty
               PROVE  /\ \A i, j \in Seen(entries', p) : entries'[i].mine /\ entries'[j].mine => i = j
                      /\ \A e \in Unserved' : e.offer = p => \A i \in Seen(entries', p) : ~entries'[i].mine
                      /\ \A e, f \in Unserved' : e.offer = p /\ f.offer = p => e = f
    BY DEF OneApplication, Seen, Visible
  <2>1. /\ \A i, j \in Seen(entries, p) : entries[i].mine /\ entries[j].mine => i = j
        /\ \A e \in Unserved : e.offer = p => \A i \in Seen(entries, p) : ~entries[i].mine
        /\ \A e, f \in Unserved : e.offer = p /\ f.offer = p => e = f
    BY DEF IInv, OneApplication
  <2>2. \A i \in Seen(entries, p) : entries'[i].mine = entries[i].mine
    BY <1>3 DEF Seen
  <2>3. CASE Seen(entries', p) \subseteq Seen(entries, p)
    BY <1>1, <2>1, <2>2, <2>3
  <2>4. CASE ~(Seen(entries', p) \subseteq Seen(entries, p))
    <3>1. p = o
      BY <2>4, <1>3 DEF SameOffer
    <3>2. c \in Unserved
      BY <2>4, <3>1
    <3>3. PICK x : Seen(entries', o) \subseteq Seen(entries, o) \cup {x}
      BY <2>4, <3>1
    <3>4. \A i \in Seen(entries, o) : ~entries'[i].mine
      BY <2>1, <2>2, <3>1, <3>2
    <3>5. \A e \in Unserved' : e.offer # o
      BY <1>1, <2>1, <3>1, <3>2
    <3> QED BY <3>1, <3>3, <3>4, <3>5
  <2> QED BY <2>3, <2>4
<1> QED BY <1>1, <1>5, <1>6, <1>7, <1>8, <1>9, <1>10 DEF IInv

-----------------------------------------------------------------------------
(* The API *)

LEMMA AnswerFurther ==
  ASSUME IInv, NEW c \in calls, NEW found \in Seq(Item)
  PROVE  /\ Further(c, Answer(c, found))
         /\ Answer(c, found).at = "served" /\ Answer(c, found).answer = found
         /\ Further(c, Refused(c)) /\ Refused(c).at = "refused"
BY DEF Further, Answer, Refused, IInv, TypeOK, CallState

LEMMA ServeLoadInv == ASSUME IInv, NEW c \in calls, ServeLoad(c) PROVE IInv'
<1>1. PICK d : (d = Answer(c, Listed) \/ d = Refused(c)) /\ Step(c, d)
  BY DEF ServeLoad
<1>2. c.kind = "load" /\ c.at = "sent" /\ UNCHANGED <<entries, items, loading, acts, unsure, hasty>>
  BY DEF ServeLoad
<1>3. /\ Listed \in Seq(Item) /\ Named(entries, Listed)
      /\ \A o \in Offer : Tells(entries, Listed, o, 0)
  BY ListedTells DEF IInv
<1>4. Further(c, d) /\ (d.at = "served" => d.answer = Listed) /\ d.at # "written"
  BY <1>1, <1>3, AnswerFurther
<1>5. /\ c \in CallState
      /\ d \in calls' /\ \A e \in calls' : e = d \/ (e \in calls /\ e # c)
      /\ Changes' = Changes /\ Touched' = Touched /\ Unserved' = Unserved \ {c} /\ CallsApart'
  BY <1>1, <1>2, <1>4, FurtherFacts
<1>6. Unserved' = Unserved
  BY <1>2, <1>5 DEF Unserved
<1>7. TypeOK'
  <2>1. \A e \in calls' : e \in CallState
    BY <1>4, <1>5 DEF Further, IInv, TypeOK
  <2> QED BY <1>2, <2>1 DEF IInv, TypeOK
<1>8. CallsNamed'
  BY <1>2, <1>3, <1>4, <1>5 DEF IInv, CallsNamed, Further
<1>9. RoomForEntries' /\ SureOfItems' /\ OneApplication'
  BY <1>2, <1>5, <1>6 DEF IInv, RoomForEntries, SureOfItems, OneApplication, Seen, Visible
<1>10. LoadsTell'
  BY <1>2, <1>3, <1>4, <1>5 DEF IInv, LoadsTell, Further
<1> QED BY <1>5, <1>7, <1>8, <1>9, <1>10 DEF IInv

\* An application served: the new entry has a place no item is of.
LEMMA ServeApplyInv == ASSUME IInv, NEW c \in calls, ServeApply(c) PROVE IInv'
<1> DEFINE e == [offer |-> c.offer, mine |-> TRUE, status |-> c.to, live |-> TRUE]
           saved == Append(entries, e)
           x == Len(saved)
           created == [id |-> x, offer |-> c.offer, status |-> c.to]
<1>1. /\ c.kind = "apply" /\ c.at = "sent" /\ c \in CallState /\ c \in Unserved
      /\ UNCHANGED <<items, loading, acts, unsure, hasty>>
  BY DEF ServeApply, IInv, TypeOK, Unserved
<1>2. \/ entries' = saved /\ Step(c, Answer(c, <<created>>))
      \/ entries' \in {entries, saved} /\ Step(c, Refused(c))
  BY DEF ServeApply
<1>3. e \in Entry /\ c.offer \in Offer /\ c.to \in Status
  BY <1>1 DEF CallState, Entry
<1>4. /\ entries \in Seq(Entry) /\ Len(entries) \in Nat /\ DOMAIN entries = 1..Len(entries)
      /\ x = Len(entries) + 1 /\ DOMAIN saved = 1..x /\ saved \in Seq(Entry)
      /\ saved[x] = e /\ \A i \in DOMAIN entries : saved[i] = entries[i]
  BY <1>3 DEF IInv, TypeOK
<1>5. x \in Id
  <2>1. IsFiniteSet(Unserved) /\ Cardinality(Unserved) # 0
    BY <1>1, FS_EmptySet DEF IInv, RoomForEntries
  <2>2. /\ Cardinality(Foreign) \in Nat /\ Cardinality(Unserved) \in Nat
        /\ Len(entries) + Cardinality(Unserved) <= Cardinality(Foreign) + acts
        /\ acts \in Nat /\ acts <= MaxActs /\ MaxActs \in Nat
    BY Counts, RecruitmentAssumption DEF IInv, RoomForEntries
  <2> QED BY <1>4, <2>1, <2>2 DEF Id
<1>6. created \in Item /\ <<created>> \in Seq(Item)
  <2>1. created \in Item
    BY <1>3, <1>5 DEF Item
  <2> QED BY <2>1
<1>7. Seen(saved, c.offer) = Seen(entries, c.offer) \cup {x}
  <2>1. Visible(saved[x]) /\ saved[x].offer = c.offer
    BY <1>4 DEF Visible
  <2> HIDE DEF saved, x
  <2> QED BY <1>4, <2>1 DEF Seen
<1>8. Changed(entries, saved, c.offer)
  <2>1. \A p \in Offer \ {c.offer} : SameOffer(entries, saved, p)
    <3> SUFFICES ASSUME NEW p \in Offer \ {c.offer} PROVE SameOffer(entries, saved, p)
      OBVIOUS
    <3>1. saved[x].offer # p
      BY <1>4
    <3> HIDE DEF saved, x
    <3> QED BY <1>4, <3>1 DEF SameOffer, Seen, ItemIn
  <2> HIDE DEF saved, x
  <2> QED BY <1>4, <2>1 DEF Changed
<1>9. Changed(entries, entries, c.offer)
  BY <1>4 DEF Changed, SameOffer
<1>10. CASE entries' = saved /\ Step(c, Answer(c, <<created>>))
  <2> DEFINE d == Answer(c, <<created>>)
  <2>1. Further(c, d) /\ d.at = "served" /\ d.answer = <<created>> /\ d.kind = "apply" /\ d.offer = c.offer
    BY <1>1, <1>6, AnswerFurther DEF Further
  <2>2. d.answer[1] = created /\ created.id = x /\ created.offer = c.offer /\ Len(d.answer) = 1
    BY <2>1
  <2>3. created = ItemIn(saved, x)
    BY <1>4 DEF ItemIn
  <2>4. Named(saved, <<created>>)
    <3>1. \A k \in DOMAIN <<created>> : <<created>>[k] = created
      OBVIOUS
    <3>2. x \in DOMAIN saved /\ saved[x].offer = c.offer
      BY <1>4
    <3> HIDE DEF saved, x, created
    <3> QED BY <2>2, <3>1, <3>2 DEF Named
  <2>5. ASSUME c.offer \notin unsure, Fits(entries, items, c) PROVE Fits(saved, items, d)
    <3>1. Tells(entries, items, c.offer, 0)
      BY <1>1, <2>5 DEF Fits
    <3>2. ~Holds(items, x)
      BY <1>4 DEF Holds, IInv, SureOfItems, Named
    <3>3. \A i \in Seen(entries, c.offer) : i # 0 /\ i # x /\ ItemIn(saved, i) = ItemIn(entries, i)
      BY <1>4 DEF Seen, ItemIn
    <3>4. \A k \in DOMAIN items : items[k].id # 0
      BY <1>4 DEF IInv, SureOfItems, Named
    <3>5. Tells(saved, items, c.offer, x)
      <4> HIDE DEF saved, x
      <4> QED BY <1>7, <3>1, <3>3, <3>4 DEF Tells
    <3>6. x \in Seen(saved, c.offer)
      BY <1>7
    <3> HIDE DEF saved, x, created, d
    <3> QED BY <2>1, <2>2, <2>3, <3>2, <3>5, <3>6 DEF Fits
  <2>6. /\ entries' = saved /\ Step(c, d)
        /\ c \in Unserved /\ Len(entries') = Len(entries) + 1
        /\ \E y : Seen(entries', c.offer) \subseteq Seen(entries, c.offer) \cup {y}
    BY <1>1, <1>4, <1>7, <1>10
  <2> HIDE DEF saved, x, created, d
  <2> QED BY <1>1, <1>8, <2>1, <2>2, <2>4, <2>5, <2>6, ChangeGoesOn
<1>11. CASE entries' \in {entries, saved} /\ Step(c, Refused(c))
  <2> DEFINE d == Refused(c)
  <2>1. Further(c, d) /\ d.at = "refused"
    BY AnswerFurther, <1>6
  <2>2. \A E : Fits(E, items, d)
    BY <2>1 DEF Fits
  <2>3. Changed(entries, entries', c.offer)
    BY <1>8, <1>9, <1>11
  <2>4. \/ Seen(entries', c.offer) \subseteq Seen(entries, c.offer) /\ Len(entries') = Len(entries)
        \/ c \in Unserved /\ Len(entries') = Len(entries) + 1
           /\ \E y : Seen(entries', c.offer) \subseteq Seen(entries, c.offer) \cup {y}
    <3>1. CASE entries' = entries
      BY <3>1 DEF Seen
    <3>2. CASE entries' = saved
      BY <1>1, <1>4, <1>7, <3>2
    <3> QED BY <1>11, <3>1, <3>2
  <2>5. Fits(entries', items, d)
    BY <2>1 DEF Fits
  <2> HIDE DEF saved, x, created, d
  <2> QED BY <1>1, <1>11, <2>1, <2>3, <2>4, <2>5, ChangeGoesOn DEF d
<1> QED BY <1>2, <1>10, <1>11

\* A write to the entry i leaves the other offers and the other entries alone.
LEMMA WriteFacts ==
  ASSUME TypeOK, NEW i \in DOMAIN entries, NEW F, NEW e \in Entry, F = [entries EXCEPT ![i] = e],
         e.offer = entries[i].offer, e.mine = entries[i].mine, Visible(entries[i])
  PROVE  /\ Changed(entries, F, e.offer) /\ Len(F) = Len(entries) /\ i # 0
         /\ i \in Seen(entries, e.offer)
         /\ Seen(F, e.offer) = IF e.live THEN Seen(entries, e.offer) ELSE Seen(entries, e.offer) \ {i}
         /\ \A j \in DOMAIN entries \ {i} : ItemIn(F, j) = ItemIn(entries, j)
<1>1. entries \in Seq(Entry) /\ F \in Seq(Entry) /\ DOMAIN F = DOMAIN entries /\ Len(F) = Len(entries)
  BY DEF TypeOK
<1>2. /\ F[i] = e /\ \A j \in DOMAIN entries \ {i} : F[j] = entries[j]
      /\ i # 0
  BY <1>1
<1>3. \A j \in DOMAIN entries : F[j].offer = entries[j].offer /\ F[j].mine = entries[j].mine
  BY <1>2
<1>4. Visible(F[i]) <=> e.live
  BY <1>2 DEF Visible
<1>5. \A p \in Offer \ {e.offer} : SameOffer(entries, F, p)
  BY <1>1, <1>2 DEF SameOffer, Seen, ItemIn
<1>6. i \in Seen(entries, e.offer)
  BY DEF Seen
<1>7. Seen(F, e.offer) = IF e.live THEN Seen(entries, e.offer) ELSE Seen(entries, e.offer) \ {i}
  BY <1>1, <1>2, <1>3, <1>4, <1>6 DEF Seen
<1>8. \A j \in DOMAIN entries \ {i} : ItemIn(F, j) = ItemIn(entries, j)
  BY <1>2 DEF ItemIn
<1> QED BY <1>1, <1>2, <1>3, <1>5, <1>6, <1>7, <1>8 DEF Changed

\* An update or a removal served, in one step or two.
LEMMA ServeChangeInv == ASSUME IInv, NEW c \in calls, ServeChange(c) PROVE IInv'
<1> DEFINE i == c.id
           o == c.offer
<1>1. /\ c.kind \in {"status", "remove"} /\ c \in CallState /\ c.kind # "load"
      /\ i \in DOMAIN entries /\ entries[i].offer = o /\ o \in Offer
      /\ UNCHANGED <<items, loading, acts, unsure, hasty>>
  BY DEF ServeChange, IInv, TypeOK, CallsNamed, CallState
<1>2. entries[i] \in Entry /\ i \in Id /\ entries \in Seq(Entry)
  <2>1. i \in Id
    BY <1>1, Counts DEF IInv
  <2> QED BY <1>1, <2>1 DEF IInv, TypeOK
<1>3. Changed(entries, entries, o)
  BY <1>2 DEF Changed, SameOffer
<1>4. ASSUME c.at = "sent", c.kind = "status", Visible(entries[i]),
             entries' = [entries EXCEPT ![i].status = c.to], Step(c, [c EXCEPT !.at = "written"])
      PROVE  IInv'
  <2> DEFINE e == [entries[i] EXCEPT !.status = c.to]
             d == [c EXCEPT !.at = "written"]
  <2>1. e \in Entry /\ e.offer = o /\ e.mine = entries[i].mine /\ e.live
    BY <1>1, <1>2, <1>4 DEF Entry, CallState, Visible
  <2>2. entries' = [entries EXCEPT ![i] = e]
    BY <1>1, <1>2, <1>4
  <2>3. Further(c, d) /\ d.at = "written" /\ d.kind = "status" /\ d.offer = o /\ d.id = i
    BY <1>1, <1>4 DEF Further, CallState
  <2>4. Step(c, d)
    BY <1>4
  <2> HIDE DEF e, d
  <2>5. /\ Changed(entries, entries', o) /\ Len(entries') = Len(entries) /\ i # 0
        /\ i \in Seen(entries, o) /\ Seen(entries', o) = Seen(entries, o)
        /\ \A j \in DOMAIN entries \ {i} : ItemIn(entries', j) = ItemIn(entries, j)
    <3>1. /\ Changed(entries, entries', e.offer) /\ Len(entries') = Len(entries) /\ i # 0
          /\ i \in Seen(entries, e.offer)
          /\ Seen(entries', e.offer) = IF e.live THEN Seen(entries, e.offer) ELSE Seen(entries, e.offer) \ {i}
          /\ \A j \in DOMAIN entries \ {i} : ItemIn(entries', j) = ItemIn(entries, j)
      <4>1. TypeOK /\ i \in DOMAIN entries /\ e.offer = entries[i].offer /\ Visible(entries[i])
        BY <1>1, <1>4, <2>1 DEF IInv
      <4> HIDE DEF i, o
      <4> QED BY <2>1, <2>2, <4>1, WriteFacts
    <3> QED BY <2>1, <3>1
  <2>6. ASSUME o \notin unsure, Fits(entries, items, c) PROVE Fits(entries', items, d)
    <3>1. Tells(entries, items, o, 0)
      BY <1>4, <2>6 DEF Fits
    <3>2. Holds(items, i)
      BY <3>1, <2>5 DEF Tells, Holds
    <3>3. \A k \in DOMAIN items : items[k].id # 0
      BY <1>2 DEF IInv, SureOfItems, Named
    <3>4. \A j \in Seen(entries, o) : j # 0 /\ j \in DOMAIN entries
      BY <1>2 DEF Seen
    <3>5. Tells(entries', items, o, i)
      BY <2>5, <3>1, <3>3, <3>4 DEF Tells
    <3> QED BY <2>3, <2>5, <3>2, <3>5 DEF Fits
  <2> QED BY <1>1, <2>3, <2>4, <2>5, <2>6, ChangeGoesOn
<1>5. ASSUME c.at = "sent", c.kind = "remove", Visible(entries[i]),
             entries' = [entries EXCEPT ![i].live = FALSE],
             NEW d, d = Answer(c, <<>>) \/ d = Refused(c), Step(c, d)
      PROVE  IInv'
  <2> DEFINE e == [entries[i] EXCEPT !.live = FALSE]
  <2>1. e \in Entry /\ e.offer = o /\ e.mine = entries[i].mine /\ ~e.live
    BY <1>1, <1>2, <1>5 DEF Entry, CallState, Visible
  <2>2. entries' = [entries EXCEPT ![i] = e]
    BY <1>1, <1>2, <1>5
  <2>3. Further(c, d) /\ d.at \in {"served", "refused"} /\ d.kind = "remove" /\ d.offer = o /\ d.id = i
    <3>1. <<>> \in Seq(Item)
      OBVIOUS
    <3>2. /\ Further(c, Answer(c, <<>>)) /\ Answer(c, <<>>).at = "served"
          /\ Further(c, Refused(c)) /\ Refused(c).at = "refused"
      BY <3>1, AnswerFurther
    <3>3. Further(c, d) /\ d.at \in {"served", "refused"}
      BY <1>5, <3>2
    <3> QED BY <1>5, <3>3 DEF Further
  <2> HIDE DEF e
  <2>5. /\ Changed(entries, entries', o) /\ Len(entries') = Len(entries) /\ i # 0
        /\ i \in Seen(entries, o) /\ Seen(entries', o) = Seen(entries, o) \ {i}
        /\ \A j \in DOMAIN entries \ {i} : ItemIn(entries', j) = ItemIn(entries, j)
    <3>1. /\ Changed(entries, entries', e.offer) /\ Len(entries') = Len(entries) /\ i # 0
          /\ i \in Seen(entries, e.offer)
          /\ Seen(entries', e.offer) = IF e.live THEN Seen(entries, e.offer) ELSE Seen(entries, e.offer) \ {i}
          /\ \A j \in DOMAIN entries \ {i} : ItemIn(entries', j) = ItemIn(entries, j)
      <4>1. TypeOK /\ i \in DOMAIN entries /\ e.offer = entries[i].offer /\ Visible(entries[i])
        BY <1>1, <1>5, <2>1 DEF IInv
      <4> HIDE DEF i, o
      <4> QED BY <2>1, <2>2, <4>1, WriteFacts
    <3> QED BY <2>1, <3>1
  <2>6. ASSUME o \notin unsure, Fits(entries, items, c) PROVE Fits(entries', items, d)
    <3>1. Tells(entries, items, o, 0)
      BY <1>5, <2>6 DEF Fits
    <3>3. \A k \in DOMAIN items : items[k].id # 0
      BY <1>2 DEF IInv, SureOfItems, Named
    <3>4. \A j \in Seen(entries, o) : j # 0 /\ j \in DOMAIN entries
      BY <1>2 DEF Seen
    <3>5. Tells(entries', items, o, i)
      BY <2>5, <3>1, <3>3, <3>4 DEF Tells
    <3> QED BY <2>3, <2>5, <3>5 DEF Fits
  <2> QED BY <1>1, <1>5, <2>3, <2>5, <2>6, ChangeGoesOn
<1>6. ASSUME c.at = "written", Visible(entries[i]), Step(c, Answer(c, <<ItemOf(i)>>)), entries' = entries
      PROVE  IInv'
  <2> DEFINE e == ItemOf(i)
             d == Answer(c, <<e>>)
  <2>1. c.kind = "status"
    BY <1>6 DEF IInv, CallsNamed
  <2>2. e \in Item /\ e = ItemIn(entries, i) /\ e.id = i /\ e.offer = o
    BY <1>1, <1>2 DEF ItemOf, ItemIn, Item, Entry
  <2> HIDE DEF e
  <2>3. <<e>> \in Seq(Item) /\ Len(<<e>>) = 1 /\ <<e>>[1] = e /\ \A k \in DOMAIN <<e>> : <<e>>[k] = e
    BY <2>2
  <2>4. Further(c, d) /\ d.at = "served" /\ d.answer = <<e>> /\ d.kind = "status" /\ d.offer = o /\ d.id = i
    BY <2>1, <2>3, AnswerFurther DEF Further
  <2>5. Named(entries, <<e>>)
    BY <1>1, <2>2, <2>3 DEF Named
  <2>6. Step(c, d)
    BY <1>6 DEF e
  <2> HIDE DEF d
  <2>7. ASSUME o \notin unsure, Fits(entries, items, c) PROVE Fits(entries, items, d)
    <3>1. Tells(entries, items, o, i) /\ i \in Seen(entries, o) /\ Holds(items, i)
      BY <1>6, <2>7 DEF Fits
    <3> QED BY <2>2, <2>3, <2>4, <3>1 DEF Fits
  <2>8. Seen(entries', o) = Seen(entries, o)
    BY <1>6 DEF Seen
  <2> QED BY <1>1, <1>3, <1>6, <2>2, <2>3, <2>4, <2>5, <2>6, <2>7, <2>8, ChangeGoesOn
<1>7. ASSUME Step(c, Refused(c)), entries' = entries PROVE IInv'
  <2> DEFINE d == Refused(c)
  <2>1. Further(c, d) /\ d.at = "refused"
    <3>1. <<>> \in Seq(Item)
      OBVIOUS
    <3> QED BY <3>1, AnswerFurther
  <2>2. Fits(entries, items, d)
    BY <2>1 DEF Fits
  <2>3. Seen(entries', o) = Seen(entries, o)
    BY <1>7 DEF Seen
  <2> HIDE DEF d
  <2> QED BY <1>1, <1>3, <1>7, <2>1, <2>2, <2>3, ChangeGoesOn DEF d
<1> QED BY <1>4, <1>5, <1>6, <1>7 DEF ServeChange

-----------------------------------------------------------------------------
(* The answers *)

\* The items of the offer p in t are those in s, in the places f.
PlacedBy(s, t, p, f) ==
  /\ f \in [{l \in DOMAIN t : t[l].offer = p} -> DOMAIN s]
  /\ \A l \in DOMAIN f : s[f[l]] = t[l]
  /\ \A k, l \in DOMAIN f : f[k] = f[l] => k = l
  /\ \A k \in DOMAIN s : s[k].offer = p => \E l \in DOMAIN f : f[l] = k

LEMMA PlacedTells ==
  ASSUME NEW s, NEW t, NEW p, NEW f, PlacedBy(s, t, p, f), NEW E, NEW x, Tells(E, s, p, x)
  PROVE  Tells(E, t, p, x)
<1>1. \A l \in DOMAIN t : t[l].offer = p =>
        f[l] \in DOMAIN s /\ s[f[l]] = t[l] /\ l \in DOMAIN f
  BY DEF PlacedBy
<1>2. \A k \in DOMAIN s : s[k].offer = p => \E l \in DOMAIN t : t[l].offer = p /\ t[l] = s[k]
  BY DEF PlacedBy
<1>3. \A l \in DOMAIN t : t[l].offer = p /\ t[l].id # x =>
        t[l].id \in Seen(E, p) /\ t[l] = ItemIn(E, t[l].id)
  BY <1>1 DEF Tells
<1>4. \A i \in Seen(E, p) \ {x} : \E l \in DOMAIN t : t[l].id = i /\ t[l].offer = p
  BY <1>2 DEF Tells
<1>5. \A k, l \in DOMAIN t : t[k].offer = p /\ t[l].offer = p /\ t[k].id = t[l].id => k = l
  <2> SUFFICES ASSUME NEW k \in DOMAIN t, NEW l \in DOMAIN t,
                      t[k].offer = p, t[l].offer = p, t[k].id = t[l].id
               PROVE  k = l
    OBVIOUS
  <2>1. f[k] = f[l]
    BY <1>1 DEF Tells
  <2> QED BY <1>1, <2>1 DEF PlacedBy
<1> QED BY <1>3, <1>4, <1>5 DEF Tells

LEMMA PlacedFits ==
  ASSUME NEW s, NEW t, NEW c, NEW f, PlacedBy(s, t, c.offer, f), NEW E,
         Named(E, s), Named(E, t), Fits(E, s, c)
  PROVE  Fits(E, t, c)
<1>1. \A x : Tells(E, s, c.offer, x) => Tells(E, t, c.offer, x)
  BY PlacedTells
<1>2. ASSUME NEW y \in Seen(E, c.offer) PROVE Holds(t, y) <=> Holds(s, y)
  <2>1. E[y].offer = c.offer
    BY DEF Seen
  <2>2. ASSUME Holds(s, y) PROVE Holds(t, y)
    <3>1. PICK k \in DOMAIN s : s[k].id = y /\ s[k].offer = c.offer
      BY <2>1, <2>2 DEF Holds, Named
    <3>2. PICK l \in DOMAIN f : f[l] = k
      BY <3>1 DEF PlacedBy
    <3> QED BY <3>1, <3>2 DEF Holds, PlacedBy
  <2>3. ASSUME Holds(t, y) PROVE Holds(s, y)
    <3>1. PICK l \in DOMAIN t : t[l].id = y /\ t[l].offer = c.offer
      BY <2>1, <2>3 DEF Holds, Named
    <3>2. f[l] \in DOMAIN s /\ s[f[l]] = t[l]
      BY <3>1 DEF PlacedBy
    <3> QED BY <3>1, <3>2 DEF Holds
  <2> QED BY <2>2, <2>3
<1> QED BY <1>1, <1>2 DEF Fits

\* What the end of a call leaves of the invariant.
LEMMA GoneInv ==
  ASSUME IInv, NEW c \in calls, calls' = calls \ {c}, c.at # "sent", UNCHANGED <<entries, acts, hasty>>
  PROVE  /\ Changes' = Changes \ {c} /\ Touched' \subseteq Touched
         /\ CallsApart' /\ CallsNamed' /\ RoomForEntries' /\ LoadsTell' /\ OneApplication'
<1>1. Changes' = Changes \ {c} /\ Unserved' = Unserved
  BY DEF Changes, Unserved
<1>2. Touched' \subseteq Touched
  BY DEF Touched
<1>3. CallsApart' /\ CallsNamed'
  BY DEF IInv, CallsApart, CallsNamed
<1>4. RoomForEntries' /\ OneApplication'
  BY <1>1 DEF IInv, RoomForEntries, OneApplication, Seen, Visible
<1>5. LoadsTell'
  BY <1>2 DEF IInv, LoadsTell, Tells, Seen, Visible, ItemIn
<1> QED BY <1>1, <1>2, <1>3, <1>4, <1>5

\* The answer of a change leaves the items of other offers alone, and tells the
\* entry of its own that they lacked.
LEMMA StoredTells ==
  ASSUME IInv, NEW c \in calls, c.at = "served", c.kind # "load"
  PROVE  /\ Stored(c) \in Seq(Item) /\ Named(entries, Stored(c))
         /\ \A p \in Offer \ {c.offer} : \E f : PlacedBy(items, Stored(c), p, f)
         /\ c.offer \notin unsure => Tells(entries, Stored(c), c.offer, 0)
<1> DEFINE o == c.offer
           i == c.id
           new == c.answer[1]
           n == Len(items)
<1>1. /\ c \in CallState /\ o \in Offer /\ c \in Changes /\ c.kind \in {"apply", "status", "remove"}
      /\ items \in Seq(Item) /\ n \in Nat /\ DOMAIN items = 1..n
      /\ entries \in Seq(Entry)
  BY DEF IInv, TypeOK, CallState, Changes
<1>2. /\ Named(entries, items) /\ \A j \in DOMAIN entries : j # 0
      /\ o \notin unsure => Fits(entries, items, c)
  BY <1>1 DEF IInv, SureOfItems
<1>3. \A k \in DOMAIN items : /\ items[k] \in Item /\ items[k].id \in DOMAIN entries /\ items[k].id # 0
                              /\ items[k].offer = entries[items[k].id].offer
  BY <1>1, <1>2 DEF Named
<1>4. \A E, x : \A j \in Seen(E, x) : j \in DOMAIN E /\ E[j].offer = x
  BY DEF Seen
<1>5. c.kind \in {"apply", "status"} =>
        /\ c.answer \in Seq(Item) /\ Len(c.answer) = 1 /\ DOMAIN c.answer = {1} /\ new \in Item
        /\ new.id \in DOMAIN entries /\ new.offer = entries[new.id].offer
        /\ c.kind = "status" => new.id = i
  BY <1>1 DEF IInv, CallsNamed, Named, CallState
<1>6. CASE c.kind = "apply"
  <2> DEFINE t == c.answer \o items
  <2>1. Stored(c) = t
    BY <1>6 DEF Stored
  <2>2. /\ t \in Seq(Item) /\ DOMAIN t = 1..(n + 1) /\ t[1] = new
        /\ \A k \in 1..n : t[k + 1] = items[k]
    <3> DEFINE a == c.answer
    <3>1. a \in Seq(Item) /\ Len(a) = 1 /\ items \in Seq(Item) /\ n = Len(items) /\ n \in Nat
      BY <1>1, <1>5, <1>6
    <3> HIDE DEF a
    <3>2. t = a \o items
      BY DEF a
    <3> HIDE DEF t, n
    <3>9. /\ t \in Seq(Item) /\ Len(t) = Len(a) + n
          /\ \A k \in 1..(Len(a) + n) : t[k] = IF k <= Len(a) THEN a[k] ELSE items[k - Len(a)]
      BY <3>1, <3>2, ConcatProperties
    <3>3. t \in Seq(Item) /\ DOMAIN t = 1..(n + 1) /\ t[1] = a[1]
      <4>1. t[1] = a[1]
        BY <3>1, <3>9
      <4>2. Len(t) = n + 1
        BY <3>1, <3>9
      <4> QED BY <3>9, <4>1, <4>2
    <3>4. \A k \in 1..n : t[k + 1] = items[k]
      <4> SUFFICES ASSUME NEW k \in 1..n PROVE t[k + 1] = items[k]
        OBVIOUS
      <4>1. k + 1 \in 1..(1 + n) /\ ~(k + 1 <= 1) /\ (k + 1) - 1 = k
        BY <3>1
      <4> QED BY <3>1, <3>9, <4>1
    <3> QED BY <3>3, <3>4 DEF a
  <2> HIDE DEF n, t, new
  <2>3. \A l \in DOMAIN t : l = 1 \/ (l - 1 \in DOMAIN items /\ t[l] = items[l - 1])
    <3> SUFFICES ASSUME NEW l \in 1..(n + 1), l # 1 PROVE l - 1 \in 1..n /\ t[l] = items[l - 1]
      BY <1>1, <2>2
    <3>1. l - 1 \in 1..n /\ (l - 1) + 1 = l
      BY <1>1
    <3> QED BY <2>2, <3>1
  <2>4. \A k \in DOMAIN items : k + 1 \in DOMAIN t /\ t[k + 1] = items[k]
    BY <1>1, <2>2
  <2>5. Named(entries, t)
    BY <1>3, <1>5, <1>6, <2>2, <2>3 DEF Named
  <2>6. new.offer = o
    BY <1>6 DEF IInv, CallsNamed, new
  <2>7. ASSUME NEW p \in Offer \ {o} PROVE \E f : PlacedBy(items, t, p, f)
    <3> DEFINE f == [l \in {l \in DOMAIN t : t[l].offer = p} |-> l - 1]
    <3>1. \A l \in DOMAIN t : t[l].offer = p => l - 1 \in DOMAIN items /\ t[l] = items[l - 1]
      BY <2>2, <2>3, <2>6
    <3>2. \A k, l \in DOMAIN t : k - 1 = l - 1 => k = l
      BY <2>2, <1>1
    <3>3. \A k \in DOMAIN items : k + 1 \in DOMAIN t /\ t[k + 1] = items[k] /\ (k + 1) - 1 = k
      BY <2>4, <1>1
    <3>4. PlacedBy(items, t, p, f)
      BY <3>1, <3>2, <3>3 DEF PlacedBy
    <3> QED BY <3>4
  <2>8. ASSUME o \notin unsure PROVE Tells(entries, t, o, 0)
    <3>1. /\ Tells(entries, items, o, new.id) /\ ~Holds(items, new.id)
          /\ new.id \in Seen(entries, o) /\ new = ItemIn(entries, new.id)
      BY <1>2, <1>6, <2>8 DEF Fits, new
    <3>2. \A k \in DOMAIN items : items[k].id # new.id
      BY <3>1 DEF Holds
    <3>3. \A l \in DOMAIN t : t[l].offer = o => t[l].id \in Seen(entries, o) /\ t[l] = ItemIn(entries, t[l].id)
      BY <2>2, <2>3, <3>1, <3>2 DEF Tells
    <3>4. \A j \in Seen(entries, o) : \E l \in DOMAIN t : t[l].id = j /\ t[l].offer = o
      <4> SUFFICES ASSUME NEW j \in Seen(entries, o), j # new.id
                   PROVE  \E l \in DOMAIN t : t[l].id = j /\ t[l].offer = o
        <5>1. 1 \in DOMAIN t
          BY <2>2, <1>1
        <5> QED BY <2>2, <2>6, <5>1
      <4>1. PICK k \in DOMAIN items : items[k].id = j /\ items[k].offer = o
        BY <3>1 DEF Tells
      <4> QED BY <2>4, <4>1
    <3>5. \A k, l \in DOMAIN t : t[k].offer = o /\ t[l].offer = o /\ t[k].id = t[l].id => k = l
      <4> SUFFICES ASSUME NEW k \in DOMAIN t, NEW l \in DOMAIN t,
                          t[k].offer = o, t[l].offer = o, t[k].id = t[l].id
                   PROVE  k = l
        OBVIOUS
      <4>1. CASE k = 1 \/ l = 1
        BY <2>2, <2>3, <3>2, <4>1
      <4>2. CASE k # 1 /\ l # 1
        <5>1. k - 1 = l - 1
          BY <2>3, <3>1, <4>2 DEF Tells
        <5> QED BY <5>1, <2>2, <1>1
      <4> QED BY <4>1, <4>2
    <3> QED BY <3>3, <3>4, <3>5 DEF Tells
  <2> QED BY <2>1, <2>2, <2>5, <2>7, <2>8
<1>7. CASE c.kind = "status"
  <2> DEFINE t == [k \in DOMAIN items |-> IF items[k].id = i THEN new ELSE items[k]]
  <2>1. Stored(c) = t
    BY <1>7 DEF Stored
  <2>2. /\ DOMAIN t = DOMAIN items
        /\ \A k \in DOMAIN items : t[k] = IF items[k].id = i THEN new ELSE items[k]
    OBVIOUS
  <2>3. t \in Seq(Item)
    <3>1. t \in [1..n -> Item]
      BY <1>1, <1>3, <1>5, <1>7
    <3> QED BY <1>1, <3>1, IsASeq
  <2> HIDE DEF n, t, new
  <2>4. \A k \in DOMAIN items : t[k].id = items[k].id /\ t[k].offer = items[k].offer
    BY <1>3, <1>5, <1>7, <2>2
  <2>5. entries[i].offer = o
    BY <1>7 DEF IInv, CallsNamed
  <2>6. Named(entries, t)
    BY <1>3, <2>2, <2>4 DEF Named
  <2>7. ASSUME NEW p \in Offer \ {o} PROVE \E f : PlacedBy(items, t, p, f)
    <3> DEFINE f == [l \in {l \in DOMAIN t : t[l].offer = p} |-> l]
    <3>1. \A l \in DOMAIN items : items[l].offer = p => items[l] = t[l]
      BY <1>3, <2>2, <2>5
    <3>2. PlacedBy(items, t, p, f)
      BY <2>2, <2>4, <3>1 DEF PlacedBy
    <3> QED BY <3>2
  <2>8. ASSUME o \notin unsure PROVE Tells(entries, t, o, 0)
    <3>1. /\ Tells(entries, items, o, i) /\ Holds(items, i)
          /\ i \in Seen(entries, o) /\ new = ItemIn(entries, i)
      BY <1>2, <1>7, <2>8 DEF Fits, new
    <3>2. PICK k0 \in DOMAIN items : items[k0].id = i /\ items[k0].offer = o
      BY <3>1, <1>3, <2>5 DEF Holds
    <3>3. \A l \in DOMAIN t : t[l].offer = o => t[l].id \in Seen(entries, o) /\ t[l] = ItemIn(entries, t[l].id)
      BY <1>5, <1>7, <2>2, <2>4, <3>1 DEF Tells
    <3>4. \A j \in Seen(entries, o) : \E l \in DOMAIN t : t[l].id = j /\ t[l].offer = o
      BY <2>2, <2>4, <3>1, <3>2 DEF Tells
    <3>5. \A k, l \in DOMAIN t : t[k].offer = o /\ t[l].offer = o /\ t[k].id = t[l].id => k = l
      BY <2>2, <2>4, <3>1 DEF Tells
    <3> QED BY <3>3, <3>4, <3>5 DEF Tells
  <2> QED BY <2>1, <2>3, <2>6, <2>7, <2>8
<1>8. CASE c.kind = "remove"
  <2> DEFINE S == {e \in Range(items) : e.id # i}
             t == Kept(items, S)
  <2>1. Stored(c) = t
    BY <1>8 DEF Stored
  <2>2. t \in Seq(Item) /\ \E g : KeepsBy(items, S, t, n, g)
    <3> HIDE DEF S
    <3> QED BY <1>1, KeptKeeps
  <2>3. PICK g : KeepsBy(items, S, t, n, g)
    BY <2>2
  <2>4. \A k \in DOMAIN items : items[k] \in S <=> items[k].id # i
    BY DEF Range
  <2> HIDE DEF n, t, S
  <2>5. /\ \A j \in DOMAIN t : g[j] \in DOMAIN items /\ items[g[j]].id # i /\ t[j] = items[g[j]]
        /\ \A k \in DOMAIN items : items[k].id # i => \E j \in DOMAIN t : g[j] = k
        /\ \A j, k \in DOMAIN t : g[j] = g[k] => j = k
    BY <1>1, <2>3, <2>4 DEF KeepsBy
  <2>6. entries[i].offer = o
    BY <1>8 DEF IInv, CallsNamed
  <2>7. Named(entries, t)
    BY <1>3, <2>5 DEF Named
  <2>8. ASSUME NEW p \in Offer \ {o} PROVE \E f : PlacedBy(items, t, p, f)
    <3> DEFINE f == [l \in {l \in DOMAIN t : t[l].offer = p} |-> g[l]]
    <3>1. \A k \in DOMAIN items : items[k].offer = p => items[k].id # i
      BY <1>3, <2>6
    <3>2. PlacedBy(items, t, p, f)
      BY <2>5, <3>1 DEF PlacedBy
    <3> QED BY <3>2
  <2>9. ASSUME o \notin unsure PROVE Tells(entries, t, o, 0)
    <3>1. Tells(entries, items, o, i) /\ i \notin Seen(entries, o)
      BY <1>2, <1>8, <2>9 DEF Fits
    <3>2. \A l \in DOMAIN t : t[l].offer = o => t[l].id \in Seen(entries, o) /\ t[l] = ItemIn(entries, t[l].id)
      BY <2>5, <3>1 DEF Tells
    <3>3. \A j \in Seen(entries, o) : \E l \in DOMAIN t : t[l].id = j /\ t[l].offer = o
      BY <2>5, <3>1 DEF Tells
    <3>4. \A k, l \in DOMAIN t : t[k].offer = o /\ t[l].offer = o /\ t[k].id = t[l].id => k = l
      BY <2>5, <3>1 DEF Tells
    <3> QED BY <3>2, <3>3, <3>4 DEF Tells
  <2> QED BY <2>1, <2>2, <2>7, <2>8, <2>9
<1> QED BY <1>1, <1>6, <1>7, <1>8

LEMMA AnsweredInv == ASSUME IInv, NEW c \in calls, Answered(c) PROVE IInv'
<1>1. /\ c.at = "served" /\ c \in CallState /\ calls' = calls \ {c} /\ items' = Stored(c)
      /\ unsure' = (IF c.kind = "load" THEN c.dirty ELSE unsure)
      /\ UNCHANGED <<entries, acts, hasty>>
  BY DEF Answered, IInv, TypeOK
<1>2. loading' \in BOOLEAN
  <2>1. loading' = (loading /\ c.kind # "load")
    BY DEF Answered
  <2> QED BY <2>1
<1>3. /\ Changes' = Changes \ {c} /\ Touched' \subseteq Touched
      /\ CallsApart' /\ CallsNamed' /\ RoomForEntries' /\ LoadsTell' /\ OneApplication'
  BY <1>1, GoneInv
<1>4. CASE c.kind = "load"
  <2>1. items' = c.answer /\ items' \in Seq(Item) /\ Named(entries, items')
        /\ unsure' = c.dirty /\ unsure' \subseteq Offer
    BY <1>1, <1>4 DEF Stored, CallState, IInv, CallsNamed
  <2>2. \A p \in Offer \ unsure' : p \notin Touched /\ Tells(entries, items', p, 0)
    BY <1>1, <1>4, <2>1 DEF IInv, LoadsTell
  <2>3. \A e \in Changes' : e.offer \in Touched
    BY <1>3 DEF Changes, Touched
  <2>4. SureOfItems'
    BY <1>1, <1>3, <2>1, <2>2, <2>3 DEF SureOfItems, Named, Tells, Seen, Visible, ItemIn
  <2>5. TypeOK'
    BY <1>1, <1>2, <2>1 DEF IInv, TypeOK
  <2> QED BY <1>3, <2>4, <2>5 DEF IInv
<1>5. CASE c.kind # "load"
  <2>1. /\ items' \in Seq(Item) /\ Named(entries, items')
        /\ \A p \in Offer \ {c.offer} : \E f : PlacedBy(items, items', p, f)
        /\ c.offer \notin unsure => Tells(entries, items', c.offer, 0)
    BY <1>1, <1>5, StoredTells
  <2>2. unsure' = unsure /\ c \in Changes
    BY <1>1, <1>5 DEF Changes
  <2>3. TypeOK'
    BY <1>1, <1>2, <2>1, <2>2 DEF IInv, TypeOK
  <2> DEFINE new == items'
  <2>4. ASSUME NEW p \in Offer \ unsure
        PROVE  /\ \A e, f \in Changes' : e.offer = p /\ f.offer = p => e = f
               /\ p \notin Touched' => Tells(entries, new, p, 0)
               /\ \A e \in Changes' : e.offer = p => Fits(entries, new, e)
    <3>1. /\ \A e, f \in Changes : e.offer = p /\ f.offer = p => e = f
          /\ p \notin Touched => Tells(entries, items, p, 0)
          /\ \A e \in Changes : e.offer = p => Fits(entries, items, e)
      BY DEF IInv, SureOfItems
    <3>2. CASE p = c.offer
      BY <1>3, <2>1, <2>2, <3>1, <3>2
    <3>3. CASE p # c.offer
      <4>1. PICK f : PlacedBy(items, new, p, f)
        BY <2>1, <3>3
      <4>2. Named(entries, items) /\ Named(entries, new)
        BY <2>1 DEF IInv, SureOfItems
      <4>3. p \notin Touched => p \notin Touched' /\ Tells(entries, new, p, 0)
        BY <1>3, <3>1, <4>1, PlacedTells
      <4>4. \A e \in Changes : e.offer = p => Fits(entries, new, e)
        <5> HIDE DEF new
        <5> SUFFICES ASSUME NEW e \in Changes, e.offer = p PROVE Fits(entries, new, e)
          OBVIOUS
        <5>1. PlacedBy(items, new, e.offer, f) /\ Fits(entries, items, e)
          BY <3>1, <4>1
        <5> QED BY <4>2, <5>1, PlacedFits
      <4>5. p \in Touched => p \in Touched'
        <5> SUFFICES ASSUME NEW e \in Changes, e.offer = p PROVE p \in Touched'
          BY DEF Touched, Changes
        <5>1. e \in Changes'
          BY <1>3, <3>3
        <5> QED BY <5>1 DEF Touched, Changes
      <4> QED BY <1>3, <3>1, <4>3, <4>4, <4>5
    <3> QED BY <3>2, <3>3
  <2>5. SureOfItems'
    BY <1>1, <2>1, <2>2, <2>4 DEF SureOfItems, Tells, Fits, Named, Seen, Visible, ItemIn, Holds
  <2> QED BY <1>3, <2>3, <2>5 DEF IInv
<1> QED BY <1>4, <1>5

\* A call failed: the tab is no longer sure of its offer.
LEMMA CallFailedInv == ASSUME IInv, NEW c \in calls, CallFailed(c) PROVE IInv'
<1>1. /\ c.at = "refused" /\ c \in CallState /\ calls' = calls \ {c}
      /\ unsure' = unsure \cup (IF c.kind = "load" THEN {} ELSE {c.offer})
      /\ UNCHANGED <<entries, items, acts, hasty>>
  BY DEF CallFailed, IInv, TypeOK
<1>2. loading' \in BOOLEAN
  <2>1. loading' = (loading /\ c.kind # "load")
    BY DEF CallFailed
  <2> QED BY <2>1
<1>3. /\ Changes' = Changes \ {c} /\ Touched' \subseteq Touched
      /\ CallsApart' /\ CallsNamed' /\ RoomForEntries' /\ LoadsTell' /\ OneApplication'
  BY <1>1, GoneInv
<1>4. TypeOK'
  BY <1>1, <1>2 DEF IInv, TypeOK, CallState
<1>5. SureOfItems'
  <2>1. ASSUME NEW p \in Offer \ unsure', p \notin Touched' PROVE p \notin Touched
    <3> SUFFICES ASSUME NEW e \in Changes, e.offer = p PROVE FALSE
      BY DEF Touched, Changes
    <3>1. e # c
      BY <1>1 DEF Changes
    <3>2. e \in Changes'
      BY <1>3, <3>1
    <3> QED BY <2>1, <3>2 DEF Touched, Changes
  <2>2. \A p \in Offer \ unsure' :
          /\ \A e, f \in Changes' : e.offer = p /\ f.offer = p => e = f
          /\ p \notin Touched' => Tells(entries, items, p, 0)
          /\ \A e \in Changes' : e.offer = p => Fits(entries, items, e)
    BY <1>1, <1>3, <2>1 DEF IInv, SureOfItems
  <2>3. Named(entries, items)
    BY DEF IInv, SureOfItems
  <2> QED BY <1>1, <2>2, <2>3 DEF SureOfItems, Tells, Fits, Named, Seen, Visible, ItemIn, Holds
<1> QED BY <1>3, <1>4, <1>5 DEF IInv

LEMMA NextInv == IInv /\ [Next]_vars => IInv'
<1> SUFFICES ASSUME IInv, [Next]_vars PROVE IInv'
  OBVIOUS
<1>1. CASE UserActs
  BY <1>1, UserActsInv
<1>2. CASE CallsGoOn
  <2>1. PICK c \in calls : ServeLoad(c) \/ ServeApply(c) \/ ServeChange(c) \/ Answered(c) \/ CallFailed(c)
    BY <1>2 DEF CallsGoOn
  <2> QED BY <2>1, ServeLoadInv, ServeApplyInv, ServeChangeInv, AnsweredInv, CallFailedInv
<1>3. CASE UNCHANGED vars
  <2>1. UNCHANGED <<entries, items, loading, calls, acts, unsure, hasty>>
    BY <1>3 DEF vars
  <2>2. Changes' = Changes /\ Unserved' = Unserved /\ Touched' = Touched
    BY <2>1 DEF Changes, Unserved, Touched
  <2>3. TypeOK' /\ CallsApart' /\ CallsNamed'
    BY <2>1 DEF IInv, TypeOK, CallsApart, CallsNamed, Named
  <2>4. RoomForEntries' /\ OneApplication'
    BY <2>1, <2>2 DEF IInv, RoomForEntries, OneApplication, Seen, Visible
  <2>5. SureOfItems'
    BY <2>1, <2>2 DEF IInv, SureOfItems, Tells, Fits, Named, Holds, Seen, Visible, ItemIn
  <2>6. LoadsTell'
    BY <2>1, <2>2 DEF IInv, LoadsTell, Tells, Seen, Visible, ItemIn
  <2> QED BY <2>3, <2>4, <2>5, <2>6 DEF IInv
<1> QED BY <1>1, <1>2, <1>3 DEF Next

LEMMA IInvHolds == Spec => []IInv
BY InitInv, NextInv, PTL DEF Spec

-----------------------------------------------------------------------------
(* The theorems *)

\* The table, the items and the calls underway keep their shape, and every
\* entry its place, whatever the answers and their order.
THEOREM TypeCorrect == Spec => []TypeOK
<1>1. IInv => TypeOK
  BY DEF IInv
<1> QED BY <1>1, IInvHolds, PTL

LEMMA SeenIsEntriesOf ==
  ASSUME IInv, NEW o
  PROVE  /\ EntriesOf(o) = Seen(entries, o) /\ \A i : ItemOf(i) = ItemIn(entries, i)
         /\ IsFiniteSet(EntriesOf(o))
<1>1. EntriesOf(o) = Seen(entries, o) /\ \A i : ItemOf(i) = ItemIn(entries, i)
  BY DEF EntriesOf, Seen, ItemOf, ItemIn
<1>2. Len(entries) \in Nat /\ EntriesOf(o) \subseteq 1..Len(entries)
  BY DEF IInv, TypeOK, EntriesOf
<1>3. IsFiniteSet(1..Len(entries))
  BY <1>2, FS_Interval
<1> QED BY <1>1, <1>2, <1>3, FS_Subset

\* JobsListPage.apply looks for an entry in the items and RecruitmentService
\* does not look at all: that is enough, for an offer the user did not apply to
\* in haste, never to make two entries of it.
THEOREM NoSecondApplication == Spec => []AppliedTwiceOnlyInHaste
<1>1. IInv => AppliedTwiceOnlyInHaste
  <2> SUFFICES ASSUME IInv, NEW o \in Offer \ hasty
               PROVE  Cardinality({i \in EntriesOf(o) : entries[i].mine}) <= 1
    BY DEF AppliedTwiceOnlyInHaste
  <2> DEFINE own == {i \in EntriesOf(o) : entries[i].mine}
  <2>1. \A i, j \in own : i = j
    BY SeenIsEntriesOf DEF IInv, OneApplication
  <2> HIDE DEF own
  <2>2. CASE own = {}
    <3>1. Cardinality(own) = 0
      BY <2>2, FS_EmptySet
    <3> QED BY <3>1 DEF own
  <2>3. CASE own # {}
    <3>1. PICK i : own = {i}
      BY <2>1, <2>3
    <3>2. Cardinality(own) = 1
      BY <3>1, FS_Singleton
    <3> QED BY <3>2 DEF own
  <2> QED BY <2>2, <2>3
<1> QED BY <1>1, IInvHolds, PTL

\* Loads, creations, updates and removals may be answered in any order: with
\* all of them answered the tab shows the entries of an offer it is sure of,
\* each once and as the table has it.
THEOREM ItemsTellTheTruth == Spec => []SettledItemsTellTheTruth
<1>1. IInv => SettledItemsTellTheTruth
  <2> SUFFICES ASSUME IInv, calls = {}, NEW o \in Offer \ unsure
               PROVE  LET shown == {k \in DOMAIN items : items[k].offer = o}
                      IN  /\ {items[k] : k \in shown} = {ItemOf(i) : i \in EntriesOf(o)}
                          /\ Cardinality(shown) = Cardinality(EntriesOf(o))
    BY DEF SettledItemsTellTheTruth
  <2> DEFINE shown == {k \in DOMAIN items : items[k].offer = o}
             own == EntriesOf(o)
             f == [k \in shown |-> items[k].id]
  <2>1. Tells(entries, items, o, 0)
    BY DEF IInv, SureOfItems, Touched
  <2>2. own = Seen(entries, o) /\ (\A i : ItemOf(i) = ItemIn(entries, i)) /\ IsFiniteSet(own)
    BY SeenIsEntriesOf
  <2>3. \A i \in own : i # 0 /\ ItemIn(entries, i).id = i
    BY <2>2 DEF Seen, IInv, TypeOK, ItemIn
  <2>4. \A k \in DOMAIN items : items[k].id # 0
    BY DEF IInv, SureOfItems, Named, TypeOK
  <2> HIDE DEF own
  <2>5. \A k \in shown : items[k].id \in own /\ items[k] = ItemOf(items[k].id)
    BY <2>1, <2>2, <2>4 DEF Tells
  <2>6. \A i \in own : \E k \in shown : items[k].id = i
    BY <2>1, <2>2, <2>3 DEF Tells
  <2>7. \A k, l \in shown : items[k].id = items[l].id => k = l
    BY <2>1 DEF Tells
  <2> HIDE DEF shown
  <2>8. {items[k] : k \in shown} = {ItemOf(i) : i \in own}
    <3>1. \A k \in shown : \E i \in own : items[k] = ItemOf(i)
      BY <2>5
    <3>2. \A i \in own : \E k \in shown : items[k] = ItemOf(i)
      BY <2>5, <2>6
    <3> QED BY <3>1, <3>2
  <2>9. f \in Bijection(shown, own)
    <3>1. f \in [shown -> own]
      BY <2>5
    <3>2. IsInjective(f)
      BY <2>7 DEF IsInjective
    <3>3. \A i \in own : \E k \in shown : f[k] = i
      BY <2>6
    <3> QED BY <3>1, <3>2, <3>3 DEF Bijection, Injection, Surjection
  <2>10. IsFiniteSet(shown)
    <3>1. Len(items) \in Nat /\ shown \subseteq 1..Len(items)
      BY DEF IInv, TypeOK, shown
    <3>2. IsFiniteSet(1..Len(items))
      BY <3>1, FS_Interval
    <3> QED BY <3>1, <3>2, FS_Subset
  <2>11. Cardinality(shown) = Cardinality(own)
    <3> HIDE DEF f
    <3>1. ExistsBijection(shown, own)
      BY <2>9 DEF ExistsBijection
    <3> QED BY <2>2, <2>10, <3>1, FS_Bijection
  <2> QED BY <2>8, <2>11 DEF shown, own
<1> QED BY <1>1, IInvHolds, PTL

-----------------------------------------------------------------------------
(***************************************************************************)
(* Theorems about ScrapeSchedules, for every set of slots, targets, bodies *)
(* and days.  That only overlapping updates leave a slot without its days  *)
(* is not inductive: an update that is validated and not yet written must  *)
(* still be right for the row, and be the only one.  Nor is it that an     *)
(* inactive slot fires nothing: the query must not find it either, and     *)
(* nothing that was found may outlast its wake-up.                         *)
(***************************************************************************)

\* What an update that is validated will write is valid, if it is alone.
PatchesValid ==
  \A p \in patches :
    p.schedule \in DOMAIN slots \ raced => Valid(Merge(slots[p.schedule], p.body))

PatchAlone ==
  \A p, q \in patches : p.schedule = q.schedule /\ p.schedule \notin raced => p = q

\* Slots counted as inactive are.
OffIsOff == \A s \in off : ~Active(s)

\* What a wake-up found is forgotten with it.
DueInTick == tick # "enqueue" => due = {}

SchedulesInv ==
  /\ SchedulesTypeOK
  /\ InvalidOnlyByRace /\ PatchesValid /\ PatchAlone
  /\ OffIsOff /\ DueInTick /\ NoRunWhileOff

-----------------------------------------------------------------------------
\* A slot with some fields replaced is a slot.
LEMMA MergeSlot ==
  ASSUME NEW slot \in Slot, NEW body \in Patch PROVE Merge(slot, body) \in Slot
<1> PICK given \in Slot : \A f \in DOMAIN body : f \in DOMAIN given /\ body[f] = given[f]
  BY BodiesAssumption
<1> DEFINE m == Merge(slot, body)
<1>1. \A r \in Slot : DOMAIN r = {"recurrence", "time", "days", "dom", "enabled"}
  BY DEF Slot
<1>2. /\ m = [f \in {"recurrence", "time", "days", "dom", "enabled"} |-> m[f]]
      /\ \A f \in {"recurrence", "time", "days", "dom", "enabled"} : m[f] = slot[f] \/ m[f] = given[f]
  BY <1>1 DEF Merge
<1> HIDE DEF m
<1>3. /\ m["recurrence"] \in {"DAILY", "WEEKLY", "MONTHLY"}
      /\ m["time"] \in Minute
      /\ m["days"] \in SUBSET Weekdays
      /\ m["dom"] \in MonthDays \cup {Null}
      /\ m["enabled"] \in BOOLEAN
  BY <1>2 DEF Slot
<1>4. m = [recurrence |-> m["recurrence"], time |-> m["time"], days |-> m["days"],
           dom |-> m["dom"], enabled |-> m["enabled"]]
  BY <1>2
<1>5. m \in Slot
  BY <1>3, <1>4 DEF Slot
<1> QED BY <1>5 DEF m

LEMMA InitIInv == SchedulesInit => SchedulesInv
<1> SUFFICES ASSUME SchedulesInit PROVE SchedulesInv
  OBVIOUS
<1>1. 1 \in Days /\ 1 \in Minute
  BY ClockAssumption DEF Days, Minute
<1>2. SchedulesTypeOK
  BY <1>1, BoundAssumption DEF SchedulesInit, SchedulesTypeOK
<1>3. InvalidOnlyByRace /\ PatchesValid /\ PatchAlone
  BY DEF SchedulesInit, InvalidOnlyByRace, PatchesValid, PatchAlone
<1>4. OffIsOff /\ DueInTick /\ NoRunWhileOff
  BY DEF SchedulesInit, OffIsOff, Active, DueInTick, NoRunWhileOff
<1> QED BY <1>2, <1>3, <1>4 DEF SchedulesInv

\* The clock goes round the day and the days go round the calendar.
LEMMA ClockRuns ==
  ASSUME SchedulesTypeOK, MinutePasses PROVE day' \in Days /\ minute' \in Minute
<1>1. Len(Calendar) \in Nat /\ Days = 1..Len(Calendar) /\ Len(Calendar) # 0
  BY ClockAssumption DEF Days
<1> QED BY <1>1, ClockAssumption DEF SchedulesTypeOK, MinutePasses, Minute

LEMMA MinutePassesIInv == ASSUME SchedulesInv, MinutePasses PROVE SchedulesInv'
<1>1. /\ UNCHANGED <<slots, target, patches, up, due, raced, edits>>
      /\ fired' = {} /\ off' = {s \in Schedule : ~Active(s)} /\ due = {}
      /\ tick' \in {"query", "none"}
  BY DEF MinutePasses, SchedulesInv, DueInTick
<1>2. SchedulesTypeOK'
  BY <1>1, ClockRuns DEF SchedulesInv, SchedulesTypeOK
<1>3. InvalidOnlyByRace' /\ PatchesValid' /\ PatchAlone'
  BY <1>1 DEF SchedulesInv, InvalidOnlyByRace, PatchesValid, PatchAlone
<1>4. OffIsOff' /\ DueInTick' /\ NoRunWhileOff'
  BY <1>1 DEF OffIsOff, Active, DueInTick, NoRunWhileOff
<1> QED BY <1>2, <1>3, <1>4 DEF SchedulesInv

LEMMA QueryDueIInv == ASSUME SchedulesInv, QueryDue PROVE SchedulesInv'
<1>1. UNCHANGED <<slots, target, patches, up, day, minute, fired, off, raced, edits>>
      /\ due' = DueSlots /\ tick' = "enqueue"
  BY DEF QueryDue
<1>2. SchedulesTypeOK'
  BY <1>1 DEF SchedulesInv, SchedulesTypeOK, DueSlots
<1>3. InvalidOnlyByRace' /\ PatchesValid' /\ PatchAlone'
  BY <1>1 DEF SchedulesInv, InvalidOnlyByRace, PatchesValid, PatchAlone
<1>4. OffIsOff' /\ DueInTick'
  BY <1>1 DEF SchedulesInv, OffIsOff, Active, DueInTick
<1>5. NoRunWhileOff'
  BY <1>1 DEF SchedulesInv, OffIsOff, DueSlots, NoRunWhileOff
<1> QED BY <1>2, <1>3, <1>4, <1>5 DEF SchedulesInv

LEMMA EnqueueDueIInv == ASSUME SchedulesInv, EnqueueDue PROVE SchedulesInv'
<1>1. UNCHANGED <<slots, target, patches, up, day, minute, off, raced, edits>>
      /\ fired' = due /\ due' = {} /\ tick' = "none"
  BY DEF EnqueueDue
<1>2. SchedulesTypeOK'
  BY <1>1 DEF SchedulesInv, SchedulesTypeOK
<1>3. InvalidOnlyByRace' /\ PatchesValid' /\ PatchAlone'
  BY <1>1 DEF SchedulesInv, InvalidOnlyByRace, PatchesValid, PatchAlone
<1>4. OffIsOff' /\ DueInTick' /\ NoRunWhileOff'
  BY <1>1 DEF SchedulesInv, OffIsOff, Active, DueInTick, NoRunWhileOff
<1> QED BY <1>2, <1>3, <1>4 DEF SchedulesInv

\* The end of the process forgets updates and wake-up, its start nothing.
LEMMA ProcessIInv == ASSUME SchedulesInv, Stop \/ Start \/ UNCHANGED schedulesVars PROVE SchedulesInv'
<1>1. /\ UNCHANGED <<slots, target, day, minute, fired, off, raced, edits>>
      /\ up' \in BOOLEAN /\ tick' \in {"none", tick} /\ patches' \subseteq patches
      /\ due' \subseteq due /\ (tick' = tick \/ due' = {})
  BY DEF Stop, Start, schedulesVars, SchedulesInv, SchedulesTypeOK
<1>2. SchedulesTypeOK'
  BY <1>1 DEF SchedulesInv, SchedulesTypeOK
<1>3. InvalidOnlyByRace' /\ PatchesValid' /\ PatchAlone'
  BY <1>1 DEF SchedulesInv, InvalidOnlyByRace, PatchesValid, PatchAlone
<1>4. OffIsOff' /\ DueInTick' /\ NoRunWhileOff'
  BY <1>1 DEF SchedulesInv, OffIsOff, Active, DueInTick, NoRunWhileOff
<1> QED BY <1>2, <1>3, <1>4 DEF SchedulesInv

\* A request leaves the wake-up alone and turns no slot off.
LEMMA RequestIInv ==
  ASSUME SchedulesInv, UNCHANGED <<up, day, minute, tick, due, fired>>,
         off' \subseteq off, \A s \in off' : ~Active(s)'
  PROVE  OffIsOff' /\ DueInTick' /\ NoRunWhileOff'
<1>1. OffIsOff'
  BY DEF OffIsOff
<1>2. DueInTick' /\ NoRunWhileOff'
  BY DEF SchedulesInv, DueInTick, NoRunWhileOff
<1> QED BY <1>1, <1>2

\* A request is one of MaxEdits at most.
LEMMA RequestTypes ==
  ASSUME SchedulesTypeOK, Request PROVE edits' \in 0..MaxEdits /\ UNCHANGED <<up, day, minute, tick, due, fired>>
BY BoundAssumption DEF SchedulesTypeOK, Request

\* A new slot is valid, and nothing refers to it yet.
LEMMA CreateIInv ==
  ASSUME SchedulesInv, NEW s \in Schedule, NEW body \in Creation, Create(s, body) PROVE SchedulesInv'
<1>1. /\ s \notin DOMAIN slots /\ (\A p \in patches : p.schedule # s) /\ Valid(body)
      /\ slots' = [x \in DOMAIN slots \cup {s} |-> IF x = s THEN body ELSE slots[x]]
      /\ raced' = raced \ {s} /\ Request /\ UNCHANGED <<target, patches>>
      /\ off' \subseteq off /\ \A x \in off' : ~Active(x)'
  BY DEF Create, StillOff
<1>2. body \in Slot
  BY BodiesAssumption
<1>3. /\ DOMAIN slots' = DOMAIN slots \cup {s} /\ slots' \in [DOMAIN slots' -> Slot]
      /\ slots'[s] = body /\ \A x \in DOMAIN slots : slots'[x] = slots[x]
  BY <1>1, <1>2 DEF SchedulesInv, SchedulesTypeOK
<1>4. SchedulesTypeOK'
  BY <1>1, <1>3, RequestTypes DEF SchedulesInv, SchedulesTypeOK
<1>5. InvalidOnlyByRace'
  BY <1>1, <1>3 DEF SchedulesInv, InvalidOnlyByRace
<1>6. PatchesValid' /\ PatchAlone'
  BY <1>1, <1>3 DEF SchedulesInv, PatchesValid, PatchAlone
<1>7. OffIsOff' /\ DueInTick' /\ NoRunWhileOff'
  BY <1>1, RequestIInv, RequestTypes DEF SchedulesInv
<1> QED BY <1>4, <1>5, <1>6, <1>7 DEF SchedulesInv

\* An update that is validated is alone, or its slot is counted as raced.
LEMMA UpdateReadsIInv ==
  ASSUME SchedulesInv, NEW s \in Schedule, NEW body \in Patch, UpdateReads(s, body) PROVE SchedulesInv'
<1> DEFINE n == [schedule |-> s, body |-> body]
<1>1. /\ s \in DOMAIN slots /\ Valid(Merge(slots[s], body))
      /\ patches' = patches \cup {n}
      /\ Request /\ UNCHANGED <<slots, target, off>>
  BY DEF UpdateReads
<1>2. /\ raced' \subseteq raced \cup {s} /\ raced \subseteq raced'
      /\ s \notin raced' => \A p \in patches : p.schedule # s
  BY DEF UpdateReads
<1>3. n.schedule = s /\ n.body = body /\ n \in [schedule : Schedule, body : Patch]
  OBVIOUS
<1> HIDE DEF n
<1>4. SchedulesTypeOK'
  BY <1>1, <1>2, <1>3, RequestTypes DEF SchedulesInv, SchedulesTypeOK
<1>5. InvalidOnlyByRace'
  BY <1>1, <1>2 DEF SchedulesInv, InvalidOnlyByRace
<1>6. PatchesValid'
  BY <1>1, <1>2, <1>3 DEF SchedulesInv, PatchesValid
<1>7. PatchAlone'
  BY <1>1, <1>2, <1>3 DEF SchedulesInv, PatchAlone
<1>8. \A x \in off' : ~Active(x)'
  BY <1>1 DEF SchedulesInv, OffIsOff, Active
<1>9. OffIsOff' /\ DueInTick' /\ NoRunWhileOff'
  BY <1>1, <1>8, RequestIInv, RequestTypes DEF SchedulesInv
<1> QED BY <1>4, <1>5, <1>6, <1>7, <1>9 DEF SchedulesInv

\* What it writes is what was validated, unless another update came between.
LEMMA UpdateWritesIInv == ASSUME SchedulesInv, NEW p \in patches, UpdateWrites(p) PROVE SchedulesInv'
<1>1. /\ patches' = patches \ {p}
      /\ slots' = [s \in DOMAIN slots |-> IF s = p.schedule THEN Merge(slots[s], p.body) ELSE slots[s]]
      /\ UNCHANGED <<target, up, day, minute, tick, due, fired, raced, edits>>
      /\ off' \subseteq off /\ \A x \in off' : ~Active(x)'
  BY DEF UpdateWrites, StillOff
<1>2. p.schedule \in Schedule /\ p.body \in Patch
  BY DEF SchedulesInv, SchedulesTypeOK
<1>3. \A s \in DOMAIN slots : slots[s] \in Slot
  BY DEF SchedulesInv, SchedulesTypeOK
<1>4. \A s \in DOMAIN slots : Merge(slots[s], p.body) \in Slot
  BY <1>2, <1>3, MergeSlot
<1>5. /\ DOMAIN slots' = DOMAIN slots /\ slots' \in [DOMAIN slots' -> Slot]
      /\ \A s \in DOMAIN slots : s # p.schedule => slots'[s] = slots[s]
      /\ p.schedule \in DOMAIN slots => slots'[p.schedule] = Merge(slots[p.schedule], p.body)
  BY <1>1, <1>3, <1>4
<1>6. SchedulesTypeOK'
  BY <1>1, <1>5 DEF SchedulesInv, SchedulesTypeOK
<1>7. InvalidOnlyByRace'
  BY <1>1, <1>5 DEF SchedulesInv, InvalidOnlyByRace, PatchesValid
<1>8. PatchesValid'
  <2> SUFFICES ASSUME NEW q \in patches', q.schedule \in DOMAIN slots' \ raced'
               PROVE  Valid(Merge(slots'[q.schedule], q.body))
    BY DEF PatchesValid
  <2>1. q \in patches /\ q # p /\ q.schedule # p.schedule
    BY <1>1 DEF SchedulesInv, PatchAlone
  <2> QED BY <1>1, <1>5, <2>1 DEF SchedulesInv, PatchesValid
<1>9. PatchAlone'
  BY <1>1 DEF SchedulesInv, PatchAlone
<1>10. OffIsOff' /\ DueInTick' /\ NoRunWhileOff'
  BY <1>1, RequestIInv
<1> QED BY <1>6, <1>7, <1>8, <1>9, <1>10 DEF SchedulesInv

LEMMA RemoveIInv == ASSUME SchedulesInv, NEW s \in Schedule, RemoveSlot(s) PROVE SchedulesInv'
<1>1. /\ slots' = [x \in DOMAIN slots \ {s} |-> slots[x]]
      /\ Request /\ UNCHANGED <<target, patches, raced>>
      /\ off' \subseteq off /\ \A x \in off' : ~Active(x)'
  BY DEF RemoveSlot, StillOff
<1>2. /\ DOMAIN slots' = DOMAIN slots \ {s} /\ slots' \in [DOMAIN slots' -> Slot]
      /\ \A x \in DOMAIN slots' : slots'[x] = slots[x]
  BY <1>1 DEF SchedulesInv, SchedulesTypeOK
<1>3. SchedulesTypeOK'
  BY <1>1, <1>2, RequestTypes DEF SchedulesInv, SchedulesTypeOK
<1>4. InvalidOnlyByRace' /\ PatchesValid' /\ PatchAlone'
  BY <1>1, <1>2 DEF SchedulesInv, InvalidOnlyByRace, PatchesValid, PatchAlone
<1>5. OffIsOff' /\ DueInTick' /\ NoRunWhileOff'
  BY <1>1, RequestIInv, RequestTypes DEF SchedulesInv
<1> QED BY <1>3, <1>4, <1>5 DEF SchedulesInv

LEMMA SetTargetIInv ==
  ASSUME SchedulesInv, NEW t \in Target, NEW state \in {"enabled", "disabled", "removed"}, SetTarget(t, state)
  PROVE  SchedulesInv'
<1>1. /\ target' = [target EXCEPT ![t] = state]
      /\ Request /\ UNCHANGED <<slots, patches, raced>>
      /\ off' \subseteq off /\ \A x \in off' : ~Active(x)'
  BY DEF SetTarget, StillOff
<1>2. SchedulesTypeOK'
  BY <1>1, RequestTypes DEF SchedulesInv, SchedulesTypeOK
<1>3. InvalidOnlyByRace' /\ PatchesValid' /\ PatchAlone'
  BY <1>1 DEF SchedulesInv, InvalidOnlyByRace, PatchesValid, PatchAlone
<1>4. OffIsOff' /\ DueInTick' /\ NoRunWhileOff'
  BY <1>1, RequestIInv, RequestTypes DEF SchedulesInv
<1> QED BY <1>2, <1>3, <1>4 DEF SchedulesInv

LEMMA NextIInv == ASSUME SchedulesInv, [SchedulesNext]_schedulesVars PROVE SchedulesInv'
BY MinutePassesIInv, QueryDueIInv, EnqueueDueIInv, ProcessIInv, CreateIInv, UpdateReadsIInv,
   UpdateWritesIInv, RemoveIInv, SetTargetIInv DEF SchedulesNext

LEMMA InvariantIInv == SchedulesSpec => []SchedulesInv
<1>1. SchedulesInit => SchedulesInv
  BY InitIInv
<1>2. SchedulesInv /\ [SchedulesNext]_schedulesVars => SchedulesInv'
  BY NextIInv
<1> QED BY <1>1, <1>2, PTL DEF SchedulesSpec

-----------------------------------------------------------------------------
\* Slots, updates, clock and wake-up keep their types; the body of an update,
\* whatever fields it has, leaves a slot.
THEOREM SchedulesTypes == SchedulesSpec => []SchedulesTypeOK
<1>1. SchedulesInv => SchedulesTypeOK
  BY DEF SchedulesInv
<1> QED BY <1>1, InvariantIInv, PTL

\* validateRecurrenceFields keeps a weekly slot with its days and a monthly
\* one with its day of the month, unless two updates of the slot overlapped.
THEOREM OnlyRacesInvalidate == SchedulesSpec => []InvalidOnlyByRace
<1>1. SchedulesInv => InvalidOnlyByRace
  BY DEF SchedulesInv
<1> QED BY <1>1, InvariantIInv, PTL

\* A slot that was off when the minute began and stayed off fires nothing in
\* it, wherever requests fall between handleTick's query and its enqueueing.
THEOREM OffSlotsRunNothing == SchedulesSpec => []NoRunWhileOff
<1>1. SchedulesInv => NoRunWhileOff
  BY DEF SchedulesInv
<1> QED BY <1>1, InvariantIInv, PTL
=============================================================================
