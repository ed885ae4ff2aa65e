-------------------------- MODULE ScrapingPanelProofs --------------------------
(***************************************************************************)
(* Theorems about ScrapingPanel, for every set of browsers and scrapers,   *)
(* every number of calls, runs, faults and events.  A page that waits can  *)
(* do so because of a call that was not served, a run that is queued or    *)
(* news on its way (NewsOnItsWay); an answered call alone is no reason,    *)
(* which WaitsWhileOwed does not say.  And the list keeps up because a     *)
(* user whose loads did not overlap has one load at most, that has read    *)
(* nothing old (OneLoad, LoadsAreNew).                                     *)
(***************************************************************************)
EXTENDS ScrapingPanel, FiniteSetTheorems, TLAPS

\* A call of u for a run is in cs; one that may yet queue the run, or fail.
RunsOf(cs, u) == \E c \in cs : c.by = u /\ c.kind = "run"
Asks(cs, u) == \E c \in cs : c.by = u /\ c.kind = "run" /\ c.heard /\ c.at # "served"
LoadsOf(cs, u) == {c \in cs : c.by = u /\ c.kind = "load"}

Queued(q, u) == \E i \in DOMAIN q : q[i].by = u
News(u) == \E e \in events : e.to = u

CallsInv ==
  /\ IsFiniteSet(calls)
  /\ \A c \in calls : ~c.heard => c.kind = "run"

RunsKnown == \A u \in User \ adrift : RunsOf(calls, u) \/ Queued(queue, u) => running[u]

NewsOnItsWay ==
  \A u \in User \ missed : running[u] => Asks(calls, u) \/ Queued(queue, u) \/ News(u)

OneLoad == \A u \in User \ crossed : \A c, d \in LoadsOf(calls, u) : c = d
LoadsAreNew == \A u \in User \ crossed : \A c \in LoadsOf(calls, u) : ~c.old
Reloading == \A u \in User \ crossed : u \in outdated => LoadsOf(calls, u) # {}

RunInv == RunsKnown /\ NewsOnItsWay
ListInv == OneLoad /\ LoadsAreNew /\ Reloading
IInv == TypeOK /\ CallsInv /\ RunInv /\ ListInv

-----------------------------------------------------------------------------
\* Outstanding, in the words of the invariant.
LEMMA OutstandingIs ==
  ASSUME NEW u PROVE Outstanding(u) <=> RunsOf(calls, u) \/ Queued(queue, u)
BY DEF Outstanding, Of, RunsOf, Queued

\* A run put into the queue is in it, with those that were.
LEMMA QueuedLast ==
  ASSUME NEW q \in Seq(Run), NEW r \in Run
  PROVE  Append(q, r) \in Seq(Run) /\ \A u : Queued(Append(q, r), u) <=> Queued(q, u) \/ r.by = u
<1>1. /\ Append(q, r) \in Seq(Run) /\ Len(q) \in Nat
      /\ DOMAIN Append(q, r) = 1..(Len(q) + 1) /\ DOMAIN q = 1..Len(q)
      /\ \A i \in 1..Len(q) : Append(q, r)[i] = q[i]
      /\ Append(q, r)[Len(q) + 1] = r
  OBVIOUS
<1> DEFINE a == Append(q, r)
<1> HIDE DEF a
<1>2. ASSUME NEW u PROVE Queued(a, u) <=> Queued(q, u) \/ r.by = u
  <2>1. Len(q) + 1 \in DOMAIN a /\ DOMAIN q \subseteq DOMAIN a
    BY <1>1 DEF a
  <2>2. \A i \in DOMAIN a : i \in DOMAIN q \/ i = Len(q) + 1
    BY <1>1 DEF a
  <2>3. (\A i \in DOMAIN q : a[i] = q[i]) /\ a[Len(q) + 1] = r
    BY <1>1 DEF a
  <2> QED BY <2>1, <2>2, <2>3 DEF Queued
<1> QED BY <1>1, <1>2 DEF a

\* The queue without its first run has the others.
LEMMA QueuedFirst ==
  ASSUME NEW q \in Seq(Run), q # <<>>
  PROVE  /\ Tail(q) \in Seq(Run) /\ Head(q) \in Run
         /\ \A u : Queued(q, u) <=> Head(q).by = u \/ Queued(Tail(q), u)
<1>1. /\ Tail(q) \in Seq(Run) /\ Head(q) \in Run /\ Head(q) = q[1]
      /\ Len(q) \in Nat /\ Len(q) >= 1
      /\ DOMAIN Tail(q) = 1..(Len(q) - 1) /\ DOMAIN q = 1..Len(q)
      /\ \A i \in 1..(Len(q) - 1) : Tail(q)[i] = q[i + 1]
  OBVIOUS
<1> DEFINE a == Tail(q)
           h == Head(q)
<1> HIDE DEF a, h
<1>2. ASSUME NEW u PROVE Queued(q, u) <=> h.by = u \/ Queued(a, u)
  <2>1. 1 \in DOMAIN q /\ h = q[1]
    BY <1>1 DEF h
  <2>2. \A i \in DOMAIN a : i + 1 \in DOMAIN q /\ a[i] = q[i + 1]
    BY <1>1 DEF a
  <2>3. \A i \in DOMAIN q : i = 1 \/ (i - 1 \in DOMAIN a /\ a[i - 1] = q[i])
    <3> SUFFICES ASSUME NEW i \in DOMAIN q, i # 1 PROVE i - 1 \in DOMAIN a /\ a[i - 1] = q[i]
      OBVIOUS
    <3>1. i \in 2..Len(q)
      BY <1>1
    <3>2. i - 1 \in 1..(Len(q) - 1) /\ (i - 1) + 1 = i
      BY <1>1, <3>1
    <3> QED BY <1>1, <3>2 DEF a
  <2> QED BY <2>1, <2>2, <2>3 DEF Queued
<1> QED BY <1>1, <1>2 DEF a, h

\* There is a number no call that is underway has.
LEMMA NumberIsFree ==
  ASSUME NEW cs, IsFiniteSet(cs)
  PROVE  FreeNumber(cs) \in Nat
<1>1. Cardinality(cs) \in Nat
  BY FS_CardinalityType
<1>2. \E n \in 0..Cardinality(cs) : \A c \in cs : c.n # n
  <2> SUFFICES ASSUME \A n \in 0..Cardinality(cs) : \E c \in cs : c.n = n PROVE FALSE
    OBVIOUS
  <2> DEFINE f == [n \in 0..Cardinality(cs) |-> CHOOSE c \in cs : c.n = n]
  <2>1. f \in [0..Cardinality(cs) -> cs] /\ \A n \in 0..Cardinality(cs) : f[n].n = n
    OBVIOUS
  <2>2. IsFiniteSet(0..Cardinality(cs)) /\ Cardinality(0..Cardinality(cs)) = Cardinality(cs) + 1
    BY <1>1, FS_Interval
  <2> HIDE DEF f
  <2>3. \E x, y \in 0..Cardinality(cs) : x # y /\ f[x] = f[y]
    BY <1>1, <2>1, <2>2, FS_PigeonHole
  <2> QED BY <2>1, <2>3
<1>3. (CHOOSE n \in 0..Cardinality(cs) : \A c \in cs : c.n # n) \in 0..Cardinality(cs)
  BY <1>2
<1> QED BY <1>1, <1>3 DEF FreeNumber

\* Calls underway in order: finitely many, and those no page hears of are runs.
Sound(cs) ==
  /\ IsFiniteSet(cs)
  /\ \A c \in cs : c \in CallState /\ (~c.heard => c.kind = "run")

LEMMA CallsSound == IInv => Sound(calls)
BY DEF IInv, TypeOK, CallsInv, Sound

\* A new call of u, sent and heard of.
LEMMA Fresh ==
  ASSUME NEW cs, Sound(cs), NEW u \in User, NEW kind \in {"load", "change", "run"},
         NEW t, NEW d, d = NewCall(u, kind, t, cs)
  PROVE  /\ d \in CallState /\ d.kind = kind /\ d.by = u /\ d.heard /\ d.at = "sent" /\ ~d.old
         /\ Sound(cs \cup {d})
<1>1. FreeNumber(cs) \in Nat
  BY NumberIsFree DEF Sound
<1>2. d \in CallState /\ d.kind = kind /\ d.by = u /\ d.heard /\ d.at = "sent" /\ ~d.old
  BY <1>1 DEF NewCall, CallState
<1>3. IsFiniteSet(cs \cup {d})
  BY FS_AddElement DEF Sound
<1> QED BY <1>2, <1>3 DEF Sound

\* A call that got old is the same call.
LEMMA AgedCalls ==
  ASSUME NEW cs, Sound(cs), NEW u
  PROVE  /\ Sound(Aged(u, cs))
         /\ \A v : RunsOf(Aged(u, cs), v) <=> RunsOf(cs, v)
         /\ \A v : Asks(Aged(u, cs), v) <=> Asks(cs, v)
         /\ \A c : c.by # u => (c \in Aged(u, cs) <=> c \in cs)
<1> DEFINE f == [c \in cs |-> IF c.by = u /\ c.at = "served" THEN [c EXCEPT !.old = TRUE] ELSE c]
           aged == {f[c] : c \in cs}
<1>1. Aged(u, cs) = aged
  BY DEF Aged
<1>2. \A c \in cs : /\ f[c] \in CallState /\ f[c].kind = c.kind /\ f[c].by = c.by
                    /\ f[c].heard = c.heard /\ f[c].at = c.at
                    /\ c.by # u => f[c] = c
  <2> SUFFICES ASSUME NEW c \in cs
               PROVE  /\ f[c] \in CallState /\ f[c].kind = c.kind /\ f[c].by = c.by
                      /\ f[c].heard = c.heard /\ f[c].at = c.at
                      /\ c.by # u => f[c] = c
    OBVIOUS
  <2>1. c \in CallState
    BY DEF Sound
  <2> QED BY <2>1 DEF CallState
<1>3. f \in Surjection(cs, aged) /\ IsFiniteSet(cs)
  BY DEF Surjection, Sound
<1> HIDE DEF f
<1>4. IsFiniteSet(aged)
  BY <1>3, FS_Surjection
<1>5. Sound(aged)
  BY <1>2, <1>4 DEF Sound
<1>6. \A v : RunsOf(aged, v) <=> RunsOf(cs, v)
  BY <1>2 DEF RunsOf
<1>7. \A v : Asks(aged, v) <=> Asks(cs, v)
  BY <1>2 DEF Asks
<1>8. \A c : c.by # u => (c \in aged <=> c \in cs)
  BY <1>2
<1> QED BY <1>1, <1>5, <1>6, <1>7, <1>8

-----------------------------------------------------------------------------
\* A load of u leaves one load of u, new, or loads that overlap; those of the
\* other users are not concerned.
LEMMA Loading ==
  ASSUME IInv, NEW u \in User, NEW others, Sound(others), Load(u, others),
         \A c : c.by # u => (c \in others <=> c \in calls),
         outdated' \subseteq outdated \cup {u}
  PROVE  /\ Sound(calls') /\ ListInv' /\ crossed' \subseteq User
         /\ \A v : RunsOf(calls', v) <=> RunsOf(others, v)
         /\ \A v : Asks(calls', v) <=> Asks(others, v)
<1> DEFINE d == NewCall(u, "load", None, others)
<1>1. /\ calls' = others \cup {d}
      /\ crossed' = IF \E c \in others : c.by = u /\ c.kind = "load"
                    THEN crossed \cup {u} ELSE crossed \ {u}
  BY DEF Load
<1>2. d \in CallState /\ d.kind = "load" /\ d.by = u /\ ~d.old /\ Sound(others \cup {d})
  BY Fresh
<1> HIDE DEF d
<1>3. \A v \in User : v # u => LoadsOf(calls', v) = LoadsOf(calls, v) /\ (v \in crossed' <=> v \in crossed)
  BY <1>1, <1>2 DEF LoadsOf
<1>4. u \notin crossed' => LoadsOf(calls', u) = {d}
  BY <1>1, <1>2 DEF LoadsOf
<1>5. crossed' \subseteq User
  BY <1>1 DEF IInv, TypeOK
<1>6. OneLoad'
  <2> SUFFICES ASSUME NEW v \in User \ crossed', NEW c \in LoadsOf(calls', v), NEW e \in LoadsOf(calls', v)
               PROVE  c = e
    BY DEF OneLoad
  <2>1. CASE v = u
    BY <1>4, <2>1
  <2>2. CASE v # u
    BY <1>3, <2>2 DEF IInv, ListInv, OneLoad
  <2> QED BY <2>1, <2>2
<1>7. LoadsAreNew'
  <2> SUFFICES ASSUME NEW v \in User \ crossed', NEW c \in LoadsOf(calls', v) PROVE ~c.old
    BY DEF LoadsAreNew
  <2>1. CASE v = u
    BY <1>2, <1>4, <2>1
  <2>2. CASE v # u
    BY <1>3, <2>2 DEF IInv, ListInv, LoadsAreNew
  <2> QED BY <2>1, <2>2
<1>8. Reloading'
  <2> SUFFICES ASSUME NEW v \in User \ crossed', v \in outdated' PROVE LoadsOf(calls', v) # {}
    BY DEF Reloading
  <2>1. CASE v = u
    BY <1>4, <2>1
  <2>2. CASE v # u
    BY <1>3, <2>2 DEF IInv, ListInv, Reloading
  <2> QED BY <2>1, <2>2
<1>9. /\ \A v : RunsOf(calls', v) <=> RunsOf(others, v)
      /\ \A v : Asks(calls', v) <=> Asks(others, v)
  BY <1>1, <1>2 DEF RunsOf, Asks
<1> QED BY <1>1, <1>2, <1>5, <1>6, <1>7, <1>8, <1>9 DEF ListInv

\* With the loads as they were the lists are as they were.
LEMMA SameLists ==
  ASSUME IInv, UNCHANGED lists, \A v \in User : LoadsOf(calls', v) = LoadsOf(calls, v)
  PROVE  ListInv'
<1>1. outdated' = outdated /\ crossed' = crossed
  BY DEF lists
<1>2. OneLoad'
  BY <1>1 DEF IInv, ListInv, OneLoad
<1>3. LoadsAreNew'
  BY <1>1 DEF IInv, ListInv, LoadsAreNew
<1>4. Reloading'
  BY <1>1 DEF IInv, ListInv, Reloading
<1> QED BY <1>2, <1>3, <1>4 DEF ListInv

\* With the runs as they were, or known of better, the pages wait as they did.
LEMMA SameRuns ==
  ASSUME IInv, UNCHANGED <<running, queue>>,
         adrift \subseteq adrift', missed \subseteq missed',
         \A v \in User \ adrift' : RunsOf(calls', v) => RunsOf(calls, v),
         \A v \in User \ missed' : Asks(calls, v) => Asks(calls', v),
         \A v \in User \ missed' : News(v) => News(v)'
  PROVE  RunInv'
<1>1. RunsKnown'
  BY DEF IInv, RunInv, RunsKnown
<1>2. NewsOnItsWay'
  BY DEF IInv, RunInv, NewsOnItsWay
<1> QED BY <1>1, <1>2 DEF RunInv

LEMMA SameNews == ASSUME UNCHANGED events PROVE \A v : News(v)' <=> News(v)
BY DEF News

\* The types, but for those of the calls and the bounds.
PageOK ==
  /\ running \in [User -> BOOLEAN]
  /\ runningId \in [User -> Target \cup {None}]
  /\ lastResult \in [User -> Run \cup {None}]
  /\ MarkedWhileRunning
LineOK ==
  /\ socket \in [User -> {"none", "connecting", "up", "retrying"}]
  /\ \A e \in events : e.to \in User /\ e.run \in Run
  /\ queue \in Seq(Run)
BoundOK == acts \in 0..MaxActs /\ faults \in 0..MaxFaults
PastOK == outdated \subseteq User /\ crossed \subseteq User /\ adrift \subseteq User /\ missed \subseteq User

LEMMA Parts == IInv <=> PageOK /\ LineOK /\ BoundOK /\ PastOK /\ Sound(calls) /\ RunInv /\ ListInv
BY DEF IInv, TypeOK, CallsInv, Sound, PageOK, LineOK, BoundOK, PastOK

LEMMA PartsNext ==
  IInv' <=> PageOK' /\ LineOK' /\ BoundOK' /\ PastOK' /\ Sound(calls') /\ RunInv' /\ ListInv'
BY DEF IInv, TypeOK, CallsInv, Sound, PageOK, LineOK, BoundOK, PastOK

LEMMA SamePage == ASSUME IInv, UNCHANGED facades, adrift \subseteq adrift' PROVE PageOK'
BY Parts DEF PageOK, MarkedWhileRunning, facades

LEMMA SameLine == ASSUME IInv, UNCHANGED <<socket, events, queue>> PROVE LineOK'
BY Parts DEF LineOK

LEMMA Bounded ==
  ASSUME IInv, Act \/ Fault \/ UNCHANGED <<acts, faults>>
  PROVE  BoundOK'
BY Parts, PanelAssumption DEF BoundOK, Act, Fault

LEMMA InitIInv == Init => IInv
<1> SUFFICES ASSUME Init PROVE IInv
  OBVIOUS
<1>1. PageOK /\ LineOK /\ PastOK
  BY DEF Init, PageOK, MarkedWhileRunning, LineOK, PastOK
<1>2. BoundOK
  BY PanelAssumption DEF Init, BoundOK
<1>3. Sound(calls)
  BY FS_EmptySet DEF Init, Sound
<1>4. RunInv /\ ListInv
  BY DEF Init, RunInv, RunsKnown, NewsOnItsWay, ListInv, OneLoad, LoadsAreNew, Reloading,
         RunsOf, Queued, LoadsOf
<1> QED BY <1>1, <1>2, <1>3, <1>4, Parts

-----------------------------------------------------------------------------
\* The page opened, a run asked for, a change made.
LEMMA OpenIInv == ASSUME IInv, NEW u \in User, Open(u) PROVE IInv'
<1>1. /\ Act /\ Load(u, calls)
      /\ UNCHANGED <<facades, outdated, socket, events, queue, adrift, missed>>
  BY DEF Open
<1>2. Sound(calls)
  BY CallsSound
<1>3. /\ Sound(calls') /\ ListInv' /\ crossed' \subseteq User
      /\ \A v : RunsOf(calls', v) <=> RunsOf(calls, v)
      /\ \A v : Asks(calls', v) <=> Asks(calls, v)
  BY <1>1, <1>2, Loading
<1>4. RunInv'
  BY <1>1, <1>3, SameRuns, SameNews DEF facades
<1>5. PastOK'
  BY <1>1, <1>3, Parts DEF PastOK
<1> QED BY <1>1, <1>3, <1>4, <1>5, SamePage, SameLine, Bounded, PartsNext

LEMMA AskRunIInv ==
  ASSUME IInv, NEW u \in User, NEW t \in Target \cup {None}, AskRun(u, t) PROVE IInv'
<1> DEFINE d == NewCall(u, "run", t, calls)
<1>1. /\ Act
      /\ running' = [running EXCEPT ![u] = TRUE]
      /\ runningId' = [runningId EXCEPT ![u] = t]
      /\ lastResult' = [lastResult EXCEPT ![u] = None]
      /\ calls' = calls \cup {d}
      /\ adrift' = IF Outstanding(u) THEN adrift ELSE adrift \ {u}
      /\ missed' = missed \ {u}
      /\ UNCHANGED <<lists, socket, events, queue>>
  BY DEF AskRun
<1>2. d \in CallState /\ d.kind = "run" /\ d.by = u /\ d.heard /\ d.at = "sent" /\ Sound(calls \cup {d})
  BY CallsSound, Fresh
<1> HIDE DEF d
<1>3. PageOK'
  BY <1>1, Parts DEF PageOK, MarkedWhileRunning
<1>4. PastOK'
  BY <1>1, Parts DEF PastOK, lists
<1>5. running \in [User -> BOOLEAN] /\ running'[u] /\ \A v \in User : v # u => running'[v] = running[v]
  BY <1>1, Parts DEF PageOK
<1>6. RunsKnown'
  <2> SUFFICES ASSUME NEW v \in User \ adrift', RunsOf(calls', v) \/ Queued(queue, v)
               PROVE  running'[v]
    BY <1>1 DEF RunsKnown
  <2>1. v # u => v \notin adrift /\ (RunsOf(calls', v) => RunsOf(calls, v))
    BY <1>1, <1>2 DEF RunsOf
  <2> QED BY <1>5, <2>1 DEF IInv, RunInv, RunsKnown
<1>7. NewsOnItsWay'
  <2> SUFFICES ASSUME NEW v \in User \ missed', running'[v]
               PROVE  Asks(calls', v) \/ Queued(queue, v) \/ News(v)
    BY <1>1, SameNews DEF NewsOnItsWay
  <2>1. CASE v = u
    BY <1>1, <1>2, <2>1 DEF Asks
  <2>2. CASE v # u
    <3>1. Asks(calls, v) => Asks(calls', v)
      BY <1>1 DEF Asks
    <3> QED BY <1>1, <1>5, <2>2, <3>1 DEF IInv, RunInv, NewsOnItsWay
  <2> QED BY <2>1, <2>2
<1>8. ListInv'
  BY <1>1, <1>2, SameLists DEF LoadsOf
<1> QED BY <1>1, <1>2, <1>3, <1>4, <1>6, <1>7, <1>8, SameLine, Bounded, PartsNext DEF RunInv

LEMMA ChangeIInv == ASSUME IInv, NEW u \in User, Change(u) PROVE IInv'
<1> DEFINE d == NewCall(u, "change", None, calls)
<1>1. /\ Act /\ calls' = calls \cup {d}
      /\ UNCHANGED <<facades, lists, socket, events, queue, adrift, missed>>
  BY DEF Change
<1>2. d.kind = "change" /\ Sound(calls \cup {d})
  BY CallsSound, Fresh
<1> HIDE DEF d
<1>3. \A v : (RunsOf(calls', v) <=> RunsOf(calls, v)) /\ (Asks(calls', v) <=> Asks(calls, v))
  BY <1>1, <1>2 DEF RunsOf, Asks
<1>4. RunInv'
  BY <1>1, <1>3, SameRuns, SameNews DEF facades
<1>5. ListInv'
  BY <1>1, <1>2, SameLists DEF LoadsOf
<1>6. PastOK'
  BY <1>1, Parts DEF PastOK, lists
<1> QED BY <1>1, <1>2, <1>4, <1>5, <1>6, SamePage, SameLine, Bounded, PartsNext

-----------------------------------------------------------------------------
\* The end of a run is told, to a page that waits for one or to one that does not.
LEMMA CompletedIInv == ASSUME IInv, NEW e \in events, Completed(e) PROVE IInv'
<1> DEFINE u == e.to
<1>1. /\ events' = events \ {e}
      /\ UNCHANGED <<socket, queue, acts, faults, missed>>
  BY DEF Completed
<1>2. u \in User /\ e.run \in Run
  BY Parts DEF LineOK
<1>3. LineOK' /\ BoundOK'
  BY <1>1, Parts, Bounded DEF LineOK
<1>4. \A v : v # u => (News(v)' <=> News(v))
  BY <1>1 DEF News
<1>5. CASE running[u]
  <2>1. /\ running' = [running EXCEPT ![u] = FALSE]
        /\ runningId' = [runningId EXCEPT ![u] = None]
        /\ lastResult' = [lastResult EXCEPT ![u] = e.run]
        /\ Load(u, Aged(u, calls))
        /\ outdated' = outdated \cup {u}
        /\ adrift' = IF Outstanding(u) THEN adrift \cup {u} ELSE adrift
    BY <1>5 DEF Completed
  <2> DEFINE aged == Aged(u, calls)
  <2>2. /\ Sound(aged)
        /\ \A v : RunsOf(aged, v) <=> RunsOf(calls, v)
        /\ \A v : Asks(aged, v) <=> Asks(calls, v)
        /\ \A c : c.by # u => (c \in aged <=> c \in calls)
    BY CallsSound, AgedCalls
  <2> HIDE DEF aged
  <2>3. Load(u, aged)
    BY <2>1 DEF aged
  <2>4. /\ Sound(calls') /\ ListInv' /\ crossed' \subseteq User
        /\ \A v : RunsOf(calls', v) <=> RunsOf(aged, v)
        /\ \A v : Asks(calls', v) <=> Asks(aged, v)
    BY <1>2, <2>1, <2>2, <2>3, Loading
  <2> HIDE DEF u
  <2>5. /\ running \in [User -> BOOLEAN] /\ ~running'[u]
        /\ \A v \in User : v # u => running'[v] = running[v]
    BY <1>2, <2>1, Parts DEF PageOK
  <2>6. RunsKnown'
    <3> SUFFICES ASSUME NEW v \in User \ adrift', RunsOf(calls', v) \/ Queued(queue, v)
                 PROVE  running'[v]
      BY <1>1 DEF RunsKnown
    <3>1. RunsOf(calls, v) \/ Queued(queue, v)
      BY <2>2, <2>4
    <3>2. v # u /\ v \notin adrift
      BY <2>1, <3>1, OutstandingIs
    <3> QED BY <2>5, <3>1, <3>2 DEF IInv, RunInv, RunsKnown
  <2>7. NewsOnItsWay'
    <3> SUFFICES ASSUME NEW v \in User \ missed', running'[v]
                 PROVE  Asks(calls', v) \/ Queued(queue, v) \/ News(v)'
      BY <1>1 DEF NewsOnItsWay
    <3>1. v # u /\ running[v]
      BY <2>5
    <3> QED BY <1>1, <1>4, <2>2, <2>4, <3>1 DEF IInv, RunInv, NewsOnItsWay
  <2>8. PageOK'
    BY <1>2, <2>1, Parts DEF PageOK, MarkedWhileRunning
  <2>9. PastOK'
    BY <1>1, <1>2, <2>1, <2>4, Parts DEF PastOK
  <2> QED BY <1>3, <2>4, <2>6, <2>7, <2>8, <2>9, PartsNext DEF RunInv
<1>6. CASE ~running[u]
  <2>1. UNCHANGED <<facades, lists, calls, adrift>>
    BY <1>6 DEF Completed
  <2>2. PageOK' /\ PastOK' /\ Sound(calls')
    BY <1>1, <2>1, SamePage, CallsSound, Parts DEF PastOK, lists
  <2>3. ListInv'
    BY <2>1, SameLists
  <2>4. RunsKnown'
    BY <1>1, <2>1 DEF IInv, RunInv, RunsKnown, facades
  <2> HIDE DEF u
  <2>5. NewsOnItsWay'
    <3> SUFFICES ASSUME NEW v \in User \ missed, running[v]
                 PROVE  Asks(calls, v) \/ Queued(queue, v) \/ News(v)'
      BY <1>1, <2>1 DEF NewsOnItsWay, facades
    <3> QED BY <1>4, <1>6 DEF IInv, RunInv, NewsOnItsWay
  <2> QED BY <1>3, <2>2, <2>3, <2>4, <2>5, PartsNext DEF RunInv
<1> QED BY <1>5, <1>6

\* A call that is over and left nothing else to do.
LEMMA Over ==
  ASSUME NEW cs, Sound(cs), NEW c \in cs
  PROVE  /\ Sound(cs \ {c}) /\ c.by \in User
         /\ \A v : RunsOf(cs \ {c}, v) => RunsOf(cs, v)
         /\ \A v : c.kind # "run" \/ c.at = "served" \/ c.by # v => (Asks(cs, v) => Asks(cs \ {c}, v))
         /\ \A v : c.kind # "load" \/ c.by # v => LoadsOf(cs \ {c}, v) = LoadsOf(cs, v)
<1>1. Sound(cs \ {c}) /\ c.by \in User
  BY FS_RemoveElement DEF Sound, CallState
<1>2. \A v : RunsOf(cs \ {c}, v) => RunsOf(cs, v)
  BY DEF RunsOf
<1>3. \A v : c.kind # "run" \/ c.at = "served" \/ c.by # v => (Asks(cs, v) => Asks(cs \ {c}, v))
  BY DEF Asks
<1>4. \A v : c.kind # "load" \/ c.by # v => LoadsOf(cs \ {c}, v) = LoadsOf(cs, v)
  BY DEF LoadsOf
<1> QED BY <1>1, <1>2, <1>3, <1>4

LEMMA AnsweredIInv == ASSUME IInv, NEW c \in calls, Answered(c) PROVE IInv'
<1> DEFINE rest == calls \ {c}
           u == c.by
<1>1. /\ c.at # "sent" /\ UNCHANGED <<socket, events, queue, acts, faults, missed>>
  BY DEF Answered
<1>2. /\ Sound(rest) /\ u \in User
      /\ \A v : RunsOf(rest, v) => RunsOf(calls, v)
      /\ \A v : c.kind # "run" \/ c.at = "served" \/ u # v => (Asks(calls, v) => Asks(rest, v))
      /\ \A v : c.kind # "load" \/ u # v => LoadsOf(rest, v) = LoadsOf(calls, v)
  BY CallsSound, Over
<1>3. LineOK' /\ BoundOK' /\ \A v : News(v)' <=> News(v)
  BY <1>1, SameLine, Bounded, SameNews
<1>4. CASE /\ (c.kind = "run" /\ c.at = "served") \/ (c.kind = "change" /\ c.at = "refused")
           /\ calls' = rest
           /\ UNCHANGED <<facades, lists, adrift>>
  <2>1. PageOK' /\ PastOK'
    BY <1>1, <1>4, SamePage, Parts DEF PastOK, lists
  <2>2. RunInv'
    BY <1>1, <1>2, <1>3, <1>4, SameRuns DEF facades
  <2>3. ListInv'
    BY <1>2, <1>4, SameLists
  <2> QED BY <1>2, <1>3, <1>4, <2>1, <2>2, <2>3, PartsNext
<1>5. CASE /\ c.kind = "load" /\ c.at = "served"
           /\ calls' = rest
           /\ outdated' = IF c.old THEN outdated \cup {u} ELSE outdated \ {u}
           /\ UNCHANGED <<facades, crossed, adrift>>
  <2>1. PageOK' /\ PastOK'
    BY <1>1, <1>2, <1>5, SamePage, Parts DEF PastOK
  <2>2. RunInv'
    BY <1>1, <1>2, <1>3, <1>5, SameRuns DEF facades
  <2>3. c \in LoadsOf(calls, u)
    BY <1>5 DEF LoadsOf
  <2>4. \A v : LoadsOf(rest, v) \subseteq LoadsOf(calls, v)
    BY DEF LoadsOf
  <2>5. u \notin crossed => ~c.old
    BY <1>2, <2>3 DEF IInv, ListInv, LoadsAreNew
  <2>6. \A v : v # u => LoadsOf(rest, v) = LoadsOf(calls, v)
    BY <1>2
  <2> HIDE DEF rest, u
  <2>7. OneLoad' /\ LoadsAreNew'
    BY <1>5, <2>4 DEF IInv, ListInv, OneLoad, LoadsAreNew
  <2>8. Reloading'
    BY <1>5, <2>5, <2>6 DEF IInv, ListInv, Reloading
  <2> QED BY <1>2, <1>3, <1>5, <2>1, <2>2, <2>7, <2>8, PartsNext DEF ListInv
<1>6. CASE /\ c.kind = "load" /\ c.at = "refused"
           /\ calls' = rest
           /\ crossed' = crossed \cup {u}
           /\ UNCHANGED <<facades, outdated, adrift>>
  <2>1. PageOK' /\ PastOK'
    BY <1>1, <1>2, <1>6, SamePage, Parts DEF PastOK
  <2>2. RunInv'
    BY <1>1, <1>2, <1>3, <1>6, SameRuns DEF facades
  <2>3. \A v : v # u => LoadsOf(rest, v) = LoadsOf(calls, v)
    BY <1>2
  <2> HIDE DEF rest, u
  <2>4. OneLoad' /\ LoadsAreNew' /\ Reloading'
    BY <1>6, <2>3 DEF IInv, ListInv, OneLoad, LoadsAreNew, Reloading
  <2> QED BY <1>2, <1>3, <1>6, <2>1, <2>2, <2>4, PartsNext DEF ListInv
<1>7. CASE /\ c.kind = "change" /\ c.at = "served"
           /\ Load(u, Aged(u, rest))
           /\ outdated' = outdated \cup {u}
           /\ UNCHANGED <<facades, adrift>>
  <2> DEFINE aged == Aged(u, rest)
  <2>1. /\ Sound(aged)
        /\ \A v : RunsOf(aged, v) <=> RunsOf(rest, v)
        /\ \A v : Asks(aged, v) <=> Asks(rest, v)
        /\ \A d : d.by # u => (d \in aged <=> d \in rest)
    BY <1>2, AgedCalls
  <2>2. \A d : d.by # u => (d \in aged <=> d \in calls)
    BY <2>1
  <2>3. Load(u, aged)
    BY <1>7
  <2> HIDE DEF aged
  <2>4. /\ Sound(calls') /\ ListInv' /\ crossed' \subseteq User
        /\ \A v : RunsOf(calls', v) <=> RunsOf(aged, v)
        /\ \A v : Asks(calls', v) <=> Asks(aged, v)
    BY <1>2, <1>7, <2>1, <2>2, <2>3, Loading
  <2>5. RunInv'
    BY <1>1, <1>2, <1>3, <1>7, <2>1, <2>4, SameRuns DEF facades
  <2>6. PageOK' /\ PastOK'
    BY <1>1, <1>2, <1>7, <2>4, SamePage, Parts DEF PastOK
  <2> QED BY <1>3, <2>4, <2>5, <2>6, PartsNext
<1>8. CASE /\ c.kind = "run" /\ c.at = "refused"
           /\ calls' = rest
           /\ running' = [running EXCEPT ![u] = FALSE]
           /\ runningId' = IF c.all THEN runningId ELSE [runningId EXCEPT ![u] = None]
           /\ adrift' = adrift \cup {u}
           /\ UNCHANGED <<lists, lastResult>>
  <2>1. PageOK' /\ PastOK'
    BY <1>1, <1>2, <1>8, Parts DEF PageOK, MarkedWhileRunning, PastOK, lists
  <2>2. ListInv'
    BY <1>2, <1>8, SameLists
  <2> HIDE DEF rest, u
  <2>3. /\ running \in [User -> BOOLEAN] /\ ~running'[u]
        /\ \A v \in User : v # u => running'[v] = running[v]
    BY <1>2, <1>8, Parts DEF PageOK
  <2>4. RunsKnown'
    BY <1>1, <1>2, <1>8, <2>3 DEF IInv, RunInv, RunsKnown
  <2>5. NewsOnItsWay'
    BY <1>1, <1>2, <1>3, <1>8, <2>3 DEF IInv, RunInv, NewsOnItsWay
  <2> QED BY <1>2, <1>3, <1>8, <2>1, <2>2, <2>4, <2>5, PartsNext DEF RunInv
<1> QED BY <1>4, <1>5, <1>6, <1>7, <1>8 DEF Answered

\* The page starts anew; the calls it made are not heard of any more, and those
\* that were not served may still queue a run.
LEMMA ReloadIInv == ASSUME IInv, NEW u \in User, Reload(u) PROVE IInv'
<1> DEFINE sent == {d \in Of(u, "run") : d.at = "sent"}
           f == [c \in sent |-> [c EXCEPT !.heard = FALSE]]
           kept == {f[c] : c \in sent}
           others == {c \in calls : c.by # u} \cup kept
<1>1. /\ Fault
      /\ running' = [running EXCEPT ![u] = FALSE]
      /\ runningId' = [runningId EXCEPT ![u] = None]
      /\ lastResult' = [lastResult EXCEPT ![u] = None]
      /\ outdated' = outdated \cup {u}
      /\ socket' = [socket EXCEPT ![u] = "connecting"]
      /\ events' = {e \in events : e.to # u}
      /\ adrift' = IF Outstanding(u) THEN adrift \cup {u} ELSE adrift \ {u}
      /\ missed' = missed \ {u}
      /\ UNCHANGED queue
  BY DEF Reload
<1>2. Load(u, others)
  <2>1. kept = {[c EXCEPT !.heard = FALSE] : c \in sent}
    OBVIOUS
  <2> HIDE DEF kept
  <2> QED BY <2>1 DEF Reload
<1>3. \A c \in sent : c \in calls /\ c.by = u /\ c.kind = "run" /\ c \in CallState
  BY CallsSound DEF Of, Sound
<1>4. \A c \in sent : f[c] \in CallState /\ f[c].kind = "run" /\ f[c].by = u
  <2> HIDE DEF sent
  <2> SUFFICES ASSUME NEW c \in sent PROVE f[c] \in CallState /\ f[c].kind = "run" /\ f[c].by = u
    OBVIOUS
  <2>1. f[c] = [c EXCEPT !.heard = FALSE] /\ c \in CallState /\ c.kind = "run" /\ c.by = u
    BY <1>3
  <2> HIDE DEF f
  <2> QED BY <2>1 DEF CallState
<1>5. IsFiniteSet(kept)
  <2>1. IsFiniteSet(sent)
    BY CallsSound, FS_Subset, <1>3 DEF Sound
  <2>2. f \in Surjection(sent, kept)
    BY DEF Surjection
  <2> HIDE DEF f
  <2> QED BY <2>1, <2>2, FS_Surjection
<1>6. \A c \in kept : c \in CallState /\ c.kind = "run" /\ c.by = u
  BY <1>4
<1>7. RunsOf(kept, u) => RunsOf(calls, u)
  BY <1>3 DEF RunsOf
<1> HIDE DEF kept
<1>8. Sound(others)
  <2>1. IsFiniteSet({c \in calls : c.by # u})
    BY CallsSound, FS_Subset DEF Sound
  <2>2. IsFiniteSet(others)
    BY <1>5, <2>1, FS_Union
  <2> QED BY <1>6, <2>2, CallsSound DEF Sound
<1>9. \A c : c.by # u => (c \in others <=> c \in calls)
  BY <1>6
<1>10. /\ RunsOf(others, u) => RunsOf(calls, u)
       /\ \A v : v # u => (RunsOf(others, v) <=> RunsOf(calls, v)) /\ (Asks(others, v) <=> Asks(calls, v))
  BY <1>6, <1>7, <1>9 DEF RunsOf, Asks
<1> HIDE DEF others
<1>11. /\ Sound(calls') /\ ListInv' /\ crossed' \subseteq User
       /\ \A v : RunsOf(calls', v) <=> RunsOf(others, v)
       /\ \A v : Asks(calls', v) <=> Asks(others, v)
  BY <1>1, <1>2, <1>8, <1>9, Loading
<1>12. /\ running \in [User -> BOOLEAN] /\ ~running'[u]
       /\ \A v \in User : v # u => running'[v] = running[v]
  BY <1>1, Parts DEF PageOK
<1>13. RunsKnown'
  <2> SUFFICES ASSUME NEW v \in User \ adrift', RunsOf(calls', v) \/ Queued(queue, v)
               PROVE  running'[v]
    BY <1>1 DEF RunsKnown
  <2>1. RunsOf(calls, v) \/ Queued(queue, v)
    BY <1>10, <1>11
  <2>2. v # u /\ v \notin adrift
    BY <1>1, <2>1, OutstandingIs
  <2> QED BY <1>12, <2>1, <2>2 DEF IInv, RunInv, RunsKnown
<1>14. NewsOnItsWay'
  <2> SUFFICES ASSUME NEW v \in User \ missed', running'[v]
               PROVE  Asks(calls', v) \/ Queued(queue, v) \/ News(v)'
    BY <1>1 DEF NewsOnItsWay
  <2>1. v # u /\ running[v] /\ v \notin missed
    BY <1>1, <1>12
  <2>2. News(v) => News(v)'
    BY <1>1, <2>1 DEF News
  <2> QED BY <1>10, <1>11, <2>1, <2>2 DEF IInv, RunInv, NewsOnItsWay
<1>15. PageOK' /\ LineOK' /\ PastOK'
  BY <1>1, <1>11, Parts DEF PageOK, MarkedWhileRunning, LineOK, PastOK
<1> QED BY <1>1, <1>11, <1>13, <1>14, <1>15, Bounded, PartsNext DEF RunInv

-----------------------------------------------------------------------------
\* The connection comes and goes; news that is lost is remembered as missed.
LEMMA ConnectionIInv ==
  ASSUME IInv, NEW u \in User, Connected(u) \/ ConnectError(u) PROVE IInv'
<1>1. /\ socket' \in {[socket EXCEPT ![u] = "up"], [socket EXCEPT ![u] = "none"]}
      /\ UNCHANGED <<facades, lists, calls, events, queue, adrift, missed>>
      /\ Fault \/ UNCHANGED <<acts, faults>>
  BY DEF Connected, ConnectError
<1>2. LineOK' /\ PastOK' /\ Sound(calls')
  BY <1>1, Parts DEF LineOK, PastOK, lists
<1>3. RunInv'
  BY <1>1, SameRuns, SameNews DEF facades
<1>4. ListInv'
  BY <1>1, SameLists
<1> QED BY <1>1, <1>2, <1>3, <1>4, SamePage, Bounded, PartsNext

LEMMA Dropped ==
  ASSUME IInv, NEW us \in SUBSET User, Drop(us), UNCHANGED <<facades, lists, calls, adrift>>,
         queue' = queue \/ (queue' = <<>> /\ \A v \in User : Queued(queue, v) => v \in missed'),
         missed' \subseteq User, missed \subseteq missed',
         \A e \in events \ events' : e.to \in missed'
  PROVE  PageOK' /\ LineOK' /\ PastOK' /\ Sound(calls') /\ RunInv' /\ ListInv'
<1>1. /\ socket' = [v \in User |-> IF v \in us /\ socket[v] = "up" THEN "retrying" ELSE socket[v]]
      /\ events' = {e \in events : e.to \notin us}
  BY DEF Drop
<1>2. /\ socket' \in [User -> {"none", "connecting", "up", "retrying"}]
      /\ \A e \in events' : e.to \in User /\ e.run \in Run
      /\ queue' \in Seq(Run)
  <2>1. /\ socket \in [User -> {"none", "connecting", "up", "retrying"}]
        /\ \A e \in events : e.to \in User /\ e.run \in Run
        /\ queue \in Seq(Run)
    BY Parts DEF LineOK
  <2>2. socket' \in [User -> {"none", "connecting", "up", "retrying"}]
    BY <1>1, <2>1
  <2>3. queue' \in Seq(Run)
    <3>1. <<>> \in Seq(Run)
      OBVIOUS
    <3>2. queue' = queue \/ queue' = <<>>
      OBVIOUS
    <3> QED BY <2>1, <3>1, <3>2
  <2> QED BY <1>1, <2>1, <2>2, <2>3
<1>3. LineOK' /\ PastOK' /\ Sound(calls')
  BY <1>2, Parts DEF LineOK, PastOK, lists
<1>4. \A v : Queued(queue', v) => Queued(queue, v)
  BY DEF Queued
<1>5. RunsKnown'
  BY <1>4 DEF IInv, RunInv, RunsKnown, facades
<1>6. NewsOnItsWay'
  <2> SUFFICES ASSUME NEW v \in User \ missed', running[v]
               PROVE  Asks(calls, v) \/ Queued(queue', v) \/ News(v)'
    BY DEF NewsOnItsWay, facades
  <2>1. v \notin missed /\ (Queued(queue, v) => Queued(queue', v)) /\ (News(v) => News(v)')
    BY DEF News
  <2> QED BY <2>1 DEF IInv, RunInv, NewsOnItsWay
<1>7. ListInv'
  BY SameLists
<1> QED BY <1>3, <1>5, <1>6, <1>7, SamePage DEF RunInv

LEMMA UnplugIInv == ASSUME IInv, NEW u \in User, Unplug(u) PROVE IInv'
<1>1. /\ Fault /\ Drop({u})
      /\ missed' = missed \cup {e.to : e \in events \ events'}
      /\ UNCHANGED <<facades, lists, calls, queue, adrift>>
  BY DEF Unplug
<1>2. missed' \subseteq User /\ \A e \in events \ events' : e.to \in missed'
  BY <1>1, Parts DEF LineOK, PastOK
<1>3. {u} \in SUBSET User /\ missed \subseteq missed' /\ queue' = queue
  BY <1>1
<1>4. PageOK' /\ LineOK' /\ PastOK' /\ Sound(calls') /\ RunInv' /\ ListInv'
  BY <1>1, <1>2, <1>3, Dropped
<1> QED BY <1>1, <1>4, Bounded, PartsNext

LEMMA SignAgainIInv == ASSUME IInv, NEW u \in User, SignAgain(u) PROVE IInv'
<1>1. /\ Fault /\ socket' = [socket EXCEPT ![u] = "connecting"]
      /\ events' = {e \in events : e.to # u}
      /\ missed' = missed \cup {e.to : e \in events \ events'}
      /\ UNCHANGED <<facades, lists, calls, queue, adrift>>
  BY DEF SignAgain
<1>2. LineOK' /\ PastOK' /\ Sound(calls')
  BY <1>1, Parts DEF LineOK, PastOK, lists
<1>3. \A v \in User \ missed' : News(v) => News(v)'
  BY <1>1 DEF News
<1>4. RunInv'
  BY <1>1, <1>3, SameRuns DEF facades
<1>5. ListInv'
  BY <1>1, SameLists
<1> QED BY <1>1, <1>2, <1>4, <1>5, SamePage, Bounded, PartsNext

LEMMA RestartIInv == ASSUME IInv, Restart PROVE IInv'
<1>1. /\ Fault /\ queue' = <<>> /\ Drop(User)
      /\ missed' = missed \cup ({queue[i].by : i \in DOMAIN queue} \ {None}) \cup {e.to : e \in events}
      /\ UNCHANGED <<facades, lists, calls, adrift>>
  BY DEF Restart
<1>2. \A i \in DOMAIN queue : queue[i].by \in User \cup {None}
  <2>1. \A i \in DOMAIN queue : queue[i] \in Run
    BY Parts DEF LineOK
  <2> QED BY <2>1 DEF Run
<1>3. missed' \subseteq User /\ missed \subseteq missed' /\ \A e \in events \ events' : e.to \in missed'
  BY <1>1, <1>2, Parts DEF LineOK, PastOK
<1>4. \A v \in User : Queued(queue, v) => v \in missed'
  BY <1>1, PanelAssumption DEF Queued
<1>5. User \in SUBSET User
  OBVIOUS
<1>6. PageOK' /\ LineOK' /\ PastOK' /\ Sound(calls') /\ RunInv' /\ ListInv'
  BY <1>1, <1>3, <1>4, <1>5, Dropped
<1> QED BY <1>1, <1>6, Bounded, PartsNext

-----------------------------------------------------------------------------
\* The API queues runs, serves calls and ends runs.
LEMMA ScheduleIInv == ASSUME IInv, Schedule PROVE IInv'
<1> DEFINE r == [by |-> None]
<1>1. /\ Act /\ queue' = Append(queue, r)
      /\ UNCHANGED <<facades, lists, calls, socket, events, adrift, missed>>
  BY DEF Schedule
<1>2. r \in Run /\ r.by = None /\ queue \in Seq(Run)
  BY Parts DEF Run, LineOK
<1> HIDE DEF r
<1>3. queue' \in Seq(Run) /\ \A v \in User : Queued(queue', v) <=> Queued(queue, v)
  BY <1>1, <1>2, QueuedLast, PanelAssumption
<1>4. LineOK' /\ PastOK' /\ Sound(calls') /\ \A v : News(v)' <=> News(v)
  BY <1>1, <1>3, Parts, SameNews DEF LineOK, PastOK, lists
<1>5. RunsKnown' /\ NewsOnItsWay'
  BY <1>1, <1>3, <1>4 DEF IInv, RunInv, RunsKnown, NewsOnItsWay, facades
<1>6. ListInv'
  BY <1>1, SameLists
<1> QED BY <1>1, <1>4, <1>5, <1>6, SamePage, Bounded, PartsNext DEF RunInv

LEMMA ServeIInv == ASSUME IInv, NEW c \in calls, Serve(c) PROVE IInv'
<1>1. PICK ok \in BOOLEAN :
        /\ calls' = (calls \ {c}) \cup
             (IF c.heard THEN {[c EXCEPT !.at = IF ok THEN "served" ELSE "refused"]} ELSE {})
        /\ \/ c.kind = "run" /\ queue' = Append(queue, [by |-> c.by])
           \/ (c.kind # "run" \/ ~ok) /\ queue' = queue
  BY DEF Serve
<1>2. /\ c.at = "sent"
      /\ UNCHANGED <<facades, lists, socket, events, acts, faults, adrift, missed>>
  BY DEF Serve
<1> DEFINE d == [c EXCEPT !.at = IF ok THEN "served" ELSE "refused"]
           r == [by |-> c.by]
<1>3. c \in CallState /\ (~c.heard => c.kind = "run") /\ c.by \in User
  BY CallsSound DEF Sound, CallState
<1>4. /\ d \in CallState /\ d.kind = c.kind /\ d.by = c.by /\ d.heard = c.heard /\ d.old = c.old
      /\ d.at = IF ok THEN "served" ELSE "refused"
  BY <1>3 DEF CallState
<1>5. r \in Run /\ r.by = c.by /\ queue \in Seq(Run)
  BY <1>3, Parts DEF Run, LineOK
<1>6. calls' = (calls \ {c}) \cup (IF c.heard THEN {d} ELSE {})
  BY <1>1
<1>7. \/ c.kind = "run" /\ queue' = Append(queue, r)
      \/ (c.kind # "run" \/ ~ok) /\ queue' = queue
  BY <1>1
<1> HIDE DEF d, r
<1>8. Sound(calls')
  <2>1. IsFiniteSet(calls')
    <3>1. IsFiniteSet(calls \ {c})
      BY CallsSound, FS_RemoveElement DEF Sound
    <3>2. IsFiniteSet((calls \ {c}) \cup {d})
      BY <3>1, FS_AddElement
    <3>3. calls' = (calls \ {c}) \cup {d} \/ calls' = calls \ {c}
      BY <1>6
    <3> QED BY <3>1, <3>2, <3>3
  <2> QED BY <1>3, <1>4, <1>6, <2>1, CallsSound DEF Sound
<1>9. /\ queue' \in Seq(Run)
      /\ \/ c.kind = "run" /\ \A v : Queued(queue', v) <=> Queued(queue, v) \/ v = c.by
         \/ (c.kind # "run" \/ ~ok) /\ queue' = queue
  <2>1. Append(queue, r) \in Seq(Run) /\ \A v : Queued(Append(queue, r), v) <=> Queued(queue, v) \/ r.by = v
    BY <1>5, QueuedLast
  <2>2. CASE c.kind = "run" /\ queue' = Append(queue, r)
    BY <1>5, <2>1, <2>2
  <2>3. CASE (c.kind # "run" \/ ~ok) /\ queue' = queue
    BY <1>5, <2>3
  <2> QED BY <1>7, <2>2, <2>3
<1>10. \A v : RunsOf(calls', v) => RunsOf(calls, v)
  BY <1>4, <1>6 DEF RunsOf
<1>11. c.kind = "run" => RunsOf(calls, c.by)
  BY DEF RunsOf
<1>12. RunsKnown'
  <2> SUFFICES ASSUME NEW v \in User \ adrift, RunsOf(calls', v) \/ Queued(queue', v)
               PROVE  running[v]
    BY <1>2 DEF RunsKnown, facades
  <2>1. RunsOf(calls, v) \/ Queued(queue, v)
    BY <1>9, <1>10, <1>11
  <2> QED BY <2>1 DEF IInv, RunInv, RunsKnown
<1>13. \A v : Asks(calls, v) => Asks(calls', v) \/ Queued(queue', v)
  <2> SUFFICES ASSUME NEW v, NEW e \in calls, e.by = v, e.kind = "run", e.heard, e.at # "served"
               PROVE  Asks(calls', v) \/ Queued(queue', v)
    BY DEF Asks
  <2>1. CASE e # c
    BY <1>6, <2>1 DEF Asks
  <2>2. CASE e = c /\ ok
    BY <1>9, <2>2
  <2>3. CASE e = c /\ ~ok
    <3>1. d \in calls' /\ d.by = v /\ d.kind = "run" /\ d.heard /\ d.at # "served"
      BY <1>4, <1>6, <2>3
    <3> QED BY <3>1 DEF Asks
  <2> QED BY <2>1, <2>2, <2>3
<1>14. NewsOnItsWay'
  <2> SUFFICES ASSUME NEW v \in User \ missed, running[v]
               PROVE  Asks(calls', v) \/ Queued(queue', v) \/ News(v)
    BY <1>2, SameNews DEF NewsOnItsWay, facades
  <2>1. Queued(queue, v) => Queued(queue', v)
    BY <1>9
  <2> QED BY <1>13, <2>1 DEF IInv, RunInv, NewsOnItsWay
<1>15. ListInv'
  <2>1. CASE c.kind = "run"
    <3>1. \A v : LoadsOf(calls', v) = LoadsOf(calls, v)
      BY <1>4, <1>6, <2>1 DEF LoadsOf
    <3> QED BY <1>2, <3>1, SameLists
  <2>2. CASE c.kind # "run"
    <3>1. calls' = (calls \ {c}) \cup {d} /\ outdated' = outdated /\ crossed' = crossed
      BY <1>2, <1>3, <1>6, <2>2 DEF lists
    <3>2. \A v : \A e \in LoadsOf(calls', v) :
            \/ e \in LoadsOf(calls, v) /\ e # c
            \/ e = d /\ c \in LoadsOf(calls, v)
      BY <1>4, <3>1 DEF LoadsOf
    <3>3. OneLoad'
      BY <3>1, <3>2 DEF IInv, ListInv, OneLoad
    <3>4. LoadsAreNew'
      BY <1>4, <3>1, <3>2 DEF IInv, ListInv, LoadsAreNew
    <3>5. \A v : LoadsOf(calls, v) # {} => LoadsOf(calls', v) # {}
      BY <1>4, <3>1 DEF LoadsOf
    <3>6. Reloading'
      BY <3>1, <3>5 DEF IInv, ListInv, Reloading
    <3> QED BY <3>3, <3>4, <3>6 DEF ListInv
  <2> QED BY <2>1, <2>2
<1>16. LineOK' /\ PastOK'
  BY <1>2, <1>9, Parts DEF LineOK, PastOK, lists
<1> QED BY <1>2, <1>8, <1>12, <1>14, <1>15, <1>16, SamePage, Bounded, PartsNext DEF RunInv

LEMMA RunEndsIInv == ASSUME IInv, RunEnds PROVE IInv'
<1> DEFINE h == Head(queue)
<1>1. /\ queue # <<>> /\ queue' = Tail(queue)
      /\ events' = events \cup {[n |-> FreeNumber(events), to |-> u, run |-> h] : u \in Told(h)}
      /\ missed' = missed \cup ({h.by} \ ({None} \cup Told(h)))
      /\ UNCHANGED <<facades, lists, calls, socket, acts, faults, adrift>>
  BY DEF RunEnds
<1>2. /\ queue' \in Seq(Run) /\ h \in Run
      /\ \A u : Queued(queue, u) <=> h.by = u \/ Queued(queue', u)
  BY <1>1, QueuedFirst, Parts DEF LineOK
<1>3. Told(h) \subseteq User /\ h.by \in User \cup {None}
  BY <1>2 DEF Told, Run
<1> HIDE DEF h
<1>4. LineOK' /\ PastOK' /\ Sound(calls')
  BY <1>1, <1>2, <1>3, Parts DEF LineOK, PastOK, lists
<1>5. RunsKnown'
  BY <1>1, <1>2 DEF IInv, RunInv, RunsKnown, facades
<1>6. NewsOnItsWay'
  <2> SUFFICES ASSUME NEW v \in User \ missed', running[v]
               PROVE  Asks(calls, v) \/ Queued(queue', v) \/ News(v)'
    BY <1>1 DEF NewsOnItsWay, facades
  <2>1. v \notin missed /\ v # None
    BY <1>1, PanelAssumption
  <2>2. News(v) => News(v)'
    BY <1>1 DEF News
  <2>3. h.by = v => News(v)'
    <3> SUFFICES ASSUME h.by = v PROVE News(v)'
      OBVIOUS
    <3>1. v \in Told(h)
      BY <1>1, <2>1
    <3>2. [n |-> FreeNumber(events), to |-> v, run |-> h] \in events'
      BY <1>1, <3>1
    <3> QED BY <3>2 DEF News
  <2> QED BY <1>2, <2>1, <2>2, <2>3 DEF IInv, RunInv, NewsOnItsWay
<1>7. ListInv'
  BY <1>1, SameLists
<1> QED BY <1>1, <1>4, <1>5, <1>6, <1>7, SamePage, Bounded, PartsNext DEF RunInv

LEMMA NextIInv == IInv /\ [Next]_vars => IInv'
<1> SUFFICES ASSUME IInv, [Next]_vars PROVE IInv'
  OBVIOUS
<1>1. CASE Page
  BY <1>1, OpenIInv, ChangeIInv, ReloadIInv, AskRunIInv DEF Page
<1>2. CASE Lines
  BY <1>2, ConnectionIInv, UnplugIInv, SignAgainIInv DEF Lines
<1>3. CASE Told1
  BY <1>3, CompletedIInv DEF Told1
<1>4. CASE Calls
  BY <1>4, ServeIInv, AnsweredIInv DEF Calls
<1>5. CASE Schedule \/ RunEnds \/ Restart
  BY <1>5, ScheduleIInv, RunEndsIInv, RestartIInv
<1>6. CASE UNCHANGED vars
  <2>1. UNCHANGED <<facades, lists, calls, socket, events, queue, acts, faults, adrift, missed>>
    BY <1>6 DEF vars
  <2>2. PageOK' /\ LineOK' /\ BoundOK' /\ PastOK' /\ Sound(calls')
    BY <2>1, SamePage, SameLine, Bounded, Parts DEF PastOK, lists
  <2>3. RunInv'
    BY <2>1, SameRuns, SameNews DEF facades
  <2>4. ListInv'
    BY <2>1, SameLists
  <2> QED BY <2>2, <2>3, <2>4, PartsNext
<1> QED BY <1>1, <1>2, <1>3, <1>4, <1>5, <1>6 DEF Next

LEMMA Inductive == Spec => []IInv
<1>1. IInv /\ [Next]_vars => IInv'
  BY NextIInv
<1> QED BY <1>1, InitIInv, PTL DEF Spec

LEMMA Waits == IInv => WaitsWhileOwed
BY OutstandingIs DEF IInv, RunInv, RunsKnown, NewsOnItsWay, WaitsWhileOwed, News,
   RunsOf, Asks, Outstanding, Of, Queued

LEMMA KeepsUp == IInv => ListKeepsUp
BY DEF IInv, ListInv, Reloading, ListKeepsUp, Of, LoadsOf

\* The signals of every page, its connection, the calls and events underway and
\* the run queue are of their types in every reachable state, whatever breaks.
THEOREM TypeCorrect == Spec => []TypeOK
<1>1. IInv => TypeOK
  BY DEF IInv
<1> QED BY <1>1, Inductive, PTL

\* The buttons of the page are disabled exactly while a run of its user is
\* waiting or underway, or its end about to be told: for any number of browsers,
\* runs and schedules that cross, but for the ways out that adrift and missed name.
THEOREM PagesWaitForTheirRuns == Spec => []WaitsWhileOwed
BY Waits, Inductive, PTL

\* A list with no load underway is as new as what its page was last told, unless
\* its loads overlapped or failed: load() after every change and run is enough.
THEOREM ListsKeepUp == Spec => []ListKeepsUp
BY KeepsUp, Inductive, PTL
=============================================================================
