----------------------------- MODULE ClientProofs -----------------------------
(***************************************************************************)
(* Theorems about two parts of the client: the users page, with the cache  *)
(* behind it, and GlobalSearch (at the end of the module).                 *)
(*                                                                         *)
(* First AuthCache, and the users page that is one more client of it, for  *)
(* every set of users, requests, calls and values and every number of      *)
(* changes.                                                                *)
(* That the map agrees with the table is not inductive: what a request has *)
(* read and not yet filled in must agree as well, unless a change of the   *)
(* user fell in between (ReadsAgree).  Each step of the page is a step of  *)
(* AuthCache or leaves the table and the cache alone, so what is proved of *)
(* AuthCache holds with the page, its calls and their failures.            *)
(***************************************************************************)
EXTENDS UsersPage, GlobalSearch, FiniteSetTheorems, TLAPS

-----------------------------------------------------------------------------
(* The cache and the table                                                 *)

ReadsAgree ==
  \A r \in Request :
    phase[r] = "found" /\ about[r] \notin raced => found[r] = Lookup(db, about[r])

IInv == TypeOK /\ ReadsAgree /\ StaleOnlyByRace

-----------------------------------------------------------------------------
\* Putting an entry into a map gives a map, with that entry and the others.
LEMMA PutMap ==
  ASSUME NEW S, NEW T, NEW map \in [S -> T], NEW u, NEW x \in T
  PROVE  /\ Put(map, u, x) \in [S \cup {u} -> T]
         /\ Put(map, u, x)[u] = x
         /\ \A v \in S : v # u => Put(map, u, x)[v] = map[v]
BY DEF Put

\* Taking one out gives a map that has the other entries.
LEMMA WithoutMap ==
  ASSUME NEW S, NEW T, NEW map \in [S -> T], NEW u
  PROVE  /\ Without(map, u) \in [S \ {u} -> T]
         /\ \A v \in S \ {u} : Without(map, u)[v] = map[v]
BY DEF Without

\* The row of a user that exists is the one Info the table has for it.
LEMMA LookupRow ==
  ASSUME NEW S, NEW T, NEW map \in [S -> T], NEW u
  PROVE  /\ u \in S => Lookup(map, u) = {map[u]}
         /\ u \notin S => Lookup(map, u) = {}
         /\ Lookup(map, u) \subseteq T
BY DEF Lookup

\* A change of one row is not seen in another user's row.
LEMMA LookupOther ==
  ASSUME NEW S, NEW T, NEW map \in [S -> T], NEW u, NEW v, v # u, NEW x \in T
  PROVE  /\ Lookup(Put(map, u, x), v) = Lookup(map, v)
         /\ Lookup(Without(map, u), v) = Lookup(map, v)
<1>1. /\ Put(map, u, x) \in [S \cup {u} -> T]
      /\ \A w \in S : w # u => Put(map, u, x)[w] = map[w]
  BY DEF Put
<1>2. /\ Without(map, u) \in [S \ {u} -> T]
      /\ \A w \in S \ {u} : Without(map, u)[w] = map[w]
  BY DEF Without
<1>3. CASE v \in S
  <2>1. /\ Lookup(Put(map, u, x), v) = {Put(map, u, x)[v]}
        /\ Lookup(Without(map, u), v) = {Without(map, u)[v]}
        /\ Lookup(map, v) = {map[v]}
    BY <1>1, <1>2, <1>3, LookupRow
  <2> QED BY <2>1, <1>1, <1>2, <1>3
<1>4. CASE v \notin S
  <2>1. /\ Lookup(Put(map, u, x), v) = {}
        /\ Lookup(Without(map, u), v) = {}
        /\ Lookup(map, v) = {}
    BY <1>1, <1>2, <1>4, LookupRow
  <2> QED BY <2>1
<1> QED BY <1>3, <1>4

-----------------------------------------------------------------------------
\* The map is empty when the process starts, and nobody has read anything.
LEMMA InitIInv == Init => IInv
<1> SUFFICES ASSUME Init PROVE IInv
  OBVIOUS
<1> USE BoundAssumption
<1>1. TypeOK
  BY DEF Init, TypeOK
<1>2. ReadsAgree /\ StaleOnlyByRace
  BY DEF Init, ReadsAgree, StaleOnlyByRace
<1> QED BY <1>1, <1>2 DEF IInv

\* A miss reads the map and leaves both agreements alone.
LEMMA MissIInv ==
  ASSUME IInv, NEW r \in Request, NEW u \in User, Miss(r, u) PROVE IInv'
<1>1. TypeOK'
  BY DEF IInv, Miss, TypeOK
<1>2. ReadsAgree' /\ StaleOnlyByRace'
  BY DEF IInv, Miss, ReadsAgree, StaleOnlyByRace, TypeOK
<1> QED BY <1>1, <1>2 DEF IInv

\* What is read is what the table says at that moment.
LEMMA FindByIdIInv ==
  ASSUME IInv, NEW r \in Request, FindById(r) PROVE IInv'
<1> USE DEF IInv
<1>1. Lookup(db, about[r]) \subseteq Info
  BY LookupRow DEF TypeOK
<1>2. TypeOK'
  BY <1>1 DEF FindById, TypeOK
<1>3. ReadsAgree' /\ StaleOnlyByRace'
  BY DEF FindById, ReadsAgree, StaleOnlyByRace, TypeOK
<1> QED BY <1>2, <1>3

\* What is filled in agrees with the table unless a change raced the read.
LEMMA FillIInv ==
  ASSUME IInv, NEW r \in Request, Fill(r) PROVE IInv'
<1> USE DEF IInv
<1> DEFINE u == about[r]
           x == CHOOSE info \in found[r] : TRUE
<1>1. u \in User /\ found[r] \subseteq Info /\ cache \in [DOMAIN cache -> Info]
  BY DEF TypeOK
<1>2. ReadsAgree'
  BY DEF Fill, ReadsAgree, TypeOK
<1>3. CASE found[r] = {}
  <2>1. cache' = cache
    BY <1>3 DEF Fill
  <2>2. TypeOK'
    BY <1>1, <2>1 DEF Fill, TypeOK
  <2>3. StaleOnlyByRace'
    BY <2>1 DEF Fill, StaleOnlyByRace
  <2> QED BY <1>2, <2>2, <2>3
<1>4. CASE found[r] # {}
  <2>1. x \in found[r] /\ x \in Info
    BY <1>1, <1>4
  <2>2. cache' = Put(cache, u, x)
    BY <1>4 DEF Fill
  <2> HIDE DEF u, x
  <2>3. /\ cache' \in [DOMAIN cache \cup {u} -> Info]
        /\ cache'[u] = x
        /\ \A v \in DOMAIN cache : v # u => cache'[v] = cache[v]
    BY <1>1, <2>1, <2>2 DEF Put
  <2>4. TypeOK'
    BY <1>1, <2>3 DEF Fill, TypeOK
  <2>5. u \notin raced => Lookup(db, u) = {x}
    <3> SUFFICES ASSUME u \notin raced PROVE Lookup(db, u) = {x}
      OBVIOUS
    <3>1. found[r] = Lookup(db, u)
      BY DEF Fill, ReadsAgree, u
    <3>2. db \in [DOMAIN db -> Info]
      BY DEF TypeOK
    <3>3. u \in DOMAIN db => Lookup(db, u) = {db[u]}
      BY <3>2, LookupRow
    <3>4. u \notin DOMAIN db => Lookup(db, u) = {}
      BY <3>2, LookupRow
    <3> QED BY <2>1, <3>1, <3>3, <3>4
  <2>6. StaleOnlyByRace'
    <3> SUFFICES ASSUME NEW v \in DOMAIN cache', dirty'[v] = 0, v \notin raced'
                 PROVE  Lookup(db', v) = {cache'[v]}
      BY DEF StaleOnlyByRace
    <3>1. db' = db /\ dirty' = dirty /\ raced' = raced
      BY DEF Fill
    <3>2. CASE v = u
      BY <2>3, <2>5, <3>1, <3>2
    <3>3. CASE v # u
      BY <2>3, <3>1, <3>3 DEF StaleOnlyByRace
    <3> QED BY <3>2, <3>3
  <2> QED BY <1>2, <2>4, <2>6
<1> QED BY <1>3, <1>4

\* A committed change of u marks u as changed, as raced if a read of u is on
\* its way back, and leaves the other users' rows alone.
LEMMA ChangeIInv ==
  ASSUME IInv, NEW u \in User, Committed(u),
         DOMAIN db' \subseteq User, db' \in [DOMAIN db' -> Info],
         \A v \in User : v # u => Lookup(db', v) = Lookup(db, v)
  PROVE  IInv'
<1> USE DEF IInv
<1>1. /\ changes' \in 0..MaxChanges
      /\ dirty' \in [User -> Nat]
      /\ dirty'[u] # 0
      /\ \A v \in User : v # u => dirty'[v] = dirty[v]
  BY BoundAssumption DEF Committed, TypeOK
<1>2. TypeOK'
  BY <1>1 DEF Committed, TypeOK
<1>3. ReadsAgree'
  <2> SUFFICES ASSUME NEW r \in Request, phase'[r] = "found", about'[r] \notin raced'
               PROVE  found'[r] = Lookup(db', about'[r])
    BY DEF ReadsAgree
  <2>1. phase[r] = "found" /\ about[r] \in User /\ about' = about /\ found' = found
    BY DEF Committed, TypeOK
  <2>2. about[r] # u /\ about[r] \notin raced
    BY <2>1 DEF Committed
  <2>3. found[r] = Lookup(db, about[r])
    BY <2>1, <2>2 DEF ReadsAgree
  <2> QED BY <2>1, <2>2, <2>3
<1>4. StaleOnlyByRace'
  <2> SUFFICES ASSUME NEW v \in DOMAIN cache', dirty'[v] = 0, v \notin raced'
               PROVE  Lookup(db', v) = {cache'[v]}
    BY DEF StaleOnlyByRace
  <2>1. cache' = cache /\ v \in User /\ raced \subseteq raced'
    BY DEF Committed, TypeOK
  <2>2. v # u
    BY <1>1
  <2> QED BY <1>1, <2>1, <2>2 DEF StaleOnlyByRace
<1> QED BY <1>2, <1>3, <1>4

\* Both ways of changing the table are such changes.
LEMMA UpdateIInv ==
  ASSUME IInv, NEW u \in User, NEW info \in Info, Update(u, info) PROVE IInv'
<1>1. db \in [DOMAIN db -> Info] /\ DOMAIN db \subseteq User
  BY DEF IInv, TypeOK
<1>2. db' = Put(db, u, info)
  BY DEF Update
<1>3. db' \in [DOMAIN db \cup {u} -> Info]
  BY <1>1, <1>2, PutMap
<1>4. \A v \in User : v # u => Lookup(db', v) = Lookup(db, v)
  BY <1>1, <1>2, LookupOther
<1>5. Committed(u)
  BY DEF Update
<1>6. DOMAIN db' \subseteq User /\ db' \in [DOMAIN db' -> Info]
  BY <1>1, <1>3
<1> QED BY <1>4, <1>5, <1>6, ChangeIInv

LEMMA RemoveIInv ==
  ASSUME IInv, NEW u \in User, Remove(u) PROVE IInv'
<1>1. db \in [DOMAIN db -> Info] /\ DOMAIN db \subseteq User
  BY DEF IInv, TypeOK
<1>2. db' = Without(db, u) /\ u \in DOMAIN db /\ Committed(u)
  BY DEF Remove
<1>3. db' \in [DOMAIN db \ {u} -> Info]
  BY <1>1, <1>2, WithoutMap
<1>4. db[u] \in Info
  BY <1>1, <1>2
<1>5. \A v \in User : v # u => Lookup(db', v) = Lookup(db, v)
  BY <1>1, <1>2, <1>4, LookupOther
<1>6. DOMAIN db' \subseteq User /\ db' \in [DOMAIN db' -> Info]
  BY <1>1, <1>3
<1> QED BY <1>2, <1>5, <1>6, ChangeIInv

\* A statement that finds no row makes the entry of no other user wrong.
LEMMA UpdateNoRowIInv ==
  ASSUME IInv, NEW u \in User, UpdateNoRow(u) PROVE IInv'
<1> USE BoundAssumption DEF IInv
<1>1. dirty' \in [User -> Nat] /\ \A v \in User : dirty'[v] = 0 => dirty[v] = 0
  BY DEF UpdateNoRow, TypeOK
<1>2. TypeOK'
  BY <1>1 DEF UpdateNoRow, TypeOK
<1>3. ReadsAgree'
  BY DEF UpdateNoRow, ReadsAgree
<1>4. StaleOnlyByRace'
  BY <1>1 DEF UpdateNoRow, StaleOnlyByRace, TypeOK
<1> QED BY <1>2, <1>3, <1>4

\* The invalidation of u leaves no entry of u to be wrong, and forgives the
\* race only when no old read of u is on its way back.
LEMMA InvalidateIInv ==
  ASSUME IInv, NEW u \in User, Invalidate(u) PROVE IInv'
<1> USE DEF IInv
<1>1. cache' \in [DOMAIN cache \ {u} -> Info]
      /\ \A v \in DOMAIN cache \ {u} : cache'[v] = cache[v]
  BY DEF Without, Invalidate, TypeOK
<1>2. dirty' \in [User -> Nat] /\ \A v \in User : v # u => dirty'[v] = dirty[v]
  BY DEF Invalidate, TypeOK
<1>3. raced' \subseteq raced /\ raced \ {u} \subseteq raced'
  BY DEF Invalidate
<1>4. TypeOK'
  BY <1>1, <1>2, <1>3 DEF Invalidate, TypeOK
<1>5. ReadsAgree'
  <2> SUFFICES ASSUME NEW r \in Request, phase'[r] = "found", about'[r] \notin raced'
               PROVE  found'[r] = Lookup(db', about'[r])
    BY DEF ReadsAgree
  <2>1. phase' = phase /\ about' = about /\ found' = found /\ db' = db
    BY DEF Invalidate
  <2>2. CASE about[r] \notin raced
    BY <2>1, <2>2 DEF ReadsAgree
  <2>3. CASE about[r] \in raced
    <3>1. about[r] = u /\ raced' # raced
      BY <1>3, <2>1, <2>3
    <3> QED BY <2>1, <3>1 DEF Invalidate
  <2> QED BY <2>2, <2>3
<1>6. StaleOnlyByRace'
  <2> SUFFICES ASSUME NEW v \in DOMAIN cache', dirty'[v] = 0, v \notin raced'
               PROVE  Lookup(db', v) = {cache'[v]}
    BY DEF StaleOnlyByRace
  <2>1. v \in DOMAIN cache /\ v # u /\ v \in User /\ db' = db
    BY <1>1 DEF Invalidate, TypeOK
  <2> QED BY <1>1, <1>2, <1>3, <2>1 DEF StaleOnlyByRace
<1> QED BY <1>4, <1>5, <1>6

\* A new process starts with an empty map and no reads.
LEMMA RestartIInv == ASSUME IInv, Restart PROVE IInv'
<1>1. TypeOK'
  BY DEF IInv, Restart, TypeOK
<1>2. ReadsAgree' /\ StaleOnlyByRace'
  BY DEF IInv, Restart, ReadsAgree, StaleOnlyByRace
<1> QED BY <1>1, <1>2 DEF IInv

LEMMA StutterIInv == ASSUME IInv, UNCHANGED vars PROVE IInv'
<1>1. TypeOK'
  BY DEF IInv, vars, TypeOK
<1>2. ReadsAgree' /\ StaleOnlyByRace'
  BY DEF IInv, vars, ReadsAgree, StaleOnlyByRace, Lookup
<1> QED BY <1>1, <1>2 DEF IInv

LEMMA NextIInv == ASSUME IInv, [Next]_vars PROVE IInv'
<1>1. CASE \E r \in Request, u \in User : Miss(r, u)
  BY <1>1, MissIInv
<1>2. CASE \E r \in Request : FindById(r) \/ Fill(r)
  BY <1>2, FindByIdIInv, FillIInv
<1>3. CASE \E u \in User, info \in Info : Update(u, info)
  BY <1>3, UpdateIInv
<1>4. CASE \E u \in User : UpdateNoRow(u) \/ Remove(u) \/ Invalidate(u)
  BY <1>4, UpdateNoRowIInv, RemoveIInv, InvalidateIInv
<1>5. CASE Restart
  BY <1>5, RestartIInv
<1>6. CASE UNCHANGED vars
  BY <1>6, StutterIInv
<1> QED BY <1>1, <1>2, <1>3, <1>4, <1>5, <1>6 DEF Next

-----------------------------------------------------------------------------
\* The variables of the cache, the table and the requests keep their types.
THEOREM TypeCorrect == Spec => []TypeOK
<1>1. IInv => TypeOK
  BY DEF IInv
<1>2. Init => IInv
  BY InitIInv
<1>3. IInv /\ [Next]_vars => IInv'
  BY NextIInv
<1> QED BY <1>1, <1>2, <1>3, PTL DEF Spec

\* UsersService's map of roles disagrees with the users table only between a
\* commit and its invalidation or after a change that raced a read.
THEOREM CacheStaleOnlyByRace == Spec => []StaleOnlyByRace
<1>1. IInv => StaleOnlyByRace
  BY DEF IInv
<1>2. Init => IInv
  BY InitIInv
<1>3. IInv /\ [Next]_vars => IInv'
  BY NextIInv
<1> QED BY <1>1, <1>2, <1>3, PTL DEF Spec

-----------------------------------------------------------------------------
(* The page                                                                *)

\* What the page and its visits do changes no user.
LEMMA ActsAlone ==
  ASSUME Open \/ (\E u \in User : ToggleActive(u)) \/ (\E d \in Dialog : Ask(d) \/ Confirm(d)) \/ Cancel
  PROVE  UNCHANGED vars
BY DEF Open, ToggleActive, Ask, Confirm, Cancel, Sends, Act

\* A call in the API makes one step of AuthCache at most.
LEMMA CallSteps ==
  ASSUME NEW c \in calls, c.of \subseteq User,
         FindUser(c) \/ Commit(c) \/ Drop(c) \/ Read(c) \/ Lost(c) \/ Answered(c)
  PROVE  [Next]_vars
<1>1. CASE FindUser(c) \/ Read(c) \/ Lost(c) \/ Answered(c)
  BY <1>1 DEF FindUser, Read, Lost, Answered
<1>2. CASE Commit(c)
  BY <1>2 DEF Commit, Next
<1>3. CASE Drop(c)
  BY <1>3 DEF Drop, Next
<1> QED BY <1>1, <1>2, <1>3

\* Calls are about users.
CallsAboutUsers == \A c \in calls : "of" \in DOMAIN c /\ c.of \subseteq User

LEMMA CallsInit == PageInit => CallsAboutUsers
BY DEF PageInit, CallsAboutUsers, NewCall

LEMMA CallsNext ==
  ASSUME CallsAboutUsers, [PageNext]_pageVars PROVE CallsAboutUsers'
<1> USE DEF CallsAboutUsers
<1>1. CASE Open
  BY <1>1 DEF Open, NewCall
<1>2. CASE \E u \in User : ToggleActive(u)
  BY <1>2 DEF ToggleActive, Sends, NewCall
<1>3. CASE \E d \in Dialog : Ask(d)
  BY <1>3 DEF Ask
<1>4. CASE \E d \in Dialog : Confirm(d)
  BY <1>4 DEF Confirm, Sends, NewCall, Dialog
<1>5. CASE Cancel
  BY <1>5 DEF Cancel
<1>6. ASSUME NEW c \in calls, FindUser(c) PROVE CallsAboutUsers'
  BY <1>6 DEF FindUser, Moves
<1>7. ASSUME NEW c \in calls, Commit(c) PROVE CallsAboutUsers'
  BY <1>7 DEF Commit, Aged
<1>8. ASSUME NEW c \in calls, Drop(c) PROVE CallsAboutUsers'
  BY <1>8 DEF Drop, Moves
<1>9. ASSUME NEW c \in calls, Read(c) PROVE CallsAboutUsers'
  BY <1>9 DEF Read
<1>10. ASSUME NEW c \in calls, Lost(c) PROVE CallsAboutUsers'
  BY <1>10 DEF Lost
<1>11. ASSUME NEW c \in calls, Answered(c) PROVE CallsAboutUsers'
  BY <1>11 DEF Answered
<1>12. ASSUME NEW u \in User, OthersCommit(u) PROVE CallsAboutUsers'
  BY <1>12 DEF OthersCommit, Aged
<1>13. CASE (\E u \in User : OthersDrop(u)) \/ Requests \/ UNCHANGED pageVars
  BY <1>13 DEF OthersDrop, Requests, page, pageVars
<1>14. CASE ProcessEnds
  BY <1>14 DEF ProcessEnds
<1> QED BY <1>1, <1>2, <1>3, <1>4, <1>5, <1>6, <1>7, <1>8, <1>9, <1>10, <1>11, <1>12, <1>13, <1>14 DEF PageNext

-----------------------------------------------------------------------------
LEMMA PageSteps ==
  ASSUME CallsAboutUsers, [PageNext]_pageVars PROVE [Next]_vars
<1>1. CASE Open \/ (\E u \in User : ToggleActive(u)) \/ (\E d \in Dialog : Ask(d) \/ Confirm(d)) \/ Cancel
  BY <1>1, ActsAlone
<1>2. ASSUME NEW c \in calls, FindUser(c) \/ Commit(c) \/ Drop(c) \/ Read(c) \/ Lost(c) \/ Answered(c)
      PROVE  [Next]_vars
  BY <1>2, CallSteps DEF CallsAboutUsers
<1>3. CASE \E u \in User : OthersCommit(u) \/ OthersDrop(u)
  BY <1>3 DEF OthersCommit, OthersDrop, Next
<1>4. CASE Requests \/ ProcessEnds
  BY <1>4 DEF Requests, ProcessEnds, Next
<1>5. CASE UNCHANGED pageVars
  BY <1>5 DEF pageVars
<1> QED BY <1>1, <1>2, <1>3, <1>4, <1>5 DEF PageNext

\* The table and the cache behave with the users page as AuthCache says.
THEOREM PageImplementsCache == PageSpec => Spec
<1>1. PageInit => Init /\ CallsAboutUsers
  BY CallsInit DEF PageInit
<1>2. CallsAboutUsers /\ [PageNext]_pageVars => CallsAboutUsers'
  BY CallsNext
<1>3. CallsAboutUsers /\ [PageNext]_pageVars => [Next]_vars
  BY PageSteps
<1> QED BY <1>1, <1>2, <1>3, PTL DEF PageSpec, Spec

\* The map of roles disagrees with the users table only between a commit and
\* its invalidation or after a change that raced a read: with any number of
\* calls of the users page underway, lost or cut off by the end of the process.
THEOREM RolesStaleOnlyByRace == PageSpec => []StaleOnlyByRace
<1>1. PageSpec => Spec
  BY PageImplementsCache
<1>2. Spec => []StaleOnlyByRace
  BY CacheStaleOnlyByRace
<1> QED BY <1>1, <1>2, PTL

-----------------------------------------------------------------------------
(* What the page shows.  That a settled page tells the truth is not        *)
(* inductive: it takes that what a call has read is right unless the user  *)
(* changed since, that a change is of a user the page still shows or the   *)
(* table no longer has, and that a visit does nothing before its list.     *)

\* The users whose rows the answer of a call settles.
Told(c) == IF c.kind = "list" THEN User ELSE c.of

\* A call that is underway, the page showing list and the table being table.
CallOK(c, list, table) ==
  /\ c \in CallState
  /\ IF c.kind = "list" THEN c.of = {} ELSE \E u \in User : c.of = {u}
  /\ c.kind = "set" => c.of \cap DOMAIN table \subseteq DOMAIN list
  /\ c.kind = "set" /\ c.at = "read" => DOMAIN c.rows = c.of
  /\ c.kind = "remove" /\ c.at \in {"committed", "read"} => c.of \cap DOMAIN table = {}
  /\ c.kind # "remove" /\ c.at = "read" =>
       \A u \in Told(c) \ c.old : Lookup(c.rows, u) = Lookup(table, u)

CallsRight == \A c \in calls : CallOK(c, shown, db)

\* Until the list of a visit is answered the page shows nothing to click on.
ListAlone ==
  \A c \in calls : c.kind = "list" =>
    calls = {c} /\ shown = NoRows /\ dialog = {} /\ unsure = User

DialogShown == \A d \in dialog : d.of \in DOMAIN db => d.of \in DOMAIN shown

\* A user nobody else touched is shown right while no call about the user has
\* reached its statement.
ShownRight ==
  \A u \in User \ unsure :
    (\A c \in About(u, calls) : c.at \in {"sent", "found"}) => Lookup(shown, u) = Lookup(db, u)

PageShape ==
  /\ shown \in Rows
  /\ pendingId \subseteq User
  /\ dialog \subseteq Dialog /\ (dialog = {} \/ \E d \in Dialog : dialog = {d})
  /\ \A u \in pendingId : \E c \in calls : c.kind = "set" /\ u \in c.of
  /\ IsFiniteSet(calls)
  /\ acts \in 0..MaxActs
  /\ unsure \subseteq User

PageIInv == IInv /\ CallsRight /\ ListAlone /\ DialogShown /\ ShownRight /\ PageShape

-----------------------------------------------------------------------------
\* Users by id are a map.
LEMMA RowsMap ==
  ASSUME NEW rows \in Rows
  PROVE  DOMAIN rows \subseteq User /\ rows \in [DOMAIN rows -> Info]
BY DEF Rows

LEMMA MapRows ==
  ASSUME NEW S, S \subseteq User, NEW rows \in [S -> Info]
  PROVE  rows \in Rows
BY DEF Rows

LEMMA NoRowsMap ==
  /\ NoRows \in Rows
  /\ DOMAIN NoRows = {}
  /\ \A u : Lookup(NoRows, u) = {}
<1>1. NoRows \in [{} -> Info]
  BY DEF NoRows
<1>2. NoRows \in Rows
  BY <1>1, MapRows
<1> QED BY <1>1, <1>2 DEF Lookup

\* A map has a row of a user just if it has the user.
LEMMA LookupNone ==
  ASSUME NEW map, NEW u PROVE u \in DOMAIN map <=> Lookup(map, u) # {}
BY DEF Lookup

\* Maps that have the same row of a user tell the same of the user.
LEMMA LookupSame ==
  ASSUME NEW map, NEW other, NEW u,
         u \in DOMAIN map <=> u \in DOMAIN other,
         u \in DOMAIN map => map[u] = other[u]
  PROVE  Lookup(map, u) = Lookup(other, u)
BY DEF Lookup

LEMMA LookupEqual ==
  ASSUME NEW map, NEW other, NEW u, Lookup(map, u) = Lookup(other, u)
  PROVE  /\ u \in DOMAIN map <=> u \in DOMAIN other
         /\ u \in DOMAIN map => map[u] = other[u]
BY DEF Lookup

\* There is a number no call that is underway has.
LEMMA FreeNumber ==
  ASSUME NEW cs, IsFiniteSet(cs), NEW k, k = (CHOOSE n \in 0..Cardinality(cs) : \A c \in cs : c.n # n)
  PROVE  k \in 0..Cardinality(cs) /\ k \in Nat /\ \A c \in cs : c.n # k
<1>1. Cardinality(cs) \in Nat
  BY FS_CardinalityType
<1>2. \E n \in 0..Cardinality(cs) : \A c \in cs : c.n # n
  <2> SUFFICES ASSUME \A n \in 0..Cardinality(cs) : \E c \in cs : c.n = n PROVE FALSE
    OBVIOUS
  <2> DEFINE f == [n \in 0..Cardinality(cs) |-> CHOOSE c \in cs : c.n = n]
  <2>1. f \in [0..Cardinality(cs) -> cs] /\ \A n \in 0..Cardinality(cs) : f[n].n = n
    OBVIOUS
  <2>2. IsFiniteSet(0..Cardinality(cs)) /\ Cardinality(0..Cardinality(cs)) = Cardinality(cs) + 1
    BY <1>1, FS_Interval
  <2> HIDE DEF f
  <2>3. \E x, y \in 0..Cardinality(cs) : x # y /\ f[x] = f[y]
    BY <1>1, <2>1, <2>2, FS_PigeonHole
  <2> QED BY <2>1, <2>3
<1> QED BY <1>1, <1>2

\* What becomes of finitely many calls are finitely many calls.
LEMMA FiniteImage ==
  ASSUME NEW S, IsFiniteSet(S), NEW f, f = [x \in S |-> f[x]]
  PROVE  IsFiniteSet({f[x] : x \in S})
<1>1. f \in Surjection(S, {f[x] : x \in S})
  BY DEF Surjection
<1> QED BY <1>1, FS_Surjection

-----------------------------------------------------------------------------
At == {"sent", "found", "committed", "dropped", "read", "refused"}

\* A call that moves on is the same call.
LEMMA MovedCall ==
  ASSUME NEW c \in CallState, NEW at \in At, NEW d, d = [c EXCEPT !.at = at]
  PROVE  /\ d \in CallState
         /\ d.n = c.n /\ d.kind = c.kind /\ d.of = c.of /\ d.rows = c.rows /\ d.old = c.old
         /\ d.at = at
BY DEF CallState, At

\* A call stays in order when the table loses rows and other users change, if
\* what it has read of the user that changes counts as old.
LEMMA AgedCall ==
  ASSUME NEW list, NEW table, NEW other, NEW u \in User, NEW c, CallOK(c, list, table),
         DOMAIN other \subseteq DOMAIN table,
         \A v \in User : v # u => Lookup(other, v) = Lookup(table, v),
         NEW d, d = IF c.at = "read" THEN [c EXCEPT !.old = @ \cup {u}] ELSE c
  PROVE  /\ CallOK(d, list, other)
         /\ d.kind = c.kind /\ d.of = c.of /\ d.at = c.at
<1>1. /\ d \in CallState
      /\ d.n = c.n /\ d.kind = c.kind /\ d.of = c.of /\ d.rows = c.rows /\ d.at = c.at
      /\ c.at = "read" => d.old = c.old \cup {u}
      /\ c.of \subseteq User
  BY DEF CallOK, CallState
<1>2. d.kind # "remove" /\ d.at = "read" =>
        \A v \in Told(d) \ d.old : Lookup(d.rows, v) = Lookup(other, v)
  BY <1>1 DEF CallOK, Told
<1> QED BY <1>1, <1>2 DEF CallOK

\* A call that has not read says nothing of the table yet.
LEMMA UnreadCall ==
  ASSUME NEW list, NEW table, NEW c, CallOK(c, list, table), NEW d \in CallState,
         d.kind = c.kind, d.of = c.of,
         d.at \in {"sent", "found", "dropped", "refused"}
  PROVE  CallOK(d, list, table)
BY DEF CallOK

\* A call that is sent off.
LEMMA SentCall ==
  ASSUME NEW n \in Nat, NEW kind \in {"list", "set", "remove"}, NEW of \in SUBSET User,
         NEW d, d = NewCall(n, kind, of)
  PROVE  /\ d \in CallState
         /\ d.n = n /\ d.kind = kind /\ d.of = of /\ d.at = "sent"
BY NoRowsMap DEF NewCall, CallState

-----------------------------------------------------------------------------
\* A statement about u takes no row into the table and leaves the other users.
LEMMA StatementOfOne ==
  ASSUME TypeOK, NEW u \in User,
         (\E info \in Info : Update(u, info)) \/ Remove(u) \/ UpdateNoRow(u)
  PROVE  /\ DOMAIN db' \subseteq DOMAIN db
         /\ \A v \in User : v # u => Lookup(db', v) = Lookup(db, v)
         /\ Remove(u) \/ UpdateNoRow(u) => u \notin DOMAIN db'
<1>1. db \in [DOMAIN db -> Info] /\ DOMAIN db \subseteq User
  BY DEF TypeOK
<1>2. ASSUME NEW info \in Info, Update(u, info)
      PROVE  /\ DOMAIN db' \subseteq DOMAIN db
             /\ \A v \in User : v # u => Lookup(db', v) = Lookup(db, v)
  <2>1. db' = Put(db, u, info) /\ u \in DOMAIN db
    BY <1>2 DEF Update
  <2>2. db' \in [DOMAIN db \cup {u} -> Info]
    BY <1>1, <2>1, PutMap
  <2>3. \A v \in User : v # u => Lookup(db', v) = Lookup(db, v)
    BY <1>1, <2>1, LookupOther
  <2> QED BY <2>1, <2>2, <2>3
<1>3. ASSUME Remove(u)
      PROVE  /\ DOMAIN db' \subseteq DOMAIN db
             /\ \A v \in User : v # u => Lookup(db', v) = Lookup(db, v)
             /\ u \notin DOMAIN db'
  <2>1. db' = Without(db, u) /\ u \in DOMAIN db
    BY <1>3 DEF Remove
  <2>2. db' \in [DOMAIN db \ {u} -> Info]
    BY <1>1, <2>1, WithoutMap
  <2>3. db[u] \in Info
    BY <1>1, <2>1
  <2>4. \A v \in User : v # u => Lookup(db', v) = Lookup(db, v)
    BY <1>1, <2>1, <2>3, LookupOther
  <2> QED BY <2>2, <2>4
<1>4. ASSUME UpdateNoRow(u)
      PROVE  db' = db /\ u \notin DOMAIN db
  BY <1>4 DEF UpdateNoRow
<1>5. Remove(u) \/ UpdateNoRow(u) => u \notin DOMAIN db'
  BY <1>3, <1>4
<1>6. ASSUME NEW info \in Info, Update(u, info), Remove(u) \/ UpdateNoRow(u) PROVE u \notin DOMAIN db'
  BY <1>5, <1>6
<1> QED BY <1>2, <1>3, <1>4, <1>5

-----------------------------------------------------------------------------
\* A visit begins with nothing shown and the list asked for.
LEMMA InitPage == PageInit => PageIInv
<1> SUFFICES ASSUME PageInit PROVE PageIInv
  OBVIOUS
<1>1. IInv
  BY InitIInv DEF PageInit
<1> DEFINE d == NewCall(0, "list", {})
<1>2. d \in CallState /\ d.kind = "list" /\ d.of = {} /\ d.at = "sent"
  BY SentCall
<1> HIDE DEF d
<1>3. calls = {d} /\ shown = NoRows /\ dialog = {} /\ pendingId = {} /\ unsure = User /\ acts = 0
  BY DEF PageInit, d
<1>4. CallsRight /\ ListAlone /\ DialogShown /\ ShownRight
  BY <1>2, <1>3 DEF CallsRight, CallOK, ListAlone, DialogShown, ShownRight
<1>5. PageShape
  <2>1. IsFiniteSet(calls)
    BY <1>3, FS_Singleton
  <2> QED BY <1>3, <2>1, NoRowsMap, ActsAssumption DEF PageShape
<1> QED BY <1>1, <1>4, <1>5 DEF PageIInv

LEMMA OpenPage == ASSUME PageIInv, IInv', Open PROVE PageIInv'
<1> DEFINE d == NewCall(0, "list", {})
<1>2. d \in CallState /\ d.kind = "list" /\ d.of = {} /\ d.at = "sent"
  BY SentCall
<1> HIDE DEF d
<1>3. calls' = {d} /\ shown' = NoRows /\ dialog' = {} /\ pendingId' = {} /\ unsure' = User
  BY DEF Open, d
<1>4. CallsRight' /\ ListAlone' /\ DialogShown' /\ ShownRight'
  BY <1>2, <1>3 DEF CallsRight, CallOK, ListAlone, DialogShown, ShownRight
<1>5. PageShape'
  <2>1. IsFiniteSet(calls')
    BY <1>3, FS_Singleton
  <2>2. acts' \in 0..MaxActs
    BY ActsAssumption DEF Open, Act, PageIInv, PageShape
  <2> QED BY <1>3, <2>1, <2>2, NoRowsMap DEF PageShape
<1> QED BY <1>4, <1>5 DEF PageIInv

\* A dialog opens over a row that is shown.
LEMMA AskPage == ASSUME PageIInv, IInv', NEW a \in Dialog, Ask(a) PROVE PageIInv'
<1>1. /\ shown' = shown /\ calls' = calls /\ unsure' = unsure /\ pendingId' = pendingId
      /\ acts' = acts /\ db' = db
      /\ dialog' = {a} /\ a.of \in DOMAIN shown
  BY DEF Ask, vars
<1>2. shown # NoRows
  BY <1>1, NoRowsMap
<1>3. CallsRight' /\ ListAlone' /\ DialogShown' /\ ShownRight'
  BY <1>1, <1>2 DEF PageIInv, CallsRight, ListAlone, DialogShown, ShownRight, About
<1>4. PageShape'
  BY <1>1 DEF PageIInv, PageShape
<1> QED BY <1>3, <1>4 DEF PageIInv

LEMMA CancelPage == ASSUME PageIInv, IInv', Cancel PROVE PageIInv'
<1>1. /\ shown' = shown /\ calls' = calls /\ unsure' = unsure /\ pendingId' = pendingId
      /\ acts' = acts /\ db' = db
      /\ dialog' = {}
  BY DEF Cancel, vars
<1>3. CallsRight' /\ ListAlone' /\ DialogShown' /\ ShownRight'
  BY <1>1 DEF PageIInv, CallsRight, ListAlone, DialogShown, ShownRight, About
<1>4. PageShape'
  BY <1>1 DEF PageIInv, PageShape
<1> QED BY <1>3, <1>4 DEF PageIInv

\* A change or a removal is sent off; what it is about is shown.
LEMMA SendsPage ==
  ASSUME PageIInv, IInv', NEW u \in User, NEW kind \in {"set", "remove"}, Sends(u, kind),
         \A c \in calls : c.kind # "list",
         u \in DOMAIN db => u \in DOMAIN shown,
         dialog' = {}
  PROVE  PageIInv'
<1> DEFINE n == CHOOSE n \in 0..Cardinality(calls) : \A c \in calls : c.n # n
           d == NewCall(n, kind, {u})
<1>1. n \in Nat
  BY FreeNumber DEF PageIInv, PageShape
<1>2. d \in CallState /\ d.kind = kind /\ d.of = {u} /\ d.at = "sent"
  <2> HIDE DEF n
  <2> QED BY <1>1, SentCall
<1>3. /\ calls' = calls \cup {d}
      /\ shown' = shown /\ unsure' = unsure /\ db' = db
      /\ pendingId' = IF kind = "set" THEN {u} ELSE pendingId
      /\ acts < MaxActs /\ acts' = acts + 1
  BY DEF Sends, Act, vars
<1> HIDE DEF d, n
<1>4. CallsRight'
  BY <1>2, <1>3 DEF PageIInv, CallsRight, CallOK
<1>5. ListAlone' /\ DialogShown'
  BY <1>2, <1>3 DEF ListAlone, DialogShown
<1>6. ShownRight'
  BY <1>3 DEF PageIInv, ShownRight, About
<1>7. PageShape'
  <2>1. IsFiniteSet(calls')
    BY <1>3, FS_AddElement DEF PageIInv, PageShape
  <2>2. acts' \in 0..MaxActs
    BY <1>3, ActsAssumption DEF PageIInv, PageShape
  <2>3. \A v \in pendingId' : \E c \in calls' : c.kind = "set" /\ v \in c.of
    BY <1>2, <1>3 DEF PageIInv, PageShape
  <2> QED BY <1>3, <2>1, <2>2, <2>3 DEF PageIInv, PageShape
<1> QED BY <1>4, <1>5, <1>6, <1>7 DEF PageIInv

LEMMA TogglePage == ASSUME PageIInv, IInv', NEW u \in User, ToggleActive(u) PROVE PageIInv'
<1>1. u \in DOMAIN shown /\ Sends(u, "set") /\ dialog' = {}
  BY DEF ToggleActive
<1>2. shown # NoRows
  BY <1>1, NoRowsMap
<1>3. \A c \in calls : c.kind # "list"
  BY <1>2 DEF PageIInv, ListAlone
<1> QED BY <1>1, <1>3, SendsPage

LEMMA ConfirmPage == ASSUME PageIInv, IInv', NEW a \in Dialog, Confirm(a) PROVE PageIInv'
<1> DEFINE kind == IF a.kind = "remove" THEN "remove" ELSE "set"
<1>1. a \in dialog /\ a.of \in User /\ Sends(a.of, kind) /\ dialog' = {}
  BY DEF Confirm, Dialog
<1>2. kind \in {"set", "remove"}
  OBVIOUS
<1> HIDE DEF kind
<1>3. \A c \in calls : c.kind # "list"
  BY <1>1 DEF PageIInv, ListAlone
<1>4. a.of \in DOMAIN db => a.of \in DOMAIN shown
  BY <1>1 DEF PageIInv, DialogShown
<1> QED BY <1>1, <1>2, <1>3, <1>4, SendsPage

-----------------------------------------------------------------------------
\* A call that moves on without a statement, past its statement or not.
LEMMA MovePage ==
  ASSUME PageIInv, IInv', NEW c \in calls, NEW d,
         calls' = (calls \ {c}) \cup {d}, CallOK(d, shown, db),
         d.kind = c.kind, d.of = c.of,
         d.at \in {"sent", "found"} => c.at \in {"sent", "found"},
         db' = db, UNCHANGED <<shown, pendingId, dialog, acts, unsure>>
  PROVE  PageIInv'
<1>1. CallsRight'
  BY DEF PageIInv, CallsRight
<1>2. ListAlone'
  BY DEF PageIInv, ListAlone
<1>3. DialogShown'
  BY DEF PageIInv, DialogShown
<1>4. ShownRight'
  BY DEF PageIInv, ShownRight, About
<1>5. PageShape'
  <2>1. IsFiniteSet(calls')
    BY FS_AddElement, FS_RemoveElement DEF PageIInv, PageShape
  <2> QED BY <2>1 DEF PageIInv, PageShape
<1> QED BY <1>1, <1>2, <1>3, <1>4, <1>5 DEF PageIInv

LEMMA FindUserPage == ASSUME PageIInv, IInv', NEW c \in calls, FindUser(c) PROVE PageIInv'
<1> DEFINE at == IF c.of \subseteq DOMAIN db THEN "found" ELSE "refused"
           d == [c EXCEPT !.at = at]
<1>1. CallOK(c, shown, db) /\ c \in CallState
  BY DEF PageIInv, CallsRight, CallOK
<1>2. at \in {"found", "refused"} /\ at \in At
  BY DEF At
<1>3. d \in CallState /\ d.kind = c.kind /\ d.of = c.of /\ d.at = at
  BY <1>1, <1>2, MovedCall
<1>4. /\ c.at = "sent" /\ calls' = (calls \ {c}) \cup {d}
      /\ db' = db /\ UNCHANGED <<shown, pendingId, dialog, acts, unsure>>
  BY DEF FindUser, Moves, vars
<1> HIDE DEF d, at
<1>5. CallOK(d, shown, db)
  BY <1>1, <1>2, <1>3, UnreadCall
<1> QED BY <1>3, <1>4, <1>5, MovePage

LEMMA DropPage == ASSUME PageIInv, IInv', NEW c \in calls, Drop(c) PROVE PageIInv'
<1> DEFINE at == IF c.kind = "remove" THEN "read" ELSE "dropped"
           d == [c EXCEPT !.at = at]
<1>1. CallOK(c, shown, db) /\ c \in CallState
  BY DEF PageIInv, CallsRight, CallOK
<1>2. at \in At
  BY DEF At
<1>3. d \in CallState /\ d.kind = c.kind /\ d.of = c.of /\ d.at = at
  BY <1>1, <1>2, MovedCall
<1>4. /\ c.at = "committed" /\ calls' = (calls \ {c}) \cup {d}
      /\ db' = db /\ UNCHANGED <<shown, pendingId, dialog, acts, unsure>>
  BY DEF Drop, Moves, Invalidate
<1>5. c.kind = "remove" => at = "read"
  OBVIOUS
<1>6. c.kind # "remove" => at = "dropped"
  OBVIOUS
<1> HIDE DEF d, at
<1>7. CallOK(d, shown, db)
  BY <1>1, <1>3, <1>4, <1>5, <1>6 DEF CallOK
<1> QED BY <1>3, <1>4, <1>5, <1>6, <1>7, MovePage

LEMMA LostPage == ASSUME PageIInv, IInv', NEW c \in calls, Lost(c) PROVE PageIInv'
<1> DEFINE d == [c EXCEPT !.at = "refused", !.rows = NoRows, !.old = {}]
<1>1. CallOK(c, shown, db) /\ c \in CallState
  BY DEF PageIInv, CallsRight, CallOK
<1>3. d \in CallState /\ d.kind = c.kind /\ d.of = c.of /\ d.at = "refused"
  BY <1>1, NoRowsMap DEF CallState
<1>4. /\ calls' = (calls \ {c}) \cup {d}
      /\ db' = db /\ UNCHANGED <<shown, pendingId, dialog, acts, unsure>>
  BY DEF Lost, vars
<1> HIDE DEF d
<1>5. CallOK(d, shown, db)
  BY <1>1, <1>3, UnreadCall
<1> QED BY <1>3, <1>4, <1>5, MovePage

\* What the database answers is the table as it is, and nothing of it is old.
LEMMA ReadPage == ASSUME PageIInv, IInv', NEW c \in calls, Read(c) PROVE PageIInv'
<1> DEFINE rows == IF c.kind = "list" THEN db ELSE [u \in c.of \cap DOMAIN db |-> db[u]]
           at == IF c.kind = "set" /\ rows = NoRows THEN "refused" ELSE "read"
           d == [c EXCEPT !.at = at, !.rows = rows]
<1>1. CallOK(c, shown, db) /\ c \in CallState
  BY DEF PageIInv, CallsRight, CallOK
<1>2. /\ <<c.kind, c.at>> \in {<<"list", "sent">>, <<"set", "dropped">>}
      /\ calls' = (calls \ {c}) \cup {d}
      /\ db' = db /\ UNCHANGED <<shown, pendingId, dialog, acts, unsure>>
  BY DEF Read, vars
<1>3. db \in [DOMAIN db -> Info] /\ DOMAIN db \subseteq User
  BY DEF PageIInv, IInv, TypeOK
<1>4. rows \in Rows
  <2>1. CASE c.kind = "list"
    BY <1>3, <2>1, MapRows
  <2>2. CASE c.kind # "list"
    <3>1. rows \in [c.of \cap DOMAIN db -> Info]
      BY <1>3, <2>2
    <3> QED BY <1>3, <3>1, MapRows
  <2> QED BY <2>1, <2>2
<1>5. /\ d \in CallState /\ d.kind = c.kind /\ d.of = c.of /\ d.at = at /\ d.rows = rows
      /\ d.old = c.old
  BY <1>1, <1>4 DEF CallState
<1>6. at \in {"refused", "read"}
  OBVIOUS
<1>7. CASE c.kind = "list"
  <2>1. rows = db /\ at = "read"
    BY <1>7
  <2> HIDE DEF d, rows, at
  <2>2. CallOK(d, shown, db)
    BY <1>1, <1>5, <1>7, <2>1 DEF CallOK
  <2> QED BY <1>2, <1>5, <2>1, <2>2, MovePage
<1>8. CASE c.kind = "set"
  <2>1. PICK u \in User : c.of = {u}
    BY <1>1, <1>8 DEF CallOK
  <2>2. DOMAIN rows = {u} \cap DOMAIN db /\ \A v \in DOMAIN rows : rows[v] = db[v]
    BY <1>8, <2>1
  <2>3. at = "read" => DOMAIN rows = {u}
    <3> SUFFICES ASSUME u \notin DOMAIN db PROVE at = "refused"
      BY <1>6, <2>2
    <3>1. c.of \cap DOMAIN db = {}
      BY <2>1
    <3>2. rows = NoRows
      <4>1. rows \in [{} -> Info] /\ NoRows \in [{} -> Info]
        BY <1>3, <1>8, <3>1 DEF NoRows
      <4> QED BY <4>1
    <3> QED BY <1>8, <3>2
  <2> HIDE DEF d, rows, at
  <2>4. at = "read" => Lookup(rows, u) = Lookup(db, u)
    BY <2>2, <2>3, LookupSame
  <2>5. CallOK(d, shown, db)
    BY <1>1, <1>5, <1>8, <2>1, <2>3, <2>4 DEF CallOK, Told
  <2> QED BY <1>2, <1>5, <1>6, <2>5, MovePage
<1> QED BY <1>2, <1>7, <1>8

-----------------------------------------------------------------------------
\* The calls ds are the calls cs, and in order with the page and the table.
SameCalls(ds, cs, list, table) ==
  /\ \A d \in ds :
       CallOK(d, list, table) /\ \E c \in cs : d.kind = c.kind /\ d.of = c.of /\ d.at = c.at
  /\ \A c \in cs : \E d \in ds : d.kind = c.kind /\ d.of = c.of /\ d.at = c.at
  /\ IsFiniteSet(cs) => IsFiniteSet(ds)
  /\ \A c : cs = {c} => \E d : ds = {d}

\* After a statement about u every other call is as it was, but for its age.
LEMMA AgedCalls ==
  ASSUME NEW list, NEW table, NEW other, NEW u \in User, NEW cs,
         \A c \in cs : CallOK(c, list, table),
         DOMAIN other \subseteq DOMAIN table,
         \A v \in User : v # u => Lookup(other, v) = Lookup(table, v)
  PROVE  SameCalls(Aged(u, cs), cs, list, other)
<1> DEFINE f == [c \in cs |-> IF c.at = "read" THEN [c EXCEPT !.old = @ \cup {u}] ELSE c]
<1>1. Aged(u, cs) = {f[c] : c \in cs}
  BY DEF Aged
<1>2. \A c \in cs : /\ CallOK(f[c], list, other)
                    /\ f[c].kind = c.kind /\ f[c].of = c.of /\ f[c].at = c.at
  <2> SUFFICES ASSUME NEW c \in cs
               PROVE  /\ CallOK(f[c], list, other)
                      /\ f[c].kind = c.kind /\ f[c].of = c.of /\ f[c].at = c.at
    OBVIOUS
  <2>1. f[c] = IF c.at = "read" THEN [c EXCEPT !.old = @ \cup {u}] ELSE c
    OBVIOUS
  <2> HIDE DEF f
  <2> QED BY <2>1, AgedCall
<1>3. f = [c \in cs |-> f[c]]
  OBVIOUS
<1> HIDE DEF f
<1>4. IsFiniteSet(cs) => IsFiniteSet(Aged(u, cs))
  BY <1>1, <1>3, FiniteImage
<1>5. \A c : cs = {c} => Aged(u, cs) = {f[c]}
  BY <1>1
<1> QED BY <1>1, <1>2, <1>4, <1>5 DEF SameCalls

\* The statement of a call of the page.
LEMMA CommitPage == ASSUME PageIInv, IInv', NEW c \in calls, Commit(c) PROVE PageIInv'
<1>1. CallOK(c, shown, db) /\ c \in CallState /\ TypeOK
  BY DEF PageIInv, CallsRight, CallOK, IInv
<1>2. PICK u \in c.of :
        /\ \/ /\ c.kind = "set" /\ c.at = "sent"
              /\ (\E info \in Info : Update(u, info)) \/ UpdateNoRow(u)
           \/ /\ c.kind = "remove" /\ c.at = "found"
              /\ Remove(u) \/ UpdateNoRow(u)
        /\ calls' = Aged(u, calls \ {c}) \cup {[c EXCEPT !.at = "committed"]}
  BY DEF Commit
<1>3. UNCHANGED <<shown, pendingId, dialog, acts, unsure>>
  BY DEF Commit
<1>4. u \in User /\ c.of = {u} /\ c.kind \in {"set", "remove"}
  BY <1>1, <1>2 DEF CallOK
<1>5. /\ DOMAIN db' \subseteq DOMAIN db
      /\ \A v \in User : v # u => Lookup(db', v) = Lookup(db, v)
      /\ c.kind = "remove" => u \notin DOMAIN db'
  BY <1>1, <1>2, <1>4, StatementOfOne
<1> DEFINE d == [c EXCEPT !.at = "committed"]
           others == calls \ {c}
           aged == Aged(u, others)
<1>6. d \in CallState /\ d.kind = c.kind /\ d.of = c.of /\ d.at = "committed"
  BY <1>1, MovedCall DEF At
<1>7. /\ \A k \in aged :
           CallOK(k, shown, db') /\ \E e \in others : k.kind = e.kind /\ k.of = e.of /\ k.at = e.at
      /\ \A e \in others : \E k \in aged : k.kind = e.kind /\ k.of = e.of /\ k.at = e.at
      /\ IsFiniteSet(others) => IsFiniteSet(aged)
  <2>1. \A e \in others : CallOK(e, shown, db)
    BY DEF PageIInv, CallsRight
  <2> HIDE DEF others
  <2>2. SameCalls(aged, others, shown, db')
    BY <1>4, <1>5, <2>1, AgedCalls
  <2> HIDE DEF aged
  <2> QED BY <2>2 DEF SameCalls
<1>8. calls' = aged \cup {d}
  BY <1>2
<1> HIDE DEF d, aged
<1>9. CallOK(d, shown, db')
  BY <1>1, <1>4, <1>5, <1>6 DEF CallOK
<1>10. CallsRight'
  BY <1>3, <1>7, <1>8, <1>9 DEF CallsRight
<1>11. \A k \in calls' : k.kind # "list"
  <2>1. \A e \in calls : e.kind # "list"
    BY <1>4 DEF PageIInv, ListAlone
  <2> QED BY <1>4, <1>6, <1>7, <1>8, <2>1
<1>12. ListAlone' /\ DialogShown'
  BY <1>3, <1>5, <1>11 DEF PageIInv, ListAlone, DialogShown
<1>13. ShownRight'
  <2> SUFFICES ASSUME NEW v \in User \ unsure, \A k \in About(v, calls') : k.at \in {"sent", "found"}
               PROVE  Lookup(shown, v) = Lookup(db', v)
    BY <1>3 DEF ShownRight
  <2>1. v # u
    BY <1>4, <1>6, <1>8 DEF About
  <2>2. \A e \in About(v, calls) : e.at \in {"sent", "found"}
    BY <1>4, <1>7, <1>8, <2>1 DEF About
  <2> QED BY <1>5, <2>1, <2>2 DEF PageIInv, ShownRight
<1>14. PageShape'
  <2>1. IsFiniteSet(calls')
    BY <1>7, <1>8, FS_AddElement, FS_RemoveElement DEF PageIInv, PageShape
  <2>2. \A v \in pendingId : \E k \in calls' : k.kind = "set" /\ v \in k.of
    <3> SUFFICES ASSUME NEW v \in pendingId PROVE \E k \in calls' : k.kind = "set" /\ v \in k.of
      OBVIOUS
    <3>1. PICK e \in calls : e.kind = "set" /\ v \in e.of
      BY DEF PageIInv, PageShape
    <3> QED BY <1>6, <1>7, <1>8, <3>1
  <2> QED BY <1>3, <2>1, <2>2 DEF PageIInv, PageShape
<1> QED BY <1>10, <1>12, <1>13, <1>14 DEF PageIInv

\* Somebody else's statement: the page is not expected to show the user right.
LEMMA OthersCommitPage == ASSUME PageIInv, IInv', NEW u \in User, OthersCommit(u) PROVE PageIInv'
<1>1. /\ (\E info \in Info : Update(u, info)) \/ Remove(u)
      /\ calls' = Aged(u, calls)
      /\ unsure' = unsure \cup {u}
      /\ UNCHANGED <<shown, pendingId, dialog, acts>>
  BY DEF OthersCommit
<1>2. /\ DOMAIN db' \subseteq DOMAIN db
      /\ \A v \in User : v # u => Lookup(db', v) = Lookup(db, v)
  BY <1>1, StatementOfOne DEF PageIInv, IInv
<1>3. /\ \A k \in calls' :
           CallOK(k, shown, db') /\ \E e \in calls : k.kind = e.kind /\ k.of = e.of /\ k.at = e.at
      /\ \A e \in calls : \E k \in calls' : k.kind = e.kind /\ k.of = e.of /\ k.at = e.at
      /\ IsFiniteSet(calls')
      /\ \A e : calls = {e} => \E k : calls' = {k}
  <2>1. (\A e \in calls : CallOK(e, shown, db)) /\ IsFiniteSet(calls)
    BY DEF PageIInv, CallsRight, PageShape
  <2>2. SameCalls(calls', calls, shown, db')
    BY <1>1, <1>2, <2>1, AgedCalls
  <2> QED BY <2>1, <2>2 DEF SameCalls
<1>4. CallsRight'
  BY <1>1, <1>3 DEF CallsRight
<1>5. ListAlone'
  <2> SUFFICES ASSUME NEW k \in calls', k.kind = "list"
               PROVE  calls' = {k} /\ shown' = NoRows /\ dialog' = {} /\ unsure' = User
    BY DEF ListAlone
  <2>1. PICK e \in calls : e.kind = "list"
    BY <1>3
  <2>2. calls = {e} /\ shown = NoRows /\ dialog = {} /\ unsure = User
    BY <2>1 DEF PageIInv, ListAlone
  <2> QED BY <1>1, <1>3, <2>2
<1>6. DialogShown'
  BY <1>1, <1>2 DEF PageIInv, DialogShown
<1>7. ShownRight'
  <2> SUFFICES ASSUME NEW v \in User \ unsure', \A k \in About(v, calls') : k.at \in {"sent", "found"}
               PROVE  Lookup(shown, v) = Lookup(db', v)
    BY <1>1 DEF ShownRight
  <2>1. v # u /\ v \in User \ unsure
    BY <1>1
  <2>2. \A e \in About(v, calls) : e.at \in {"sent", "found"}
    BY <1>3 DEF About
  <2> QED BY <1>2, <2>1, <2>2 DEF PageIInv, ShownRight
<1>8. PageShape'
  <2>1. \A v \in pendingId : \E k \in calls' : k.kind = "set" /\ v \in k.of
    <3> SUFFICES ASSUME NEW v \in pendingId PROVE \E k \in calls' : k.kind = "set" /\ v \in k.of
      OBVIOUS
    <3>1. PICK e \in calls : e.kind = "set" /\ v \in e.of
      BY DEF PageIInv, PageShape
    <3> QED BY <1>3, <3>1
  <2> QED BY <1>1, <1>3, <2>1 DEF PageIInv, PageShape
<1> QED BY <1>4, <1>5, <1>6, <1>7, <1>8 DEF PageIInv

\* Calls the process was serving are refused; answers on their way arrive.
LEMMA ProcessEndsPage == ASSUME PageIInv, IInv', ProcessEnds PROVE PageIInv'
<1> DEFINE f == [c \in calls |-> IF c.at = "read" THEN c ELSE [c EXCEPT !.at = "refused"]]
<1>1. /\ calls' = {f[c] : c \in calls} /\ db' = db
      /\ UNCHANGED <<shown, pendingId, dialog, acts, unsure>>
  BY DEF ProcessEnds, Restart
<1>2. \A c \in calls : /\ CallOK(f[c], shown, db)
                       /\ f[c].kind = c.kind /\ f[c].of = c.of /\ f[c].at \in {"read", "refused"}
  <2> SUFFICES ASSUME NEW c \in calls
               PROVE  /\ CallOK(f[c], shown, db)
                      /\ f[c].kind = c.kind /\ f[c].of = c.of /\ f[c].at \in {"read", "refused"}
    OBVIOUS
  <2>1. CallOK(c, shown, db) /\ c \in CallState
    BY DEF PageIInv, CallsRight, CallOK
  <2>2. f[c] = IF c.at = "read" THEN c ELSE [c EXCEPT !.at = "refused"]
    OBVIOUS
  <2> HIDE DEF f
  <2>3. CASE c.at = "read"
    BY <2>1, <2>2, <2>3
  <2>4. CASE c.at # "read"
    <3>1. /\ f[c] \in CallState /\ f[c].kind = c.kind /\ f[c].of = c.of /\ f[c].at = "refused"
      BY <2>1, <2>2, <2>4, MovedCall DEF At
    <3>2. CallOK(f[c], shown, db)
      BY <2>1, <3>1, UnreadCall
    <3> QED BY <3>1, <3>2
  <2> QED BY <2>3, <2>4
<1>3. f = [c \in calls |-> f[c]]
  OBVIOUS
<1> HIDE DEF f
<1>4. CallsRight'
  BY <1>1, <1>2 DEF CallsRight
<1>5. ListAlone' /\ DialogShown'
  <2>1. \A k \in calls' : k.kind = "list" => calls' = {k} /\ shown = NoRows /\ dialog = {} /\ unsure = User
    <3> SUFFICES ASSUME NEW c \in calls, c.kind = "list"
                 PROVE  calls' = {f[c]} /\ shown = NoRows /\ dialog = {} /\ unsure = User
      BY <1>1, <1>2
    <3>1. calls = {c} /\ shown = NoRows /\ dialog = {} /\ unsure = User
      BY DEF PageIInv, ListAlone
    <3> QED BY <1>1, <3>1
  <2> QED BY <1>1, <2>1 DEF PageIInv, ListAlone, DialogShown
<1>6. ShownRight'
  <2> SUFFICES ASSUME NEW v \in User \ unsure, \A k \in About(v, calls') : k.at \in {"sent", "found"}
               PROVE  Lookup(shown, v) = Lookup(db, v)
    BY <1>1 DEF ShownRight
  <2>1. About(v, calls) = {}
    BY <1>1, <1>2 DEF About
  <2> QED BY <2>1 DEF PageIInv, ShownRight
<1>7. PageShape'
  <2>1. IsFiniteSet(calls')
    BY <1>1, <1>3, FiniteImage DEF PageIInv, PageShape
  <2>2. \A v \in pendingId : \E k \in calls' : k.kind = "set" /\ v \in k.of
    <3> SUFFICES ASSUME NEW v \in pendingId PROVE \E k \in calls' : k.kind = "set" /\ v \in k.of
      OBVIOUS
    <3>1. PICK e \in calls : e.kind = "set" /\ v \in e.of
      BY DEF PageIInv, PageShape
    <3> QED BY <1>1, <1>2, <3>1
  <2> QED BY <1>1, <2>1, <2>2 DEF PageIInv, PageShape
<1> QED BY <1>4, <1>5, <1>6, <1>7 DEF PageIInv

-----------------------------------------------------------------------------
\* What an answer leaves of the other calls, the dialog and the waiting row.
LEMMA AnsweredRest ==
  ASSUME PageIInv, IInv', NEW c \in calls, Answered(c), shown' \in Rows,
         \A u \in DOMAIN db : u \in DOMAIN shown => u \in DOMAIN shown',
         ShownRight'
  PROVE  PageIInv'
<1>1. /\ calls' = calls \ {c} /\ dialog' = dialog /\ acts' = acts /\ db' = db
      /\ pendingId' = IF c.kind = "set" THEN {} ELSE pendingId
      /\ unsure' \subseteq User
  <2>1. Told(c) \subseteq User
    BY DEF PageIInv, CallsRight, CallOK, CallState, Told
  <2> QED BY <2>1 DEF Answered, Release, vars, Told, PageIInv, PageShape
<1>2. CallsRight'
  BY <1>1 DEF PageIInv, CallsRight, CallOK
<1>3. ListAlone'
  BY <1>1 DEF PageIInv, ListAlone
<1>4. DialogShown'
  BY <1>1 DEF PageIInv, DialogShown
<1>5. PageShape'
  <2>1. IsFiniteSet(calls')
    BY <1>1, FS_RemoveElement DEF PageIInv, PageShape
  <2>2. \A v \in pendingId' : \E k \in calls' : k.kind = "set" /\ v \in k.of
    BY <1>1 DEF PageIInv, PageShape
  <2> QED BY <1>1, <2>1, <2>2 DEF PageIInv, PageShape
<1> QED BY <1>2, <1>3, <1>4, <1>5 DEF PageIInv

\* A failed call leaves its row as it is, and unsure.
LEMMA RefusedPage ==
  ASSUME PageIInv, IInv', NEW c \in calls, Answered(c), c.at = "refused" PROVE PageIInv'
<1>1. calls' = calls \ {c} /\ shown' = shown /\ db' = db
  BY DEF Answered, Shows, vars
<1>2. unsure' = (unsure \ Told(c)) \cup Told(c)
  BY DEF Answered, Told
<1>3. ShownRight'
  <2> SUFFICES ASSUME NEW v \in User \ unsure', \A k \in About(v, calls') : k.at \in {"sent", "found"}
               PROVE  Lookup(shown, v) = Lookup(db, v)
    BY <1>1 DEF ShownRight
  <2>1. v \notin Told(c) /\ v \in User \ unsure
    BY <1>2
  <2>2. v \notin c.of
    BY <2>1 DEF Told, PageIInv, CallsRight, CallOK
  <2>3. About(v, calls) = About(v, calls')
    BY <1>1, <2>2 DEF About
  <2> QED BY <2>1, <2>3 DEF PageIInv, ShownRight
<1>4. shown' \in Rows
  BY <1>1 DEF PageIInv, PageShape
<1> QED BY <1>1, <1>3, <1>4, AnsweredRest

\* The list of a visit: nothing but changes since it was read can be wrong.
LEMMA ListPage ==
  ASSUME PageIInv, IInv', NEW c \in calls, Answered(c), c.at = "read", c.kind = "list"
  PROVE  PageIInv'
<1>1. calls' = calls \ {c} /\ shown' = c.rows /\ db' = db /\ unsure' = (unsure \ User) \cup (User \cap c.old)
  BY DEF Answered, Shows, vars
<1>2. CallOK(c, shown, db) /\ c.rows \in Rows
  BY DEF PageIInv, CallsRight, CallOK, CallState
<1>3. calls = {c} /\ shown = NoRows
  BY DEF PageIInv, ListAlone
<1>4. ShownRight'
  BY <1>1, <1>2 DEF ShownRight, CallOK, Told
<1> QED BY <1>1, <1>2, <1>3, <1>4, NoRowsMap, AnsweredRest

\* The row a change answers with replaces the one that is shown.
LEMMA SetPage ==
  ASSUME PageIInv, IInv', NEW c \in calls, Answered(c), c.at = "read", c.kind = "set"
  PROVE  PageIInv'
<1>1. /\ calls' = calls \ {c} /\ db' = db
      /\ shown' = [u \in DOMAIN shown |-> IF u \in DOMAIN c.rows THEN c.rows[u] ELSE shown[u]]
      /\ unsure' = (unsure \ c.of) \cup (c.of \cap c.old)
  BY DEF Answered, Shows, vars
<1>2. CallOK(c, shown, db) /\ c.rows \in Rows /\ shown \in Rows
  BY DEF PageIInv, CallsRight, CallOK, CallState, PageShape
<1>3. PICK u \in User : c.of = {u}
  BY <1>2 DEF CallOK
<1>4. /\ DOMAIN c.rows = {u} /\ c.rows \in [{u} -> Info]
      /\ u \in DOMAIN db => u \in DOMAIN shown
      /\ u \notin c.old => Lookup(c.rows, u) = Lookup(db, u)
  BY <1>2, <1>3, RowsMap DEF CallOK, Told
<1>5. DOMAIN shown \subseteq User /\ shown \in [DOMAIN shown -> Info]
  BY <1>2, RowsMap
<1>6. /\ shown' \in [DOMAIN shown -> Info]
      /\ u \in DOMAIN shown => shown'[u] = c.rows[u]
      /\ \A v \in DOMAIN shown : v # u => shown'[v] = shown[v]
  BY <1>1, <1>4, <1>5
<1>7. shown' \in Rows /\ DOMAIN shown' = DOMAIN shown
  BY <1>5, <1>6, MapRows
<1>8. ShownRight'
  <2> SUFFICES ASSUME NEW v \in User \ unsure', \A k \in About(v, calls') : k.at \in {"sent", "found"}
               PROVE  Lookup(shown', v) = Lookup(db, v)
    BY <1>1 DEF ShownRight
  <2>1. CASE v = u
    <3>1. Lookup(c.rows, u) = Lookup(db, u)
      BY <1>1, <1>3, <1>4, <2>1
    <3>2. u \in DOMAIN db
      BY <1>4, <3>1, LookupNone
    <3>3. Lookup(shown', u) = Lookup(c.rows, u)
      BY <1>4, <1>6, <1>7, <3>2, LookupSame
    <3> QED BY <2>1, <3>1, <3>3
  <2>2. CASE v # u
    <3>1. About(v, calls) = About(v, calls') /\ v \notin unsure
      BY <1>1, <1>3, <2>2 DEF About
    <3>2. Lookup(shown', v) = Lookup(shown, v)
      BY <1>6, <1>7, <2>2, LookupSame
    <3> QED BY <3>1, <3>2 DEF PageIInv, ShownRight
  <2> QED BY <2>1, <2>2
<1> QED BY <1>7, <1>8, AnsweredRest

\* A removed user is gone from the table for good, and now from the page.
LEMMA GonePage ==
  ASSUME PageIInv, IInv', NEW c \in calls, Answered(c), c.at = "read", c.kind = "remove"
  PROVE  PageIInv'
<1>1. /\ calls' = calls \ {c} /\ db' = db
      /\ shown' = [u \in DOMAIN shown \ c.of |-> shown[u]]
      /\ unsure' = (unsure \ c.of) \cup (c.of \cap c.old)
  BY DEF Answered, Shows, vars
<1>2. CallOK(c, shown, db) /\ shown \in Rows
  BY DEF PageIInv, CallsRight, PageShape
<1>3. PICK u \in User : c.of = {u}
  BY <1>2 DEF CallOK
<1>4. u \notin DOMAIN db
  BY <1>2, <1>3 DEF CallOK
<1>5. DOMAIN shown \subseteq User /\ shown \in [DOMAIN shown -> Info]
  BY <1>2, RowsMap
<1>6. /\ shown' \in [DOMAIN shown \ {u} -> Info]
      /\ \A v \in DOMAIN shown \ {u} : shown'[v] = shown[v]
  BY <1>1, <1>3, <1>5
<1>7. shown' \in Rows /\ DOMAIN shown' = DOMAIN shown \ {u}
  BY <1>5, <1>6, MapRows
<1>8. ShownRight'
  <2> SUFFICES ASSUME NEW v \in User \ unsure', \A k \in About(v, calls') : k.at \in {"sent", "found"}
               PROVE  Lookup(shown', v) = Lookup(db, v)
    BY <1>1 DEF ShownRight
  <2>1. CASE v = u
    BY <1>4, <1>7, <2>1, LookupNone
  <2>2. CASE v # u
    <3>1. About(v, calls) = About(v, calls') /\ v \notin unsure
      BY <1>1, <1>3, <2>2 DEF About
    <3>2. Lookup(shown', v) = Lookup(shown, v)
      BY <1>6, <1>7, <2>2, LookupSame
    <3> QED BY <3>1, <3>2 DEF PageIInv, ShownRight
  <2> QED BY <2>1, <2>2
<1> QED BY <1>4, <1>7, <1>8, AnsweredRest

LEMMA AnsweredPage == ASSUME PageIInv, IInv', NEW c \in calls, Answered(c) PROVE PageIInv'
<1>1. c.at \in {"read", "refused"} /\ c.kind \in {"list", "set", "remove"}
  BY DEF Answered, PageIInv, CallsRight, CallOK, CallState
<1> QED BY <1>1, RefusedPage, ListPage, SetPage, GonePage

-----------------------------------------------------------------------------
\* Requests and invalidations change neither the page nor the table.
LEMMA QuietPage == ASSUME PageIInv, IInv', db' = db, UNCHANGED page PROVE PageIInv'
<1>1. CallsRight' /\ ListAlone' /\ DialogShown' /\ ShownRight'
  BY DEF PageIInv, page, CallsRight, ListAlone, DialogShown, ShownRight, About
<1>2. PageShape'
  BY DEF PageIInv, page, PageShape
<1> QED BY <1>1, <1>2 DEF PageIInv

LEMMA PageIInvNext == ASSUME PageIInv, [PageNext]_pageVars PROVE PageIInv'
<1>1. CallsAboutUsers
  BY DEF PageIInv, CallsRight, CallOK, CallState, CallsAboutUsers
<1>2. IInv'
  BY <1>1, PageSteps, NextIInv DEF PageIInv
<1>3. CASE Open \/ Cancel
  BY <1>2, <1>3, OpenPage, CancelPage
<1>4. CASE \E u \in User : ToggleActive(u)
  BY <1>2, <1>4, TogglePage
<1>5. CASE \E d \in Dialog : Ask(d) \/ Confirm(d)
  BY <1>2, <1>5, AskPage, ConfirmPage
<1>6. ASSUME NEW c \in calls, FindUser(c) \/ Commit(c) \/ Drop(c) \/ Read(c) \/ Lost(c) \/ Answered(c)
      PROVE  PageIInv'
  BY <1>2, <1>6, FindUserPage, CommitPage, DropPage, ReadPage, LostPage, AnsweredPage
<1>7. CASE \E u \in User : OthersCommit(u)
  BY <1>2, <1>7, OthersCommitPage
<1>8. CASE (\E u \in User : OthersDrop(u)) \/ Requests \/ UNCHANGED pageVars
  <2>1. db' = db /\ UNCHANGED page
    BY <1>8 DEF OthersDrop, Invalidate, Requests, Miss, FindById, Fill, pageVars, vars
  <2> QED BY <1>2, <2>1, QuietPage
<1>9. CASE ProcessEnds
  BY <1>2, <1>9, ProcessEndsPage
<1> QED BY <1>3, <1>4, <1>5, <1>6, <1>7, <1>8, <1>9 DEF PageNext

\* The page, its dialog and its calls keep their types: at most one dialog is
\* open, and a row that waits is a row some change underway will answer.
LEMMA PageTyped == PageIInv => PageTypeOK
<1> SUFFICES ASSUME PageIInv PROVE PageTypeOK
  OBVIOUS
<1>1. Cardinality(dialog) <= 1
  <2>1. CASE dialog = {}
    BY <2>1, FS_EmptySet
  <2>2. ASSUME NEW d \in Dialog, dialog = {d} PROVE Cardinality(dialog) <= 1
    <3>1. Cardinality({d}) = 1
      BY FS_Singleton
    <3> QED BY <2>2, <3>1
  <2> QED BY <2>1, <2>2 DEF PageIInv, PageShape
<1>2. calls \subseteq CallState
  BY DEF PageIInv, CallsRight, CallOK
<1>3. \A u \in pendingId : \E c \in About(u, calls) : c.kind = "set"
  BY DEF PageIInv, PageShape, About
<1> QED BY <1>1, <1>2, <1>3 DEF PageIInv, IInv, PageShape, PageTypeOK

LEMMA PageSettled == PageIInv => SettledRowsTellTheTruth
BY DEF PageIInv, ShownRight, About, SettledRowsTellTheTruth

\* Every row of the page that waits (pendingId) will be released by an answer,
\* and the page, its calls and UsersService's table and map keep their types.
THEOREM PageTypes == PageSpec => []PageTypeOK
BY InitPage, PageIInvNext, PageTyped, PTL DEF PageSpec

\* Once its calls are answered the users page shows each user as the users
\* table has them, unless somebody else changed the user, calls about the user
\* overlapped or one failed: whatever the order in which answers arrive.
THEOREM PageTellsTheTruth == PageSpec => []SettledRowsTellTheTruth
BY InitPage, PageIInvNext, PageSettled, PTL DEF PageSpec

-----------------------------------------------------------------------------
(***************************************************************************)
(* The list of the search box belongs to the text in it, for every set of  *)
(* texts.  The property speaks of a box at rest only; what carries it over *)
(* the steps in between is what distinctUntilChanged has let through last: *)
(* the search underway is for it, the rows are of it, and once the timer   *)
(* has fired it is the text in the box.                                    *)
(***************************************************************************)

\* A search as the component sends it, and its answer once there is one.
Searches == [of : Query \ Short, answer : SUBSET Result]

\* The search underway is for the text let through last; its answer, once the
\* API has given one, says what there is for that text.
CallForLast ==
  \A c \in call :
    /\ c \in Searches /\ last = {c.of}
    /\ \A r \in c.answer : r.of = c.of /\ \A s \in c.answer : r = s

\* With no timer running the text in the box has been let through, unless
\* nothing has been typed yet.
LastIsBox == ~timer /\ alive => last = {query} \/ (last = {} /\ query \in Short)

\* With no search underway the rows are those of the text let through last.
RowsOfLast ==
  call = {} /\ alive =>
    /\ last = {} => results = {}
    /\ \A q \in last : IF q \in Short THEN results = {}
                       ELSE /\ results = {} => cleared
                            /\ \A r \in results : r.of = q

\* Over a text too short the list is open only if an answer opened it.
OpenOverShort == query \in Short => (open => late)

SearchInv == SearchTypeOK /\ CallForLast /\ LastIsBox /\ RowsOfLast /\ OpenOverShort

LEMMA SearchInitInv == SearchInit => SearchInv
BY QueryAssumption DEF SearchInit, SearchInv, SearchTypeOK, CallForLast, LastIsBox, RowsOfLast, OpenOverShort

-----------------------------------------------------------------------------
(* One lemma for each step *)

LEMMA OnInputInv == ASSUME SearchInv, NEW q \in Query, OnInput(q) PROVE SearchInv'
BY DEF OnInput, SearchInv, SearchTypeOK, CallForLast, LastIsBox, RowsOfLast, OpenOverShort

LEMMA DebouncedInv == ASSUME SearchInv, Debounced PROVE SearchInv'
<1>1. timer' = FALSE /\ UNCHANGED <<query, open, alive, stored, late>>
  BY DEF Debounced
<1>2. OpenOverShort'
  BY <1>1 DEF SearchInv, OpenOverShort
<1>3. CASE last = {query}
  <2>1. UNCHANGED <<results, loading, last, call, active, cleared>>
    BY <1>3 DEF Debounced
  <2>2. SearchTypeOK'
    BY <1>1, <2>1 DEF SearchInv, SearchTypeOK
  <2>3. CallForLast' /\ LastIsBox' /\ RowsOfLast'
    BY <1>1, <1>3, <2>1 DEF SearchInv, CallForLast, LastIsBox, RowsOfLast
  <2> QED BY <1>2, <2>2, <2>3 DEF SearchInv
<1>4. CASE last # {query} /\ query \in Short
  <2>1. last' = {query} /\ results' = {} /\ call' = {} /\ loading' = FALSE /\ cleared' = FALSE
    BY <1>4 DEF Debounced, StopSearching
  <2>2. active' = 0
    BY <1>4 DEF Debounced, StopSearching, Finalized, stop, SearchInv, SearchTypeOK
  <2>3. SearchTypeOK'
    BY <1>1, <2>1, <2>2 DEF SearchInv, SearchTypeOK
  <2>4. CallForLast' /\ LastIsBox' /\ RowsOfLast'
    BY <1>1, <1>4, <2>1 DEF CallForLast, LastIsBox, RowsOfLast
  <2> QED BY <1>2, <2>3, <2>4 DEF SearchInv
<1>5. CASE last # {query} /\ query \notin Short
  <2> DEFINE c == [of |-> query, answer |-> {}]
  <2>1. last' = {query} /\ call' = {c} /\ loading' = TRUE /\ cleared' = FALSE /\ results' = results
    BY <1>5 DEF Debounced, Search
  <2>2. active' = 1
    BY <1>5 DEF Debounced, Search, Finalized, start, stop, SearchInv, SearchTypeOK
  <2>3. c \in Searches /\ c.of = query /\ c.answer = {} /\ query \in Query \ Short
    BY <1>5 DEF Searches, SearchInv, SearchTypeOK
  <2> HIDE DEF c
  <2>4. SearchTypeOK'
    BY <1>1, <2>1, <2>2, <2>3 DEF SearchInv, SearchTypeOK
  <2>5. CallForLast'
    BY <2>1, <2>3 DEF CallForLast
  <2>6. LastIsBox' /\ RowsOfLast'
    BY <1>1, <2>1 DEF LastIsBox, RowsOfLast
  <2> QED BY <1>2, <2>4, <2>5, <2>6 DEF SearchInv
<1> QED BY <1>3, <1>4, <1>5

LEMMA ServeInv == ASSUME SearchInv, NEW c \in call, Serve(c) PROVE SearchInv'
<1> DEFINE row == [of |-> c.of, hasResults |-> c.of \in stored \ Blank]
<1>1. c \in Searches /\ last = {c.of} /\ row \in Result
  BY DEF SearchInv, CallForLast, Searches, Result
<1> DEFINE d == [c EXCEPT !.answer = {row}]
<1>2. d \in Searches /\ d.of = c.of /\ d.answer = {row}
  BY <1>1 DEF Searches
<1>3. call' = {d}
  BY DEF Serve
<1>4. UNCHANGED <<query, results, loading, open, timer, last, alive, active, stored, cleared, late>>
  BY DEF Serve
<1> HIDE DEF d
<1>5. SearchTypeOK'
  BY <1>1, <1>2, <1>3, <1>4 DEF SearchInv, SearchTypeOK, Searches
<1>6. CallForLast'
  BY <1>1, <1>2, <1>3, <1>4 DEF CallForLast
<1>7. LastIsBox' /\ RowsOfLast' /\ OpenOverShort'
  BY <1>3, <1>4 DEF SearchInv, LastIsBox, RowsOfLast, OpenOverShort
<1> QED BY <1>5, <1>6, <1>7 DEF SearchInv

LEMMA AnsweredInv == ASSUME SearchInv, NEW c \in call, SearchAnswered(c) PROVE SearchInv'
<1>1. /\ c.of \in Query \ Short /\ c.answer \subseteq Result /\ last = {c.of}
      /\ \A r \in c.answer : r.of = c.of /\ \A s \in c.answer : r = s
  BY DEF SearchInv, CallForLast, Searches
<1>2. active' = 0 /\ call' = {} /\ results' = c.answer /\ c.answer # {} /\ loading' = FALSE
  BY DEF SearchAnswered, Finalized, stop, SearchInv, SearchTypeOK
<1>3. open' = TRUE /\ late' = (query \in Short) /\ UNCHANGED <<query, timer, last, alive, stored, cleared>>
  BY DEF SearchAnswered
<1>4. SearchTypeOK'
  <2>1. late' \in BOOLEAN
    <3>1. late' = (query \in Short)
      BY <1>3
    <3>2. CASE query \in Short
      BY <3>1, <3>2
    <3>3. CASE query \notin Short
      BY <3>1, <3>3
    <3> QED BY <3>2, <3>3
  <2>2. loading' = (call' # {})
    BY <1>2, Zenon
  <2> QED BY <1>1, <1>2, <1>3, <2>1, <2>2 DEF SearchInv, SearchTypeOK
<1>5. CallForLast' /\ LastIsBox' /\ OpenOverShort'
  BY <1>2, <1>3 DEF SearchInv, CallForLast, LastIsBox, OpenOverShort
<1>6. RowsOfLast'
  BY <1>1, <1>2, <1>3 DEF RowsOfLast
<1> QED BY <1>4, <1>5, <1>6 DEF SearchInv

LEMMA FailedInv == ASSUME SearchInv, NEW c \in call, SearchFailed(c) PROVE SearchInv'
<1>1. active' = 0
  BY DEF SearchFailed, Finalized, stop, SearchInv, SearchTypeOK
<1>2. /\ call' = {} /\ loading' = FALSE /\ alive' = FALSE /\ timer' = FALSE
      /\ UNCHANGED <<query, results, open, last, stored, cleared, late>>
  BY DEF SearchFailed
<1>3. SearchTypeOK'
  BY <1>1, <1>2 DEF SearchInv, SearchTypeOK
<1>4. CallForLast' /\ LastIsBox' /\ RowsOfLast' /\ OpenOverShort'
  BY <1>2 DEF SearchInv, CallForLast, LastIsBox, RowsOfLast, OpenOverShort
<1> QED BY <1>3, <1>4 DEF SearchInv

LEMMA CloseInv == ASSUME SearchInv, Close PROVE SearchInv'
<1>1. open' = FALSE /\ UNCHANGED <<query, results, loading, timer, last, call, alive, active, stored, cleared, late>>
  BY DEF Close
<1> QED BY <1>1 DEF SearchInv, SearchTypeOK, CallForLast, LastIsBox, RowsOfLast, OpenOverShort

LEMMA TablesInv == ASSUME SearchInv, TablesChange PROVE SearchInv'
<1>1. /\ stored' \subseteq Query
      /\ UNCHANGED <<query, results, loading, open, timer, last, call, alive, active, cleared, late>>
  BY DEF TablesChange
<1> QED BY <1>1 DEF SearchInv, SearchTypeOK, CallForLast, LastIsBox, RowsOfLast, OpenOverShort

LEMMA StutterInv == ASSUME SearchInv, UNCHANGED searchVars PROVE SearchInv'
BY DEF searchVars, SearchInv, SearchTypeOK, CallForLast, LastIsBox, RowsOfLast, OpenOverShort

LEMMA SearchInvariance == SearchSpec => []SearchInv
<1>1. SearchInv /\ [SearchNext]_searchVars => SearchInv'
  BY OnInputInv, DebouncedInv, ServeInv, AnsweredInv, FailedInv, CloseInv, TablesInv, StutterInv DEF SearchNext
<1> QED BY <1>1, SearchInitInv, PTL DEF SearchSpec

-----------------------------------------------------------------------------
\* The spinner and the loading bar are up exactly while a search is underway,
\* for however many searches given up, failed or answered in between.
THEOREM BarTellsTheTruth == SearchSpec => []SearchTypeOK
<1>1. SearchInv => SearchTypeOK
  BY DEF SearchInv
<1> QED BY <1>1, SearchInvariance, PTL

\* A box at rest lists what was found for its text and nothing else, but for
\* the three exceptions that the property names.
THEOREM ListBelongsToTheText == SearchSpec => []ListAnswersTheBox
<1>1. SearchInv => ListAnswersTheBox
  BY DEF SearchInv, LastIsBox, RowsOfLast, OpenOverShort, Settled, ListAnswersTheBox
<1> QED BY <1>1, SearchInvariance, PTL
=============================================================================
