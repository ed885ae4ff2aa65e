------------------------------ MODULE AuthCache ------------------------------
(***************************************************************************)
(* UsersService keeps the role and permissions of users in an in-memory    *)
(* map that JwtStrategy reads on every request.  A miss reads the user     *)
(* from the database and fills the map afterwards; a change of the user    *)
(* commits in the database and drops the map's entry afterwards.  Both are *)
(* two steps with an await between them, and any number of requests and    *)
(* changes may be underway at once.                                        *)
(***************************************************************************)
EXTENDS Naturals

CONSTANTS User,
          Info,        \* values of role, permissions and isActive
          Request,     \* requests that may be validated at the same time
          MaxChanges   \* bound: changes of users

ASSUME BoundAssumption == MaxChanges \in Nat

VARIABLES db,      \* the users table: users that exist, with their Info
          cache,   \* authCache
          phase,   \* of each validate(): "idle", "asked" or "found"
          about,   \* the user a request comes from
          found,   \* what its findById returned: one Info, or none
          dirty,   \* changes committed whose invalidation is outstanding
          raced,   \* history: users changed between a read and its fill
          changes  \* statements that change or remove a user

vars == <<db, cache, phase, about, found, dirty, raced, changes>>

TypeOK ==
  /\ DOMAIN db \subseteq User /\ db \in [DOMAIN db -> Info]
  /\ DOMAIN cache \subseteq User /\ cache \in [DOMAIN cache -> Info]
  /\ phase \in [Request -> {"idle", "asked", "found"}]
  /\ about \in [Request -> User]
  /\ found \in [Request -> SUBSET Info]
  /\ dirty \in [User -> Nat]
  /\ raced \subseteq User
  /\ changes \in 0..MaxChanges

Init ==
  /\ db \in [User -> Info]
  /\ cache = [u \in {} |-> {}]
  /\ phase = [r \in Request |-> "idle"]
  /\ about \in [Request -> User]
  /\ found = [r \in Request |-> {}]
  /\ dirty = [u \in User |-> 0]
  /\ raced = {}
  /\ changes = 0

-----------------------------------------------------------------------------
Put(map, u, info) == [x \in DOMAIN map \cup {u} |-> IF x = u THEN info ELSE map[x]]
Without(map, u) == [x \in DOMAIN map \ {u} |-> map[x]]

\* The row of u as a set: one Info, or none if the user was deleted.
Lookup(map, u) == {map[x] : x \in DOMAIN map \cap {u}}

\* getAuthInfo without an entry in the map: the query is sent.  With one the
\* entry is the answer, and nothing changes.
Miss(r, u) ==
  /\ phase[r] = "idle"
  /\ u \notin DOMAIN cache
  /\ about' = [about EXCEPT ![r] = u]
  /\ phase' = [phase EXCEPT ![r] = "asked"]
  /\ UNCHANGED <<db, cache, found, dirty, raced, changes>>

\* The database reads the row.
FindById(r) ==
  /\ phase[r] = "asked"
  /\ found' = [found EXCEPT ![r] = Lookup(db, about[r])]
  /\ phase' = [phase EXCEPT ![r] = "found"]
  /\ UNCHANGED <<db, cache, about, dirty, raced, changes>>

(* Faulty variants: <definition>_<fault> is not part of the specification; *)
(* it stands for a plausible mistake in the code that a property catches.  *)

\* A user that was not found is remembered too.
Fill_CacheNull(r) ==
  /\ phase[r] = "found"
  /\ cache' = Put(cache, about[r], CHOOSE info \in found[r] \cup {"null"} :
                                     found[r] # {} => info \in found[r])
  /\ found' = [found EXCEPT ![r] = {}]
  /\ phase' = [phase EXCEPT ![r] = "idle"]
  /\ UNCHANGED <<db, about, dirty, raced, changes>>

\* getAuthInfo goes on with what was read, and validate answers; a user not
\* found is not remembered, and the claims of the token are used instead.
Fill(r) ==
  /\ phase[r] = "found"
  /\ cache' = IF found[r] = {} THEN cache
              ELSE Put(cache, about[r], CHOOSE info \in found[r] : TRUE)
  /\ found' = [found EXCEPT ![r] = {}]
  /\ phase' = [phase EXCEPT ![r] = "idle"]
  /\ UNCHANGED <<db, about, dirty, raced, changes>>

\* A committed change of u: reads of u that are on their way back are old.
Committed(u) ==
  /\ changes < MaxChanges
  /\ changes' = changes + 1
  /\ dirty' = [dirty EXCEPT ![u] = @ + 1]
  /\ raced' = IF \E r \in Request : phase[r] = "found" /\ about[r] = u
              THEN raced \cup {u} ELSE raced
  /\ UNCHANGED <<cache, phase, about, found>>

\* update(), behind setActive, setRole, setPermissions and the account flows.
Update(u, info) ==
  /\ u \in DOMAIN db
  /\ db' = Put(db, u, info)
  /\ Committed(u)

\* An update of a user that does not exist changes no row; the invalidation
\* follows all the same.
UpdateNoRow(u) ==
  /\ u \notin DOMAIN db
  /\ changes < MaxChanges
  /\ changes' = changes + 1
  /\ dirty' = [dirty EXCEPT ![u] = @ + 1]
  /\ UNCHANGED <<db, cache, phase, about, found, raced>>

\* remove() does not invalidate the entry.
Remove_NoInvalidate(u) ==
  /\ u \in DOMAIN db
  /\ db' = Without(db, u)
  /\ changes < MaxChanges
  /\ changes' = changes + 1
  /\ raced' = IF \E r \in Request : phase[r] = "found" /\ about[r] = u THEN raced \cup {u} ELSE raced
  /\ UNCHANGED <<cache, phase, about, found, dirty>>

\* remove(): the row is deleted.
Remove(u) ==
  /\ u \in DOMAIN db
  /\ db' = Without(db, u)
  /\ Committed(u)

\* invalidateAuthInfo, once the statement's promise resolves.  With it the
\* change is done; an old read underway can still bring the old entry back.
Invalidate(u) ==
  /\ dirty[u] > 0
  /\ dirty' = [dirty EXCEPT ![u] = @ - 1]
  /\ cache' = Without(cache, u)
  /\ raced' = IF \E r \in Request : phase[r] = "found" /\ about[r] = u /\ found[r] # Lookup(db, u)
              THEN raced ELSE raced \ {u}
  /\ UNCHANGED <<db, phase, about, found, changes>>

\* The process ends and starts again with an empty map.
Restart ==
  /\ cache' = [u \in {} |-> {}]
  /\ phase' = [r \in Request |-> "idle"]
  /\ found' = [r \in Request |-> {}]
  /\ dirty' = [u \in User |-> 0]
  /\ raced' = {}
  /\ UNCHANGED <<db, about, changes>>

Next ==
  \/ \E r \in Request, u \in User : Miss(r, u)
  \/ \E r \in Request : FindById(r) \/ Fill(r)
  \/ \E u \in User, info \in Info : Update(u, info)
  \/ \E u \in User : UpdateNoRow(u) \/ Remove(u) \/ Invalidate(u)
  \/ Restart

Spec == Init /\ [][Next]_vars

-----------------------------------------------------------------------------
\* The map disagrees with the table only while a change is between its commit
\* and its invalidation, or after a change that hit a user between a read and
\* its fill; the next change of the user that does not hit one heals it.
StaleOnlyByRace ==
  \A u \in DOMAIN cache : dirty[u] = 0 /\ u \notin raced => Lookup(db, u) = {cache[u]}
=============================================================================
