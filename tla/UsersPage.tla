------------------------------ MODULE UsersPage ------------------------------
(***************************************************************************)
(* The users page of an administrator over the table and the cache of      *)
(* AuthCache: each change it asks for is a statement, an invalidation and  *)
(* a second query for the row that the answer carries, while other         *)
(* administrators, the account flows and an earlier visit of the page      *)
(* change users too.  The page reads the list once, when it is opened, and *)
(* from then on replaces or drops rows as its own calls are answered.      *)
(* What may be changed of a user is one value, Info.                       *)
(***************************************************************************)
EXTENDS AuthCache, FiniteSets

CONSTANTS MaxActs,    \* bound: visits of the page and calls it sends
          Failures    \* whether calls fail

ASSUME ActsAssumption == MaxActs \in Nat

VARIABLES
  shown,      \* the signal users: rows by id
  pendingId,  \* the row that waits for an answer: one at most
  dialog,     \* pendingRoleChange, permissionsPanel or pendingDelete, if open
  calls,      \* the calls of this visit that are underway
  acts,       \* visits and calls so far
  unsure      \* history: users the page cannot be expected to show right

page == <<shown, pendingId, dialog, calls, acts, unsure>>
pageVars == <<vars, page>>

Dialog == [kind : {"role", "permissions", "remove"}, of : User]

\* Users by id.
Rows == UNION {[users -> Info] : users \in SUBSET User}

\* Where a call is: sent, found (by remove), committed, dropped (from the
\* cache), read or refused.  rows: what it answers; old: the users among them
\* that changed since.
CallState == [n : Nat, kind : {"list", "set", "remove"}, of : SUBSET User,
              at : {"sent", "found", "committed", "dropped", "read", "refused"},
              rows : Rows, old : SUBSET User]

About(u, cs) == {c \in cs : u \in c.of}

\* A row that waits for an answer will get one: its buttons come back.
PageTypeOK ==
  /\ TypeOK
  /\ shown \in Rows
  /\ pendingId \subseteq User
  /\ dialog \subseteq Dialog /\ Cardinality(dialog) <= 1
  /\ \A u \in pendingId : \E c \in About(u, calls) : c.kind = "set"
  /\ calls \subseteq CallState
  /\ acts \in 0..MaxActs
  /\ unsure \subseteq User

NoRows == [u \in {} |-> {}]

NewCall(n, kind, of) == [n |-> n, kind |-> kind, of |-> of, at |-> "sent", rows |-> NoRows, old |-> {}]

PageInit ==
  /\ Init
  /\ shown = NoRows
  /\ pendingId = {} /\ dialog = {}
  /\ calls = {NewCall(0, "list", {})}
  /\ acts = 0
  /\ unsure = User

-----------------------------------------------------------------------------
(* The page *)

Act == acts < MaxActs /\ acts' = acts + 1 /\ UNCHANGED vars

\* ngOnInit of another visit.  The calls of the one before go on without it.
Open ==
  /\ Act
  /\ shown' = NoRows
  /\ pendingId' = {} /\ dialog' = {}
  /\ calls' = {NewCall(0, "list", {})}
  /\ unsure' = User

Sends(u, kind) ==
  /\ Act
  /\ calls' = calls \cup {NewCall(CHOOSE n \in 0..Cardinality(calls) : \A c \in calls : c.n # n, kind, {u})}
  /\ pendingId' = IF kind = "set" THEN {u} ELSE pendingId
  /\ UNCHANGED <<shown, unsure>>

\* The button and the menu of the role are disabled on the row that waits.
ToggleActive(u) ==
  /\ dialog = {}
  /\ u \in DOMAIN shown \ pendingId
  /\ Sends(u, "set")
  /\ UNCHANGED dialog

\* askRoleChange, openPermissions and askDelete open a dialog over the page,
\* the last two on any row.
Ask(d) ==
  /\ dialog = {}
  /\ d.of \in DOMAIN shown
  /\ d.kind = "role" => d.of \notin pendingId
  /\ dialog' = {d}
  /\ UNCHANGED <<vars, shown, pendingId, calls, acts, unsure>>

Cancel ==
  /\ dialog # {}
  /\ dialog' = {}
  /\ UNCHANGED <<vars, shown, pendingId, calls, acts, unsure>>

\* confirmRoleChange, savePermissions and confirmDelete; only the first two
\* mark the row.
Confirm(d) ==
  /\ d \in dialog
  /\ dialog' = {}
  /\ Sends(d.of, IF d.kind = "remove" THEN "remove" ELSE "set")

-----------------------------------------------------------------------------
(* Faulty variants: <definition>_<fault> is not part of the specification; *)
(* it stands for a plausible mistake in the code that a property catches.  *)

\* The answer to a removal drops the row whose dialog is open by then.
Shows_Asked(c) ==
  shown' = IF c.at = "refused" THEN shown
           ELSE IF c.kind = "list" THEN c.rows
           ELSE IF c.kind = "set" THEN [u \in DOMAIN shown |-> IF u \in DOMAIN c.rows THEN c.rows[u] ELSE shown[u]]
           ELSE [u \in DOMAIN shown \ {d.of : d \in dialog} |-> shown[u]]

\* A refused change leaves its row waiting.
Release_OnSuccess(c) ==
  pendingId' = IF c.kind = "set" /\ c.at = "read" THEN {} ELSE pendingId

-----------------------------------------------------------------------------
\* The list is taken as it is; a row that a change answers is replaced where
\* the page still shows it; a removed one is left out.
Shows(c) ==
  shown' = IF c.at = "refused" THEN shown
           ELSE IF c.kind = "list" THEN c.rows
           ELSE IF c.kind = "set" THEN [u \in DOMAIN shown |-> IF u \in DOMAIN c.rows THEN c.rows[u] ELSE shown[u]]
           ELSE [u \in DOMAIN shown \ c.of |-> shown[u]]

\* pendingId.set(null), whichever row it was.
Release(c) == pendingId' = IF c.kind = "set" THEN {} ELSE pendingId

\* A call is answered.  What that tells of a user is right unless the user has
\* changed since it was read.
Answered(c) ==
  /\ c.at \in {"read", "refused"}
  /\ calls' = calls \ {c}
  /\ Release(c)
  /\ Shows(c)
  /\ LET told == IF c.kind = "list" THEN User ELSE c.of
     IN  unsure' = (unsure \ told) \cup IF c.at = "refused" THEN told ELSE told \cap c.old
  /\ UNCHANGED <<vars, dialog, acts>>

-----------------------------------------------------------------------------
(* The API *)

\* u has changed: what calls have read of it is old.
Aged(u, cs) == {IF c.at = "read" THEN [c EXCEPT !.old = @ \cup {u}] ELSE c : c \in cs}

Moves(c, at) == (calls \ {c}) \cup {[c EXCEPT !.at = at]}

\* remove() looks for the user first.
FindUser(c) ==
  /\ c.kind = "remove" /\ c.at = "sent"
  /\ calls' = Moves(c, IF c.of \subseteq DOMAIN db THEN "found" ELSE "refused")
  /\ UNCHANGED <<vars, shown, pendingId, dialog, acts, unsure>>

\* The statement of a change or a removal.  A change is of one column: which
\* Info comes of it depends on the row.  Either may find the user gone.
Commit(c) ==
  /\ \E u \in c.of :
       /\ \/ /\ c.kind = "set" /\ c.at = "sent"
             /\ (\E info \in Info : Update(u, info)) \/ UpdateNoRow(u)
          \/ /\ c.kind = "remove" /\ c.at = "found"
             /\ Remove(u) \/ UpdateNoRow(u)
       /\ calls' = Aged(u, calls \ {c}) \cup {[c EXCEPT !.at = "committed"]}
  /\ UNCHANGED <<shown, pendingId, dialog, acts, unsure>>

\* Then the cache drops the user, and a removal is answered.
Drop(c) ==
  /\ c.at = "committed"
  /\ \E u \in c.of : Invalidate(u)
  /\ calls' = Moves(c, IF c.kind = "remove" THEN "read" ELSE "dropped")
  /\ UNCHANGED <<shown, pendingId, dialog, acts, unsure>>

\* getByIdOrThrow and listAll: the rows that the answer carries.
Read(c) ==
  /\ <<c.kind, c.at>> \in {<<"list", "sent">>, <<"set", "dropped">>}
  /\ LET rows == IF c.kind = "list" THEN db ELSE [u \in c.of \cap DOMAIN db |-> db[u]]
     IN  calls' = (calls \ {c}) \cup
           {[c EXCEPT !.at = IF c.kind = "set" /\ rows = NoRows THEN "refused" ELSE "read",
                      !.rows = rows]}
  /\ UNCHANGED <<vars, shown, pendingId, dialog, acts, unsure>>

\* A call, or only its answer, is lost.
Lost(c) ==
  /\ Failures
  /\ c.at \in {"sent", "read"}
  /\ calls' = (calls \ {c}) \cup {[c EXCEPT !.at = "refused", !.rows = NoRows, !.old = {}]}
  /\ UNCHANGED <<vars, shown, pendingId, dialog, acts, unsure>>

\* Somebody else changes or removes u.
OthersCommit(u) ==
  /\ (\E info \in Info : Update(u, info)) \/ Remove(u)
  /\ calls' = Aged(u, calls)
  /\ unsure' = unsure \cup {u}
  /\ UNCHANGED <<shown, pendingId, dialog, acts>>

OthersDrop(u) ==
  /\ dirty[u] > Cardinality({c \in About(u, calls) : c.at = "committed"})
  /\ Invalidate(u)
  /\ UNCHANGED page

Requests ==
  /\ \E r \in Request : FindById(r) \/ Fill(r) \/ \E u \in User : Miss(r, u)
  /\ UNCHANGED page

\* The process ends with the calls it was serving, and starts again.
ProcessEnds ==
  /\ Restart
  /\ calls' = {IF c.at = "read" THEN c ELSE [c EXCEPT !.at = "refused"] : c \in calls}
  /\ UNCHANGED <<shown, pendingId, dialog, acts, unsure>>

PageNext ==
  \/ Open
  \/ \E u \in User : ToggleActive(u)
  \/ \E d \in Dialog : Ask(d) \/ Confirm(d)
  \/ Cancel
  \/ \E c \in calls : FindUser(c) \/ Commit(c) \/ Drop(c) \/ Read(c) \/ Lost(c) \/ Answered(c)
  \/ \E u \in User : OthersCommit(u) \/ OthersDrop(u)
  \/ Requests
  \/ ProcessEnds

PageSpec == PageInit /\ [][PageNext]_pageVars

-----------------------------------------------------------------------------
\* With no call underway the page shows every user as the table has them, and
\* shows no user it does not have, unless somebody else changed the user, two
\* calls about the user overlapped or one failed after the last right answer.
SettledRowsTellTheTruth ==
  calls = {} => \A u \in User \ unsure : Lookup(shown, u) = Lookup(db, u)
=============================================================================
