---------------------------- MODULE ClientSession ----------------------------
(***************************************************************************)
(* The session of one browser tab: its access token, the user of           *)
(* AuthService, the calls underway and the refresh they share.  A callback *)
(* of the client is a step; between the sending of a call and its answer   *)
(* the API serves it, the user signs out or in as somebody else, leaves    *)
(* the page or reloads it.  Answers come in any order.  The API is only    *)
(* what the client sees of it: an answer with a renewed token, or a 401.   *)
(* Another tab writes the same storage, which this one reads when it is    *)
(* loaded and, the refresh token, when it needs it.                        *)
(***************************************************************************)
CONSTANTS Account,
          Role,       \* what an access token says of its account
          Call,       \* HTTP calls that may be underway at once
          None

VARIABLES
  access,      \* the signal of the access token: its account and role
  stored,      \* the access token in storage: its account
  refresh,     \* the refresh token in storage: its account
  user,        \* AuthService.user
  calls,       \* the calls underway
  refreshing,  \* refresh$ of the error interceptor, or that of resumeSession
  role,        \* the API: the role of each account
  other,       \* the account of the other tab's access token
  owner,       \* history: who signed in last and has not been signed out
  split,       \* history: the other tab had another account, or one had none;
               \* the session has no owner then
  mixed,       \* history: answers of an earlier session were outstanding
  unsynced,    \* history: a refresh was answered with nobody waiting for it
  spent,       \* history: the API has exchanged the refresh token in storage
  missed       \* history: and the answer to that was not heard

storage == <<access, stored, refresh, user>>
history == <<owner, split, mixed, unsynced, spent, missed>>
vars == <<storage, calls, refreshing, role, other, history>>

AccessToken == [who : Account, role : Role]

\* A call: who its token is of, and what the answer brings.
CallState == [kind : {"data", "login", "logout"},
              at : {"sent", "served", "refused", "waiting"},
              who : Account \cup {None}, retried : BOOLEAN,
              role : Role \cup {None}]

\* The refresh underway: of whom, whether its token is still the one in
\* storage, and what the answer brings.
Refreshing == [who : Account, own : BOOLEAN, boot : BOOLEAN,
               at : {"sent", "served", "refused"}, role : Role \cup {None}]

\* None is no account and no role, and nothing that is there.
ASSUME NoneAssumption ==
  None \notin Account \cup Role \cup AccessToken \cup CallState \cup Refreshing

TypeOK ==
  /\ access \in AccessToken \cup {None}
  /\ stored \in Account \cup {None}
  /\ refresh \in Account \cup {None}
  /\ user \in AccessToken \cup {None}
  /\ calls \in [Call -> CallState \cup {None}]
  /\ refreshing \in Refreshing \cup {None}
  /\ role \in [Account -> Role]
  /\ other \in Account \cup {None}
  /\ owner \in Account \cup {None}
  /\ split \in BOOLEAN /\ mixed \in BOOLEAN /\ unsynced \in BOOLEAN /\ spent \in BOOLEAN /\ missed \in BOOLEAN

Init ==
  /\ access = None /\ stored = None /\ refresh = None /\ user = None
  /\ calls = [c \in Call |-> None]
  /\ refreshing = None
  /\ role \in [Account -> Role]
  /\ owner = None /\ other = None
  /\ split = FALSE /\ mixed = FALSE /\ unsynced = FALSE /\ spent = FALSE /\ missed = FALSE

-----------------------------------------------------------------------------
Open == {c \in Call : calls[c] # None}
Waiting == {c \in Open : calls[c].at = "waiting"}
Booting == refreshing # None /\ refreshing.boot
Unheard == refreshing # None /\ refreshing.at = "served"
At(c, where) == c \in Open /\ calls[c].at = where

SendCall(c, kind, who) ==
  calls' = [calls EXCEPT ![c] = [kind |-> kind, at |-> "sent", who |-> who,
                                 retried |-> FALSE, role |-> None]]

CallEnds(c) == calls' = [calls EXCEPT ![c] = None]

\* auth.refresh() sends the refresh token in storage.
SendRefresh(boot) ==
  refreshing' = [who |-> refresh, own |-> TRUE, boot |-> boot, at |-> "sent", role |-> None]

\* Storage is emptied or filled: a refresh underway has another token.
Disown == refreshing' = IF refreshing = None THEN None ELSE [refreshing EXCEPT !.own = FALSE]

(* Faulty variants: <definition>_<fault> is not part of the specification; *)
(* it stands for a plausible mistake in the code that a property catches.  *)

\* The claim is taken for the user.
SyncFromToken_Claim(token) == user' = token.role

\* The role and permissions follow the token, the rest stays.
SyncFromToken(token) == user' = IF user = None THEN token ELSE [user EXCEPT !.role = token.role]

\* Storage and user are emptied; a refresh underway can still fill them.
ClearSession ==
  /\ access' = None /\ stored' = None /\ refresh' = None /\ user' = None
  /\ owner' = None
  /\ split' = (other # None)
  /\ mixed' = (refreshing' # None)
  /\ unsynced' = FALSE /\ spent' = FALSE /\ missed' = FALSE
  /\ UNCHANGED <<role, other>>

-----------------------------------------------------------------------------
(* The user *)

\* A component asks for data, with the token of the moment.
Send(c) ==
  /\ calls[c] = None /\ ~Booting
  /\ SendCall(c, "data", IF access = None THEN None ELSE access.who)
  /\ UNCHANGED <<storage, refreshing, role, other, history>>

\* login(): the answer will set the session.
Login(c, a) ==
  /\ calls[c] = None /\ ~Booting
  /\ SendCall(c, "login", a)
  /\ UNCHANGED <<storage, refreshing, role, other, history>>

\* logout(): a call nobody waits for, and the session is cleared at once.
Logout(c) ==
  /\ calls[c] = None /\ ~Booting /\ access # None
  /\ SendCall(c, "logout", access.who)
  /\ Disown
  /\ ClearSession

\* A component that goes away drops its calls; any call may also fail with an
\* error other than 401, which nobody here looks at.
Drop(c) ==
  /\ c \in Open
  /\ calls[c].kind = "data" \/ calls[c].at = "sent"
  /\ CallEnds(c)
  /\ UNCHANGED <<storage, refreshing, role, other, history>>

\* One account in storage, and in the other tab: the tabs agree again.
Rejoin ==
  LET agreed == stored # None /\ refresh = stored /\ other \in {None, refresh}
  IN  /\ split' = (split /\ ~agreed)
      /\ owner' = IF split /\ agreed THEN refresh ELSE owner

\* The page is loaded again: calls and refresh are forgotten, the storage is
\* not, and resumeSession decides with it, the access token being expired or not.
\* What is in storage then is the session of this tab, whatever role it says.
Reload(expired) ==
  /\ calls' = [c \in Call |-> None]
  /\ \/ /\ stored # None /\ ~expired
        /\ \E r \in Role : access' = [who |-> stored, role |-> r]
        /\ user' = access'
        /\ Rejoin
        /\ refreshing' = None
        /\ unsynced' = FALSE
        /\ missed' = (missed \/ Unheard)
        /\ UNCHANGED <<stored, refresh, role, other, mixed, spent>>
     \/ /\ stored = None \/ expired
        /\ refresh # None
        /\ \/ stored = None /\ access' = None
           \/ stored # None /\ \E r \in Role : access' = [who |-> stored, role |-> r]
        /\ user' = None
        /\ Rejoin
        /\ SendRefresh(TRUE)
        /\ missed' = (missed \/ Unheard)
        /\ UNCHANGED <<stored, refresh, role, other, mixed, unsynced, spent>>
     \/ /\ stored = None \/ expired
        /\ refresh = None
        /\ refreshing' = None
        /\ ClearSession

-----------------------------------------------------------------------------
(* The API *)

\* A call is served, and its answer brings a renewed access token.
Serve(c) ==
  /\ At(c, "sent") /\ calls[c].kind # "login" /\ calls[c].who # None
  /\ calls' = [calls EXCEPT ![c].at = "served", ![c].role = role[calls[c].who]]
  /\ UNCHANGED <<storage, refreshing, role, other, history>>

\* A login is answered with the tokens of a new session.
SignIn(c) ==
  /\ At(c, "sent") /\ calls[c].kind = "login"
  /\ calls' = [calls EXCEPT ![c].at = "served", ![c].role = role[calls[c].who]]
  /\ UNCHANGED <<storage, refreshing, role, other, history>>

\* A call is answered with 401: wrong password, no token or an expired one.
Refuse(c) ==
  /\ At(c, "sent")
  /\ calls' = [calls EXCEPT ![c].at = "refused"]
  /\ UNCHANGED <<storage, refreshing, role, other, history>>

\* The refresh token is exchanged for a new pair of tokens.
Exchange ==
  /\ refreshing # None /\ refreshing.at = "sent"
  /\ refreshing' = [refreshing EXCEPT !.at = "served", !.role = role[refreshing.who]]
  /\ spent' = (spent \/ refreshing.own)
  /\ UNCHANGED <<storage, calls, role, other, owner, split, mixed, unsynced, missed>>

\* The exchange is refused or its answer lost: the client sees an error.
RefuseExchange ==
  /\ refreshing # None /\ refreshing.at \in {"sent", "served"}
  /\ missed' = (missed \/ refreshing.at = "served")
  /\ refreshing' = [refreshing EXCEPT !.at = "refused", !.role = None]
  /\ UNCHANGED <<storage, calls, role, other, owner, split, mixed, unsynced, spent>>

\* An administrator changes the role of an account.
ChangeRole(a, r) ==
  /\ role[a] # r
  /\ role' = [role EXCEPT ![a] = r]
  /\ UNCHANGED <<storage, calls, refreshing, other, history>>

-----------------------------------------------------------------------------
(* The answers *)

\* The renewed token is taken although nobody is signed in.
Renewed_Always(c) ==
  /\ At(c, "served") /\ calls[c].kind # "login"
  /\ CallEnds(c)
  /\ access' = [who |-> calls[c].who, role |-> calls[c].role]
  /\ stored' = calls[c].who
  /\ SyncFromToken(access')
  /\ UNCHANGED <<refresh, refreshing, role, other, owner, split, mixed, unsynced, spent, missed>>

\* authInterceptor: while somebody is signed in, the renewed token replaces
\* the one in storage.
Renewed(c) ==
  /\ At(c, "served") /\ calls[c].kind # "login"
  /\ CallEnds(c)
  /\ IF access = None THEN UNCHANGED <<access, stored, user, unsynced>>
     ELSE /\ access' = [who |-> calls[c].who, role |-> calls[c].role]
          /\ stored' = calls[c].who
          /\ SyncFromToken(access')
          /\ unsynced' = FALSE
  /\ UNCHANGED <<refresh, refreshing, role, other, owner, split, mixed, spent, missed>>

\* login(): the new session is stored.
SignedIn(c) ==
  /\ At(c, "served") /\ calls[c].kind = "login"
  /\ CallEnds(c)
  /\ access' = [who |-> calls[c].who, role |-> calls[c].role]
  /\ stored' = calls[c].who
  /\ refresh' = calls[c].who
  /\ user' = access'
  /\ split' = (other \notin {None, calls[c].who})
  /\ owner' = IF split' THEN None ELSE calls[c].who
  /\ mixed' = (refreshing # None \/ Open # {c})
  /\ unsynced' = FALSE /\ spent' = FALSE /\ missed' = FALSE
  /\ Disown
  /\ UNCHANGED <<role, other>>

\* Every call refused sends a refresh of its own.
WaitForRefresh_Unshared(c) ==
  /\ calls' = [calls EXCEPT ![c].at = "waiting"]
  /\ SendRefresh(FALSE)
  /\ UNCHANGED <<storage, role, other, history>>

\* The call waits for refresh$, which it starts if there is none.
WaitForRefresh(c) ==
  /\ calls' = [calls EXCEPT ![c].at = "waiting"]
  /\ IF refreshing = None THEN SendRefresh(FALSE) ELSE UNCHANGED refreshing
  /\ UNCHANGED <<storage, role, other, history>>

EndSession(c) ==
  /\ CallEnds(c)
  /\ IF access = None THEN UNCHANGED <<storage, refreshing, role, other, history>>
     ELSE Disown /\ ClearSession

\* A replay that is refused ends the session.
Unauthorized_EndsReplay(c) ==
  /\ At(c, "refused")
  /\ \/ /\ calls[c].kind # "data"
        /\ CallEnds(c)
        /\ UNCHANGED <<storage, refreshing, role, other, history>>
     \/ /\ calls[c].kind = "data" /\ (refresh = None \/ calls[c].retried)
        /\ EndSession(c)
     \/ /\ calls[c].kind = "data" /\ refresh # None /\ ~calls[c].retried
        /\ WaitForRefresh(c)

\* errorInterceptor on a 401: a call to the auth endpoints is left alone, and
\* so is a replay, which goes past this interceptor; without a refresh token
\* the session ends; the other calls wait for the refresh.
Unauthorized(c) ==
  /\ At(c, "refused")
  /\ \/ /\ calls[c].kind # "data" \/ calls[c].retried
        /\ CallEnds(c)
        /\ UNCHANGED <<storage, refreshing, role, other, history>>
     \/ /\ calls[c].kind = "data" /\ ~calls[c].retried /\ refresh = None
        /\ EndSession(c)
     \/ /\ calls[c].kind = "data" /\ ~calls[c].retried /\ refresh # None
        /\ WaitForRefresh(c)

\* The refresh is answered: the tokens are stored and every call that waits
\* is replayed with the new one.
Refreshed ==
  /\ refreshing # None /\ refreshing.at = "served"
  /\ access' = [who |-> refreshing.who, role |-> refreshing.role]
  /\ stored' = refreshing.who
  /\ refresh' = refreshing.who
  /\ IF Waiting # {} \/ refreshing.boot
     THEN SyncFromToken(access') /\ unsynced' = FALSE
     ELSE UNCHANGED user /\ unsynced' = TRUE
  /\ calls' = [c \in Call |->
                 IF c \in Waiting
                 THEN [calls[c] EXCEPT !.at = "sent", !.who = access'.who, !.retried = TRUE]
                 ELSE calls[c]]
  /\ refreshing' = None
  /\ spent' = FALSE /\ missed' = FALSE
  /\ UNCHANGED <<role, other, owner, split, mixed>>

\* The calls that wait are not told.
RefreshFailed_Silent ==
  /\ refreshing # None /\ refreshing.at = "refused"
  /\ refreshing' = None
  /\ UNCHANGED <<storage, calls, role, other, history>>

\* The refresh failed: every call that waits ends the session and fails; with
\* nobody waiting nothing happens.
RefreshFailed ==
  /\ refreshing # None /\ refreshing.at = "refused"
  /\ calls' = [c \in Call |-> IF c \in Waiting THEN None ELSE calls[c]]
  /\ refreshing' = None
  /\ IF Waiting # {} \/ refreshing.boot THEN ClearSession
     ELSE UNCHANGED <<storage, role, other, history>>

-----------------------------------------------------------------------------
(* The other tab, whose own calls are answered at once *)

\* Somebody signs in there.
OtherSignsIn(a) ==
  /\ stored' = a
  /\ refresh' = a
  /\ other' = a
  /\ split' = (split \/ access = None \/ access.who # a)
  /\ spent' = FALSE /\ missed' = FALSE
  /\ owner' = IF split' THEN None ELSE owner
  /\ Disown
  /\ UNCHANGED <<access, user, calls, role, mixed, unsynced>>

\* Its session ends.
OtherSignsOut ==
  /\ other # None
  /\ stored' = None /\ refresh' = None
  /\ other' = None
  /\ split' = (access # None \/ refreshing # None)
  /\ spent' = FALSE /\ missed' = FALSE
  /\ owner' = IF split' THEN None ELSE owner
  /\ Disown
  /\ UNCHANGED <<access, user, calls, role, mixed, unsynced>>

\* A call of it is answered with a renewed token.
OtherRenewed ==
  /\ other # None
  /\ stored' = other
  /\ UNCHANGED <<access, refresh, user, calls, refreshing, role, other, history>>

\* It exchanges the refresh token in storage, whoever that is of.
OtherRefreshed ==
  /\ other # None /\ refresh # None /\ ~spent
  /\ stored' = refresh
  /\ other' = refresh
  /\ Disown
  /\ UNCHANGED <<access, refresh, user, calls, role, history>>

\* It is opened or loaded again, with an access token that has not expired.
OtherLoads ==
  /\ other # stored
  /\ other' = stored
  /\ UNCHANGED <<storage, calls, refreshing, role, history>>

OtherTab ==
  \/ \E a \in Account : OtherSignsIn(a)
  \/ OtherSignsOut
  \/ OtherRenewed
  \/ OtherRefreshed
  \/ OtherLoads

-----------------------------------------------------------------------------
UserStep ==
  \/ \E c \in Call : Send(c) \/ Logout(c) \/ Drop(c)
  \/ \E c \in Call, a \in Account : Login(c, a)
  \/ \E expired \in BOOLEAN : Reload(expired)

ApiStep ==
  \/ \E c \in Call : Serve(c) \/ SignIn(c) \/ Refuse(c)
  \/ Exchange
  \/ RefuseExchange

AnswerStep ==
  \/ \E c \in Call : Renewed(c) \/ SignedIn(c) \/ Unauthorized(c)
  \/ Refreshed
  \/ RefreshFailed

Next ==
  \/ UserStep
  \/ ApiStep
  \/ AnswerStep
  \/ OtherTab
  \/ \E a \in Account, r \in Role : ChangeRole(a, r)

Spec == Init /\ [][Next]_vars

-----------------------------------------------------------------------------
\* Nobody is in the panel who did not sign in, and nobody half: tokens and
\* user are all there, of the account that signed in last, or all gone; but
\* for a sign-out with a refresh underway, or a sign-in with calls underway,
\* or a sign-in or sign-out in one of two tabs that the other is not told of,
\* until it signs out or in as well or is loaded with one account in storage.
\* "an admin's change reaches the live session" (syncFromToken): the menus go
\* by the role in the token the API sees, whatever order answers come in,
\* unless a refresh was answered with nobody left waiting for it.
OneIdentity ==
  /\ ~mixed /\ ~split /\ ~Booting =>
       \/ {owner, access, stored, refresh, user} = {None}
       \/ /\ None \notin {owner, access, stored, refresh, user}
          /\ {access.who, stored, refresh, user.who} = {owner}
  /\ ~unsynced /\ user # None /\ access # None => user.role = access.role

ExchangedOnce ==
  spent /\ ~missed => refreshing # None /\ refreshing.at = "served" /\ refreshing.own

WaitingForSomething == Waiting # {} => refreshing # None

EndedOnlyByFailedRefresh ==
  [][access # None /\ access' = None => refresh = None \/ RefreshFailed \/ UserStep]_vars

\* One refresh serves all calls refused, however many and however late.  A
\* refresh token that the API exchanged is in storage only while the answer is
\* on its way, or when nobody heard the answer: never is one sent again.  A
\* call waits only while that refresh is underway: whichever way it ends, in
\* whatever order calls joined it, nobody is left waiting.  "Only if the refresh
\* itself fails — or there is no refresh token — is the session ended with a
\* notice" (error.interceptor.ts): no other answer ends it.
OneRefreshServesAll == [](ExchangedOnce /\ WaitingForSomething) /\ EndedOnlyByFailedRefresh
=============================================================================
