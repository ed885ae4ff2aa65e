------------------------- MODULE ClientSessionProofs -------------------------
(***************************************************************************)
(* Theorems about ClientSession, for every set of accounts, roles and      *)
(* calls: the session has one identity, and one refresh serves all calls.  *)
(* Neither is inductive.  Where the history does not excuse it, not only   *)
(* the tokens and the user are of one account but also every call and the  *)
(* refresh underway and what the other tab may write to the storage, for   *)
(* each of them becomes the session when its answer arrives.               *)
(***************************************************************************)
EXTENDS ClientSession, TLAPS

\* No sign-in or sign-out has crossed something that was underway.
Plain == ~mixed /\ ~split

\* A call that is underway: what its answer brings is there.
CallShape(r) ==
  /\ r \in CallState
  /\ r.kind = "login" => r.who # None
  /\ r.at = "served" => r.who # None /\ r.role # None

\* And it is of the owner of the session.
CallFits(r) ==
  /\ CallShape(r)
  /\ Plain /\ owner # None /\ r.kind # "login" => r.who \in {None, owner}

\* The refresh underway: likewise.
RefreshShape(r) == r \in Refreshing /\ (r.at = "served" => r.role # None)

RefreshFits(r) ==
  /\ RefreshShape(r)
  /\ Plain => r.who = owner

CallsFit == \A c \in Call : calls[c] # None => CallFits(calls[c])

RefreshingFits == refreshing # None => RefreshFits(refreshing)

\* While the page is loaded and refreshes no call is made.
BootAlone == Booting => \A c \in Call : calls[c] = None

Owned ==
  /\ owner # None /\ access # None
  /\ access.who = owner /\ stored = owner /\ refresh = owner
  /\ IF Booting THEN user = None ELSE user # None /\ user.who = owner

Unowned == {owner, access, stored, refresh, user, refreshing} = {None}

OneSession == Plain => other \in {None, owner} /\ (Owned \/ Unowned)

Historic ==
  /\ access = None => user = None
  /\ split => owner = None

\* A call that waits has a refresh to wait for.
NobodyForgotten == \A c \in Call : calls[c] # None /\ calls[c].at = "waiting" => refreshing # None

RoleSynced == ~unsynced /\ user # None /\ access # None => user.role = access.role

SessionInv ==
  /\ CallsFit /\ RefreshingFits /\ BootAlone
  /\ OneSession /\ Historic
  /\ RoleSynced /\ ExchangedOnce /\ NobodyForgotten

IInv == TypeOK /\ SessionInv

-----------------------------------------------------------------------------
LEMMA InitIInv == Init => IInv
<1> SUFFICES ASSUME Init PROVE IInv
  OBVIOUS
<1> USE NoneAssumption
<1>1. TypeOK
  BY DEF Init, TypeOK
<1>2. CallsFit /\ RefreshingFits /\ BootAlone /\ NobodyForgotten
  BY DEF Init, CallsFit, RefreshingFits, BootAlone, Booting, NobodyForgotten
<1>3. OneSession
  BY DEF Init, OneSession, Unowned
<1>4. Historic /\ RoleSynced /\ ExchangedOnce
  BY DEF Init, Historic, RoleSynced, ExchangedOnce
<1> QED BY <1>1, <1>2, <1>3, <1>4 DEF IInv, SessionInv

\* A record that is there is not None.
LEMMA Records ==
  /\ \A r \in CallState : r # None
  /\ \A r \in Refreshing : r # None
  /\ \A r \in AccessToken : r # None
  /\ \A a \in Account : a # None
  /\ \A r \in Role : r # None
BY NoneAssumption

\* One call changes: sent, served, refused or dropped.
LEMMA CallStep ==
  ASSUME IInv, NEW c \in Call, NEW r, r = None \/ (CallFits(r) /\ r.at # "waiting" /\ ~Booting),
         calls' = [calls EXCEPT ![c] = r],
         UNCHANGED <<storage, refreshing, role, other, history>>
  PROVE  IInv'
<1>1. /\ calls' \in [Call -> CallState \cup {None}]
      /\ calls'[c] = r /\ \A d \in Call : d # c => calls'[d] = calls[d]
  BY DEF IInv, TypeOK, CallFits, CallShape
<1>2. TypeOK'
  BY <1>1 DEF IInv, TypeOK, storage, history
<1>3. /\ refreshing' = refreshing /\ owner' = owner /\ mixed' = mixed /\ split' = split
      /\ access' = access /\ stored' = stored /\ refresh' = refresh /\ user' = user
      /\ other' = other /\ unsynced' = unsynced /\ spent' = spent /\ missed' = missed
  BY DEF storage, history
<1>4. CallsFit' /\ RefreshingFits'
  BY <1>1, <1>3 DEF IInv, SessionInv, CallsFit, RefreshingFits, CallFits, RefreshFits, Plain
<1>5. BootAlone' /\ NobodyForgotten'
  BY <1>1, <1>3 DEF IInv, SessionInv, BootAlone, Booting, NobodyForgotten
<1>6. OneSession'
  BY <1>3 DEF IInv, SessionInv, OneSession, Owned, Unowned, Plain, Booting
<1>7. Historic' /\ RoleSynced' /\ ExchangedOnce'
  BY <1>3 DEF IInv, SessionInv, Historic, RoleSynced, ExchangedOnce
<1> QED BY <1>2, <1>4, <1>5, <1>6, <1>7 DEF IInv, SessionInv

LEMMA SendIInv == ASSUME IInv, NEW c \in Call, Send(c) PROVE IInv'
<1> DEFINE who == IF access = None THEN None ELSE access.who
           r == [kind |-> "data", at |-> "sent", who |-> who, retried |-> FALSE, role |-> None]
<1>1. who \in Account \cup {None} /\ (access # None => who = access.who)
  BY DEF IInv, TypeOK, AccessToken
<1>2. calls' = [calls EXCEPT ![c] = r] /\ ~Booting
  BY DEF Send, SendCall
<1> HIDE DEF who
<1>3. r \in CallState /\ r.kind = "data" /\ r.at = "sent" /\ r.who = who
  BY <1>1 DEF CallState
<1>4. Plain /\ owner # None => who = owner
  BY <1>1, <1>2 DEF IInv, SessionInv, OneSession, Owned, Unowned
<1>5. UNCHANGED <<storage, refreshing, role, other, history>>
  BY DEF Send
<1> HIDE DEF r
<1>6. CallFits(r)
  BY <1>3, <1>4 DEF CallFits, CallShape
<1> QED BY <1>2, <1>3, <1>5, <1>6, CallStep

LEMMA LoginIInv == ASSUME IInv, NEW c \in Call, NEW a \in Account, Login(c, a) PROVE IInv'
<1> DEFINE r == [kind |-> "login", at |-> "sent", who |-> a, retried |-> FALSE, role |-> None]
<1>1. calls' = [calls EXCEPT ![c] = r] /\ ~Booting
  BY DEF Login, SendCall
<1>2. r \in CallState /\ r.kind = "login" /\ r.at = "sent" /\ r.who = a
  BY DEF CallState
<1>3. UNCHANGED <<storage, refreshing, role, other, history>>
  BY DEF Login
<1> HIDE DEF r
<1>4. CallFits(r)
  BY <1>2, Records DEF CallFits, CallShape
<1> QED BY <1>1, <1>2, <1>3, <1>4, CallStep

LEMMA DropIInv == ASSUME IInv, NEW c \in Call, Drop(c) PROVE IInv'
<1> DEFINE r == None
<1>1. calls' = [calls EXCEPT ![c] = r] /\ UNCHANGED <<storage, refreshing, role, other, history>>
  BY DEF Drop, CallEnds
<1>2. r = None
  OBVIOUS
<1> HIDE DEF r
<1> QED BY <1>1, <1>2, CallStep

\* An answer brings the token of the account that asked.
LEMMA ServeIInv ==
  ASSUME IInv, NEW c \in Call, Serve(c) \/ SignIn(c) PROVE IInv'
<1> DEFINE who == calls[c].who
           r == [calls[c] EXCEPT !.at = "served", !.role = role[who]]
<1>1. /\ calls[c] \in CallState /\ calls[c] # None /\ CallFits(calls[c])
      /\ calls[c].at = "sent" /\ who \in Account
  BY DEF Serve, SignIn, At, Open, IInv, SessionInv, CallsFit, CallFits, CallShape, CallState
<1>2. role[who] \in Role
  BY <1>1 DEF IInv, TypeOK
<1>3. /\ calls' = [calls EXCEPT ![c] = r]
      /\ UNCHANGED <<storage, refreshing, role, other, history>>
  BY <1>1 DEF Serve, SignIn, IInv, TypeOK
<1>4. r \in CallState /\ r.kind = calls[c].kind /\ r.who = who /\ r.at = "served" /\ r.role \in Role
  BY <1>1, <1>2 DEF CallState
<1>5. ~Booting
  BY <1>1 DEF IInv, SessionInv, BootAlone
<1> HIDE DEF r, who
<1>6. CallFits(r)
  BY <1>1, <1>4, Records DEF CallFits, CallShape, who
<1> QED BY <1>3, <1>4, <1>5, <1>6, CallStep

LEMMA RefuseIInv == ASSUME IInv, NEW c \in Call, Refuse(c) PROVE IInv'
<1> DEFINE r == [calls[c] EXCEPT !.at = "refused"]
<1>1. calls[c] \in CallState /\ calls[c] # None /\ CallFits(calls[c])
  BY DEF Refuse, At, Open, IInv, SessionInv, CallsFit, CallFits, CallShape
<1>2. /\ calls' = [calls EXCEPT ![c] = r]
      /\ UNCHANGED <<storage, refreshing, role, other, history>>
  BY DEF Refuse, IInv, TypeOK
<1>3. r \in CallState /\ r.kind = calls[c].kind /\ r.who = calls[c].who /\ r.at = "refused"
  BY <1>1 DEF CallState
<1>4. ~Booting
  BY <1>1 DEF IInv, SessionInv, BootAlone
<1> HIDE DEF r
<1>5. CallFits(r)
  BY <1>1, <1>3 DEF CallFits, CallShape
<1> QED BY <1>2, <1>3, <1>4, <1>5, CallStep

-----------------------------------------------------------------------------
\* A refresh that is disowned is the same refresh.
LEMMA Disowned ==
  ASSUME IInv, Disown
  PROVE  /\ refreshing' \in Refreshing \cup {None}
         /\ refreshing' = None <=> refreshing = None
         /\ refreshing # None => /\ RefreshShape(refreshing')
                                 /\ refreshing'.who = refreshing.who
                                 /\ refreshing'.at = refreshing.at
         /\ Booting' <=> Booting
<1>1. CASE refreshing = None
  BY <1>1 DEF Disown, Booting
<1>2. CASE refreshing # None
  <2>1. refreshing' = [refreshing EXCEPT !.own = FALSE] /\ RefreshShape(refreshing)
    BY <1>2 DEF Disown, IInv, SessionInv, RefreshingFits, RefreshFits
  <2>2. /\ RefreshShape(refreshing') /\ refreshing' \in Refreshing
        /\ refreshing'.who = refreshing.who /\ refreshing'.at = refreshing.at
        /\ refreshing'.boot = refreshing.boot
    BY <2>1 DEF RefreshShape, Refreshing
  <2>3. refreshing' # None
    BY <2>2, Records
  <2> QED BY <1>2, <2>2, <2>3 DEF Booting
<1> QED BY <1>1, <1>2

\* A step that clears the session leaves it without an owner.
LEMMA Cleared ==
  ASSUME IInv, ClearSession,
         calls' \in [Call -> CallState \cup {None}],
         \A c \in Call : calls'[c] # None => CallShape(calls'[c]),
         refreshing' \in Refreshing \cup {None},
         refreshing' # None => RefreshShape(refreshing'),
         Booting' => \A c \in Call : calls'[c] = None,
         \A c \in Call : calls'[c] # None /\ calls'[c].at = "waiting" => refreshing' # None
  PROVE  IInv'
<1>1. /\ access' = None /\ stored' = None /\ refresh' = None /\ user' = None /\ owner' = None
      /\ role' = role /\ other' = other
      /\ unsynced' = FALSE /\ spent' = FALSE /\ missed' = FALSE
  BY DEF ClearSession
<1>2. split' \in BOOLEAN /\ (~split' => other = None)
  <2>1. CASE other = None
    BY <2>1 DEF ClearSession
  <2>2. CASE other # None
    BY <2>2 DEF ClearSession
  <2> QED BY <2>1, <2>2
<1>3. mixed' \in BOOLEAN /\ (~mixed' => refreshing' = None)
  <2>1. CASE refreshing' = None
    BY <2>1 DEF ClearSession
  <2>2. CASE refreshing' # None
    BY <2>2 DEF ClearSession
  <2> QED BY <2>1, <2>2
<1>4. TypeOK'
  BY <1>1, <1>2, <1>3 DEF IInv, TypeOK
<1>5. CallsFit' /\ RefreshingFits'
  BY <1>1, <1>3 DEF CallsFit, CallFits, RefreshingFits, RefreshFits, Plain
<1>6. BootAlone' /\ NobodyForgotten'
  BY DEF BootAlone, NobodyForgotten
<1>7. OneSession'
  BY <1>1, <1>2, <1>3 DEF OneSession, Unowned, Plain
<1>8. Historic' /\ RoleSynced' /\ ExchangedOnce'
  BY <1>1 DEF Historic, RoleSynced, ExchangedOnce
<1> QED BY <1>4, <1>5, <1>6, <1>7, <1>8 DEF IInv, SessionInv

\* The calls of a state that is in order.
LEMMA CallsShaped ==
  ASSUME IInv
  PROVE  /\ calls \in [Call -> CallState \cup {None}]
         /\ \A c \in Call : calls[c] # None => CallShape(calls[c])
         /\ Booting => \A c \in Call : calls[c] = None
         /\ \A c \in Call : calls[c] # None /\ calls[c].at = "waiting" => refreshing # None
BY DEF IInv, TypeOK, SessionInv, CallsFit, CallFits, BootAlone, NobodyForgotten

LEMMA LogoutIInv == ASSUME IInv, NEW c \in Call, Logout(c) PROVE IInv'
<1> DEFINE r == [kind |-> "logout", at |-> "sent", who |-> access.who, retried |-> FALSE, role |-> None]
<1>1. calls' = [calls EXCEPT ![c] = r] /\ ~Booting /\ access # None /\ Disown /\ ClearSession
  BY DEF Logout, SendCall
<1>2. access.who \in Account
  BY <1>1 DEF IInv, TypeOK, AccessToken
<1>3. r \in CallState /\ r.kind = "logout" /\ r.at = "sent"
  BY <1>2 DEF CallState
<1> HIDE DEF r
<1>4. CallShape(r)
  BY <1>3 DEF CallShape
<1>5. /\ calls' \in [Call -> CallState \cup {None}]
      /\ \A d \in Call : calls'[d] = IF d = c THEN r ELSE calls[d]
  BY <1>1, <1>3, CallsShaped
<1>6. /\ \A d \in Call : calls'[d] # None => CallShape(calls'[d])
      /\ \A d \in Call : calls'[d] # None /\ calls'[d].at = "waiting" => refreshing' # None
  BY <1>1, <1>3, <1>4, <1>5, CallsShaped, Disowned
<1>7. /\ refreshing' \in Refreshing \cup {None}
      /\ refreshing' # None => RefreshShape(refreshing')
      /\ ~Booting'
  BY <1>1, Disowned
<1> QED BY <1>1, <1>5, <1>6, <1>7, Cleared

\* A 401 that ends the session, if there is one.
LEMMA EndSessionIInv == ASSUME IInv, NEW c \in Call, calls[c] # None, EndSession(c) PROVE IInv'
<1>1. /\ calls' = [calls EXCEPT ![c] = None]
      /\ ~Booting
  BY CallsShaped DEF EndSession, CallEnds
<1>2. CASE access = None
  <2> DEFINE r == None
  <2>1. calls' = [calls EXCEPT ![c] = r] /\ UNCHANGED <<storage, refreshing, role, other, history>>
    BY <1>2 DEF EndSession, CallEnds
  <2>2. r = None
    OBVIOUS
  <2> HIDE DEF r
  <2> QED BY <2>1, <2>2, CallStep
<1>3. CASE access # None
  <2>1. Disown /\ ClearSession
    BY <1>3 DEF EndSession
  <2>2. /\ calls' \in [Call -> CallState \cup {None}]
        /\ \A d \in Call : calls'[d] = IF d = c THEN None ELSE calls[d]
    BY <1>1, CallsShaped
  <2>3. /\ \A d \in Call : calls'[d] # None => CallShape(calls'[d])
        /\ \A d \in Call : calls'[d] # None /\ calls'[d].at = "waiting" => refreshing' # None
    BY <2>1, <2>2, CallsShaped, Disowned
  <2>4. /\ refreshing' \in Refreshing \cup {None}
        /\ refreshing' # None => RefreshShape(refreshing')
        /\ ~Booting'
    BY <1>1, <2>1, Disowned
  <2> QED BY <2>1, <2>2, <2>3, <2>4, Cleared
<1> QED BY <1>2, <1>3

-----------------------------------------------------------------------------
\* A call that was refused waits, and has a refresh of the owner to wait for.
LEMMA WaitIInv ==
  ASSUME IInv, NEW c \in Call, calls[c] # None, refresh # None, WaitForRefresh(c)
  PROVE  IInv'
<1> DEFINE r == [calls[c] EXCEPT !.at = "waiting"]
<1>1. CallFits(calls[c]) /\ ~Booting
  BY CallsShaped DEF IInv, SessionInv, CallsFit
<1>2. r \in CallState /\ r.kind = calls[c].kind /\ r.who = calls[c].who /\ r.at = "waiting"
  BY <1>1 DEF CallState, CallFits, CallShape
<1>3. /\ calls' = [calls EXCEPT ![c] = r]
      /\ UNCHANGED <<storage, role, other, history>>
  BY CallsShaped DEF WaitForRefresh
<1> HIDE DEF r
<1>4. CallFits(r)
  BY <1>1, <1>2 DEF CallFits, CallShape
<1>5. /\ calls' \in [Call -> CallState \cup {None}]
      /\ \A d \in Call : calls'[d] = IF d = c THEN r ELSE calls[d]
  BY <1>2, <1>3, CallsShaped
<1>6. /\ owner' = owner /\ mixed' = mixed /\ split' = split
      /\ access' = access /\ stored' = stored /\ refresh' = refresh /\ user' = user
      /\ other' = other /\ unsynced' = unsynced /\ spent' = spent /\ missed' = missed
      /\ role' = role
  BY <1>3 DEF storage, history
<1>7. /\ refreshing' # None /\ RefreshFits(refreshing') /\ ~refreshing'.boot
      /\ refreshing # None => refreshing' = refreshing
  <2>1. CASE refreshing # None
    BY <1>1, <2>1 DEF WaitForRefresh, Booting, IInv, SessionInv, RefreshingFits
  <2>2. CASE refreshing = None
    <3> DEFINE n == [who |-> refresh, own |-> TRUE, boot |-> FALSE, at |-> "sent", role |-> None]
    <3>1. refreshing' = n
      BY <2>2 DEF WaitForRefresh, SendRefresh
    <3>2. refresh \in Account
      BY DEF IInv, TypeOK
    <3>3. n \in Refreshing /\ n.at = "sent" /\ n.who = refresh /\ ~n.boot
      BY <3>2 DEF Refreshing
    <3> HIDE DEF n
    <3>4. Plain => refresh = owner
      BY DEF IInv, SessionInv, OneSession, Owned, Unowned
    <3>5. RefreshFits(n) /\ n # None
      BY <3>3, <3>4, Records DEF RefreshFits, RefreshShape
    <3> QED BY <2>2, <3>1, <3>3, <1>6, <3>5
  <2>3. RefreshFits(refreshing')
    BY <2>1, <2>2
  <2> QED BY <2>1, <2>2
<1>8. TypeOK'
  BY <1>5, <1>6, <1>7 DEF IInv, TypeOK, RefreshFits, RefreshShape
<1>9. CallsFit' /\ RefreshingFits'
  BY <1>4, <1>5, <1>6, <1>7 DEF IInv, SessionInv, CallsFit, RefreshingFits, CallFits, RefreshFits, Plain
<1>10. BootAlone' /\ NobodyForgotten'
  BY <1>7 DEF BootAlone, Booting, NobodyForgotten
<1>11. OneSession'
  <2>1. Plain /\ Unowned => FALSE
    BY DEF Unowned
  <2> QED BY <1>1, <1>6, <1>7, <2>1 DEF IInv, SessionInv, OneSession, Owned, Plain, Booting
<1>12. Historic' /\ RoleSynced' /\ ExchangedOnce'
  BY <1>6, <1>7 DEF IInv, SessionInv, Historic, RoleSynced, ExchangedOnce
<1> QED BY <1>8, <1>9, <1>10, <1>11, <1>12 DEF IInv, SessionInv

LEMMA UnauthorizedIInv == ASSUME IInv, NEW c \in Call, Unauthorized(c) PROVE IInv'
<1>1. calls[c] # None
  BY DEF Unauthorized, At, Open
<1>2. CASE EndSession(c)
  BY <1>1, <1>2, EndSessionIInv
<1>3. CASE refresh # None /\ WaitForRefresh(c)
  BY <1>1, <1>3, WaitIInv
<1>4. CASE CallEnds(c) /\ UNCHANGED <<storage, refreshing, role, other, history>>
  <2> DEFINE r == None
  <2>1. calls' = [calls EXCEPT ![c] = r] /\ UNCHANGED <<storage, refreshing, role, other, history>>
    BY <1>4 DEF CallEnds
  <2>2. r = None
    OBVIOUS
  <2> HIDE DEF r
  <2> QED BY <2>1, <2>2, CallStep
<1> QED BY <1>2, <1>3, <1>4 DEF Unauthorized

\* The user after a token was taken over.
LEMMA Synced ==
  ASSUME IInv, NEW token \in AccessToken, SyncFromToken(token)
  PROVE  /\ user' \in AccessToken /\ user' # None
         /\ user'.role = token.role
         /\ user'.who = IF user = None THEN token.who ELSE user.who
<1>1. CASE user = None
  BY <1>1, Records DEF SyncFromToken
<1>2. CASE user # None
  <2>1. user \in AccessToken
    BY <1>2 DEF IInv, TypeOK
  <2>2. user' \in AccessToken /\ user'.role = token.role /\ user'.who = user.who
    BY <1>2, <2>1 DEF SyncFromToken, AccessToken
  <2> QED BY <1>2, <2>2, Records
<1> QED BY <1>1, <1>2

\* A renewed token is of the owner, if the history does not excuse it.
LEMMA RenewedIInv == ASSUME IInv, NEW c \in Call, Renewed(c) PROVE IInv'
<1>1. calls[c] # None /\ CallFits(calls[c]) /\ ~Booting /\ calls[c].at = "served" /\ calls[c].kind # "login"
  BY CallsShaped DEF Renewed, At, Open, IInv, SessionInv, CallsFit
<1>2. CASE access = None
  <2> DEFINE r == None
  <2>1. calls' = [calls EXCEPT ![c] = r] /\ UNCHANGED <<storage, refreshing, role, other, history>>
    BY <1>2 DEF Renewed, CallEnds, storage, history
  <2>2. r = None
    OBVIOUS
  <2> HIDE DEF r
  <2> QED BY <2>1, <2>2, CallStep
<1>3. CASE access # None
  <2> DEFINE w == calls[c].who
             t == [who |-> w, role |-> calls[c].role]
  <2>1. w \in Account /\ calls[c].role \in Role
    BY <1>1 DEF CallFits, CallShape, CallState
  <2>2. t \in AccessToken /\ t.who = w
    BY <2>1 DEF AccessToken
  <2>3. access' = t /\ stored' = w /\ SyncFromToken(t) /\ unsynced' = FALSE
    BY <1>3 DEF Renewed
  <2>4. UNCHANGED <<refresh, refreshing, role, other, owner, split, mixed, spent, missed>>
    BY DEF Renewed
  <2>5. Plain => Owned /\ owner = w
    BY <1>1, <1>3, <2>1, Records DEF IInv, SessionInv, OneSession, Unowned, CallFits, Owned
  <2> HIDE DEF t, w
  <2>6. user' \in AccessToken /\ user' # None /\ user'.role = t.role
        /\ user'.who = IF user = None THEN t.who ELSE user.who
    BY <2>2, <2>3, Synced
  <2>7. /\ calls' \in [Call -> CallState \cup {None}]
        /\ \A d \in Call : calls'[d] = IF d = c THEN None ELSE calls[d]
    BY CallsShaped DEF Renewed, CallEnds
  <2>8. TypeOK'
    BY <2>1, <2>2, <2>3, <2>4, <2>6, <2>7 DEF IInv, TypeOK
  <2>9. CallsFit' /\ RefreshingFits'
    BY <2>4, <2>7 DEF IInv, SessionInv, CallsFit, RefreshingFits, CallFits, RefreshFits, Plain
  <2>10. BootAlone' /\ NobodyForgotten'
    BY <2>4, <2>7 DEF IInv, SessionInv, BootAlone, Booting, NobodyForgotten
  <2>11. OneSession'
    <3> SUFFICES ASSUME Plain' PROVE other' \in {None, owner'} /\ Owned'
      BY DEF OneSession
    <3>1. Plain /\ Owned /\ owner = w
      BY <2>4, <2>5 DEF Plain
    <3> QED BY <1>1, <2>2, <2>3, <2>4, <2>6, <3>1, Records
        DEF IInv, SessionInv, OneSession, Owned, Booting
  <2>12. Historic' /\ RoleSynced' /\ ExchangedOnce'
    BY <2>2, <2>3, <2>4, <2>6, Records DEF IInv, SessionInv, Historic, RoleSynced, ExchangedOnce
  <2> QED BY <2>8, <2>9, <2>10, <2>11, <2>12 DEF IInv, SessionInv
<1> QED BY <1>2, <1>3

\* A login makes its account the owner, of whatever the API answers from here.
LEMMA SignedInIInv == ASSUME IInv, NEW c \in Call, SignedIn(c) PROVE IInv'
<1> DEFINE w == calls[c].who
           t == [who |-> w, role |-> calls[c].role]
<1>1. /\ calls[c] # None /\ CallFits(calls[c]) /\ ~Booting
      /\ calls[c].at = "served"
  BY CallsShaped DEF SignedIn, At, Open, IInv, SessionInv, CallsFit
<1>2. w \in Account /\ calls[c].role \in Role /\ w # None
  BY <1>1 DEF CallFits, CallShape, CallState
<1>3. t \in AccessToken /\ t.who = w
  BY <1>2 DEF AccessToken
<1>4. /\ access' = t /\ stored' = w /\ refresh' = w /\ user' = t
      /\ unsynced' = FALSE /\ spent' = FALSE /\ missed' = FALSE
      /\ role' = role /\ other' = other
      /\ owner' = IF split' THEN None ELSE w
      /\ Disown
  BY DEF SignedIn
<1>5. split' \in BOOLEAN /\ (~split' => other \in {None, w})
  <2>1. CASE other \in {None, w}
    BY <2>1 DEF SignedIn
  <2>2. CASE other \notin {None, w}
    BY <2>2 DEF SignedIn
  <2> QED BY <2>1, <2>2
<1>6. /\ mixed' \in BOOLEAN
      /\ ~mixed' => refreshing = None /\ \A d \in Call : calls[d] # None => d = c
  <2>1. CASE refreshing # None \/ Open # {c}
    BY <2>1 DEF SignedIn
  <2>2. CASE ~(refreshing # None \/ Open # {c})
    BY <2>2 DEF SignedIn, Open
  <2> QED BY <2>1, <2>2
<1>7. /\ calls' \in [Call -> CallState \cup {None}]
      /\ \A d \in Call : calls'[d] = IF d = c THEN None ELSE calls[d]
  BY CallsShaped DEF SignedIn, CallEnds
<1> HIDE DEF t, w
<1>8. TypeOK'
  BY <1>2, <1>3, <1>4, <1>5, <1>6, <1>7, Disowned DEF IInv, TypeOK
<1>9. CallsFit'
  <2>1. \A d \in Call : calls'[d] # None => CallShape(calls'[d]) /\ mixed'
    BY <1>6, <1>7, CallsShaped
  <2> QED BY <2>1 DEF CallsFit, CallFits, Plain
<1>10. RefreshingFits'
  BY <1>4, <1>6, Disowned DEF RefreshingFits, RefreshFits, Plain
<1>11. BootAlone' /\ NobodyForgotten'
  BY <1>1, <1>4, <1>7, Disowned DEF IInv, SessionInv, BootAlone, NobodyForgotten
<1>12. OneSession'
  <2>1. ~Booting'
    BY <1>1, <1>4, Disowned
  <2> QED BY <1>2, <1>3, <1>4, <1>5, <2>1, Records DEF OneSession, Owned, Plain
<1>13. Historic' /\ RoleSynced' /\ ExchangedOnce'
  BY <1>3, <1>4, Records DEF Historic, RoleSynced, ExchangedOnce
<1> QED BY <1>8, <1>9, <1>10, <1>11, <1>12, <1>13 DEF IInv, SessionInv

-----------------------------------------------------------------------------
\* The API exchanges the refresh token, or refuses it; the session waits.
LEMMA RefreshStep ==
  ASSUME IInv, refreshing # None, NEW r, RefreshShape(r), r.who = refreshing.who,
         r.boot = refreshing.boot, refreshing' = r,
         spent' \in BOOLEAN, missed' \in BOOLEAN, ExchangedOnce',
         UNCHANGED <<storage, calls, role, other, owner, split, mixed, unsynced>>
  PROVE  IInv'
<1>1. /\ access' = access /\ stored' = stored /\ refresh' = refresh /\ user' = user
      /\ calls' = calls /\ role' = role /\ other' = other /\ owner' = owner
      /\ split' = split /\ mixed' = mixed /\ unsynced' = unsynced
      /\ refreshing' # None
  BY Records DEF storage, RefreshShape
<1>2. Booting' <=> Booting
  BY <1>1 DEF Booting
<1>3. TypeOK'
  BY <1>1 DEF IInv, TypeOK, RefreshShape
<1>4. CallsFit' /\ RefreshingFits'
  BY <1>1 DEF IInv, SessionInv, CallsFit, CallFits, RefreshingFits, RefreshFits, Plain
<1>5. BootAlone' /\ NobodyForgotten'
  BY <1>1, <1>2 DEF IInv, SessionInv, BootAlone, NobodyForgotten
<1>6. OneSession'
  BY <1>1, <1>2 DEF IInv, SessionInv, OneSession, Owned, Unowned, Plain
<1>7. Historic' /\ RoleSynced'
  BY <1>1 DEF IInv, SessionInv, Historic, RoleSynced
<1> QED BY <1>3, <1>4, <1>5, <1>6, <1>7 DEF IInv, SessionInv

\* The token in storage is spent, and the answer is on its way.
LEMMA ExchangeIInv == ASSUME IInv, Exchange PROVE IInv'
<1> DEFINE r == [refreshing EXCEPT !.at = "served", !.role = role[refreshing.who]]
<1>1. /\ refreshing # None /\ refreshing.at = "sent" /\ refreshing' = r
      /\ spent' = (spent \/ refreshing.own) /\ missed' = missed
      /\ UNCHANGED <<storage, calls, role, other, owner, split, mixed, unsynced>>
  BY DEF Exchange
<1>2. refreshing \in Refreshing
  BY <1>1 DEF IInv, TypeOK
<1>3. role[refreshing.who] \in Role
  BY <1>2 DEF IInv, TypeOK, Refreshing
<1>4. /\ r \in Refreshing /\ r.at = "served" /\ r.role \in Role
      /\ r.who = refreshing.who /\ r.boot = refreshing.boot /\ r.own = refreshing.own
  BY <1>2, <1>3 DEF Refreshing
<1> HIDE DEF r
<1>5. RefreshShape(r) /\ r # None
  BY <1>4, Records DEF RefreshShape
<1>6. spent /\ ~missed => FALSE
  BY <1>1 DEF IInv, SessionInv, ExchangedOnce
<1>7. spent' \in BOOLEAN /\ missed' \in BOOLEAN
  BY <1>1, <1>2 DEF IInv, TypeOK, Refreshing
<1>8. ExchangedOnce'
  BY <1>1, <1>4, <1>5, <1>6 DEF ExchangedOnce
<1> QED BY <1>1, <1>4, <1>5, <1>7, <1>8, RefreshStep

LEMMA RefuseExchangeIInv == ASSUME IInv, RefuseExchange PROVE IInv'
<1> DEFINE r == [refreshing EXCEPT !.at = "refused", !.role = None]
<1>1. /\ refreshing # None /\ refreshing' = r
      /\ spent' = spent
      /\ UNCHANGED <<storage, calls, role, other, owner, split, mixed, unsynced>>
  BY DEF RefuseExchange
<1>2. refreshing \in Refreshing
  BY <1>1 DEF IInv, TypeOK
<1>3. /\ r \in Refreshing /\ r.at = "refused"
      /\ r.who = refreshing.who /\ r.boot = refreshing.boot
  BY <1>2 DEF Refreshing
<1> HIDE DEF r
<1>4. RefreshShape(r)
  BY <1>3 DEF RefreshShape
<1>5. missed' \in BOOLEAN /\ (~missed' => ~missed /\ refreshing.at # "served")
  <2>1. CASE refreshing.at = "served"
    BY <2>1 DEF RefuseExchange
  <2>2. CASE refreshing.at # "served"
    <3>1. missed' = missed
      BY <2>2 DEF RefuseExchange, IInv, TypeOK
    <3> QED BY <2>2, <3>1 DEF IInv, TypeOK
  <2> QED BY <2>1, <2>2
<1>6. spent' \in BOOLEAN
  BY <1>1 DEF IInv, TypeOK
<1>7. ExchangedOnce'
  BY <1>1, <1>5 DEF IInv, SessionInv, ExchangedOnce
<1> QED BY <1>1, <1>3, <1>4, <1>5, <1>6, <1>7, RefreshStep

LEMMA ChangeRoleIInv ==
  ASSUME IInv, NEW a \in Account, NEW r \in Role, ChangeRole(a, r) PROVE IInv'
<1>1. /\ role' \in [Account -> Role]
      /\ UNCHANGED <<storage, calls, refreshing, other, history>>
  BY DEF ChangeRole, IInv, TypeOK
<1>2. TypeOK'
  BY <1>1 DEF IInv, TypeOK, storage, history
<1>3. CallsFit' /\ RefreshingFits' /\ BootAlone' /\ NobodyForgotten'
  BY <1>1 DEF IInv, SessionInv, CallsFit, CallFits, RefreshingFits, RefreshFits, BootAlone, Booting,
              NobodyForgotten, Plain, storage, history
<1>4. OneSession'
  BY <1>1 DEF IInv, SessionInv, OneSession, Owned, Unowned, Plain, Booting, storage, history
<1>5. Historic' /\ RoleSynced' /\ ExchangedOnce'
  BY <1>1 DEF IInv, SessionInv, Historic, RoleSynced, ExchangedOnce, storage, history
<1> QED BY <1>2, <1>3, <1>4, <1>5 DEF IInv, SessionInv

\* The refresh is answered: every call that waits goes again, as the owner.
LEMMA RefreshedIInv == ASSUME IInv, Refreshed PROVE IInv'
<1> DEFINE w == refreshing.who
           t == [who |-> w, role |-> refreshing.role]
<1>1. refreshing # None /\ RefreshFits(refreshing) /\ refreshing.at = "served"
  BY DEF Refreshed, IInv, SessionInv, RefreshingFits
<1>2. w \in Account /\ refreshing.role \in Role /\ w # None
  BY <1>1, Records DEF RefreshFits, RefreshShape, Refreshing
<1>3. t \in AccessToken /\ t.who = w
  BY <1>2 DEF AccessToken
<1>4. /\ access' = t /\ stored' = w /\ refresh' = w /\ refreshing' = None
      /\ spent' = FALSE /\ missed' = FALSE
      /\ UNCHANGED <<role, other, owner, split, mixed>>
  BY DEF Refreshed
<1>5. \/ SyncFromToken(t) /\ unsynced' = FALSE
      \/ ~Booting /\ user' = user /\ unsynced' = TRUE
  BY DEF Refreshed, Booting
<1>6. \A d \in Call :
        calls'[d] = IF calls[d] # None /\ calls[d].at = "waiting"
                    THEN [calls[d] EXCEPT !.at = "sent", !.who = w, !.retried = TRUE] ELSE calls[d]
  BY DEF Refreshed, Waiting, Open
<1>7. calls' = [d \in Call |-> calls'[d]]
  BY DEF Refreshed
<1>8. Plain => owner = w
  BY <1>1 DEF RefreshFits
<1> HIDE DEF t, w
<1>9. \A d \in Call : calls'[d] # None =>
        CallShape(calls'[d]) /\ calls'[d].at # "waiting" /\
        (calls'[d].who = w \/ (calls[d] # None /\ calls'[d] = calls[d]))
  <2> SUFFICES ASSUME NEW d \in Call, calls'[d] # None
               PROVE  CallShape(calls'[d]) /\ calls'[d].at # "waiting" /\
                      (calls'[d].who = w \/ (calls[d] # None /\ calls'[d] = calls[d]))
    OBVIOUS
  <2>1. calls[d] # None /\ CallShape(calls[d])
    BY <1>6, CallsShaped
  <2>2. CASE calls[d].at = "waiting"
    <3> DEFINE r == [calls[d] EXCEPT !.at = "sent", !.who = w, !.retried = TRUE]
    <3>1. r \in CallState /\ r.who = w /\ r.at = "sent"
      BY <1>2, <2>1 DEF CallState, CallShape
    <3>2. calls'[d] = r
      BY <1>6, <2>1, <2>2
    <3> HIDE DEF r
    <3> QED BY <1>2, <3>1, <3>2 DEF CallShape
  <2>3. CASE calls[d].at # "waiting"
    BY <1>6, <2>1, <2>3
  <2> QED BY <2>2, <2>3
<1>10. /\ user' \in AccessToken \cup {None}
       /\ SyncFromToken(t) => user' \in AccessToken /\ user'.role = t.role
                              /\ user'.who = IF user = None THEN t.who ELSE user.who
  BY <1>3, <1>5, Synced DEF IInv, TypeOK
<1>11. TypeOK'
  <2>1. calls' \in [Call -> CallState \cup {None}]
    BY <1>7, <1>9 DEF CallShape
  <2> QED BY <1>2, <1>3, <1>4, <1>5, <1>10, <2>1 DEF IInv, TypeOK
<1>12. CallsFit' /\ RefreshingFits'
  BY <1>4, <1>8, <1>9 DEF IInv, SessionInv, CallsFit, CallFits, RefreshingFits, Plain
<1>13. BootAlone' /\ NobodyForgotten'
  BY <1>4, <1>9 DEF BootAlone, Booting, NobodyForgotten
<1>14. OneSession'
  <2> SUFFICES ASSUME Plain' PROVE other' \in {None, owner'} /\ Owned'
    BY DEF OneSession
  <2>1. Plain /\ Owned /\ owner = w
    BY <1>1, <1>2, <1>4, <1>8 DEF Plain, IInv, SessionInv, OneSession, Unowned
  <2>2. ~Booting'
    BY <1>4 DEF Booting
  <2>3. user' # None /\ user'.who = w
    BY <1>3, <1>5, <1>10, <2>1, Records DEF Owned
  <2> QED BY <1>2, <1>3, <1>4, <2>1, <2>2, <2>3, Records DEF IInv, SessionInv, OneSession, Owned
<1>15. Historic' /\ RoleSynced' /\ ExchangedOnce'
  BY <1>3, <1>4, <1>5, <1>10, Records DEF IInv, SessionInv, Historic, RoleSynced, ExchangedOnce
<1> QED BY <1>11, <1>12, <1>13, <1>14, <1>15 DEF IInv, SessionInv

\* It fails: the session is cleared if anybody waits, and nobody waits after.
LEMMA RefreshFailedIInv == ASSUME IInv, RefreshFailed PROVE IInv'
<1>1. /\ refreshing' = None /\ refreshing # None /\ refreshing.at = "refused"
      /\ \A d \in Call : calls'[d] = IF calls[d] # None /\ calls[d].at = "waiting" THEN None ELSE calls[d]
      /\ calls' = [d \in Call |-> calls'[d]]
  BY DEF RefreshFailed, Waiting, Open
<1>2. /\ calls' \in [Call -> CallState \cup {None}]
      /\ \A d \in Call : calls'[d] # None => calls'[d] = calls[d] /\ CallShape(calls'[d])
      /\ \A d \in Call : calls'[d] # None => calls'[d].at # "waiting"
  BY <1>1, CallsShaped DEF CallShape
<1>3. ~Booting'
  BY <1>1 DEF Booting
<1>4. CASE ClearSession
  BY <1>1, <1>2, <1>3, <1>4, Cleared
<1>5. CASE ~Booting /\ UNCHANGED <<storage, role, other, history>>
  <2>1. /\ access' = access /\ stored' = stored /\ refresh' = refresh /\ user' = user
        /\ role' = role /\ other' = other /\ owner' = owner
        /\ split' = split /\ mixed' = mixed /\ unsynced' = unsynced /\ spent' = spent /\ missed' = missed
    BY <1>5 DEF storage, history
  <2>2. TypeOK'
    BY <1>1, <1>2, <2>1 DEF IInv, TypeOK
  <2>3. CallsFit' /\ RefreshingFits' /\ BootAlone' /\ NobodyForgotten'
    BY <1>1, <1>2, <1>3, <2>1 DEF IInv, SessionInv, CallsFit, CallFits, RefreshingFits, BootAlone,
                                 NobodyForgotten, Plain
  <2>4. OneSession'
    BY <1>1, <1>3, <1>5, <2>1 DEF IInv, SessionInv, OneSession, Owned, Unowned, Plain
  <2>5. Historic' /\ RoleSynced' /\ ExchangedOnce'
    BY <1>1, <2>1 DEF IInv, SessionInv, Historic, RoleSynced, ExchangedOnce
  <2> QED BY <2>2, <2>3, <2>4, <2>5 DEF IInv, SessionInv
<1> QED BY <1>4, <1>5 DEF RefreshFailed, Booting

-----------------------------------------------------------------------------
\* The tabs agree again, or nothing has changed, or the session has no owner.
LEMMA Rejoined ==
  ASSUME IInv, Rejoin
  PROVE  /\ split' \in BOOLEAN /\ owner' \in Account \cup {None}
         /\ split' => owner' = None
         /\ ~split' => \/ ~split /\ owner' = owner
                       \/ /\ stored # None /\ refresh = stored /\ other \in {None, refresh}
                          /\ owner' = refresh
<1> DEFINE agreed == stored # None /\ refresh = stored /\ other \in {None, refresh}
<1>1. split' = (split /\ ~agreed) /\ owner' = IF split /\ agreed THEN refresh ELSE owner
  BY DEF Rejoin
<1>2. split \in BOOLEAN /\ owner \in Account \cup {None} /\ refresh \in Account \cup {None}
      /\ (split => owner = None)
  BY DEF IInv, TypeOK, SessionInv, Historic
<1>3. CASE agreed
  BY <1>1, <1>2, <1>3
<1>4. CASE ~agreed
  BY <1>1, <1>2, <1>4
<1> QED BY <1>3, <1>4

\* A page that is loaded goes on with the session in storage.
LEMMA ReloadKeeps ==
  ASSUME IInv, Rejoin,
         calls' = [c \in Call |-> None],
         access' \in AccessToken \cup {None},
         IF stored = None THEN access' = None ELSE access' # None /\ access'.who = stored,
         \/ stored # None /\ user' = access' /\ refreshing' = None /\ unsynced' = FALSE
         \/ refresh # None /\ user' = None /\ SendRefresh(TRUE) /\ unsynced' = unsynced,
         missed' = (missed \/ Unheard),
         UNCHANGED <<stored, refresh, role, other, mixed, spent>>
  PROVE  IInv'
<1> DEFINE n == [who |-> refresh, own |-> TRUE, boot |-> TRUE, at |-> "sent", role |-> None]
<1>1. refreshing' = None \/ (refreshing' = n /\ refresh \in Account)
  BY DEF SendRefresh, IInv, TypeOK
<1>2. refresh \in Account =>
        n \in Refreshing /\ n.at = "sent" /\ n.who = refresh /\ n.boot /\ n # None
  BY Records DEF Refreshing
<1>3. refresh # None /\ SendRefresh(TRUE) => refreshing' = n /\ refresh \in Account
  BY DEF SendRefresh, IInv, TypeOK
<1> HIDE DEF n
<1>4. missed' \in BOOLEAN /\ (~missed' => ~missed /\ ~Unheard)
  <2>1. CASE Unheard
    BY <2>1
  <2>2. CASE ~Unheard
    <3>1. missed' = missed
      BY <2>2 DEF IInv, TypeOK
    <3> QED BY <2>2, <3>1 DEF IInv, TypeOK
  <2> QED BY <2>1, <2>2
<1>5. TypeOK'
  <2>1. calls' \in [Call -> CallState \cup {None}]
    OBVIOUS
  <2>2. refreshing' \in Refreshing \cup {None}
    BY <1>1, <1>2
  <2>3. user' \in AccessToken \cup {None} /\ unsynced' \in BOOLEAN
    BY DEF IInv, TypeOK
  <2> QED BY <1>4, <2>1, <2>2, <2>3, Rejoined DEF IInv, TypeOK
<1>6. Plain' => /\ other \in {None, owner'} /\ owner' # None
                /\ stored = owner' /\ refresh = owner'
  <2> SUFFICES ASSUME Plain'
               PROVE  other \in {None, owner'} /\ owner' # None /\ stored = owner' /\ refresh = owner'
    OBVIOUS
  <2>1. ~split' /\ ~mixed
    BY DEF Plain
  <2>2. CASE ~split /\ owner' = owner
    <3>1. ~Unowned
      BY DEF Unowned
    <3> QED BY <2>1, <2>2, <3>1 DEF IInv, SessionInv, OneSession, Owned, Plain
  <2>3. CASE stored # None /\ refresh = stored /\ other \in {None, refresh} /\ owner' = refresh
    BY <2>3
  <2> QED BY <2>1, <2>2, <2>3, Rejoined
<1>7. CallsFit' /\ NobodyForgotten' /\ BootAlone'
  BY DEF CallsFit, NobodyForgotten, BootAlone
<1>8. RefreshingFits'
  BY <1>1, <1>2, <1>6 DEF RefreshingFits, RefreshFits, RefreshShape
<1>9. OneSession'
  <2> SUFFICES ASSUME Plain' PROVE other' \in {None, owner'} /\ Owned'
    BY DEF OneSession
  <2>1. CASE user' = None
    <3>1. refreshing' = n /\ refresh \in Account
      BY <1>3, <1>6, <2>1
    <3>2. Booting'
      BY <1>2, <3>1 DEF Booting
    <3> QED BY <1>6, <2>1, <3>2 DEF Owned
  <2>2. CASE user' # None
    <3>1. user' = access' /\ ~Booting'
      BY <2>2 DEF Booting
    <3> QED BY <1>6, <2>2, <3>1 DEF Owned
  <2> QED BY <2>1, <2>2
<1>10. Historic'
  BY Rejoined DEF Historic
<1>11. RoleSynced'
  BY DEF RoleSynced
<1>12. ExchangedOnce'
  BY <1>4 DEF IInv, SessionInv, ExchangedOnce, Unheard
<1> QED BY <1>5, <1>7, <1>8, <1>9, <1>10, <1>11, <1>12 DEF IInv, SessionInv

LEMMA ReloadIInv == ASSUME IInv, NEW expired \in BOOLEAN, Reload(expired) PROVE IInv'
<1>1. \A r \in Role : stored # None =>
        LET t == [who |-> stored, role |-> r] IN t \in AccessToken /\ t # None /\ t.who = stored
  <2> SUFFICES ASSUME NEW r \in Role, stored # None
               PROVE  LET t == [who |-> stored, role |-> r] IN t \in AccessToken /\ t # None /\ t.who = stored
    OBVIOUS
  <2>1. [who |-> stored, role |-> r] \in AccessToken
    BY DEF IInv, TypeOK, AccessToken
  <2> QED BY <2>1, Records
<1>2. calls' = [c \in Call |-> None]
  BY DEF Reload
<1>3. CASE /\ stored # None
           /\ \E r \in Role : access' = [who |-> stored, role |-> r]
           /\ user' = access'
           /\ Rejoin
           /\ refreshing' = None
           /\ unsynced' = FALSE
           /\ missed' = (missed \/ Unheard)
           /\ UNCHANGED <<stored, refresh, role, other, mixed, spent>>
  <2>1. access' \in AccessToken /\ access' # None /\ access'.who = stored
    BY <1>1, <1>3
  <2> QED BY <1>2, <1>3, <2>1, ReloadKeeps
<1>4. CASE /\ refresh # None
           /\ \/ stored = None /\ access' = None
              \/ stored # None /\ \E r \in Role : access' = [who |-> stored, role |-> r]
           /\ user' = None
           /\ Rejoin
           /\ SendRefresh(TRUE)
           /\ missed' = (missed \/ Unheard)
           /\ UNCHANGED <<stored, refresh, role, other, mixed, unsynced, spent>>
  <2>1. /\ access' \in AccessToken \cup {None}
        /\ IF stored = None THEN access' = None ELSE access' # None /\ access'.who = stored
    BY <1>1, <1>4
  <2> QED BY <1>2, <1>4, <2>1, ReloadKeeps
<1>5. CASE refreshing' = None /\ ClearSession
  <2>1. calls' \in [Call -> CallState \cup {None}] /\ \A d \in Call : calls'[d] = None
    BY <1>2
  <2> QED BY <1>5, <2>1, Cleared
<1> QED BY <1>3, <1>4, <1>5 DEF Reload

-----------------------------------------------------------------------------
\* What the other tab does to the storage leaves this one's calls and user.
LEMMA OtherTabStep ==
  ASSUME IInv,
         stored' \in Account \cup {None}, refresh' \in Account \cup {None},
         other' \in Account \cup {None}, owner' \in Account \cup {None},
         split' \in BOOLEAN, spent' \in BOOLEAN, missed' \in BOOLEAN,
         Disown \/ refreshing' = refreshing,
         split' => owner' = None,
         OneSession', ExchangedOnce',
         ~split' => owner' = owner /\ (~split \/ (access = None /\ refreshing = None)),
         UNCHANGED <<access, user, calls, role, mixed, unsynced>>
  PROVE  IInv'
<1>1. /\ refreshing' \in Refreshing \cup {None}
      /\ refreshing' = None <=> refreshing = None
      /\ refreshing # None => RefreshShape(refreshing') /\ refreshing'.who = refreshing.who
      /\ Booting' <=> Booting
  <2>1. CASE Disown
    BY <2>1, Disowned
  <2>2. CASE refreshing' = refreshing
    BY <2>2 DEF Booting, IInv, TypeOK, SessionInv, RefreshingFits, RefreshFits
  <2> QED BY <2>1, <2>2
<1>2. TypeOK'
  BY <1>1 DEF IInv, TypeOK
<1>3. owner' # None => ~split' /\ owner' = owner /\ ~split
  BY DEF IInv, SessionInv, Historic
<1>4. CallsFit'
  <2>1. \A c \in Call : calls[c] # None => CallFits(calls[c])
    BY DEF IInv, SessionInv, CallsFit
  <2> QED BY <1>3, <2>1 DEF CallsFit, CallFits, Plain
<1>5. RefreshingFits'
  BY <1>1 DEF IInv, SessionInv, RefreshingFits, RefreshFits, Plain
<1>6. BootAlone' /\ NobodyForgotten'
  BY <1>1 DEF IInv, SessionInv, BootAlone, NobodyForgotten
<1>7. Historic' /\ RoleSynced'
  BY DEF IInv, SessionInv, Historic, RoleSynced
<1> QED BY <1>2, <1>4, <1>5, <1>6, <1>7 DEF IInv, SessionInv

LEMMA OtherSignsInIInv == ASSUME IInv, NEW a \in Account, OtherSignsIn(a) PROVE IInv'
<1>1. /\ stored' = a /\ refresh' = a /\ other' = a
      /\ spent' = FALSE /\ missed' = FALSE /\ Disown
      /\ owner' = IF split' THEN None ELSE owner
      /\ UNCHANGED <<access, user, calls, role, mixed, unsynced>>
  BY DEF OtherSignsIn
<1>2. split' \in BOOLEAN /\ (~split' => ~split /\ access # None /\ access.who = a)
  <2>1. CASE split \/ access = None \/ access.who # a
    BY <2>1 DEF OtherSignsIn
  <2>2. CASE ~(split \/ access = None \/ access.who # a)
    BY <2>2 DEF OtherSignsIn
  <2> QED BY <2>1, <2>2
<1>3. owner' \in Account \cup {None}
  BY <1>1 DEF IInv, TypeOK
<1>4. OneSession'
  BY <1>1, <1>2, Disowned DEF IInv, SessionInv, OneSession, Owned, Unowned, Plain
<1>5. ExchangedOnce'
  BY <1>1 DEF ExchangedOnce
<1> QED BY <1>1, <1>2, <1>3, <1>4, <1>5, OtherTabStep

LEMMA OtherSignsOutIInv == ASSUME IInv, OtherSignsOut PROVE IInv'
<1>1. /\ stored' = None /\ refresh' = None /\ other' = None
      /\ spent' = FALSE /\ missed' = FALSE /\ Disown
      /\ owner' = IF split' THEN None ELSE owner
      /\ UNCHANGED <<access, user, calls, role, mixed, unsynced>>
  BY DEF OtherSignsOut
<1>2. split' \in BOOLEAN /\ (~split' => access = None /\ refreshing = None)
  <2>1. CASE access # None \/ refreshing # None
    BY <2>1 DEF OtherSignsOut
  <2>2. CASE ~(access # None \/ refreshing # None)
    BY <2>2 DEF OtherSignsOut
  <2> QED BY <2>1, <2>2
<1>3. owner' \in Account \cup {None}
  BY <1>1 DEF IInv, TypeOK
<1>4. OneSession'
  <2> SUFFICES ASSUME Plain' PROVE other' \in {None, owner'} /\ Unowned'
    BY DEF OneSession
  <2>1. ~split' /\ ~mixed
    BY <1>1 DEF Plain
  <2>2. access = None /\ refreshing = None /\ refreshing' = None /\ user = None
    BY <1>1, <1>2, <2>1 DEF Disown, IInv, SessionInv, Historic
  <2>3. owner' = None
    BY <1>1, <2>1, <2>2 DEF IInv, SessionInv, Historic, OneSession, Owned, Unowned, Plain, TypeOK
  <2> QED BY <1>1, <2>2, <2>3 DEF Unowned
<1>5. ExchangedOnce'
  BY <1>1 DEF ExchangedOnce
<1> QED BY <1>1, <1>2, <1>3, <1>4, <1>5, OtherTabStep

\* It writes tokens of its own account, or of the refresh token's.
LEMMA OtherWritesIInv == ASSUME IInv, OtherRenewed \/ OtherRefreshed \/ OtherLoads PROVE IInv'
<1>1. /\ stored' \in {stored, other, refresh} /\ other' \in {stored, other, refresh}
      /\ refresh' = refresh
      /\ UNCHANGED <<access, user, calls, role, mixed, unsynced, owner, split, spent, missed>>
  BY DEF OtherRenewed, OtherRefreshed, OtherLoads, storage, history
<1>2. Disown \/ refreshing' = refreshing
  BY DEF OtherRenewed, OtherRefreshed, OtherLoads
<1>3. Booting' <=> Booting
  BY <1>2, Disowned DEF Booting
<1>4. refreshing' = None <=> refreshing = None
  BY <1>2, Disowned
<1>5. OneSession'
  <2> SUFFICES ASSUME Plain' PROVE other' \in {None, owner'} /\ (Owned' \/ Unowned')
    BY DEF OneSession
  <2>1. Plain /\ other \in {None, owner} /\ (Owned \/ Unowned)
    BY <1>1 DEF Plain, IInv, SessionInv, OneSession
  <2>2. CASE Owned
    <3>1. stored' = owner
      BY <2>1, <2>2 DEF Owned, OtherRenewed, OtherRefreshed, OtherLoads, storage
    <3> QED BY <1>1, <1>3, <2>1, <2>2, <3>1 DEF Owned
  <2>3. CASE Unowned
    BY <1>1, <1>4, <2>1, <2>3 DEF Unowned
  <2> QED BY <2>1, <2>2, <2>3
<1>6. ExchangedOnce'
  <2>1. CASE refreshing' = refreshing
    BY <1>1, <2>1 DEF IInv, SessionInv, ExchangedOnce
  <2>2. CASE OtherRefreshed
    BY <1>1, <2>2 DEF OtherRefreshed, ExchangedOnce
  <2> QED BY <2>1, <2>2 DEF OtherRenewed, OtherLoads
<1>7. stored' \in Account \cup {None} /\ other' \in Account \cup {None} /\ refresh' \in Account \cup {None}
      /\ owner' \in Account \cup {None} /\ split' \in BOOLEAN /\ spent' \in BOOLEAN /\ missed' \in BOOLEAN
  BY <1>1 DEF IInv, TypeOK
<1>8. (split' => owner' = None) /\ (~split' => owner' = owner /\ ~split)
  BY <1>1 DEF IInv, SessionInv, Historic
<1> QED BY <1>1, <1>2, <1>5, <1>6, <1>7, <1>8, OtherTabStep

-----------------------------------------------------------------------------
LEMMA NextIInv == ASSUME IInv, [Next]_vars PROVE IInv'
<1>1. CASE UserStep
  BY <1>1, SendIInv, LogoutIInv, DropIInv, LoginIInv, ReloadIInv DEF UserStep
<1>2. CASE ApiStep
  BY <1>2, ServeIInv, RefuseIInv, ExchangeIInv, RefuseExchangeIInv DEF ApiStep
<1>3. CASE AnswerStep
  BY <1>3, RenewedIInv, SignedInIInv, UnauthorizedIInv, RefreshedIInv, RefreshFailedIInv DEF AnswerStep
<1>4. CASE OtherTab
  BY <1>4, OtherSignsInIInv, OtherSignsOutIInv, OtherWritesIInv DEF OtherTab
<1>5. CASE \E a \in Account, r \in Role : ChangeRole(a, r)
  BY <1>5, ChangeRoleIInv
<1>6. CASE UNCHANGED vars
  <2>1. TypeOK'
    BY <1>6 DEF vars, storage, history, IInv, TypeOK
  <2>2. CallsFit' /\ RefreshingFits' /\ BootAlone' /\ NobodyForgotten'
    BY <1>6 DEF vars, storage, history, IInv, SessionInv, CallsFit, CallFits, RefreshingFits, RefreshFits,
                BootAlone, Booting, NobodyForgotten, Plain
  <2>3. OneSession'
    BY <1>6 DEF vars, storage, history, IInv, SessionInv, OneSession, Owned, Unowned, Plain, Booting
  <2>4. Historic' /\ RoleSynced' /\ ExchangedOnce'
    BY <1>6 DEF vars, storage, history, IInv, SessionInv, Historic, RoleSynced, ExchangedOnce
  <2> QED BY <2>1, <2>2, <2>3, <2>4 DEF IInv, SessionInv
<1> QED BY <1>1, <1>2, <1>3, <1>4, <1>5, <1>6 DEF Next

LEMMA InvariantIInv == Spec => []IInv
<1>1. Init => IInv
  BY InitIInv
<1>2. IInv /\ [Next]_vars => IInv'
  BY NextIInv
<1> QED BY <1>1, <1>2, PTL DEF Spec

\* The session, the calls and the refresh of a tab keep their types.
THEOREM TypeCorrect == Spec => []TypeOK
<1>1. IInv => TypeOK
  BY DEF IInv
<1> QED BY <1>1, InvariantIInv, PTL

\* AuthService's user and the tokens in memory and storage are all of the
\* account that signed in last, or all gone, and the user has the role its
\* token says, whatever order the answers come in, but for what crossed.
THEOREM SessionHasOneIdentity == Spec => []OneIdentity
<1>1. IInv => OneIdentity
  <2> SUFFICES ASSUME IInv PROVE OneIdentity
    OBVIOUS
  <2>1. ASSUME ~mixed, ~split, ~Booting
        PROVE  \/ {owner, access, stored, refresh, user} = {None}
               \/ /\ None \notin {owner, access, stored, refresh, user}
                  /\ {access.who, stored, refresh, user.who} = {owner}
    <3>1. Owned \/ Unowned
      BY <2>1 DEF IInv, SessionInv, OneSession, Plain
    <3>2. CASE Owned
      BY <2>1, <3>2 DEF Owned
    <3>3. CASE Unowned
      BY <3>3 DEF Unowned
    <3> QED BY <3>1, <3>2, <3>3
  <2>2. ~unsynced /\ user # None /\ access # None => user.role = access.role
    BY DEF IInv, SessionInv, RoleSynced
  <2> QED BY <2>1, <2>2 DEF OneIdentity
<1> QED BY <1>1, InvariantIInv, PTL

\* Only a failed refresh, a 401 with no refresh token in storage and the user
\* end a session.
LEMMA EndsOnlySo ==
  ASSUME IInv, [Next]_vars
  PROVE  [access # None /\ access' = None => refresh = None \/ RefreshFailed \/ UserStep]_vars
<1> SUFFICES ASSUME access # None, access' = None, access' # access, ~UserStep, ~RefreshFailed
             PROVE  refresh = None
  OBVIOUS
<1>1. (\E c \in Call : Renewed(c) \/ SignedIn(c) \/ Unauthorized(c)) \/ Refreshed
  BY DEF Next, ApiStep, AnswerStep, OtherTab, Serve, SignIn, Refuse, Exchange, RefuseExchange, OtherSignsIn,
         OtherSignsOut, OtherRenewed, OtherRefreshed, OtherLoads, ChangeRole, vars, storage
<1>2. ASSUME NEW c \in Call, Unauthorized(c) PROVE refresh = None
  BY <1>2 DEF Unauthorized, EndSession, WaitForRefresh, storage
<1>3. ASSUME NEW w \in Account, NEW r \in Role, access' = [who |-> w, role |-> r] PROVE FALSE
  <2>1. [who |-> w, role |-> r] \in AccessToken
    BY DEF AccessToken
  <2> QED BY <1>3, <2>1, Records
<1>4. ASSUME NEW c \in Call, Renewed(c) \/ SignedIn(c) PROVE FALSE
  <2>1. access' = [who |-> calls[c].who, role |-> calls[c].role]
    BY <1>4 DEF Renewed, SignedIn
  <2>2. calls[c].who \in Account /\ calls[c].role \in Role
    BY <1>4, CallsShaped DEF Renewed, SignedIn, At, Open, CallShape, CallState
  <2> QED BY <1>3, <2>1, <2>2
<1>5. CASE Refreshed
  <2>1. access' = [who |-> refreshing.who, role |-> refreshing.role]
    BY <1>5 DEF Refreshed
  <2>2. refreshing.who \in Account /\ refreshing.role \in Role
    BY <1>5 DEF Refreshed, IInv, SessionInv, RefreshingFits, RefreshFits, RefreshShape, Refreshing
  <2> QED BY <1>3, <2>1, <2>2
<1> QED BY <1>1, <1>2, <1>4, <1>5

\* However many calls are refused and however late, the API exchanges a refresh
\* token once, no call is left waiting, and only a refresh that failed, or that
\* there is none, ends the session (error.interceptor.ts).
THEOREM OneRefreshIsShared == Spec => OneRefreshServesAll
<1>1. IInv => ExchangedOnce /\ WaitingForSomething
  BY DEF IInv, SessionInv, NobodyForgotten, WaitingForSomething, Waiting, Open
<1>2. IInv /\ [Next]_vars =>
        [access # None /\ access' = None => refresh = None \/ RefreshFailed \/ UserStep]_vars
  BY EndsOnlySo
<1>3. Spec => [][Next]_vars
  BY DEF Spec
<1> QED BY <1>1, <1>2, <1>3, InvariantIInv, PTL DEF OneRefreshServesAll, EndedOnlyByFailedRefresh
=============================================================================
