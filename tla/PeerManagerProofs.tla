-------------------------- MODULE PeerManagerProofs --------------------------
(***************************************************************************)
(* TLAPS proofs about PeerManager, for every set of ids and sessions.      *)
(***************************************************************************)
EXTENDS PeerManager, TLAPS

-----------------------------------------------------------------------------
(* What the helpers return. *)

\* set_user_state with legal arguments: the store keeps its type, and only
\* the record of u changes.
LEMMA SetUserStateFacts ==
    ASSUME NEW S, NEW us \in [S -> User], NEW u,
           NEW state \in UserState, NEW peer \in Ids \cup {None},
           state = "IDLE" <=> peer = None
    PROVE  /\ SetUserState(us, u, state, peer) \in [S -> User]
           /\ \A v \in S : SetUserState(us, u, state, peer)[v] =
                              IF v = u THEN [state |-> state, peer |-> peer]
                                       ELSE us[v]
BY DEF SetUserState, User

\* The two resets of a disconnect idle the user and its peer, and nobody else.
LEMMA BothIdleFacts ==
    ASSUME NEW S, NEW us \in [S -> User], NEW u, NEW p
    PROVE  /\ BothIdle(us, u, p) \in [S -> User]
           /\ \A v \in S : BothIdle(us, u, p)[v] =
                              IF v \in {u, p} THEN NewUser ELSE us[v]
<1> DEFINE first == SetUserState(us, u, "IDLE", None)
<1>1. "IDLE" \in UserState /\ None \in Ids \cup {None}
  BY DEF UserState
<1>2. /\ first \in [S -> User]
      /\ \A v \in S : first[v] = IF v = u THEN NewUser ELSE us[v]
  BY <1>1, SetUserStateFacts DEF NewUser
<1>3. /\ SetUserState(first, p, "IDLE", None) \in [S -> User]
      /\ \A v \in S : SetUserState(first, p, "IDLE", None)[v] =
                         IF v = p THEN NewUser ELSE first[v]
  <2> HIDE DEF first
  <2> QED BY <1>1, <1>2 DEF SetUserState, NewUser, User
<1> QED BY <1>2, <1>3 DEF BothIdle

\* An accepted connection writes the two records of the call, crosswise.
LEMMA AcceptFacts ==
    ASSUME TypeOK, AnswerStillValid, PeerAccepts
    PROVE  /\ {request.user, request.peer} \subseteq Registered
           /\ request.user \in Ids /\ request.peer \in Ids
           /\ request.user # request.peer
           /\ users' \in [Registered -> User]
           /\ \A v \in Registered : users'[v] =
                 IF v = request.user
                 THEN [state |-> "CONNECTED", peer |-> request.peer]
                 ELSE IF v = request.peer
                 THEN [state |-> "CONNECTED", peer |-> request.user]
                 ELSE users[v]
<1> DEFINE u == request.user
           p == request.peer
           first == SetUserState(users, u, "CONNECTED", p)
<1>1. request \in Request /\ request.op = "connect"
  BY DEF TypeOK, PeerAccepts
<1>2. request # NoRequest /\ u \in Ids /\ p \in Ids
  BY <1>1 DEF Request, NoRequest
<1>3. u # p /\ {u, p} \subseteq Registered
  BY <1>2 DEF AnswerStillValid
<1>4. "CONNECTED" \in UserState /\ u # None /\ p # None
  BY <1>2, NoneAssumption DEF UserState
<1>5. users \in [Registered -> User]
  BY DEF TypeOK
<1>6. /\ first \in [Registered -> User]
      /\ \A v \in Registered : first[v] =
            IF v = u THEN [state |-> "CONNECTED", peer |-> p] ELSE users[v]
  BY <1>2, <1>4, <1>5, SetUserStateFacts
<1>7. /\ SetUserState(first, p, "CONNECTED", u) \in [Registered -> User]
      /\ \A v \in Registered : SetUserState(first, p, "CONNECTED", u)[v] =
            IF v = p THEN [state |-> "CONNECTED", peer |-> u] ELSE first[v]
  <2> HIDE DEF first, u, p
  <2> QED BY <1>2, <1>4, <1>6 DEF SetUserState, User
<1>8. users' = SetUserState(first, p, "CONNECTED", u)
  BY DEF PeerAccepts
<1> QED BY <1>2, <1>3, <1>6, <1>7, <1>8

-----------------------------------------------------------------------------
(* Type correctness. *)

\* Every reachable state is well typed: records, session sets and the pending
\* request, and a user has a peer exactly when it is not IDLE.
LEMMA InitTypeOK == Init => TypeOK
BY DEF Init, TypeOK, Registered, Request, NoRequest

LEMMA NextTypeOK ==
    ASSUME TypeOK, AnswerStillValid, [Next]_vars
    PROVE  TypeOK'
<1> USE DEF TypeOK, Registered
<1>u. NewUser \in User /\ NewUser.state = "IDLE" /\ NewUser.peer = None
  BY DEF NewUser, User, UserState
<1>r. NoRequest \in Request
  BY DEF Request
<1>1. ASSUME NEW u \in Ids, CreateUser(u) PROVE TypeOK'
  BY <1>1, <1>u DEF CreateUser
<1>2. ASSUME NEW u \in Ids, NEW p \in Ids, NEW s \in SessionIds,
             PeerConnection(u, p, s)
      PROVE  TypeOK'
  <2>1. DOMAIN sessions' = DOMAIN sessions \cup {s}
        /\ sessions' \in [DOMAIN sessions' -> SUBSET Ids]
    BY <1>2 DEF PeerConnection, WithSession
  <2>2. request' \in Request
    BY <1>2 DEF PeerConnection, Request
  <2> QED BY <1>2, <2>1, <2>2 DEF PeerConnection
<1>3. CASE PeerAccepts
  <2>1. /\ users' \in [Registered -> User]
        /\ \A v \in Registered : users'[v].state = "IDLE" <=> users'[v].peer = None
    BY <1>3, AcceptFacts, NoneAssumption
  <2> QED BY <1>3, <1>r, <2>1 DEF PeerAccepts
<1>4. CASE PeerFails
  BY <1>4, <1>r DEF PeerFails
<1>5. ASSUME NEW op \in {"disconnect", "admin_remove"}, NEW u \in Ids,
             Disconnect(op, u)
      PROVE  TypeOK'
  <2>1. /\ users' \in [Registered -> User]
        /\ \A v \in Registered : users'[v].state = "IDLE" <=> users'[v].peer = None
    BY <1>5, <1>u, BothIdleFacts DEF Disconnect
  <2>2. request' \in Request
    BY <1>5, <1>r DEF Disconnect, Request
  <2> QED BY <1>5, <2>1, <2>2 DEF Disconnect
<1>6. CASE PeerNotified
  BY <1>6, <1>r DEF PeerNotified
<1>7. ASSUME NEW u \in Ids, RemoveUser(u) PROVE TypeOK'
  BY <1>7 DEF RemoveUser, Without, Restrict
<1>8. CASE AdminRemoveNotified
  <2>1. request.user \in Ids
    BY <1>8 DEF AdminRemoveNotified, Request, NoRequest
  <2> QED BY <1>8, <1>r, <2>1 DEF AdminRemoveNotified, Without, Restrict
<1>9. ASSUME NEW u \in Ids, AdminRemoveNow(u) PROVE TypeOK'
  <2> DEFINE idle == BothIdle(users, u, users[u].peer)
  <2>1. /\ idle \in [Registered -> User]
        /\ \A v \in Registered : idle[v].state = "IDLE" <=> idle[v].peer = None
    BY <1>u, BothIdleFacts
  <2>2. users' = [v \in DOMAIN idle \ {u} |-> idle[v]]
    BY <1>9 DEF AdminRemoveNow, Without, Restrict
  <2> HIDE DEF idle
  <2> QED BY <1>9, <2>1, <2>2 DEF AdminRemoveNow
<1>10. CASE Restart
  BY <1>10, <1>r DEF Restart
<1>11. CASE UNCHANGED vars
  BY <1>11 DEF vars
<1> QED
  BY <1>1, <1>2, <1>3, <1>4, <1>5, <1>6, <1>7, <1>8, <1>9, <1>10, <1>11
  DEF Next, DisconnectPeer, AdminRemove

-----------------------------------------------------------------------------
(* While a handler waits for the peer, what it checked stays true. *)

\* Nobody is connected to itself, and nobody is in AWAITING_CONNECTION, a
\* state no code path assigns.
Settled ==
    \A u \in Registered : /\ users[u].peer # u
                          /\ users[u].state # "AWAITING_CONNECTION"

Base == TypeOK /\ AnswerStillValid /\ Settled

LEMMA NextSettled ==
    ASSUME Base, [Next]_vars
    PROVE  Settled'
<1> USE DEF Base, Settled, TypeOK, Registered
<1>1. ASSUME NEW u \in Ids, CreateUser(u) PROVE Settled'
  BY <1>1, NoneAssumption DEF CreateUser, NewUser
<1>2. CASE PeerAccepts
  BY <1>2, AcceptFacts
<1>3. ASSUME NEW op, NEW u \in Ids, Disconnect(op, u) PROVE Settled'
  BY <1>3, BothIdleFacts, NoneAssumption DEF Disconnect, NewUser
<1>4. ASSUME NEW u, users' = Without(users, u) PROVE Settled'
  BY <1>4 DEF Without, Restrict
<1>5. ASSUME NEW u \in Ids, AdminRemoveNow(u) PROVE Settled'
  <2> DEFINE idle == BothIdle(users, u, users[u].peer)
  <2>1. /\ DOMAIN idle = Registered
        /\ \A v \in Registered : /\ idle[v].peer # v
                              /\ idle[v].state # "AWAITING_CONNECTION"
    BY BothIdleFacts, NoneAssumption DEF NewUser
  <2>2. users' = [v \in DOMAIN idle \ {u} |-> idle[v]]
    BY <1>5 DEF AdminRemoveNow, Without, Restrict
  <2> HIDE DEF idle
  <2> QED BY <2>1, <2>2
<1>6. CASE Restart
  BY <1>6 DEF Restart
<1>7. CASE users' = users
  BY <1>7
<1> QED
  BY <1>1, <1>2, <1>3, <1>4, <1>5, <1>6, <1>7
  DEF Next, vars, PeerConnection, PeerFails, DisconnectPeer, PeerNotified,
      RemoveUser, AdminRemove, AdminRemoveNotified

LEMMA NextAnswerStillValid ==
    ASSUME Base, [Next]_vars
    PROVE  AnswerStillValid'
<1> USE DEF Base, AnswerStillValid, TypeOK, Registered
<1>1. CASE request' = NoRequest
  BY <1>1
<1>2. ASSUME NEW u \in Ids, NEW p \in Ids, NEW s \in SessionIds,
             PeerConnection(u, p, s)
      PROVE  AnswerStillValid'
  <2>1. u # p /\ {u, p} \subseteq Registered
    BY <1>2 DEF PeerConnection, Callable
  <2>2. users[u] = NewUser /\ users[p] = NewUser
    BY <1>2, <2>1 DEF PeerConnection, Callable, User, NewUser
  <2> QED BY <1>2, <2>1, <2>2 DEF PeerConnection
<1>3. ASSUME NEW op, NEW u \in Ids, Disconnect(op, u) PROVE AnswerStillValid'
  <2> DEFINE p == users[u].peer
  <2>1. CASE p \notin Registered
    BY <1>1, <1>3, <2>1 DEF Disconnect
  <2>2. CASE p \in Registered
    <3>1. request' = [op |-> op, user |-> u, peer |-> p,
                            session |-> None] /\ u \in Registered
      BY <1>3, <2>2 DEF Disconnect
    <3>2. Registered' = Registered /\ users'[u] = NewUser /\ users'[p] = NewUser
      BY <1>3, <2>2, <3>1, BothIdleFacts DEF Disconnect
    <3>3. u # p
      BY <3>1 DEF Settled
    <3> QED BY <2>2, <3>1, <3>2, <3>3
  <2> QED BY <2>1, <2>2
<1>4. CASE HubFree /\ request' = request
  BY <1>4 DEF HubFree
<1>5. CASE UNCHANGED vars
  BY <1>5 DEF vars
<1> QED
  BY <1>1, <1>2, <1>3, <1>4, <1>5
  DEF Next, CreateUser, PeerAccepts, PeerFails, DisconnectPeer, PeerNotified,
      RemoveUser, AdminRemove, AdminRemoveNow, AdminRemoveNotified, Restart

\* The records are well typed, nobody calls itself, and the answer of a
\* contacted peer finds the two users as the handler left them.
THEOREM BaseInvariant == Spec => []Base
<1>1. Init => Base
  BY InitTypeOK DEF Init, Base, AnswerStillValid, Settled, Registered
<1>2. Base /\ [Next]_vars => Base'
  BY NextTypeOK, NextSettled, NextAnswerStillValid DEF Base
<1> QED BY <1>1, <1>2, PTL DEF Spec

\* Type correctness of the server's user directory (user_manager.py).
THEOREM TypeCorrect == Spec => []TypeOK
BY BaseInvariant, PTL DEF Base

\* The check-then-act of connect and disconnect is safe for every number of
\* users and sessions: while the handler waits, both users stay registered and
\* IDLE (peer_manager.py:30-74, 97-115).
THEOREM AnswerApplies == Spec => []AnswerStillValid
BY BaseInvariant, PTL DEF Base

-----------------------------------------------------------------------------
(* Peer symmetry, when the ids of removed users are not drawn again. *)

\* A user that is gone leaves its id in retired, where CreateUser does not
\* find it: a peer reference never comes to name somebody else.
Departed ==
    /\ retired \cap Registered = {}
    /\ \A u \in Connected : users[u].peer \in Registered \cup retired

\* The removal of a user keeps the invariant: the references to it dangle.
LEMMA WithoutKeepsSymmetry ==
    ASSUME Departed, PeerSymmetry, NEW u \in Registered,
           users' = Without(users, u), retired' = retired \cup {u}
    PROVE  Departed' /\ PeerSymmetry'
<1>1. /\ Registered' = Registered \ {u}
      /\ \A v \in Registered' : users'[v] = users[v]
      /\ Connected' = Connected \ {u}
  BY DEF Without, Restrict, Registered, Connected
<1> QED BY <1>1 DEF Departed, PeerSymmetry, Connected

\* So does resetting a user and its peer.
LEMMA DisconnectKeepsSymmetry ==
    ASSUME Base, Departed, PeerSymmetry, NEW op, NEW u, Disconnect(op, u)
    PROVE  Departed' /\ PeerSymmetry'
<1> DEFINE p == users[u].peer
<1>1. users \in [Registered -> User] /\ u \in Registered /\ u \in Connected
  <2>1. u \in Registered /\ p # None /\ users \in [Registered -> User]
    BY DEF Disconnect, Base, TypeOK
  <2>2. users[u].state # "IDLE"
    BY <2>1 DEF Base, TypeOK
  <2>3. \A v \in Registered : users[v].state \in {"IDLE", "CONNECTED"}
    BY <2>1 DEF Base, Settled, User, UserState
  <2> QED BY <2>1, <2>2, <2>3 DEF Connected
<1>2. /\ Registered' = Registered
      /\ \A v \in Registered : users'[v] = IF v \in {u, p} THEN NewUser ELSE users[v]
  BY <1>1, BothIdleFacts DEF Disconnect, Registered
<1>3. Connected' = Connected \ {u, p}
  BY <1>2 DEF Connected, NewUser
<1>4. \A v, w \in Registered :
         v \in Connected /\ users[v].peer = w => users[w].peer = v
  <2> SUFFICES ASSUME NEW v \in Connected, users[v].peer \in Registered
               PROVE  users[users[v].peer].peer = v
    BY DEF Connected
  <2>1. users[users[v].peer] = [state |-> "CONNECTED", peer |-> v]
    BY DEF PeerSymmetry
  <2> QED BY <2>1
<1>5. \A v \in Connected \ {u, p} : users[v].peer \notin {u, p} \cap Registered
  BY <1>1, <1>4 DEF Connected
<1> QED BY <1>1, <1>2, <1>3, <1>5 DEF Departed, PeerSymmetry, Disconnect, Connected

\* A new user has an id that no record refers to.
LEMMA CreateUserKeepsSymmetry ==
    ASSUME ~ReissueIds, Base, Departed, PeerSymmetry, NEW u, CreateUser(u)
    PROVE  Departed' /\ PeerSymmetry'
<1>1. /\ Registered' = Registered \cup {u}
      /\ \A v \in Registered : users'[v] = users[v]
      /\ users'[u] = NewUser
  BY DEF CreateUser, Registered
<1>2. u \notin Registered \cup retired
  BY DEF CreateUser
<1>3. Connected' = Connected
  BY <1>1, <1>2 DEF Connected, NewUser
<1>4. \A v \in Connected : v \in Registered /\ users[v].peer # u
  BY <1>2 DEF Departed, Connected
<1>5. Departed'
  BY <1>1, <1>2, <1>3, <1>4 DEF Departed, CreateUser
<1>6. PeerSymmetry'
  BY <1>1, <1>3, <1>4 DEF PeerSymmetry
<1> QED BY <1>5, <1>6

\* The two users of an accepted connection were free, so no other record
\* refers to them.
LEMMA AcceptKeepsSymmetry ==
    ASSUME Base, Departed, PeerSymmetry, PeerAccepts
    PROVE  Departed' /\ PeerSymmetry'
<1> DEFINE u == request.user
           p == request.peer
<1>1. /\ {u, p} \subseteq Registered /\ u # p /\ users' \in [Registered -> User]
      /\ users'[u] = [state |-> "CONNECTED", peer |-> p]
      /\ users'[p] = [state |-> "CONNECTED", peer |-> u]
      /\ \A v \in Registered \ {u, p} : users'[v] = users[v]
  BY AcceptFacts DEF Base
<1>2. users[u] = NewUser /\ users[p] = NewUser
  BY DEF Base, AnswerStillValid, PeerAccepts, NoRequest
<1> HIDE DEF u, p
<1>3. Registered' = Registered /\ Connected' = Connected \cup {u, p}
  BY <1>1 DEF Registered, Connected
<1>4. \A v \in Connected : v \notin {u, p} /\ users[v].peer \notin {u, p}
  <2> SUFFICES ASSUME NEW v \in Connected
               PROVE  v \notin {u, p} /\ users[v].peer \notin {u, p}
    OBVIOUS
  <2>1. users[u].state = "IDLE" /\ users[p].state = "IDLE"
    BY <1>2 DEF NewUser
  <2>2. v \notin {u, p}
    BY <2>1 DEF Connected
  <2>3. ASSUME users[v].peer \in {u, p} PROVE FALSE
    <3>1. users[users[v].peer] = [state |-> "CONNECTED", peer |-> v]
      BY <1>1, <2>3 DEF PeerSymmetry
    <3> QED BY <2>1, <2>3, <3>1
  <2> QED BY <2>2, <2>3
<1>5. Departed'
  BY <1>1, <1>3, <1>4 DEF Departed, PeerAccepts, Connected
<1>6. PeerSymmetry'
  <2> SUFFICES ASSUME NEW v \in Connected', users'[v].peer \in Registered
               PROVE  users'[users'[v].peer] = [state |-> "CONNECTED", peer |-> v]
    BY <1>3 DEF PeerSymmetry
  <2>1. CASE v \in {u, p}
    BY <1>1, <2>1
  <2>2. CASE v \in Connected
    <3>1. users'[v] = users[v] /\ users[v].peer \notin {u, p}
      BY <1>1, <1>4, <2>2 DEF Connected
    <3>2. users'[users'[v].peer] = users[users[v].peer]
      BY <1>1, <3>1
    <3>3. users[users[v].peer] = [state |-> "CONNECTED", peer |-> v]
      BY <2>2, <3>1 DEF PeerSymmetry
    <3> QED BY <3>2, <3>3
  <2> QED BY <1>3, <2>1, <2>2
<1> QED BY <1>5, <1>6

LEMMA SymmetricInvariant ==
    ASSUME ~ReissueIds
    PROVE  Spec => [](Departed /\ PeerSymmetry)
<1>1. Init => Departed /\ PeerSymmetry
  BY DEF Init, Departed, PeerSymmetry, Connected, Registered
<1>2. ASSUME Base, Departed, PeerSymmetry, [Next]_vars
      PROVE  Departed' /\ PeerSymmetry'
  <2> USE <1>2
  <2>1. ASSUME NEW u \in Ids, RemoveUser(u) PROVE Departed' /\ PeerSymmetry'
    BY <2>1, WithoutKeepsSymmetry DEF RemoveUser
  <2>2. CASE AdminRemoveNotified
    <3>1. request.user \in Registered
      BY <2>2 DEF AdminRemoveNotified, Base, AnswerStillValid, NoRequest
    <3> QED BY <2>2, <3>1, WithoutKeepsSymmetry DEF AdminRemoveNotified
  <2>3. ASSUME NEW u \in Ids, AdminRemoveNow(u) PROVE Departed' /\ PeerSymmetry'
    <3> DEFINE idle == BothIdle(users, u, users[u].peer)
    <3>1. /\ idle \in [Registered -> User]
          /\ \A v \in Registered \ {u} : idle[v] = users[v]
      BY <2>3, BothIdleFacts DEF AdminRemoveNow, Base, TypeOK
    <3>2. /\ users' = Without(idle, u) /\ retired' = retired \cup {u}
          /\ u \in Registered
      BY <2>3 DEF AdminRemoveNow
    <3>3. Without(idle, u) = Without(users, u)
      BY <3>1 DEF Without, Restrict, Registered
    <3> QED BY <3>2, <3>3, WithoutKeepsSymmetry
  <2>4. CASE Restart
    BY <2>4 DEF Restart, Departed, PeerSymmetry, Connected, Registered
  <2>5. CASE UNCHANGED <<users, retired>>
    BY <2>5 DEF Departed, PeerSymmetry, Connected, Registered
  <2> QED
    BY <2>1, <2>2, <2>3, <2>4, <2>5, CreateUserKeepsSymmetry,
       AcceptKeepsSymmetry, DisconnectKeepsSymmetry
    DEF Next, vars, PeerConnection, PeerFails, DisconnectPeer, PeerNotified,
        AdminRemove
<1>3. Base /\ Departed /\ PeerSymmetry /\ [Next]_vars
         => (Departed /\ PeerSymmetry)'
  BY <1>2
<1> QED BY <1>1, <1>3, BaseInvariant, PTL DEF Spec

\* The server's view of calls is symmetric in every reachable state: whoever
\* is CONNECTED to a registered user has that user CONNECTED to it
\* (peer_manager.py:73-74, 97-105).
THEOREM PeersSymmetric ==
    ASSUME ~ReissueIds
    PROVE  Spec => []PeerSymmetry
BY SymmetricInvariant, PTL

-----------------------------------------------------------------------------
(* What a step never does to a call. *)

\* No step connects a user that is in a call to somebody else, whatever ids
\* are drawn (peer_manager.py:41-46 and 73-74 with the hub blocked between).
THEOREM CallsNotStolen == Spec => NoCallStolen
<1>1. ASSUME Base, [Next]_vars, NEW u \in Connected,
             u \in Registered', users'[u].state = "CONNECTED"
      PROVE  users'[u].peer = users[u].peer
  <2> USE <1>1
  <2>t. users \in [Registered -> User] /\ u \in Registered
    BY DEF Base, TypeOK, Connected
  <2>1. CASE PeerAccepts
    <3>1. u \notin {request.user, request.peer}
      BY <2>1 DEF Base, AnswerStillValid, PeerAccepts, NoRequest, Connected,
                  NewUser
    <3> QED BY <2>1, <2>t, <3>1, AcceptFacts DEF Base
  <2>2. ASSUME NEW op, NEW v \in Ids, Disconnect(op, v)
        PROVE  users'[u].peer = users[u].peer
    BY <2>2, <2>t, BothIdleFacts DEF Disconnect, NewUser
  <2>3. ASSUME NEW v \in Ids, CreateUser(v)
        PROVE  users'[u].peer = users[u].peer
    BY <2>3, <2>t DEF CreateUser
  <2>4. ASSUME NEW v, users' = Without(users, v)
        PROVE  users'[u].peer = users[u].peer
    BY <2>4, <2>t DEF Without, Restrict, Registered
  <2>5. ASSUME NEW v \in Ids, AdminRemoveNow(v)
        PROVE  users'[u].peer = users[u].peer
    <3> DEFINE idle == BothIdle(users, v, users[v].peer)
    <3>1. /\ DOMAIN idle = Registered
          /\ \A w \in Registered : idle[w] = IF w \in {v, users[v].peer}
                                             THEN NewUser ELSE users[w]
      BY <2>t, BothIdleFacts
    <3>2. users' = [w \in DOMAIN idle \ {v} |-> idle[w]]
      BY <2>5 DEF AdminRemoveNow, Without, Restrict
    <3> HIDE DEF idle
    <3> QED BY <2>t, <3>1, <3>2 DEF NewUser, Registered
  <2>6. CASE Restart
    BY <2>6 DEF Restart, Registered
  <2>7. CASE users' = users
    BY <2>7
  <2> QED
    BY <2>1, <2>2, <2>3, <2>4, <2>5, <2>6, <2>7
    DEF Next, vars, PeerConnection, PeerFails, DisconnectPeer, PeerNotified,
        RemoveUser, AdminRemove, AdminRemoveNotified
<1>2. Base /\ [Next]_vars =>
        [\A u \in Connected :
            u \in Registered' /\ users'[u].state = "CONNECTED" =>
               users'[u].peer = users[u].peer]_vars
  BY <1>1
<1> QED BY <1>2, BaseInvariant, PTL DEF Spec, NoCallStolen

\* When removed ids are not drawn again, a user becomes IDLE only together
\* with the user it is in a call with: no disconnect ends a stranger's call.
THEOREM HangUpsEndOneCall ==
    ASSUME ~ReissueIds
    PROVE  Spec => HangUpEndsOneCall
<1> DEFINE OneCall ==
             \A u \in Connected :
                u \in Registered' /\ users'[u].state = "IDLE" =>
                   LET p == users[u].peer
                   IN p \in Registered => /\ users[p].peer = u
                                          /\ users'[p].state = "IDLE"
<1>1. ASSUME Base, PeerSymmetry, [Next]_vars, NEW u \in Connected,
             u \in Registered', users'[u].state = "IDLE",
             users[u].peer \in Registered
      PROVE  /\ users[users[u].peer].peer = u
             /\ users'[users[u].peer].state = "IDLE"
  <2> USE <1>1
  <2> DEFINE p == users[u].peer
  <2>t. /\ users \in [Registered -> User] /\ u \in Registered
        /\ users[u].state = "CONNECTED"
    BY DEF Base, TypeOK, Connected
  <2>p. users[p] = [state |-> "CONNECTED", peer |-> u]
    BY DEF PeerSymmetry
  <2>1. CASE PeerAccepts
    BY <2>1, <2>t, AcceptFacts DEF Base
  <2>2. ASSUME NEW op, NEW v \in Ids, Disconnect(op, v)
        PROVE  users'[p].state = "IDLE"
    <3>1. \A w \in Registered : users'[w] =
             IF w \in {v, users[v].peer} THEN NewUser ELSE users[w]
      BY <2>2, <2>t, BothIdleFacts DEF Disconnect
    <3>2. u \in {v, users[v].peer}
      BY <2>t, <3>1
    <3>3. v \in Registered
      BY <2>2 DEF Disconnect
    <3>4. CASE u = v
      BY <3>1, <3>4 DEF NewUser
    <3>5. CASE u # v /\ u = users[v].peer
      <4>1. v \in Connected
        BY <2>2, <3>3 DEF Disconnect, Base, TypeOK, Settled, User, UserState,
                          Connected
      <4>2. users[users[v].peer] = [state |-> "CONNECTED", peer |-> v]
        BY <3>5, <2>t, <4>1 DEF PeerSymmetry
      <4>3. p = v
        BY <3>5, <4>2
      <4> QED BY <3>1, <3>3, <4>3 DEF NewUser
    <3> QED BY <3>2, <3>4, <3>5
  <2>3. ASSUME NEW v \in Ids, CreateUser(v) PROVE FALSE
    BY <2>3, <2>t DEF CreateUser
  <2>4. ASSUME NEW v, users' = Without(users, v) PROVE FALSE
    BY <2>4, <2>t DEF Without, Restrict, Registered
  <2>5. ASSUME NEW v \in Ids, AdminRemoveNow(v) PROVE FALSE
    <3> DEFINE idle == BothIdle(users, v, users[v].peer)
    <3>1. /\ DOMAIN idle = Registered
          /\ \A w \in Registered \ {v} : idle[w] = users[w]
      BY <2>5, <2>t, BothIdleFacts DEF AdminRemoveNow
    <3>2. users' = [w \in DOMAIN idle \ {v} |-> idle[w]]
      BY <2>5 DEF AdminRemoveNow, Without, Restrict
    <3> HIDE DEF idle
    <3> QED BY <2>t, <3>1, <3>2 DEF Registered
  <2>6. CASE Restart
    BY <2>6 DEF Restart, Registered
  <2>7. CASE users' = users
    BY <2>7, <2>t
  <2>8. users'[p].state = "IDLE"
    BY <2>1, <2>2, <2>3, <2>4, <2>5, <2>6, <2>7
    DEF Next, vars, PeerConnection, PeerFails, DisconnectPeer, PeerNotified,
        RemoveUser, AdminRemove, AdminRemoveNotified
  <2> QED BY <2>8, <2>p
<1>2. Base /\ PeerSymmetry /\ [Next]_vars => [OneCall]_vars
  BY <1>1
<1> QED BY <1>2, BaseInvariant, PeersSymmetric, PTL DEF Spec, HangUpEndsOneCall

-----------------------------------------------------------------------------
(* Every call has a session. *)

PendingHasSession ==
    request.op = "connect" =>
        /\ request.session \in DOMAIN sessions
        /\ sessions[request.session] = {request.user, request.peer}

\* Two users in a call always find a session that admits exactly the two of
\* them (peer_manager.py:50, socket_api.py:59-64: none is ever deleted).
THEOREM CallsHaveSessions == Spec => []SessionForCall
<1>1. Init => PendingHasSession /\ SessionForCall
  BY DEF Init, PendingHasSession, SessionForCall, NoRequest, Connected,
         Registered
<1>2. ASSUME Base, PendingHasSession, SessionForCall, [Next]_vars
      PROVE  PendingHasSession' /\ SessionForCall'
  <2> USE <1>2
  <2>t. users \in [Registered -> User]
    BY DEF Base, TypeOK
  <2>1. ASSUME NEW u \in Ids, NEW p \in Ids, NEW s \in SessionIds,
               PeerConnection(u, p, s)
        PROVE  PendingHasSession' /\ SessionForCall'
    <3>1. /\ DOMAIN sessions' = DOMAIN sessions \cup {s}
          /\ sessions'[s] = {u, p}
          /\ \A t \in DOMAIN sessions : sessions'[t] = sessions[t]
      BY <2>1 DEF PeerConnection, WithSession
    <3>2. /\ users' = users
          /\ request'.user = u /\ request'.peer = p /\ request'.session = s
      BY <2>1 DEF PeerConnection
    <3> QED BY <3>1, <3>2 DEF PendingHasSession, SessionForCall, Connected,
                              Registered
  <2>2. CASE PeerAccepts
    <3>1. /\ sessions' = sessions /\ request' = NoRequest
          /\ \E s \in DOMAIN sessions :
                sessions[s] = {request.user, request.peer}
      BY <2>2 DEF PeerAccepts, PendingHasSession
    <3>2. \A v \in Connected' : \/ v \in {request.user, request.peer}
                                \/ v \in Connected /\ users'[v] = users[v]
      BY <2>2, <2>t, AcceptFacts DEF Base, Connected, Registered
    <3>3. {request.user, request.peer} =
             {request.user} \cup {users'[request.user].peer}
          /\ {request.user, request.peer} =
             {request.peer} \cup {users'[request.peer].peer}
      BY <2>2, AcceptFacts DEF Base
    <3> QED BY <3>1, <3>2, <3>3 DEF PendingHasSession, SessionForCall,
                                    NoRequest
  <2>3. ASSUME sessions' = sessions, request'.op # "connect",
               \A v \in Connected' : v \in Connected /\ users'[v] = users[v]
        PROVE  PendingHasSession' /\ SessionForCall'
    BY <2>3 DEF PendingHasSession, SessionForCall
  <2>4. ASSUME NEW op \in {"disconnect", "admin_remove"}, NEW u \in Ids,
               Disconnect(op, u)
        PROVE  PendingHasSession' /\ SessionForCall'
    <3>1. \A v \in Connected' : v \in Connected /\ users'[v] = users[v]
      BY <2>4, <2>t, BothIdleFacts DEF Disconnect, NewUser, Connected,
                                       Registered
    <3>2. sessions' = sessions /\ request'.op # "connect"
      BY <2>4 DEF Disconnect, NoRequest
    <3> QED BY <2>3, <3>1, <3>2
  <2>5. ASSUME NEW u \in Ids, CreateUser(u)
        PROVE  PendingHasSession' /\ SessionForCall'
    <3>1. \A v \in Connected' : v \in Connected /\ users'[v] = users[v]
      BY <2>5, <2>t DEF CreateUser, NewUser, Connected, Registered
    <3> QED BY <2>3, <2>5, <3>1 DEF CreateUser, HubFree, NoRequest
  <2>6. ASSUME NEW u, users' = Without(users, u), sessions' = sessions,
               request'.op # "connect"
        PROVE  PendingHasSession' /\ SessionForCall'
    <3>1. \A v \in Connected' : v \in Connected /\ users'[v] = users[v]
      BY <2>6 DEF Without, Restrict, Connected, Registered
    <3> QED BY <2>3, <2>6, <3>1
  <2>7. ASSUME NEW u \in Ids, AdminRemoveNow(u)
        PROVE  PendingHasSession' /\ SessionForCall'
    <3> DEFINE idle == BothIdle(users, u, users[u].peer)
    <3>1. /\ DOMAIN idle = Registered
          /\ \A w \in Registered \ {u} : idle[w] = users[w]
      BY <2>7, <2>t, BothIdleFacts DEF AdminRemoveNow
    <3>2. users' = [w \in DOMAIN idle \ {u} |-> idle[w]]
      BY <2>7 DEF AdminRemoveNow, Without, Restrict
    <3> HIDE DEF idle
    <3>3. \A v \in Connected' : v \in Connected /\ users'[v] = users[v]
      BY <3>1, <3>2 DEF Connected, Registered
    <3> QED BY <2>3, <2>7, <3>3 DEF AdminRemoveNow, HubFree, NoRequest
  <2>8. CASE Restart
    BY <2>8 DEF Restart, PendingHasSession, SessionForCall, NoRequest,
                Connected, Registered
  <2>9. CASE UNCHANGED <<users, sessions>> /\ request' \in {request, NoRequest}
    BY <2>9 DEF PendingHasSession, SessionForCall, NoRequest, Connected,
                Registered
  <2> QED
    BY <2>1, <2>2, <2>4, <2>5, <2>6, <2>7, <2>8, <2>9
    DEF Next, vars, PeerFails, DisconnectPeer, PeerNotified, RemoveUser,
        AdminRemove, AdminRemoveNotified, HubFree, NoRequest
<1>3. Base /\ PendingHasSession /\ SessionForCall /\ [Next]_vars
         => (PendingHasSession /\ SessionForCall)'
  BY <1>2
<1> QED BY <1>1, <1>3, BaseInvariant, PTL DEF Spec

-----------------------------------------------------------------------------
(* PeerManager implements CallRegistry. *)

\* No registered user outside a call occurs in one.
LEMMA FreeNotBusy ==
    ASSUME PeerSymmetry, NEW u \in Registered, users[u].state # "CONNECTED"
    PROVE  u \notin UNION Calls
<1> SUFFICES ASSUME NEW v \in Connected, u \in {v, users[v].peer} PROVE FALSE
  BY DEF Calls
<1>1. u = users[v].peer
  BY DEF Connected
<1>2. users[u] = [state |-> "CONNECTED", peer |-> v]
  BY <1>1 DEF PeerSymmetry
<1> QED BY <1>2

LEMMA WithoutUnregisters ==
    ASSUME PeerSymmetry, NEW u \in Registered, users' = Without(users, u)
    PROVE  Registry!Unregister(u)
<1>1. /\ Registered' = Registered \ {u}
      /\ Connected' = Connected \ {u}
      /\ \A v \in Registered' : users'[v] = users[v]
  BY DEF Without, Restrict, Registered, Connected
<1>2. Calls' = {{v, users[v].peer} : v \in Connected \ {u}}
  BY <1>1 DEF Calls, Connected
<1>3. ASSUME NEW v \in Connected \ {u}
      PROVE  {v, users[v].peer} \in {c \in Calls : c \cap Registered' # {}}
  BY <1>1, <1>3 DEF Calls, Connected
<1>4. ASSUME NEW v \in Connected, {v, users[v].peer} \cap Registered' # {}
      PROVE  \E w \in Connected \ {u} :
                {v, users[v].peer} = {w, users[w].peer}
  <2>1. CASE v # u
    BY <2>1
  <2>2. CASE v = u
    <3>1. users[v].peer \in Registered /\ users[v].peer # u
      BY <1>1, <1>4, <2>2
    <3>2. users[users[v].peer] = [state |-> "CONNECTED", peer |-> v]
      BY <3>1 DEF PeerSymmetry
    <3> QED BY <3>1, <3>2 DEF Connected
  <2> QED BY <2>1, <2>2
<1>5. Calls' \subseteq {c \in Calls : c \cap Registered' # {}}
  BY <1>2, <1>3
<1>6. ASSUME NEW c \in Calls, c \cap Registered' # {} PROVE c \in Calls'
  <2>1. PICK v \in Connected : c = {v, users[v].peer}
    BY <1>6 DEF Calls
  <2>2. PICK w \in Connected \ {u} : c = {w, users[w].peer}
    BY <1>4, <1>6, <2>1
  <2> QED BY <1>2, <2>2
<1>7. Calls' = {c \in Calls : c \cap Registered' # {}}
  BY <1>5, <1>6
<1> QED BY <1>1, <1>7 DEF Registry!Unregister

LEMMA DisconnectHangsUp ==
    ASSUME Base, PeerSymmetry, NEW op, NEW u \in Ids, Disconnect(op, u)
    PROVE  Registry!HangUp(u)
<1> DEFINE p == users[u].peer
<1>1. /\ users \in [Registered -> User] /\ u \in Registered /\ p # None
      /\ u \in Connected
  BY DEF Disconnect, Base, TypeOK, Settled, User, UserState, Connected
<1>2. /\ Registered' = Registered
      /\ \A v \in Registered : users'[v] = IF v \in {u, p} THEN NewUser ELSE users[v]
  BY <1>1, BothIdleFacts DEF Disconnect, Registered
<1>3. Connected' = Connected \ {u, p}
  BY <1>2 DEF Connected, NewUser
<1>4. Calls' = {{v, users[v].peer} : v \in Connected \ {u, p}}
  BY <1>2, <1>3 DEF Calls, Connected
<1>5. ASSUME NEW v \in Connected \ {u, p} PROVE users[v].peer # u
  <2> SUFFICES ASSUME users[v].peer = u PROVE FALSE
    OBVIOUS
  <2>1. users[u] = [state |-> "CONNECTED", peer |-> v]
    BY <1>1, <1>5 DEF PeerSymmetry
  <2> QED BY <1>5, <2>1
<1>6. ASSUME NEW v \in Connected, v # u, users[v].peer # u PROVE v # p
  <2> SUFFICES ASSUME v = p PROVE FALSE
    OBVIOUS
  <2>1. users[p] = [state |-> "CONNECTED", peer |-> u]
    BY <1>1 DEF PeerSymmetry, Connected
  <2> QED BY <1>6, <2>1
<1> HIDE DEF p
<1>7. ASSUME NEW c \in Calls' PROVE c \in Calls /\ u \notin c
  <2>1. PICK v \in Connected \ {u, p} : c = {v, users[v].peer}
    BY <1>4, <1>7
  <2> QED BY <1>5, <2>1 DEF Calls
<1>8. ASSUME NEW c \in Calls, u \notin c PROVE c \in Calls'
  <2>1. PICK v \in Connected : c = {v, users[v].peer}
    BY <1>8 DEF Calls
  <2>2. v # u /\ users[v].peer # u
    BY <1>8, <2>1
  <2> QED BY <1>4, <1>6, <2>1, <2>2
<1>9. Calls' = {c \in Calls : u \notin c}
  BY <1>7, <1>8
<1>10. u \in UNION Calls
  BY <1>1 DEF Calls
<1> QED BY <1>1, <1>2, <1>9, <1>10 DEF Registry!HangUp, Registry!Busy

LEMMA AcceptEstablishes ==
    ASSUME Base, PeerSymmetry, PeerAccepts
    PROVE  Registry!Establish(request.user, request.peer)
<1> DEFINE u == request.user
           p == request.peer
<1>1. /\ {u, p} \subseteq Registered /\ u # p /\ users' \in [Registered -> User]
      /\ users'[u] = [state |-> "CONNECTED", peer |-> p]
      /\ users'[p] = [state |-> "CONNECTED", peer |-> u]
      /\ \A v \in Registered \ {u, p} : users'[v] = users[v]
  BY AcceptFacts DEF Base
<1>2. users[u].state = "IDLE" /\ users[p].state = "IDLE"
  BY DEF Base, AnswerStillValid, PeerAccepts, NoRequest, NewUser
<1>3. {u, p} \cap UNION Calls = {}
  BY <1>1, <1>2, FreeNotBusy
<1> HIDE DEF u, p
<1>4. Registered' = Registered /\ Connected' = Connected \cup {u, p}
  BY <1>1 DEF Registered, Connected
<1>5. \A v \in Connected : users'[v] = users[v]
  BY <1>1, <1>2 DEF Connected
<1>6. Calls' = {{v, users'[v].peer} : v \in Connected \cup {u, p}}
  BY <1>4 DEF Calls
<1>7. ASSUME NEW c \in Calls' PROVE c \in Calls \cup {{u, p}}
  <2>1. PICK v \in Connected \cup {u, p} : c = {v, users'[v].peer}
    BY <1>6
  <2>2. CASE v \in Connected
    BY <1>5, <2>1, <2>2 DEF Calls
  <2>3. CASE v \in {u, p}
    BY <1>1, <2>1, <2>3
  <2> QED BY <2>2, <2>3
<1>8. ASSUME NEW c \in Calls \cup {{u, p}} PROVE c \in Calls'
  <2>1. CASE c = {u, p}
    BY <1>1, <1>6, <2>1
  <2>2. CASE c \in Calls
    <3>1. PICK v \in Connected : c = {v, users[v].peer}
      BY <2>2 DEF Calls
    <3> QED BY <1>5, <1>6, <3>1
  <2> QED BY <2>1, <2>2
<1>9. Calls' = Calls \cup {{u, p}}
  BY <1>7, <1>8
<1> QED BY <1>1, <1>3, <1>4, <1>9 DEF Registry!Establish, Registry!Busy, u, p

LEMMA CreateRegisters ==
    ASSUME ~ReissueIds, Base, Departed, NEW u \in Ids, CreateUser(u)
    PROVE  Registry!Register(u)
<1>1. /\ Registered' = Registered \cup {u}
      /\ \A v \in Registered : users'[v] = users[v]
      /\ users'[u] = NewUser
      /\ u \notin Registered \cup retired
  BY DEF CreateUser, Registered
<1>2. Connected' = Connected
  BY <1>1 DEF Connected, NewUser
<1>3. Calls' = Calls
  BY <1>1, <1>2 DEF Calls, Connected
<1>4. u \notin UNION Calls
  <2> SUFFICES ASSUME NEW v \in Connected, u \in {v, users[v].peer}
               PROVE  FALSE
    BY DEF Calls
  <2> QED BY <1>1 DEF Departed, Connected
<1> QED BY <1>1, <1>3, <1>4 DEF Registry!Register, Registry!Busy

\* The server implements the abstract registry of calls: every handler is one
\* registry step or invisible to it, and the step that makes a call visible is
\* the one that applies the peer's answer.
THEOREM Implements ==
    ASSUME ~ReissueIds
    PROVE  Spec => ImplementsCallRegistry
<1>1. Init => Registry!Init
  BY DEF Init, Registry!Init, Calls, Connected, Registered
<1>2. ASSUME Base, Departed, PeerSymmetry, [Next]_vars
      PROVE  [Registry!Next]_(Registry!vars)
  <2> USE <1>2
  <2> USE DEF Registry!Next
  <2>1. ASSUME NEW u \in Ids, CreateUser(u) PROVE Registry!Next
    BY <2>1, CreateRegisters
  <2>2. CASE PeerAccepts
    BY <2>2, AcceptEstablishes, AcceptFacts DEF Base
  <2>3. ASSUME NEW op, NEW u \in Ids, Disconnect(op, u) PROVE Registry!Next
    BY <2>3, DisconnectHangsUp
  <2>4. ASSUME NEW u \in Ids, RemoveUser(u) PROVE Registry!Next
    BY <2>4, WithoutUnregisters DEF RemoveUser
  <2>5. CASE AdminRemoveNotified
    <3>1. request.user \in Registered /\ request.user \in Ids
      BY <2>5 DEF AdminRemoveNotified, Base, AnswerStillValid, NoRequest, TypeOK
    <3> QED BY <2>5, <3>1, WithoutUnregisters DEF AdminRemoveNotified
  <2>6. ASSUME NEW u \in Ids, AdminRemoveNow(u) PROVE Registry!Next
    <3> DEFINE idle == BothIdle(users, u, users[u].peer)
    <3>1. /\ idle \in [Registered -> User]
          /\ \A v \in Registered \ {u} : idle[v] = users[v]
      BY <2>6, BothIdleFacts DEF AdminRemoveNow, Base, TypeOK
    <3>2. users' = Without(idle, u) /\ u \in Registered
      BY <2>6 DEF AdminRemoveNow
    <3>3. Without(idle, u) = Without(users, u)
      BY <3>1 DEF Without, Restrict, Registered
    <3> QED BY <3>2, <3>3, WithoutUnregisters
  <2>7. CASE Restart
    BY <2>7 DEF Restart, Registry!Reset, Calls, Connected, Registered
  <2>8. CASE users' = users
    BY <2>8 DEF Registry!vars, Calls, Connected, Registered
  <2> QED
    BY <2>1, <2>2, <2>3, <2>4, <2>5, <2>6, <2>7, <2>8
    DEF Next, vars, PeerConnection, PeerFails, DisconnectPeer, PeerNotified,
        AdminRemove
<1>3. Base /\ Departed /\ PeerSymmetry /\ [Next]_vars
         => [Registry!Next]_(Registry!vars)
  BY <1>2
<1> QED
  BY <1>1, <1>3, BaseInvariant, SymmetricInvariant, PTL
  DEF Spec, ImplementsCallRegistry, Registry!Spec

-----------------------------------------------------------------------------
(* What the abstract registry promises *)

LEMMA RegistryInvariant == Registry!Spec => []Registry!OneCallEach
<1> USE DEF Registry!OneCallEach
<1>1. Registry!Init => Registry!OneCallEach
  BY DEF Registry!Init
<1>2. Registry!OneCallEach /\ [Registry!Next]_(Registry!vars)
         => Registry!OneCallEach'
  <2> SUFFICES ASSUME Registry!OneCallEach, [Registry!Next]_(Registry!vars)
               PROVE  Registry!OneCallEach'
    OBVIOUS
  <2>1. ASSUME NEW u \in Ids, Registry!Register(u) PROVE Registry!OneCallEach'
    BY <2>1 DEF Registry!Register
  <2>2. ASSUME NEW u \in Ids, Registry!HangUp(u) PROVE Registry!OneCallEach'
    BY <2>2 DEF Registry!HangUp
  <2>3. ASSUME NEW u \in Ids, Registry!Unregister(u) PROVE Registry!OneCallEach'
    BY <2>3 DEF Registry!Unregister
  <2>4. ASSUME NEW u \in Ids, NEW v \in Ids, Registry!Establish(u, v)
        PROVE  Registry!OneCallEach'
    <3>1. \A c \in Calls : c \cap {u, v} = {}
      BY <2>4 DEF Registry!Establish, Registry!Busy
    <3> QED BY <2>4, <3>1 DEF Registry!Establish
  <2>5. CASE Registry!Reset
    BY <2>5 DEF Registry!Reset
  <2>6. CASE UNCHANGED Registry!vars
    BY <2>6 DEF Registry!vars
  <2> QED BY <2>1, <2>2, <2>3, <2>4, <2>5, <2>6 DEF Registry!Next
<1> QED BY <1>1, <1>2, PTL DEF Registry!Spec

\* Nobody is in two calls, not even with a user who has gone, and every call has
\* two ends: a property of the registry, which the server inherits by
\* implementing it (peer_manager.py:30-112).
THEOREM NobodyInTwoCalls ==
    ASSUME ~ReissueIds
    PROVE  Spec => []Registry!OneCallEach
BY Implements, RegistryInvariant, PTL DEF ImplementsCallRegistry

=============================================================================
