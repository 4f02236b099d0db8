----------------------------- MODULE PeerManager -----------------------------
(***************************************************************************)
(* The user directory of the QKD server (server/utils/user_manager.py) and *)
(* the two workflows that change it (server/peer_manager.py), with the     *)
(* REST handlers that call them (server/rest_api.py, admin_routes.py).     *)
(*                                                                         *)
(* The server is one process on a gevent hub whose sockets are NOT monkey  *)
(* patched (server/main.py), so the outbound requests.post made by         *)
(* ClientNotifier.notify stops the whole hub until the peer answers, the   *)
(* connection fails, or the 8-second timeout fires.  A handler is one      *)
(* action, except where it calls contact_client: there it is split into    *)
(* the part before the call, which sets "request", and the part after it.  *)
(* While a request is pending no other handler runs (HubFree).             *)
(*                                                                         *)
(* Requests the handlers reject before they change anything (BadRequest,   *)
(* InvalidStateError, rate limiting) leave every variable alone and are    *)
(* not actions.                                                            *)
(***************************************************************************)
EXTENDS FiniteSets, Functions

CONSTANTS
    Ids,         \* the ids generate_user_id can draw
    SessionIds,  \* the supply of uuid4 session ids
    None,        \* Python's None
    ReissueIds   \* may a removed user's id be drawn again?  The code never
                 \* prevents it; FALSE assumes the draw does not hit one

ASSUME NoneAssumption    == None \notin Ids
ASSUME ReissueAssumption == ReissueIds \in BOOLEAN

VARIABLES
    users,       \* DictUserStorage.users: id -> [state, peer]
    retired,     \* ids whose user is gone (history, for ReissueIds)
    sessions,    \* SocketAPI.sessions: session id -> the users it is for
    request      \* the handler that is blocked in contact_client

vars == <<users, retired, sessions, request>>

-----------------------------------------------------------------------------
UserState == {"IDLE", "AWAITING_CONNECTION", "CONNECTED"}
User      == [state : UserState, peer : Ids \cup {None}]
NewUser   == [state |-> "IDLE", peer |-> None]

Registered == DOMAIN users
Connected  == {u \in Registered : users[u].state = "CONNECTED"}

NoRequest == [op |-> "none", user |-> None, peer |-> None, session |-> None]
Request   == [op : {"connect", "disconnect", "admin_remove"},
              user : Ids, peer : Ids, session : SessionIds \cup {None}]
             \cup {NoRequest}

\* Mistake: a hub that serves other requests while it contacts a peer.
HubPatched == TRUE

HubFree == request = NoRequest

\* Mistake: the peer field is not written.
SetOnlyState(us, u, state, peer) ==
    IF u \in DOMAIN us THEN [us EXCEPT ![u].state = state] ELSE us

\* UserManager.set_user_state: IDLE exactly when there is no peer, and an id
\* that is not in the store is an error its callers here swallow.
SetUserState(us, u, state, peer) ==
    IF u \in DOMAIN us /\ (state = "IDLE" <=> peer = None)
    THEN [us EXCEPT ![u] = [state |-> state, peer |-> peer]]
    ELSE us

\* Mistake: only the user that asked is reset.
OnlyCallerIdle(us, u, p) == SetUserState(us, u, "IDLE", None)

\* The two resets of PeerConnectionManager.disconnect.
BothIdle(us, u, p) ==
    SetUserState(SetUserState(us, u, "IDLE", None), p, "IDLE", None)

\* UserManager.remove_user.
Without(us, u) == Restrict(us, DOMAIN us \ {u})

\* Mistake: the peer's state is not looked at.
CallableBusyPeer(u, p) ==
    u # p /\ {u, p} \subseteq Registered /\ users[u].state = "IDLE"

\* The checks of PeerConnectionManager.connect.
Callable(u, p) ==
    /\ u # p
    /\ {u, p} \subseteq Registered
    /\ users[p].state = "IDLE"
    /\ users[u].state = "IDLE"

\* Mistake: the session admits one of the two users.
WithSessionForOne(s, us) ==
    [t \in DOMAIN sessions \cup {s} |->
        IF t = s THEN {CHOOSE u \in us : TRUE} ELSE sessions[t]]

\* SocketAPI.create_session.
WithSession(s, us) ==
    [t \in DOMAIN sessions \cup {s} |-> IF t = s THEN us ELSE sessions[t]]

-----------------------------------------------------------------------------
Init ==
    /\ users = [u \in {} |-> NewUser]
    /\ retired = {}
    /\ sessions = [s \in {} |-> {}]
    /\ request = NoRequest

\* POST /create_user.  The id is drawn until it is not in the store.
CreateUser(u) ==
    /\ HubFree
    /\ u \notin Registered
    /\ ReissueIds \/ u \notin retired
    /\ users' = [v \in Registered \cup {u} |->
                    IF v = u THEN NewUser ELSE users[v]]
    /\ UNCHANGED <<retired, sessions, request>>

\* POST /peer_connection up to contact_client: the checks, then the session.
PeerConnection(u, p, s) ==
    /\ HubFree
    /\ Callable(u, p)
    /\ s \notin DOMAIN sessions
    /\ sessions' = WithSession(s, {u, p})
    /\ request' = [op |-> "connect", user |-> u, peer |-> p, session |-> s]
    /\ UNCHANGED <<users, retired>>

\* Mistake: the peer is left IDLE.
PeerAcceptsHalf ==
    /\ request.op = "connect"
    /\ users' = SetUserState(users, request.user, "CONNECTED", request.peer)
    /\ request' = NoRequest
    /\ UNCHANGED <<retired, sessions>>

\* The peer's middleware answered 200: both users become CONNECTED.
PeerAccepts ==
    /\ request.op = "connect"
    /\ LET u == request.user
           p == request.peer
       IN users' = SetUserState(SetUserState(users, u, "CONNECTED", p),
                                p, "CONNECTED", u)
    /\ request' = NoRequest
    /\ UNCHANGED <<retired, sessions>>

\* Mistake: requests.post without a timeout may wait for ever.
PeerNeverFails == request.op = "connect" /\ FALSE /\ UNCHANGED vars

\* Another status, a connection error or the timeout: BadGateway.  The
\* session that was created for the call stays.
PeerFails ==
    /\ request.op = "connect"
    /\ request' = NoRequest
    /\ UNCHANGED <<users, retired, sessions>>

\* disconnect up to contact_client, for a registered u that has a peer.  If
\* the peer is no longer registered the notifier raises UserNotFoundError
\* instead of contacting anybody.
Disconnect(op, u) ==
    /\ HubFree
    /\ u \in Registered
    /\ users[u].peer # None
    /\ users' = BothIdle(users, u, users[u].peer)
    /\ request' = IF users[u].peer \in Registered
                  THEN [op |-> op, user |-> u, peer |-> users[u].peer,
                        session |-> None]
                  ELSE NoRequest
    /\ UNCHANGED <<retired, sessions>>

\* POST /disconnect_peer and POST /admin/disconnect/<id>.
DisconnectPeer(u) == Disconnect("disconnect", u)

\* /peer_disconnected was answered, refused or timed out: best effort.
PeerNotified ==
    /\ request.op = "disconnect"
    /\ request' = NoRequest
    /\ UNCHANGED <<users, retired, sessions>>

\* POST /remove_user: the user's peer is neither reset nor told.
RemoveUser(u) ==
    /\ HubFree
    /\ u \in Registered
    /\ users' = Without(users, u)
    /\ retired' = retired \cup {u}
    /\ UNCHANGED <<sessions, request>>

\* POST /admin/remove/<id> of a user in a call: disconnect, then remove.  If
\* the peer is registered, the removal waits for the peer's answer.
AdminRemove(u) ==
    /\ u \in Registered
    /\ users[u].peer \in Registered
    /\ Disconnect("admin_remove", u)

AdminRemoveNotified ==
    /\ request.op = "admin_remove"
    /\ users' = Without(users, request.user)
    /\ retired' = retired \cup {request.user}
    /\ request' = NoRequest
    /\ UNCHANGED sessions

\* POST /admin/remove/<id> when nobody is contacted: no peer, or a peer whose
\* absence raises UserNotFoundError, which admin_remove swallows.
AdminRemoveNow(u) ==
    /\ HubFree
    /\ u \in Registered
    /\ users[u].peer \notin Registered
    /\ users' = Without(BothIdle(users, u, users[u].peer), u)
    /\ retired' = retired \cup {u}
    /\ UNCHANGED <<sessions, request>>

\* The process stops (/admin/shutdown, a signal) and is started again: all of
\* its state is in memory.
Restart ==
    /\ users' = [u \in {} |-> NewUser]
    /\ retired' = retired \cup Registered
    /\ sessions' = [s \in {} |-> {}]
    /\ request' = NoRequest

-----------------------------------------------------------------------------
Next ==
    \/ \E u \in Ids : \/ CreateUser(u)
                      \/ DisconnectPeer(u)
                      \/ RemoveUser(u)
                      \/ AdminRemove(u)
                      \/ AdminRemoveNow(u)
    \/ \E u, p \in Ids, s \in SessionIds : PeerConnection(u, p, s)
    \/ PeerAccepts
    \/ PeerFails
    \/ PeerNotified
    \/ AdminRemoveNotified
    \/ Restart

\* notify() gives up after 8 seconds whatever the peer does, so the second
\* half of a handler is always reached.  Nothing makes a peer accept.
Fairness ==
    /\ WF_vars(PeerFails)
    /\ WF_vars(PeerNotified)
    /\ WF_vars(AdminRemoveNotified)

Spec     == Init /\ [][Next]_vars
FairSpec == Spec /\ Fairness

-----------------------------------------------------------------------------
(* Properties *)

TypeOK ==
    /\ Registered \subseteq Ids
    /\ users \in [Registered -> User]
    /\ \A u \in Registered : users[u].state = "IDLE" <=> users[u].peer = None
    /\ retired \subseteq Ids
    /\ DOMAIN sessions \subseteq SessionIds
    /\ sessions \in [DOMAIN sessions -> SUBSET Ids]
    /\ request \in Request

\* A CONNECTED user's peer, while it is registered, is CONNECTED to that user:
\* the two records of one call never disagree (peer_manager.py connect and
\* disconnect write both, but get there from checks made before an outbound
\* call).  It needs the assumption that removed ids are not drawn again.
PeerSymmetry ==
    \A u \in Connected :
        LET p == users[u].peer
        IN p \in Registered =>
              users[p] = [state |-> "CONNECTED", peer |-> u]

\* What connect checked before it contacted the peer still holds when the
\* answer is applied, and what disconnect reset stays reset until the peer was
\* told: both parties are registered and IDLE throughout the request
\* (peer_manager.py:30-46 against 73-74, and admin_routes.py:155-159).
AnswerStillValid ==
    request # NoRequest =>
                /\ request.user # request.peer
                /\ \A u \in {request.user, request.peer} :
                      u \in Registered /\ users[u] = NewUser

\* Two users in a call have a session that admits the two of them and nobody
\* else (start_websocket before set_user_state, and no session is deleted).
SessionForCall ==
    \A u \in Connected :
        \E s \in DOMAIN sessions : sessions[s] = {u, users[u].peer}

\* A user leaves CONNECTED for IDLE only together with its own partner: a
\* disconnect never ends somebody else's call (peer_manager.py:97-105 resets
\* user.peer without looking at whom that user is connected to).
HangUpEndsOneCall ==
    [][\A u \in Connected :
          u \in Registered' /\ users'[u].state = "IDLE" =>
             LET p == users[u].peer
             IN p \in Registered => /\ users[p].peer = u
                                    /\ users'[p].state = "IDLE"]_vars

\* While two users are connected to each other, the hang-up of a third one
\* changes neither record: disconnect ends the "active peer session" of its user
\* and of that user's peer (peer_manager.py:79-83).  It needs ids that are not
\* drawn again, or a look at whom the peer is connected to before it is reset.
HangUpSparesOthers ==
    [][\A u, v \in Connected :
          LET w == users[v].peer
          IN /\ u \notin {v, w}
             /\ w \in Connected /\ users[w].peer = v
             /\ u \in Registered' /\ users'[u].state = "IDLE"
             => v \in Registered' /\ users'[v] = users[v]]_vars

\* No accepted connection overwrites a call: a user that stays CONNECTED stays
\* connected to the same peer (peer_manager.py:73-74 writes unconditionally).
NoCallStolen ==
    [][\A u \in Connected :
          u \in Registered' /\ users'[u].state = "CONNECTED" =>
             users'[u].peer = users[u].peer]_vars

\* The hub is never blocked for good: whatever the contacted peer does, the
\* handler that waits for it ends (the timeout of client_notifier.py:38).
EveryRequestEnds == request # NoRequest ~> request = NoRequest

\* The refinement: the calls are the pairs of users that point at each other
\* or, when one of them is gone, the pair the remaining user points at.
Calls == {{u, users[u].peer} : u \in Connected}
Registry == INSTANCE CallRegistry WITH registered <- Registered, calls <- Calls
ImplementsCallRegistry == Registry!Spec

=============================================================================
