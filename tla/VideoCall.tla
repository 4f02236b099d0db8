------------------------------ MODULE VideoCall ------------------------------
(***************************************************************************)
(* A whole call: the user directory (PeerManager), the session rooms       *)
(* (SocketRooms), and for each user a middleware with its browser          *)
(* (middleware/server_comms.py, events.py and website/client/static/app.js)*)
(*                                                                         *)
(* A browser that leaves a session forgets the room at once and sends      *)
(* leave_room, which the middleware handles some time later.  It does so   *)
(* when the user asks for it, and once more when it is told that the peer  *)
(* left.  The middleware's connects to a session are retried for seconds,  *)
(* each in a greenlet of its own that nothing cancels.  The server handles *)
(* one thing at a time, and nothing while it contacts a middleware.        *)
(*                                                                         *)
(* Users are registered, and keep their ids.  Connections break only when  *)
(* a middleware closes them: SocketRooms deals with the others.            *)
(***************************************************************************)
EXTENDS FiniteSets, Naturals, Functions

CONSTANTS
    Ids,         \* user ids
    SessionIds,  \* session ids
    Sids,        \* Socket.IO session ids
    None,
    MaxTries,    \* _WS_CONNECT_MAX_ATTEMPTS
    AdminCalls   \* bound: the operator ends only one of the first calls

ASSUME TriesAssumption == MaxTries \in Nat \ {0} /\ AdminCalls \in Nat
ASSUME NoneAssumption  == None \notin Ids \cup SessionIds \cup Sids

VARIABLES
    users, sessions, request,  \* of PeerManager
    sids, signalled,           \* of SocketRooms
    reached,   \* the middleware that the server contacts has handled it
    sock,      \* server_client: the sid it is connected as
    connects,  \* the connect_to_session_ws that retry: session and attempt
    roomIds,   \* sids with a room-id on its way to them
    media,     \* the session whose room-id started the media threads
    room,      \* the browser: the session it shows
    leaving,   \* the browser's leave_room is on its way; two count as one
    hangup,    \* a POST /disconnect_peer is on its way
    call, accepted, asked, excused   \* history: see below

server == <<users, sessions, request, sids, signalled>>
client == <<reached, sock, connects, roomIds, media, room, leaving, hangup>>
(* call: the session of each user's call, as the directory has it;         *)
(* accepted: the sessions of all calls so far; asked: those of the calls   *)
(* in the directory that a user asked to leave; excused: the sessions that *)
(* a server-error was about, or that a leave_room of one of the two left.  *)
history == <<call, accepted, asked, excused>>
vars == <<server, client, history>>

Up == {sock[c] : c \in Ids} \ {None}

P == INSTANCE PeerManager WITH ReissueIds <- FALSE, retired <- {}
R == INSTANCE SocketRooms WITH up <- Up, heard <- [x \in DOMAIN sids |-> {}]

-----------------------------------------------------------------------------
Init ==
    /\ users = [u \in Ids |-> P!NewUser]
    /\ sessions = [s \in {} |-> {}]
    /\ request = P!NoRequest
    /\ sids = [x \in {} |-> {}]
    /\ signalled = {}
    /\ reached = FALSE
    /\ sock = [c \in Ids |-> None]
    /\ connects = [c \in Ids |-> {}]
    /\ roomIds = {}
    /\ media = [c \in Ids |-> None]
    /\ room = [c \in Ids |-> None]
    /\ leaving = [c \in Ids |-> FALSE]
    /\ hangup = [c \in Ids |-> FALSE]
    /\ call = [c \in Ids |-> None]
    /\ accepted = {}
    /\ asked = {}
    /\ excused = {}

\* The next id of a supply, in an order of no importance.
NextOf(supply, used) == CHOOSE x \in supply : x \notin used

\* The session of c's call, if it has one.
CallOf(c) == {call[c]} \ {None}

\* connect_to_session_ws up to its first attempt: close the socket, if any.
\* The media threads of an earlier call go on.
BeginConnect(c, s) ==
    /\ sock' = [sock EXCEPT ![c] = None]
    /\ connects' = [connects EXCEPT ![c] = @ \cup {[session |-> s, try |-> 1]}]

-----------------------------------------------------------------------------
(* Setting a call up. *)

\* joinRoom in the lobby, and join_room up to the server's call to the peer.
\* The requests that the server refuses change nothing here.
JoinRoom(c, p) ==
    /\ room[c] = None
    /\ SessionIds \ DOMAIN sessions # {}
    /\ P!PeerConnection(c, p, NextOf(SessionIds, DOMAIN sessions))
    /\ reached' = FALSE
    /\ UNCHANGED <<sids, signalled, sock, connects, roomIds, media, room,
                   leaving, hangup, history>>

\* The peer's POST /peer_connection: spawn the connect, answer 200.
RestPeerConnection ==
    /\ request.op = "connect"
    /\ ~reached
    /\ reached' = TRUE
    /\ BeginConnect(request.peer, request.session)
    /\ UNCHANGED <<server, roomIds, media, room, leaving, hangup, history>>

\* The call is in the directory, and the caller learns of it and connects.
Accepted ==
    /\ reached
    /\ P!PeerAccepts
    /\ reached' = FALSE
    /\ BeginConnect(request.user, request.session)
    /\ call' = [c \in Ids |-> IF c \in {request.user, request.peer}
                              THEN request.session ELSE call[c]]
    /\ accepted' = accepted \cup {request.session}
    /\ UNCHANGED <<sids, signalled, roomIds, media, room, leaving, hangup,
                   asked, excused>>

\* Mistake: the status of the answer is not looked at.
ConnectAnyway ==
    /\ P!PeerFails
    /\ reached' = FALSE
    /\ BeginConnect(request.user, request.session)
    /\ UNCHANGED <<sids, signalled, roomIds, media, room, leaving, hangup,
                   history>>

\* The peer was not reached, or answered too late: server-error.  The peer
\* may be connecting already.
Refused ==
    /\ P!PeerFails
    /\ reached' = FALSE
    /\ excused' = excused \cup {request.session}
    /\ UNCHANGED <<sids, signalled, sock, connects, roomIds, media, room,
                   leaving, hangup, call, accepted, asked>>

\* Mistake: a client that is connected connects once more.
ConnectsAgain(c) == TRUE

\* server_client.connect raises when it is connected.
MayConnect(c) == sock[c] = None

\* An attempt that the server accepts, and _on_connect.
ConnectSucceeds(c, k) ==
    LET x == NextOf(Sids, DOMAIN sids)
    IN /\ P!HubFree
       /\ MayConnect(c)
       /\ Sids \ DOMAIN sids # {}
       /\ R!Admitted(k.session, c)
       /\ sids' = [y \in DOMAIN sids \cup {x} |->
                      IF y = x THEN [session |-> k.session, user |-> c]
                      ELSE sids[y]]
       /\ UNCHANGED sessions
       /\ R!NotifyRoom(k.session, x)
       /\ sock' = [sock EXCEPT ![c] = x]
       /\ connects' = [connects EXCEPT ![c] = @ \ {k}]
       /\ roomIds' = IF R!Complete(k.session)'
                     THEN roomIds \cup R!Room(k.session)' ELSE roomIds
       /\ UNCHANGED <<users, request, reached, media, room, leaving, hangup,
                      history>>

\* Mistake: the last failure is logged only.
GiveUpSilently(k) == UNCHANGED excused

\* The last failure is reported as a server-error.
GiveUp(k) ==
    excused' = IF k.try < MaxTries THEN excused ELSE excused \cup {k.session}

\* An attempt fails: the network, a timeout, a server that stands still, or a
\* client that is connected already.
ConnectFails(c, k) ==
    /\ connects' = [connects EXCEPT
                      ![c] = (@ \ {k}) \cup
                             (IF k.try < MaxTries
                              THEN {[k EXCEPT !.try = @ + 1]} ELSE {})]
    /\ GiveUp(k)
    /\ UNCHANGED <<server, reached, sock, roomIds, media, room, leaving, hangup,
                   call, accepted, asked>>

\* room-id: tell the browser, start the media threads.  It is lost when the
\* socket was closed meanwhile.
ServerRoomId(c) ==
    /\ sock[c] \in roomIds
    /\ roomIds' = roomIds \ {sock[c]}
    /\ media' = [media EXCEPT ![c] = sids[sock[c]].session]
    /\ room' = [room EXCEPT ![c] = sids[sock[c]].session]
    /\ UNCHANGED <<server, reached, sock, connects, leaving, hangup, history>>

-----------------------------------------------------------------------------
(* Leaving it. *)

\* leaveSession, because the user asked for it.
UserLeaves(c) ==
    /\ room[c] # None
    /\ room' = [room EXCEPT ![c] = None]
    /\ leaving' = [leaving EXCEPT ![c] = TRUE]
    /\ asked' = asked \cup CallOf(c)
    /\ UNCHANGED <<server, reached, sock, connects, roomIds, media, hangup,
                   call, accepted, excused>>

\* leave_room.  The connects go on.
LeaveRoom(c) ==
    /\ leaving[c]
    /\ leaving' = [leaving EXCEPT ![c] = FALSE]
    /\ media' = [media EXCEPT ![c] = None]
    /\ sock' = [sock EXCEPT ![c] = None]
    /\ hangup' = [hangup EXCEPT ![c] = TRUE]
    /\ excused' = excused \cup CallOf(c)
    /\ UNCHANGED <<server, reached, connects, roomIds, room, call, accepted,
                   asked>>

\* The call of c and its peer is over.
CallEnds(c) ==
    /\ call' = [d \in Ids |-> IF d \in {c, users[c].peer} THEN None ELSE call[d]]
    /\ asked' = asked \ CallOf(c)

\* POST /disconnect_peer reaches the server, in or after the 5 seconds that
\* leave_room waits for it.
HangUp(c) ==
    /\ hangup[c]
    /\ hangup' = [hangup EXCEPT ![c] = FALSE]
    /\ \/ /\ P!DisconnectPeer(c)
          /\ reached' = FALSE
          /\ CallEnds(c)
       \/ /\ P!HubFree
          /\ users[c].peer = None
          /\ UNCHANGED <<users, sessions, request, reached, call, asked>>
    /\ UNCHANGED <<sids, signalled, sock, connects, roomIds, media, room,
                   leaving, accepted, excused>>

\* It is refused (the rate limit) or lost; leave_room only logs that.
HangUpLost(c) ==
    /\ hangup[c]
    /\ hangup' = [hangup EXCEPT ![c] = FALSE]
    /\ UNCHANGED <<server, reached, sock, connects, roomIds, media, room,
                   leaving, history>>

\* POST /admin/disconnect/<id>: nobody tells c.
AdminDisconnect(c) ==
    /\ Cardinality(accepted) <= AdminCalls
    /\ P!Disconnect("disconnect", c)
    /\ reached' = FALSE
    /\ CallEnds(c)
    /\ UNCHANGED <<sids, signalled, sock, connects, roomIds, media, room,
                   leaving, hangup, accepted, excused>>

\* The peer's POST /peer_disconnected.  The browser forgets the room and sends
\* leave_room for its part.
RestPeerDisconnected ==
    LET c == request.peer
    IN /\ request.op = "disconnect"
       /\ ~reached
       /\ reached' = TRUE
       /\ room' = [room EXCEPT ![c] = None]
       /\ leaving' = [leaving EXCEPT ![c] = TRUE]
       /\ media' = [media EXCEPT ![c] = None]
       /\ sock' = [sock EXCEPT ![c] = None]
       /\ UNCHANGED <<server, connects, roomIds, hangup, history>>

PeerNotified ==
    /\ P!PeerNotified
    /\ reached' = FALSE
    /\ UNCHANGED <<sids, signalled, sock, connects, roomIds, media, room,
                   leaving, hangup, history>>

\* The server notices a closed socket.
SocketGone(x) ==
    /\ P!HubFree
    /\ x \notin Up
    /\ UNCHANGED <<users, request, reached, sock, connects, media, room,
                   leaving, hangup, history>>
    /\ R!Disconnect(x)
    /\ roomIds' = roomIds \ {x}

Next ==
    \/ \E c, p \in Ids : JoinRoom(c, p)
    \/ RestPeerConnection
    \/ Accepted
    \/ Refused
    \/ \E c \in Ids :
          \/ \E k \in connects[c] : ConnectSucceeds(c, k) \/ ConnectFails(c, k)
          \/ ServerRoomId(c)
          \/ UserLeaves(c)
          \/ LeaveRoom(c)
          \/ HangUp(c)
          \/ HangUpLost(c)
          \/ AdminDisconnect(c)
    \/ RestPeerDisconnected
    \/ PeerNotified
    \/ \E x \in Sids : SocketGone(x)

Spec == Init /\ [][Next]_vars

\* Each attempt to connect ends, retries are limited, and an emitted room-id
\* is handled unless its socket is closed.
Fairness ==
    \A c \in Ids :
        /\ WF_vars(\E k \in connects[c] : ConnectSucceeds(c, k) \/ ConnectFails(c, k))
        /\ WF_vars(ServerRoomId(c))

FairSpec == Spec /\ Fairness

-----------------------------------------------------------------------------
(* Properties *)

\* The middleware keeps what SocketRooms takes for granted: one connection at
\* a time for each client, and only the server puts sockets into rooms
\* (server_comms.py:47-51).
ImplementsRooms == R!Spec

\* room-id starts camera and microphone only for a call that both sides accepted
\* and one is part of, never for a session whose call was refused while the peer
\* had begun to connect to it (peer_manager.py:50, server_comms.py:178).  The
\* preview that select_camera starts outside of a call (events.py:58) is no part
\* of this module.
MediaOnlyInCalls ==
    \A c \in Ids : media[c] # None => media[c] \in accepted /\ c \in sessions[media[c]]

InCall(s) == \E c \in Ids : call[c] = s

\* While a call has not come up somebody is still about to bring it up: each
\* side is connecting, or in the room and has started its media, has its
\* room-id on the way or waits for the other side to connect.  No other call,
\* stale connect or late room-id takes its socket, its connect or its room-id
\* away without a leave_room or a server-error (server_comms.py:40-88,
\* socket_api.py:99-110).
OnItsWay(c, s) == \E k \in connects[c] : k.session = s
InRoom(c, s)   == sock[c] # None /\ sids[sock[c]].session = s

ComingUp(c, s) ==
    \/ OnItsWay(c, s)
    \/ /\ InRoom(c, s)
       /\ \/ media[c] = s
          \/ sock[c] \in roomIds
          \/ \E d \in sessions[s] : OnItsWay(d, s)

NobodyForgotten == \A c \in Ids : \A s \in CallOf(c) \ excused : ComingUp(c, s)

\* A call in the directory comes up: both sides start their media for it, or it
\* is over again, or a browser was told that the connection failed, or a
\* leave_room ran (server_comms.py:40-88).
CallComesUp ==
    \A s \in SessionIds :
        InCall(s) ~> \/ ~InCall(s)
                     \/ s \in excused
                     \/ \A c \in sessions[s] : media[c] = s

\* socket_api.py:162-165: "The explicit REST endpoint POST /disconnect_peer
\* (called by leave_room) is the authoritative signal that a user wants to
\* leave."  A browser that was told that its peer left sends leave_room too,
\* and it may arrive when there is a new call.
OnlyWhoWantsToLeave ==
    [][\A c \in Ids : HangUp(c) => CallOf(c) \subseteq asked]_vars

=============================================================================
