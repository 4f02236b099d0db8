----------------------------- MODULE SocketRooms -----------------------------
(***************************************************************************)
(* The WebSocket side of the QKD server (server/socket_api.py): sessions   *)
(* are Socket.IO rooms, sids are the sockets in them.  A socket that joins *)
(* is checked against its session; when a session has a socket of each of  *)
(* its users the room is told to start ("room-id"); video and audio frames *)
(* are relayed to the other sockets of the room.                           *)
(*                                                                         *)
(* A client can lose its connection without the server noticing: its sid   *)
(* stays in the room (not in "up") until Engine.IO's ping times out.  A    *)
(* client has one socket at a time (middleware/server_comms.py), and       *)
(* reconnects by itself.                                                   *)
(***************************************************************************)
EXTENDS FiniteSets, Functions

CONSTANTS
    Ids,         \* user ids
    SessionIds,  \* uuid4 session ids
    Sids         \* Socket.IO session ids, of which a connection gets a new one

VARIABLES
    sessions,    \* session id -> the users expected in it
    sids,        \* sid -> [session, user], for the sockets in a room
    up,          \* the sids whose connection works
    signalled,   \* the sids that were sent room-id
    heard        \* sid -> the users whose frames it received

vars == <<sessions, sids, up, signalled, heard>>

-----------------------------------------------------------------------------
Joined  == DOMAIN sids
Room(s) == {x \in Joined : sids[x].session = s}

\* The connected_users of _on_connect.
Present(s) == {sids[x].user : x \in Room(s)}
Complete(s) == sessions[s] \subseteq Present(s)

Init ==
    /\ sessions = [s \in {} |-> {}]
    /\ sids = [x \in {} |-> {}]
    /\ up = {}
    /\ signalled = {}
    /\ heard = [x \in {} |-> {}]

\* create_session, called by PeerConnectionManager.connect with the two users.
CreateSession(s, u, p) ==
    /\ s \notin DOMAIN sessions
    /\ u # p
    /\ sessions' = [t \in DOMAIN sessions \cup {s} |->
                       IF t = s THEN {u, p} ELSE sessions[t]]
    /\ UNCHANGED <<sids, up, signalled, heard>>

\* Mistake: any user is let into a known session.
AdmittedAnyone(s, u) == s \in DOMAIN sessions

\* The checks of _on_connect.
Admitted(s, u) == s \in DOMAIN sessions /\ u \in sessions[s]

\* Mistake: room-id only goes to the socket that completed the room.
NotifyJoiner(s, x) ==
    signalled' = IF Complete(s)' THEN signalled \cup {x} ELSE signalled

\* Mistake: a room that was told to start is not told again.
NotifyOnce(s, x) ==
    signalled' = IF Complete(s)' /\ Room(s) \cap signalled = {}
                 THEN signalled \cup Room(s)' ELSE signalled

\* emit("room-id", to=session_id), once everybody expected is there.
NotifyRoom(s, x) ==
    signalled' = IF Complete(s)' THEN signalled \cup Room(s)' ELSE signalled

\* _on_connect of a new socket x by user u, accepted.
Connect(x, u, s) ==
    /\ x \notin Joined
    /\ \A y \in up : sids[y].user # u
    /\ Admitted(s, u)
    /\ sids' = [y \in Joined \cup {x} |->
                   IF y = x THEN [session |-> s, user |-> u] ELSE sids[y]]
    /\ up' = up \cup {x}
    /\ UNCHANGED sessions
    /\ NotifyRoom(s, x)
    /\ heard' = [y \in Joined \cup {x} |-> IF y = x THEN {} ELSE heard[y]]

\* The connection of x breaks; the server does not know yet.
ConnectionLost(x) ==
    /\ x \in up
    /\ up' = up \ {x}
    /\ UNCHANGED <<sessions, sids, signalled, heard>>

\* _on_disconnect: the client closed the socket, or its ping timed out.  The
\* user directory is left alone: the peer is not told, the call goes on.
Disconnect(x) ==
    /\ x \in Joined
    /\ sids' = Restrict(sids, Joined \ {x})
    /\ up' = up \ {x}
    /\ signalled' = signalled \ {x}
    /\ heard' = Restrict(heard, Joined \ {x})
    /\ UNCHANGED sessions

\* Mistake: the frame is broadcast to every socket of the server.
EveryoneElse(x) == Joined \ {x}

\* emit(..., to=session_id, skip_sid=sender_sid).
Audience(x) == Room(sids[x].session) \ {x}

\* _on_frame and _on_audio_frame, for a socket that is in a room.
Relay(x) ==
    /\ x \in up
    /\ heard' = [y \in Joined |->
                    IF y \in Audience(x) \cap up
                    THEN heard[y] \cup {sids[x].user} ELSE heard[y]]
    /\ UNCHANGED <<sessions, sids, up, signalled>>

Next ==
    \/ \E s \in SessionIds, u, p \in Ids : CreateSession(s, u, p)
    \/ \E x \in Sids : \/ \E u \in Ids, s \in SessionIds : Connect(x, u, s)
                       \/ ConnectionLost(x)
                       \/ Disconnect(x)
                       \/ Relay(x)

Spec == Init /\ [][Next]_vars

-----------------------------------------------------------------------------
(* Properties *)

TypeOK ==
    /\ DOMAIN sessions \subseteq SessionIds
    /\ sessions \in [DOMAIN sessions -> SUBSET Ids]
    /\ Joined \subseteq Sids
    /\ sids \in [Joined -> [session : DOMAIN sessions, user : Ids]]
    /\ \A x \in Joined : sids[x].user \in sessions[sids[x].session]
    /\ up \subseteq Joined
    /\ signalled \subseteq Joined
    /\ heard \in [Joined -> SUBSET Ids]

\* A client hears the other users of its own session and nobody else: media
\* stays in the room, across reconnects and for people who take part in several
\* sessions one after the other, and nobody gets its own frames back while a
\* socket it lost is still in the room, though skip_sid skips only the sending
\* socket (socket_api.py:122-147).
NoCrossTalk ==
    \A x \in Joined : heard[x] \subseteq sessions[sids[x].session] \ {sids[x].user}

\* Once a session is complete every socket in it was told to start: there is
\* no order of connects, losses and reconnects that leaves one side waiting
\* for room-id (socket_api.py:99-110).
NobodyMissesRoomId ==
    \A s \in DOMAIN sessions : Complete(s) => Room(s) \subseteq signalled

\* Frames reach a client only after room-id told it that the call started.
FramesAfterRoomId == \A x \in Joined : heard[x] # {} => x \in signalled

=============================================================================
