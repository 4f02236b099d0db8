--------------------------- MODULE VideoCallProofs ---------------------------
(***************************************************************************)
(* Proofs about VideoCall: media run for accepted calls only, the          *)
(* middlewares implement SocketRooms and leave PeerManager's directory     *)
(* alone, and nobody is forgotten while a call comes up; for any number of *)
(* users, sessions, sockets and attempts to connect.                       *)
(*                                                                         *)
(* A session whose call is pending or was refused has a user, the caller,  *)
(* who never began to connect to it.  So its room never becomes complete,  *)
(* no room-id is sent to it, and nobody starts media for it.               *)
(***************************************************************************)
EXTENDS VideoCall, TLAPS

Typed ==
    /\ DOMAIN sids \subseteq Sids
    /\ DOMAIN sessions \subseteq SessionIds
    /\ \A s \in DOMAIN sessions : sessions[s] \subseteq Ids
    /\ accepted \subseteq DOMAIN sessions
    /\ roomIds \subseteq DOMAIN sids
    /\ sock \in [Ids -> Sids \cup {None}]
    /\ connects \in [Ids -> SUBSET [session : SessionIds, try : Nat]]
    /\ media \in [Ids -> SessionIds \cup {None}]

\* Sockets and connects are of users their session admits.
Admitted ==
    /\ \A x \in DOMAIN sids : /\ sids[x].session \in DOMAIN sessions
                              /\ sids[x].user \in sessions[sids[x].session]
    /\ \A c \in Ids : \A k \in connects[c] : k.session \in DOMAIN sessions
    /\ \A c \in Ids : sock[c] # None => /\ sock[c] \in DOMAIN sids
                                        /\ sids[sock[c]].user = c

\* A request to connect is about a session for its two users.
Pending ==
    request.op = "connect" =>
        /\ request.session \in DOMAIN sessions
        /\ {request.user, request.peer} \subseteq sessions[request.session]
        /\ request.user # request.peer

\* User u is not in session s and not about to be.
Absent(u, s) ==
    /\ \A k \in connects[u] : k.session # s
    /\ \A x \in DOMAIN sids : ~(sids[x].session = s /\ sids[x].user = u)

Stayed(u, s) ==
    /\ Absent(u, s)
    /\ request.op = "connect" /\ request.session = s => u = request.user

OneSided == \A s \in DOMAIN sessions \ accepted : \E u \in sessions[s] : Stayed(u, s)

RoomIdsAccepted == \A x \in roomIds : sids[x].session \in accepted

Inv == /\ Typed /\ Admitted /\ Pending /\ OneSided
       /\ RoomIdsAccepted /\ MediaOnlyInCalls

-----------------------------------------------------------------------------
LEMMA InvInit == Init => Inv
<1> SUFFICES ASSUME Init PROVE Inv
  OBVIOUS
<1>1. request.op # "connect"
  BY DEF Init, P!NoRequest
<1> QED BY <1>1 DEF Init, Inv, Typed, Admitted, Pending, OneSided,
                    RoomIdsAccepted, MediaOnlyInCalls

\* An item drawn from a supply that is not used up is new.
LEMMA NextOfFresh ==
    ASSUME NEW supply, NEW used, supply \ used # {}
    PROVE  NextOf(supply, used) \in supply \ used
BY DEF NextOf

\* Steps that only close sockets, stop media, or end a request.
LEMMA QuietStep ==
    ASSUME Inv, UNCHANGED <<sessions, sids, connects, accepted>>,
           sock' \in [Ids -> Sids \cup {None}],
           \A c \in Ids : sock'[c] \in {sock[c], None},
           media' \in [Ids -> SessionIds \cup {None}],
           \A c \in Ids : media'[c] \in {media[c], None},
           roomIds' \subseteq roomIds,
           request' = request \/ request'.op # "connect"
    PROVE  Inv'
<1>1. Typed'
  BY DEF Inv, Typed
<1>2. Admitted'
  BY DEF Inv, Admitted
<1>3. Pending'
  BY DEF Inv, Pending
<1>4. OneSided'
  BY DEF Inv, OneSided, Stayed, Absent
<1>5. RoomIdsAccepted' /\ MediaOnlyInCalls'
  BY DEF Inv, RoomIdsAccepted, MediaOnlyInCalls
<1> QED BY <1>1, <1>2, <1>3, <1>4, <1>5 DEF Inv

-----------------------------------------------------------------------------
LEMMA JoinRoomStep ==
    ASSUME Inv, NEW c \in Ids, NEW p \in Ids, JoinRoom(c, p)
    PROVE  Inv'
<1>1. PICK s \in SessionIds \ DOMAIN sessions : P!PeerConnection(c, p, s)
  BY NextOfFresh DEF JoinRoom
<1>2. /\ c # p
      /\ sessions' = [t \in DOMAIN sessions \cup {s} |->
                         IF t = s THEN {c, p} ELSE sessions[t]]
      /\ request' = [op |-> "connect", user |-> c, peer |-> p, session |-> s]
  BY <1>1 DEF P!PeerConnection, P!Callable, P!WithSession
<1>3. UNCHANGED <<sids, sock, connects, roomIds, media, accepted>>
  BY DEF JoinRoom, history
<1>4. DOMAIN sessions' = DOMAIN sessions \cup {s} /\ sessions'[s] = {c, p}
      /\ \A t \in DOMAIN sessions : sessions'[t] = sessions[t]
  BY <1>1, <1>2
<1>5. Typed'
  BY <1>1, <1>3, <1>4 DEF Inv, Typed
<1>6. Admitted'
  BY <1>3, <1>4 DEF Inv, Admitted
<1>7. Pending'
  BY <1>2, <1>4 DEF Pending
<1>8. OneSided'
  <2> SUFFICES ASSUME NEW t \in DOMAIN sessions' \ accepted'
               PROVE  \E u \in sessions'[t] : Stayed(u, t)'
    BY DEF OneSided
  <2>1. CASE t = s
    <3>1. Absent(c, s)'
      BY <1>1, <1>3 DEF Inv, Admitted, Absent
    <3>2. Stayed(c, s)'
      BY <1>2, <3>1 DEF Stayed
    <3> QED BY <1>4, <2>1, <3>2
  <2>2. CASE t # s
    <3>1. PICK u \in sessions[t] : Stayed(u, t)
      BY <1>3, <1>4, <2>2 DEF Inv, OneSided
    <3>2. Stayed(u, t)'
      BY <1>2, <1>3, <2>2, <3>1 DEF Stayed, Absent
    <3> QED BY <1>3, <1>4, <2>2, <3>1, <3>2
  <2> QED BY <2>1, <2>2
<1>9. RoomIdsAccepted' /\ MediaOnlyInCalls'
  BY <1>3, <1>4 DEF Inv, Typed, RoomIdsAccepted, MediaOnlyInCalls
<1> QED BY <1>5, <1>6, <1>7, <1>8, <1>9 DEF Inv

\* A connect that begins leaves the sessions alone that it is not about.
LEMMA BeginConnectTyped ==
    ASSUME Inv, NEW c \in Ids, NEW s \in DOMAIN sessions, BeginConnect(c, s),
           UNCHANGED <<sessions, sids, roomIds, media>>,
           accepted \subseteq accepted', accepted' \subseteq DOMAIN sessions
    PROVE  /\ Typed' /\ Admitted' /\ RoomIdsAccepted' /\ MediaOnlyInCalls'
           /\ \A u \in Ids, t \in DOMAIN sessions :
                 Absent(u, t) /\ (u # c \/ t # s) => Absent(u, t)'
<1>1. /\ sock' = [sock EXCEPT ![c] = None]
      /\ connects' = [connects EXCEPT ![c] = @ \cup {[session |-> s, try |-> 1]}]
  BY DEF BeginConnect
<1>2. /\ sock \in [Ids -> Sids \cup {None}]
      /\ connects \in [Ids -> SUBSET [session : SessionIds, try : Nat]]
      /\ s \in SessionIds
  BY DEF Inv, Typed
<1>3. /\ connects'[c] = connects[c] \cup {[session |-> s, try |-> 1]}
      /\ \A u \in Ids \ {c} : connects'[u] = connects[u]
      /\ sock'[c] = None
      /\ \A u \in Ids \ {c} : sock'[u] = sock[u]
  BY <1>1, <1>2
<1>4. /\ sock' \in [Ids -> Sids \cup {None}]
      /\ connects' \in [Ids -> SUBSET [session : SessionIds, try : Nat]]
  BY <1>1, <1>2
<1>5. Typed'
  BY <1>4 DEF Inv, Typed
<1>6. Admitted'
  BY <1>3 DEF Inv, Admitted
<1>7. RoomIdsAccepted' /\ MediaOnlyInCalls'
  BY DEF Inv, Typed, RoomIdsAccepted, MediaOnlyInCalls
<1>8. \A u \in Ids, t \in DOMAIN sessions :
         Absent(u, t) /\ (u # c \/ t # s) => Absent(u, t)'
  BY <1>3 DEF Absent
<1> QED BY <1>5, <1>6, <1>7, <1>8

LEMMA PeerConnectionStep == Inv /\ RestPeerConnection => Inv'
<1> SUFFICES ASSUME Inv, RestPeerConnection PROVE Inv'
  OBVIOUS
<1>1. /\ request.op = "connect" /\ BeginConnect(request.peer, request.session)
      /\ UNCHANGED <<sessions, sids, roomIds, media, accepted, request>>
  BY DEF RestPeerConnection, server, history
<1>2. /\ request.session \in DOMAIN sessions
      /\ request.user \in Ids /\ request.peer \in Ids
      /\ request.user # request.peer
  BY <1>1 DEF Inv, Pending, Typed
<1>3. /\ Typed' /\ Admitted' /\ RoomIdsAccepted' /\ MediaOnlyInCalls'
      /\ \A u \in Ids, t \in DOMAIN sessions :
            Absent(u, t) /\ (u # request.peer \/ t # request.session) => Absent(u, t)'
  BY <1>1, <1>2, BeginConnectTyped DEF Inv, Typed
<1>4. Pending'
  BY <1>1 DEF Inv, Pending
<1>5. OneSided'
  <2> SUFFICES ASSUME NEW t \in DOMAIN sessions \ accepted
               PROVE  \E u \in sessions[t] : Stayed(u, t)'
    BY <1>1 DEF OneSided
  <2>1. PICK u \in sessions[t] : Stayed(u, t)
    BY DEF Inv, OneSided
  <2>2. u \in Ids
    BY DEF Inv, Typed
  <2>3. u # request.peer \/ t # request.session
    BY <1>1, <1>2, <2>1 DEF Stayed
  <2>4. Stayed(u, t)'
    BY <1>1, <1>3, <2>1, <2>2, <2>3 DEF Stayed
  <2> QED BY <2>4
<1> QED BY <1>3, <1>4, <1>5 DEF Inv

LEMMA AcceptedStep == Inv /\ Accepted => Inv'
<1> SUFFICES ASSUME Inv, Accepted PROVE Inv'
  OBVIOUS
<1>1. /\ request.op = "connect" /\ request'.op # "connect"
      /\ UNCHANGED sessions
  BY DEF Accepted, P!PeerAccepts, P!NoRequest
<1>2. /\ BeginConnect(request.user, request.session)
      /\ accepted' = accepted \cup {request.session}
      /\ UNCHANGED <<sids, roomIds, media>>
  BY DEF Accepted
<1>3. request.session \in DOMAIN sessions /\ request.user \in Ids
  BY <1>1 DEF Inv, Pending, Typed
<1>4. /\ Typed' /\ Admitted' /\ RoomIdsAccepted' /\ MediaOnlyInCalls'
      /\ \A u \in Ids, t \in DOMAIN sessions :
            Absent(u, t) /\ (u # request.user \/ t # request.session) => Absent(u, t)'
  BY <1>1, <1>2, <1>3, BeginConnectTyped DEF Inv, Typed
<1>5. Pending'
  BY <1>1 DEF Pending
<1>6. OneSided'
  <2> SUFFICES ASSUME NEW t \in DOMAIN sessions \ accepted, t # request.session
               PROVE  \E u \in sessions[t] : Stayed(u, t)'
    BY <1>1, <1>2 DEF OneSided
  <2>1. PICK u \in sessions[t] : Stayed(u, t)
    BY DEF Inv, OneSided
  <2>2. u \in Ids
    BY DEF Inv, Typed
  <2>3. Stayed(u, t)'
    BY <1>1, <1>4, <2>1, <2>2 DEF Stayed
  <2> QED BY <2>3
<1> QED BY <1>4, <1>5, <1>6 DEF Inv

LEMMA ConnectFailsStep ==
    ASSUME Inv, NEW c \in Ids, NEW k \in connects[c], ConnectFails(c, k)
    PROVE  Inv'
<1>1. UNCHANGED <<sessions, sids, sock, roomIds, media, accepted, request>>
  BY DEF ConnectFails, server
<1>2. connects \in [Ids -> SUBSET [session : SessionIds, try : Nat]]
  BY DEF Inv, Typed
<1>3. k \in [session : SessionIds, try : Nat]
  BY <1>2
<1>4. PICK more \in SUBSET [session : SessionIds, try : Nat] :
          /\ \A m \in more : m.session = k.session
          /\ connects' = [connects EXCEPT ![c] = (@ \ {k}) \cup more]
  <2>1. /\ [k EXCEPT !.try = @ + 1] \in [session : SessionIds, try : Nat]
        /\ [k EXCEPT !.try = @ + 1].session = k.session
    BY <1>3
  <2> DEFINE more == IF k.try < MaxTries THEN {[k EXCEPT !.try = @ + 1]} ELSE {}
  <2>2. /\ more \in SUBSET [session : SessionIds, try : Nat]
        /\ \A m \in more : m.session = k.session
    BY <2>1
  <2>3. connects' = [connects EXCEPT ![c] = (@ \ {k}) \cup more]
    BY DEF ConnectFails
  <2> HIDE DEF more
  <2> QED BY <2>2, <2>3
<1>5. /\ connects'[c] = (connects[c] \ {k}) \cup more
      /\ \A u \in Ids \ {c} : connects'[u] = connects[u]
      /\ connects' \in [Ids -> SUBSET [session : SessionIds, try : Nat]]
  BY <1>2, <1>4
<1>6. \A u \in Ids : \A m \in connects'[u] : \E l \in connects[u] : l.session = m.session
  BY <1>4, <1>5
<1>7. Typed' /\ Pending' /\ RoomIdsAccepted' /\ MediaOnlyInCalls'
  BY <1>1, <1>5 DEF Inv, Typed, Pending, RoomIdsAccepted, MediaOnlyInCalls
<1>8. Admitted'
  BY <1>1, <1>6 DEF Inv, Admitted
<1>9. OneSided'
  BY <1>1, <1>6 DEF Inv, Typed, OneSided, Stayed, Absent
<1> QED BY <1>7, <1>8, <1>9 DEF Inv

LEMMA ConnectSucceedsStep ==
    ASSUME Inv, NEW c \in Ids, NEW k \in connects[c], ConnectSucceeds(c, k)
    PROVE  Inv'
<1> DEFINE x == NextOf(Sids, DOMAIN sids)
           s == k.session
<1>1. x \in Sids \ DOMAIN sids
  BY NextOfFresh DEF ConnectSucceeds
<1>2. /\ sids' = [y \in DOMAIN sids \cup {x} |->
                     IF y = x THEN [session |-> s, user |-> c] ELSE sids[y]]
      /\ sock' = [sock EXCEPT ![c] = x]
      /\ connects' = [connects EXCEPT ![c] = @ \ {k}]
      /\ roomIds' = IF R!Complete(s)' THEN roomIds \cup R!Room(s)' ELSE roomIds
      /\ UNCHANGED <<sessions, media, accepted, request>>
      /\ s \in DOMAIN sessions /\ c \in sessions[s]
  BY DEF ConnectSucceeds, R!Admitted, history
<1> HIDE DEF x
<1>3. /\ DOMAIN sids' = DOMAIN sids \cup {x}
      /\ sids'[x].session = s /\ sids'[x].user = c
      /\ \A y \in DOMAIN sids : sids'[y] = sids[y]
  BY <1>1, <1>2
<1>4. /\ sock \in [Ids -> Sids \cup {None}]
      /\ connects \in [Ids -> SUBSET [session : SessionIds, try : Nat]]
  BY DEF Inv, Typed
<1>5. /\ sock' \in [Ids -> Sids \cup {None}]
      /\ connects' \in [Ids -> SUBSET [session : SessionIds, try : Nat]]
      /\ sock'[c] = x /\ \A u \in Ids \ {c} : sock'[u] = sock[u]
      /\ \A u \in Ids : connects'[u] \subseteq connects[u]
  BY <1>1, <1>2, <1>4
<1>6. roomIds' \subseteq DOMAIN sids'
  BY <1>2, <1>3 DEF Inv, Typed, R!Room, R!Joined
<1>7. Typed'
  BY <1>1, <1>2, <1>3, <1>5, <1>6 DEF Inv, Typed
<1>8. Admitted'
  BY <1>1, <1>2, <1>3, <1>5 DEF Inv, Admitted
<1>9. Pending' /\ MediaOnlyInCalls'
  BY <1>2 DEF Inv, Pending, MediaOnlyInCalls
<1>10. OneSided'
  <2> SUFFICES ASSUME NEW t \in DOMAIN sessions \ accepted
               PROVE  \E u \in sessions[t] : Stayed(u, t)'
    BY <1>2 DEF OneSided
  <2>1. PICK u \in sessions[t] : Stayed(u, t)
    BY DEF Inv, OneSided
  <2>2. u \in Ids
    BY DEF Inv, Typed
  <2>3. ~(u = c /\ t = s)
    BY <2>1 DEF Stayed, Absent
  <2>4. Absent(u, t)'
    BY <1>3, <1>5, <2>1, <2>2, <2>3 DEF Stayed, Absent
  <2>5. Stayed(u, t)'
    BY <1>2, <2>1, <2>4 DEF Stayed
  <2> QED BY <2>5
<1>11. RoomIdsAccepted'
  <2>1. \A y \in roomIds : sids'[y].session \in accepted'
    BY <1>2, <1>3 DEF Inv, Typed, RoomIdsAccepted
  <2>2. CASE R!Complete(s)'
    <3>1. s \in accepted
      <4> SUFFICES ASSUME s \notin accepted PROVE FALSE
        OBVIOUS
      <4>1. PICK u \in sessions'[s] : Absent(u, s)'
        BY <1>2, <1>10 DEF OneSided, Stayed
      <4>2. PICK y \in DOMAIN sids' : sids'[y].session = s /\ sids'[y].user = u
        BY <2>2, <4>1 DEF R!Complete, R!Present, R!Room, R!Joined
      <4> QED BY <4>1, <4>2 DEF Absent
    <3>2. \A y \in R!Room(s)' : sids'[y].session = s
      BY DEF R!Room
    <3> QED BY <1>2, <2>1, <2>2, <3>1, <3>2 DEF RoomIdsAccepted
  <2>3. CASE ~R!Complete(s)'
    BY <1>2, <2>1, <2>3 DEF RoomIdsAccepted
  <2> QED BY <2>2, <2>3
<1> QED BY <1>7, <1>8, <1>9, <1>10, <1>11 DEF Inv

LEMMA ServerRoomIdStep ==
    ASSUME Inv, NEW c \in Ids, ServerRoomId(c)
    PROVE  Inv'
<1> DEFINE s == sids[sock[c]].session
<1>1. /\ sock[c] \in roomIds
      /\ roomIds' = roomIds \ {sock[c]}
      /\ media' = [media EXCEPT ![c] = s]
      /\ UNCHANGED <<sessions, sids, sock, connects, accepted, request>>
  BY DEF ServerRoomId, server, history
<1>2. sock[c] \in DOMAIN sids /\ sock[c] # None
  BY <1>1, NoneAssumption DEF Inv, Typed
<1>3. s \in accepted /\ s \in SessionIds /\ c \in sessions[s]
  BY <1>1, <1>2 DEF Inv, Typed, Admitted, RoomIdsAccepted
<1> HIDE DEF s
<1>4. media \in [Ids -> SessionIds \cup {None}]
  BY DEF Inv, Typed
<1>5. /\ media' \in [Ids -> SessionIds \cup {None}]
      /\ media'[c] = s /\ \A u \in Ids \ {c} : media'[u] = media[u]
  BY <1>1, <1>3, <1>4
<1>6. Typed'
  BY <1>1, <1>5 DEF Inv, Typed
<1>7. Admitted' /\ Pending' /\ RoomIdsAccepted'
  BY <1>1 DEF Inv, Admitted, Pending, RoomIdsAccepted
<1>8. OneSided'
  BY <1>1 DEF Inv, OneSided, Stayed, Absent
<1>9. MediaOnlyInCalls'
  BY <1>1, <1>3, <1>5 DEF Inv, MediaOnlyInCalls
<1> QED BY <1>6, <1>7, <1>8, <1>9 DEF Inv

LEMMA SocketGoneStep ==
    ASSUME Inv, NEW x \in Sids, SocketGone(x)
    PROVE  Inv'
<1>1. /\ \A c \in Ids : sock[c] # x \/ x = None
      /\ x \in DOMAIN sids
      /\ sids' = Restrict(sids, DOMAIN sids \ {x})
      /\ roomIds' = roomIds \ {x}
      /\ UNCHANGED <<sessions, sock, connects, media, accepted, request>>
  <2>1. /\ x \notin Up /\ R!Disconnect(x) /\ roomIds' = roomIds \ {x}
        /\ UNCHANGED <<request, sock, connects, media, accepted>>
    BY DEF SocketGone, history
  <2>2. /\ x \in DOMAIN sids
        /\ sids' = Restrict(sids, DOMAIN sids \ {x})
        /\ UNCHANGED sessions
    BY <2>1 DEF R!Disconnect, R!Joined, R!Restrict, Restrict
  <2>3. \A c \in Ids : sock[c] # x \/ x = None
    BY <2>1 DEF Up
  <2> QED BY <2>1, <2>2, <2>3
<1>2. /\ DOMAIN sids' = DOMAIN sids \ {x}
      /\ \A y \in DOMAIN sids' : sids'[y] = sids[y]
  BY <1>1 DEF Restrict
<1>3. x # None
  BY NoneAssumption
<1>4. Typed'
  BY <1>1, <1>2 DEF Inv, Typed
<1>5. Admitted'
  BY <1>1, <1>2, <1>3 DEF Inv, Admitted
<1>6. Pending' /\ MediaOnlyInCalls'
  BY <1>1 DEF Inv, Pending, MediaOnlyInCalls
<1>7. OneSided'
  <2> SUFFICES ASSUME NEW t \in DOMAIN sessions \ accepted
               PROVE  \E u \in sessions[t] : Stayed(u, t)'
    BY <1>1 DEF OneSided
  <2>1. PICK u \in sessions[t] : Stayed(u, t)
    BY DEF Inv, OneSided
  <2>2. Absent(u, t)'
    BY <1>1, <1>2, <2>1 DEF Stayed, Absent
  <2>3. Stayed(u, t)'
    BY <1>1, <2>1, <2>2 DEF Stayed
  <2> QED BY <2>3
<1>8. RoomIdsAccepted'
  BY <1>1, <1>2 DEF Inv, Typed, RoomIdsAccepted
<1> QED BY <1>4, <1>5, <1>6, <1>7, <1>8 DEF Inv

-----------------------------------------------------------------------------
LEMMA InvStep == Inv /\ [Next]_vars => Inv'
<1> SUFFICES ASSUME Inv, [Next]_vars PROVE Inv'
  OBVIOUS
<1>0. /\ sock \in [Ids -> Sids \cup {None}]
      /\ media \in [Ids -> SessionIds \cup {None}]
  BY DEF Inv, Typed
<1>1. ASSUME NEW c \in Ids, NEW p \in Ids, JoinRoom(c, p) PROVE Inv'
  BY <1>1, JoinRoomStep
<1>2. CASE RestPeerConnection
  BY <1>2, PeerConnectionStep
<1>3. CASE Accepted
  BY <1>3, AcceptedStep
<1>4. CASE Refused
  <2>1. request'.op # "connect" /\ UNCHANGED sessions
    BY <1>4 DEF Refused, P!PeerFails, P!NoRequest
  <2> QED BY <1>0, <1>4, <2>1, QuietStep DEF Refused
<1>5. ASSUME NEW c \in Ids, NEW k \in connects[c],
             ConnectSucceeds(c, k) \/ ConnectFails(c, k)
      PROVE  Inv'
  BY <1>5, ConnectSucceedsStep, ConnectFailsStep
<1>6. ASSUME NEW c \in Ids, ServerRoomId(c) PROVE Inv'
  BY <1>6, ServerRoomIdStep
<1>7. ASSUME NEW c \in Ids, UserLeaves(c) \/ HangUpLost(c) PROVE Inv'
  BY <1>0, <1>7, QuietStep DEF UserLeaves, HangUpLost, server, history
<1>8. ASSUME NEW c \in Ids, LeaveRoom(c) PROVE Inv'
  <2>1. /\ media' = [media EXCEPT ![c] = None]
        /\ sock' = [sock EXCEPT ![c] = None]
        /\ UNCHANGED <<sessions, sids, connects, accepted, roomIds, request>>
    BY <1>8 DEF LeaveRoom, server
  <2> QED BY <1>0, <2>1, QuietStep
<1>9. ASSUME NEW c \in Ids, HangUp(c) PROVE Inv'
  <2>1. UNCHANGED <<sessions, sids, sock, connects, roomIds, media, accepted>>
    BY <1>9 DEF HangUp, P!DisconnectPeer, P!Disconnect
  <2>2. request' = request \/ request'.op # "connect"
    BY <1>9 DEF HangUp, P!DisconnectPeer, P!Disconnect, P!NoRequest
  <2> QED BY <1>0, <2>1, <2>2, QuietStep
<1>10. ASSUME NEW c \in Ids, AdminDisconnect(c) PROVE Inv'
  <2>1. UNCHANGED <<sessions, sids, sock, connects, roomIds, media, accepted>>
    BY <1>10 DEF AdminDisconnect, P!Disconnect
  <2>2. request'.op # "connect"
    BY <1>10 DEF AdminDisconnect, P!Disconnect, P!NoRequest
  <2> QED BY <1>0, <2>1, <2>2, QuietStep
<1>11. CASE RestPeerDisconnected
  <2> DEFINE c == request.peer
  <2>1. /\ media' = [media EXCEPT ![c] = None]
        /\ sock' = [sock EXCEPT ![c] = None]
        /\ UNCHANGED <<sessions, sids, connects, accepted, roomIds, request>>
    BY <1>11 DEF RestPeerDisconnected, server, history
  <2> HIDE DEF c
  <2> QED BY <1>0, <2>1, QuietStep
<1>12. CASE PeerNotified
  <2>1. request'.op # "connect" /\ UNCHANGED sessions
    BY <1>12 DEF PeerNotified, P!PeerNotified, P!NoRequest
  <2> QED BY <1>0, <1>12, <2>1, QuietStep DEF PeerNotified, history
<1>13. ASSUME NEW x \in Sids, SocketGone(x) PROVE Inv'
  BY <1>13, SocketGoneStep
<1>14. CASE UNCHANGED vars
  <2>1. UNCHANGED <<sessions, sids, sock, connects, roomIds, media, accepted, request>>
    BY <1>14 DEF vars, server, client, history
  <2> QED BY <1>0, <2>1, QuietStep
<1> QED BY <1>1, <1>2, <1>3, <1>4, <1>5, <1>6, <1>7, <1>8, <1>9, <1>10, <1>11,
           <1>12, <1>13, <1>14 DEF Next

\* Nobody's camera starts for a session whose call was not accepted, however
\* late its connects, hang-ups and room-ids come (peer_manager.py:50).
THEOREM MediaNeedsAcceptedCall == Spec => []MediaOnlyInCalls
<1>1. Inv => MediaOnlyInCalls
  BY DEF Inv
<1> QED BY <1>1, InvInit, InvStep, PTL DEF Spec

-----------------------------------------------------------------------------
(* VideoCall implements SocketRooms *)

\* A step that changes neither rooms nor sockets.
LEMMA RoomsStutter ==
    ASSUME UNCHANGED <<sessions, sids, signalled, sock>>
    PROVE  UNCHANGED R!vars
BY DEF R!vars, Up

\* A socket is one client's: to close it is to lose one connection.
LEMMA ClosingLosesOne ==
    ASSUME Inv, NEW c \in Ids, sock' = [sock EXCEPT ![c] = None],
           UNCHANGED <<sessions, sids, signalled>>
    PROVE  [R!Next]_(R!vars)
<1>1. /\ sock \in [Ids -> Sids \cup {None}]
      /\ \A d \in Ids : sock[d] # None => sids[sock[d]].user = d
  BY DEF Inv, Typed, Admitted
<1>2. sock'[c] = None /\ \A d \in Ids \ {c} : sock'[d] = sock[d]
  BY <1>1
<1>3. CASE sock[c] = None
  <2>1. sock' = sock
    BY <1>1, <1>3
  <2> QED BY <2>1, RoomsStutter
<1>4. CASE sock[c] # None
  <2>1. sock[c] \in Sids /\ sock[c] \in Up
    BY <1>1, <1>4 DEF Up
  <2>2. \A d \in Ids \ {c} : sock[d] # sock[c]
    BY <1>1, <1>4
  <2>3. Up' = Up \ {sock[c]}
    BY <1>2, <2>2 DEF Up
  <2>4. R!ConnectionLost(sock[c])
    BY <2>1, <2>3 DEF R!ConnectionLost
  <2> QED BY <2>1, <2>4 DEF R!Next
<1> QED BY <1>3, <1>4

\* A client that connects has no other socket, and gets a new one.
LEMMA ConnectIsConnect ==
    ASSUME Inv, NEW c \in Ids, NEW k \in connects[c], ConnectSucceeds(c, k)
    PROVE  [R!Next]_(R!vars)
<1> DEFINE x == NextOf(Sids, DOMAIN sids)
           s == k.session
<1>1. x \in Sids \ DOMAIN sids /\ x # None
  BY NextOfFresh, NoneAssumption DEF ConnectSucceeds
<1>2. /\ sids' = [y \in DOMAIN sids \cup {x} |->
                     IF y = x THEN [session |-> s, user |-> c] ELSE sids[y]]
      /\ sock' = [sock EXCEPT ![c] = x]
      /\ sock[c] = None
      /\ UNCHANGED sessions
      /\ R!Admitted(s, c)
      /\ R!NotifyRoom(s, x)
  BY DEF ConnectSucceeds, MayConnect
<1> HIDE DEF x
<1>3. /\ sock \in [Ids -> Sids \cup {None}]
      /\ \A d \in Ids : sock[d] # None => sids[sock[d]].user = d
      /\ s \in SessionIds
  BY <1>2 DEF Inv, Typed, Admitted, R!Admitted
<1>4. sock'[c] = x /\ \A d \in Ids \ {c} : sock'[d] = sock[d]
  BY <1>2, <1>3
<1>5. Up' = Up \cup {x}
  BY <1>1, <1>2, <1>4 DEF Up
<1>6. \A y \in Up : sids[y].user # c
  BY <1>2, <1>3 DEF Up
<1>7. [y \in DOMAIN sids |-> {}]'
         = [y \in DOMAIN sids \cup {x} |->
              IF y = x THEN {} ELSE [z \in DOMAIN sids |-> {}][y]]
  BY <1>2
<1>8. R!Connect(x, c, s)
  BY <1>1, <1>2, <1>5, <1>6, <1>7 DEF R!Connect, R!Joined
<1> QED BY <1>1, <1>3, <1>8 DEF R!Next

LEMMA RoomsStep == Inv /\ [Next]_vars => [R!Next]_(R!vars)
<1> SUFFICES ASSUME Inv, [Next]_vars PROVE [R!Next]_(R!vars)
  OBVIOUS
<1>1. ASSUME NEW c \in Ids, NEW p \in Ids, JoinRoom(c, p) PROVE [R!Next]_(R!vars)
  <2>1. PICK s \in SessionIds \ DOMAIN sessions : P!PeerConnection(c, p, s)
    BY <1>1, NextOfFresh DEF JoinRoom
  <2>2. UNCHANGED <<sids, signalled, sock>>
    BY <1>1 DEF JoinRoom
  <2>3. UNCHANGED Up
    BY <2>2 DEF Up
  <2>4. R!CreateSession(s, c, p)
    BY <2>1, <2>2, <2>3
       DEF R!CreateSession, P!PeerConnection, P!Callable, P!WithSession
  <2> QED BY <2>4 DEF R!Next
<1>2. CASE RestPeerConnection \/ Accepted
  <2>1. PICK c \in Ids : sock' = [sock EXCEPT ![c] = None]
    <3>1. request.op = "connect" /\ request.user \in Ids /\ request.peer \in Ids
      BY <1>2 DEF RestPeerConnection, Accepted, P!PeerAccepts, Inv, Pending, Typed
    <3> QED BY <1>2, <3>1 DEF RestPeerConnection, Accepted, BeginConnect
  <2>2. UNCHANGED <<sessions, sids, signalled>>
    BY <1>2 DEF RestPeerConnection, Accepted, P!PeerAccepts, server
  <2> QED BY <2>1, <2>2, ClosingLosesOne
<1>3. CASE Refused \/ PeerNotified
  <2>1. UNCHANGED <<sessions, sids, signalled, sock>>
    BY <1>3 DEF Refused, P!PeerFails, PeerNotified, P!PeerNotified
  <2> QED BY <2>1, RoomsStutter
<1>4. ASSUME NEW c \in Ids, NEW k \in connects[c],
             ConnectSucceeds(c, k) \/ ConnectFails(c, k)
      PROVE  [R!Next]_(R!vars)
  <2>1. CASE ConnectSucceeds(c, k)
    BY <2>1, ConnectIsConnect
  <2>2. CASE ConnectFails(c, k)
    BY <2>2, RoomsStutter DEF ConnectFails, server
  <2> QED BY <1>4, <2>1, <2>2
<1>5. ASSUME NEW c \in Ids,
             ServerRoomId(c) \/ UserLeaves(c) \/ HangUp(c) \/ HangUpLost(c)
                \/ AdminDisconnect(c)
      PROVE  [R!Next]_(R!vars)
  <2>1. UNCHANGED <<sessions, sids, signalled, sock>>
    BY <1>5 DEF ServerRoomId, UserLeaves, HangUp, HangUpLost, AdminDisconnect,
                P!DisconnectPeer, P!Disconnect, server
  <2> QED BY <2>1, RoomsStutter
<1>6. ASSUME NEW c \in Ids, LeaveRoom(c) PROVE [R!Next]_(R!vars)
  BY <1>6, ClosingLosesOne DEF LeaveRoom, server
<1>7. CASE RestPeerDisconnected
  <2>1. UNCHANGED <<sessions, sids, signalled>>
    BY <1>7 DEF RestPeerDisconnected, server
  <2>2. sock' = [sock EXCEPT ![request.peer] = None]
    BY <1>7 DEF RestPeerDisconnected
  <2>3. CASE request.peer \in Ids
    BY <2>1, <2>2, <2>3, ClosingLosesOne
  <2>4. CASE request.peer \notin Ids
    <3>1. sock' = sock
      BY <2>2, <2>4 DEF Inv, Typed
    <3> QED BY <2>1, <3>1, RoomsStutter
  <2> QED BY <2>3, <2>4
<1>8. ASSUME NEW x \in Sids, SocketGone(x) PROVE [R!Next]_(R!vars)
  BY <1>8 DEF SocketGone, R!Next
<1>9. CASE UNCHANGED vars
  BY <1>9, RoomsStutter DEF vars, server, client
<1> QED BY <1>1, <1>2, <1>3, <1>4, <1>5, <1>6, <1>7, <1>8, <1>9 DEF Next

\* The middlewares keep to the rules of the session rooms: whatever greenlets
\* retry, a client has one connection at a time, and only the server puts it
\* into a room (server_comms.py:47-51).
THEOREM RoomsImplemented == Spec => ImplementsRooms
<1>1. Init => R!Init
  BY DEF Init, R!Init, Up
<1> QED BY <1>1, InvInit, InvStep, RoomsStep, PTL
        DEF Spec, ImplementsRooms, R!Spec

-----------------------------------------------------------------------------
(* The user directory in a call *)

Talking(p) == [state |-> "CONNECTED", peer |-> p]

Partners(u, p) == u # p /\ users[u] = Talking(p) /\ users[p] = Talking(u)

\* Users are idle or in a call with each other, and the two users of a request
\* are idle until the request ends.
Directory ==
    /\ users \in [Ids -> P!User]
    /\ \A u \in Ids : users[u] = P!NewUser \/ \E p \in Ids : Partners(u, p)
    /\ \/ request = P!NoRequest
       \/ /\ request.op \in {"connect", "disconnect"}
          /\ {request.user, request.peer} \subseteq Ids
          /\ request.session \in SessionIds \cup {None}
          /\ request = [op |-> request.op, user |-> request.user,
                        peer |-> request.peer, session |-> request.session]
          /\ request.user # request.peer
          /\ users[request.user] = P!NewUser
          /\ users[request.peer] = P!NewUser

\* Each step of a call is a step of the directory, or none of its business.
LEMMA DirectoryStep == [Next]_vars => [P!Next]_(P!vars)
<1> SUFFICES ASSUME [Next]_vars PROVE [P!Next]_(P!vars)
  OBVIOUS
<1>1. ASSUME NEW c \in Ids, NEW p \in Ids, JoinRoom(c, p) PROVE P!Next
  <2>1. PICK s \in SessionIds : P!PeerConnection(c, p, s)
    BY <1>1, NextOfFresh DEF JoinRoom
  <2> QED BY <2>1 DEF P!Next
<1>2. CASE Accepted
  BY <1>2 DEF Accepted, P!Next
<1>3. CASE Refused
  BY <1>3 DEF Refused, P!Next
<1>4. CASE PeerNotified
  BY <1>4 DEF PeerNotified, P!Next
<1>5. ASSUME NEW c \in Ids, HangUp(c) \/ AdminDisconnect(c)
      PROVE  [P!Next]_(P!vars)
  BY <1>5 DEF HangUp, AdminDisconnect, P!Next, P!DisconnectPeer, P!vars
<1>6. CASE UNCHANGED <<users, sessions, request>>
  BY <1>6 DEF P!vars
<1>7. CASE RestPeerConnection \/ RestPeerDisconnected
  BY <1>6, <1>7 DEF RestPeerConnection, RestPeerDisconnected, server
<1>8. ASSUME NEW c \in Ids, NEW k \in connects[c],
             ConnectSucceeds(c, k) \/ ConnectFails(c, k)
      PROVE  [P!Next]_(P!vars)
  BY <1>6, <1>8 DEF ConnectSucceeds, ConnectFails, server
<1>9. ASSUME NEW c \in Ids,
             ServerRoomId(c) \/ UserLeaves(c) \/ LeaveRoom(c) \/ HangUpLost(c)
      PROVE  [P!Next]_(P!vars)
  BY <1>6, <1>9 DEF ServerRoomId, UserLeaves, LeaveRoom, HangUpLost, server
<1>10. ASSUME NEW x \in Sids, SocketGone(x) PROVE [P!Next]_(P!vars)
  BY <1>6, <1>10 DEF SocketGone, R!Disconnect
<1>11. CASE UNCHANGED vars
  BY <1>6, <1>11 DEF vars, server
<1> QED BY <1>1, <1>2, <1>3, <1>4, <1>5, <1>7, <1>8, <1>9, <1>10, <1>11 DEF Next

\* Whatever the middlewares and browsers do, the directory changes by the
\* steps of PeerManager only (peer_manager.py:21-112).
THEOREM DirectoryUndisturbed == Spec => [][P!Next]_(P!vars)
BY DirectoryStep, PTL DEF Spec

-----------------------------------------------------------------------------
LEMMA NoRequestIsNone ==
    /\ P!NoRequest.op = "none"
    /\ P!NewUser \in P!User
    /\ \A p \in Ids : Talking(p) \in P!User /\ Talking(p) # P!NewUser
BY DEF P!NoRequest, P!NewUser, P!User, P!UserState, Talking

\* A user without a peer is idle; one with a peer is in a call with it.
LEMMA IdleOrPaired ==
    ASSUME Directory, NEW u \in Ids
    PROVE  /\ users[u].peer = None => users[u] = P!NewUser
           /\ users[u].state = "IDLE" => users[u] = P!NewUser
           /\ users[u].peer # None => users[u].peer \in Ids /\ Partners(u, users[u].peer)
<1>1. CASE users[u] = P!NewUser
  BY <1>1 DEF P!NewUser
<1>2. CASE \E p \in Ids : Partners(u, p)
  <2>1. PICK p \in Ids : Partners(u, p)
    BY <1>2
  <2>2. users[u].peer = p /\ users[u].state = "CONNECTED" /\ p # None
    BY <2>1, NoneAssumption DEF Partners, Talking
  <2> QED BY <2>1, <2>2
<1> QED BY <1>1, <1>2 DEF Directory

\* What Accepted does to the directory.
LEMMA AcceptedEffect ==
    ASSUME Directory, Accepted
    PROVE  LET u == request.user
               p == request.peer
           IN /\ request.op = "connect" /\ request' = P!NoRequest
              /\ u \in Ids /\ p \in Ids /\ u # p
              /\ users[u] = P!NewUser /\ users[p] = P!NewUser
              /\ users' \in [Ids -> P!User]
              /\ users'[u] = Talking(p) /\ users'[p] = Talking(u)
              /\ \A v \in Ids \ {u, p} : users'[v] = users[v]
              /\ UNCHANGED sessions
<1> DEFINE u == request.user
           p == request.peer
           one == [users EXCEPT ![u] = Talking(p)]
<1>1. /\ request.op = "connect" /\ request' = P!NoRequest
      /\ users' = P!SetUserState(P!SetUserState(users, u, "CONNECTED", p),
                                 p, "CONNECTED", u)
      /\ UNCHANGED sessions
  BY DEF Accepted, P!PeerAccepts
<1>2. /\ u \in Ids /\ p \in Ids /\ u # p
      /\ users[u] = P!NewUser /\ users[p] = P!NewUser
      /\ users \in [Ids -> P!User]
  BY <1>1, NoRequestIsNone DEF Directory
<1>3. u # None /\ p # None
  BY <1>2, NoneAssumption
<1> HIDE DEF u, p
<1>4. P!SetUserState(users, u, "CONNECTED", p) = one
  BY <1>2, <1>3 DEF P!SetUserState, Talking
<1>5. one \in [Ids -> P!User]
  BY <1>2, NoRequestIsNone
<1>6. users' = [one EXCEPT ![p] = Talking(u)]
  BY <1>1, <1>2, <1>3, <1>4, <1>5 DEF P!SetUserState, Talking
<1>7. users' \in [Ids -> P!User]
  BY <1>2, <1>5, <1>6, NoRequestIsNone
<1>8. /\ users'[u] = Talking(p) /\ users'[p] = Talking(u)
      /\ \A v \in Ids \ {u, p} : users'[v] = users[v]
  BY <1>2, <1>5, <1>6
<1> QED BY <1>1, <1>2, <1>7, <1>8 DEF u, p

\* What a disconnect does to the directory.
LEMMA DisconnectEffect ==
    ASSUME Directory, NEW c \in Ids, P!Disconnect("disconnect", c)
    PROVE  LET p == users[c].peer
           IN /\ p \in Ids /\ Partners(c, p)
              /\ request = P!NoRequest
              /\ request' = [op |-> "disconnect", user |-> c, peer |-> p, session |-> None]
              /\ users' \in [Ids -> P!User]
              /\ users'[c] = P!NewUser /\ users'[p] = P!NewUser
              /\ \A v \in Ids \ {c, p} : users'[v] = users[v]
              /\ UNCHANGED sessions
<1> DEFINE p == users[c].peer
           one == [users EXCEPT ![c] = P!NewUser]
<1>1. /\ users[c].peer # None
      /\ users \in [Ids -> P!User]
  BY DEF P!Disconnect, Directory
<1>2. p \in Ids /\ Partners(c, p)
  BY <1>1, IdleOrPaired
<1>3. /\ request = P!NoRequest
      /\ users' = P!SetUserState(P!SetUserState(users, c, "IDLE", None),
                                 p, "IDLE", None)
      /\ request' = [op |-> "disconnect", user |-> c, peer |-> p, session |-> None]
      /\ UNCHANGED sessions
  BY <1>1, <1>2 DEF P!Disconnect, P!HubFree, P!BothIdle, P!Registered
<1> HIDE DEF p
<1>4. c # p
  BY <1>2 DEF Partners
<1>5. P!SetUserState(users, c, "IDLE", None) = one
  BY <1>1 DEF P!SetUserState, P!NewUser
<1>6. one \in [Ids -> P!User]
  BY <1>1, NoRequestIsNone
<1>7. users' = [one EXCEPT ![p] = P!NewUser]
  BY <1>2, <1>3, <1>5, <1>6 DEF P!SetUserState, P!NewUser
<1>8. /\ users' \in [Ids -> P!User]
      /\ users'[c] = P!NewUser /\ users'[p] = P!NewUser
      /\ \A v \in Ids \ {c, p} : users'[v] = users[v]
  BY <1>2, <1>4, <1>6, <1>7, NoRequestIsNone
<1> QED BY <1>2, <1>3, <1>8 DEF p

\* What JoinRoom does to the directory.
LEMMA JoinRoomEffect ==
    ASSUME Directory, NEW c \in Ids, NEW p \in Ids, JoinRoom(c, p)
    PROVE  \E s \in SessionIds \ DOMAIN sessions :
              /\ c # p /\ users[c] = P!NewUser /\ users[p] = P!NewUser
              /\ request' = [op |-> "connect", user |-> c, peer |-> p, session |-> s]
              /\ DOMAIN sessions' = DOMAIN sessions \cup {s}
              /\ sessions'[s] = {c, p}
              /\ \A t \in DOMAIN sessions : sessions'[t] = sessions[t]
              /\ UNCHANGED users
<1>1. PICK s \in SessionIds \ DOMAIN sessions : P!PeerConnection(c, p, s)
  BY NextOfFresh DEF JoinRoom
<1>2. /\ c # p /\ users[c].state = "IDLE" /\ users[p].state = "IDLE"
      /\ request' = [op |-> "connect", user |-> c, peer |-> p, session |-> s]
      /\ sessions' = [t \in DOMAIN sessions \cup {s} |->
                         IF t = s THEN {c, p} ELSE sessions[t]]
      /\ UNCHANGED users
  BY <1>1 DEF P!PeerConnection, P!Callable, P!WithSession
<1>3. users[c] = P!NewUser /\ users[p] = P!NewUser
  BY <1>2, IdleOrPaired
<1>4. /\ DOMAIN sessions' = DOMAIN sessions \cup {s}
      /\ sessions'[s] = {c, p}
      /\ \A t \in DOMAIN sessions : sessions'[t] = sessions[t]
  BY <1>1, <1>2
<1> QED BY <1>1, <1>2, <1>3, <1>4

\* Pairs stay pairs when the directory changes for two users that are both
\* idle, or both in the call that ends.
LEMMA PairsKept ==
    ASSUME Directory, NEW u \in Ids, NEW p \in Ids, u # p,
           users' \in [Ids -> P!User],
           \A v \in Ids \ {u, p} : users'[v] = users[v],
           \/ users[u] = P!NewUser /\ users[p] = P!NewUser
           \/ Partners(u, p)
    PROVE  \A v \in Ids \ {u, p} :
              users'[v] = P!NewUser \/ \E w \in Ids \ {u, p} : Partners(v, w)'
<1> SUFFICES ASSUME NEW v \in Ids \ {u, p}, NEW w \in Ids, Partners(v, w)
             PROVE  w \in Ids \ {u, p} /\ Partners(v, w)'
  BY DEF Directory
<1>1. w # u /\ w # p
  <2>1. Talking(v) # P!NewUser /\ Talking(v) # Talking(p) /\ Talking(v) # Talking(u)
    BY NoRequestIsNone DEF Talking
  <2> QED BY <2>1 DEF Partners
<1> QED BY <1>1 DEF Partners

LEMMA DirectoryInit == Init => Directory
BY NoRequestIsNone DEF Init, Directory

LEMMA DirectoryInvStep == Directory /\ [Next]_vars => Directory'
<1> SUFFICES ASSUME Directory, [Next]_vars PROVE Directory'
  OBVIOUS
<1>1. ASSUME NEW c \in Ids, NEW p \in Ids, JoinRoom(c, p) PROVE Directory'
  <2>1. PICK s \in SessionIds :
            /\ c # p /\ users[c] = P!NewUser /\ users[p] = P!NewUser
            /\ request' = [op |-> "connect", user |-> c, peer |-> p, session |-> s]
            /\ UNCHANGED users
    BY <1>1, JoinRoomEffect
  <2> QED BY <2>1 DEF Directory, Partners
<1>2. CASE Accepted
  <2>1. PICK u \in Ids, p \in Ids :
            /\ request' = P!NoRequest
            /\ u # p
            /\ users[u] = P!NewUser /\ users[p] = P!NewUser
            /\ users' \in [Ids -> P!User]
            /\ users'[u] = Talking(p) /\ users'[p] = Talking(u)
            /\ \A v \in Ids \ {u, p} : users'[v] = users[v]
    BY <1>2, AcceptedEffect
  <2>2. Partners(u, p)' /\ Partners(p, u)'
    BY <2>1 DEF Partners
  <2>3. \A v \in Ids \ {u, p} :
           users'[v] = P!NewUser \/ \E w \in Ids \ {u, p} : Partners(v, w)'
    BY <2>1, PairsKept
  <2> QED BY <2>1, <2>2, <2>3 DEF Directory
<1>3. ASSUME NEW c \in Ids, P!Disconnect("disconnect", c) PROVE Directory'
  <2>1. PICK p \in Ids :
            /\ Partners(c, p)
            /\ request' = [op |-> "disconnect", user |-> c, peer |-> p, session |-> None]
            /\ users' \in [Ids -> P!User]
            /\ users'[c] = P!NewUser /\ users'[p] = P!NewUser
            /\ \A v \in Ids \ {c, p} : users'[v] = users[v]
    BY <1>3, DisconnectEffect
  <2>2. c # p
    BY <2>1 DEF Partners
  <2>3. \A v \in Ids \ {c, p} :
           users'[v] = P!NewUser \/ \E w \in Ids \ {c, p} : Partners(v, w)'
    BY <2>1, <2>2, PairsKept
  <2> QED BY <2>1, <2>2, <2>3 DEF Directory
<1>4. ASSUME UNCHANGED users, request' = request \/ request' = P!NoRequest
      PROVE  Directory'
  BY <1>4 DEF Directory, Partners
<1>5. CASE RestPeerConnection \/ RestPeerDisconnected
  BY <1>4, <1>5 DEF RestPeerConnection, RestPeerDisconnected, server
<1>6. CASE Refused \/ PeerNotified
  BY <1>4, <1>6 DEF Refused, P!PeerFails, PeerNotified, P!PeerNotified
<1>7. ASSUME NEW c \in Ids, NEW k \in connects[c],
             ConnectSucceeds(c, k) \/ ConnectFails(c, k)
      PROVE  Directory'
  BY <1>4, <1>7 DEF ConnectSucceeds, ConnectFails, server
<1>8. ASSUME NEW c \in Ids,
             ServerRoomId(c) \/ UserLeaves(c) \/ LeaveRoom(c) \/ HangUpLost(c)
      PROVE  Directory'
  BY <1>4, <1>8 DEF ServerRoomId, UserLeaves, LeaveRoom, HangUpLost, server
<1>9. ASSUME NEW c \in Ids, HangUp(c) \/ AdminDisconnect(c) PROVE Directory'
  <2>1. CASE P!Disconnect("disconnect", c)
    BY <1>3, <2>1
  <2>2. CASE UNCHANGED <<users, request>>
    BY <1>4, <2>2
  <2> QED BY <1>9, <2>1, <2>2 DEF HangUp, P!DisconnectPeer, AdminDisconnect
<1>10. ASSUME NEW x \in Sids, SocketGone(x) PROVE Directory'
  BY <1>4, <1>10 DEF SocketGone
<1>11. CASE UNCHANGED vars
  BY <1>4, <1>11 DEF vars, server
<1> QED BY <1>1, <1>2, <1>5, <1>6, <1>7, <1>8, <1>9, <1>10, <1>11 DEF Next

-----------------------------------------------------------------------------
(* The calls of the directory and their sessions *)

\* Both users of a call are in it with the session made for the two of them.
CallsAgree ==
    /\ call \in [Ids -> SessionIds \cup {None}]
    /\ \A c \in Ids : users[c] = P!NewUser => call[c] = None
    /\ \A c, p \in Ids :
          Partners(c, p) => /\ call[c] \in accepted
                            /\ sessions[call[c]] = {c, p}
                            /\ call[p] = call[c]

PendingSession ==
    request.op = "connect" =>
        /\ request.session \in DOMAIN sessions \ accepted
        /\ sessions[request.session] = {request.user, request.peer}

CallInv == Inv /\ Directory /\ CallsAgree /\ PendingSession

LEMMA CallInvInit == Init => CallInv
<1> SUFFICES ASSUME Init PROVE CallInv
  OBVIOUS
<1>1. CallsAgree
  BY NoRequestIsNone DEF Init, CallsAgree, Partners
<1>2. PendingSession
  BY NoRequestIsNone DEF Init, PendingSession
<1> QED BY <1>1, <1>2, InvInit, DirectoryInit DEF CallInv

\* The end of a call takes it from both users.
LEMMA CallEndsAgree ==
    ASSUME CallInv, NEW c \in Ids, P!Disconnect("disconnect", c), CallEnds(c),
           UNCHANGED <<sessions, accepted>>
    PROVE  CallsAgree' /\ PendingSession'
<1>1. PICK p \in Ids :
          /\ p = users[c].peer /\ Partners(c, p)
          /\ request'.op = "disconnect"
          /\ users'[c] = P!NewUser /\ users'[p] = P!NewUser
          /\ \A v \in Ids \ {c, p} : users'[v] = users[v]
  BY DisconnectEffect DEF CallInv
<1>2. call' = [d \in Ids |-> IF d \in {c, p} THEN None ELSE call[d]]
  BY <1>1 DEF CallEnds
<1>3. \A d, q \in Ids : Partners(d, q)' => /\ d \notin {c, p} /\ q \notin {c, p}
                                           /\ Partners(d, q)
  BY <1>1, NoRequestIsNone DEF Partners
<1>4. CallsAgree'
  BY <1>1, <1>2, <1>3 DEF CallInv, CallsAgree
<1> QED BY <1>1, <1>4 DEF PendingSession

LEMMA CallInvStep == CallInv /\ [Next]_vars => CallInv'
<1> SUFFICES ASSUME CallInv, [Next]_vars PROVE CallsAgree' /\ PendingSession'
  BY InvStep, DirectoryInvStep DEF CallInv
<1>1. ASSUME NEW c \in Ids, NEW p \in Ids, JoinRoom(c, p)
      PROVE  CallsAgree' /\ PendingSession'
  <2>1. PICK s \in SessionIds \ DOMAIN sessions :
            /\ request' = [op |-> "connect", user |-> c, peer |-> p, session |-> s]
            /\ DOMAIN sessions' = DOMAIN sessions \cup {s}
            /\ sessions'[s] = {c, p}
            /\ \A t \in DOMAIN sessions : sessions'[t] = sessions[t]
            /\ UNCHANGED users
    BY <1>1, JoinRoomEffect DEF CallInv
  <2>2. UNCHANGED <<call, accepted>> /\ accepted \subseteq DOMAIN sessions
    BY <1>1 DEF JoinRoom, history, CallInv, Inv, Typed
  <2>3. CallsAgree'
    BY <2>1, <2>2 DEF CallInv, CallsAgree, Partners
  <2> QED BY <2>1, <2>2, <2>3 DEF PendingSession
<1>2. CASE Accepted
  <2>1. PICK u \in Ids, p \in Ids :
            /\ u = request.user /\ p = request.peer /\ u # p
            /\ request.op = "connect" /\ request' = P!NoRequest
            /\ users[u] = P!NewUser /\ users[p] = P!NewUser
            /\ users'[u] = Talking(p) /\ users'[p] = Talking(u)
            /\ \A v \in Ids \ {u, p} : users'[v] = users[v]
            /\ UNCHANGED sessions
    BY <1>2, AcceptedEffect DEF CallInv
  <2>2. PICK s \in DOMAIN sessions :
            s = request.session /\ sessions[s] = {u, p} /\ s \in SessionIds
    BY <2>1 DEF CallInv, PendingSession, Inv, Typed
  <2>3. /\ call' = [c \in Ids |-> IF c \in {u, p} THEN s ELSE call[c]]
        /\ accepted' = accepted \cup {s}
    BY <1>2, <2>1, <2>2 DEF Accepted
  <2>4. \A c, d \in Ids : Partners(c, d)' => \/ c \in {u, p} /\ {c, d} = {u, p}
                                             \/ /\ c \notin {u, p} /\ d \notin {u, p}
                                                /\ Partners(c, d)
    BY <2>1, NoRequestIsNone DEF Partners, Talking
  <2>5. \A c \in Ids : users'[c] = P!NewUser => c \notin {u, p} /\ users[c] = P!NewUser
    BY <2>1, NoRequestIsNone
  <2>6. CallsAgree'
    <3>1. call' \in [Ids -> SessionIds \cup {None}]
      BY <2>2, <2>3 DEF CallInv, CallsAgree
    <3>2. ASSUME NEW c \in Ids, users'[c] = P!NewUser PROVE call'[c] = None
      BY <2>3, <2>5, <3>2 DEF CallInv, CallsAgree
    <3>3. ASSUME NEW c \in Ids, NEW d \in Ids, Partners(c, d)'
          PROVE  /\ call'[c] \in accepted'
                 /\ sessions'[call'[c]] = {c, d}
                 /\ call'[d] = call'[c]
      <4>1. CASE c \in {u, p} /\ {c, d} = {u, p}
        BY <2>1, <2>2, <2>3, <4>1
      <4>2. CASE c \notin {u, p} /\ d \notin {u, p} /\ Partners(c, d)
        BY <2>1, <2>3, <4>2 DEF CallInv, CallsAgree
      <4> QED BY <2>4, <3>3, <4>1, <4>2
    <3> QED BY <3>1, <3>2, <3>3 DEF CallsAgree
  <2> QED BY <2>1, <2>6, NoRequestIsNone DEF PendingSession
<1>3. ASSUME UNCHANGED <<users, sessions, call, accepted>>,
             request' = request \/ request' = P!NoRequest
      PROVE  CallsAgree' /\ PendingSession'
  BY <1>3, NoRequestIsNone DEF CallInv, CallsAgree, Partners, PendingSession
<1>4. CASE RestPeerConnection \/ RestPeerDisconnected
  BY <1>3, <1>4 DEF RestPeerConnection, RestPeerDisconnected, server, history
<1>5. CASE Refused \/ PeerNotified
  BY <1>3, <1>5 DEF Refused, P!PeerFails, PeerNotified, P!PeerNotified, history
<1>6. ASSUME NEW c \in Ids, NEW k \in connects[c],
             ConnectSucceeds(c, k) \/ ConnectFails(c, k)
      PROVE  CallsAgree' /\ PendingSession'
  BY <1>3, <1>6 DEF ConnectSucceeds, ConnectFails, server, history
<1>7. ASSUME NEW c \in Ids,
             ServerRoomId(c) \/ UserLeaves(c) \/ LeaveRoom(c) \/ HangUpLost(c)
      PROVE  CallsAgree' /\ PendingSession'
  BY <1>3, <1>7 DEF ServerRoomId, UserLeaves, LeaveRoom, HangUpLost, server, history
<1>8. ASSUME NEW c \in Ids, HangUp(c) \/ AdminDisconnect(c)
      PROVE  CallsAgree' /\ PendingSession'
  <2>1. UNCHANGED <<sessions, accepted>>
    BY <1>8 DEF HangUp, AdminDisconnect, P!DisconnectPeer, P!Disconnect
  <2>2. CASE P!Disconnect("disconnect", c) /\ CallEnds(c)
    BY <2>1, <2>2, CallEndsAgree
  <2>3. CASE UNCHANGED <<users, request, call>>
    BY <1>3, <2>1, <2>3
  <2> QED BY <1>8, <2>2, <2>3 DEF HangUp, P!DisconnectPeer, AdminDisconnect
<1>9. ASSUME NEW x \in Sids, SocketGone(x) PROVE CallsAgree' /\ PendingSession'
  BY <1>3, <1>9 DEF SocketGone, R!Disconnect, history
<1>10. CASE UNCHANGED vars
  BY <1>3, <1>10 DEF vars, server, history
<1> QED BY <1>1, <1>2, <1>4, <1>5, <1>6, <1>7, <1>8, <1>9, <1>10 DEF Next

-----------------------------------------------------------------------------
(* Nobody who is in a call is forgotten *)

\* A peer that answered is connecting, before the directory has the call.
PeerOnItsWay ==
    request.op = "connect" /\ reached /\ request.session \notin excused =>
        OnItsWay(request.peer, request.session)

ComingInv == CallInv /\ PeerOnItsWay /\ NobodyForgotten

LEMMA ComingInit == Init => PeerOnItsWay /\ NobodyForgotten
BY NoRequestIsNone DEF Init, PeerOnItsWay, NobodyForgotten, CallOf

\* What keeps a user's session coming up.
LEMMA ComingUpKept ==
    ASSUME NEW c \in Ids, NEW s, ComingUp(c, s),
           sessions[s] \subseteq Ids, sessions'[s] = sessions[s],
           \A d \in Ids : OnItsWay(d, s) => OnItsWay(d, s)',
           InRoom(c, s) => InRoom(c, s)',
           InRoom(c, s) /\ media[c] = s => media'[c] = s,
           InRoom(c, s) /\ sock[c] \in roomIds =>
              sock'[c] \in roomIds' \/ media'[c] = s
    PROVE  ComingUp(c, s)'
<1>1. CASE OnItsWay(c, s)
  BY <1>1 DEF ComingUp
<1>2. CASE InRoom(c, s) /\ (media[c] = s \/ sock[c] \in roomIds)
  BY <1>2 DEF ComingUp
<1>3. CASE InRoom(c, s) /\ \E d \in sessions[s] : OnItsWay(d, s)
  <2>1. \E d \in sessions'[s] : OnItsWay(d, s)'
    BY <1>3
  <2> QED BY <1>3, <2>1 DEF ComingUp
<1> QED BY <1>1, <1>2, <1>3 DEF ComingUp

\* The session of a call is one of its user and another.
LEMMA CallSession ==
    ASSUME CallInv, NEW c \in Ids, NEW s \in CallOf(c)
    PROVE  /\ s \in accepted /\ s \in DOMAIN sessions
           /\ \E p \in Ids : p # c /\ sessions[s] = {c, p}
           /\ sessions[s] \subseteq Ids
           /\ users[c] # P!NewUser
<1>1. s = call[c] /\ call[c] # None
  BY DEF CallOf
<1>2. PICK p \in Ids : Partners(c, p)
  BY <1>1 DEF CallInv, CallsAgree, Directory
<1>3. s \in accepted /\ sessions[s] = {c, p} /\ p # c
  BY <1>1, <1>2 DEF CallInv, CallsAgree, Partners
<1>4. s \in DOMAIN sessions
  BY <1>3 DEF CallInv, Inv, Typed
<1> QED BY <1>1, <1>3, <1>4 DEF CallInv, CallsAgree

LEMMA CallOfPartner ==
    ASSUME CallInv, NEW c \in Ids, NEW s \in CallOf(c),
           NEW d \in Ids, d # c, sessions[s] = {c, d}
    PROVE  s \in CallOf(d)
<1>1. s = call[c] /\ call[c] # None
  BY DEF CallOf
<1>2. PICK p \in Ids : Partners(c, p)
  BY <1>1 DEF CallInv, CallsAgree, Directory
<1>3. p = d /\ call[p] = call[c]
  BY <1>1, <1>2 DEF CallInv, CallsAgree
<1> QED BY <1>1, <1>3 DEF CallOf

\* Steps that leave connects and sockets alone.
LEMMA ComingQuiet ==
    ASSUME ComingInv, UNCHANGED <<connects, sock, sids, media, roomIds>>,
           excused \subseteq excused',
           \A t \in DOMAIN sessions : sessions'[t] = sessions[t],
           \A c \in Ids : call'[c] \in {call[c], None},
           \/ UNCHANGED <<request, reached>>
           \/ ~reached'
           \/ request'.op # "connect"
    PROVE  PeerOnItsWay' /\ NobodyForgotten'
<1>1. PeerOnItsWay'
  BY DEF ComingInv, PeerOnItsWay, OnItsWay
<1>2. ASSUME NEW c \in Ids, NEW s, s \in CallOf(c)', s \notin excused'
      PROVE  ComingUp(c, s)'
  <2>1. s \in CallOf(c) /\ s \notin excused
    BY <1>2 DEF CallOf
  <2>2. ComingUp(c, s)
    BY <2>1 DEF ComingInv, NobodyForgotten
  <2>3. sessions[s] \subseteq Ids /\ sessions'[s] = sessions[s]
    BY <2>1, CallSession DEF ComingInv
  <2>4. \A d \in Ids : OnItsWay(d, s) => OnItsWay(d, s)'
    BY DEF OnItsWay
  <2>5. InRoom(c, s) => InRoom(c, s)'
    BY DEF InRoom
  <2> QED BY <2>2, <2>3, <2>4, <2>5, ComingUpKept
<1> QED BY <1>1, <1>2 DEF NobodyForgotten

\* A connect that begins for a user who is in no call.
LEMMA ComingBegin ==
    ASSUME ComingInv, NEW u \in Ids, NEW t \in SessionIds, BeginConnect(u, t),
           UNCHANGED <<sessions, sids, media, roomIds, excused>>
    PROVE  /\ OnItsWay(u, t)'
           /\ \A d \in Ids : \A s : OnItsWay(d, s) => OnItsWay(d, s)'
           /\ \A c \in Ids \ {u} : \A s \in CallOf(c) \ excused : ComingUp(c, s)'
<1>1. /\ sock \in [Ids -> Sids \cup {None}]
      /\ connects \in [Ids -> SUBSET [session : SessionIds, try : Nat]]
  BY DEF ComingInv, CallInv, Inv, Typed
<1>2. /\ connects'[u] = connects[u] \cup {[session |-> t, try |-> 1]}
      /\ \A d \in Ids \ {u} : connects'[d] = connects[d] /\ sock'[d] = sock[d]
  BY <1>1 DEF BeginConnect
<1>3. OnItsWay(u, t)'
  <2> DEFINE k == [session |-> t, try |-> 1]
  <2>1. k \in connects'[u] /\ k.session = t
    BY <1>2
  <2> HIDE DEF k
  <2> QED BY <2>1 DEF OnItsWay
<1>4. \A d \in Ids : \A s : OnItsWay(d, s) => OnItsWay(d, s)'
  BY <1>2 DEF OnItsWay
<1>5. ASSUME NEW c \in Ids \ {u}, NEW s \in CallOf(c) \ excused
      PROVE  ComingUp(c, s)'
  <2>1. ComingUp(c, s) /\ sessions[s] \subseteq Ids
    BY <1>5, CallSession DEF ComingInv, NobodyForgotten
  <2>2. InRoom(c, s) => InRoom(c, s)'
    BY <1>2 DEF InRoom
  <2> QED BY <1>2, <1>4, <2>1, <2>2, ComingUpKept
<1> QED BY <1>3, <1>4, <1>5

LEMMA ComingPeerConnection ==
    ASSUME ComingInv, RestPeerConnection
    PROVE  PeerOnItsWay' /\ NobodyForgotten'
<1>1. /\ request.op = "connect" /\ BeginConnect(request.peer, request.session)
      /\ UNCHANGED <<sessions, sids, media, roomIds, excused, request, call>>
  BY DEF RestPeerConnection, server, history
<1>2. PICK p \in Ids, t \in SessionIds :
          p = request.peer /\ t = request.session /\ users[p] = P!NewUser
  BY <1>1, NoRequestIsNone
     DEF ComingInv, CallInv, Directory, PendingSession, Inv, Typed
<1>3. /\ OnItsWay(p, t)'
      /\ \A c \in Ids \ {p} : \A s \in CallOf(c) \ excused : ComingUp(c, s)'
  BY <1>1, <1>2, ComingBegin
<1>4. CallOf(p)' = {} /\ \A c \in Ids : CallOf(c)' = CallOf(c)
  BY <1>1, <1>2 DEF ComingInv, CallInv, CallsAgree, CallOf
<1>5. NobodyForgotten'
  BY <1>1, <1>3, <1>4 DEF NobodyForgotten
<1>6. PeerOnItsWay'
  BY <1>1, <1>2, <1>3 DEF PeerOnItsWay
<1> QED BY <1>5, <1>6

\* The caller begins to connect as the directory gets the call, and the peer
\* has begun before.
LEMMA ComingAccepted ==
    ASSUME ComingInv, Accepted
    PROVE  PeerOnItsWay' /\ NobodyForgotten'
<1>1. /\ request.op = "connect" /\ reached /\ request' = P!NoRequest
      /\ BeginConnect(request.user, request.session)
      /\ UNCHANGED <<sessions, sids, media, roomIds, excused>>
  BY AcceptedEffect DEF Accepted, ComingInv, CallInv
<1>2. PICK u \in Ids, p \in Ids, t \in SessionIds :
          /\ u = request.user /\ p = request.peer /\ t = request.session
          /\ u # p
  BY <1>1, NoRequestIsNone
     DEF ComingInv, CallInv, Directory, PendingSession, Inv, Typed
<1>3. /\ OnItsWay(u, t)'
      /\ \A d \in Ids : \A s : OnItsWay(d, s) => OnItsWay(d, s)'
      /\ \A c \in Ids \ {u} : \A s \in CallOf(c) \ excused : ComingUp(c, s)'
  BY <1>1, <1>2, ComingBegin
<1>4. t \notin excused => OnItsWay(p, t)'
  BY <1>1, <1>2, <1>3 DEF ComingInv, PeerOnItsWay
<1>5. /\ \A c \in {u, p} : CallOf(c)' \subseteq {t}
      /\ \A c \in Ids \ {u, p} : CallOf(c)' = CallOf(c)
  BY <1>2 DEF Accepted, CallOf
<1>6. \A c \in {u, p} : \A s \in CallOf(c)' \ excused' : ComingUp(c, s)'
  BY <1>1, <1>3, <1>4, <1>5 DEF ComingUp
<1>7. NobodyForgotten'
  BY <1>1, <1>3, <1>5, <1>6 DEF NobodyForgotten
<1>8. PeerOnItsWay'
  BY <1>1, NoRequestIsNone DEF PeerOnItsWay
<1> QED BY <1>7, <1>8

LEMMA ComingConnectFails ==
    ASSUME ComingInv, NEW c \in Ids, NEW k \in connects[c], ConnectFails(c, k)
    PROVE  PeerOnItsWay' /\ NobodyForgotten'
<1>1. /\ UNCHANGED <<sessions, request, sids, reached, sock, roomIds, media, call>>
      /\ connects \in [Ids -> SUBSET [session : SessionIds, try : Nat]]
  BY DEF ConnectFails, server, ComingInv, CallInv, Inv, Typed
<1>2. /\ excused \subseteq excused'
      /\ k.try < MaxTries \/ k.session \in excused'
  BY DEF ConnectFails, GiveUp
<1>3. \A d \in Ids : \A s : s \notin excused' /\ OnItsWay(d, s) => OnItsWay(d, s)'
  <2> SUFFICES ASSUME NEW d \in Ids, NEW s, s \notin excused', OnItsWay(d, s)
               PROVE  OnItsWay(d, s)'
    OBVIOUS
  <2>1. PICK l \in connects[d] : l.session = s
    BY DEF OnItsWay
  <2> DEFINE retry == [k EXCEPT !.try = @ + 1]
  <2>2. connects' = [connects EXCEPT ![c] = (@ \ {k}) \cup
                       (IF k.try < MaxTries THEN {retry} ELSE {})]
    BY DEF ConnectFails
  <2>3. retry.session = k.session
    BY <1>1
  <2> HIDE DEF retry
  <2>4. CASE d = c /\ l = k
    <3>1. retry \in connects'[d] /\ retry.session = s
      BY <1>1, <1>2, <2>1, <2>2, <2>3, <2>4
    <3> QED BY <3>1 DEF OnItsWay
  <2>5. CASE ~(d = c /\ l = k)
    <3>1. l \in connects'[d]
      BY <1>1, <2>1, <2>2, <2>5
    <3> QED BY <2>1, <3>1 DEF OnItsWay
  <2> QED BY <2>4, <2>5
<1>4. PeerOnItsWay'
  <2>1. request.op = "connect" => request.peer \in Ids
    BY NoRequestIsNone DEF ComingInv, CallInv, Directory
  <2> QED BY <1>1, <1>2, <1>3, <2>1 DEF ComingInv, PeerOnItsWay
<1>5. ASSUME NEW e \in Ids, NEW s, s \in CallOf(e)', s \notin excused'
      PROVE  ComingUp(e, s)'
  <2>1. ComingUp(e, s) /\ sessions[s] \subseteq Ids
    BY <1>1, <1>2, <1>5, CallSession DEF ComingInv, NobodyForgotten, CallOf
  <2>2. InRoom(e, s) => InRoom(e, s)'
    BY <1>1 DEF InRoom
  <2> QED BY <1>1, <1>3, <1>5, <2>1, <2>2, ComingUpKept
<1> QED BY <1>4, <1>5 DEF NobodyForgotten

\* Who connects to its session while the other side is in the room completes
\* it, and both get their room-id.
LEMMA ComingConnectSucceeds ==
    ASSUME ComingInv, NEW c \in Ids, NEW k \in connects[c], ConnectSucceeds(c, k)
    PROVE  PeerOnItsWay' /\ NobodyForgotten'
<1> DEFINE x == NextOf(Sids, DOMAIN sids)
           s == k.session
<1>1. x \in Sids \ DOMAIN sids /\ x # None
  BY NextOfFresh, NoneAssumption DEF ConnectSucceeds
<1>2. /\ request = P!NoRequest /\ request' = request
      /\ sids' = [y \in DOMAIN sids \cup {x} |->
                     IF y = x THEN [session |-> s, user |-> c] ELSE sids[y]]
      /\ sock[c] = None
      /\ sock' = [sock EXCEPT ![c] = x]
      /\ connects' = [connects EXCEPT ![c] = @ \ {k}]
      /\ roomIds' = IF R!Complete(s)' THEN roomIds \cup R!Room(s)' ELSE roomIds
      /\ UNCHANGED <<sessions, media, call, excused>>
  BY DEF ConnectSucceeds, MayConnect, P!HubFree, history
<1> HIDE DEF x, s
<1>3. /\ DOMAIN sids' = DOMAIN sids \cup {x}
      /\ sids'[x].session = s /\ sids'[x].user = c
      /\ \A y \in DOMAIN sids : sids'[y] = sids[y]
  BY <1>1, <1>2
<1>4. /\ sock \in [Ids -> Sids \cup {None}]
      /\ connects \in [Ids -> SUBSET [session : SessionIds, try : Nat]]
      /\ \A d \in Ids : sock[d] # None => sock[d] \in DOMAIN sids
                                          /\ sids[sock[d]].user = d
  BY DEF ComingInv, CallInv, Inv, Typed, Admitted
<1>5. /\ sock'[c] = x
      /\ \A d \in Ids \ {c} : sock'[d] = sock[d] /\ connects'[d] = connects[d]
      /\ \A l \in connects[c] : l.session # s => l \in connects'[c]
  BY <1>2, <1>4 DEF s
<1>6. \A d \in Ids : \A t : OnItsWay(d, t) /\ (d # c \/ t # s) => OnItsWay(d, t)'
  BY <1>5 DEF OnItsWay
<1>7. /\ InRoom(c, s)' /\ \A t : ~InRoom(c, t)
      /\ \A d \in Ids \ {c} : \A t : InRoom(d, t) => InRoom(d, t)'
  BY <1>1, <1>2, <1>3, <1>4, <1>5 DEF InRoom
<1>8. roomIds \subseteq roomIds'
  BY <1>2
<1>9. ASSUME NEW d \in Ids \ {c}, sessions[s] = {c, d}, InRoom(d, s)
      PROVE  sock'[c] \in roomIds' /\ sock'[d] \in roomIds'
  <2>1. /\ x \in R!Room(s)' /\ sids'[x].user = c
        /\ sock[d] \in R!Room(s)' /\ sids'[sock[d]].user = d
    BY <1>3, <1>4, <1>9 DEF InRoom, R!Room, R!Joined
  <2>2. R!Complete(s)'
    BY <1>2, <1>9, <2>1 DEF R!Complete, R!Present
  <2> QED BY <1>2, <1>5, <2>1, <2>2
<1>10. PeerOnItsWay'
  BY <1>2, NoRequestIsNone DEF PeerOnItsWay
<1>11. ASSUME NEW e \in Ids, NEW t, t \in CallOf(e)', t \notin excused'
       PROVE  ComingUp(e, t)'
  <2>1. ComingUp(e, t) /\ t \in CallOf(e) /\ t \notin excused
    BY <1>2, <1>11 DEF ComingInv, NobodyForgotten, CallOf
  <2>2. PICK d \in Ids : d # e /\ sessions[t] = {e, d}
    BY <2>1, CallSession DEF ComingInv
  <2>3. CASE t # s
    BY <1>5, <1>6, <1>7, <1>8, <2>1, <2>2, <2>3, <1>2, ComingUpKept
  <2>4. CASE t = s /\ e = c
    <3>1. ComingUp(d, s)
      <4>1. s \in CallOf(d)
        BY <2>1, <2>2, <2>4, CallOfPartner DEF ComingInv
      <4> QED BY <2>1, <2>4, <4>1 DEF ComingInv, NobodyForgotten
    <3>2. CASE OnItsWay(d, s)
      BY <1>2, <1>6, <1>7, <2>2, <2>4, <3>2 DEF ComingUp
    <3>3. CASE InRoom(d, s)
      BY <1>7, <1>9, <2>2, <2>4, <3>3 DEF ComingUp
    <3> QED BY <3>1, <3>2, <3>3 DEF ComingUp
  <2>5. CASE t = s /\ e # c /\ d = c
    <3>1. CASE OnItsWay(e, s)
      BY <1>6, <2>5, <3>1 DEF ComingUp
    <3>2. CASE InRoom(e, s)
      BY <1>7, <1>9, <2>2, <2>5, <3>2 DEF ComingUp
    <3> QED BY <2>1, <2>5, <3>1, <3>2 DEF ComingUp
  <2>6. CASE t = s /\ e # c /\ d # c
    <3>1. \A f \in sessions[s] : OnItsWay(f, s) => OnItsWay(f, s)'
      BY <1>6, <2>2, <2>6
    <3> QED BY <1>2, <1>5, <1>7, <1>8, <2>1, <2>2, <2>6, <3>1 DEF ComingUp
  <2> QED BY <2>3, <2>4, <2>5, <2>6
<1> QED BY <1>10, <1>11 DEF NobodyForgotten

LEMMA ComingServerRoomId ==
    ASSUME ComingInv, NEW c \in Ids, ServerRoomId(c)
    PROVE  PeerOnItsWay' /\ NobodyForgotten'
<1>1. /\ UNCHANGED <<sessions, request, reached, sids, sock, connects, call, excused>>
      /\ roomIds' = roomIds \ {sock[c]}
      /\ media' = [media EXCEPT ![c] = sids[sock[c]].session]
      /\ sock[c] \in DOMAIN sids /\ sock[c] # None
  BY NoneAssumption DEF ServerRoomId, server, history, ComingInv, CallInv, Inv, Typed
<1>2. /\ media \in [Ids -> SessionIds \cup {None}]
      /\ \A d \in Ids \ {c} : sock[d] # None => sock[d] # sock[c]
  BY <1>1 DEF ComingInv, CallInv, Inv, Typed, Admitted
<1>3. PeerOnItsWay'
  BY <1>1 DEF ComingInv, PeerOnItsWay, OnItsWay
<1>4. ASSUME NEW e \in Ids, NEW s, s \in CallOf(e)', s \notin excused'
      PROVE  ComingUp(e, s)'
  <2>1. ComingUp(e, s) /\ sessions[s] \subseteq Ids
    BY <1>1, <1>4, CallSession DEF ComingInv, NobodyForgotten, CallOf
  <2>2. \A d \in Ids : OnItsWay(d, s) => OnItsWay(d, s)'
    BY <1>1 DEF OnItsWay
  <2>3. InRoom(e, s) => InRoom(e, s)'
    BY <1>1 DEF InRoom
  <2>4. InRoom(e, s) /\ media[e] = s => media'[e] = s
    BY <1>1, <1>2 DEF InRoom
  <2>5. InRoom(e, s) /\ sock[e] \in roomIds => sock'[e] \in roomIds' \/ media'[e] = s
    BY <1>1, <1>2 DEF InRoom
  <2> QED BY <1>1, <2>1, <2>2, <2>3, <2>4, <2>5, ComingUpKept
<1> QED BY <1>3, <1>4 DEF NobodyForgotten

\* A client that drops its socket and its media has no call, or an excuse.
LEMMA ComingDropped ==
    ASSUME ComingInv, NEW c \in Ids,
           UNCHANGED <<sessions, request, sids, connects, roomIds, call>>,
           sock' = [sock EXCEPT ![c] = None],
           media' = [media EXCEPT ![c] = None],
           excused \subseteq excused', CallOf(c) \subseteq excused',
           reached' = reached \/ request.op # "connect"
    PROVE  PeerOnItsWay' /\ NobodyForgotten'
<1>1. PeerOnItsWay'
  BY DEF ComingInv, PeerOnItsWay, OnItsWay
<1>2. ASSUME NEW e \in Ids, NEW s, s \in CallOf(e)', s \notin excused'
      PROVE  ComingUp(e, s)'
  <2>1. s \in CallOf(e) /\ s \notin excused /\ e # c
    BY <1>2 DEF CallOf
  <2>2. ComingUp(e, s) /\ sessions[s] \subseteq Ids
    BY <2>1, CallSession DEF ComingInv, NobodyForgotten
  <2>3. sock'[e] = sock[e] /\ media'[e] = media[e]
    BY <2>1 DEF ComingInv, CallInv, Inv, Typed
  <2>4. \A d \in Ids : OnItsWay(d, s) => OnItsWay(d, s)'
    BY DEF OnItsWay
  <2>5. InRoom(e, s) => InRoom(e, s)'
    BY <2>3 DEF InRoom
  <2> QED BY <2>2, <2>3, <2>4, <2>5, ComingUpKept
<1> QED BY <1>1, <1>2 DEF NobodyForgotten

LEMMA ComingSocketGone ==
    ASSUME ComingInv, NEW x \in Sids, SocketGone(x)
    PROVE  PeerOnItsWay' /\ NobodyForgotten'
<1>1. /\ x \notin Up /\ roomIds' = roomIds \ {x}
      /\ sids' = Restrict(sids, DOMAIN sids \ {x})
      /\ UNCHANGED <<sessions, request, reached, sock, connects, media, call, excused>>
  BY DEF SocketGone, R!Disconnect, R!Joined, R!Restrict, Restrict, history
<1>2. \A y \in DOMAIN sids \ {x} : sids'[y] = sids[y]
  BY <1>1 DEF Restrict
<1>3. \A e \in Ids : sock[e] # None => sock[e] \in DOMAIN sids \ {x}
  BY <1>1 DEF Up, ComingInv, CallInv, Inv, Admitted
<1>4. PeerOnItsWay'
  BY <1>1 DEF ComingInv, PeerOnItsWay, OnItsWay
<1>5. ASSUME NEW e \in Ids, NEW s, s \in CallOf(e)', s \notin excused'
      PROVE  ComingUp(e, s)'
  <2>1. ComingUp(e, s) /\ sessions[s] \subseteq Ids
    BY <1>1, <1>5, CallSession DEF ComingInv, NobodyForgotten, CallOf
  <2>2. \A d \in Ids : OnItsWay(d, s) => OnItsWay(d, s)'
    BY <1>1 DEF OnItsWay
  <2>3. InRoom(e, s) => InRoom(e, s)' /\ sock'[e] # x
    BY <1>1, <1>2, <1>3 DEF InRoom
  <2> QED BY <1>1, <2>1, <2>2, <2>3, ComingUpKept
<1> QED BY <1>4, <1>5 DEF NobodyForgotten

LEMMA ComingStep == ComingInv /\ [Next]_vars => ComingInv'
<1> SUFFICES ASSUME ComingInv, [Next]_vars PROVE PeerOnItsWay' /\ NobodyForgotten'
  BY CallInvStep DEF ComingInv
<1>1. ASSUME NEW c \in Ids, NEW p \in Ids, JoinRoom(c, p)
      PROVE  PeerOnItsWay' /\ NobodyForgotten'
  <2>1. \A t \in DOMAIN sessions : sessions'[t] = sessions[t]
    BY <1>1, JoinRoomEffect DEF ComingInv, CallInv
  <2>2. /\ UNCHANGED <<connects, sock, sids, media, roomIds, excused, call>>
        /\ ~reached'
    BY <1>1 DEF JoinRoom, history
  <2> QED BY <2>1, <2>2, ComingQuiet
<1>2. CASE RestPeerConnection
  BY <1>2, ComingPeerConnection
<1>3. CASE Accepted
  BY <1>3, ComingAccepted
<1>4. CASE Refused \/ PeerNotified
  <2>1. /\ UNCHANGED <<connects, sock, sids, media, roomIds, call, sessions>>
        /\ excused \subseteq excused' /\ ~reached'
    BY <1>4 DEF Refused, P!PeerFails, PeerNotified, P!PeerNotified, history
  <2> QED BY <2>1, ComingQuiet
<1>5. ASSUME NEW c \in Ids, NEW k \in connects[c],
             ConnectSucceeds(c, k) \/ ConnectFails(c, k)
      PROVE  PeerOnItsWay' /\ NobodyForgotten'
  BY <1>5, ComingConnectSucceeds, ComingConnectFails
<1>6. ASSUME NEW c \in Ids, ServerRoomId(c) PROVE PeerOnItsWay' /\ NobodyForgotten'
  BY <1>6, ComingServerRoomId
<1>7. ASSUME NEW c \in Ids, UserLeaves(c) \/ HangUpLost(c)
      PROVE  PeerOnItsWay' /\ NobodyForgotten'
  <2>1. UNCHANGED <<connects, sock, sids, media, roomIds, call, sessions,
                    excused, request, reached>>
    BY <1>7 DEF UserLeaves, HangUpLost, server, history
  <2> QED BY <2>1, ComingQuiet
<1>8. ASSUME NEW c \in Ids, LeaveRoom(c) PROVE PeerOnItsWay' /\ NobodyForgotten'
  <2>1. /\ UNCHANGED <<sessions, request, sids, connects, roomIds, call, reached>>
        /\ sock' = [sock EXCEPT ![c] = None]
        /\ media' = [media EXCEPT ![c] = None]
        /\ excused' = excused \cup CallOf(c)
    BY <1>8 DEF LeaveRoom, server
  <2>2. excused \subseteq excused' /\ CallOf(c) \subseteq excused'
    BY <2>1
  <2> QED BY <2>1, <2>2, ComingDropped
<1>9. ASSUME NEW c \in Ids, HangUp(c) \/ AdminDisconnect(c)
      PROVE  PeerOnItsWay' /\ NobodyForgotten'
  <2>1. /\ UNCHANGED <<connects, sock, sids, media, roomIds, sessions, excused>>
        /\ UNCHANGED <<request, reached>> \/ ~reached'
        /\ call' = call \/ CallEnds(c)
    BY <1>9 DEF HangUp, AdminDisconnect, P!DisconnectPeer, P!Disconnect
  <2>2. \A d \in Ids : call'[d] \in {call[d], None}
    BY <2>1 DEF CallEnds
  <2> QED BY <2>1, <2>2, ComingQuiet
<1>10. CASE RestPeerDisconnected
  <2>1. request.op = "disconnect"
    BY <1>10 DEF RestPeerDisconnected
  <2>2. PICK c \in Ids : c = request.peer /\ users[c] = P!NewUser
    BY <2>1, NoRequestIsNone DEF ComingInv, CallInv, Directory
  <2>3. /\ UNCHANGED <<sessions, request, sids, connects, roomIds, call, excused>>
        /\ sock' = [sock EXCEPT ![c] = None]
        /\ media' = [media EXCEPT ![c] = None]
    BY <1>10, <2>2 DEF RestPeerDisconnected, server, history
  <2>4. CallOf(c) = {}
    BY <2>2 DEF ComingInv, CallInv, CallsAgree, CallOf
  <2> QED BY <2>1, <2>3, <2>4, ComingDropped
<1>11. ASSUME NEW x \in Sids, SocketGone(x) PROVE PeerOnItsWay' /\ NobodyForgotten'
  BY <1>11, ComingSocketGone
<1>12. CASE UNCHANGED vars
  <2>1. UNCHANGED <<connects, sock, sids, media, roomIds, call, sessions,
                    excused, request, reached>>
    BY <1>12 DEF vars, server, client, history
  <2> QED BY <2>1, ComingQuiet
<1> QED BY <1>1, <1>2, <1>3, <1>4, <1>5, <1>6, <1>7, <1>8, <1>9, <1>10, <1>11,
           <1>12 DEF Next

\* In a call that has not come up, each side is connecting, or has started its
\* media, or has its room-id on the way, or waits in the room for a peer that is
\* connecting: what CallComesUp needs of the safety side, for any number of
\* users, stale connects and late room-ids (server_comms.py:40-88).
THEOREM NobodyIsForgotten == Spec => []NobodyForgotten
<1>1. Init => ComingInv
  BY CallInvInit, ComingInit DEF ComingInv
<1>2. ComingInv => NobodyForgotten
  BY DEF ComingInv
<1> QED BY <1>1, <1>2, ComingStep, PTL DEF Spec

\* While calls are set up and left, the two records of a call agree, what
\* connect checked before it contacted the peer still holds when the answer is
\* applied, and a call has a session that admits its two users and nobody else
\* (peer_manager.py:30-112).
THEOREM DirectoryInCalls ==
    Spec => [](P!PeerSymmetry /\ P!AnswerStillValid /\ P!SessionForCall)
<1>1. ASSUME CallInv PROVE P!PeerSymmetry
  <2> SUFFICES ASSUME NEW u \in P!Connected
               PROVE  users[users[u].peer] = Talking(u)
    BY DEF P!PeerSymmetry, Talking
  <2>1. u \in Ids /\ users[u] # P!NewUser
    BY <1>1 DEF P!Connected, P!Registered, P!NewUser, CallInv, Directory
  <2> QED BY <1>1, <2>1, IdleOrPaired DEF CallInv, Partners
<1>2. ASSUME CallInv PROVE P!AnswerStillValid
  BY <1>2 DEF CallInv, Directory, P!AnswerStillValid, P!Registered
<1>3. ASSUME CallInv PROVE P!SessionForCall
  <2> SUFFICES ASSUME NEW u \in P!Connected
               PROVE  \E s \in DOMAIN sessions : sessions[s] = {u, users[u].peer}
    BY DEF P!SessionForCall
  <2>1. u \in Ids /\ users[u] # P!NewUser
    BY <1>3 DEF P!Connected, P!Registered, P!NewUser, CallInv, Directory
  <2>2. users[u].peer \in Ids /\ Partners(u, users[u].peer)
    BY <1>3, <2>1, IdleOrPaired DEF CallInv
  <2>3. call[u] \in accepted /\ sessions[call[u]] = {u, users[u].peer}
    BY <1>3, <2>1, <2>2 DEF CallInv, CallsAgree
  <2> QED BY <1>3, <2>3 DEF CallInv, Inv, Typed
<1> QED BY <1>1, <1>2, <1>3, CallInvInit, CallInvStep, PTL DEF Spec

-----------------------------------------------------------------------------
(* How a call comes up: CallComesUp without its fairness *)

\* A client begins to connect to a session once: who has an attempt at it has no
\* other, no socket in it, and has not heard its room-id.
ConnectsOnce ==
    \A c \in Ids : \A k \in connects[c] :
        /\ k.try \in 1..MaxTries
        /\ \A l \in connects[c] : l.session = k.session => l = k
        /\ \A x \in DOMAIN sids : ~(sids[x].session = k.session /\ sids[x].user = c)
        /\ media[c] # k.session

\* Who did not begin to connect for the pending request.
NotYet ==
    request.op = "connect" =>
        /\ Absent(request.user, request.session)
        /\ ~reached => Absent(request.peer, request.session)

OnceInv == ConnectsOnce /\ NotYet

LEMMA OnceInit == Init => OnceInv
BY NoRequestIsNone DEF Init, OnceInv, ConnectsOnce, NotYet

\* Steps that begin no connect and no request.
LEMMA OnceQuiet ==
    ASSUME CallInv, OnceInv, UNCHANGED <<connects, sids>>,
           \A c \in Ids : media'[c] \in {media[c], None},
           \/ UNCHANGED <<request, reached>>
           \/ request'.op # "connect"
    PROVE  OnceInv'
<1>1. \A c \in Ids : \A k \in connects[c] : k.session # None
  BY NoneAssumption DEF CallInv, Inv, Typed
<1>2. ConnectsOnce'
  BY <1>1 DEF OnceInv, ConnectsOnce
<1>3. NotYet'
  BY DEF OnceInv, NotYet, Absent
<1> QED BY <1>2, <1>3 DEF OnceInv

\* A connect that begins for the pending session is the first of its user.
LEMMA OnceBegin ==
    ASSUME CallInv, OnceInv, request.op = "connect", NEW c \in Ids,
           Absent(c, request.session), BeginConnect(c, request.session),
           UNCHANGED <<sids, media>>
    PROVE  ConnectsOnce'
<1> DEFINE first == [session |-> request.session, try |-> 1]
<1>1. /\ connects \in [Ids -> SUBSET [session : SessionIds, try : Nat]]
      /\ connects' = [connects EXCEPT ![c] = connects[c] \cup {first}]
  BY DEF CallInv, Inv, Typed, BeginConnect
<1>2. connects'[c] = connects[c] \cup {first}
      /\ \A d \in Ids \ {c} : connects'[d] = connects[d]
  BY <1>1
<1>3. first.session = request.session /\ first.try \in 1..MaxTries
  BY TriesAssumption
<1>4. media[c] # request.session
  BY NoneAssumption DEF CallInv, PendingSession, Inv, MediaOnlyInCalls, Typed
<1> HIDE DEF first
<1>5. ASSUME NEW d \in Ids \ {c}, NEW k \in connects'[d]
      PROVE  /\ k.try \in 1..MaxTries
             /\ \A l \in connects'[d] : l.session = k.session => l = k
             /\ \A x \in DOMAIN sids : ~(sids[x].session = k.session /\ sids[x].user = d)
             /\ media[d] # k.session
  BY <1>2, <1>5 DEF OnceInv, ConnectsOnce
<1>6. ASSUME NEW k \in connects'[c]
      PROVE  /\ k.try \in 1..MaxTries
             /\ \A l \in connects'[c] : l.session = k.session => l = k
             /\ \A x \in DOMAIN sids : ~(sids[x].session = k.session /\ sids[x].user = c)
             /\ media[c] # k.session
  BY <1>2, <1>3, <1>4, <1>6 DEF OnceInv, ConnectsOnce, Absent
<1> QED BY <1>5, <1>6 DEF ConnectsOnce

LEMMA OnceConnectFails ==
    ASSUME CallInv, OnceInv, NEW c \in Ids, NEW k \in connects[c], ConnectFails(c, k)
    PROVE  OnceInv'
<1> DEFINE retry == [k EXCEPT !.try = @ + 1]
<1>1. /\ connects \in [Ids -> SUBSET [session : SessionIds, try : Nat]]
      /\ connects' = [connects EXCEPT ![c] = (@ \ {k}) \cup
                        (IF k.try < MaxTries THEN {retry} ELSE {})]
      /\ UNCHANGED <<sids, media, request, reached>>
  BY DEF CallInv, Inv, Typed, ConnectFails, server
<1>2. k.try \in 1..MaxTries
  BY DEF OnceInv, ConnectsOnce
<1>3. retry.session = k.session /\ retry.try = k.try + 1
  BY <1>1
<1> HIDE DEF retry
<1>4. /\ connects'[c] = (connects[c] \ {k}) \cup
                          (IF k.try < MaxTries THEN {retry} ELSE {})
      /\ \A d \in Ids \ {c} : connects'[d] = connects[d]
  BY <1>1
<1>5. \A l \in connects'[c] :
          \/ l \in connects[c] \ {k}
          \/ l = retry /\ k.try < MaxTries
  BY <1>4
<1>6. k.try < MaxTries => retry.try \in 1..MaxTries
  BY <1>2, <1>3, TriesAssumption
<1>7. ConnectsOnce'
  <2>1. ASSUME NEW l \in connects'[c]
        PROVE  /\ l.try \in 1..MaxTries
               /\ \A m \in connects'[c] : m.session = l.session => m = l
               /\ \A x \in DOMAIN sids : ~(sids[x].session = l.session /\ sids[x].user = c)
               /\ media[c] # l.session
    BY <1>3, <1>5, <1>6 DEF OnceInv, ConnectsOnce
  <2>2. ASSUME NEW d \in Ids \ {c}, NEW l \in connects'[d]
        PROVE  /\ l.try \in 1..MaxTries
               /\ \A m \in connects'[d] : m.session = l.session => m = l
               /\ \A x \in DOMAIN sids : ~(sids[x].session = l.session /\ sids[x].user = d)
               /\ media[d] # l.session
    BY <1>4, <2>2 DEF OnceInv, ConnectsOnce
  <2> QED BY <1>1, <2>1, <2>2 DEF ConnectsOnce
<1>8. ASSUME NEW d \in Ids, NEW s, Absent(d, s) PROVE Absent(d, s)'
  BY <1>1, <1>3, <1>4, <1>5, <1>8 DEF Absent
<1>9. NotYet'
  <2>1. request.op = "connect" => request.user \in Ids /\ request.peer \in Ids
    BY NoRequestIsNone DEF CallInv, Directory
  <2> QED BY <1>1, <1>8, <2>1 DEF OnceInv, NotYet
<1> QED BY <1>7, <1>9 DEF OnceInv

LEMMA OnceConnectSucceeds ==
    ASSUME CallInv, OnceInv, NEW c \in Ids, NEW k \in connects[c], ConnectSucceeds(c, k)
    PROVE  OnceInv'
<1>1. PICK x \in Sids \ DOMAIN sids :
          sids' = [y \in DOMAIN sids \cup {x} |->
                      IF y = x THEN [session |-> k.session, user |-> c] ELSE sids[y]]
  BY NextOfFresh DEF ConnectSucceeds
<1>2. /\ connects' = [connects EXCEPT ![c] = @ \ {k}]
      /\ connects \in [Ids -> SUBSET [session : SessionIds, try : Nat]]
      /\ UNCHANGED <<media, request>> /\ request = P!NoRequest
  BY DEF ConnectSucceeds, P!HubFree, CallInv, Inv, Typed
<1>3. \A d \in Ids : \A l \in connects'[d] : l \in connects[d] /\ (d = c => l # k)
  BY <1>2
<1>4. /\ DOMAIN sids' = DOMAIN sids \cup {x}
      /\ sids'[x].session = k.session /\ sids'[x].user = c
      /\ \A y \in DOMAIN sids : sids'[y] = sids[y]
  BY <1>1
<1>5. ConnectsOnce'
  <2> SUFFICES ASSUME NEW d \in Ids, NEW l \in connects'[d]
               PROVE  /\ l.try \in 1..MaxTries
                      /\ \A m \in connects'[d] : m.session = l.session => m = l
                      /\ \A y \in DOMAIN sids' :
                            ~(sids'[y].session = l.session /\ sids'[y].user = d)
                      /\ media'[d] # l.session
    BY DEF ConnectsOnce
  <2>1. l \in connects[d] /\ (d = c => l.session # k.session)
    BY <1>3 DEF OnceInv, ConnectsOnce
  <2> QED BY <1>2, <1>3, <1>4, <2>1 DEF OnceInv, ConnectsOnce
<1> QED BY <1>2, <1>5, NoRequestIsNone DEF OnceInv, NotYet

LEMMA OnceStep == CallInv /\ OnceInv /\ [Next]_vars => OnceInv'
<1> SUFFICES ASSUME CallInv, OnceInv, [Next]_vars PROVE OnceInv'
  OBVIOUS
<1>1. ASSUME NEW c \in Ids, NEW p \in Ids, JoinRoom(c, p) PROVE OnceInv'
  <2>1. PICK s \in SessionIds \ DOMAIN sessions :
            request' = [op |-> "connect", user |-> c, peer |-> p, session |-> s]
    BY <1>1, JoinRoomEffect DEF CallInv
  <2>2. UNCHANGED <<connects, sids, media>>
    BY <1>1 DEF JoinRoom
  <2>3. \A d \in Ids : Absent(d, s)'
    BY <2>1, <2>2 DEF CallInv, Inv, Admitted, Absent
  <2> QED BY <2>1, <2>2, <2>3 DEF OnceInv, ConnectsOnce, NotYet
<1>2. CASE RestPeerConnection
  <2>1. /\ request.op = "connect" /\ ~reached /\ reached'
        /\ BeginConnect(request.peer, request.session)
        /\ UNCHANGED <<sids, media, request>>
    BY <1>2 DEF RestPeerConnection, server
  <2>2. /\ request.user \in Ids /\ request.peer \in Ids
        /\ request.user # request.peer
        /\ connects \in [Ids -> SUBSET [session : SessionIds, try : Nat]]
    BY <2>1, NoRequestIsNone DEF CallInv, Directory, Inv, Pending, Typed
  <2>3. ConnectsOnce'
    BY <2>1, <2>2, OnceBegin DEF OnceInv, NotYet
  <2>4. connects'[request.user] = connects[request.user]
    BY <2>1, <2>2 DEF BeginConnect
  <2> QED BY <2>1, <2>3, <2>4 DEF OnceInv, NotYet, Absent
<1>3. CASE Accepted
  <2>1. /\ request.op = "connect" /\ request' = P!NoRequest /\ request.user \in Ids
        /\ BeginConnect(request.user, request.session)
        /\ UNCHANGED <<sids, media>>
    BY <1>3, AcceptedEffect DEF CallInv, Accepted
  <2>2. ConnectsOnce'
    BY <2>1, OnceBegin DEF OnceInv, NotYet
  <2> QED BY <2>1, <2>2, NoRequestIsNone DEF OnceInv, NotYet
<1>4. CASE Refused \/ PeerNotified
  <2>1. /\ UNCHANGED <<connects, sids, media>>
        /\ request'.op # "connect"
    BY <1>4, NoRequestIsNone DEF Refused, P!PeerFails, PeerNotified, P!PeerNotified
  <2> QED BY <2>1, OnceQuiet
<1>5. ASSUME NEW c \in Ids, NEW k \in connects[c],
             ConnectSucceeds(c, k) \/ ConnectFails(c, k)
      PROVE  OnceInv'
  BY <1>5, OnceConnectSucceeds, OnceConnectFails
<1>6. ASSUME NEW c \in Ids, ServerRoomId(c) PROVE OnceInv'
  <2>1. /\ sock[c] \in roomIds
        /\ media' = [media EXCEPT ![c] = sids[sock[c]].session]
        /\ UNCHANGED <<connects, sids, request, reached>>
    BY <1>6 DEF ServerRoomId, server
  <2>2. sock[c] \in DOMAIN sids /\ sids[sock[c]].user = c
    BY <2>1, NoneAssumption DEF CallInv, Inv, Typed, Admitted
  <2>3. /\ media'[c] = sids[sock[c]].session
        /\ \A d \in Ids \ {c} : media'[d] = media[d]
    BY <2>1 DEF CallInv, Inv, Typed
  <2>4. ConnectsOnce'
    BY <2>1, <2>2, <2>3 DEF OnceInv, ConnectsOnce
  <2> QED BY <2>1, <2>4 DEF OnceInv, NotYet, Absent
<1>7. ASSUME NEW c \in Ids, UserLeaves(c) \/ HangUpLost(c) PROVE OnceInv'
  BY <1>7, OnceQuiet DEF UserLeaves, HangUpLost, server
<1>8. ASSUME NEW c \in Ids, LeaveRoom(c) PROVE OnceInv'
  <2>1. /\ UNCHANGED <<connects, sids, request, reached>>
        /\ \A d \in Ids : media'[d] \in {media[d], None}
    BY <1>8 DEF LeaveRoom, server, CallInv, Inv, Typed
  <2> QED BY <2>1, OnceQuiet
<1>9. ASSUME NEW c \in Ids, HangUp(c) \/ AdminDisconnect(c) PROVE OnceInv'
  <2>1. UNCHANGED <<connects, sids, media>>
    BY <1>9 DEF HangUp, AdminDisconnect
  <2>2. UNCHANGED <<request, reached>> \/ P!Disconnect("disconnect", c)
    BY <1>9 DEF HangUp, AdminDisconnect, P!DisconnectPeer
  <2>3. P!Disconnect("disconnect", c) => request'.op = "disconnect"
    BY DisconnectEffect DEF CallInv
  <2> QED BY <2>1, <2>2, <2>3, OnceQuiet
<1>10. CASE RestPeerDisconnected
  <2>1. /\ UNCHANGED <<connects, sids, request>> /\ request.op # "connect"
        /\ \A d \in Ids : media'[d] \in {media[d], None}
    BY <1>10 DEF RestPeerDisconnected, server, CallInv, Inv, Typed
  <2> QED BY <2>1, OnceQuiet
<1>11. ASSUME NEW x \in Sids, SocketGone(x) PROVE OnceInv'
  <2>1. /\ sids' = Restrict(sids, DOMAIN sids \ {x})
        /\ UNCHANGED <<connects, media, request, reached>>
    BY <1>11 DEF SocketGone, R!Disconnect, R!Joined, R!Restrict, Restrict
  <2>2. /\ DOMAIN sids' = DOMAIN sids \ {x}
        /\ \A y \in DOMAIN sids' : sids'[y] = sids[y]
    BY <2>1 DEF Restrict
  <2>3. UNCHANGED <<connects, media>>
    BY <2>1
  <2>7. ConnectsOnce'
    BY <2>2, <2>3 DEF OnceInv, ConnectsOnce
  <2>4. \A d \in Ids : \A s : Absent(d, s) => Absent(d, s)'
    BY <2>1, <2>2 DEF Absent
  <2>5. request.op = "connect" => request.user \in Ids /\ request.peer \in Ids
    BY NoRequestIsNone DEF CallInv, Directory
  <2>6. NotYet'
    BY <2>1, <2>4, <2>5 DEF OnceInv, NotYet
  <2> QED BY <2>6, <2>7 DEF OnceInv
<1>12. CASE UNCHANGED vars
  <2>1. UNCHANGED <<connects, sids, media, request, reached>>
    BY <1>12 DEF vars, server, client
  <2> QED BY <2>1, OnceQuiet
<1> QED BY <1>1, <1>2, <1>3, <1>4, <1>5, <1>6, <1>7, <1>8, <1>9, <1>10, <1>11,
           <1>12 DEF Next

\* The attempts left at session s, where S are the connects of a client that
\* begins each once.
TriesIn(S, s) ==
    IF \E k \in S : k.session = s
    THEN MaxTries + 1 - (CHOOSE k \in S : k.session = s).try
    ELSE 0

Single(S) ==
    \A k \in S : /\ k.try \in 1..MaxTries
                 /\ \A l \in S : l.session = k.session => l = k

LEMMA TriesInIs ==
    ASSUME NEW S, Single(S)
    PROVE  /\ \A k \in S : /\ TriesIn(S, k.session) = MaxTries + 1 - k.try
                           /\ TriesIn(S, k.session) \in 1..MaxTries
           /\ \A s : TriesIn(S, s) \in Nat
           /\ \A s : (\A k \in S : k.session # s) => TriesIn(S, s) = 0
<1>1. ASSUME NEW k \in S
      PROVE  /\ TriesIn(S, k.session) = MaxTries + 1 - k.try
             /\ TriesIn(S, k.session) \in 1..MaxTries
  <2>1. (CHOOSE l \in S : l.session = k.session) = k
    BY <1>1 DEF Single
  <2>2. k.try \in 1..MaxTries
    BY <1>1 DEF Single
  <2>3. TriesIn(S, k.session) = MaxTries + 1 - k.try
    BY <1>1, <2>1 DEF TriesIn
  <2> QED BY <2>2, <2>3, TriesAssumption
<1>2. \A s : (\A k \in S : k.session # s) => TriesIn(S, s) = 0
  BY DEF TriesIn
<1>3. ASSUME NEW s PROVE TriesIn(S, s) \in Nat
  BY <1>1, <1>2, TriesAssumption
<1> QED BY <1>1, <1>2, <1>3

\* A client whose connects to s are retries, or fewer, has no more attempts left.
LEMMA TriesFall ==
    ASSUME NEW S, NEW T, Single(S), Single(T), NEW s,
           \A l \in T : l.session = s => \E k \in S : k.session = s /\ k.try <= l.try
    PROVE  TriesIn(T, s) <= TriesIn(S, s)
<1>1. CASE \E l \in T : l.session = s
  <2>1. PICK l \in T : l.session = s
    BY <1>1
  <2>2. PICK k \in S : k.session = s /\ k.try <= l.try
    BY <2>1
  <2>3. TriesIn(T, s) = MaxTries + 1 - l.try /\ TriesIn(S, s) = MaxTries + 1 - k.try
    BY <2>1, <2>2, TriesInIs
  <2>4. k.try \in Nat /\ l.try \in Nat
    BY <2>1, <2>2, TriesAssumption DEF Single
  <2> QED BY <2>2, <2>3, <2>4, TriesAssumption
<1>2. CASE ~ \E l \in T : l.session = s
  BY <1>2, TriesInIs
<1> QED BY <1>1, <1>2

\* The attempts that c has left to connect to s.
TriesLeft(c, s) == TriesIn(connects[c], s)

\* An attempt that ends lowers them.
Spent(c, k) == TriesLeft(c, k.session)' < TriesLeft(c, k.session)

\* Nothing raises them once the call was accepted, and media that run for a call
\* go on until it is over or left.
Kept(c, s) ==
    /\ TriesLeft(c, s)' <= TriesLeft(c, s)
    /\ s \in CallOf(c) /\ s \in CallOf(c)' \ excused' =>
          (media[c] = s => media'[c] = s)

LEMMA AttemptSpent ==
    ASSUME CallInv, OnceInv, OnceInv', NEW c \in Ids, NEW k \in connects[c],
           ConnectSucceeds(c, k) \/ ConnectFails(c, k)
    PROVE  Spent(c, k)
<1>0. Single(connects[c]) /\ Single(connects'[c])
  BY DEF OnceInv, ConnectsOnce, Single
<1>1. TriesIn(connects[c], k.session) = MaxTries + 1 - k.try /\ k.try \in 1..MaxTries
  BY <1>0, TriesInIs DEF Single
<1>2. connects \in [Ids -> SUBSET [session : SessionIds, try : Nat]]
  BY DEF CallInv, Inv, Typed
<1>3. \A l \in connects'[c] : l.session = k.session => l.try = k.try + 1
  <2>1. \A l \in connects[c] \ {k} : l.session # k.session
    BY <1>0 DEF Single
  <2>2. CASE ConnectSucceeds(c, k)
    BY <1>2, <2>1, <2>2 DEF ConnectSucceeds
  <2>3. CASE ConnectFails(c, k)
    BY <1>2, <2>1, <2>3 DEF ConnectFails
  <2> QED BY <2>2, <2>3
<1>4. CASE \E l \in connects'[c] : l.session = k.session
  <2>1. PICK l \in connects'[c] : l.session = k.session
    BY <1>4
  <2>2. TriesIn(connects'[c], k.session) = MaxTries + 1 - l.try
    BY <1>0, <2>1, TriesInIs
  <2> QED BY <1>1, <1>3, <2>1, <2>2, TriesAssumption DEF Spent, TriesLeft
<1>5. CASE ~ \E l \in connects'[c] : l.session = k.session
  <2>1. TriesIn(connects'[c], k.session) = 0
    BY <1>0, <1>5, TriesInIs
  <2> QED BY <1>1, <2>1, TriesAssumption DEF Spent, TriesLeft
<1> QED BY <1>4, <1>5

\* A connect of a call that was accepted is not new: it was there, as this
\* attempt or as the one before.
LEMMA ConnectsKept ==
    ASSUME CallInv, [Next]_vars, NEW c \in Ids, NEW s \in accepted,
           NEW l \in connects'[c], l.session = s
    PROVE  \E k \in connects[c] : k.session = s /\ k.try <= l.try
<1>0. connects \in [Ids -> SUBSET [session : SessionIds, try : Nat]]
  BY DEF CallInv, Inv, Typed
<1>1. CASE connects' = connects
  <2>1. l \in connects[c] /\ l.try \in Nat
    BY <1>0, <1>1
  <2> QED BY <2>1
<1>2. CASE RestPeerConnection \/ Accepted
  <2>1. PICK u : request.op = "connect" /\ BeginConnect(u, request.session)
    BY <1>2, AcceptedEffect DEF RestPeerConnection, Accepted, CallInv
  <2>2. request.session \notin accepted
    BY <2>1 DEF CallInv, PendingSession
  <2>3. connects' = [connects EXCEPT
                       ![u] = @ \cup {[session |-> request.session, try |-> 1]}]
    BY <2>1 DEF BeginConnect
  <2>4. l \in connects[c] \/ l = [session |-> request.session, try |-> 1]
    BY <1>0, <2>3
  <2>5. l \in connects[c] /\ l.try \in Nat
    BY <1>0, <2>2, <2>4
  <2> QED BY <2>5
<1>3. ASSUME NEW d \in Ids, NEW k \in connects[d], ConnectSucceeds(d, k)
      PROVE  \E j \in connects[c] : j.session = s /\ j.try <= l.try
  <2>1. l \in connects[c] /\ l.try \in Nat
    BY <1>0, <1>3 DEF ConnectSucceeds
  <2> QED BY <2>1
<1>4. ASSUME NEW d \in Ids, NEW k \in connects[d], ConnectFails(d, k)
      PROVE  \E j \in connects[c] : j.session = s /\ j.try <= l.try
  <2> DEFINE retry == [k EXCEPT !.try = @ + 1]
  <2>1. connects' = [connects EXCEPT ![d] = (@ \ {k}) \cup
                       (IF k.try < MaxTries THEN {retry} ELSE {})]
    BY <1>4 DEF ConnectFails
  <2>2. k.try \in Nat /\ retry.session = k.session /\ retry.try = k.try + 1
    BY <1>0
  <2> HIDE DEF retry
  <2>3. l \in connects[c] \/ (d = c /\ l = retry)
    BY <1>0, <2>1
  <2>4. CASE l \in connects[c]
    <3>1. l.try \in Nat
      BY <1>0, <2>4
    <3> QED BY <2>4, <3>1
  <2>5. CASE d = c /\ l = retry
    BY <2>2, <2>5
  <2> QED BY <2>3, <2>4, <2>5
<1> QED BY <1>1, <1>2, <1>3, <1>4
        DEF Next, vars, client, JoinRoom, Refused, ServerRoomId, UserLeaves, LeaveRoom,
            HangUp, HangUpLost, AdminDisconnect, RestPeerDisconnected, PeerNotified,
            SocketGone

\* Only a leave_room, or the end of the call, stops the media of a call: a
\* room-id of another session reaches a client only when it is not in this one.
LEMMA MediaKept ==
    ASSUME ComingInv, OnceInv, [Next]_vars, NEW c \in Ids, NEW s,
           s \in CallOf(c), s \notin excused', media[c] = s
    PROVE  media'[c] = s
<1>0. /\ CallInv /\ media \in [Ids -> SessionIds \cup {None}]
      /\ users[c] # P!NewUser
  BY CallSession DEF ComingInv, CallInv, Inv, Typed
<1>1. ASSUME NEW d \in Ids, ServerRoomId(d) PROVE media'[c] = s
  <2>1. /\ media' = [media EXCEPT ![d] = sids[sock[d]].session]
        /\ excused' = excused
    BY <1>1 DEF ServerRoomId, history
  <2>2. CASE d = c
    <3>1. ComingUp(c, s)
      BY <2>1 DEF ComingInv, NobodyForgotten
    <3>2. ~OnItsWay(c, s)
      BY DEF OnItsWay, OnceInv, ConnectsOnce
    <3>3. InRoom(c, s)
      BY <3>1, <3>2 DEF ComingUp
    <3> QED BY <1>0, <2>1, <2>2, <3>3 DEF InRoom
  <2>3. CASE d # c
    BY <2>1, <2>3
  <2> QED BY <2>2, <2>3
<1>2. ASSUME NEW d \in Ids, LeaveRoom(d) PROVE media'[c] = s
  <2>1. media' = [media EXCEPT ![d] = None] /\ excused' = excused \cup CallOf(d)
    BY <1>2 DEF LeaveRoom
  <2>2. d # c
    BY <2>1
  <2> QED BY <2>1, <2>2
<1>3. CASE RestPeerDisconnected
  <2>1. request.op = "disconnect" /\ media' = [media EXCEPT ![request.peer] = None]
    BY <1>3 DEF RestPeerDisconnected
  <2>2. users[request.peer] = P!NewUser
    BY <2>1, NoRequestIsNone DEF CallInv, Directory, ComingInv
  <2>3. request.peer # c
    BY <1>0, <2>2
  <2> QED BY <2>1, <2>3
<1>4. CASE media' = media
  BY <1>4
<1> QED BY <1>1, <1>2, <1>3, <1>4
        DEF Next, vars, client, JoinRoom, RestPeerConnection, Accepted, Refused,
            ConnectSucceeds, ConnectFails, UserLeaves, HangUp, HangUpLost,
            AdminDisconnect, PeerNotified, SocketGone

\* A client has one attempt at a session at most, and none as long as it has a
\* socket in it, which the server may not have seen closed yet, or its media: no
\* retry puts a client into a room twice (server_comms.py:40-88).
THEOREM ClientsConnectOnce == Spec => []ConnectsOnce
<1>1. Init => CallInv /\ OnceInv
  BY CallInvInit, OnceInit
<1>2. CallInv /\ OnceInv /\ [Next]_vars => CallInv' /\ OnceInv'
  BY CallInvStep, OnceStep
<1>3. OnceInv => ConnectsOnce
  BY DEF OnceInv
<1> QED BY <1>1, <1>2, <1>3, PTL DEF Spec

\* A call that was accepted comes nearer to being up: no step gives a side more
\* attempts, each attempt that ends takes one away, and a side that has its media
\* keeps them until the call is over or excused.  With NobodyIsForgotten, by which
\* a side without media has an attempt, a room-id or a connecting peer to wait
\* for, this is CallComesUp but for the fairness (server_comms.py:40-88).
THEOREM CallsComeNearer ==
    Spec => [][/\ \A c \in Ids : \A s \in accepted : Kept(c, s)
               /\ \A c \in Ids : \A k \in connects[c] :
                     ConnectSucceeds(c, k) \/ ConnectFails(c, k) => Spent(c, k)]_vars
<1> DEFINE Nearer ==
              /\ \A c \in Ids : \A s \in accepted : Kept(c, s)
              /\ \A c \in Ids : \A k \in connects[c] :
                    ConnectSucceeds(c, k) \/ ConnectFails(c, k) => Spent(c, k)
<1>1. Init => ComingInv /\ OnceInv
  BY CallInvInit, ComingInit, OnceInit DEF ComingInv
<1>2. ComingInv /\ OnceInv /\ [Next]_vars => ComingInv' /\ OnceInv'
  BY ComingStep, OnceStep DEF ComingInv
<1>3. ComingInv /\ OnceInv /\ OnceInv' /\ [Next]_vars => [Nearer]_vars
  <2> SUFFICES ASSUME ComingInv, OnceInv, OnceInv', [Next]_vars
               PROVE  Nearer
    OBVIOUS
  <2>1. ASSUME NEW c \in Ids, NEW s \in accepted PROVE Kept(c, s)
    <3>1. Single(connects[c]) /\ Single(connects'[c])
      BY DEF OnceInv, ConnectsOnce, Single
    <3>2. \A l \in connects'[c] : l.session = s =>
              \E k \in connects[c] : k.session = s /\ k.try <= l.try
      BY <2>1, ConnectsKept DEF ComingInv
    <3>3. TriesIn(connects'[c], s) <= TriesIn(connects[c], s)
      BY <3>1, <3>2, TriesFall
    <3>4. s \in CallOf(c) /\ s \in CallOf(c)' \ excused' =>
              (media[c] = s => media'[c] = s)
      BY MediaKept
    <3> QED BY <3>3, <3>4 DEF Kept, TriesLeft
  <2>2. ASSUME NEW c \in Ids, NEW k \in connects[c],
               ConnectSucceeds(c, k) \/ ConnectFails(c, k)
        PROVE  Spent(c, k)
    BY <2>2, AttemptSpent DEF ComingInv
  <2> QED BY <2>1, <2>2
<1> QED BY <1>1, <1>2, <1>3, PTL DEF Spec

=============================================================================
