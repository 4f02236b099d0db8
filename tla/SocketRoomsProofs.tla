-------------------------- MODULE SocketRoomsProofs --------------------------
(***************************************************************************)
(* TLAPS proofs about SocketRooms, for every number of users, sessions and *)
(* sockets.                                                                *)
(***************************************************************************)
EXTENDS SocketRooms, TLAPS

-----------------------------------------------------------------------------
\* Every session is for two users.
Pairs ==
    \A s \in DOMAIN sessions :
        \E u, p \in Ids : u # p /\ sessions[s] = {u, p}

\* A client has at most one working socket.
OneSocket == \A x, y \in up : sids[x].user = sids[y].user => x = y

Inv ==
    /\ TypeOK
    /\ Pairs
    /\ OneSocket
    /\ NoCrossTalk
    /\ NobodyMissesRoomId
    /\ FramesAfterRoomId

\* Two working sockets in a room are those of the two users of its session.
LEMMA TwoMakeItComplete ==
    ASSUME TypeOK, Pairs, OneSocket, NEW x \in up, NEW y \in up, x # y,
           sids[x].session = sids[y].session
    PROVE  Complete(sids[x].session)
<1> DEFINE s == sids[x].session
<1>1. /\ x \in Joined /\ y \in Joined /\ s \in DOMAIN sessions
      /\ {sids[x].user, sids[y].user} \subseteq sessions[s]
  BY DEF TypeOK
<1>2. sids[x].user # sids[y].user
  BY DEF OneSocket
<1>3. sessions[s] = {sids[x].user, sids[y].user}
  BY <1>1, <1>2 DEF Pairs
<1>4. {sids[x].user, sids[y].user} \subseteq Present(s)
  BY <1>1 DEF Present, Room
<1> QED BY <1>3, <1>4 DEF Complete

LEMMA CreateSessionKeepsInv ==
    ASSUME Inv, NEW s \in SessionIds, NEW u \in Ids, NEW p \in Ids,
           CreateSession(s, u, p)
    PROVE  Inv'
<1> USE DEF Inv, Joined
<1>1. /\ DOMAIN sessions' = DOMAIN sessions \cup {s}
      /\ sessions'[s] = {u, p} /\ u # p
      /\ \A t \in DOMAIN sessions : sessions'[t] = sessions[t]
      /\ sessions' \in [DOMAIN sessions \cup {s} -> SUBSET Ids]
  BY DEF CreateSession, TypeOK
<1>2. UNCHANGED <<sids, up, signalled, heard>>
  BY DEF CreateSession
<1>3. TypeOK'
  BY <1>1, <1>2 DEF TypeOK
<1>4. Pairs' /\ OneSocket'
  BY <1>1, <1>2 DEF Pairs, OneSocket
<1>5. NoCrossTalk' /\ FramesAfterRoomId'
  BY <1>1, <1>2 DEF TypeOK, NoCrossTalk, FramesAfterRoomId
<1>6. NobodyMissesRoomId'
  <2> SUFFICES ASSUME NEW t \in DOMAIN sessions', Complete(t)'
               PROVE  (Room(t) \subseteq signalled)'
    BY DEF NobodyMissesRoomId
  <2>1. Room(t)' = Room(t) /\ Present(t)' = Present(t)
    BY <1>2 DEF Room, Present
  <2>2. CASE t \in DOMAIN sessions
    BY <1>1, <1>2, <2>1, <2>2 DEF Complete, NobodyMissesRoomId
  <2>3. CASE t \notin DOMAIN sessions
    <3>1. Room(t) = {}
      BY <2>3 DEF Room, TypeOK
    <3> QED BY <2>1, <3>1
  <2> QED BY <2>2, <2>3
<1> QED BY <1>3, <1>4, <1>5, <1>6

LEMMA ConnectKeepsInv ==
    ASSUME Inv, NEW x \in Sids, NEW u \in Ids, NEW s \in SessionIds,
           Connect(x, u, s)
    PROVE  Inv'
<1> USE DEF Inv, Joined
<1>1. /\ Joined' = Joined \cup {x} /\ x \notin Joined
      /\ sids'[x] = [session |-> s, user |-> u]
      /\ \A y \in Joined : sids'[y] = sids[y]
      /\ heard'[x] = {}
      /\ \A y \in Joined : heard'[y] = heard[y]
      /\ heard' \in [Joined' -> SUBSET Ids]
      /\ up' = up \cup {x}
      /\ s \in DOMAIN sessions /\ u \in sessions[s]
      /\ sessions' = sessions
      /\ \A y \in up : sids[y].user # u
  BY DEF Connect, Admitted, TypeOK
<1>2. /\ signalled' \subseteq signalled \cup Room(s)'
      /\ signalled \subseteq signalled'
      /\ Complete(s)' => Room(s)' \subseteq signalled'
  BY DEF Connect, NotifyRoom
<1>3. sids' \in [Joined' -> [session : DOMAIN sessions, user : Ids]]
  BY <1>1 DEF TypeOK, Connect
<1>4. TypeOK'
  BY <1>1, <1>2, <1>3 DEF TypeOK, Room
<1>5. Pairs' /\ OneSocket'
  BY <1>1 DEF Pairs, OneSocket, TypeOK
<1>6. NoCrossTalk' /\ FramesAfterRoomId'
  BY <1>1, <1>2 DEF TypeOK, NoCrossTalk, FramesAfterRoomId
<1>7. NobodyMissesRoomId'
  <2> SUFFICES ASSUME NEW t \in DOMAIN sessions, Complete(t)', t # s
               PROVE  (Room(t) \subseteq signalled)'
    BY <1>1, <1>2 DEF NobodyMissesRoomId
  <2>1. Room(t)' = Room(t)
    BY <1>1 DEF Room
  <2>2. Present(t)' = Present(t)
    BY <1>1, <2>1 DEF Present, Room
  <2> QED BY <1>1, <1>2, <2>1, <2>2 DEF Complete, NobodyMissesRoomId
<1> QED BY <1>4, <1>5, <1>6, <1>7

LEMMA ConnectionLostKeepsInv ==
    ASSUME Inv, NEW x, ConnectionLost(x)
    PROVE  Inv'
<1>1. UNCHANGED <<sessions, sids, signalled, heard>> /\ up' = up \ {x}
  BY DEF ConnectionLost
<1>2. NobodyMissesRoomId'
  BY <1>1 DEF Inv, NobodyMissesRoomId, Complete, Present, Room, Joined
<1> QED BY <1>1, <1>2 DEF Inv, TypeOK, Pairs, OneSocket, NoCrossTalk,
                          FramesAfterRoomId, Joined

LEMMA DisconnectKeepsInv ==
    ASSUME Inv, NEW x, Disconnect(x)
    PROVE  Inv'
<1> USE DEF Inv, Joined
<1>1. /\ Joined' = Joined \ {x}
      /\ \A y \in Joined' : sids'[y] = sids[y] /\ heard'[y] = heard[y]
      /\ sids' = [y \in Joined \ {x} |-> sids[y]]
      /\ heard' = [y \in Joined \ {x} |-> heard[y]]
      /\ up' = up \ {x} /\ signalled' = signalled \ {x}
      /\ sessions' = sessions
  BY DEF Disconnect, Restrict
<1>2. TypeOK'
  BY <1>1 DEF TypeOK
<1>3. Pairs' /\ OneSocket'
  BY <1>1 DEF Pairs, OneSocket, TypeOK
<1>4. NoCrossTalk' /\ FramesAfterRoomId'
  BY <1>1 DEF NoCrossTalk, FramesAfterRoomId
<1>5. NobodyMissesRoomId'
  <2> SUFFICES ASSUME NEW t \in DOMAIN sessions, Complete(t)'
               PROVE  (Room(t) \subseteq signalled)'
    BY <1>1 DEF NobodyMissesRoomId
  <2>1. Room(t)' = Room(t) \ {x}
    BY <1>1 DEF Room
  <2>2. Present(t)' \subseteq Present(t)
    BY <1>1, <2>1 DEF Present, Room
  <2> QED BY <1>1, <2>1, <2>2 DEF Complete, NobodyMissesRoomId
<1> QED BY <1>2, <1>3, <1>4, <1>5

LEMMA RelayKeepsInv ==
    ASSUME Inv, NEW x, Relay(x)
    PROVE  Inv'
<1> USE DEF Inv, Joined
<1>1. UNCHANGED <<sessions, sids, up, signalled>> /\ x \in up /\ x \in Joined
  BY DEF Relay, TypeOK
<1>2. \A y \in Joined :
         heard'[y] = IF y \in Room(sids[x].session) /\ y # x /\ y \in up
                     THEN heard[y] \cup {sids[x].user} ELSE heard[y]
  BY DEF Relay, Audience
<1>3. TypeOK'
  <2>1. sids[x].user \in Ids
    BY <1>1 DEF TypeOK
  <2>2. heard' \in [Joined -> SUBSET Ids]
    BY <2>1 DEF Relay, TypeOK
  <2> QED BY <1>1, <2>2 DEF TypeOK
<1>4. Pairs' /\ OneSocket'
  BY <1>1 DEF Pairs, OneSocket
<1>5. NoCrossTalk'
  <2> SUFFICES ASSUME NEW y \in Joined
               PROVE  heard'[y] \subseteq sessions[sids[y].session] \ {sids[y].user}
    BY <1>1 DEF NoCrossTalk
  <2>1. heard[y] \subseteq sessions[sids[y].session] \ {sids[y].user}
    BY DEF NoCrossTalk
  <2>2. sids[x].user \in sessions[sids[x].session]
    BY <1>1 DEF TypeOK
  <2>3. y \in Room(sids[x].session) => sids[y].session = sids[x].session
    BY DEF Room
  <2>4. y \in up /\ y # x => sids[y].user # sids[x].user
    BY <1>1 DEF OneSocket
  <2> QED BY <1>2, <2>1, <2>2, <2>3, <2>4
<1>6. NobodyMissesRoomId'
  BY <1>1 DEF NobodyMissesRoomId, Complete, Present, Room
<1>7. FramesAfterRoomId'
  <2> SUFFICES ASSUME NEW y \in Joined, y \in Room(sids[x].session), y # x,
                      y \in up
               PROVE  y \in signalled
    BY <1>1, <1>2 DEF FramesAfterRoomId
  <2>1. sids[x].session = sids[y].session
    BY DEF Room
  <2>2. Complete(sids[x].session)
    BY <1>1, <2>1, TwoMakeItComplete
  <2>3. sids[x].session \in DOMAIN sessions
    BY <1>1 DEF TypeOK
  <2> QED BY <2>2, <2>3 DEF NobodyMissesRoomId
<1> QED BY <1>3, <1>4, <1>5, <1>6, <1>7

-----------------------------------------------------------------------------
LEMMA InvariantHolds == Spec => []Inv
<1>1. Init => Inv
  BY DEF Init, Inv, TypeOK, Pairs, OneSocket, NoCrossTalk,
         NobodyMissesRoomId, FramesAfterRoomId, Joined
<1>2. ASSUME Inv, UNCHANGED vars PROVE Inv'
  BY <1>2 DEF vars, Inv, TypeOK, Pairs, OneSocket, NoCrossTalk,
              NobodyMissesRoomId, FramesAfterRoomId, Joined, Complete, Present,
              Room
<1>3. Inv /\ [Next]_vars => Inv'
  BY <1>2, CreateSessionKeepsInv, ConnectKeepsInv, ConnectionLostKeepsInv,
     DisconnectKeepsInv, RelayKeepsInv DEF Next
<1> QED BY <1>1, <1>3, PTL DEF Spec

\* Every socket in a room belongs to a user the room's session was made for.
THEOREM RoomsTyped == Spec => []TypeOK
BY InvariantHolds, PTL DEF Inv

\* Frames stay in the session they were sent in, and never return to the user
\* that sent them (socket_api.py:122-147).
THEOREM MediaStaysInSession == Spec => []NoCrossTalk
BY InvariantHolds, PTL DEF Inv

\* A complete room has told every socket in it to start.
THEOREM CompleteRoomsSignalled == Spec => []NobodyMissesRoomId
BY InvariantHolds, PTL DEF Inv

\* No frame precedes room-id.
THEOREM RoomIdComesFirst == Spec => []FramesAfterRoomId
BY InvariantHolds, PTL DEF Inv

=============================================================================
