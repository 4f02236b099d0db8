---------------------------- MODULE MCSocketRooms ----------------------------
(* SocketRooms on small sets of interchangeable users, sessions and sids. *)
EXTENDS SocketRooms, TLC

RoomSymmetry ==
    Permutations(Ids) \cup Permutations(SessionIds) \cup Permutations(Sids)

=============================================================================
