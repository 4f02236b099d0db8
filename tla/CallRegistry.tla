----------------------------- MODULE CallRegistry -----------------------------
(***************************************************************************)
(* What the server promises its clients, without ids' states, sessions or  *)
(* requests in flight: a set of registered users and a set of calls.  A    *)
(* call is between two users, starts only when both are free, and ends for *)
(* both in one step.  A user who unregisters in a call leaves the other    *)
(* one in it; the call is over when nobody registered is left in it.       *)
(* PeerManager implements this specification.                              *)
(***************************************************************************)
CONSTANT Ids

VARIABLES registered, calls

vars == <<registered, calls>>

Busy == UNION calls

Init ==
    /\ registered = {}
    /\ calls = {}

\* A new user is in no call, not even in one that a departed user left.
Register(u) ==
    /\ u \notin registered \cup Busy
    /\ registered' = registered \cup {u}
    /\ UNCHANGED calls

Establish(u, v) ==
    /\ u # v
    /\ {u, v} \subseteq registered
    /\ {u, v} \cap Busy = {}
    /\ calls' = calls \cup {{u, v}}
    /\ UNCHANGED registered

HangUp(u) ==
    /\ u \in registered \cap Busy
    /\ calls' = {c \in calls : u \notin c}
    /\ UNCHANGED registered

Unregister(u) ==
    /\ u \in registered
    /\ registered' = registered \ {u}
    /\ calls' = {c \in calls : c \cap registered' # {}}

\* The server forgets everything.
Reset ==
    /\ registered' = {}
    /\ calls' = {}

Next ==
    \/ \E u \in Ids : Register(u) \/ HangUp(u) \/ Unregister(u)
    \/ \E u, v \in Ids : Establish(u, v)
    \/ Reset

Spec == Init /\ [][Next]_vars

-----------------------------------------------------------------------------
\* A call is between two users, one of whom at least is still registered, and
\* nobody is in two calls (peer_manager.py:41-46 checks this before a call).
OneCallEach ==
    /\ \A c \in calls : /\ \E u, v \in Ids : u # v /\ c = {u, v}
                        /\ c \cap registered # {}
    /\ \A c, d \in calls : c \cap d # {} => c = d

=============================================================================
