---------------------------- MODULE RestApiProofs ----------------------------
(***************************************************************************)
(* The rate limiter keeps its promises for every number of addresses and   *)
(* requests and every length of the window.                                *)
(*                                                                         *)
(* WindowBound speaks of all requests that were ever let through, and the  *)
(* limiter remembers only some of them.  The invariant that connects the   *)
(* two says that what it has forgotten is older than the window, and that  *)
(* nothing is from the future; then the requests it counts are those of    *)
(* the window that ends now.                                               *)
(***************************************************************************)
EXTENDS RestApi, FiniteSetTheorems, TLAPS

\* The requests let through in the window that ends at a given time.
InWindow(gs, t) == {g \in gs : t - Window < g.at /\ g.at <= t}

Finite == \A a \in Addresses : IsFiniteSet(granted[a])

NoFuture == \A a \in Addresses : \A g \in granted[a] : g.at <= clock

Memory ==
    \A a \in Addresses :
        /\ stamps[a] \subseteq granted[a]
        /\ \A g \in granted[a] : clock - g.at < Window => g \in stamps[a]

LimiterInv == TypeOK /\ Finite /\ NoFuture /\ Memory /\ WindowBound

-----------------------------------------------------------------------------
\* What the limiter remembers at the time of a request is the window that ends
\* then (rest_api.py:37).
LEMMA RememberedIsWindow ==
    ASSUME TypeOK, NoFuture, Memory, NEW a \in Addresses
    PROVE  Remembered(a) = InWindow(granted[a], clock)
<1>1. \A g \in granted[a] : g.at \in Nat /\ g.at <= clock
    BY DEF TypeOK, Stamp, NoFuture
<1>2. stamps[a] \subseteq granted[a]
    BY DEF Memory
<1>3. \A g \in granted[a] : clock - g.at < Window => g \in stamps[a]
    BY DEF Memory
<1>4. clock \in Nat /\ Window \in Nat
    BY LimitAssumption DEF TypeOK
<1> QED
    BY <1>1, <1>2, <1>3, <1>4 DEF Remembered, InWindow

\* One more request fits when fewer than the maximum are remembered.
LEMMA OneMoreFits ==
    ASSUME TypeOK, Finite, NoFuture, Memory,
           NEW a \in Addresses, Allowed(a), NEW x
    PROVE  LET w == InWindow(granted[a], clock) \cup {x}
           IN IsFiniteSet(w) /\ Cardinality(w) <= MaxRequests
<1> DEFINE rest == InWindow(granted[a], clock)
<1>1. IsFiniteSet(rest)
    <2>1. rest \subseteq granted[a] /\ IsFiniteSet(granted[a])
        BY DEF InWindow, Finite
    <2> QED  BY <2>1, FS_Subset
<1>2. Cardinality(rest) < MaxRequests
    BY RememberedIsWindow DEF Allowed
<1>3. /\ IsFiniteSet(rest \cup {x})
      /\ Cardinality(rest \cup {x}) \in {Cardinality(rest), Cardinality(rest) + 1}
    <2>1. /\ IsFiniteSet(rest \cup {x})
          /\ Cardinality(rest \cup {x}) =
                IF x \in rest THEN Cardinality(rest) ELSE Cardinality(rest) + 1
        BY <1>1, FS_AddElement
    <2> QED  BY <2>1
<1>4. Cardinality(rest) \in Nat
    BY <1>1, FS_CardinalityType
<1> QED
    BY <1>2, <1>3, <1>4, LimitAssumption

LEMMA InitEstablishes == Init => LimiterInv
<1> SUFFICES ASSUME Init PROVE LimiterInv
    OBVIOUS
<1>1. TypeOK
    BY DEF Init, TypeOK
<1>2. \A a \in Addresses : granted[a] = {} /\ stamps[a] = {}
    BY DEF Init
<1> QED
    BY <1>1, <1>2, FS_EmptySet DEF LimiterInv, Finite, NoFuture, Memory, WindowBound

-----------------------------------------------------------------------------
\* A request keeps the invariant (rest_api.py:30-44).
LEMMA RequestPreserves ==
    ASSUME LimiterInv, NEW a \in Addresses, Request(a)
    PROVE  LimiterInv'
<1> USE DEF LimiterInv
<1> DEFINE new == NewStamp(a)
<1>1. new \in Stamp /\ new.at = clock
    <2>1. Cardinality(granted[a]) \in Nat
        BY FS_CardinalityType DEF Finite
    <2> QED  BY <2>1 DEF NewStamp, Stamp, TypeOK
<1>2. CASE ~Allowed(a)
    <2>1. granted' = granted /\ clock' = clock
        BY <1>2 DEF Request
    <2>2. stamps' = [stamps EXCEPT ![a] = Remembered(a)]
        BY <1>2 DEF Request, Stamped
    <2>3. Remembered(a) \subseteq stamps[a]
        BY DEF Remembered
    <2>4. TypeOK'
        BY <2>1, <2>2, <2>3 DEF TypeOK, Request
    <2>5. Memory'
        BY <2>1, <2>2, <2>3 DEF Memory, TypeOK, Remembered
    <2> QED
        BY <2>1, <2>4, <2>5 DEF Finite, NoFuture, WindowBound
<1>3. CASE Allowed(a)
    <2>1. /\ granted' = [granted EXCEPT ![a] = @ \cup {new}]
          /\ clock' = clock
          /\ stamps' = [stamps EXCEPT ![a] = Remembered(a) \cup {new}]
        BY <1>3 DEF Request, Stamped
    <2> DEFINE more == granted[a] \cup {new}
    <2>2. granted'[a] = more /\ \A b \in Addresses \ {a} : granted'[b] = granted[b]
        BY <2>1 DEF TypeOK
    <2>3. /\ stamps'[a] = Remembered(a) \cup {new}
          /\ \A b \in Addresses \ {a} : stamps'[b] = stamps[b]
        BY <2>1 DEF TypeOK
    <2>4. TypeOK'
        <3>1. Remembered(a) \subseteq Stamp /\ granted[a] \subseteq Stamp
            BY DEF Remembered, TypeOK
        <3> QED  BY <2>1, <3>1, <1>1 DEF TypeOK, Request
    <2>5. Finite'
        <3>1. IsFiniteSet(more)
            BY FS_AddElement DEF Finite
        <3> QED  BY <3>1, <2>2 DEF Finite
    <2>6. NoFuture'
        BY <2>1, <2>2, <1>1 DEF NoFuture, TypeOK
    <2>7. Memory'
        <3>1. Remembered(a) \subseteq granted[a]
            BY DEF Remembered, Memory
        <3>2. \A g \in more : clock - g.at < Window => g \in stamps'[a]
            BY <2>3 DEF Memory, Remembered
        <3> QED  BY <3>1, <3>2, <2>1, <2>2, <2>3 DEF Memory
    <2>8. WindowBound'
        <3> SUFFICES ASSUME NEW b \in Addresses, NEW last \in granted'[b]
                     PROVE  Cardinality(InWindow(granted'[b], last.at)) <= MaxRequests
            BY DEF WindowBound, InWindow
        <3>1. CASE b # a
            <4>1. granted'[b] = granted[b]
                BY <2>2, <3>1
            <4>2. \A l \in granted[b] :
                     Cardinality(InWindow(granted[b], l.at)) <= MaxRequests
                BY DEF WindowBound, InWindow
            <4> QED  BY <4>1, <4>2
        <3>2. CASE b = a /\ last.at = clock
            <4>1. InWindow(more, clock) = InWindow(granted[a], clock) \cup {new}
                BY <1>1, LimitAssumption DEF InWindow, TypeOK
            <4>2. Cardinality(InWindow(more, clock)) <= MaxRequests
                BY <4>1, <1>3, OneMoreFits
            <4> QED  BY <4>2, <3>2, <2>2
        <3>3. CASE b = a /\ last.at # clock
            <4>1. last \in granted[a]
                BY <3>3, <2>2, <1>1
            <4>2. last.at \in Nat /\ last.at <= clock /\ clock \in Nat
                BY <4>1 DEF NoFuture, TypeOK, Stamp
            <4>3. InWindow(more, last.at) = InWindow(granted[a], last.at)
                BY <1>1, <4>2, <3>3 DEF InWindow
            <4>4. Cardinality(InWindow(granted[a], last.at)) <= MaxRequests
                BY <4>1 DEF WindowBound, InWindow
            <4> QED  BY <4>3, <4>4, <3>3, <2>2
        <3> QED  BY <3>1, <3>2, <3>3
    <2> QED  BY <2>4, <2>5, <2>6, <2>7, <2>8
<1> QED  BY <1>2, <1>3

\* Time only makes the limiter forget.
LEMMA TickPreserves == LimiterInv /\ Tick => LimiterInv'
<1> SUFFICES ASSUME LimiterInv, Tick PROVE LimiterInv'
    OBVIOUS
<1>1. clock \in Nat /\ clock' = clock + 1 /\ UNCHANGED <<stamps, granted>>
    BY DEF Tick, LimiterInv, TypeOK
<1>2. TypeOK'
    BY <1>1 DEF Tick, LimiterInv, TypeOK
<1>3. \A a \in Addresses : \A g \in granted[a] : g.at \in Nat
    BY DEF LimiterInv, TypeOK, Stamp
<1>4. NoFuture'
    BY <1>1, <1>3 DEF LimiterInv, NoFuture
<1>5. Memory'
    BY <1>1, <1>3, LimitAssumption DEF LimiterInv, Memory
<1> QED
    BY <1>1, <1>2, <1>4, <1>5 DEF LimiterInv, Finite, WindowBound

LEMMA LimiterInvariant == Spec => []LimiterInv
<1>1. Init => LimiterInv
    BY InitEstablishes
<1>2. LimiterInv /\ [Next]_vars => LimiterInv'
    <2> SUFFICES ASSUME LimiterInv, [Next]_vars PROVE LimiterInv'
        OBVIOUS
    <2>1. CASE \E a \in Addresses : Request(a)
        BY <2>1, RequestPreserves
    <2>2. CASE Tick
        BY <2>2, TickPreserves
    <2>3. CASE Configure \/ Start \/ Run
        BY <2>3 DEF Configure, Start, Run, LimiterInv, TypeOK, Finite, NoFuture,
                    Memory, WindowBound
    <2>4. CASE \E t \in Timers : AdminShutdown(t) \/ Kill(t) \/ Stop(t)
        <3>1. UNCHANGED <<clock, stamps, granted>>
            BY <2>4 DEF AdminShutdown, Kill, Stop
        <3>2. TypeOK'
            BY <2>4 DEF AdminShutdown, Kill, Stop, LimiterInv, TypeOK
        <3> QED
            BY <3>1, <3>2 DEF LimiterInv, Finite, NoFuture, Memory, WindowBound
    <2>5. CASE Restart
        <3>1. TypeOK'
            BY <2>5 DEF Restart, LimiterInv, TypeOK
        <3>2. \A a \in Addresses : granted'[a] = {} /\ stamps'[a] = {}
            BY <2>5 DEF Restart
        <3> QED
            BY <3>1, <3>2, FS_EmptySet
            DEF LimiterInv, Finite, NoFuture, Memory, WindowBound
    <2>6. CASE UNCHANGED vars
        BY <2>6 DEF vars, LimiterInv, TypeOK, Finite, NoFuture, Memory, WindowBound
    <2> QED
        BY <2>1, <2>2, <2>3, <2>4, <2>5, <2>6 DEF Next
<1> QED
    BY <1>1, <1>2, PTL DEF Spec

-----------------------------------------------------------------------------
\* Every reachable state of the front end is well-typed.
THEOREM TypeCorrect == Spec => []TypeOK
BY LimiterInvariant, PTL DEF LimiterInv

\* No address gets more than max_requests through in any stretch of time as
\* long as the window, whatever the limit and the window are
\* (rest_api.py:32-44).
THEOREM LimitHolds == Spec => []WindowBound
BY LimiterInvariant, PTL DEF LimiterInv

\* Whoever got nothing through for a window is let through: the limiter
\* remembers nothing of it, however often it refused (rest_api.py:37-43).
THEOREM NobodyLockedOut == Spec => []NoLockout
<1>1. LimiterInv => NoLockout
    <2> SUFFICES ASSUME LimiterInv, NEW a \in Addresses,
                        \A g \in granted[a] : clock - g.at >= Window
                 PROVE  Allowed(a)
        BY DEF NoLockout
    <2>1. \A g \in stamps[a] : clock - g.at >= Window /\ g.at \in Nat
        BY DEF LimiterInv, Memory, TypeOK, Stamp
    <2>2. Remembered(a) = {}
        BY <2>1, LimitAssumption DEF Remembered, LimiterInv, TypeOK
    <2> QED
        BY <2>2, FS_EmptySet, LimitAssumption DEF Allowed
<1> QED
    BY <1>1, LimiterInvariant, PTL

-----------------------------------------------------------------------------
(* The life cycle *)

\* A shutdown thread that has ended, because it stopped the server, or lost the
\* race to another or found the API not LIVE, leaves a server that is stopped.
EndedShutdowns ==
    \A t \in Timers : timer[t] = "done" => state = "IDLE" /\ ~serving

\* Only a LIVE API serves, and one that was not configured has no shutdown.
LifeInv ==
    /\ TypeOK
    /\ serving => state = "LIVE"
    /\ state = "INIT" => \A t \in Timers : timer[t] = "unused"
    /\ EndedShutdowns

LEMMA LifeInvariant == Spec => []LifeInv
<1>1. Init => LifeInv
    BY InitEstablishes DEF Init, LimiterInv, LifeInv, EndedShutdowns
<1>2. ASSUME LifeInv, TypeOK', [Next]_vars PROVE LifeInv'
    <2> USE <1>2 DEF LifeInv, EndedShutdowns
    <2>1. CASE \/ \E a \in Addresses : Request(a)
               \/ Tick \/ Configure \/ Start \/ Run
        BY <2>1 DEF Request, Tick, Configure, Start, Run
    <2>2. ASSUME NEW t \in Timers, AdminShutdown(t) PROVE LifeInv'
        BY <2>2 DEF AdminShutdown, TypeOK
    <2>3. ASSUME NEW t \in Timers, Kill(t) PROVE LifeInv'
        <3>1. state \in {"IDLE", "LIVE"}
            BY <2>3 DEF Kill, TypeOK
        <3> QED  BY <2>3, <3>1 DEF Kill, MayKill, TypeOK
    <2>4. ASSUME NEW t \in Timers, Stop(t) PROVE LifeInv'
        BY <2>4 DEF Stop, TypeOK
    <2>5. CASE Restart \/ UNCHANGED vars
        BY <2>5 DEF Restart, vars
    <2> QED  BY <2>1, <2>2, <2>3, <2>4, <2>5 DEF Next
<1>3. LifeInv /\ TypeOK' /\ [Next]_vars => LifeInv'
    BY <1>2
<1> QED
    BY <1>1, <1>3, TypeCorrect, PTL DEF Spec

\* However threads of POST /admin/shutdown race in kill, and whichever of them
\* meets the ServerError that graceful_shutdown swallows, none is over while the
\* server serves (rest_api.py:137-156): the safety side of ShutdownHappens.
THEOREM EndedShutdownsStopped == Spec => []EndedShutdowns
BY LifeInvariant, PTL DEF LifeInv

=============================================================================
