------------------------------- MODULE RestApi -------------------------------
(***************************************************************************)
(* The server's REST front end (server/rest_api.py, main.py): the rate     *)
(* limiter that every endpoint of the users shares, and the life cycle of  *)
(* the API with its shutdowns.                                             *)
(*                                                                         *)
(* time.time() is a clock of whole ticks that is never set back.  The      *)
(* handlers run on one hub and is_allowed does not yield, so that a        *)
(* request is one step; a shutdown runs on a thread of its own.            *)
(***************************************************************************)
EXTENDS Integers, FiniteSets

CONSTANTS
    Addresses,    \* the clients' IP addresses
    MaxRequests,  \* max_requests
    Window,       \* window_seconds
    Timers,       \* the threads that admin_shutdown may start
    MaxClock      \* bound on the clock

ASSUME LimitAssumption == MaxRequests \in Nat \ {0} /\ Window \in Nat \ {0}
ASSUME ClockAssumption == MaxClock \in Nat

VARIABLES
    clock,
    stamps,    \* RateLimiter._requests: address -> the requests it remembers
    granted,   \* address -> all requests that were let through (history)
    state,     \* ServerAPI.state
    serving,   \* socketio.run accepts requests
    timer      \* the shutdown threads

vars == <<clock, stamps, granted, state, serving, timer>>

-----------------------------------------------------------------------------
\* A request is known by its time and its number: two may have the same time.
Stamp == [at : Nat, nth : Nat]

Init ==
    /\ clock = 0
    /\ stamps = [a \in Addresses |-> {}]
    /\ granted = [a \in Addresses |-> {}]
    /\ state = "INIT"
    /\ serving = FALSE
    /\ timer = [t \in Timers |-> "unused"]

\* Mistake: the limiter forgets a request a tick too early.
RememberedShort(a) == {g \in stamps[a] : clock - g.at < Window - 1}

\* [t for t in timestamps if now - t < self.window]
Remembered(a) == {g \in stamps[a] : clock - g.at < Window}

Allowed(a) == Cardinality(Remembered(a)) < MaxRequests

\* Mistake: the start of the window is stored, not its end.
NewStampStart(a) == [at |-> clock - Window, nth |-> Cardinality(granted[a]) + 1]

NewStamp(a) == [at |-> clock, nth |-> Cardinality(granted[a]) + 1]

\* Mistake: what is refused counts too.
StampedAlways(a) == Remembered(a) \cup {NewStamp(a)}

\* What is_allowed leaves for the address.
Stamped(a) ==
    IF Allowed(a) THEN Remembered(a) \cup {NewStamp(a)} ELSE Remembered(a)

\* A request to one of the four endpoints under @rate_limit: served, or 429.
Request(a) ==
    /\ serving
    /\ stamps' = [stamps EXCEPT ![a] = Stamped(a)]
    /\ granted' = IF Allowed(a)
                  THEN [granted EXCEPT ![a] = @ \cup {NewStamp(a)}]
                  ELSE granted
    /\ UNCHANGED <<clock, state, serving, timer>>

Tick ==
    /\ clock < MaxClock
    /\ clock' = clock + 1
    /\ UNCHANGED <<stamps, granted, state, serving, timer>>

-----------------------------------------------------------------------------
\* ServerAPI.init, called once by main.
Configure ==
    /\ state = "INIT"
    /\ state' = "IDLE"
    /\ UNCHANGED <<clock, stamps, granted, serving, timer>>

\* ServerAPI.start, called once by main, before there is a shutdown: LIVE first,
\* then socketio.run, which blocks.
Start ==
    /\ state = "IDLE"
    /\ \A t \in Timers : timer[t] = "unused"
    /\ state' = "LIVE"
    /\ UNCHANGED <<clock, stamps, granted, serving, timer>>

Run ==
    /\ state = "LIVE"
    /\ ~serving
    /\ serving' = TRUE
    /\ UNCHANGED <<clock, stamps, granted, state, timer>>

\* POST /admin/shutdown: answer first, shut down half a second later.
AdminShutdown(t) ==
    /\ serving
    /\ timer[t] = "unused"
    /\ timer' = [timer EXCEPT ![t] = "waiting"]
    /\ UNCHANGED <<clock, stamps, granted, state, serving>>

\* Mistake: kill goes on when the API is IDLE.
MayKillIdle == state = "IDLE"

\* The check of kill.
MayKill == state = "LIVE"

\* graceful_shutdown up to socketio.stop.  The ServerError of an API that is
\* not LIVE any more is swallowed.
Kill(t) ==
    /\ timer[t] = "waiting"
    /\ timer' = [timer EXCEPT ![t] = IF MayKill THEN "stopping" ELSE "done"]
    /\ UNCHANGED <<clock, stamps, granted, state, serving>>

\* socketio.stop, and IDLE.  Two threads may both get here.
Stop(t) ==
    /\ timer[t] = "stopping"
    /\ timer' = [timer EXCEPT ![t] = "done"]
    /\ serving' = FALSE
    /\ state' = "IDLE"
    /\ UNCHANGED <<clock, stamps, granted>>

\* The process ends, by a signal or because socketio.run has returned, once its
\* shutdown threads have ended, and is started again.
Restart ==
    /\ state # "INIT"
    /\ \A t \in Timers : timer[t] \in {"unused", "done"}
    /\ stamps' = [a \in Addresses |-> {}]
    /\ granted' = [a \in Addresses |-> {}]
    /\ state' = "INIT"
    /\ serving' = FALSE
    /\ timer' = [t \in Timers |-> "unused"]
    /\ UNCHANGED clock

Next ==
    \/ \E a \in Addresses : Request(a)
    \/ Tick
    \/ Configure
    \/ Start
    \/ Run
    \/ \E t \in Timers : AdminShutdown(t) \/ Kill(t) \/ Stop(t)
    \/ Restart

Spec == Init /\ [][Next]_vars

\* Threads that were started run.
Fairness == \A t \in Timers : WF_vars(Kill(t)) /\ WF_vars(Stop(t))

FairSpec == Spec /\ Fairness

-----------------------------------------------------------------------------
(* Properties *)

TypeOK ==
    /\ clock \in Nat
    /\ stamps \in [Addresses -> SUBSET Stamp]
    /\ granted \in [Addresses -> SUBSET Stamp]
    /\ state \in {"INIT", "IDLE", "LIVE"}
    /\ serving \in BOOLEAN
    /\ timer \in [Timers -> {"unused", "waiting", "stopping", "done"}]

\* No address gets more than max_requests through in any stretch of time that
\* is as long as the window, wherever it begins: the window slides, it is not a
\* bucket that is emptied (rest_api.py:32-44).
WindowBound ==
    \A a \in Addresses : \A last \in granted[a] :
        Cardinality({g \in granted[a] : /\ last.at - Window < g.at
                                        /\ g.at <= last.at}) <= MaxRequests

\* An address that got nothing through for a whole window is let through, no
\* matter how often it was refused meanwhile (rest_api.py:37-43).
NoLockout ==
    \A a \in Addresses :
        (\A g \in granted[a] : clock - g.at >= Window) => Allowed(a)

\* A shutdown that was answered happens, however many there are and however
\* their threads interleave (admin_routes.py:174, rest_api.py:148-156).
ShutdownHappens ==
    \A t \in Timers : timer[t] = "waiting" ~> ~serving

=============================================================================
