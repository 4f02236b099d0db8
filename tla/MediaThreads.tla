----------------------------- MODULE MediaThreads -----------------------------
(***************************************************************************)
(* One media slot of the middleware, state.video_thread or                 *)
(* state.audio_thread (middleware/server_comms.py, events.py, video.py,    *)
(* audio.py).  Each event the middleware receives runs in a greenlet of    *)
(* its own, and a greenlet runs until it yields: in Thread.join, which     *)
(* gives up after 2 seconds, and in Thread.start, which waits until the    *)
(* new thread runs.  Between those points other greenlets run and may      *)
(* change the slot.                                                        *)
(*                                                                         *)
(* Handlers are the greenlets that may be inside start_video, start_audio  *)
(* or select_audio at the same time; leave_room and /peer_disconnected do  *)
(* not yield while they touch the slot.                                    *)
(***************************************************************************)
EXTENDS FiniteSets

CONSTANTS
    Handlers,  \* greenlets in which a start or a reselect may run
    Threads,   \* VideoThread (or AudioThread) objects, created one by one
    None,      \* the empty slot
    Audio      \* TRUE for the audio slot, which select_audio restarts

ASSUME NoThreadAssumption == None \notin Threads
ASSUME SlotAssumption     == Audio \in BOOLEAN

VARIABLES
    slot,      \* state.video_thread / state.audio_thread
    phase,     \* what each thread does: unused, starting, running or ended
    stopped,   \* the threads whose stop event is set
    pc,        \* where each handler is
    old,       \* the thread each handler is joining
    wanted     \* the last request was to play, not to stop (history)

vars == <<slot, phase, stopped, pc, old, wanted>>

-----------------------------------------------------------------------------
\* Thread.is_alive: the greenlet of the thread began to run and did not end.
Alive(t) == t # None /\ phase[t] = "running"

\* Threads that capture, or will, and that nobody told to stop.
Capturing == {t \in Threads : phase[t] \in {"starting", "running"}} \ stopped

Init ==
    /\ slot = None
    /\ phase = [t \in Threads |-> "unused"]
    /\ stopped = {}
    /\ pc = [h \in Handlers |-> "idle"]
    /\ old = [h \in Handlers |-> None]
    /\ wanted = FALSE

\* Mistake: the thread in the slot is left running.
StopAndJoinNothing(h, next) ==
    /\ pc' = [pc EXCEPT ![h] = next]
    /\ old' = [old EXCEPT ![h] = slot]
    /\ UNCHANGED <<slot, phase, stopped>>

\* state.x_thread.stop(); state.x_thread.join(timeout=2)
StopAndJoin(h, next) ==
    /\ stopped' = stopped \cup {slot}
    /\ old' = [old EXCEPT ![h] = slot]
    /\ pc' = [pc EXCEPT ![h] = next]
    /\ UNCHANGED <<slot, phase>>

\* state.x_thread = XThread(...); state.x_thread.start()
Launch(h) ==
    \E t \in Threads :
        /\ phase[t] = "unused"
        /\ slot' = t
        /\ phase' = [phase EXCEPT ![t] = "starting"]
        /\ pc' = [pc EXCEPT ![h] = "starting"]
        /\ old' = [old EXCEPT ![h] = t]
        /\ UNCHANGED stopped

\* Mistake: the slot is not looked at first.
EnterUnchecked(h) == StopAndJoin(h, "joining")

\* The body of start_video and start_audio.
Enter(h) == IF Alive(slot) THEN StopAndJoin(h, "joining") ELSE Launch(h)

\* start_video or start_audio begins: room-id arrived, or select_camera.
Start(h) ==
    /\ pc[h] = "idle"
    /\ wanted' = TRUE
    /\ Enter(h)

\* select_audio: stop and join first, if there is something to restart.
SelectAudio(h) ==
    /\ Audio
    /\ pc[h] = "idle"
    /\ Alive(slot)
    /\ StopAndJoin(h, "reselecting")
    /\ wanted' = TRUE

\* join returns: the thread ended, or two seconds passed (a capture call that
\* blocks keeps the thread from seeing its stop event).
JoinEnds(h) == phase[old[h]] \in {"running", "ended"}

Joined(h) ==
    /\ pc[h] = "joining"
    /\ JoinEnds(h)
    /\ Launch(h)
    /\ UNCHANGED wanted

\* The join of select_audio is over: now start_audio looks at the slot again.
Reselected(h) ==
    /\ pc[h] = "reselecting"
    /\ JoinEnds(h)
    /\ Enter(h)
    /\ UNCHANGED wanted

\* Mistake: the handler waits until it sees the thread run.
StartedAlive(h) ==
    /\ pc[h] = "starting"
    /\ Alive(old[h])
    /\ pc' = [pc EXCEPT ![h] = "idle"]
    /\ old' = [old EXCEPT ![h] = None]
    /\ UNCHANGED <<slot, phase, stopped, wanted>>

\* Thread.start returns once the new thread runs.
Started(h) ==
    /\ pc[h] = "starting"
    /\ phase[old[h]] # "starting"
    /\ pc' = [pc EXCEPT ![h] = "idle"]
    /\ old' = [old EXCEPT ![h] = None]
    /\ UNCHANGED <<slot, phase, stopped, wanted>>

\* leave_room or /peer_disconnected.
Stop ==
    /\ slot # None
    /\ stopped' = stopped \cup {slot}
    /\ slot' = None
    /\ wanted' = FALSE
    /\ UNCHANGED <<phase, pc, old>>

\* The greenlet of a new thread is scheduled.
ThreadBegins(t) ==
    /\ phase[t] = "starting"
    /\ phase' = [phase EXCEPT ![t] = "running"]
    /\ UNCHANGED <<slot, stopped, pc, old, wanted>>

\* Mistake: the capture loop looks at the slot, not at its stop event.
LoopSeesSlot(t) == slot = None

\* while not self._stop_event.is_set()
LoopEnds(t) == t \in stopped

ThreadEnds(t) ==
    /\ phase[t] = "running"
    /\ LoopEnds(t)
    /\ phase' = [phase EXCEPT ![t] = "ended"]
    /\ UNCHANGED <<slot, stopped, pc, old, wanted>>

\* The middleware is idle: no handler is at work, and Threads is used up.
Exhausted ==
    /\ \A t \in Threads : phase[t] # "unused"
    /\ UNCHANGED vars

Next ==
    \/ \E h \in Handlers : Start(h) \/ SelectAudio(h) \/ Joined(h)
                             \/ Reselected(h) \/ Started(h)
    \/ Stop
    \/ \E t \in Threads : ThreadBegins(t) \/ ThreadEnds(t)
    \/ Exhausted

Spec == Init /\ [][Next]_vars

\* The hub schedules every greenlet that can run, and a capture loop wakes up
\* every 100 or 125 ms.  Handlers that wait for a thread object beyond Threads
\* are not at issue.
Fairness ==
    /\ \A t \in Threads : WF_vars(ThreadBegins(t)) /\ WF_vars(ThreadEnds(t))
    /\ \A h \in Handlers : WF_vars(Joined(h)) /\ WF_vars(Reselected(h))
                             /\ WF_vars(Started(h))

FairSpec == Spec /\ Fairness

-----------------------------------------------------------------------------
(* Properties *)

TypeOK ==
    /\ slot \in Threads \cup {None}
    /\ phase \in [Threads -> {"unused", "starting", "running", "ended"}]
    /\ stopped \subseteq Threads
    /\ pc \in [Handlers -> {"idle", "joining", "reselecting", "starting"}]
    /\ old \in [Handlers -> Threads \cup {None}]
    /\ wanted \in BOOLEAN
    /\ \A t \in stopped : phase[t] # "unused"

\* Every thread that captures and was not told to stop is the one in the slot,
\* which leave_room stops: none is out of reach (events.py:114-116 relies on
\* it).  Two handlers in start_video at once break it.
NoOrphan == Capturing \subseteq {slot}

\* Once told to stop, the slot starts nothing before it is asked to play again
\* (leave_room's "stop media", server_comms.py:199).  A start that is waiting
\* in join when leave_room runs breaks it.
StopSticks == ~wanted => Capturing = {}

\* The camera is closed in the end: a thread whose stop event is set ends.
StoppedThreadsEnd ==
    \A t \in Threads : t \in stopped ~> phase[t] = "ended"

\* A handler never hangs in join or start while there are threads to be had.
HandlersReturn ==
    \A h \in Handlers :
        pc[h] # "idle" ~> \/ pc[h] = "idle"
                          \/ \A t \in Threads : phase[t] # "unused"

=============================================================================
