-------------------------- MODULE MediaThreadsProofs --------------------------
(***************************************************************************)
(* Proofs about MediaThreads: type correctness and what handlers wait for, *)
(* for any number of handlers, and that one handler at a time leaves no    *)
(* capture thread out of reach, for any number of threads.                 *)
(***************************************************************************)
EXTENDS MediaThreads, TLAPS

\* The thread in the slot is one that was created.
Used == slot # None => phase[slot] # "unused"

TypeInv == TypeOK /\ Used

LEMMA InitType == Init => TypeInv
BY NoThreadAssumption DEF Init, TypeInv, TypeOK, Used

\* The three ways in which a handler changes the slot and the threads.
LEMMA StopAndJoinType ==
    ASSUME TypeInv, slot # None, NEW h \in Handlers,
           NEW next \in {"joining", "reselecting"}, StopAndJoin(h, next),
           wanted' \in BOOLEAN
    PROVE  TypeInv'
<1>1. slot \in Threads /\ phase[slot] # "unused"
  BY DEF TypeInv, TypeOK, Used
<1> QED BY <1>1 DEF TypeInv, TypeOK, Used, StopAndJoin

LEMMA LaunchType ==
    ASSUME TypeInv, NEW h \in Handlers, Launch(h), wanted' \in BOOLEAN
    PROVE  TypeInv'
<1>1. PICK t \in Threads :
          /\ phase[t] = "unused"
          /\ slot' = t
          /\ phase' = [phase EXCEPT ![t] = "starting"]
          /\ pc' = [pc EXCEPT ![h] = "starting"]
          /\ old' = [old EXCEPT ![h] = t]
          /\ UNCHANGED stopped
  BY DEF Launch
<1>2. phase'[t] = "starting" /\ \A u \in Threads : phase[u] # "unused" => phase'[u] # "unused"
  BY <1>1 DEF TypeInv, TypeOK
<1> QED BY <1>1, <1>2 DEF TypeInv, TypeOK, Used

LEMMA EnterType ==
    ASSUME TypeInv, NEW h \in Handlers, Enter(h), wanted' \in BOOLEAN
    PROVE  TypeInv'
BY StopAndJoinType, LaunchType DEF Enter, Alive

LEMMA TypeStep == TypeInv /\ [Next]_vars => TypeInv'
<1> SUFFICES ASSUME TypeInv, [Next]_vars PROVE TypeInv'
  OBVIOUS
<1>0. TypeOK /\ Used
  BY DEF TypeInv
<1>1. ASSUME NEW h \in Handlers, Start(h) PROVE TypeInv'
  BY <1>1, EnterType DEF Start
<1>2. ASSUME NEW h \in Handlers, SelectAudio(h) PROVE TypeInv'
  BY <1>2, StopAndJoinType DEF SelectAudio, Alive
<1>3. ASSUME NEW h \in Handlers, Joined(h) PROVE TypeInv'
  BY <1>0, <1>3, LaunchType DEF Joined, TypeOK
<1>4. ASSUME NEW h \in Handlers, Reselected(h) PROVE TypeInv'
  BY <1>0, <1>4, EnterType DEF Reselected, TypeOK
<1>5. ASSUME NEW h \in Handlers, Started(h) PROVE TypeInv'
  BY <1>0, <1>5 DEF Started, TypeInv, TypeOK, Used
<1>6. CASE Stop
  <2>1. slot \in Threads /\ phase[slot] # "unused"
    BY <1>0, <1>6 DEF Stop, TypeOK, Used
  <2> QED BY <1>0, <1>6, <2>1 DEF Stop, TypeInv, TypeOK, Used
<1>7. ASSUME NEW t \in Threads, ThreadBegins(t) PROVE TypeInv'
  BY <1>0, <1>7 DEF ThreadBegins, TypeInv, TypeOK, Used
<1>8. ASSUME NEW t \in Threads, ThreadEnds(t) PROVE TypeInv'
  BY <1>0, <1>8 DEF ThreadEnds, TypeInv, TypeOK, Used
<1>9. CASE UNCHANGED vars
  BY <1>0, <1>9 DEF vars, TypeInv, TypeOK, Used
<1> QED BY <1>1, <1>2, <1>3, <1>4, <1>5, <1>6, <1>7, <1>8, <1>9
        DEF Next, Exhausted

\* Slot, threads and handlers keep their types, and only threads that were
\* created are told to stop, whatever handlers overlap.
THEOREM TypeCorrect == Spec => []TypeOK
<1>1. TypeInv => TypeOK
  BY DEF TypeInv
<1> QED BY <1>1, InitType, TypeStep, PTL DEF Spec

-----------------------------------------------------------------------------
(* One handler at a time: no thread gets out of reach *)

Serial == \A g, h \in Handlers : g = h

\* A handler that joins has stopped the thread in the slot, unless leave_room
\* emptied it; a thread that was launched and does not run yet has its handler
\* waiting for it.
Reach(h) ==
    /\ pc[h] \in {"joining", "reselecting"} => slot \in stopped \cup {None}
    /\ pc[h] = "starting" => slot \in {old[h], None}

Attended ==
    slot # None /\ phase[slot] = "starting" => \E h \in Handlers : pc[h] = "starting"

SerialInv == TypeInv /\ NoOrphan /\ Attended /\ \A h \in Handlers : Reach(h)

LEMMA SerialInit == Init => SerialInv
BY InitType DEF Init, SerialInv, NoOrphan, Capturing, Attended, Reach

\* A launch is safe when nothing captures.
LEMMA LaunchSafe ==
    ASSUME Serial, SerialInv, Capturing = {}, NEW h \in Handlers, Launch(h),
           wanted' \in BOOLEAN
    PROVE  SerialInv'
<1>1. PICK t \in Threads :
          /\ phase[t] = "unused"
          /\ slot' = t
          /\ phase' = [phase EXCEPT ![t] = "starting"]
          /\ pc' = [pc EXCEPT ![h] = "starting"]
          /\ old' = [old EXCEPT ![h] = t]
          /\ UNCHANGED stopped
  BY DEF Launch
<1>2. TypeInv' /\ TypeOK
  BY LaunchType DEF SerialInv, TypeInv
<1>3. Capturing' \subseteq {t}
  BY <1>1, <1>2 DEF Capturing, TypeOK
<1>4. pc'[h] = "starting" /\ old'[h] = t
  BY <1>1, <1>2 DEF TypeOK
<1>5. \A g \in Handlers : g = h
  BY DEF Serial
<1> QED BY <1>1, <1>2, <1>3, <1>4, <1>5 DEF SerialInv, NoOrphan, Attended, Reach

\* So is a stop of the thread in the slot that is to be joined.
LEMMA StopAndJoinSafe ==
    ASSUME Serial, SerialInv, Alive(slot), NEW h \in Handlers,
           NEW next \in {"joining", "reselecting"}, StopAndJoin(h, next),
           wanted' \in BOOLEAN
    PROVE  SerialInv'
<1>1. slot # None /\ phase[slot] = "running"
  BY DEF Alive
<1>2. TypeInv' /\ TypeOK
  BY <1>1, StopAndJoinType DEF SerialInv, TypeInv
<1>3. /\ stopped' = stopped \cup {slot} /\ slot' = slot /\ phase' = phase
      /\ pc' = [pc EXCEPT ![h] = next]
  BY DEF StopAndJoin
<1>4. pc'[h] = next
  BY <1>2, <1>3 DEF TypeOK
<1>5. \A g \in Handlers : g = h
  BY DEF Serial
<1>6. NoOrphan'
  BY <1>3 DEF SerialInv, NoOrphan, Capturing
<1>7. Attended'
  BY <1>1, <1>3 DEF Attended
<1>8. \A g \in Handlers : Reach(g)'
  BY <1>3, <1>4, <1>5 DEF Reach
<1> QED BY <1>2, <1>6, <1>7, <1>8 DEF SerialInv

\* Enter finds a thread that runs, or launches when nothing captures.
LEMMA EnterSafe ==
    ASSUME Serial, SerialInv, NEW h \in Handlers,
           pc[h] = "idle" \/ pc[h] = "reselecting", Enter(h), wanted' \in BOOLEAN
    PROVE  SerialInv'
<1>1. CASE Alive(slot)
  BY <1>1, StopAndJoinSafe DEF Enter
<1>2. CASE ~Alive(slot)
  <2>1. ~(slot # None /\ phase[slot] = "starting")
    BY DEF SerialInv, Attended, Serial
  <2>2. slot \notin Threads \/ phase[slot] \notin {"starting", "running"}
    BY <1>2, <2>1, NoThreadAssumption DEF Alive
  <2>3. Capturing = {}
    BY <2>2 DEF SerialInv, NoOrphan, Capturing
  <2> QED BY <1>2, <2>3, LaunchSafe DEF Enter
<1> QED BY <1>1, <1>2

LEMMA SerialStep == ASSUME Serial PROVE SerialInv /\ [Next]_vars => SerialInv'
<1> SUFFICES ASSUME SerialInv, [Next]_vars PROVE SerialInv'
  OBVIOUS
<1>0. TypeInv /\ TypeInv' /\ TypeOK
  BY TypeStep DEF SerialInv, TypeInv
<1>1. ASSUME NEW h \in Handlers, Start(h) PROVE SerialInv'
  BY <1>1, EnterSafe DEF Start
<1>2. ASSUME NEW h \in Handlers, SelectAudio(h) PROVE SerialInv'
  BY <1>2, StopAndJoinSafe DEF SelectAudio
<1>3. ASSUME NEW h \in Handlers, Joined(h) PROVE SerialInv'
  <2>1. slot \in stopped \cup {None}
    BY <1>3 DEF Joined, SerialInv, Reach
  <2>2. Capturing = {}
    BY <2>1, NoThreadAssumption DEF SerialInv, NoOrphan, Capturing
  <2> QED BY <1>0, <1>3, <2>2, LaunchSafe DEF Joined, TypeOK
<1>4. ASSUME NEW h \in Handlers, Reselected(h) PROVE SerialInv'
  BY <1>0, <1>4, EnterSafe DEF Reselected, TypeOK
<1>5. ASSUME NEW h \in Handlers, Started(h) PROVE SerialInv'
  <2>1. /\ pc[h] = "starting" /\ phase[old[h]] # "starting"
        /\ pc' = [pc EXCEPT ![h] = "idle"]
        /\ slot' = slot /\ phase' = phase /\ stopped' = stopped
    BY <1>5 DEF Started
  <2>2. slot \in {old[h], None}
    BY <2>1 DEF SerialInv, Reach
  <2>3. \A g \in Handlers : g = h
    BY DEF Serial
  <2>4. pc'[h] = "idle"
    BY <1>0, <2>1 DEF TypeOK
  <2>5. NoOrphan'
    BY <2>1 DEF SerialInv, NoOrphan, Capturing
  <2>6. Attended'
    BY <2>1, <2>2 DEF Attended
  <2>7. \A g \in Handlers : Reach(g)'
    BY <2>3, <2>4 DEF Reach
  <2> QED BY <1>0, <2>5, <2>6, <2>7 DEF SerialInv
<1>6. CASE Stop
  <2>1. /\ stopped' = stopped \cup {slot} /\ slot' = None
        /\ phase' = phase /\ pc' = pc /\ old' = old
    BY <1>6 DEF Stop
  <2> QED BY <1>0, <2>1 DEF SerialInv, NoOrphan, Capturing, Attended, Reach
<1>7. ASSUME NEW t \in Threads, ThreadBegins(t) PROVE SerialInv'
  <2>1. /\ phase[t] = "starting" /\ phase' = [phase EXCEPT ![t] = "running"]
        /\ slot' = slot /\ stopped' = stopped /\ pc' = pc /\ old' = old
    BY <1>7 DEF ThreadBegins
  <2>2. NoOrphan'
    BY <1>0, <2>1 DEF SerialInv, NoOrphan, Capturing, TypeOK
  <2>3. Attended'
    BY <1>0, <2>1 DEF SerialInv, Attended, TypeOK
  <2> QED BY <1>0, <2>1, <2>2, <2>3 DEF SerialInv, Reach
<1>8. ASSUME NEW t \in Threads, ThreadEnds(t) PROVE SerialInv'
  <2>1. /\ phase' = [phase EXCEPT ![t] = "ended"]
        /\ slot' = slot /\ stopped' = stopped /\ pc' = pc /\ old' = old
    BY <1>8 DEF ThreadEnds
  <2>2. NoOrphan'
    BY <1>0, <2>1 DEF SerialInv, NoOrphan, Capturing, TypeOK
  <2>3. Attended'
    BY <1>0, <2>1 DEF SerialInv, Attended, TypeOK
  <2> QED BY <1>0, <2>1, <2>2, <2>3 DEF SerialInv, Reach
<1>9. CASE UNCHANGED vars
  BY <1>0, <1>9 DEF vars, SerialInv, NoOrphan, Capturing, Attended, Reach
<1> QED BY <1>1, <1>2, <1>3, <1>4, <1>5, <1>6, <1>7, <1>8, <1>9
        DEF Next, Exhausted

\* While handlers do not overlap, leave_room can stop every thread that
\* captures (events.py:114-116).
THEOREM NoThreadOutOfReach == Serial => (Spec => []NoOrphan)
<1> SUFFICES ASSUME Serial PROVE Spec => []NoOrphan
  OBVIOUS
<1>1. SerialInv => NoOrphan
  BY DEF SerialInv
<1> QED BY <1>1, SerialInit, SerialStep, PTL DEF Spec

-----------------------------------------------------------------------------
(* What handlers wait for, however they overlap: HandlersReturn without its *)
(* fairness                                                                 *)

\* A join waits for a thread that runs or ran, and was told to stop; a start
\* waits for a thread that was created, which only this handler created.
WaitsFor(h) ==
    /\ pc[h] \in {"joining", "reselecting"} =>
          old[h] \in stopped /\ phase[old[h]] \in {"running", "ended"}
    /\ pc[h] = "starting" => old[h] \in Threads /\ phase[old[h]] # "unused"

\* A thread that does not run yet has a handler that waits until it does.
Awaited ==
    \A t \in Threads :
        phase[t] = "starting" => \E h \in Handlers : pc[h] = "starting" /\ old[h] = t

WaitInv == TypeInv /\ Awaited /\ \A h \in Handlers : WaitsFor(h)

LEMMA WaitLaunch ==
    ASSUME WaitInv, NEW h \in Handlers, pc[h] # "starting", Launch(h),
           wanted' \in BOOLEAN
    PROVE  WaitInv'
<1>1. PICK t \in Threads :
          /\ phase[t] = "unused"
          /\ slot' = t
          /\ phase' = [phase EXCEPT ![t] = "starting"]
          /\ pc' = [pc EXCEPT ![h] = "starting"]
          /\ old' = [old EXCEPT ![h] = t]
          /\ UNCHANGED stopped
  BY DEF Launch
<1>2. TypeInv' /\ TypeOK
  BY LaunchType DEF WaitInv, TypeInv
<1>3. /\ pc'[h] = "starting" /\ old'[h] = t
      /\ \A g \in Handlers \ {h} : pc'[g] = pc[g] /\ old'[g] = old[g]
  BY <1>1, <1>2 DEF TypeOK
<1>4. phase'[t] = "starting" /\ \A u \in Threads \ {t} : phase'[u] = phase[u]
  BY <1>1, <1>2 DEF TypeOK
<1>5. \A g \in Handlers : WaitsFor(g)'
  <2> SUFFICES ASSUME NEW g \in Handlers PROVE WaitsFor(g)'
    OBVIOUS
  <2>1. CASE g = h
    BY <1>3, <1>4, <2>1 DEF WaitsFor
  <2>2. CASE g # h
    <3>1. WaitsFor(g) /\ stopped \subseteq Threads /\ stopped' = stopped
      BY <1>1, <1>2 DEF WaitInv, TypeOK
    <3> QED BY <1>1, <1>3, <1>4, <2>2, <3>1 DEF WaitsFor
  <2> QED BY <2>1, <2>2
<1>6. Awaited'
  BY <1>3, <1>4 DEF WaitInv, Awaited
<1> QED BY <1>2, <1>5, <1>6 DEF WaitInv

LEMMA WaitStopAndJoin ==
    ASSUME WaitInv, Alive(slot), NEW h \in Handlers, pc[h] # "starting",
           NEW next \in {"joining", "reselecting"}, StopAndJoin(h, next),
           wanted' \in BOOLEAN
    PROVE  WaitInv'
<1>1. slot # None /\ phase[slot] = "running"
  BY DEF Alive
<1>2. TypeInv' /\ TypeOK
  BY <1>1, StopAndJoinType DEF WaitInv, TypeInv
<1>3. /\ stopped' = stopped \cup {slot} /\ phase' = phase
      /\ pc' = [pc EXCEPT ![h] = next] /\ old' = [old EXCEPT ![h] = slot]
  BY DEF StopAndJoin
<1>4. /\ pc'[h] = next /\ old'[h] = slot
      /\ \A g \in Handlers \ {h} : pc'[g] = pc[g] /\ old'[g] = old[g]
  BY <1>2, <1>3 DEF TypeOK
<1>5. \A g \in Handlers : WaitsFor(g)'
  BY <1>1, <1>3, <1>4 DEF WaitInv, WaitsFor
<1>6. Awaited'
  BY <1>3, <1>4 DEF WaitInv, Awaited
<1> QED BY <1>2, <1>5, <1>6 DEF WaitInv

LEMMA WaitEnter ==
    ASSUME WaitInv, NEW h \in Handlers, pc[h] # "starting", Enter(h),
           wanted' \in BOOLEAN
    PROVE  WaitInv'
BY WaitLaunch, WaitStopAndJoin DEF Enter

LEMMA WaitStep == WaitInv /\ [Next]_vars => WaitInv'
<1> SUFFICES ASSUME WaitInv, [Next]_vars PROVE WaitInv'
  OBVIOUS
<1>0. TypeInv /\ TypeInv' /\ TypeOK
  BY TypeStep DEF WaitInv, TypeInv
<1>1. ASSUME NEW h \in Handlers, Start(h) PROVE WaitInv'
  BY <1>1, WaitEnter DEF Start
<1>2. ASSUME NEW h \in Handlers, SelectAudio(h) PROVE WaitInv'
  BY <1>2, WaitStopAndJoin DEF SelectAudio
<1>3. ASSUME NEW h \in Handlers, Joined(h) PROVE WaitInv'
  BY <1>0, <1>3, WaitLaunch DEF Joined, TypeOK
<1>4. ASSUME NEW h \in Handlers, Reselected(h) PROVE WaitInv'
  BY <1>0, <1>4, WaitEnter DEF Reselected, TypeOK
<1>5. ASSUME NEW h \in Handlers, Started(h) PROVE WaitInv'
  <2>1. /\ phase[old[h]] # "starting" /\ phase' = phase /\ stopped' = stopped
        /\ pc' = [pc EXCEPT ![h] = "idle"] /\ old' = [old EXCEPT ![h] = None]
    BY <1>5 DEF Started
  <2>2. /\ pc'[h] = "idle"
        /\ \A g \in Handlers \ {h} : pc'[g] = pc[g] /\ old'[g] = old[g]
    BY <1>0, <2>1 DEF TypeOK
  <2>3. \A g \in Handlers : WaitsFor(g)'
    BY <2>1, <2>2 DEF WaitInv, WaitsFor
  <2>4. Awaited'
    BY <2>1, <2>2 DEF WaitInv, Awaited
  <2> QED BY <1>0, <2>3, <2>4 DEF WaitInv
<1>6. CASE Stop
  <2>1. stopped \subseteq stopped' /\ UNCHANGED <<phase, pc, old>>
    BY <1>6 DEF Stop
  <2> QED BY <1>0, <2>1 DEF WaitInv, WaitsFor, Awaited
<1>7. ASSUME NEW t \in Threads, ThreadBegins(t) PROVE WaitInv'
  <2>1. /\ phase[t] = "starting" /\ phase' = [phase EXCEPT ![t] = "running"]
        /\ UNCHANGED <<stopped, pc, old>>
    BY <1>7 DEF ThreadBegins
  <2>2. phase'[t] = "running" /\ \A u \in Threads \ {t} : phase'[u] = phase[u]
    BY <1>0, <2>1 DEF TypeOK
  <2>3. \A h \in Handlers : WaitsFor(h)'
    BY <1>0, <2>1, <2>2 DEF WaitInv, WaitsFor, TypeOK
  <2>4. Awaited'
    BY <2>1, <2>2 DEF WaitInv, Awaited
  <2> QED BY <1>0, <2>3, <2>4 DEF WaitInv
<1>8. ASSUME NEW t \in Threads, ThreadEnds(t) PROVE WaitInv'
  <2>1. /\ phase' = [phase EXCEPT ![t] = "ended"] /\ UNCHANGED <<stopped, pc, old>>
    BY <1>8 DEF ThreadEnds
  <2>2. phase'[t] = "ended" /\ \A u \in Threads \ {t} : phase'[u] = phase[u]
    BY <1>0, <2>1 DEF TypeOK
  <2>3. \A h \in Handlers : WaitsFor(h)'
    BY <1>0, <2>1, <2>2 DEF WaitInv, WaitsFor, TypeOK
  <2>4. Awaited'
    BY <2>1, <2>2 DEF WaitInv, Awaited
  <2> QED BY <1>0, <2>3, <2>4 DEF WaitInv
<1>9. CASE UNCHANGED vars
  BY <1>0, <1>9 DEF vars, WaitInv, WaitsFor, Awaited
<1> QED BY <1>1, <1>2, <1>3, <1>4, <1>5, <1>6, <1>7, <1>8, <1>9
        DEF Next, Exhausted

\* However many handlers overlap, none waits for a thread that nobody would
\* wake: a join waits for a thread that has begun and was told to stop, a start
\* for one that was created, and a thread that does not run yet is waited for
\* (server_comms.py:148-169, video.py:153-156).
THEOREM WaitsAreFounded ==
    Spec => [](Awaited /\ \A h \in Handlers : WaitsFor(h))
<1>1. Init => WaitInv
  BY InitType DEF Init, WaitInv, WaitsFor, Awaited
<1>2. WaitInv => Awaited /\ \A h \in Handlers : WaitsFor(h)
  BY DEF WaitInv
<1> QED BY <1>1, <1>2, WaitStep, PTL DEF Spec

=============================================================================
