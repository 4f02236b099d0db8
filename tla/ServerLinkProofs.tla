--------------------------- MODULE ServerLinkProofs ---------------------------
(***************************************************************************)
(* What browsers show of the server, for any number of browsers and any    *)
(* failure threshold.                                                      *)
(*                                                                         *)
(* A browser that was told "connected" must hear of the loss, and only     *)
(* those with a connection hear anything: so no browser is ready without a *)
(* connection, and a handler that may still answer to one has it.          *)
(***************************************************************************)
EXTENDS ServerLink, TLAPS

\* A handler that is live answers to a connection that exists.
LiveHasTab == \A k \in tasks : k.live => tab[k.tab].open

LinkInv == TypeOK /\ LiveHasTab /\ ReadyOnlyWhenAlive

-----------------------------------------------------------------------------
LEMMA ConnectedTyped ==
    ASSUME NEW t \in Tab
    PROVE  OnConnected(t) \in Tab /\ OnConnected(t).open = t.open
<1> DEFINE n == IF Registers(t) THEN t.asked + 1 ELSE t.asked
<1>1. n \in Nat
    BY DEF Tab
<1>2. OnConnected(t) = [t EXCEPT !.ready = TRUE, !.emitted = TRUE, !.asked = n]
    BY DEF OnConnected
<1>3. TRUE \in BOOLEAN
    OBVIOUS
<1> HIDE DEF n
<1> QED  BY <1>1, <1>2, <1>3, Zenon DEF Tab

\* Telling open browsers that the server is there keeps the tabs well-typed and
\* opens none.
LEMMA ToldConnected ==
    ASSUME TypeOK, NEW bs \in SUBSET Browsers, TellConnected(bs)
    PROVE  /\ tab' \in [Browsers -> Tab]
           /\ \A b \in Browsers : /\ tab'[b].open = tab[b].open
                                  /\ tab'[b].ready => tab[b].ready \/ b \in bs
<1> SUFFICES ASSUME NEW b \in Browsers
             PROVE  /\ tab'[b] \in Tab /\ tab'[b].open = tab[b].open
                    /\ tab'[b].ready => tab[b].ready \/ b \in bs
    BY DEF TellConnected
<1>1. tab[b] \in Tab
    BY DEF TypeOK
<1>2. tab'[b] = IF b \in bs THEN OnConnected(tab[b]) ELSE tab[b]
    BY DEF TellConnected
<1> QED  BY <1>1, <1>2, ConnectedTyped

\* Telling them that it is lost makes them not ready.
LEMMA ToldError ==
    ASSUME TypeOK, NEW bs \in SUBSET Browsers, TellError(bs)
    PROVE  /\ tab' \in [Browsers -> Tab]
           /\ \A b \in Browsers : /\ tab'[b].open = tab[b].open
                                  /\ tab'[b].ready => tab[b].ready /\ b \notin bs
BY DEF TypeOK, TellError, OnError, Tab

LEMMA NewTaskTyped ==
    ASSUME NEW op \in {"configure", "create"}, NEW b \in Browsers
    PROVE  NewTask(op, b) \in Task /\ NewTask(op, b).tab = b
<1>1. TRUE \in BOOLEAN
    OBVIOUS
<1> QED
    BY <1>1, Zenon DEF NewTask, Task

LEMMA AskedTasks ==
    ASSUME TypeOK, NEW bs \in SUBSET Browsers
    PROVE  Asks(bs) \subseteq Task /\ \A k \in Asks(bs) : k.tab \in bs
BY NewTaskTyped DEF Asks

LEMMA Recipients ==
    ASSUME TypeOK, NEW k \in tasks
    PROVE  To(k) \subseteq Browsers /\ (LiveHasTab => \A b \in To(k) : tab[b].open)
BY DEF To, TypeOK, Task, LiveHasTab

LEMMA OneMoreInBounds == \A n \in 0..MaxFails : OneMore(n) \in 0..MaxFails
BY MaxFailsAssumption DEF OneMore

-----------------------------------------------------------------------------
\* Browsers that come and go.
LEMMA BrowserPreserves ==
    ASSUME LinkInv, NEW b \in Browsers,
           BrowserConnects(b) \/ BrowserLeaves(b) \/ JoinRefused(b)
    PROVE  LinkInv'
<1>1. CASE BrowserConnects(b)
    <2> DEFINE fresh == [tab[b] EXCEPT !.open = TRUE, !.emitted = FALSE, !.asked = 0]
    <2>1. fresh \in Tab /\ fresh.open /\ (fresh.ready => tab[b].ready)
        BY DEF LinkInv, TypeOK, Tab
    <2>2. /\ tab' = [tab EXCEPT ![b] = IF alive THEN OnConnected(fresh) ELSE fresh]
          /\ alive' = alive
          /\ UNCHANGED <<net, configured, loop, fails, userId>>
        BY <1>1 DEF BrowserConnects
    <2>3. OnConnected(fresh) \in Tab /\ OnConnected(fresh).open
        BY <2>1, ConnectedTyped
    <2>4. tab' \in [Browsers -> Tab] /\ tab'[b].open
          /\ \A c \in Browsers \ {b} : tab'[c] = tab[c]
        BY <2>1, <2>2, <2>3 DEF LinkInv, TypeOK
    <2>5. tasks' \subseteq Task /\ \A k \in tasks' \ tasks : k.tab = b
        BY <1>1, NewTaskTyped DEF BrowserConnects, LinkInv, TypeOK
    <2>6. TypeOK'
        BY <2>2, <2>4, <2>5 DEF LinkInv, TypeOK
    <2>7. LiveHasTab'
        BY <2>4, <2>5 DEF LinkInv, TypeOK, LiveHasTab, Task
    <2>8. ReadyOnlyWhenAlive'
        <3>1. ~alive => tab'[b] = fresh
            BY <2>2 DEF LinkInv, TypeOK
        <3>2. tab'[b].ready => alive
            BY <3>1, <2>1 DEF LinkInv, ReadyOnlyWhenAlive
        <3> QED  BY <2>2, <2>4, <3>2 DEF LinkInv, ReadyOnlyWhenAlive
    <2> QED  BY <2>6, <2>7, <2>8 DEF LinkInv
<1>2. CASE BrowserLeaves(b)
    <2>1. /\ tab' = [tab EXCEPT ![b].open = FALSE, ![b].ready = FALSE]
          /\ tasks' = {IF k.tab = b THEN [k EXCEPT !.live = FALSE] ELSE k : k \in tasks}
          /\ UNCHANGED <<net, configured, alive, loop, fails, userId>>
        BY <1>2 DEF BrowserLeaves
    <2>2. /\ tab' \in [Browsers -> Tab] /\ ~tab'[b].ready
          /\ \A c \in Browsers \ {b} : tab'[c] = tab[c]
        BY <2>1 DEF LinkInv, TypeOK, Tab
    <2>3. tasks' \subseteq Task
        <3> SUFFICES ASSUME NEW k \in tasks
                     PROVE  [k EXCEPT !.live = FALSE] \in Task /\ k \in Task
            BY <2>1
        <3>1. k \in Task
            BY DEF LinkInv, TypeOK
        <3> QED
            BY <3>1, Zenon DEF Task
    <2>4. \A k \in tasks' : k.live => k \in tasks /\ k.tab # b
        BY <2>1 DEF LinkInv, TypeOK, Task
    <2>5. TypeOK'
        BY <2>1, <2>2, <2>3 DEF LinkInv, TypeOK
    <2>6. LiveHasTab'
        BY <2>2, <2>3, <2>4 DEF LinkInv, LiveHasTab, Task
    <2>7. ReadyOnlyWhenAlive'
        BY <2>1, <2>2 DEF LinkInv, ReadyOnlyWhenAlive
    <2> QED  BY <2>5, <2>6, <2>7 DEF LinkInv
<1>3. CASE JoinRefused(b)
    <2>1. TellError({b}) /\ UNCHANGED <<net, configured, alive, loop, fails, userId, tasks>>
        BY <1>3 DEF JoinRefused
    <2> QED
        BY <2>1, ToldError DEF LinkInv, TypeOK, LiveHasTab, ReadyOnlyWhenAlive, Task
<1> QED  BY <1>1, <1>2, <1>3

\* Handlers that end.
LEMMA TaskPreserves ==
    ASSUME LinkInv, NEW k \in tasks,
           ConfigureOk(k) \/ ConfigureFails(k) \/ CreateOk(k) \/ CreateFails(k)
    PROVE  LinkInv'
<1> DEFINE bs == To(k)
<1>0. bs \subseteq Browsers /\ \A b \in bs : tab[b].open
    BY Recipients DEF LinkInv
<1>1. CASE ConfigureOk(k)
    <2>1. /\ TellConnected(bs)
          /\ alive' = TRUE
          /\ configured' = TRUE
          /\ loop' \in {loop, "asleep"}
          /\ tasks' = (tasks \ {k}) \cup Asks(bs)
          /\ UNCHANGED <<net, fails, userId>>
        BY <1>1 DEF ConfigureOk
    <2>2. /\ tab' \in [Browsers -> Tab]
          /\ \A b \in Browsers : /\ tab'[b].open = tab[b].open
                                 /\ tab'[b].ready => tab[b].ready \/ b \in bs
        BY <2>1, <1>0, ToldConnected DEF LinkInv
    <2>3. Asks(bs) \subseteq Task /\ \A j \in Asks(bs) : j.tab \in bs
        BY <1>0, AskedTasks DEF LinkInv
    <2>4. TypeOK'
        BY <2>1, <2>2, <2>3 DEF LinkInv, TypeOK
    <2>5. LiveHasTab'
        BY <2>1, <2>2, <2>3, <1>0 DEF LinkInv, TypeOK, LiveHasTab, Task
    <2>6. ReadyOnlyWhenAlive'
        BY <2>1, <2>2, <1>0 DEF LinkInv, ReadyOnlyWhenAlive
    <2> QED  BY <2>4, <2>5, <2>6 DEF LinkInv
<1>2. CASE ConfigureFails(k) \/ CreateFails(k)
    <2>1. /\ TellError(bs)
          /\ tasks' = tasks \ {k}
          /\ configured' \in {configured, TRUE}
          /\ UNCHANGED <<net, alive, loop, fails, userId>>
        BY <1>2 DEF ConfigureFails, CreateFails
    <2>2. /\ tab' \in [Browsers -> Tab]
          /\ \A b \in Browsers : /\ tab'[b].open = tab[b].open
                                 /\ tab'[b].ready => tab[b].ready
        BY <2>1, <1>0, ToldError DEF LinkInv
    <2> QED
        BY <2>1, <2>2 DEF LinkInv, TypeOK, LiveHasTab, ReadyOnlyWhenAlive, Task
<1>3. CASE CreateOk(k)
    BY <1>3 DEF CreateOk, LinkInv, TypeOK, LiveHasTab, ReadyOnlyWhenAlive, Task
<1> QED  BY <1>1, <1>2, <1>3

\* Probes of the health check.
LEMMA ProbePreserves ==
    ASSUME LinkInv, ProbeStarts \/ ProbeOk \/ ProbeFails
    PROVE  LinkInv'
<1>0. Open \subseteq Browsers /\ \A b \in Browsers : b \in Open <=> tab[b].open
    BY DEF Open
<1>1. CASE ProbeStarts
    BY <1>1 DEF ProbeStarts, LinkInv, TypeOK, LiveHasTab, ReadyOnlyWhenAlive, Task
<1>2. CASE ProbeOk
    <2>1. /\ loop' = "asleep" /\ fails' = 0
          /\ UNCHANGED <<net, configured, userId>>
        BY <1>2 DEF ProbeOk, FailsAfterSuccess
    <2>2. CASE alive
        <3>1. UNCHANGED <<alive, tab, tasks>>
            BY <1>2, <2>2 DEF ProbeOk, Back
        <3> QED
            BY <2>1, <3>1, MaxFailsAssumption
            DEF LinkInv, TypeOK, LiveHasTab, ReadyOnlyWhenAlive, Task
    <2>3. CASE ~alive
        <3>1. alive' = TRUE /\ TellConnected(Open) /\ tasks' = tasks \cup Asks(Open)
            BY <1>2, <2>3 DEF ProbeOk, Back
        <3>2. /\ tab' \in [Browsers -> Tab]
              /\ \A b \in Browsers : /\ tab'[b].open = tab[b].open
                                     /\ tab'[b].ready => tab[b].ready \/ b \in Open
            BY <3>1, <1>0, ToldConnected DEF LinkInv
        <3>3. Asks(Open) \subseteq Task /\ \A j \in Asks(Open) : j.tab \in Open
            BY <1>0, AskedTasks DEF LinkInv
        <3>4. TypeOK'
            BY <2>1, <3>1, <3>2, <3>3, MaxFailsAssumption DEF LinkInv, TypeOK
        <3>5. LiveHasTab'
            BY <3>1, <3>2, <3>3, <1>0 DEF LinkInv, TypeOK, LiveHasTab, Task
        <3>6. ReadyOnlyWhenAlive'
            BY <3>1, <3>2, <1>0 DEF LinkInv, ReadyOnlyWhenAlive
        <3> QED  BY <3>4, <3>5, <3>6 DEF LinkInv
    <2> QED  BY <2>2, <2>3
<1>3. CASE ProbeFails
    <2>1. /\ loop' = "asleep" /\ fails' = OneMore(fails)
          /\ UNCHANGED <<net, configured, userId, tasks>>
        BY <1>3 DEF ProbeFails
    <2>2. fails' \in 0..MaxFails
        BY <2>1, OneMoreInBounds DEF LinkInv, TypeOK
    <2>3. CASE IsLost(OneMore(fails))
        <3>1. alive' = FALSE /\ TellError(Open)
            BY <1>3, <2>3 DEF ProbeFails, Lost
        <3>2. /\ tab' \in [Browsers -> Tab]
              /\ \A b \in Browsers : /\ tab'[b].open = tab[b].open
                                     /\ tab'[b].ready => tab[b].ready /\ b \notin Open
            BY <3>1, <1>0, ToldError DEF LinkInv
        <3>3. \A b \in Browsers : ~tab'[b].ready
            BY <3>2, <1>0 DEF LinkInv, ReadyOnlyWhenAlive
        <3> QED
            BY <2>1, <2>2, <3>1, <3>2, <3>3
            DEF LinkInv, TypeOK, LiveHasTab, ReadyOnlyWhenAlive, Task
    <2>4. CASE ~IsLost(OneMore(fails))
        <3>1. UNCHANGED <<alive, tab>>
            BY <1>3, <2>4 DEF ProbeFails
        <3> QED
            BY <2>1, <2>2, <3>1
            DEF LinkInv, TypeOK, LiveHasTab, ReadyOnlyWhenAlive, Task
    <2> QED  BY <2>3, <2>4
<1> QED  BY <1>1, <1>2, <1>3

LEMMA LinkInvariant == Spec => []LinkInv
<1>1. Init => LinkInv
    <2> SUFFICES ASSUME Init PROVE LinkInv
        OBVIOUS
    <2>1. NewTab \in Tab /\ ~NewTab.ready
        BY Zenon DEF NewTab, Tab
    <2>2. \A b \in Browsers : tab[b] = NewTab
        BY DEF Init
    <2>3. fails \in 0..MaxFails
        BY MaxFailsAssumption DEF Init
    <2>4. configured \in BOOLEAN /\ alive \in BOOLEAN
        BY Zenon DEF Init
    <2>5. TypeOK
        BY <2>1, <2>3, <2>4 DEF Init, TypeOK
    <2> QED
        BY <2>1, <2>2, <2>5 DEF Init, LinkInv, LiveHasTab, ReadyOnlyWhenAlive
<1>2. LinkInv /\ [Next]_vars => LinkInv'
    <2> SUFFICES ASSUME LinkInv, [Next]_vars PROVE LinkInv'
        OBVIOUS
    <2>1. CASE \E n \in {"up", "flaky", "down"} : NetChanges(n)
        BY <2>1 DEF NetChanges, LinkInv, TypeOK, LiveHasTab, ReadyOnlyWhenAlive, Task
    <2>2. CASE \E b \in Browsers :
                  BrowserConnects(b) \/ BrowserLeaves(b) \/ JoinRefused(b)
        BY <2>2, BrowserPreserves
    <2>3. CASE \E k \in tasks : \/ ConfigureOk(k) \/ ConfigureFails(k)
                                \/ CreateOk(k) \/ CreateFails(k)
        BY <2>3, TaskPreserves
    <2>4. CASE ProbeStarts \/ ProbeOk \/ ProbeFails
        BY <2>4, ProbePreserves
    <2>5. CASE Shutdown
        <3>1. /\ tab' \in [Browsers -> Tab]
              /\ \A b \in Browsers : ~tab'[b].ready
            BY <2>5 DEF Shutdown, LinkInv, TypeOK, Tab
        <3>2. configured' \in BOOLEAN /\ alive' \in BOOLEAN
            BY <2>5, Zenon DEF Shutdown
        <3>3. fails' \in 0..MaxFails
            <4>1. fails' = 0
                BY <2>5 DEF Shutdown
            <4> QED
                BY <4>1, MaxFailsAssumption
        <3>4. TypeOK'
            BY <2>5, <3>1, <3>2, <3>3 DEF Shutdown, LinkInv, TypeOK
        <3> QED
            BY <2>5, <3>1, <3>4 DEF Shutdown, LinkInv, LiveHasTab, ReadyOnlyWhenAlive
    <2>6. CASE UNCHANGED vars
        BY <2>6 DEF vars, LinkInv, TypeOK, LiveHasTab, ReadyOnlyWhenAlive
    <2> QED
        BY <2>1, <2>2, <2>3, <2>4, <2>5, <2>6 DEF Next
<1> QED
    BY <1>1, <1>2, PTL DEF Spec

-----------------------------------------------------------------------------
\* Every reachable state of the link is well-typed.
THEOREM TypeCorrect == Spec => []TypeOK
BY LinkInvariant, PTL DEF LinkInv

\* No browser shows a server that the middleware has declared lost, however
\* many browsers there are and whatever they do (server_comms.py:341-349).
THEOREM NobodyShowsALostServer == Spec => []ReadyOnlyWhenAlive
BY LinkInvariant, PTL DEF LinkInv

\* What the page notes about its connection is what it did on it.
Noted(t) == t.asked = IF t.emitted THEN 1 ELSE 0

AskInv == TypeOK /\ \A b \in Browsers : Noted(tab[b])

LEMMA ConnectedNoted ==
    ASSUME NEW t \in Tab, Noted(t)
    PROVE  Noted(OnConnected(t))
BY DEF Tab, Noted, OnConnected, Registers

LEMMA ErrorNoted ==
    ASSUME NEW t \in Tab, Noted(t)
    PROVE  Noted(OnError(t))
BY DEF Tab, Noted, OnError

\* A connection of a browser asks for one id, however often it is told of a loss
\* and of a return, and whoever tells it (app.js:98-117): what the page notes at
\* the first server-connected keeps it from asking at the others.
THEOREM OneIdPerConnection == Spec => []AsksOnce
<1>1. Init => \A b \in Browsers : Noted(tab[b])
    <2>1. NewTab.asked = 0 /\ ~NewTab.emitted
        BY Zenon DEF NewTab
    <2> QED
        BY <2>1 DEF Init, Noted
<1>2. ASSUME TypeOK, \A b \in Browsers : Noted(tab[b]), [Next]_vars, NEW b \in Browsers
      PROVE  Noted(tab'[b])
    <2>0. tab[b] \in Tab /\ Noted(tab[b])
        BY <1>2 DEF TypeOK
    <2>1. ASSUME NEW bs, TellConnected(bs) PROVE Noted(tab'[b])
        <3>1. tab'[b] \in {tab[b], OnConnected(tab[b])}
            BY <2>1 DEF TellConnected
        <3> QED
            BY <2>0, <3>1, ConnectedNoted
    <2>2. ASSUME NEW bs, TellError(bs) PROVE Noted(tab'[b])
        <3>1. tab'[b] \in {tab[b], OnError(tab[b])}
            BY <2>2 DEF TellError
        <3> QED
            BY <2>0, <3>1, ErrorNoted
    <2>3. ASSUME NEW c \in Browsers, BrowserConnects(c) PROVE Noted(tab'[b])
        <3> DEFINE fresh == [tab[c] EXCEPT !.open = TRUE, !.emitted = FALSE, !.asked = 0]
        <3>1. fresh \in Tab /\ Noted(fresh)
            BY <1>2 DEF TypeOK, Tab, Noted
        <3>2. tab' = [tab EXCEPT ![c] = IF alive THEN OnConnected(fresh) ELSE fresh]
            BY <2>3 DEF BrowserConnects
        <3>3. b # c => tab'[b] = tab[b]
            BY <3>2, <1>2 DEF TypeOK
        <3>4. b = c => tab'[b] \in {fresh, OnConnected(fresh)}
            BY <3>2, <1>2 DEF TypeOK
        <3> QED
            BY <2>0, <3>1, <3>3, <3>4, ConnectedNoted
    <2>4. CASE \E c \in Browsers : BrowserLeaves(c)
        BY <2>0, <2>4, <1>2 DEF BrowserLeaves, TypeOK, Tab, Noted
    <2>5. CASE Shutdown
        BY <2>0, <2>5, <1>2 DEF Shutdown, TypeOK, Tab, Noted
    <2>6. CASE UNCHANGED tab
        BY <2>0, <2>6
    <2> QED
        BY <1>2, <2>1, <2>2, <2>3, <2>4, <2>5, <2>6
        DEF Next, vars, NetChanges, JoinRefused, ConfigureOk, ConfigureFails, CreateOk,
            CreateFails, ProbeStarts, ProbeOk, Back, ProbeFails, Lost
<1>3. (\A b \in Browsers : Noted(tab[b])) => AsksOnce
    <2> SUFFICES ASSUME NEW b \in Browsers, Noted(tab[b]) PROVE tab[b].asked <= 1
        BY DEF AsksOnce
    <2>1. tab[b].asked = 1 \/ tab[b].asked = 0
        BY Zenon DEF Noted
    <2> QED
        BY <2>1
<1>4. TypeOK /\ AskInv /\ [Next]_vars => \A b \in Browsers : Noted(tab'[b])
    BY <1>2 DEF AskInv
<1>5. TypeOK /\ TypeOK' /\ AskInv /\ [Next]_vars => AskInv'
    BY <1>4 DEF AskInv
<1>6. TypeOK /\ Init => AskInv
    BY <1>1 DEF AskInv
<1>7. AskInv => AsksOnce
    BY <1>3 DEF AskInv
<1> QED
    BY <1>5, <1>6, <1>7, TypeCorrect, PTL DEF Spec

-----------------------------------------------------------------------------
(* How a loss comes to be seen: LossIsSeen without its fairness *)

\* A server that was verified is watched, and only such a one is shown.
Watched == (loop # "off" => configured) /\ (alive => loop # "off")

\* What the health check still has to count before it reports a loss.
Counting == fails' = fails + 1 /\ fails' < Threshold

\* The middleware and every browser know that the server is lost.
LossKnown == ~alive /\ \A b \in Browsers : ~tab[b].ready

\* While the server counts as alive the health check runs, however handlers,
\* probes and restarts overlap: configure_server sets server_alive before it
\* spawns the loop, and the loop never ends by itself (server_comms.py:113-118
\* and 325).
THEOREM AliveIsWatched == Spec => [](alive => loop # "off")
<1>1. Init => Watched
    BY DEF Init, Watched
<1>2. Watched /\ [Next]_vars => Watched'
    <2> SUFFICES ASSUME Watched, [Next]_vars PROVE Watched'
        OBVIOUS
    <2>1. ASSUME NEW k \in tasks, ConfigureOk(k) PROVE Watched'
        BY <2>1 DEF ConfigureOk, Watched
    <2>7. ASSUME NEW k \in tasks, ConfigureFails(k) PROVE Watched'
        BY <2>7 DEF ConfigureFails, Watched
    <2>2. CASE ProbeStarts
        BY <2>2 DEF ProbeStarts, Watched
    <2>3. CASE ProbeOk
        BY <2>3 DEF ProbeOk, Back, Watched
    <2>4. CASE ProbeFails
        BY <2>4 DEF ProbeFails, Lost, Watched
    <2>5. CASE Shutdown
        BY <2>5 DEF Shutdown, Watched
    <2>6. CASE UNCHANGED <<configured, alive, loop>>
        BY <2>6 DEF Watched
    <2> QED
        BY <2>1, <2>2, <2>3, <2>4, <2>5, <2>6, <2>7
        DEF Next, NetChanges, BrowserConnects, BrowserLeaves, JoinRefused,
            CreateOk, CreateFails, vars
<1>3. Watched => (alive => loop # "off")
    BY DEF Watched
<1> QED
    BY <1>1, <1>2, <1>3, PTL DEF Spec

\* A probe that fails leaves the server lost to the middleware and to every
\* browser, or is one of fewer than Threshold failures in a row, whatever
\* verifications came in between: no failure goes uncounted
\* (server_comms.py:347-349).
THEOREM FailuresCount == Spec => [][ProbeFails => Counting \/ LossKnown']_vars
<1>1. LinkInv /\ LinkInv' /\ [Next]_vars => [ProbeFails => Counting \/ LossKnown']_vars
    <2> SUFFICES ASSUME LinkInv, LinkInv', ProbeFails
                 PROVE  Counting \/ LossKnown'
        OBVIOUS
    <2>1. ~alive' => LossKnown'
        BY DEF LinkInv, ReadyOnlyWhenAlive, LossKnown
    <2>2. CASE IsLost(OneMore(fails))
        BY <2>1, <2>2 DEF ProbeFails, Lost
    <2>3. CASE ~IsLost(OneMore(fails))
        <3>1. alive' = alive /\ fails' = OneMore(fails)
            BY <2>3 DEF ProbeFails
        <3>2. CASE alive
            <4>1. fails \in Nat /\ fails <= MaxFails /\ ~(fails' >= Threshold)
                BY <2>3, <3>1, <3>2, MaxFailsAssumption
                DEF IsLost, LinkInv, TypeOK
            <4> QED
                BY <3>1, <4>1, ThresholdAssumption, MaxFailsAssumption
                DEF OneMore, Counting
        <3> QED
            BY <2>1, <3>1, <3>2
    <2> QED
        BY <2>2, <2>3
<1> QED
    BY <1>1, LinkInvariant, PTL DEF Spec

=============================================================================
