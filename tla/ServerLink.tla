------------------------------ MODULE ServerLink ------------------------------
(***************************************************************************)
(* What the middleware and its browsers know of the QKD server: the health *)
(* check, the verification of a server, the registration of a user id and  *)
(* the browser's view of it (middleware/server_comms.py, events.py and     *)
(* website/client/static/app.js), in the mode in which a browser           *)
(* configures the server as soon as it is welcomed (QVC_AUTO_CONNECT).     *)
(*                                                                         *)
(* A handler that waits for the server is a task: it is sent in one step   *)
(* and ends in another, and anything may happen between them.  Events from *)
(* the middleware reach a browser in order and at once; it is the          *)
(* browser's requests that are delayed, as tasks.  Events for a            *)
(* connection that is gone are lost.                                       *)
(***************************************************************************)
EXTENDS Naturals

CONSTANTS
    Browsers,   \* tabs that show the page of this middleware
    Threshold,  \* _HEALTH_FAILURE_THRESHOLD
    MaxFails    \* failures are counted up to here; Threshold is what matters

ASSUME ThresholdAssumption == Threshold \in Nat \ {0}
ASSUME MaxFailsAssumption  == MaxFails \in Nat /\ MaxFails > Threshold

VARIABLES
    net,         \* does the server answer: always, sometimes, never
    configured,  \* state.server_host is set
    alive,       \* state.server_alive
    loop,        \* the health check: not spawned, asleep, or waiting
    fails,       \* consecutive_failures
    userId,      \* state.user_id: none, one the server knows, one it forgot
    tab,         \* the state of each browser
    tasks        \* handlers that wait for the server

vars == <<net, configured, alive, loop, fails, userId, tab, tasks>>

-----------------------------------------------------------------------------
\* middlewareConnected, serverConnected, registrationEmitted; and, as history, how
\* often the browser sent create_user on this connection.
Tab    == [open : BOOLEAN, ready : BOOLEAN, emitted : BOOLEAN, asked : Nat]
NewTab == [open |-> FALSE, ready |-> FALSE, emitted |-> FALSE, asked |-> 0]

\* A handler with the browser it works for.  It is live as long as the
\* connection is the one it was started on.
Task == [op : {"configure", "create"}, tab : Browsers, live : BOOLEAN]
NewTask(op, b) == [op |-> op, tab |-> b, live |-> TRUE]

CanAnswer == net # "down"
CanFail   == net # "up"

Init ==
    /\ net = "up"
    /\ configured = FALSE
    /\ alive = FALSE
    /\ loop = "off"
    /\ fails = 0
    /\ userId = "none"
    /\ tab = [b \in Browsers |-> NewTab]
    /\ tasks = {}

-----------------------------------------------------------------------------
(* The browser's handlers: what an event does to it, and what it sends. *)

\* if (!state.registrationEmitted)
Registers(t) == ~t.emitted

\* Mistake: the browser does not note that it asked.
OnConnectedForgets(t) ==
    [t EXCEPT !.ready = TRUE, !.asked = IF Registers(t) THEN @ + 1 ELSE @]

\* server-connected: ready, and on the first one it asks for an id.
OnConnected(t) ==
    [t EXCEPT !.ready = TRUE, !.emitted = TRUE,
              !.asked = IF Registers(t) THEN @ + 1 ELSE @]
Asks(bs) == {NewTask("create", b) : b \in {c \in bs : Registers(tab[c])}}

OnError(t) == [t EXCEPT !.ready = FALSE]

\* Those that an emit without a room reaches.
Open == {b \in Browsers : tab[b].open}

TellConnected(bs) ==
    tab' = [b \in Browsers |-> IF b \in bs THEN OnConnected(tab[b]) ELSE tab[b]]

TellError(bs) ==
    tab' = [b \in Browsers |-> IF b \in bs THEN OnError(tab[b]) ELSE tab[b]]

\* The browser a task may answer to.
To(k) == IF k.live THEN {k.tab} ELSE {}

-----------------------------------------------------------------------------
\* The server or the network gets worse or better.  A server that stops loses
\* its directory.
NetChanges(n) ==
    /\ n # net
    /\ net' = n
    /\ userId' = IF n = "down" /\ userId = "known" THEN "forgotten" ELSE userId
    /\ UNCHANGED <<configured, alive, loop, fails, tab, tasks>>

\* A browser connects: welcome, and server-connected if the server is alive.
\* It answers welcome with configure_server, and the rest with create_user.
BrowserConnects(b) ==
    LET fresh == [tab[b] EXCEPT !.open = TRUE, !.emitted = FALSE, !.asked = 0]
    IN /\ ~tab[b].open
       /\ NewTask("configure", b) \notin tasks
       /\ tab' = [tab EXCEPT ![b] = IF alive THEN OnConnected(fresh) ELSE fresh]
       /\ tasks' = tasks \cup {NewTask("configure", b)}
                         \cup (IF alive THEN {NewTask("create", b)} ELSE {})
       /\ UNCHANGED <<net, configured, alive, loop, fails, userId>>

\* The connection to the middleware is gone; handlers go on without it.
BrowserLeaves(b) ==
    /\ tab[b].open
    /\ tab' = [tab EXCEPT ![b].open = FALSE, ![b].ready = FALSE]
    /\ tasks' = {IF k.tab = b THEN [k EXCEPT !.live = FALSE] ELSE k : k \in tasks}
    /\ UNCHANGED <<net, configured, alive, loop, fails, userId>>

\* configure_server: the server answered.
ConfigureOk(k) ==
    /\ k.op = "configure"
    /\ CanAnswer
    /\ configured' = TRUE
    /\ alive' = TRUE
    /\ loop' = IF loop = "off" THEN "asleep" ELSE loop
    /\ TellConnected(To(k))
    /\ tasks' = (tasks \ {k}) \cup Asks(To(k))
    /\ UNCHANGED <<net, fails, userId>>

\* configure_server: no answer within 5 seconds, an error, or an answer that is
\* not JSON, which is found out when server_host is set already.
ConfigureFails(k) ==
    /\ k.op = "configure"
    /\ CanFail
    /\ \/ UNCHANGED configured
       \/ CanAnswer /\ configured' = TRUE
    /\ TellError(To(k))
    /\ tasks' = tasks \ {k}
    /\ UNCHANGED <<net, alive, loop, fails, userId>>

\* create_user: the server has one more id for this middleware.  An id it had
\* before stays in the server's directory.
CreateOk(k) ==
    /\ k.op = "create"
    /\ CanAnswer
    /\ userId' = "known"
    /\ tasks' = tasks \ {k}
    /\ UNCHANGED <<net, configured, alive, loop, fails, tab>>

\* create_user: refused (the rate limit), or no answer within 5 seconds.
CreateFails(k) ==
    /\ k.op = "create"
    /\ TellError(To(k))
    /\ tasks' = tasks \ {k}
    /\ UNCHANGED <<net, configured, alive, loop, fails, userId>>

\* join_room reports any refusal as a server-error: a peer that is unknown or
\* busy, the user's own id, an id that the server forgot.
JoinRefused(b) ==
    /\ tab[b].ready
    /\ TellError({b})
    /\ UNCHANGED <<net, configured, alive, loop, fails, userId, tasks>>

-----------------------------------------------------------------------------
(* The health check. *)

\* gevent.sleep(10) is over: GET /admin/status.
ProbeStarts ==
    /\ loop = "asleep"
    /\ loop' = "probing"
    /\ UNCHANGED <<net, configured, alive, fails, userId, tab, tasks>>

\* Mistake: a success takes one failure back.
FailsLessOne == fails - 1

\* consecutive_failures = 0
FailsAfterSuccess == 0

\* Mistake: a server that is back is not announced.
BackSilently == alive' = TRUE /\ UNCHANGED <<tab, tasks>>

\* The server is back: tell every browser.
Back ==
    IF alive THEN UNCHANGED <<alive, tab, tasks>>
    ELSE /\ alive' = TRUE
         /\ TellConnected(Open)
         /\ tasks' = tasks \cup Asks(Open)

ProbeOk ==
    /\ loop = "probing"
    /\ CanAnswer
    /\ loop' = "asleep"
    /\ fails' = FailsAfterSuccess
    /\ Back
    /\ UNCHANGED <<net, configured, userId>>

\* A count that saturates: only its comparison with Threshold matters.
OneMore(n) == IF n < MaxFails THEN n + 1 ELSE n

\* Mistake: the loss is reported at the second failure, not from it on.
IsLostOnce(n) == alive /\ n = Threshold

\* consecutive_failures >= _HEALTH_FAILURE_THRESHOLD and state.server_alive
IsLost(n) == alive /\ n >= Threshold

\* Mistake: a loss is told to the browsers that are not ready.
LostToOthers == alive' = FALSE /\ TellError({b \in Open : ~tab[b].ready})

Lost == alive' = FALSE /\ TellError(Open)

ProbeFails ==
    /\ loop = "probing"
    /\ CanFail
    /\ loop' = "asleep"
    /\ fails' = OneMore(fails)
    /\ IF IsLost(OneMore(fails)) THEN Lost ELSE UNCHANGED <<alive, tab>>
    /\ UNCHANGED <<net, configured, userId, tasks>>

-----------------------------------------------------------------------------
\* The middleware is stopped and started again.  _shutdown tries to remove the
\* user from the server's directory; the browsers lose their connections.
Shutdown ==
    /\ configured' = FALSE
    /\ alive' = FALSE
    /\ loop' = "off"
    /\ fails' = 0
    /\ userId' = "none"
    /\ tab' = [b \in Browsers |-> [tab[b] EXCEPT !.open = FALSE, !.ready = FALSE]]
    /\ tasks' = {}
    /\ UNCHANGED net

Next ==
    \/ \E n \in {"up", "flaky", "down"} : NetChanges(n)
    \/ \E b \in Browsers : BrowserConnects(b) \/ BrowserLeaves(b) \/ JoinRefused(b)
    \/ \E k \in tasks : \/ ConfigureOk(k) \/ ConfigureFails(k)
                        \/ CreateOk(k) \/ CreateFails(k)
    \/ ProbeStarts \/ ProbeOk \/ ProbeFails
    \/ Shutdown

Spec == Init /\ [][Next]_vars

\* The hub wakes the loop up after its sleep, and a probe has a timeout.
Fairness == WF_vars(ProbeStarts) /\ WF_vars(ProbeOk \/ ProbeFails)

FairSpec == Spec /\ Fairness

-----------------------------------------------------------------------------
(* Properties *)

TypeOK ==
    /\ net \in {"up", "flaky", "down"}
    /\ configured \in BOOLEAN
    /\ alive \in BOOLEAN
    /\ loop \in {"off", "asleep", "probing"}
    /\ fails \in 0..MaxFails
    /\ userId \in {"none", "known", "forgotten"}
    /\ tab \in [Browsers -> Tab]
    /\ tasks \subseteq Task

\* No browser shows a server as connected that the middleware declared lost,
\* whichever of them configured it, was open at the loss or came later
\* (server_comms.py:113-116 and 341-349, events.py:29).
ReadyOnlyWhenAlive == \A b \in Browsers : tab[b].ready => tab[b].open /\ alive

\* A connection of a browser asks for one id, whoever tells it that the server
\* is there and however often: its own configure_server, the health check after
\* each loss, or another tab's verification before it came (server_comms.py:115
\* and 341, events.py:30, app.js:110-116).  Each further one would leave a user
\* behind in the directory.
AsksOnce == \A b \in Browsers : tab[b].asked <= 1

\* A server that never answers again is reported: in the end no browser shows
\* it as connected, however it was verified in between (server_comms.py:347).
LossIsSeen ==
    <>[](net = "down") => <>[](~alive /\ \A b \in Browsers : ~tab[b].ready)

\* The server answers, and nobody but browser b verifies it.
LeftTo(b) ==
    net = "up" /\ \A k \in tasks : k.op = "configure" => k.live /\ k.tab = b

\* A browser that is there while the server counts as lost hears that it is back
\* as soon as it answers for good: from the health check, whatever it counted
\* before, or from its own verification (server_comms.py:339-341).  Only
\* another tab's verification, or one of a connection that is gone, may come in
\* between and keep the return to itself (EveryReturnIsSeen).
ReturnIsSeen ==
    \A b \in Browsers :
        tab[b].open /\ ~alive /\ loop # "off"
            ~> tab[b].ready \/ ~tab[b].open \/ ~LeftTo(b)

\* "Emit status changes to all browsers." (server_comms.py:321), whoever finds
\* out that the server is back.  configure_server sets server_alive and tells
\* its own browser only, after which the health check has no change to tell.
EveryReturnIsSeen ==
    \A b \in Browsers :
        tab[b].open /\ ~alive /\ loop # "off"
            ~> tab[b].ready \/ ~tab[b].open \/ net # "up"

=============================================================================
