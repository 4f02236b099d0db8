# Quantum Video Chat in TLA+

TLA+ modules that model the program, TLC configurations that check them on
small instances, and theorems that TLAPS proves for every instance. Paths below
are relative to the repository; `server`, `middleware`, `shared` and `website`
are its top-level directories.

## 1. The system

Two browsers talk to each other through two middlewares and one server.

    browser (app.js) <-Socket.IO-> middleware <-REST, Socket.IO-> server <-> ...

| Part | State it keeps | Operations | Talks to |
|---|---|---|---|
| User directory (`server/utils/user_manager.py`) | id -> endpoint, state, peer | draw an id, add, set state, remove | called by the workflows |
| Peer workflow (`server/peer_manager.py`, `client_notifier.py`) | none of its own; reads the directory, waits, writes it | connect, disconnect | POSTs to the peer's middleware, 8 s timeout |
| REST API (`server/rest_api.py`) | rate limiter, life cycle | create_user, peer_connection, disconnect_peer, remove_user | middleware -> workflow |
| Admin routes (`server/admin_routes.py`) | none | status, users, disconnect, remove, shutdown, eavesdropper | dashboard -> workflow |
| Session rooms (`server/socket_api.py`) | sessions (id -> users), sids (socket -> session, user) | create_session, connect, relay, disconnect | sockets of the middlewares |
| Middleware session (`middleware/server_comms.py`, `events.py`) | user id, server, one Socket.IO client | create_user, join_room, leave_room, connect with retries, `/peer_connection`, `/peer_disconnected` | browser, server |
| Media threads (`middleware/video.py`, `audio.py`) | one slot per medium, a stop event per thread | start, restart, stop, capture | camera, browser, server |
| Health check (`middleware/server_comms.py`) | alive flag, failure count | ping every 10 s | server, browsers |
| Key rotation (`server/utils/av.py`, `shared/av/namespaces.py`) | (index, key), generator, callbacks | rotate, capture and send, receive | the other peer |
| Key generators (`shared/encryption.py`, `shared/bb84/hardware_*`) | last key, file position | generate_key, get_key | rotation |
| BB84 (`shared/bb84/protocol.py`, `physical_layer.py`) | random sources, detector | run_round | generator |
| QBER monitor (`shared/bb84/qber_monitor.py`) | counters, history | record_round, summary | generator, dashboard |
| Browser (`website/client/static/app.js`) | screen and call state | join, leave, toggles | middleware |

`AV` and its namespaces are built by no entry point of the repository, only by
its tests; the README of the repository describes them as the media path, and
they are modelled as such. The frames of the running program go through
`middleware/video.py` and the session rooms.

### What is hard

* **The hub.** The server runs on gevent but is not monkey patched
  (`server/main.py`); only the middleware is (`middleware/client.py`). A
  `requests.post` on the server therefore stops every other handler. The
  check-then-act in `connect` depends on that.
* **Identity.** Ids are five digits and are drawn again after their user is
  gone, while a `peer` field may still name them.
* **Partial endings.** A user may vanish from the directory, from a room, or
  from the network, and each is noticed by another part at another time.
* **Greenlets in the middleware.** Each event runs in its own; `join`, `start`,
  REST calls and socket connects are where they interleave.
* **Keys under indexes.** A sender holds a key while it captures, frames travel,
  and the two ends rotate on their own clocks; BB84 rounds may fail.

### What makes each part correct

* Directory and workflow: both records of a call agree; a call is between two
  users who were both free; hanging up ends one call, for both; a handler that
  waits comes back.
* Rooms: media stay in their session; nobody is left waiting for `room-id`.
* Media threads: at most one thread that captures and was not told to stop, and
  it is the one `leave_room` can reach.
* A whole call: `room-id` starts nobody's camera for a call that was not accepted
  (a preview is another matter: `select_camera` starts it at any time); a call in
  the directory comes up or somebody learns that it did not; only who wants to
  leave ends a call (the code does not keep this one).
* The link to the server: no browser shows a server that the middleware declared
  lost; a loss is seen by every browser in the end, a return by every browser (the
  code keeps this one only while no other tab verifies the server); one id for each
  connection.
* Rate limiter and shutdown: no more than the limit in any window, nobody locked
  out for being refused, and a shutdown that was answered happens.
* Rotation: what is decrypted is decrypted with the key it was encrypted with;
  a failed round changes nothing; what is announced is what happened.
* A BB84 round: what it reports, a rate or a key, is borne out by enough bits.

## 2. Modules

| Module | Role |
|---|---|
| `PeerManager`, `PeerManagerProofs` | user directory, workflow, REST and admin handlers; theorems |
| `CallRegistry` | abstract specification: registered users and calls |
| `SocketRooms`, `SocketRoomsProofs`, `MCSocketRooms` | session rooms; theorems; symmetry |
| `VideoCall`, `VideoCallProofs` | a whole call: directory, rooms, middlewares and browsers; theorems |
| `ServerLink`, `ServerLinkProofs` | health check, verification, registration; theorems |
| `RestApi`, `RestApiProofs` | rate limiter and life cycle of the server's API; theorems |
| `MediaThreads`, `MediaThreadsProofs` | one media slot of the middleware; theorems |
| `QBERMonitor` | results of a BB84 round and the monitor's bookkeeping |
| `BB84Round`, `BB84RoundProofs` | one BB84 round, Cascade step by step; theorems |
| `KeyRotation`, `KeyRotationProofs` | AV objects, senders, receivers; theorems |

`VideoCall` composes `PeerManager` (as `P`, its handlers are conjuncts of
`VideoCall`'s actions) and `SocketRooms` (as `R`, its operators inside the
actions, and `R!Spec` as what the composition implements). `PeerManager`
implements `CallRegistry`. `KeyRotation` and `BB84Round` share `QBERMonitor`.

Operators whose comment starts with "Mistake:" are wrong versions of the
definition that follows them. They are not part of any specification: with one
of them in the place of the right one, TLC finds the property listed in
`PROJECT.json` violated, which shows that the property can fail.

### PeerManager

`users` is `DictUserStorage.users`, `sessions` is `SocketAPI.sessions`, and
`request` is the stack of the one handler that is blocked in `contact_client`.
Each handler is an action, guarded by `HubFree`; those that contact a peer are
two: `PeerConnection` and `PeerAccepts`/`PeerFails`, `DisconnectPeer` and
`PeerNotified`, `AdminRemove` and `AdminRemoveNotified`. `Restart` may interrupt
them: everything is in memory. `retired` is a history variable: with
`ReissueIds = FALSE` the draw of an id is assumed not to hit one of a user who
is gone. The code does not ensure it; what needs it says so.

Requests that are refused before anything changes are no actions. The event
log, settings and wording are left out.

### CallRegistry

Registered users and calls. `Establish` needs two free registered users;
`HangUp` ends a call for both; `Unregister` leaves the other one in it, as
`remove_user` does. `PeerManager!ImplementsCallRegistry` maps a call to the pair
of users that point at each other, or the pair a remaining user points at.

### SocketRooms

`sids` is `SocketAPI.sids`. `up` is the network's part: a lost connection stays
in its room until the ping times out (`ConnectionLost`, then `Disconnect`).
`Connect` is `_on_connect` with the join, the check for completeness and
`room-id` in one step, which no other handler can interrupt: nothing in it
waits. `signalled` and `heard` record what sockets received.

### VideoCall

What happens between "join" in one browser and the end of the call in both. For
each user there is a middleware and a browser:

| Variable | Code |
|---|---|
| `users`, `sessions`, `request` | of `PeerManager` |
| `sids`, `signalled` | of `SocketRooms`; its `up` is the set of sockets the middlewares hold |
| `reached` | the middleware that the server contacts has handled the request |
| `sock` | `server_client`: the socket it is connected with |
| `connects` | the greenlets in `connect_to_session_ws`, with session and attempt |
| `roomIds` | `room-id` events on their way |
| `media` | the session the media threads were started for |
| `room` | `state.roomId` of app.js |
| `leaving`, `hangup` | `leave_room` on its way to the middleware; `POST /disconnect_peer` on its way to the server |

`leave_room` is two actions, because its request may wait behind an outbound call
of the server: `LeaveRoom` closes and stops, `HangUp` is when the server handles
the request. An attempt to connect is one step, with the server's `_on_connect`
and the middleware's return from `connect`; between attempts anything may
happen. (In the code a `leave_room` between the two finds `connected` false and
leaves the socket open, as it does while the Socket.IO client reconnects; see
section 6.) `ConnectFails` stands for the network, a timeout, a refusal, and a client
that is connected already. History variables, for any number of users: `call` is
the session of each user's call, as the directory has it; `accepted` the sessions
of all calls so far; `asked` those of calls that a user asked to leave; `excused`
those whose failure a browser was told of or for which a `leave_room` ran.

`NobodyForgotten` is what `CallComesUp` means for a state: a side of a call that
is not excused is connecting, or is in the room and has its media, its `room-id`
on the way, or a peer that is connecting. It fails in a client that drops an
attempt silently or spends one on a call that is over.

Assumptions. Users are registered and keep their ids (`PeerManager` deals with
the rest). The greenlet of a connect closes the old socket at once when it is
spawned, and the answer to a caller arrives before the server does anything else
for it. `/peer_disconnected` is handled within the 8 seconds of `notify`, or
never. Connections break only when a middleware closes them (`SocketRooms` deals
with losses). Two `leave_room`, or two hang-ups, of one client that are on their
way at once count as one. `join_room` sends the peer's id itself.

### ServerLink

`alive` is `state.server_alive`, `loop` and `fails` the health-check greenlet and
its count, `tab` what app.js keeps (`middlewareConnected`, `serverConnected`,
`registrationEmitted`), `tasks` the handlers of `configure_server` and
`create_user` that wait for the server. A probe starts and ends in two steps, so
a verification may come in between. `net` is the environment: a server that always
answers, sometimes, or never. `server_host` is set before the answer is parsed, so
that a verification that fails on an answer that is not JSON leaves a host without
a health check (`ConfigureFails`). The loop's branch for a host that is unset is left
out: nothing unsets it. `asked`, in a `Tab`, is a history: how often the browser sent
`create_user` on the connection it has. `ReturnIsSeen` promises a browser the return
of a server that answers for good, unless a verification by another tab, or by a
connection that is gone, is under way: `configure_server` sets `server_alive` and
tells its own browser only, and the health check then has no change to tell.
`JoinRefused` is in the module because `join_room` reports
every refusal with the event that means "server lost" to a browser.

### RestApi

`stamps` is what the limiter remembers and `granted` all it ever let through, so
that a promise can be stated that does not repeat the limiter's own test. Times
are whole ticks and the clock is never set back; `is_allowed` does not yield. Each
`POST /admin/shutdown` has a thread (`timer`) of its own: `Kill` is the check,
`Stop` the effect. `Restart` waits for these threads, which are not daemons.

### MediaThreads

A slot (`state.video_thread` or `state.audio_thread`), the threads created so
far, and the handlers that may be inside `start_*` or `select_audio`. A handler
yields where the code does: in `join` (which may end by its 2 s timeout, so
`JoinEnds` allows a thread that still runs) and in `Thread.start`. `stop`,
assignment and `is_alive` do not yield. `wanted` is a history variable.

### QBERMonitor and KeyRotation

Error rates are the three bands that the thresholds make; a key is where and
when it was drawn and whether its length is what was asked for. `Generator` is one
of FILE, RANDOM, DEBUG and BB84; `Scheme` is AES, XOR or DEBUG, by which keys
`encrypt` takes (`Encrypts`). One `AV` per peer: `gen` is its
generator, `av` the published pair, `loop` the rotation's own counter. Reads and
writes of the pair are atomic (`_key_lock`); capture and send are two steps,
because the pair is read first and a frame is awaited afterwards. A turn of
`_rotate_keys` is two or three steps (`turn`): `GenerateKey` or `RoundAborts`, in
which the monitor hears of the round; for a key, `PublishKey`, under the lock; then,
without it, `AnnounceKey` or `AnnounceAbort`, in which the callback is looked at and
called. Between them the monitor, the key in use and the callback may disagree, and
another thread may set the callback. `wire` is in order, as the relay is. A sender whose key is refused is dead: nothing catches
the exception. The index is a natural number; in the code it has four bytes,
which a rotation per second exhausts after 136 years.

### BB84Round

`run_round` from the sifted bits on, one action per decision: each abort, each
block of each pass of Cascade, each call of the binary search (a loop over a
range `lo..hi` of the pass's `order`). A bit is "right" or "wrong", because
parities, and therefore Cascade, see no more than the differences between the
two sides. Which of them are wrong is any choice: it stands for noise, dark
counts and the eavesdropper. The estimate is exact (errors in a sample of a
size), and so is the block size that follows from it. How many bits are secure
is exact when the estimate is 0 and any smaller number otherwise: binary entropy
is real arithmetic. The thresholds are those of the monitor and of the protocol
under one name each, as in their defaults; another `qber_threshold` in the
configuration of the protocol is not passed to the monitor. `ResultAllowed` is
what ties the module to `QBERMonitor!RoundResults`, and so to `KeyRotation`; beyond
that it says that a rate below 100 % comes from at least the minimum of sifted
bits, a key from a tolerable rate and more bits than the security parameter takes
off, a full key from enough of them. With the code's own numbers (10 and 64) a
round short of sifted bits could not make a key in any case; it is the reported
rate that the first exit is for.

## 3. Runs

| Run | Expects | Shows |
|---|---|---|
| `PeerManager_safety` | pass | safety of the directory and the workflow, the refinement of `CallRegistry`, and that every handler comes back |
| `PeerManager_stranger` | violation | a hang-up takes a stranger out of a call through a reissued id |
| `SocketRooms` | pass | frames of other members of the session only, `room-id` never missed and ahead of any frame |
| `VideoCall` | pass | `room-id` starts media for accepted calls only, the rooms' rules kept, nobody forgotten, calls come up (582,536 states) |
| `VideoCall_echo` | violation | an echoed `leave_room` ends the next call |
| `ServerLink` | pass | nobody shows a lost server, losses are seen, returns too unless another tab's verification comes first, one id per connection |
| `RestApi` | pass | the limit holds in every window, nobody is locked out, shutdowns happen |
| `MediaThreads_serial` | pass | with one handler at a time no thread is lost |
| `MediaThreads_orphan` | violation | two starts at once lose a thread |
| `KeyRotation_file` | pass | same file: index and key agree above index 0 |
| `KeyRotation_bb84` | pass | counters, announcements, indexes and keys under failing rounds, recorded, published and announced one after the other |
| `BB84Round` | pass | Cascade's searches and passes, what a round reports and the bits it has for it, its end |

### Bounds

* `PeerManager_safety`: four users are two calls, or a call and two strangers; a
  third party is all it takes to interfere with a call, and a fourth to be in one
  with the third. Three sessions let a user be in a second and a third call.
  `PeerManager_stranger` uses three users: one is replaced under its id, which
  makes a fourth. `HangUpSparesOthers` needs all of them: two that are in a call with
  each other, and a third that hangs up.
* `VideoCall`: two users and two sessions: a call and whatever follows it, which
  is where late connects, hang-ups and echoes do harm. Three sockets, so that one
  of two clients may connect once more. `MaxTries = 2` is a retry and a last
  failure (five attempts in the code). `AdminCalls = 1`: the operator ends the
  first call only, so that what ends the second one is something else.
* `ServerLink`: two tabs, of which one may come and go while the other stays;
  the code's threshold of two; the count saturates at three, one above it.
* `RestApi`: two addresses, two requests in three ticks, six ticks: two windows
  that do and do not overlap; two shutdown threads, which is all that can race.
* `SocketRooms`: three users, two sessions (so one user may be in both), four
  sockets: two complete rooms, or a room with a ghost and a replacement.
* `MediaThreads`: three threads: one being replaced, its replacement, and a
  second replacement. `Exhausted` stands for the end of the supply.
* `KeyRotation`: `FileKeys = 3` and four rounds make the file wrap around; one
  frame in flight per peer suffices, since a frame may also be held by its
  sender. The BB84 run with one peer drives five rounds, under XOR, which takes
  short keys and refuses empty ones; the file run uses AES. `MaxRounds` and
  `MaxFlight` occur in guards only.
* `BB84Round`: ten pulses and a sample of half of them leave up to five bits, so
  that there are blocks of two, three, four and five, short last blocks of one
  and two, halves of different lengths and more errors than Cascade can find.
  The rates 1/5, 1/4 and 1/3 are tolerated, 1/2 is the threshold itself. A round
  needs three sifted bits instead of ten, discards one bit instead of 64, and a
  byte has two bits: the code's numbers would need thousands of pulses to reach
  the same cases, and the theorems hold for all of them.

Users, sessions and sockets are interchangeable: `SocketRooms` permutes them. Runs
with a liveness property use no symmetry. Deadlock is checked everywhere but in
`VideoCall`, which stops when its sessions are used up and the call is over.

### Fairness

* `PeerManager`: weak fairness on `PeerFails`, `PeerNotified` and
  `AdminRemoveNotified`: `requests.post` has a timeout. None on accepting.
* `VideoCall`: weak fairness, for each client, on its attempts to connect (each has
  a timeout and retries are limited) and on handling a `room-id` that arrived.
  None on users, the server's answers or leaving.
* `ServerLink`: weak fairness on the loop's wake-up and on the end of a probe,
  which has a timeout of 5 seconds. None on browsers or the network.
* `RestApi`: weak fairness on both steps of a shutdown thread that was started.
* `MediaThreads`: weak fairness on the threads (the hub runs every greenlet that
  can run, and a capture loop looks at its stop event ten times a second) and on
  the steps with which a handler leaves `join` and `start`. None on new events.
* `BB84Round`: weak fairness on the steps of the round, a loop in one thread.

## 4. What the checks found

Three are entries under `findings` in `PROJECT.json`, each with a run that finds it
and the lines it is about.

1. `disconnect` resets whoever now has the id in `peer` (`PeerManager_stranger`):
   A and B are in a call, B unregisters, a new user is given B's id and is in a
   call with C; A hangs up, the new user is IDLE and C CONNECTED to it. Were the
   peer's own `peer` field compared first, the property would hold.
2. Two starts at once leave a capture thread that nothing can stop
   (`MediaThreads_orphan`).
3. A browser that is told that its peer left sends `leave_room` for its part; when
   that is handled late it ends the next call (`VideoCall_echo`).

Four more are definitions of the modules that do not hold and that no run
states; giving one to a run as its property shows a trace.

4. `MediaThreads!StopSticks`: `leave_room` during a restart does not stop the
   restart.
5. `KeyRotation!RightKey`: index 0 names two keys, the one of `__init__` and the
   first of the loop.
6. `KeyRotation!VideoNeverDrops`: an empty key ends the send threads for good, and
   so does one of another length than asked for, with AES. The DEBUG generator
   makes as many bytes as it is asked for bits, which AES refuses.
7. `ServerLink!EveryReturnIsSeen`: with two tabs, a server that was lost and that
   one of them verifies again is announced to that tab only, though
   `middleware/server_comms.py:321` has the health check "emit status changes to all
   browsers". The other one shows an error until it connects again or the server is
   lost and found once more.

Some more things to know. `join_room` of the browser sends an object where the
server looks up an id, so a call from the page as it is fails with a 500
(`website/client/static/app.js:215`, `middleware/events.py:94`). A server that
restarts forgets its users, and a page that stays connected does not register
again. The failures that the health check counted before a browser verified the
server again still count, so a single one afterwards is reported as a loss,
against the comment at `middleware/server_comms.py:315`. `leave_room` closes the
socket only when it is connected, which it is not while python-socketio reconnects
it. Nothing outside the tests sets `AV.mute_audio` and `AV.debug_video`, which the
send threads read. `remove_user` of a user in a call
tells the partner nothing and leaves it CONNECTED to an id nobody has; the
dashboard's `call_count` halves the number of CONNECTED users and is then wrong
(`server/admin_routes.py:80`). `CallRegistry!Unregister` says so. Peers with generators of their own
(BB84, RANDOM) number their keys alike, and nothing passes keys between them.
`_rotate_keys` announces every aborted round as `intrusion_detected`, also those
the monitor records as `KEY_GENERATION_FAILED`; with the default channel (about
39 of 4096 pulses detected, 64 bits discarded in privacy amplification) an abort
for want of bits is the normal outcome. Cascade "reconciles remaining errors"
(`README.md:31`) only as far as `OnlyPairsSurvive` goes: it is skipped when the
sample has no error, leaves pairs, and no comparison of the keys follows. In the
simulation it does no harm, because both ends use the corrected bits.

## 5. Proofs

All proofs are checked by TLAPS to the last leaf, from the named assumptions on
the constants only.

* **PeerManager.** `TypeCorrect` and `AnswerApplies` come from a basic invariant:
  types, and that while a request is pending its two users are registered and
  IDLE. The second part is inductive only because every handler needs `HubFree`,
  and `Restart` clears the request. `PeersSymmetric` needs `~ReissueIds` and the
  strengthening that a CONNECTED user's missing partner is in `retired`:
  otherwise a new user with its id would be the partner of somebody it never
  met. From it follow `HangUpsEndOneCall` and `Implements`, the step-by-step
  refinement of `CallRegistry`. `CallsNotStolen` and `CallsHaveSessions` hold
  with reissued ids too. `NobodyInTwoCalls` is a property of the registry,
  `CallRegistry!OneCallEach`, proved there and carried over the refinement.
* **SocketRooms.** One invariant holds everything: types, that the users heard
  by a socket are other members of its session, that complete rooms were
  signalled, and that a frame presupposes a complete room. The last two are not
  inductive alone: a sender that is alone in its room is heard by nobody, and a
  sender that is not alone makes the room complete, because a session has two
  users and a user has one working socket.
* **VideoCall.** `MediaNeedsAcceptedCall`. The invariant's core is `OneSided`: a
  session whose call is pending or was refused has a user, the caller, who is not
  in its room and has no connect to it under way. So its room never becomes
  complete, no `room-id` is sent to it, and no media start for it. It survives
  because the caller connects only in the step that accepts the call, and a
  session id is never used twice. `RoomsImplemented` is the refinement of
  `SocketRooms` under the mapping `up <- Up`: a step that closes a socket loses one
  connection, because a socket in use is its client's own (`Admitted`), a connect is
  a connect, and everything else is `CreateSession`, `Disconnect` or a stutter.
  `DirectoryUndisturbed`: every step is a step of `PeerManager` or leaves its
  variables alone. `DirectoryInCalls` has the directory's own invariants in the
  composition, where nobody unregisters, from a simpler one: a user is free or talks
  to another one that talks to it (`Directory`). `NobodyIsForgotten` needs that and
  three layers over it: two partners
  are in the same call, whose session was made for them (`CallsAgree`); a pending
  request has a session of its own that was not accepted yet (`PendingSession`);
  and a peer that answered is connecting before the directory has the call
  (`PeerOnItsWay`). Then the last attempt of one side finds the other in the room,
  or excuses the call, or leaves the other still connecting; a `room-id` is lost
  only with the room; and a new call of a client ends nobody else's.
  `ClientsConnectOnce` makes the number of attempts that a side has left
  well-defined (`TriesLeft`), and `CallsComeNearer` shows that in an accepted call it
  never rises and each attempt lowers it, and that media once started go on: a
  `room-id` of another session cannot take them over, since who has the media of its
  call has no attempt left and so, by `NobodyForgotten`, is in the room of its call.
* **ServerLink.** A handler that may still answer to a browser has its connection
  (`LiveHasTab`), so nobody is told "connected" who would not be told of the
  loss. `OneIdPerConnection` ties the history of requests to `registrationEmitted`:
  a connection has asked once or never, and once only if it noted it (`Noted`).
  `AliveIsWatched` (a server is alive only if it has a loop, which is spawned in the
  step that sets it alive and never ends by itself) and `FailuresCount` are the safety side of `LossIsSeen`: probes
  go on, and each failure counts or the loss is known to everybody.
* **RestApi.** `WindowBound` speaks of all requests ever let through. `Memory`
  connects them with what the limiter remembers: what it forgot is older than the
  window. With it, and nothing from the future, the requests it counts are those
  of the window that ends now, and a cardinality lemma finishes the step.
  `EndedShutdownsStopped`: a shutdown thread that is over left a server that was
  stopped. It is inductive once only a LIVE API serves, and no thread exists
  before the first configuration.
* **MediaThreads.** With one handler (`Serial`) a handler that waits in `join` or
  `start` knows the slot: it holds the thread it stopped or created, or
  `leave_room` emptied it. With two handlers the invariant is false, as `MediaThreads_orphan` shows.
  `WaitsAreFounded` holds for any number of them: a join waits for a thread that
  has begun and was told to stop, a start for one that was created, and a thread
  that does not run yet is waited for.
* **KeyRotation.** `SameFileSameKey`: every pair that was ever read from
  `AV.key`, wherever it is now (in use, with a sender, on the wire), names key
  `i + 2` of the file under index `i > 0`, and the loop is one behind the draws,
  or two while a key waits to be published. `FreshKeys`: the key in use was drawn
  before the one that waits; DEBUG, whose keys are all the same, is excluded.
  `CountersAgree`: with BB84 every draw is a round that was recorded, but for the
  one of `__init__`. `CallbackAgrees`: while a key waits to be published or
  announced the monitor's last round is a good one, while a failure waits it is a bad
  one, a published pair stays in use until it is announced, and who has not been
  called has been told nothing. `PresetKeyMatches`
  and `OwnKeysNeverMatch` settle the other generators from one invariant: a key
  that was read from `AV.key` is, wherever it is now, one its reader held. So with
  DEBUG even index 0 is right, and with RANDOM or BB84 an accepted frame is never
  decrypted with the key it was encrypted with: the generators share nothing.
* **BB84Round.** The heart is `Split`: the parities over two disjoint ranges
  together differ exactly when those over one of them do. With it the invariant
  is inductive: during a search the range `lo..hi` and the block around it hold
  an odd number of errors and everything before the block an even one.
  `OnlyPairsSurvive` alone is not, since nothing in it says that a search ends on
  an error. `SearchesFindOneError` follows. `ResultsAllowed` needs that Cascade changes bits
  and drops none, so that the sampled and the remaining ones stay as many as were
  sifted (`EnoughBits`), and that rounding up to bytes is monotone
  (`KeyNeedsBits`). `RoundsProgress`
  is the measure behind `RoundEnds`: the stages left, the passes left, the places
  of the pass left and the range of the search left are natural numbers that each
  step lowers lexicographically. No bound is put on the number of bits, the rates
  or the orders.

Only model-checked: liveness (`RoundEnds`, `EveryRequestEnds`, `StoppedThreadsEnd`,
`HandlersReturn`, `CallComesUp`, `LossIsSeen`, `ReturnIsSeen`, `ShutdownHappens`),
which the prover does not do. What of them is a safety property is proved:
`RoundsProgress`, `WaitsAreFounded`, `NobodyIsForgotten` and `CallsComeNearer`,
`AliveIsWatched` and `FailuresCount`, `EndedShutdownsStopped`. What remains for TLC is that the steps
which these theorems show to be useful are enabled and, being fair, are taken.
Every other property of a passing run is also proved.

## 6. What is left

1. Lost connections and the Socket.IO client's own reconnection in `VideoCall`,
   and an attempt to connect as two steps, with the hazard of a `leave_room`
   meanwhile.
2. Registration in `VideoCall`: a server that forgets its users, a middleware
   whose id changes while it is called.

## 7. Not modelled

* Frame and audio contents, devices and mock sources (`shared/frame_source.py`):
  pixel data and I/O. That a capture may block is in `MediaThreads`.
* Cipher arithmetic; entropy and Toeplitz hashing; the physical layer of BB84
  (`shared/bb84/physical_layer.py`): real and random arithmetic. What the protocol
  needs of the layer, which bits arrive and which are wrong, is any choice.
* Hardware key sources (`shared/bb84/hardware_*.py`): not registered as a
  generator, reached by tests only.
* Configuration, parsing, TLS, logging and start-up (`shared/config.py` and
  others): nothing of it changes once the program runs.
* The dashboard's read-only views, the log viewer, the eavesdropper toggle, whose
  effect on error rates is among the choices of `BB84Round`.
* The page's drawing, device lists and mute toggles.
* The statistics over the monitor's history, and the retired prototype in
  `icebox`.

`PROJECT.json` lists every part with its status.
