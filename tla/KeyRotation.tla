----------------------------- MODULE KeyRotation -----------------------------
(***************************************************************************)
(* The encrypted audio and video path: AV objects (server/utils/av.py)     *)
(* that rotate a key under an index, the namespaces that send and receive  *)
(* frames under it (shared/av/namespaces.py), the key generators           *)
(* (shared/encryption.py) and the QBER monitor.                            *)
(*                                                                         *)
(* Three kinds of threads touch the key.  The rotation thread generates    *)
(* one, which the monitor records inside the generator, later publishes it *)
(* with the next index, and announces it when the lock is released; a send *)
(* thread reads the pair, spends some time on capturing a frame, and only  *)
(* then encrypts and sends; the receiving handler reads the pair once      *)
(* more, and decrypts what carries the index it reads.  Each reads or      *)
(* writes the pair under _key_lock, so that a read or a write of it is one *)
(* step.                                                                   *)
(*                                                                         *)
(* A scheme decides which keys encrypt accepts: AES, the default, raises    *)
(* ValueError for any length but the one asked for.                        *)
(***************************************************************************)
EXTENDS QBERMonitor, Sequences

CONSTANTS
    Peers,       \* the two ends of a call
    Generator,   \* config key_generator
    Scheme,      \* config encrypt_scheme
    FileKeys,    \* how many keys fit in key.bin, the same file for everybody
    MaxRounds,   \* bound: keys generated by a peer
    MaxFlight    \* bound: frames on their way to a peer

ASSUME GeneratorAssumption == Generator \in {"FILE", "RANDOM", "DEBUG", "BB84"}
ASSUME SchemeAssumption    == Scheme \in {"AES", "XOR", "DEBUG"}
ASSUME FileAssumption      == FileKeys \in Nat \ {0}
ASSUME PeersAssumption     == Peers \cap {"file", "preset", "nobody"} = {}
ASSUME BoundsAssumption    == MaxRounds \in Nat /\ MaxFlight \in Nat

VARIABLES
    gen,       \* AV.key_gen: how many keys it was asked for, the last it made
    av,        \* AV.key: the index and the key in use
    loop,      \* key_idx of _rotate_keys: the next index
    turn,      \* where _rotate_keys is: about to generate a key ("round"), with
               \* one it "made" but did not publish, or with the outcome, "failed"
               \* or "published", that it did not announce
    monitor,   \* AV.qber_monitor
    callback,  \* whether set_qber_event_callback was called
    told,      \* the last event the callback got
    sender,    \* the send thread and the pair it read
    wire,      \* frames on their way to each peer
    played     \* the last frame whose index was accepted: the index, the key
               \* it was encrypted with and the one to decrypt it with

vars == <<gen, av, loop, turn, monitor, callback, told, sender, wire, played>>

-----------------------------------------------------------------------------
\* A key is known by where it was drawn and which draw it was.
Key == [from : Peers \cup {"file", "preset", "nobody"}, nth : Nat,
        size : {"full", "short", "empty", "long"}]
EmptyKey == [from |-> "nobody", nth |-> 0, size |-> "empty"]

Pair == [idx : Nat, key : Key]

\* The file is read in order, from the start again when it has less than one
\* key left.
FileKey(n) == [from |-> "file", nth |-> n % FileKeys, size |-> "full"]

\* DEBUG makes the same key every time, of as many bytes as it should have bits.
DebugKey == [from |-> "preset", nth |-> 0, size |-> "long"]

\* The n-th key of peer p.
NthKey(p, n, size) ==
    CASE Generator = "FILE"  -> FileKey(n)
      [] Generator = "DEBUG" -> DebugKey
      [] OTHER               -> [from |-> p, nth |-> n, size |-> size]

\* What generate_key may find.  Only BB84 can fail.
Rounds == IF Generator = "BB84" THEN RoundResults
          ELSE {[qber |-> "low", key |-> "full"]}

\* generate_key: a failed round keeps the old key.
Generated(g, p, r) ==
    [drawn |-> g.drawn + 1,
     key   |-> IF Aborted(r) THEN g.key ELSE NthKey(p, g.drawn + 1, r.key)]

\* Mistake: failed rounds are not reported to the monitor.
ObservedKeys(p, r) ==
    monitor' = IF Generator = "BB84" /\ ~Aborted(r)
               THEN [monitor EXCEPT ![p] = Recorded(@, r)] ELSE monitor

\* The metrics callback, set only for BB84.
Observed(p, r) ==
    monitor' = IF Generator = "BB84"
               THEN [monitor EXCEPT ![p] = Recorded(@, r)] ELSE monitor

\* Mistake: the callback is forgotten after its first call.
AnnounceOnce(p, event) ==
    told' = IF Generator = "BB84" /\ callback[p] /\ told[p] = "nothing"
            THEN [told EXCEPT ![p] = event] ELSE told

\* self._qber_event_callback(event, ...), if there is one.
Announce(p, event) ==
    told' = IF Generator = "BB84" /\ callback[p]
            THEN [told EXCEPT ![p] = event] ELSE told

NoGenerator == [drawn |-> 0, key |-> EmptyKey]
IdleSender  == [at |-> "idle", idx |-> 0, key |-> EmptyKey]
NotPlaying  == [idx |-> 0, sent |-> EmptyKey, used |-> EmptyKey]

\* AV.__init__: the first key gets index 0; nobody observes that round.
Init ==
    /\ \E r \in [Peers -> Rounds] :
          gen = [p \in Peers |-> Generated(NoGenerator, p, r[p])]
    /\ av = [p \in Peers |-> [idx |-> 0, key |-> gen[p].key]]
    /\ loop = [p \in Peers |-> 0]
    /\ turn = [p \in Peers |-> "round"]
    /\ monitor = [p \in Peers |-> NewMonitor]
    /\ callback = [p \in Peers |-> FALSE]
    /\ told = [p \in Peers |-> "nothing"]
    /\ sender = [p \in Peers |-> IdleSender]
    /\ wire = [p \in Peers |-> << >>]
    /\ played = [p \in Peers |-> NotPlaying]

SetCallback(p) ==
    /\ ~callback[p]
    /\ callback' = [callback EXCEPT ![p] = TRUE]
    /\ UNCHANGED <<gen, av, loop, turn, monitor, told, sender, wire, played>>

\* generate_key in a turn of _rotate_keys, when it makes a key.  It takes the
\* time of a BB84 round, with the old key in use and the monitor told already.
GenerateKey(p, r) ==
    /\ turn[p] = "round"
    /\ gen[p].drawn < MaxRounds
    /\ ~Aborted(r)
    /\ gen' = [gen EXCEPT ![p] = Generated(@, p, r)]
    /\ turn' = [turn EXCEPT ![p] = "made"]
    /\ Observed(p, r)
    /\ UNCHANGED <<av, loop, callback, told, sender, wire, played>>

\* Mistake: the index is one too low.
PublishedOneLow(p) == [idx |-> loop[p] - 1, key |-> gen[p].key]

\* self.key = key_idx, self.key_gen.get_key()
Published(p) == [idx |-> loop[p], key |-> gen[p].key]

\* The pair and the next index, under _key_lock.
PublishKey(p) ==
    /\ turn[p] = "made"
    /\ turn' = [turn EXCEPT ![p] = "published"]
    /\ av' = [av EXCEPT ![p] = Published(p)]
    /\ loop' = [loop EXCEPT ![p] = @ + 1]
    /\ UNCHANGED <<gen, monitor, callback, told, sender, wire, played>>

\* Mistake: what is left of the last round is published again.
RoundAbortsRepublish(p, r) ==
    /\ turn[p] = "round"
    /\ gen[p].drawn < MaxRounds
    /\ Aborted(r)
    /\ gen' = [gen EXCEPT ![p] = Generated(@, p, r)]
    /\ turn' = [turn EXCEPT ![p] = "made"]
    /\ Observed(p, r)
    /\ UNCHANGED <<av, loop, callback, told, sender, wire, played>>

\* generate_key, when it makes none: the key in use stays.
RoundAborts(p, r) ==
    /\ turn[p] = "round"
    /\ gen[p].drawn < MaxRounds
    /\ Aborted(r)
    /\ gen' = [gen EXCEPT ![p] = Generated(@, p, r)]
    /\ turn' = [turn EXCEPT ![p] = "failed"]
    /\ Observed(p, r)
    /\ UNCHANGED <<av, loop, callback, told, sender, wire, played>>

\* The end of a turn: outside the lock the callback is looked at and called, with
\* the outcome of the round just recorded.
EndTurn(p, outcome, event) ==
    /\ turn[p] = outcome
    /\ turn' = [turn EXCEPT ![p] = "round"]
    /\ Announce(p, event)
    /\ UNCHANGED <<gen, av, loop, monitor, callback, sender, wire, played>>

\* Any reason for a failed round is announced as an intrusion.
AnnounceAbort(p) == EndTurn(p, "failed", "intrusion_detected")

AnnounceKey(p) == EndTurn(p, "published", "key_redistributed")

\* send_video and send_audio read the pair, then wait for a frame.
Capture(p) ==
    /\ sender[p].at = "idle"
    /\ sender' = [sender EXCEPT
                    ![p] = [at |-> "captured", idx |-> av[p].idx, key |-> av[p].key]]
    /\ UNCHANGED <<gen, av, loop, turn, monitor, callback, told, wire, played>>

\* Mistake: the prefix is read when the frame is sent, the key before.
PayloadLateIndex(p) == [idx |-> av[p].idx, key |-> sender[p].key]

\* cur_key_idx.to_bytes(4, "big") + encrypt(data, key)
Payload(p) == [idx |-> sender[p].idx, key |-> sender[p].key]

\* encrypt does not raise.  AES takes keys of certain lengths, XOR repeats any
\* key and divides by its length, DEBUG does not look at it.
Encrypts(key) ==
    \/ Scheme = "AES" /\ key.size = "full"
    \/ Scheme = "XOR" /\ key.size # "empty"
    \/ Scheme = "DEBUG"

\* The frame goes to everybody but its sender.
SendFrame(p) ==
    /\ sender[p].at = "captured"
    /\ Encrypts(sender[p].key)
    /\ \A q \in Peers \ {p} : Len(wire[q]) < MaxFlight
    /\ wire' = [q \in Peers |-> IF q = p THEN wire[q]
                                ELSE Append(wire[q], Payload(p))]
    /\ sender' = [sender EXCEPT ![p] = IdleSender]
    /\ UNCHANGED <<gen, av, loop, turn, monitor, callback, told, played>>

\* encrypt raises, nothing catches it, and the send thread is over.
SenderDies(p) ==
    /\ sender[p].at = "captured"
    /\ ~Encrypts(sender[p].key)
    /\ sender' = [sender EXCEPT ![p].at = "dead"]
    /\ UNCHANGED <<gen, av, loop, turn, monitor, callback, told, wire, played>>

\* int.from_bytes(msg[:4], "big") == cur_key_idx
Accepts(q, f) == f.idx = av[q].idx

\* on_message: drop the frame, or decrypt it with the key in use.
Receive(q) ==
    /\ wire[q] # << >>
    /\ wire' = [wire EXCEPT ![q] = Tail(@)]
    /\ LET f == Head(wire[q])
       IN played' = IF Accepts(q, f)
                    THEN [played EXCEPT ![q] = [idx  |-> av[q].idx,
                                                sent |-> f.key,
                                                used |-> av[q].key]]
                    ELSE played
    /\ UNCHANGED <<gen, av, loop, turn, monitor, callback, told, sender>>

\* The bounds are reached and nothing is on its way.
Exhausted ==
    /\ \A p \in Peers : gen[p].drawn = MaxRounds /\ turn[p] = "round"
    /\ UNCHANGED vars

Next ==
    \/ \E p \in Peers, r \in Rounds : GenerateKey(p, r) \/ RoundAborts(p, r)
    \/ \E p \in Peers : \/ PublishKey(p)
                        \/ AnnounceAbort(p)
                        \/ AnnounceKey(p)
                        \/ SetCallback(p)
                        \/ Capture(p)
                        \/ SendFrame(p)
                        \/ SenderDies(p)
                        \/ Receive(p)
    \/ Exhausted

Spec == Init /\ [][Next]_vars

-----------------------------------------------------------------------------
(* Properties *)

TypeOK ==
    /\ gen \in [Peers -> [drawn : Nat, key : Key]]
    /\ av \in [Peers -> Pair]
    /\ loop \in [Peers -> Nat]
    /\ turn \in [Peers -> {"round", "made", "failed", "published"}]
    /\ monitor \in [Peers -> [total : Nat, successful : Nat, failed : Nat,
                              intrusions : Nat, latest : Events \cup {"nothing"}]]
    /\ callback \in [Peers -> BOOLEAN]
    /\ told \in [Peers -> {"nothing", "key_redistributed", "intrusion_detected"}]
    /\ sender \in [Peers -> [at : {"idle", "captured", "dead"}, idx : Nat, key : Key]]
    /\ wire \in [Peers -> Seq(Pair)]
    /\ played \in [Peers -> [idx : Nat, sent : Key, used : Key]]

\* A frame that is decrypted is decrypted with the key it was encrypted with.
\* README.md:222 promises it of the index ("so the receiver can synchronise
\* decryption").  Index 0 names two keys, the one of __init__ and the first one
\* of the loop (av.py:78 and av.py:96).
RightKey == \A q \in Peers : played[q].sent = played[q].used

\* The same from index 1 on.  It holds when the peers read the same file,
\* however far apart their rotations are and however long a frame takes to be
\* captured, sent and relayed.
RightKeyAfterFirst ==
    \A q \in Peers : played[q].idx > 0 => played[q].sent = played[q].used

\* A new index comes with a new key: a failed round never republishes the key
\* in use under another index, which would make the peer drop good frames.
IndexBringsKey ==
    \A p \in Peers : av'[p].idx # av[p].idx => av'[p].key # av[p].key
NewIndexNewKey == [][IndexBringsKey]_vars

\* The dashboard's counters tell the rotation thread's story: as many
\* successful rounds as indexes given out, but for a key that is about to be
\* published, and the failed ones besides.  They do not count the round of
\* __init__, which runs before the monitor listens.
MonitorCountsRotations ==
    Generator = "BB84" =>
        \A p \in Peers :
            LET good == loop[p] + (IF turn[p] = "made" THEN 1 ELSE 0)
            IN /\ monitor[p].successful = good
               /\ monitor[p].total = gen[p].drawn - 1
               /\ monitor[p].failed = gen[p].drawn - 1 - good

\* Once a turn is over, what the callback was told last agrees with what the
\* monitor recorded last, and with what became of the key: it hears of an
\* intrusion after a failed round, and of a key after a good one whose key is in
\* use, whenever the callback was set (av.py:103 and av.py:122).  Between a round
\* and its announcement the two may differ, as the monitor hears of it first.
ToldWhatHappened ==
    \A p \in Peers :
        told[p] # "nothing" /\ turn[p] = "round" =>
            \/ /\ told[p] = "intrusion_detected"
               /\ monitor[p].latest \in {"intrusion_detected", "key_generation_failed"}
            \/ /\ told[p] = "key_redistributed"
               /\ monitor[p].latest \in {"normal", "warning"}
               /\ av[p] = [idx |-> loop[p] - 1, key |-> gen[p].key]

\* README.md:382: failed rounds never make video drop.  A first round that
\* fails, or one that leaves a short key, ends the send thread.
VideoNeverDrops == \A p \in Peers : sender[p].at # "dead"

=============================================================================
