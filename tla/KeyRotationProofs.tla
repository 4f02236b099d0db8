-------------------------- MODULE KeyRotationProofs --------------------------
(***************************************************************************)
(* Proofs about KeyRotation: type correctness for every generator and      *)
(* scheme, that an index above 0 names one key for everybody who reads the *)
(* same file, that a new index always comes with a new key where keys are  *)
(* made rather than read or preset, that the monitor and the callback tell *)
(* what the rotation did, and which generators give both peers of a call   *)
(* the same key.                                                           *)
(***************************************************************************)
EXTENDS KeyRotation, SequenceTheorems, TLAPS

\* The operators on rounds and keys stay in their types.
LEMMA NthKeyType ==
    ASSUME NEW p \in Peers, NEW n \in Nat, NEW size \in {"full", "short"}
    PROVE  NthKey(p, n, size) \in Key
BY FileAssumption DEF NthKey, FileKey, DebugKey, Key

LEMMA EmptyKeyType == EmptyKey \in Key
BY DEF EmptyKey, Key

LEMMA RoundFacts ==
    ASSUME NEW r \in Rounds
    PROVE  /\ ~Aborted(r) => r.key \in {"full", "short"}
           /\ Generator = "FILE" => r.key = "full" /\ ~Aborted(r)
           /\ Classify(r) \in Events
BY GeneratorAssumption DEF Rounds, RoundResults, Aborted, Classify, Events

LEMMA GeneratedFacts ==
    ASSUME NEW p \in Peers, NEW r \in Rounds,
           NEW g \in [drawn : Nat, key : Key]
    PROVE  /\ Generated(g, p, r) \in [drawn : Nat, key : Key]
           /\ Generated(g, p, r).drawn = g.drawn + 1
           /\ Aborted(r) => Generated(g, p, r).key = g.key
           /\ ~Aborted(r) => Generated(g, p, r).key = NthKey(p, g.drawn + 1, r.key)
<1>1. CASE Aborted(r)
  BY <1>1 DEF Generated
<1>2. CASE ~Aborted(r)
  <2>1. NthKey(p, g.drawn + 1, r.key) \in Key
    BY <1>2, RoundFacts, NthKeyType
  <2> QED BY <1>2, <2>1 DEF Generated
<1> QED BY <1>1, <1>2

-----------------------------------------------------------------------------
(* Type correctness *)

Monitor == [total : Nat, successful : Nat, failed : Nat, intrusions : Nat,
            latest : Events \cup {"nothing"}]
Sender  == [at : {"idle", "captured", "dead"}, idx : Nat, key : Key]

LEMMA SenderEnds ==
    ASSUME NEW s \in Sender
    PROVE  LET d == [s EXCEPT !.at = "dead"]
           IN d \in Sender /\ d.idx = s.idx /\ d.key = s.key
BY DEF Sender

LEMMA InitType == Init => TypeOK
<1> SUFFICES ASSUME Init PROVE TypeOK
  OBVIOUS
<1>1. NoGenerator \in [drawn : Nat, key : Key] /\ IdleSender \in Sender
  BY EmptyKeyType DEF NoGenerator, IdleSender, Sender
<1>2. PICK r \in [Peers -> Rounds] :
          gen = [p \in Peers |-> Generated(NoGenerator, p, r[p])]
  BY DEF Init
<1>3. \A p \in Peers : Generated(NoGenerator, p, r[p]) \in [drawn : Nat, key : Key]
  BY <1>1, <1>2, GeneratedFacts
<1>4. gen \in [Peers -> [drawn : Nat, key : Key]]
  BY <1>2, <1>3
<1>5. av \in [Peers -> Pair]
  BY <1>4 DEF Init, Pair
<1>6. monitor \in [Peers -> Monitor]
  BY DEF Init, NewMonitor, Monitor
<1>7. wire \in [Peers -> Seq(Pair)] /\ played \in [Peers -> [idx : Nat, sent : Key, used : Key]]
  BY EmptyKeyType DEF Init, NotPlaying
<1> QED BY <1>1, <1>4, <1>5, <1>6, <1>7 DEF Init, TypeOK, Monitor, Sender

LEMMA ObservedType ==
    ASSUME NEW p \in Peers, NEW r \in Rounds, TypeOK, Observed(p, r)
    PROVE  monitor' \in [Peers -> Monitor]
<1>1. Recorded(monitor[p], r) \in Monitor
  BY RoundFacts DEF TypeOK, Recorded, Monitor
<1> QED BY <1>1 DEF TypeOK, Observed, Monitor

LEMMA AnnounceType ==
    ASSUME NEW p \in Peers, TypeOK,
           NEW event \in {"key_redistributed", "intrusion_detected"},
           Announce(p, event)
    PROVE  told' \in [Peers -> {"nothing", "key_redistributed", "intrusion_detected"}]
BY DEF TypeOK, Announce

\* The announcement at the end of a turn touches neither keys nor counters.
LEMMA TurnEnds ==
    ASSUME NEW p \in Peers, TypeOK, AnnounceAbort(p) \/ AnnounceKey(p)
    PROVE  /\ UNCHANGED <<gen, av, loop, monitor, callback, sender, wire, played>>
           /\ turn[p] # "made" /\ turn'[p] = "round"
           /\ \A q \in Peers \ {p} : turn'[q] = turn[q]
BY DEF TypeOK, AnnounceAbort, AnnounceKey, EndTurn

LEMMA TypeStep == TypeOK /\ [Next]_vars => TypeOK'
<1> SUFFICES ASSUME TypeOK, [Next]_vars PROVE TypeOK'
  OBVIOUS
<1>1. ASSUME NEW p \in Peers, NEW r \in Rounds, GenerateKey(p, r) PROVE TypeOK'
  <2>1. Generated(gen[p], p, r) \in [drawn : Nat, key : Key]
    BY GeneratedFacts DEF TypeOK
  <2>2. gen' \in [Peers -> [drawn : Nat, key : Key]]
    BY <1>1, <2>1 DEF TypeOK, GenerateKey
  <2>3. monitor' \in [Peers -> Monitor]
    BY <1>1, ObservedType DEF GenerateKey
  <2> QED BY <1>1, <2>2, <2>3 DEF TypeOK, GenerateKey, Monitor
<1>9. ASSUME NEW p \in Peers, PublishKey(p) PROVE TypeOK'
  <2>1. Published(p) \in Pair
    BY DEF TypeOK, Published, Pair
  <2>2. av' \in [Peers -> Pair] /\ loop' \in [Peers -> Nat]
    BY <1>9, <2>1 DEF TypeOK, PublishKey
  <2> QED BY <1>9, <2>2 DEF TypeOK, PublishKey
<1>10. ASSUME NEW p \in Peers, AnnounceAbort(p) \/ AnnounceKey(p) PROVE TypeOK'
  <2>1. PICK outcome \in {"failed", "published"},
             event \in {"key_redistributed", "intrusion_detected"} :
          EndTurn(p, outcome, event)
    BY <1>10 DEF AnnounceAbort, AnnounceKey
  <2>2. told' \in [Peers -> {"nothing", "key_redistributed", "intrusion_detected"}]
    BY <2>1, AnnounceType DEF EndTurn
  <2> QED BY <2>1, <2>2 DEF TypeOK, EndTurn
<1>2. ASSUME NEW p \in Peers, NEW r \in Rounds, RoundAborts(p, r) PROVE TypeOK'
  <2>1. Generated(gen[p], p, r) \in [drawn : Nat, key : Key]
    BY GeneratedFacts DEF TypeOK
  <2>2. gen' \in [Peers -> [drawn : Nat, key : Key]]
    BY <1>2, <2>1 DEF TypeOK, RoundAborts
  <2>3. monitor' \in [Peers -> Monitor]
    BY <1>2, ObservedType DEF RoundAborts
  <2> QED BY <1>2, <2>2, <2>3 DEF TypeOK, RoundAborts, Monitor
<1>3. ASSUME NEW p \in Peers, SetCallback(p) PROVE TypeOK'
  BY <1>3 DEF TypeOK, SetCallback
<1>4. ASSUME NEW p \in Peers, Capture(p) PROVE TypeOK'
  <2>1. [at |-> "captured", idx |-> av[p].idx, key |-> av[p].key] \in Sender
    BY DEF TypeOK, Pair, Sender
  <2> QED BY <1>4, <2>1 DEF TypeOK, Capture, Sender
<1>5. ASSUME NEW p \in Peers, SendFrame(p) PROVE TypeOK'
  <2>1. Payload(p) \in Pair
    BY DEF TypeOK, Payload, Pair
  <2>2. wire' \in [Peers -> Seq(Pair)]
    BY <1>5, <2>1, AppendProperties DEF TypeOK, SendFrame
  <2>3. IdleSender \in Sender
    BY EmptyKeyType DEF IdleSender, Sender
  <2> QED BY <1>5, <2>2, <2>3 DEF TypeOK, SendFrame, Sender
<1>6. ASSUME NEW p \in Peers, SenderDies(p) PROVE TypeOK'
  <2>1. sender[p] \in Sender
    BY DEF TypeOK, Sender
  <2>2. [sender[p] EXCEPT !.at = "dead"] \in Sender
    BY <2>1, SenderEnds
  <2> QED BY <1>6, <2>2 DEF TypeOK, SenderDies, Sender
<1>7. ASSUME NEW q \in Peers, Receive(q) PROVE TypeOK'
  <2>1. Head(wire[q]) \in Pair /\ Tail(wire[q]) \in Seq(Pair)
    BY <1>7, HeadTailProperties DEF TypeOK, Receive
  <2>2. wire' \in [Peers -> Seq(Pair)]
    BY <1>7, <2>1 DEF TypeOK, Receive
  <2>3. [idx |-> av[q].idx, sent |-> Head(wire[q]).key, used |-> av[q].key]
           \in [idx : Nat, sent : Key, used : Key]
    BY <2>1 DEF TypeOK, Pair
  <2>4. played' \in [Peers -> [idx : Nat, sent : Key, used : Key]]
    BY <1>7, <2>3 DEF TypeOK, Receive
  <2> QED BY <1>7, <2>2, <2>4 DEF TypeOK, Receive
<1>8. CASE UNCHANGED vars
  BY <1>8 DEF TypeOK, vars
<1> QED BY <1>1, <1>2, <1>3, <1>4, <1>5, <1>6, <1>7, <1>8, <1>9,
          <1>10
        DEF Next, Exhausted

\* Every variable keeps its type, whatever the generator returns.
THEOREM KeysTyped == Spec => []TypeOK
BY InitType, TypeStep, PTL DEF Spec

-----------------------------------------------------------------------------
(* One file: above index 0 an index names one key *)

\* A pair read from AV.key: index i > 0 is the (i+2)-nd key of the file, the
\* one of __init__ and the one the loop published as 0 coming first.
Named(x) == x.idx > 0 => x.key = FileKey(x.idx + 2)

\* The inductive invariant: the loop is one key behind the file, or two while
\* it holds one, which is the file's latest; and every pair that was read from
\* AV.key is named, wherever it is now.
FileInv ==
    /\ TypeOK
    /\ \A p \in Peers :
          /\ turn[p] # "made" => gen[p].drawn = loop[p] + 1
          /\ turn[p] = "made"  => gen[p].drawn = loop[p] + 2 /\ gen[p].key = FileKey(loop[p] + 2)
          /\ Named(av[p])
          /\ Named(sender[p])
          /\ \A i \in 1..Len(wire[p]) : Named(wire[p][i])
    /\ RightKeyAfterFirst

LEMMA FileInit == ASSUME Generator = "FILE" PROVE Init => FileInv
<1> SUFFICES ASSUME Init PROVE FileInv
  OBVIOUS
<1>1. TypeOK
  BY InitType
<1>2. PICK r \in [Peers -> Rounds] :
          gen = [p \in Peers |-> Generated(NoGenerator, p, r[p])]
  BY DEF Init
<1>3. \A p \in Peers : gen[p].drawn = 1
  BY <1>2, EmptyKeyType, GeneratedFacts DEF NoGenerator
<1>4. \A p \in Peers : /\ loop[p] = 0 /\ turn[p] # "made"
                       /\ av[p].idx = 0
                       /\ sender[p].idx = 0
                       /\ Len(wire[p]) = 0
                       /\ played[p].idx = 0
  BY DEF Init, IdleSender, NotPlaying
<1> QED BY <1>1, <1>3, <1>4 DEF FileInv, Named, RightKeyAfterFirst

LEMMA FileStep ==
    ASSUME Generator = "FILE" PROVE FileInv /\ [Next]_vars => FileInv'
<1> SUFFICES ASSUME FileInv, [Next]_vars PROVE FileInv'
  OBVIOUS
<1>0. TypeOK /\ TypeOK'
  BY TypeStep DEF FileInv
<1>1. ASSUME NEW p \in Peers, NEW r \in Rounds, GenerateKey(p, r) PROVE FileInv'
  <2>1. gen'[p] = Generated(gen[p], p, r)
    BY <1>0, <1>1 DEF TypeOK, GenerateKey
  <2>2. /\ gen'[p].drawn = gen[p].drawn + 1
        /\ gen'[p].key = NthKey(p, gen[p].drawn + 1, r.key)
    BY <1>0, <1>1, <2>1, GeneratedFacts DEF TypeOK, GenerateKey
  <2>3. gen'[p].drawn = loop[p] + 2
    <3>1. gen[p].drawn = loop[p] + 1
      BY <1>1 DEF FileInv, GenerateKey
    <3>2. loop[p] \in Nat
      BY <1>0 DEF TypeOK
    <3> QED BY <2>2, <3>1, <3>2
  <2>4. gen'[p].key = FileKey(loop[p] + 2)
    <3>1. gen'[p].key = NthKey(p, loop[p] + 2, "full")
      BY <2>2, <2>3, RoundFacts
    <3> QED BY <3>1 DEF NthKey, FileKey
  <2>5. /\ turn'[p] = "made" /\ loop' = loop
        /\ \A q \in Peers \ {p} : gen'[q] = gen[q] /\ turn'[q] = turn[q]
    BY <1>0, <1>1 DEF TypeOK, GenerateKey
  <2>6. \A q \in Peers :
           /\ turn'[q] # "made" => gen'[q].drawn = loop'[q] + 1
           /\ turn'[q] = "made"  => gen'[q].drawn = loop'[q] + 2 /\ gen'[q].key = FileKey(loop'[q] + 2)
    BY <2>3, <2>4, <2>5 DEF FileInv
  <2> QED BY <1>0, <1>1, <2>6 DEF FileInv, GenerateKey, RightKeyAfterFirst
<1>9. ASSUME NEW p \in Peers, PublishKey(p) PROVE FileInv'
  <2>1. /\ av'[p] = [idx |-> loop[p], key |-> gen[p].key]
        /\ loop'[p] = loop[p] + 1 /\ turn'[p] # "made" /\ gen' = gen
        /\ \A q \in Peers \ {p} : /\ av'[q] = av[q]
                                  /\ loop'[q] = loop[q]
                                  /\ turn'[q] = turn[q]
    BY <1>0, <1>9 DEF TypeOK, PublishKey, Published
  <2>2. loop[p] \in Nat /\ gen[p].drawn = loop[p] + 2 /\ gen[p].key = FileKey(loop[p] + 2)
    BY <1>0, <1>9 DEF FileInv, TypeOK, PublishKey
  <2>3. Named(av'[p])
    BY <2>1, <2>2 DEF Named
  <2>4. gen'[p].drawn = loop'[p] + 1
    BY <2>1, <2>2
  <2>5. \A q \in Peers : Named(av'[q])
    BY <2>1, <2>3 DEF FileInv
  <2>6. \A q \in Peers :
           /\ turn'[q] # "made" => gen'[q].drawn = loop'[q] + 1
           /\ turn'[q] = "made"  => gen'[q].drawn = loop'[q] + 2 /\ gen'[q].key = FileKey(loop'[q] + 2)
    BY <2>1, <2>4 DEF FileInv
  <2> QED BY <1>0, <1>9, <2>5, <2>6 DEF FileInv, PublishKey, RightKeyAfterFirst
<1>2. ASSUME NEW p \in Peers, NEW r \in Rounds, RoundAborts(p, r) PROVE FileInv'
  BY <1>2, RoundFacts DEF RoundAborts
<1>10. ASSUME NEW p \in Peers, AnnounceAbort(p) \/ AnnounceKey(p) PROVE FileInv'
  <2>1. /\ UNCHANGED <<gen, av, loop, sender, wire, played>>
        /\ \A q \in Peers : turn'[q] = "made" <=> turn[q] = "made"
    BY <1>0, <1>10, TurnEnds
  <2> QED BY <1>0, <2>1 DEF FileInv, RightKeyAfterFirst
<1>3. ASSUME NEW p \in Peers, SetCallback(p) PROVE FileInv'
  BY <1>0, <1>3 DEF FileInv, SetCallback, RightKeyAfterFirst
<1>4. ASSUME NEW p \in Peers, Capture(p) PROVE FileInv'
  <2>1. Named(sender'[p])
    BY <1>0, <1>4 DEF FileInv, TypeOK, Capture, Named
  <2>2. \A q \in Peers : Named(sender'[q])
    BY <1>0, <1>4, <2>1 DEF FileInv, TypeOK, Capture
  <2> QED BY <1>0, <1>4, <2>2 DEF FileInv, Capture, RightKeyAfterFirst
<1>5. ASSUME NEW p \in Peers, SendFrame(p) PROVE FileInv'
  <2>1. Payload(p) \in Pair /\ Named(Payload(p))
    BY <1>0 DEF FileInv, TypeOK, Payload, Pair, Named
  <2>2. ASSUME NEW q \in Peers, NEW i \in 1..Len(wire'[q])
        PROVE  Named(wire'[q][i])
    <3>1. CASE q = p
      BY <1>0, <1>5, <2>2, <3>1 DEF FileInv, TypeOK, SendFrame
    <3>2. CASE q # p
      <4>1. wire[q] \in Seq(Pair) /\ wire'[q] = Append(wire[q], Payload(p))
        BY <1>0, <1>5, <3>2 DEF TypeOK, SendFrame
      <4>2. CASE i = Len(wire[q]) + 1
        BY <2>1, <4>1, <4>2, AppendProperties
      <4>3. CASE i \in 1..Len(wire[q])
        <5>1. wire'[q][i] = wire[q][i]
          BY <2>1, <4>1, <4>3, AppendProperties
        <5> QED BY <4>3, <5>1 DEF FileInv
      <4> QED BY <2>1, <2>2, <4>1, <4>2, <4>3, AppendProperties
    <3> QED BY <3>1, <3>2
  <2>3. \A q \in Peers : Named(sender'[q])
    BY <1>0, <1>5 DEF FileInv, TypeOK, SendFrame, IdleSender, Named
  <2> QED BY <1>0, <1>5, <2>2, <2>3 DEF FileInv, SendFrame, RightKeyAfterFirst
<1>6. ASSUME NEW p \in Peers, SenderDies(p) PROVE FileInv'
  <2>1. \A q \in Peers : /\ sender'[q].idx = sender[q].idx
                         /\ sender'[q].key = sender[q].key
    <3>1. sender[p] \in Sender
      BY <1>0 DEF TypeOK, Sender
    <3>2. /\ sender'[p] = [sender[p] EXCEPT !.at = "dead"]
          /\ \A q \in Peers \ {p} : sender'[q] = sender[q]
      BY <1>0, <1>6 DEF TypeOK, SenderDies
    <3> QED BY <3>1, <3>2, SenderEnds
  <2>2. \A q \in Peers : Named(sender'[q])
    BY <2>1 DEF FileInv, Named
  <2> QED BY <1>0, <1>6, <2>2 DEF FileInv, SenderDies, RightKeyAfterFirst
<1>7. ASSUME NEW q \in Peers, Receive(q) PROVE FileInv'
  <2>1. wire[q] \in Seq(Pair) /\ wire[q] # << >> /\ wire'[q] = Tail(wire[q])
    BY <1>0, <1>7 DEF TypeOK, Receive
  <2>2. ASSUME NEW p \in Peers, NEW i \in 1..Len(wire'[p])
        PROVE  Named(wire'[p][i])
    <3>1. CASE p = q
      <4>1. i + 1 \in 1..Len(wire[q]) /\ wire'[q][i] = wire[q][i + 1]
        <5>1. Len(wire[q]) \in Nat /\ Len(wire'[q]) = Len(wire[q]) - 1
          BY <2>1, HeadTailProperties, LenProperties
        <5>2. i \in 1..Len(Tail(wire[q]))
          BY <2>1, <2>2, <3>1
        <5>3. wire'[q][i] = wire[q][i + 1]
          BY <2>1, <5>2, HeadTailProperties
        <5> QED BY <2>2, <3>1, <5>1, <5>3
      <4> QED BY <3>1, <4>1 DEF FileInv
    <3>2. CASE p # q
      BY <1>0, <1>7, <2>2, <3>2 DEF FileInv, TypeOK, Receive
    <3> QED BY <3>1, <3>2
  <2>3. Named(Head(wire[q]))
    <3>1. Head(wire[q]) = wire[q][1] /\ 1 \in 1..Len(wire[q])
      BY <2>1, HeadTailProperties
    <3> QED BY <3>1 DEF FileInv
  <2>4. RightKeyAfterFirst'
    <3>1. SUFFICES ASSUME NEW p \in Peers, played'[p].idx > 0
                   PROVE  played'[p].sent = played'[p].used
      BY DEF RightKeyAfterFirst
    <3>2. CASE p = q /\ Accepts(q, Head(wire[q]))
      <4>1. played'[q] = [idx  |-> av[q].idx, sent |-> Head(wire[q]).key,
                          used |-> av[q].key]
        BY <1>0, <1>7, <3>2 DEF TypeOK, Receive
      <4>2. Named(av[q])
        BY DEF FileInv
      <4> QED BY <2>3, <3>1, <3>2, <4>1, <4>2 DEF Accepts, Named
    <3>3. CASE ~(p = q /\ Accepts(q, Head(wire[q])))
      <4>1. played'[p] = played[p]
        BY <1>0, <1>7, <3>3 DEF TypeOK, Receive
      <4> QED BY <3>1, <4>1 DEF FileInv, RightKeyAfterFirst
    <3> QED BY <3>2, <3>3
  <2> QED BY <1>0, <1>7, <2>2, <2>4 DEF FileInv, Receive
<1>8. CASE UNCHANGED vars
  BY <1>0, <1>8 DEF FileInv, vars, RightKeyAfterFirst
<1> QED BY <1>1, <1>2, <1>3, <1>4, <1>5, <1>6, <1>7, <1>8, <1>9,
          <1>10
        DEF Next, Exhausted

\* Peers that read the same file decrypt every frame with an index above 0
\* with the key it was encrypted with, however their rotations drift.
THEOREM SameFileSameKey ==
    Generator = "FILE" => (Spec => []RightKeyAfterFirst)
<1> SUFFICES ASSUME Generator = "FILE" PROVE Spec => []RightKeyAfterFirst
  OBVIOUS
<1>1. FileInv => RightKeyAfterFirst
  BY DEF FileInv
<1> QED BY <1>1, FileInit, FileStep, PTL DEF Spec

-----------------------------------------------------------------------------
(* Generated keys are fresh *)

\* The key in use was drawn before the next one will be, and before one that
\* waits to be published.
FreshInv ==
    /\ TypeOK
    /\ \A p \in Peers :
          /\ gen[p].key.nth <= gen[p].drawn
          /\ av[p].key.nth <= gen[p].drawn
          /\ turn[p] = "made" => av[p].key.nth < gen[p].key.nth

LEMMA FreshInit == ASSUME Generator \in {"RANDOM", "BB84"} PROVE Init => FreshInv
<1> SUFFICES ASSUME Init PROVE FreshInv
  OBVIOUS
<1>1. PICK r \in [Peers -> Rounds] :
          gen = [p \in Peers |-> Generated(NoGenerator, p, r[p])]
  BY DEF Init
<1>2. NoGenerator \in [drawn : Nat, key : Key] /\ NoGenerator.drawn = 0
  BY EmptyKeyType DEF NoGenerator
<1>3. ASSUME NEW p \in Peers PROVE gen[p].key.nth <= gen[p].drawn
  <2>1. gen[p] = Generated(NoGenerator, p, r[p]) /\ r[p] \in Rounds
    BY <1>1
  <2>2. gen[p].drawn = 1
    BY <1>2, <2>1, GeneratedFacts
  <2>3. CASE Aborted(r[p])
    <3>1. gen[p].key = EmptyKey
      BY <1>2, <2>1, <2>3, GeneratedFacts DEF NoGenerator
    <3> QED BY <2>2, <3>1 DEF EmptyKey
  <2>4. CASE ~Aborted(r[p])
    <3>1. gen[p].key = NthKey(p, 1, r[p].key)
      BY <1>2, <2>1, <2>4, GeneratedFacts
    <3> QED BY <2>2, <3>1 DEF NthKey
  <2> QED BY <2>3, <2>4
<1> QED BY <1>3, InitType DEF FreshInv, Init

LEMMA FreshStep ==
    ASSUME Generator \in {"RANDOM", "BB84"} PROVE FreshInv /\ [Next]_vars => FreshInv'
<1> SUFFICES ASSUME FreshInv, [Next]_vars PROVE FreshInv'
  OBVIOUS
<1>0. TypeOK /\ TypeOK'
  BY TypeStep DEF FreshInv
<1>1. ASSUME NEW p \in Peers, NEW r \in Rounds, GenerateKey(p, r) PROVE FreshInv'
  <2>1. /\ gen'[p].drawn = gen[p].drawn + 1
        /\ gen'[p].key = NthKey(p, gen[p].drawn + 1, r.key)
    BY <1>0, <1>1, GeneratedFacts DEF TypeOK, GenerateKey
  <2>2. gen'[p].key.nth = gen'[p].drawn
    BY <2>1 DEF NthKey
  <2>3. av' = av /\ \A q \in Peers \ {p} : gen'[q] = gen[q] /\ turn'[q] = turn[q]
    BY <1>0, <1>1 DEF TypeOK, GenerateKey
  <2>4. gen[p].drawn \in Nat /\ av[p].key.nth \in Nat /\ av[p].key.nth <= gen[p].drawn
    BY <1>0 DEF FreshInv, TypeOK, Pair, Key
  <2>5. /\ gen'[p].key.nth <= gen'[p].drawn
        /\ av'[p].key.nth <= gen'[p].drawn
        /\ av'[p].key.nth < gen'[p].key.nth
    BY <2>1, <2>2, <2>3, <2>4
  <2> QED BY <1>0, <2>3, <2>5 DEF FreshInv
<1>4. ASSUME NEW p \in Peers, PublishKey(p) PROVE FreshInv'
  <2>1. /\ av'[p].key = gen[p].key /\ turn'[p] # "made" /\ gen' = gen
        /\ \A q \in Peers \ {p} : av'[q] = av[q] /\ turn'[q] = turn[q]
    BY <1>0, <1>4 DEF TypeOK, PublishKey, Published
  <2> QED BY <1>0, <2>1 DEF FreshInv
<1>2. ASSUME NEW p \in Peers, NEW r \in Rounds, RoundAborts(p, r) PROVE FreshInv'
  <2>1. gen'[p].drawn = gen[p].drawn + 1 /\ gen'[p].key = gen[p].key
    BY <1>0, <1>2, GeneratedFacts DEF TypeOK, RoundAborts
  <2>2. \A q \in Peers \ {p} : gen'[q] = gen[q]
    BY <1>0, <1>2 DEF TypeOK, RoundAborts
  <2>3. /\ av' = av /\ turn'[p] # "made"
        /\ \A q \in Peers \ {p} : turn'[q] = turn[q]
    BY <1>0, <1>2 DEF TypeOK, RoundAborts
  <2>4. /\ gen[p].drawn \in Nat
        /\ gen[p].key.nth \in Nat
        /\ av[p].key.nth \in Nat
    BY <1>0 DEF TypeOK, Key, Pair
  <2>5. /\ gen'[p].key.nth <= gen'[p].drawn
        /\ av'[p].key.nth <= gen'[p].drawn
    BY <2>1, <2>3, <2>4 DEF FreshInv
  <2> QED BY <1>0, <2>2, <2>3, <2>5 DEF FreshInv
<1>5. ASSUME NEW p \in Peers, AnnounceAbort(p) \/ AnnounceKey(p) PROVE FreshInv'
  <2>1. /\ UNCHANGED <<gen, av>>
        /\ \A q \in Peers : turn'[q] = "made" <=> turn[q] = "made"
    BY <1>0, <1>5, TurnEnds
  <2> QED BY <1>0, <2>1 DEF FreshInv
<1>3. CASE UNCHANGED <<gen, av, turn>>
  BY <1>0, <1>3 DEF FreshInv
<1> QED BY <1>1, <1>2, <1>3, <1>4, <1>5
        DEF Next, Exhausted, vars, SetCallback, Capture, SendFrame, SenderDies, Receive

LEMMA NewIndexStep ==
    ASSUME Generator \in {"RANDOM", "BB84"}, FreshInv, [Next]_vars, NEW p \in Peers,
           av'[p].idx # av[p].idx
    PROVE  av'[p].key # av[p].key
<1>1. TypeOK
  BY DEF FreshInv
<1>2. PublishKey(p)
  <2>1. PICK q \in Peers : PublishKey(q)
    BY DEF Next, Exhausted, vars, SetCallback, Capture, SendFrame, SenderDies,
           Receive, RoundAborts, GenerateKey, AnnounceAbort, AnnounceKey, EndTurn
  <2>2. q = p
    BY <1>1, <2>1 DEF TypeOK, PublishKey
  <2> QED BY <2>1, <2>2
<1>3. turn[p] = "made" /\ av'[p].key = gen[p].key
  BY <1>1, <1>2 DEF TypeOK, PublishKey, Published
<1>4. av[p].key.nth \in Nat /\ gen[p].key.nth \in Nat /\ av[p].key.nth < gen[p].key.nth
  BY <1>1, <1>3 DEF FreshInv, TypeOK, Pair, Key
<1> QED BY <1>3, <1>4

\* A key that is generated rather than read never serves under two indexes
\* that follow each other: failed rounds republish nothing.
THEOREM FreshKeys == Generator \in {"RANDOM", "BB84"} => (Spec => NewIndexNewKey)
<1> SUFFICES ASSUME Generator \in {"RANDOM", "BB84"} PROVE Spec => NewIndexNewKey
  OBVIOUS
<1>1. FreshInv /\ [Next]_vars =>
         [IndexBringsKey]_vars
  BY NewIndexStep DEF IndexBringsKey
<1> QED BY <1>1, FreshInit, FreshStep, PTL DEF Spec, NewIndexNewKey

-----------------------------------------------------------------------------
(* The monitor, the rotation and the callback tell one story *)

Bad == {"intrusion_detected", "key_generation_failed"}
Good == {"normal", "warning"}

\* A failed round is classified as a bad event, a good one never is.
LEMMA ClassifyFacts ==
    ASSUME NEW r \in Rounds
    PROVE  Classify(r) \in IF Aborted(r) THEN Bad ELSE Good
<1>1. r.qber \in {"low", "raised", "high"}
  BY GeneratorAssumption DEF Rounds, RoundResults
<1> QED BY <1>1 DEF Classify, Bad, Good

\* What a round leaves of the monitor of a BB84 peer.
LEMMA ObservedFacts ==
    ASSUME NEW p \in Peers, NEW r \in Rounds, TypeOK, Observed(p, r),
           Generator = "BB84", NEW q \in Peers
    PROVE  /\ q # p => monitor'[q] = monitor[q]
           /\ monitor'[p].total = monitor[p].total + 1
           /\ monitor'[p].successful =
                monitor[p].successful + (IF Aborted(r) THEN 0 ELSE 1)
           /\ monitor'[p].failed = monitor[p].failed + (IF Aborted(r) THEN 1 ELSE 0)
           /\ monitor'[p].latest = Classify(r)
<1>1. monitor' = [monitor EXCEPT ![p] = Recorded(monitor[p], r)]
  BY DEF Observed
<1>2. monitor'[p] = Recorded(monitor[p], r) /\ (q # p => monitor'[q] = monitor[q])
  BY <1>1 DEF TypeOK
<1> QED BY <1>2 DEF Recorded

\* Each round is one more draw of its peer, and of nobody else.
LEMMA DrawnFacts ==
    ASSUME NEW p \in Peers, NEW r \in Rounds, TypeOK, NEW q \in Peers,
           gen' = [gen EXCEPT ![p] = Generated(gen[p], p, r)]
    PROVE  gen'[p].drawn = gen[p].drawn + 1 /\ (q # p => gen'[q] = gen[q])
<1>1. gen[p] \in [drawn : Nat, key : Key]
  BY DEF TypeOK
<1>2. gen'[p] = Generated(gen[p], p, r) /\ (q # p => gen'[q] = gen[q])
  BY DEF TypeOK
<1> QED BY <1>1, <1>2, GeneratedFacts

Counted(p) ==
    /\ monitor[p].successful = loop[p] + (IF turn[p] = "made" THEN 1 ELSE 0)
    /\ monitor[p].total = gen[p].drawn - 1
    /\ monitor[p].failed = gen[p].drawn - 1 - (loop[p] + (IF turn[p] = "made" THEN 1 ELSE 0))

CountInv == TypeOK /\ \A p \in Peers : Counted(p)

LEMMA CountInit == ASSUME Generator = "BB84" PROVE Init => CountInv
<1> SUFFICES ASSUME Init, NEW p \in Peers PROVE Counted(p)
  BY InitType DEF CountInv
<1>1. PICK r \in [Peers -> Rounds] :
          gen = [q \in Peers |-> Generated(NoGenerator, q, r[q])]
  BY DEF Init
<1>2. NoGenerator \in [drawn : Nat, key : Key] /\ NoGenerator.drawn = 0
  BY EmptyKeyType DEF NoGenerator
<1>3. gen[p].drawn = 1
  BY <1>1, <1>2, GeneratedFacts
<1> QED BY <1>3 DEF Init, Counted, NewMonitor

LEMMA CountStep ==
    ASSUME Generator = "BB84" PROVE CountInv /\ [Next]_vars => CountInv'
<1> SUFFICES ASSUME CountInv, [Next]_vars PROVE CountInv'
  OBVIOUS
<1>0. TypeOK /\ TypeOK'
  BY TypeStep DEF CountInv
<1>1. ASSUME NEW p \in Peers, NEW r \in Rounds, GenerateKey(p, r), NEW q \in Peers
      PROVE  Counted(q)'
  <2>1. gen'[p].drawn = gen[p].drawn + 1 /\ (q # p => gen'[q] = gen[q])
    BY <1>0, <1>1, DrawnFacts DEF GenerateKey
  <2>2. turn[p] # "made" /\ turn'[p] = "made" /\ (q # p => turn'[q] = turn[q]) /\ loop' = loop
    BY <1>0, <1>1 DEF TypeOK, GenerateKey
  <2>3. /\ q # p => monitor'[q] = monitor[q]
        /\ monitor'[p].total = monitor[p].total + 1
        /\ monitor'[p].successful = monitor[p].successful + 1
        /\ monitor'[p].failed = monitor[p].failed
    <3>1. Observed(p, r) /\ ~Aborted(r)
      BY <1>1 DEF GenerateKey
    <3>2. /\ q # p => monitor'[q] = monitor[q]
          /\ monitor'[p].total = monitor[p].total + 1
          /\ monitor'[p].successful = monitor[p].successful + 1
          /\ monitor'[p].failed = monitor[p].failed + 0
      BY <1>0, <3>1, ObservedFacts
    <3>3. monitor[p].failed \in Nat
      BY <1>0 DEF TypeOK
    <3> QED BY <3>2, <3>3
  <2>4. gen[p].drawn \in Nat /\ loop[p] \in Nat
    BY <1>0 DEF TypeOK
  <2>5. Counted(p) /\ Counted(q)
    BY DEF CountInv
  <2>6. CASE q = p
    BY <2>1, <2>2, <2>3, <2>4, <2>5, <2>6 DEF Counted
  <2>7. CASE q # p
    BY <2>1, <2>2, <2>3, <2>5, <2>7 DEF Counted
  <2> QED BY <2>6, <2>7
<1>2. ASSUME NEW p \in Peers, NEW r \in Rounds, RoundAborts(p, r), NEW q \in Peers
      PROVE  Counted(q)'
  <2>1. gen'[p].drawn = gen[p].drawn + 1 /\ (q # p => gen'[q] = gen[q])
    BY <1>0, <1>2, DrawnFacts DEF RoundAborts
  <2>2. /\ turn[p] # "made" /\ turn'[p] # "made" /\ loop' = loop
        /\ q # p => turn'[q] = turn[q]
    BY <1>0, <1>2 DEF TypeOK, RoundAborts
  <2>3. /\ q # p => monitor'[q] = monitor[q]
        /\ monitor'[p].total = monitor[p].total + 1
        /\ monitor'[p].successful = monitor[p].successful + 0
        /\ monitor'[p].failed = monitor[p].failed + 1
    BY <1>0, <1>2, ObservedFacts DEF RoundAborts
  <2>4. gen[p].drawn \in Nat /\ loop[p] \in Nat /\ monitor[p].successful \in Nat
    BY <1>0 DEF TypeOK
  <2>5. Counted(p) /\ Counted(q)
    BY DEF CountInv
  <2>6. CASE q = p
    BY <2>1, <2>2, <2>3, <2>4, <2>5, <2>6 DEF Counted
  <2>7. CASE q # p
    BY <2>1, <2>2, <2>3, <2>5, <2>7 DEF Counted
  <2> QED BY <2>6, <2>7
<1>3. ASSUME NEW p \in Peers, PublishKey(p), NEW q \in Peers PROVE Counted(q)'
  <2>1. /\ turn[p] = "made" /\ turn'[p] # "made" /\ loop'[p] = loop[p] + 1
        /\ q # p => turn'[q] = turn[q] /\ loop'[q] = loop[q]
        /\ gen' = gen /\ monitor' = monitor
    BY <1>0, <1>3 DEF TypeOK, PublishKey
  <2>2. Counted(p) /\ Counted(q) /\ loop[p] \in Nat
    BY <1>0 DEF CountInv, TypeOK
  <2>3. CASE q = p
    BY <2>1, <2>2, <2>3 DEF Counted
  <2>4. CASE q # p
    BY <2>1, <2>2, <2>4 DEF Counted
  <2> QED BY <2>3, <2>4
<1>5. ASSUME NEW p \in Peers, AnnounceAbort(p) \/ AnnounceKey(p), NEW q \in Peers
      PROVE  Counted(q)'
  <2>1. UNCHANGED <<gen, loop, monitor>> /\ (turn'[q] = "made" <=> turn[q] = "made")
    BY <1>0, <1>5, TurnEnds
  <2>2. Counted(q)
    BY DEF CountInv
  <2> QED BY <2>1, <2>2 DEF Counted
<1>4. CASE UNCHANGED <<gen, loop, turn, monitor>>
  BY <1>0, <1>4 DEF CountInv, Counted
<1> QED BY <1>0, <1>1, <1>2, <1>3, <1>4, <1>5
        DEF CountInv, Next, Exhausted, vars, SetCallback, Capture, SendFrame,
            SenderDies, Receive

\* The monitor's counters are those of the rotation, for any number of peers
\* and rounds (qber_monitor.py:83, av.py:95-120).
THEOREM CountersAgree == Spec => []MonitorCountsRotations
<1>1. CASE Generator = "BB84"
  <2>1. CountInv => MonitorCountsRotations
    BY DEF CountInv, Counted, MonitorCountsRotations
  <2> QED BY <1>1, <2>1, CountInit, CountStep, PTL DEF Spec
<1>2. CASE Generator # "BB84"
  <2>1. MonitorCountsRotations
    BY <1>2 DEF MonitorCountsRotations
  <2> QED BY <2>1, PTL
<1> QED BY <1>1, <1>2

-----------------------------------------------------------------------------
(* What the callback heard *)

\* The outcome that a turn still has to announce is what the monitor recorded
\* last, and a key that was published is the one in use; who has no callback, or
\* no BB84, heard nothing.
Heard(p) ==
    /\ ~callback[p] \/ Generator # "BB84" => told[p] = "nothing"
    /\ Generator = "BB84" =>
          /\ turn[p] = "failed" => monitor[p].latest \in Bad
          /\ turn[p] \in {"made", "published"} => monitor[p].latest \in Good
    /\ turn[p] = "published" => av[p] = [idx |-> loop[p] - 1, key |-> gen[p].key]
    /\ told[p] # "nothing" /\ turn[p] = "round" =>
          \/ told[p] = "intrusion_detected" /\ monitor[p].latest \in Bad
          \/ /\ told[p] = "key_redistributed" /\ monitor[p].latest \in Good
             /\ av[p] = [idx |-> loop[p] - 1, key |-> gen[p].key]

HeardInv == TypeOK /\ \A p \in Peers : Heard(p)

LEMMA HeardInit == Init => HeardInv
BY InitType DEF HeardInv, Heard, Init

LEMMA HeardStep == HeardInv /\ [Next]_vars => HeardInv'
<1> SUFFICES ASSUME HeardInv, [Next]_vars PROVE HeardInv'
  OBVIOUS
<1>0. TypeOK /\ TypeOK'
  BY TypeStep DEF HeardInv
<1>1. ASSUME NEW p \in Peers, NEW r \in Rounds, GenerateKey(p, r) \/ RoundAborts(p, r),
             NEW q \in Peers
      PROVE  Heard(q)'
  <2>1. /\ UNCHANGED <<av, loop, callback, told>>
        /\ q # p => turn'[q] = turn[q] /\ gen'[q] = gen[q]
        /\ turn'[p] = IF Aborted(r) THEN "failed" ELSE "made"
        /\ Observed(p, r)
    BY <1>0, <1>1 DEF TypeOK, GenerateKey, RoundAborts
  <2>2. Heard(q)
    BY DEF HeardInv
  <2>3. CASE Generator = "BB84"
    <3>1. /\ q # p => monitor'[q] = monitor[q]
          /\ monitor'[p].latest = Classify(r)
      BY <1>0, <2>1, <2>3, ObservedFacts
    <3>2. Classify(r) \in IF Aborted(r) THEN Bad ELSE Good
      BY ClassifyFacts
    <3>3. CASE q = p
      BY <2>1, <2>2, <2>3, <3>1, <3>2, <3>3 DEF Heard
    <3>4. CASE q # p
      BY <2>1, <2>2, <3>1, <3>4 DEF Heard
    <3> QED BY <3>3, <3>4
  <2>4. CASE Generator # "BB84"
    BY <2>1, <2>2, <2>4 DEF Heard
  <2> QED BY <2>3, <2>4
<1>2. ASSUME NEW p \in Peers, PublishKey(p), NEW q \in Peers PROVE Heard(q)'
  <2>1. /\ turn[p] = "made" /\ turn'[p] = "published"
        /\ av'[p] = [idx |-> loop[p], key |-> gen[p].key]
        /\ loop'[p] = loop[p] + 1
        /\ q # p => turn'[q] = turn[q] /\ av'[q] = av[q] /\ loop'[q] = loop[q]
        /\ UNCHANGED <<gen, monitor, callback, told>>
    BY <1>0, <1>2 DEF TypeOK, PublishKey, Published
  <2>2. Heard(q) /\ loop[p] \in Nat
    BY <1>0 DEF HeardInv, TypeOK
  <2>3. CASE q = p
    <3>1. loop'[p] - 1 = loop[p]
      BY <2>1, <2>2
    <3> QED BY <2>1, <2>2, <2>3, <3>1 DEF Heard
  <2>4. CASE q # p
    BY <2>1, <2>2, <2>4 DEF Heard
  <2> QED BY <2>3, <2>4
<1>3. ASSUME NEW p \in Peers, AnnounceAbort(p) \/ AnnounceKey(p), NEW q \in Peers
      PROVE  Heard(q)'
  <2>1. /\ UNCHANGED <<gen, av, loop, monitor, callback>>
        /\ turn'[p] = "round" /\ (q # p => turn'[q] = turn[q])
    BY <1>0, <1>3, TurnEnds
  <2>2. Heard(p) /\ Heard(q)
    BY DEF HeardInv
  <2>3. PICK event \in {"intrusion_detected", "key_redistributed"} :
           /\ Announce(p, event)
           /\ turn[p] = IF event = "intrusion_detected" THEN "failed" ELSE "published"
    BY <1>3 DEF AnnounceAbort, AnnounceKey, EndTurn
  <2>4. /\ q # p => told'[q] = told[q]
        /\ told'[p] = IF Generator = "BB84" /\ callback[p] THEN event ELSE told[p]
    BY <1>0, <2>3 DEF TypeOK, Announce
  <2>5. CASE q # p
    BY <2>1, <2>2, <2>4, <2>5 DEF Heard
  <2>6. CASE q = p /\ Generator = "BB84" /\ callback[p]
    BY <2>1, <2>2, <2>3, <2>4, <2>6 DEF Heard
  <2>7. CASE q = p /\ ~(Generator = "BB84" /\ callback[p])
    BY <2>1, <2>2, <2>4, <2>7 DEF Heard
  <2> QED BY <2>5, <2>6, <2>7
<1>4. ASSUME NEW p \in Peers, SetCallback(p), NEW q \in Peers PROVE Heard(q)'
  <2>1. /\ UNCHANGED <<gen, av, loop, turn, told, monitor>>
        /\ callback'[q] = callback[q] \/ callback'[q]
    BY <1>0, <1>4 DEF TypeOK, SetCallback
  <2>2. Heard(q)
    BY DEF HeardInv
  <2> QED BY <2>1, <2>2 DEF Heard
<1>5. CASE UNCHANGED <<gen, av, loop, turn, monitor, callback, told>>
  BY <1>0, <1>5 DEF HeardInv, Heard
<1> QED BY <1>0, <1>1, <1>2, <1>3, <1>4, <1>5
        DEF HeardInv, Next, Exhausted, vars, Capture, SendFrame, SenderDies, Receive

\* Whenever a turn of the rotation is over, the callback's last event, the
\* monitor's and the key in use agree, in any interleaving of the peers' threads
\* and of the one that sets the callback (av.py:98-130).
THEOREM CallbackAgrees == Spec => []ToldWhatHappened
<1>1. HeardInv => ToldWhatHappened
  BY DEF HeardInv, Heard, Bad, Good, ToldWhatHappened
<1> QED BY <1>1, HeardInit, HeardStep, PTL DEF Spec

-----------------------------------------------------------------------------
(* Peers that do not read one file *)

\* The keys that a peer can hold: the preset one, or those it drew itself.
Held(p) == IF Generator = "DEBUG" THEN {DebugKey}
           ELSE {EmptyKey} \cup [from : {p}, nth : Nat, size : {"full", "short"}]

\* The keys under which a frame for q can have been encrypted.
SentTo(q) == {k \in UNION {Held(p) : p \in Peers \ {q}} : Encrypts(k)}

\* Every pair that was read from AV.key has a key of the peer that read it,
\* wherever it is now.
HeldInv ==
    /\ TypeOK
    /\ \A p \in Peers :
          /\ gen[p].key \in Held(p)
          /\ av[p].key \in Held(p)
          /\ sender[p].at = "captured" => sender[p].key \in Held(p)
          /\ \A i \in 1..Len(wire[p]) : wire[p][i].key \in SentTo(p)
          /\ played[p] # NotPlaying =>
                played[p].sent \in SentTo(p) /\ played[p].used \in Held(p)

LEMMA GeneratedHeld ==
    ASSUME Generator # "FILE", NEW p \in Peers, NEW r \in Rounds,
           NEW g \in [drawn : Nat, key : Key],
           \/ g.key \in Held(p)
           \/ g.key = EmptyKey /\ (Generator = "DEBUG" => ~Aborted(r))
    PROVE  Generated(g, p, r).key \in Held(p)
<1>1. CASE Aborted(r)
  <2>1. Generated(g, p, r).key = g.key
    BY <1>1, GeneratedFacts
  <2> QED BY <1>1, <2>1 DEF Held
<1>2. CASE ~Aborted(r)
  <2>1. Generated(g, p, r).key = NthKey(p, g.drawn + 1, r.key)
    BY <1>2, GeneratedFacts
  <2>2. r.key \in {"full", "short"}
    BY <1>2, RoundFacts
  <2> QED BY <2>1, <2>2 DEF NthKey, Held
<1> QED BY <1>1, <1>2

LEMMA HeldInit == ASSUME Generator # "FILE" PROVE Init => HeldInv
<1> SUFFICES ASSUME Init PROVE HeldInv
  OBVIOUS
<1>1. PICK r \in [Peers -> Rounds] :
          gen = [p \in Peers |-> Generated(NoGenerator, p, r[p])]
  BY DEF Init
<1>2. NoGenerator \in [drawn : Nat, key : Key] /\ NoGenerator.key = EmptyKey
  BY EmptyKeyType DEF NoGenerator
<1>3. \A x \in Rounds : Generator = "DEBUG" => ~Aborted(x)
  BY DEF Rounds, Aborted
<1>4. \A p \in Peers : gen[p].key \in Held(p)
  BY <1>1, <1>2, <1>3, GeneratedHeld
<1>5. \A p \in Peers : /\ av[p].key = gen[p].key
                       /\ sender[p].at = "idle"
                       /\ Len(wire[p]) = 0
                       /\ played[p] = NotPlaying
  BY DEF Init, IdleSender
<1> QED BY <1>4, <1>5, InitType DEF HeldInv

LEMMA HeldStep == ASSUME Generator # "FILE" PROVE HeldInv /\ [Next]_vars => HeldInv'
<1> SUFFICES ASSUME HeldInv, [Next]_vars PROVE HeldInv'
  OBVIOUS
<1>0. TypeOK /\ TypeOK'
  BY TypeStep DEF HeldInv
<1>1. ASSUME NEW p \in Peers, NEW r \in Rounds, GenerateKey(p, r) \/ RoundAborts(p, r)
      PROVE  HeldInv'
  <2>1. /\ gen' = [gen EXCEPT ![p] = Generated(gen[p], p, r)]
        /\ UNCHANGED <<av, sender, wire, played>>
    BY <1>1 DEF GenerateKey, RoundAborts
  <2>2. Generated(gen[p], p, r).key \in Held(p)
    <3>1. gen[p] \in [drawn : Nat, key : Key] /\ gen[p].key \in Held(p)
      BY <1>0 DEF HeldInv, TypeOK
    <3> QED BY <3>1, GeneratedHeld
  <2>3. \A q \in Peers : gen'[q].key \in Held(q)
    BY <1>0, <2>1, <2>2 DEF HeldInv, TypeOK
  <2> QED BY <1>0, <2>1, <2>3 DEF HeldInv
<1>2. ASSUME NEW p \in Peers, PublishKey(p) PROVE HeldInv'
  <2>1. av' = [av EXCEPT ![p] = Published(p)] /\ UNCHANGED <<gen, sender, wire, played>>
    BY <1>2 DEF PublishKey
  <2>2. \A q \in Peers : av'[q].key \in Held(q)
    BY <1>0, <2>1 DEF HeldInv, TypeOK, Published
  <2> QED BY <1>0, <2>1, <2>2 DEF HeldInv
<1>3. ASSUME NEW p \in Peers, Capture(p) PROVE HeldInv'
  <2>1. /\ sender' = [sender EXCEPT
                        ![p] = [at |-> "captured", idx |-> av[p].idx, key |-> av[p].key]]
        /\ UNCHANGED <<gen, av, wire, played>>
    BY <1>3 DEF Capture
  <2>2. \A q \in Peers : sender'[q].at = "captured" => sender'[q].key \in Held(q)
    BY <1>0, <2>1 DEF HeldInv, TypeOK
  <2> QED BY <1>0, <2>1, <2>2 DEF HeldInv
<1>4. ASSUME NEW p \in Peers, SendFrame(p) PROVE HeldInv'
  <2>1. /\ UNCHANGED <<gen, av, played>>
        /\ Payload(p) \in Pair
        /\ \A q \in Peers : sender'[q].at = "captured" => sender'[q] = sender[q]
    BY <1>0, <1>4 DEF TypeOK, SendFrame, Payload, Pair, IdleSender
  <2>2. \A q \in Peers \ {p} : Payload(p).key \in SentTo(q)
    BY <1>4 DEF HeldInv, SendFrame, Payload, SentTo
  <2>3. ASSUME NEW q \in Peers, NEW i \in 1..Len(wire'[q])
        PROVE  wire'[q][i].key \in SentTo(q)
    <3>1. CASE q = p
      <4>1. wire'[q] = wire[q]
        BY <1>0, <1>4, <3>1 DEF TypeOK, SendFrame
      <4> QED BY <2>3, <4>1 DEF HeldInv
    <3>2. CASE q # p
      <4>1. wire[q] \in Seq(Pair) /\ wire'[q] = Append(wire[q], Payload(p))
        BY <1>0, <1>4, <3>2 DEF TypeOK, SendFrame
      <4>2. CASE i = Len(wire[q]) + 1
        BY <2>1, <2>2, <3>2, <4>1, <4>2, AppendProperties
      <4>3. CASE i \in 1..Len(wire[q])
        <5>1. wire'[q][i] = wire[q][i]
          BY <2>1, <4>1, <4>3, AppendProperties
        <5> QED BY <4>3, <5>1 DEF HeldInv
      <4> QED BY <2>1, <2>3, <4>1, <4>2, <4>3, AppendProperties
    <3> QED BY <3>1, <3>2
  <2> QED BY <1>0, <2>1, <2>3 DEF HeldInv
<1>5. ASSUME NEW p \in Peers, SenderDies(p) PROVE HeldInv'
  <2>1. /\ UNCHANGED <<gen, av, wire, played>>
        /\ \A q \in Peers : sender'[q].at = "captured" => sender'[q] = sender[q]
    <3>1. sender[p] \in Sender
      BY <1>0 DEF TypeOK, Sender
    <3>2. sender'[p] = [sender[p] EXCEPT !.at = "dead"]
      BY <1>0, <1>5 DEF TypeOK, SenderDies
    <3>3. sender'[p].at = "dead"
      BY <3>1, <3>2 DEF Sender
    <3> QED BY <1>0, <1>5, <3>3 DEF TypeOK, SenderDies
  <2> QED BY <1>0, <2>1 DEF HeldInv
<1>6. ASSUME NEW q \in Peers, Receive(q) PROVE HeldInv'
  <2>1. wire[q] \in Seq(Pair) /\ wire[q] # << >> /\ wire'[q] = Tail(wire[q])
    BY <1>0, <1>6 DEF TypeOK, Receive
  <2>2. ASSUME NEW p \in Peers, NEW i \in 1..Len(wire'[p])
        PROVE  wire'[p][i].key \in SentTo(p)
    <3>1. CASE p = q
      <4>1. Len(wire[q]) \in Nat /\ Len(wire'[q]) = Len(wire[q]) - 1
        BY <2>1, HeadTailProperties, LenProperties
      <4>2. i \in 1..Len(Tail(wire[q]))
        BY <2>1, <2>2, <3>1
      <4>3. wire'[q][i] = wire[q][i + 1]
        BY <2>1, <4>2, HeadTailProperties
      <4>4. i + 1 \in 1..Len(wire[q])
        BY <2>2, <3>1, <4>1
      <4> QED BY <3>1, <4>3, <4>4 DEF HeldInv
    <3>2. CASE p # q
      <4>1. wire'[p] = wire[p]
        BY <1>0, <1>6, <3>2 DEF TypeOK, Receive
      <4> QED BY <2>2, <4>1 DEF HeldInv
    <3> QED BY <3>1, <3>2
  <2>3. Head(wire[q]).key \in SentTo(q)
    <3>1. Head(wire[q]) = wire[q][1] /\ 1 \in 1..Len(wire[q])
      BY <2>1, HeadTailProperties
    <3> QED BY <3>1 DEF HeldInv
  <2>4. ASSUME NEW p \in Peers, played'[p] # NotPlaying
        PROVE  played'[p].sent \in SentTo(p) /\ played'[p].used \in Held(p)
    <3>1. CASE p = q /\ Accepts(q, Head(wire[q]))
      <4>1. played'[q] = [idx  |-> av[q].idx, sent |-> Head(wire[q]).key,
                          used |-> av[q].key]
        BY <1>0, <1>6, <3>1 DEF TypeOK, Receive
      <4> QED BY <2>3, <3>1, <4>1 DEF HeldInv
    <3>2. CASE ~(p = q /\ Accepts(q, Head(wire[q])))
      <4>1. played'[p] = played[p]
        BY <1>0, <1>6, <3>2 DEF TypeOK, Receive
      <4> QED BY <2>4, <4>1 DEF HeldInv
    <3> QED BY <3>1, <3>2
  <2>5. UNCHANGED <<gen, av, sender>>
    BY <1>6 DEF Receive
  <2> QED BY <1>0, <2>2, <2>4, <2>5 DEF HeldInv
<1>8. ASSUME NEW p \in Peers, AnnounceAbort(p) \/ AnnounceKey(p) PROVE HeldInv'
  <2>1. UNCHANGED <<gen, av, sender, wire, played>>
    BY <1>0, <1>8, TurnEnds
  <2> QED BY <1>0, <2>1 DEF HeldInv
<1>7. CASE UNCHANGED <<gen, av, sender, wire, played>>
  BY <1>0, <1>7 DEF HeldInv
<1> QED BY <1>1, <1>2, <1>3, <1>4, <1>5, <1>6, <1>7, <1>8
        DEF Next, Exhausted, vars, SetCallback

\* With the preset key every frame that is accepted is decrypted with the key it
\* was encrypted with, at index 0 too (encryption.py:182-211).
THEOREM PresetKeyMatches == Generator = "DEBUG" => (Spec => []RightKey)
<1> SUFFICES ASSUME Generator = "DEBUG" PROVE Spec => []RightKey
  OBVIOUS
<1>1. HeldInv => RightKey
  BY DEF HeldInv, Held, SentTo, RightKey, NotPlaying
<1>2. (Init => HeldInv) /\ (HeldInv /\ [Next]_vars => HeldInv')
  BY HeldInit, HeldStep
<1> QED BY <1>1, <1>2, PTL DEF Spec

\* Peers that draw their own keys never decrypt a frame with the key it was
\* encrypted with, however their rotations meet: the index that goes with a
\* frame agrees, the keys do not (av.py:78 and av.py:93-120; a generator's key
\* goes nowhere).  The DEBUG scheme, which does not encrypt, is left out.
THEOREM OwnKeysNeverMatch ==
    Generator \in {"RANDOM", "BB84"} /\ Scheme # "DEBUG" =>
        (Spec => [](\A q \in Peers : played[q] # NotPlaying =>
                                         played[q].sent # played[q].used))
<1> SUFFICES ASSUME Generator \in {"RANDOM", "BB84"}, Scheme # "DEBUG"
             PROVE  Spec => [](\A q \in Peers : played[q] # NotPlaying =>
                                         played[q].sent # played[q].used)
  OBVIOUS
<1>1. ASSUME NEW q \in Peers, NEW k \in SentTo(q) PROVE k \notin Held(q)
  <2>1. PICK p \in Peers \ {q} : k \in Held(p)
    BY <1>1 DEF SentTo
  <2>2. k.size # "empty"
    BY <1>1 DEF SentTo, Encrypts
  <2>3. k.from = p
    BY <2>1, <2>2 DEF Held, EmptyKey
  <2> QED BY <2>1, <2>2, <2>3 DEF Held, EmptyKey
<1>2. HeldInv => \A q \in Peers : played[q] # NotPlaying =>
                                     played[q].sent # played[q].used
  BY <1>1 DEF HeldInv
<1>3. (Init => HeldInv) /\ (HeldInv /\ [Next]_vars => HeldInv')
  BY HeldInit, HeldStep
<1> QED BY <1>2, <1>3, PTL DEF Spec

=============================================================================
