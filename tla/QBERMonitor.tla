----------------------------- MODULE QBERMonitor -----------------------------
(***************************************************************************)
(* What a BB84 round can return (shared/bb84/protocol.py) and what the     *)
(* QBER monitor makes of it (shared/bb84/qber_monitor.py).  The estimated  *)
(* error rate is kept as the band it falls in:                             *)
(*   "low" is below the warning threshold of 5 %, "raised" is below the    *)
(*   abort threshold of 11 %, "high" is the rest.                          *)
(* The key is kept as what AES can do with it: "full" is as long as asked  *)
(* for, "short" is what was left after privacy amplification, "none" is    *)
(* None.                                                                   *)
(***************************************************************************)
EXTENDS Naturals

\* run_round.  Too few detections count as an error rate of 100 %; a high rate
\* always aborts; a low one still does when no secure bits are left.
RoundResults ==
    [qber : {"low", "raised"}, key : {"full", "short", "none"}]
    \cup [qber : {"high"}, key : {"none"}]

Aborted(r) == r.key = "none"

Events == {"normal", "warning", "intrusion_detected", "key_generation_failed"}

\* The classification in record_round.
Classify(r) ==
    CASE Aborted(r) /\ r.qber = "high"   -> "intrusion_detected"
      [] Aborted(r) /\ r.qber # "high"   -> "key_generation_failed"
      [] ~Aborted(r) /\ r.qber = "raised" -> "warning"
      [] OTHER                            -> "normal"

\* A monitor that recorded nothing; "nothing" stands for latest_event None.
NewMonitor ==
    [total |-> 0, successful |-> 0, failed |-> 0, intrusions |-> 0,
     latest |-> "nothing"]

\* record_round: the counters and the newest entry of the history.
Recorded(m, r) ==
    [total      |-> m.total + 1,
     successful |-> m.successful + (IF Aborted(r) THEN 0 ELSE 1),
     failed     |-> m.failed + (IF Aborted(r) THEN 1 ELSE 0),
     intrusions |-> m.intrusions
                    + (IF Classify(r) = "intrusion_detected" THEN 1 ELSE 0),
     latest     |-> Classify(r)]

=============================================================================
