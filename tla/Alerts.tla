-------------------------------- MODULE Alerts --------------------------------
(***************************************************************************)
(* The operational alerts of one worker (core/observability/alerts.py),    *)
(* evaluated by whoever asks /api/health (core/app/api/routes/query.py).   *)
(* A gauge alert fires while its value is over a threshold; a counter      *)
(* alert fires when the counter has grown since the evaluation before.     *)
(* One evaluator serves all who ask, and an evaluation runs on the event   *)
(* loop without a pause, so it is one step.                                *)
(***************************************************************************)
EXTENDS Integers

CONSTANTS
    PoolCounters,   \* "pool_timeouts" and "pool_broken_connections"
    CacheCounters,  \* "persistence_dropped" and "persistence_failed"
    Gauges,     \* codes of the alerts that compare a current value
    Critical,   \* the two that exclude each other: "pool_saturated" ...
    Warning     \* ... and "pool_under_pressure"

VARIABLES
    count,      \* the counters, which never go back
    prev,       \* _prev_counters
    known,      \* the keys of _prev_counters
    firing,     \* _firing, the codes of the evaluation before
    first,      \* the value a counter had when it was first looked at
    reported    \* how much of each counter's growth alerts have told

Counters == PoolCounters \cup CacheCounters

vars == <<count, prev, known, firing, first, reported>>

TypeOK ==
    /\ count \in [Counters -> Nat] /\ prev \in [Counters -> Nat]
    /\ known \in SUBSET Counters
    /\ firing \in SUBSET (Counters \cup Gauges)
    /\ first \in [Counters -> Nat] /\ reported \in [Counters -> Nat]

Init ==
    /\ count = [c \in Counters |-> 0] /\ prev = [c \in Counters |-> 0]
    /\ known = {} /\ firing = {}
    /\ first = [c \in Counters |-> 0] /\ reported = [c \in Counters |-> 0]

(* A timeout, a broken connection, a dropped or failed job. *)
Occur(c) ==
    /\ count' = [count EXCEPT ![c] = @ + 1]
    /\ UNCHANGED <<prev, known, firing, first, reported>>

(* _check_counter_delta(): a counter seen for the first time has no delta. *)
Previous(c) == IF c \in known THEN prev[c] ELSE count[c]
Delta(c) == count[c] - Previous(c)

(* evaluate() looks at the counters of the metrics it is given: those of   *)
(* the pool are missing until there is one.                                *)
Looked == {CacheCounters, Counters}

(* _check_pool(), _check_executors() and the others: any gauge may be over *)
(* its threshold, the two of the pool never at once.                       *)
GaugesOver == {over \in SUBSET Gauges : ~({Critical, Warning} \subseteq over)}

(* evaluate() with _log_newly_firing().                                    *)
Evaluate(looked, over) ==
    /\ prev' = [c \in Counters |-> IF c \in looked THEN count[c] ELSE prev[c]]
    /\ known' = known \cup looked
    /\ firing' = {c \in looked : Delta(c) > 0} \cup over
    /\ first' = [c \in Counters |->
                   IF c \in looked \ known THEN count[c] ELSE first[c]]
    /\ reported' = [c \in Counters |->
                      IF c \in looked THEN reported[c] + Delta(c) ELSE reported[c]]
    /\ UNCHANGED count

(* health_check(): somebody asks. *)
HealthCheck ==
    \E looked \in Looked, over \in GaugesOver : Evaluate(looked, over)

Next == HealthCheck \/ \E c \in Counters : Occur(c)

Spec == Init /\ [][Next]_vars

-----------------------------------------------------------------------------

(* What a counter grew by since it was first looked at is told once, and   *)
(* all of it up to the last evaluation: no growth is told twice, however   *)
(* many ask, and none is lost between two of them (alerts.py:9-14).        *)
ToldOnce ==
    \A c \in known : first[c] + reported[c] = prev[c] /\ prev[c] <= count[c]

=============================================================================
