---------------------------- MODULE ScheduledWork ----------------------------
(***************************************************************************)
(* What the conversion scheduler promises its callers, as the comments of  *)
(* server/conversion-scheduler.ts and the routes that cancel rely on it:   *)
(* work of one key never overlaps itself, a lane never holds more runs     *)
(* than it has slots, only a run that was not cancelled is given a slot,   *)
(* work that never started is dropped when it is cancelled, and started    *)
(* work stays known until its run has ended.                               *)
(*                                                                         *)
(* ConversionScheduler implements it for many keys, with its queues,       *)
(* counters and deferred drains.  Conversion is the client's side: its one *)
(* source behaves as one key of it.                                        *)
(***************************************************************************)
EXTENDS Integers, FiniteSets

CONSTANTS Keys, Lanes, LaneOf, LaneCapacity,
          Restarts   \* the server may die and lose its scheduler

VARIABLES
    status,     \* per key: what is known of its work
    cancelled   \* per key: its run was told to end

vars == <<status, cancelled>>

Working(l) == {k \in Keys : LaneOf[k] = l /\ status[k] = "working"}

Init ==
    /\ status = [k \in Keys |-> "absent"]
    /\ cancelled = [k \in Keys |-> FALSE]

Request(k) ==
    /\ status[k] = "absent"
    /\ status' = [status EXCEPT ![k] = "waiting"]
    /\ cancelled' = cancelled

\* Slots are handed out; suspended runs compete with work that never ran.
Give(S) ==
    /\ \A k \in S : status[k] \in {"waiting", "suspended"} /\ ~cancelled[k]
    /\ status' = [k \in Keys |-> IF k \in S THEN "working" ELSE status[k]]
    /\ \A l \in Lanes : Cardinality(Working(l)') <= LaneCapacity[l]
    /\ cancelled' = cancelled

Yield(k) ==
    /\ status[k] = "working"
    /\ ~cancelled[k]
    /\ status' = [status EXCEPT ![k] = "suspended"]
    /\ cancelled' = cancelled

Cancel(S) ==
    /\ status' = [k \in Keys |->
                    IF k \in S /\ status[k] = "waiting" THEN "absent"
                    ELSE IF k \in S /\ status[k] = "suspended" THEN "unwinding"
                    ELSE status[k]]
    /\ cancelled' = [k \in Keys |->
                       cancelled[k] \/ (k \in S /\ status[k] \in {"working", "suspended"})]

\* The run has ended; what hears of it may request the same work at once.
End(k) ==
    /\ status[k] \in {"working", "unwinding"}
    /\ \E s \in {"absent", "waiting"} : status' = [status EXCEPT ![k] = s]
    /\ cancelled' = [cancelled EXCEPT ![k] = FALSE]

Restart ==
    /\ Restarts
    /\ status' = [k \in Keys |-> "absent"]
    /\ cancelled' = [k \in Keys |-> FALSE]

Next ==
    \/ \E k \in Keys : Request(k) \/ Yield(k) \/ End(k)
    \/ \E S \in SUBSET Keys : Give(S) \/ Cancel(S)
    \/ Restart

Spec == Init /\ [][Next]_vars
=============================================================================
