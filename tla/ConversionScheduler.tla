------------------------ MODULE ConversionScheduler ------------------------
(***************************************************************************)
(* The in-memory conversion scheduler of server/conversion-scheduler.ts:   *)
(* when derived-content work runs.  Light and heavy work share bounded     *)
(* lanes, a queued job may be refined by a bounded cost classifier, a      *)
(* running job may yield its lane and wait for it again, and every job may *)
(* be cancelled in any of these states.                                    *)
(*                                                                         *)
(* Every synchronous method of the class is one action.  The two deferred  *)
(* steps (queueMicrotask) are actions of their own, because other          *)
(* callbacks run between a request for a drain and the drain.  The jobs    *)
(* and the classifiers are asynchronous code of the callers: they end, and *)
(* jobs yield, at any moment.                                              *)
(*                                                                         *)
(* A task is identified by its key.  Arrival order (the seq number of the  *)
(* code) is kept as the set of live tasks that arrived earlier, so that    *)
(* arrivals need no bound.                                                 *)
(***************************************************************************)
EXTENDS Integers, FiniteSets

CONSTANTS Keys,               \* task identities (canonical source paths)
          Folders,            \* folders that a window can have open
          FolderOf,           \* the folder that contains a task's scope
          LaneOf,             \* the lane a task's format runs in
          LaneCapacity,       \* slots per lane
          ClassifierCapacity, \* concurrent cost classifiers
          Classified,         \* the keys whose jobs carry a classifyCost
          Requested,          \* the urgencies that clients ask for
          Costs               \* the costs a job or a classifier can report

Lanes == {"light", "heavy"}
Urgencies == {"interactive", "active-folder", "background"}

ASSUME SchedulerAssumption ==
    /\ IsFiniteSet(Keys)
    /\ FolderOf \in [Keys -> Folders]
    /\ LaneOf \in [Keys -> Lanes]
    /\ LaneCapacity \in [Lanes -> Nat \ {0}]   \* positiveInteger()
    /\ ClassifierCapacity \in Nat \ {0}
    /\ Classified \subseteq Keys
    /\ Requested \subseteq Urgencies
    /\ Costs \subseteq Nat /\ Costs # {}

VARIABLES
    task,       \* the tasks map: one record per key, "absent" when not in it
    before,     \* before[k]: the live tasks that arrived before the task k
    running,    \* the lane counters
    body,       \* where the job's run() stands, per key
    strays,     \* aborted classifier runs whose task is gone, per key
    classifiersRunning,
    drainScheduled,
    classifierDrainScheduled,
    active      \* the folders that some window has open

vars == <<task, before, running, body, strays, classifiersRunning,
          drainScheduled, classifierDrainScheduled, active>>

-----------------------------------------------------------------------------
UrgencyRank ==
    [u \in Urgencies |-> IF u = "interactive" THEN 0
                         ELSE IF u = "active-folder" THEN 1 ELSE 2]

\* age: "due" once the task has waited ageingMs, "aged" once applyDueAgeing
\* has seen that.  started, ownsLane and cancelling are the code's flags;
\* cancelling also stands for an aborted controller, set in the same place.
TaskRecord ==
    [state      : {"absent", "queued", "running", "yielded"},
     urgency    : Urgencies,
     cost       : Costs,
     age        : {"young", "due", "aged"},
     classifier : {"queued", "running", "done"},
     started    : BOOLEAN,
     ownsLane   : BOOLEAN,
     cancelling : BOOLEAN]

NewTask(k, urgency, cost) ==
    [state      |-> "queued",
     urgency    |-> urgency,
     cost       |-> cost,
     age        |-> "young",
     classifier |-> IF k \in Classified THEN "queued" ELSE "done",
     started    |-> FALSE,
     ownsLane   |-> FALSE,
     cancelling |-> FALSE]

NoTask ==
    [state      |-> "absent",
     urgency    |-> "background",
     cost       |-> CHOOSE cost \in Costs : TRUE,
     age        |-> "young",
     classifier |-> "done",
     started    |-> FALSE,
     ownsLane   |-> FALSE,
     cancelling |-> FALSE]

Live(k) == task[k].state # "absent"
KeysOf(lane) == {k \in Keys : LaneOf[k] = lane}
Owners(lane) == {k \in KeysOf(lane) : task[k].ownsLane}

\* A task that leaves the map leaves the arrival order too.
Forget(S) == [k \in Keys |-> IF k \in S THEN {} ELSE before[k] \ S]

Decrement(n) == IF n > 0 THEN n - 1 ELSE 0   \* Math.max(0, n - 1)

Init ==
    /\ task = [k \in Keys |-> NoTask]
    /\ before = [k \in Keys |-> {}]
    /\ running = [l \in Lanes |-> 0]
    /\ body = [k \in Keys |-> "none"]
    /\ strays = [k \in Keys |-> 0]
    /\ classifiersRunning = 0
    /\ drainScheduled = FALSE
    /\ classifierDrainScheduled = FALSE
    /\ active = {}

-----------------------------------------------------------------------------
(* Order of the waiting tasks. T is a tasks map. *)

EffectiveUrgency(T, k) ==
    IF /\ T[k].urgency = "background"
       /\ (FolderOf[k] \in active \/ T[k].age = "aged")
    THEN "active-folder"
    ELSE T[k].urgency

Precedes(T, j, k) ==
    LET rj == UrgencyRank[EffectiveUrgency(T, j)]
        rk == UrgencyRank[EffectiveUrgency(T, k)]
    IN  \/ rj < rk
        \/ rj = rk /\ T[j].cost < T[k].cost
        \/ rj = rk /\ T[j].cost = T[k].cost /\ j \in before[k]

\* Variant with a bug (for KeepsPromise): cancelled tasks compete.
EligibleEvenCancelled(T, lane) ==
    {k \in KeysOf(lane) : T[k].state \in {"queued", "yielded"}}

Eligible(T, lane) ==
    {k \in KeysOf(lane) : T[k].state \in {"queued", "yielded"} /\ ~T[k].cancelling}

\* What drainLane takes: the best tasks, as many as there are free slots.
Selected(T, lane, S) ==
    LET waiting == Eligible(T, lane)
        free    == LaneCapacity[lane] - running[lane]
    IN  /\ S \subseteq waiting
        /\ \/ S = waiting /\ Cardinality(S) <= free
           \/ S # waiting /\ Cardinality(S) = free
        /\ \A j \in S, k \in waiting \ S : Precedes(T, j, k)

CanAge(T, k) == T[k].state \in {"queued", "yielded"} /\ T[k].urgency = "background"

\* Variant with a bug (for BackgroundNotStarved): nothing ever ages.
NoAgeing(T) == T

ApplyDueAgeing(T) ==
    [k \in Keys |-> IF CanAge(T, k) /\ T[k].age = "due"
                    THEN [T[k] EXCEPT !.age = "aged"]
                    ELSE T[k]]

-----------------------------------------------------------------------------
(* Calls of the clients. *)

ScheduleNew(k, urgency, cost) ==
    /\ ~Live(k)
    /\ task' = [task EXCEPT ![k] = NewTask(k, urgency, cost)]
    /\ before' = [before EXCEPT ![k] = {j \in Keys : Live(j)}]
    /\ drainScheduled' = TRUE
    /\ classifierDrainScheduled' = TRUE
    /\ UNCHANGED <<running, body, strays, classifiersRunning, active>>

\* A second request for a waiting task joins it and can only improve its place.
\* (For a running task schedule() changes nothing.)
ScheduleAgain(k, urgency, cost) ==
    /\ Live(k)
    /\ task[k].state # "running"
    /\ task' = [task EXCEPT
         ![k].urgency = IF UrgencyRank[urgency] < UrgencyRank[@] THEN urgency ELSE @,
         ![k].cost    = IF cost < @ THEN cost ELSE @]
    /\ task' # task
    /\ UNCHANGED <<before, running, body, strays, classifiersRunning,
                   drainScheduled, classifierDrainScheduled, active>>

Promote(k, urgency) ==
    /\ Live(k)
    /\ task[k].state # "running"
    /\ UrgencyRank[urgency] < UrgencyRank[task[k].urgency]
    /\ task' = [task EXCEPT ![k].urgency = urgency]
    /\ drainScheduled' = TRUE
    /\ UNCHANGED <<before, running, body, strays, classifiersRunning,
                   classifierDrainScheduled, active>>

\* Variant with a bug (for CancelSettles): a suspended run is not woken.
CancelWithoutWaking(S) ==
    /\ \E k \in S : Live(k) /\ task[k].started
    /\ task' = [k \in Keys |-> IF k \in S /\ Live(k) /\ task[k].started
                               THEN [task[k] EXCEPT !.cancelling = TRUE] ELSE task[k]]
    /\ classifierDrainScheduled' = TRUE
    /\ UNCHANGED <<before, running, body, strays, classifiersRunning,
                   drainScheduled, active>>

\* cancel, cancelScope, cancelUnder and cancelAll differ in the keys they take.
\* A task whose run never started is dropped at once; a started one is aborted
\* and stays in the map until its run has ended.  A suspended run is woken, to
\* unwind without a lane.
CancelKeys(S) ==
    LET dropped == {k \in S : Live(k) /\ ~task[k].started}
        doomed  == {k \in S : Live(k) /\ task[k].started}
    IN  /\ \E k \in S : Live(k) \/ strays[k] > 0
        /\ task' = [k \in Keys |->
              IF k \in dropped THEN NoTask
              ELSE IF k \in doomed THEN [task[k] EXCEPT !.cancelling = TRUE]
              ELSE task[k]]
        /\ before' = Forget(dropped)
        /\ body' = [k \in Keys |->
              IF k \in doomed /\ body[k] = "suspended" THEN "unwinding" ELSE body[k]]
        /\ strays' = [k \in Keys |->
              IF k \in dropped /\ task[k].classifier = "running"
              THEN strays[k] + 1 ELSE strays[k]]
        /\ drainScheduled' = (drainScheduled \/ dropped # {})
        /\ classifierDrainScheduled' = TRUE
        /\ UNCHANGED <<running, classifiersRunning, active>>

Cancel(k) == CancelKeys({k})
CancelUnder(f) == CancelKeys({k \in Keys : FolderOf[k] = f})
CancelAll == CancelKeys(Keys)

\* A window opens or closes a folder; the listener calls prioritiesChanged().
PrioritiesChanged(folders) ==
    /\ active' = folders
    /\ folders # active
    /\ drainScheduled' = (drainScheduled \/ \E k \in Keys : task[k].state \in {"queued", "yielded"})
    /\ UNCHANGED <<task, before, running, body, strays, classifiersRunning,
                   classifierDrainScheduled>>

-----------------------------------------------------------------------------
(* The deferred drain, and the ageing timer. *)

\* A resumed task keeps what it had; a fresh one starts its run, which aborts
\* the classifier run it may have and withdraws a classifier not yet started.
Grant(t) ==
    [t EXCEPT !.state = "running", !.ownsLane = TRUE, !.started = TRUE,
              !.classifier = IF @ = "queued" THEN "done" ELSE @]

Drain ==
    /\ drainScheduled
    /\ LET T == ApplyDueAgeing(task)
       IN  \E granted \in SUBSET Keys :
             /\ \A l \in Lanes : Selected(T, l, granted \cap KeysOf(l))
             /\ task' = [k \in Keys |-> IF k \in granted THEN Grant(T[k]) ELSE T[k]]
             /\ body' = [k \in Keys |-> IF k \in granted THEN "working" ELSE body[k]]
             /\ running' = [l \in Lanes |->
                              running[l] + Cardinality(granted \cap KeysOf(l))]
             /\ classifierDrainScheduled' = (classifierDrainScheduled \/ granted # {})
    /\ drainScheduled' = FALSE
    /\ UNCHANGED <<before, strays, classifiersRunning, active>>

\* The clock: the oldest background task that is still young has now waited
\* ageingMs.
TimePasses(k) ==
    /\ Live(k)
    /\ task[k].urgency = "background"
    /\ task[k].age = "young"
    /\ \A j \in before[k] : task[j].urgency = "background" => task[j].age # "young"
    /\ task' = [task EXCEPT ![k].age = "due"]
    /\ UNCHANGED <<before, running, body, strays, classifiersRunning,
                   drainScheduled, classifierDrainScheduled, active>>

AgeingTimer ==
    /\ task' = ApplyDueAgeing(task)
    /\ task' # task
    /\ drainScheduled' = TRUE
    /\ UNCHANGED <<before, running, body, strays, classifiersRunning,
                   classifierDrainScheduled, active>>

-----------------------------------------------------------------------------
(* The jobs. *)

\* Variant with a bug (for NoLostDrain): the yielded slot is offered to nobody.
YieldLaneSilently(k) ==
    /\ body[k] = "working"
    /\ ~task[k].cancelling
    /\ task[k].state = "running" /\ task[k].ownsLane
    /\ task' = [task EXCEPT ![k].state = "yielded", ![k].ownsLane = FALSE]
    /\ body' = [body EXCEPT ![k] = "suspended"]
    /\ running' = [running EXCEPT ![LaneOf[k]] = Decrement(@)]
    /\ UNCHANGED <<before, strays, classifiersRunning, drainScheduled,
                   classifierDrainScheduled, active>>

\* yieldLane(): refused when the task is aborted or does not own its lane.
YieldLane(k) ==
    /\ body[k] = "working"
    /\ ~task[k].cancelling
    /\ task[k].state = "running" /\ task[k].ownsLane
    /\ task' = [task EXCEPT ![k].state = "yielded", ![k].ownsLane = FALSE]
    /\ body' = [body EXCEPT ![k] = "suspended"]
    /\ running' = [running EXCEPT ![LaneOf[k]] = Decrement(@)]
    /\ drainScheduled' = TRUE
    /\ UNCHANGED <<before, strays, classifiersRunning, classifierDrainScheduled, active>>

\* Variant with a bug (for LaneAccounting and TypeOK): a slot is returned even by
\* a task that has given it up.
FinishAlwaysReleases(k) ==
    /\ body[k] \in {"working", "unwinding"}
    /\ body' = [body EXCEPT ![k] = "none"]
    /\ task' = [task EXCEPT ![k] = NoTask]
    /\ before' = Forget({k})
    /\ running' = [running EXCEPT ![LaneOf[k]] = @ - 1]
    /\ strays' = [strays EXCEPT ![k] = IF task[k].classifier = "running" THEN @ + 1 ELSE @]
    /\ drainScheduled' = TRUE
    /\ classifierDrainScheduled' = TRUE
    /\ UNCHANGED <<classifiersRunning, active>>

\* The run ends, well or not, and finish() retires the task.  A classifier run
\* that is still winding down loses its task.
Finish(k) ==
    /\ body[k] \in {"working", "unwinding"}
    /\ body' = [body EXCEPT ![k] = "none"]
    /\ task' = [task EXCEPT ![k] = NoTask]
    /\ before' = Forget({k})
    /\ running' = IF task[k].ownsLane
                  THEN [running EXCEPT ![LaneOf[k]] = Decrement(@)]
                  ELSE running
    /\ strays' = [strays EXCEPT ![k] = IF task[k].classifier = "running" THEN @ + 1 ELSE @]
    /\ drainScheduled' = TRUE
    /\ classifierDrainScheduled' = TRUE
    /\ UNCHANGED <<classifiersRunning, active>>

-----------------------------------------------------------------------------
(* The classifiers. *)

Unclassified == {k \in Keys : task[k].state = "queued" /\ task[k].classifier = "queued"}

\* Classifiers start in arrival order while there is capacity.
ClassifierDrain ==
    LET free == ClassifierCapacity - classifiersRunning
    IN  /\ classifierDrainScheduled
        /\ \E S \in SUBSET Unclassified :
             /\ \/ S = Unclassified /\ Cardinality(S) <= free
                \/ S # Unclassified /\ Cardinality(S) = free
             /\ \A j \in S, k \in Unclassified \ S : j \in before[k]
             /\ task' = [k \in Keys |-> IF k \in S THEN [task[k] EXCEPT !.classifier = "running"]
                                        ELSE task[k]]
             /\ classifiersRunning' = classifiersRunning + Cardinality(S)
        /\ classifierDrainScheduled' = FALSE
        /\ UNCHANGED <<before, running, body, strays, drainScheduled, active>>

\* A classifier reports a cost, which counts only while its task is queued.
ClassifierReports(k, cost) ==
    /\ task[k].classifier = "running"
    /\ task' = [task EXCEPT ![k].classifier = "done",
                            ![k].cost = IF task[k].state = "queued" THEN cost ELSE @]
    /\ drainScheduled' = (drainScheduled \/ task'[k].cost # task[k].cost)
    /\ classifiersRunning' = Decrement(classifiersRunning)
    /\ classifierDrainScheduled' = TRUE
    /\ UNCHANGED <<before, running, body, strays, active>>

\* Variant with a bug (for ClassifierAccounting): an aborted classifier keeps
\* its slot.
StrayKeepsSlot(k) ==
    /\ strays[k] > 0
    /\ strays' = [strays EXCEPT ![k] = @ - 1]
    /\ classifierDrainScheduled' = TRUE
    /\ UNCHANGED <<task, before, running, body, classifiersRunning,
                   drainScheduled, active>>

\* An aborted classifier ends after its task has gone.
StrayClassifierEnds(k) ==
    /\ strays[k] > 0
    /\ strays' = [strays EXCEPT ![k] = @ - 1]
    /\ classifiersRunning' = Decrement(classifiersRunning)
    /\ classifierDrainScheduled' = TRUE
    /\ UNCHANGED <<task, before, running, body, drainScheduled, active>>

-----------------------------------------------------------------------------
Next ==
    \/ \E k \in Keys :
         \/ \E urgency \in Requested, cost \in Costs :
              ScheduleNew(k, urgency, cost) \/ ScheduleAgain(k, urgency, cost)
         \/ \E urgency \in Requested : Promote(k, urgency)
         \/ Cancel(k)
         \/ TimePasses(k)
         \/ YieldLane(k)
         \/ Finish(k)
         \/ \E cost \in Costs : ClassifierReports(k, cost)
         \/ StrayClassifierEnds(k)
    \/ \E f \in Folders : CancelUnder(f)
    \/ CancelAll
    \/ \E folders \in SUBSET Folders : PrioritiesChanged(folders)
    \/ Drain
    \/ AgeingTimer
    \/ ClassifierDrain

Spec == Init /\ [][Next]_vars

\* Microtasks and timers fire, classifiers settle (a probe is killed and
\* settled by its own timers), a run ends although it may yield any number of
\* times before (its work units are finitely many).  Clients call or do not.
Fairness ==
    /\ WF_vars(Drain)
    /\ WF_vars(ClassifierDrain)
    /\ WF_vars(AgeingTimer)
    /\ \A k \in Keys :
         /\ WF_vars(TimePasses(k))
         /\ SF_vars(Finish(k))
         /\ WF_vars(\E cost \in Costs : ClassifierReports(k, cost))
         /\ WF_vars(StrayClassifierEnds(k))

FairSpec == Spec /\ Fairness

-----------------------------------------------------------------------------
(* Properties. *)

\* The types of the variables; the records are TaskRecord.
TypeOK ==
    /\ task \in [Keys -> TaskRecord]
    /\ before \in [Keys -> SUBSET Keys]
    /\ running \in [Lanes -> Nat]
    /\ body \in [Keys -> {"none", "working", "suspended", "unwinding"}]
    /\ strays \in [Keys -> Nat]
    /\ classifiersRunning \in Nat
    /\ drainScheduled \in BOOLEAN
    /\ classifierDrainScheduled \in BOOLEAN
    /\ active \in SUBSET Folders

\* The lane counters, moved by grants, yields and retirements in any order,
\* always equal the number of tasks that own the lane, and never exceed its
\* capacity: a counter that drifted would leak a slot for good or overcommit.
LaneAccounting ==
    \A l \in Lanes : /\ running[l] = Cardinality(Owners(l))
                     /\ running[l] <= LaneCapacity[l]

\* A run in progress always belongs to a started task of the map, so that
\* hasUnder() and the barrier of cancel() see it; it works only while its task
\* owns the lane, and waits for the lane or unwinds without it exactly when
\* its task is yielded.
BodyOwnership ==
    \A k \in Keys :
        /\ body[k] # "none" <=> Live(k) /\ task[k].started
        /\ body[k] = "working" <=> task[k].ownsLane
        /\ body[k] = "suspended" <=> task[k].state = "yielded" /\ ~task[k].cancelling
        /\ body[k] = "unwinding" <=> task[k].state = "yielded" /\ task[k].cancelling

\* No lost wakeup: whenever a lane has a free slot and a task that could take
\* it, a drain is scheduled.
NoLostDrain ==
    \A l \in Lanes :
        running[l] < LaneCapacity[l] /\ Eligible(task, l) # {} => drainScheduled

\* The classifier slots counted are those of live tasks and of strays, within
\* the capacity, and no free slot is forgotten while a task waits for one.
ClassifierAccounting ==
    /\ classifiersRunning =
         Cardinality({k \in Keys : task[k].classifier = "running"})
           + Cardinality({p \in Keys \X (1..ClassifierCapacity) : p[2] <= strays[p[1]]})
    /\ classifiersRunning <= ClassifierCapacity
    /\ classifiersRunning < ClassifierCapacity /\ Unclassified # {}
         => classifierDrainScheduled

\* Every cancelled run is retired, whether it was working, suspended or just
\* resumed: the promise that cancel() returned settles.
CancelSettles ==
    \A k \in Keys : task[k].cancelling ~> ~task[k].cancelling

\* A background task is not starved by an endless stream of open-folder work
\* of the same cost: ageing lifts it, and then arrival order decides.  (Endless
\* interactive work would starve it, and is excluded.)
BackgroundNotStarved ==
    <>[](\A k \in Keys : Live(k) => task[k].urgency # "interactive")
      => \A k \in Keys : task[k].state = "queued" ~> task[k].state # "queued"

-----------------------------------------------------------------------------
\* The task of a key, as a caller sees it.
Status(k) ==
    IF body[k] # "none" THEN body[k] ELSE IF Live(k) THEN "waiting" ELSE "absent"

Promised == INSTANCE ScheduledWork WITH
    Restarts  <- FALSE,
    status    <- [k \in Keys |-> Status(k)],
    cancelled <- [k \in Keys |-> task[k].cancelling]

\* The scheduler keeps the promise of ScheduledWork: whatever its counters,
\* queues and deferred drains do, callers see no overlapping run, no lane above
\* its capacity, no cancelled run given a slot, no started run forgotten.
KeepsPromise == Promised!Spec
=============================================================================
