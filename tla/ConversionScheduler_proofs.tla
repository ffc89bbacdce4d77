--------------------- MODULE ConversionScheduler_proofs ---------------------
(***************************************************************************)
(* Proofs about ConversionScheduler for any number of sources, any lane    *)
(* capacities and any classifier capacity: the type invariant, the         *)
(* ownership of lanes by runs, the accounting of the lane counters and of  *)
(* the classifier slots, and the refinement of ScheduledWork.              *)
(***************************************************************************)
EXTENDS ConversionScheduler, FiniteSetTheorems, FunctionTheorems, TLAPS

USE SchedulerAssumption DEF SchedulerAssumption, Lanes, Urgencies

-----------------------------------------------------------------------------
(* Types. *)

\* The empty record and a new record are task records, and the records that
\* the operators below build stay task records.
LEMMA NoTaskType == NoTask \in TaskRecord
BY DEF NoTask, TaskRecord

LEMMA NewTaskType ==
    ASSUME NEW k \in Keys, NEW urgency \in Urgencies, NEW cost \in Costs
    PROVE  NewTask(k, urgency, cost) \in TaskRecord
BY DEF NewTask, TaskRecord

LEMMA AgeingType ==
    ASSUME NEW T \in [Keys -> TaskRecord]
    PROVE  ApplyDueAgeing(T) \in [Keys -> TaskRecord]
BY DEF ApplyDueAgeing, TaskRecord

LEMMA GrantType ==
    ASSUME NEW t \in TaskRecord
    PROVE  Grant(t) \in TaskRecord
BY DEF Grant, TaskRecord

LEMMA UpdateType ==
    ASSUME NEW t \in TaskRecord, NEW urgency \in Urgencies, NEW cost \in Costs
    PROVE  /\ [t EXCEPT !.urgency = urgency] \in TaskRecord
           /\ [t EXCEPT !.urgency = urgency, !.cost = cost] \in TaskRecord
           /\ [t EXCEPT !.classifier = "done", !.cost = cost] \in TaskRecord
           /\ [t EXCEPT !.classifier = "running"] \in TaskRecord
           /\ [t EXCEPT !.cancelling = TRUE] \in TaskRecord
           /\ [t EXCEPT !.age = "due"] \in TaskRecord
           /\ [t EXCEPT !.state = "yielded", !.ownsLane = FALSE] \in TaskRecord
BY DEF TaskRecord

LEMMA DecrementType == \A n \in Nat : Decrement(n) \in Nat
BY DEF Decrement

LEMMA ForgetType ==
    ASSUME NEW S, before \in [Keys -> SUBSET Keys]
    PROVE  Forget(S) \in [Keys -> SUBSET Keys]
BY DEF Forget

\* Sets of keys are finite, so their cardinalities are numbers.
LEMMA FiniteKeys ==
    ASSUME NEW S \in SUBSET Keys
    PROVE  IsFiniteSet(S) /\ Cardinality(S) \in Nat
BY FS_Subset, FS_CardinalityType

\* Every step keeps the types.
LEMMA TypeStep == TypeOK /\ [Next]_vars => TypeOK'
<1> SUFFICES ASSUME TypeOK, [Next]_vars
             PROVE  TypeOK'
  OBVIOUS
<1> USE DEF TypeOK
<1>1. ASSUME NEW k \in Keys, NEW urgency \in Requested, NEW cost \in Costs,
             ScheduleNew(k, urgency, cost)
      PROVE  TypeOK'
  BY <1>1, NewTaskType DEF ScheduleNew
<1>2. ASSUME NEW k \in Keys, NEW urgency \in Requested, NEW cost \in Costs,
             ScheduleAgain(k, urgency, cost)
      PROVE  TypeOK'
  <2> DEFINE u == IF UrgencyRank[urgency] < UrgencyRank[task[k].urgency]
                  THEN urgency ELSE task[k].urgency
             c == IF cost < task[k].cost THEN cost ELSE task[k].cost
  <2>1. u \in Urgencies /\ c \in Costs
    BY DEF TaskRecord
  <2>2. task' = [task EXCEPT ![k] = [task[k] EXCEPT !.urgency = u, !.cost = c]]
    BY <1>2 DEF ScheduleAgain
  <2> HIDE DEF u, c
  <2>3. task' \in [Keys -> TaskRecord]
    BY <2>1, <2>2, UpdateType
  <2>4. QED
    BY <1>2, <2>3 DEF ScheduleAgain
<1>3. ASSUME NEW k \in Keys, NEW urgency \in Requested, Promote(k, urgency)
      PROVE  TypeOK'
  <2>1. task' = [task EXCEPT ![k] = [task[k] EXCEPT !.urgency = urgency]]
    BY <1>3 DEF Promote
  <2>2. task' \in [Keys -> TaskRecord]
    BY <2>1, UpdateType
  <2>3. QED
    BY <1>3, <2>2 DEF Promote
<1>4. ASSUME NEW S \in SUBSET Keys, CancelKeys(S)
      PROVE  TypeOK'
  <2>1. task' \in [Keys -> TaskRecord]
    BY <1>4, NoTaskType, UpdateType DEF CancelKeys
  <2>2. QED
    BY <1>4, <2>1, ForgetType DEF CancelKeys
<1>5. ASSUME NEW k \in Keys, TimePasses(k)
      PROVE  TypeOK'
  <2>1. task' = [task EXCEPT ![k] = [task[k] EXCEPT !.age = "due"]]
    BY <1>5 DEF TimePasses
  <2>2. task' \in [Keys -> TaskRecord]
    BY <2>1, UpdateType
  <2>3. QED
    BY <1>5, <2>2 DEF TimePasses
<1>6. ASSUME NEW k \in Keys, YieldLane(k)
      PROVE  TypeOK'
  BY <1>6, DecrementType DEF YieldLane, TaskRecord
<1>7. ASSUME NEW k \in Keys, Finish(k)
      PROVE  TypeOK'
  BY <1>7, DecrementType, NoTaskType, ForgetType DEF Finish
<1>8. ASSUME NEW k \in Keys, NEW cost \in Costs, ClassifierReports(k, cost)
      PROVE  TypeOK'
  <2> DEFINE c == IF task[k].state = "queued" THEN cost ELSE task[k].cost
  <2>1. c \in Costs
    BY DEF TaskRecord
  <2>2. task' = [task EXCEPT ![k] = [task[k] EXCEPT !.classifier = "done", !.cost = c]]
    BY <1>8 DEF ClassifierReports
  <2> HIDE DEF c
  <2>3. task' \in [Keys -> TaskRecord]
    BY <2>1, <2>2, UpdateType
  <2>4. QED
    BY <1>8, <2>3, DecrementType DEF ClassifierReports
<1>9. ASSUME NEW k \in Keys, StrayClassifierEnds(k)
      PROVE  TypeOK'
  BY <1>9, DecrementType DEF StrayClassifierEnds
<1>10. ASSUME NEW folders \in SUBSET Folders, PrioritiesChanged(folders)
       PROVE  TypeOK'
  BY <1>10 DEF PrioritiesChanged
<1>11. CASE Drain
  <2>1. ApplyDueAgeing(task) \in [Keys -> TaskRecord]
    BY AgeingType
  <2>2. PICK granted \in SUBSET Keys :
          /\ task' = [k \in Keys |-> IF k \in granted THEN Grant(ApplyDueAgeing(task)[k])
                                     ELSE ApplyDueAgeing(task)[k]]
          /\ body' = [k \in Keys |-> IF k \in granted THEN "working" ELSE body[k]]
          /\ running' = [l \in Lanes |->
                           running[l] + Cardinality(granted \cap KeysOf(l))]
          /\ classifierDrainScheduled' \in BOOLEAN
    BY <1>11 DEF Drain
  <2>3. task' \in [Keys -> TaskRecord]
    BY <2>1, <2>2, GrantType
  <2>4. running' \in [Lanes -> Nat]
    BY <2>2, FiniteKeys DEF KeysOf
  <2>5. QED
    BY <1>11, <2>2, <2>3, <2>4 DEF Drain
<1>12. CASE AgeingTimer
  BY <1>12, AgeingType DEF AgeingTimer
<1>13. CASE ClassifierDrain
  <2>1. PICK S \in SUBSET Unclassified :
          /\ task' = [k \in Keys |-> IF k \in S THEN [task[k] EXCEPT !.classifier = "running"]
                                     ELSE task[k]]
          /\ classifiersRunning' = classifiersRunning + Cardinality(S)
    BY <1>13 DEF ClassifierDrain
  <2>2. S \in SUBSET Keys
    BY DEF Unclassified
  <2>3. task' \in [Keys -> TaskRecord]
    BY <2>1, UpdateType
  <2>4. classifiersRunning' \in Nat
    BY <2>1, <2>2, FiniteKeys
  <2>5. QED
    BY <1>13, <2>3, <2>4 DEF ClassifierDrain
<1>14. CASE UNCHANGED vars
  BY <1>14 DEF vars
<1> HIDE DEF TypeOK
<1>15. ASSUME NEW k \in Keys, Cancel(k)
       PROVE  TypeOK'
  BY <1>15, <1>4 DEF Cancel
<1>16. ASSUME NEW f \in Folders, CancelUnder(f)
       PROVE  TypeOK'
  BY <1>16, <1>4 DEF CancelUnder
<1>17. CASE CancelAll
  BY <1>17, <1>4 DEF CancelAll
<1>18. QED
  BY <1>1, <1>2, <1>3, <1>15, <1>16, <1>17, <1>5, <1>6, <1>7, <1>8, <1>9, <1>10, <1>11, <1>12, <1>13, <1>14
     DEF Next

\* Every variable keeps its type (the maps, counters and flags of the class).
THEOREM TypeCorrect == Spec => []TypeOK
<1>1. Init => TypeOK
  <2> SUFFICES ASSUME Init PROVE TypeOK
    OBVIOUS
  <2>1. task \in [Keys -> TaskRecord]
    BY NoTaskType DEF Init
  <2>2. before \in [Keys -> SUBSET Keys]
    BY DEF Init
  <2>3. running \in [Lanes -> Nat] /\ strays \in [Keys -> Nat]
    BY DEF Init
  <2>4. body \in [Keys -> {"none", "working", "suspended", "unwinding"}]
    BY DEF Init
  <2>5. QED
    BY <2>1, <2>2, <2>3, <2>4 DEF Init, TypeOK
<1>2. QED
  BY <1>1, TypeStep, PTL DEF Spec

-----------------------------------------------------------------------------
(* Runs and lanes. *)

\* How the flags of a task go together, which the code never states: a task
\* owns its lane exactly while it is running, its run has started exactly when
\* it is running or yielded, and only a started task is ever being cancelled.
TaskShape ==
    \A k \in Keys :
        /\ task[k].ownsLane <=> task[k].state = "running"
        /\ task[k].started <=> task[k].state \in {"running", "yielded"}
        /\ task[k].cancelling => task[k].started

\* TaskShape and BodyOwnership for one task: the inductive form.
KeyOwnership(k) ==
    /\ task[k].ownsLane <=> task[k].state = "running"
    /\ task[k].started <=> task[k].state \in {"running", "yielded"}
    /\ task[k].cancelling => task[k].started
    /\ body[k] # "none" <=> task[k].state # "absent" /\ task[k].started
    /\ body[k] = "working" <=> task[k].ownsLane
    /\ body[k] = "suspended" <=> task[k].state = "yielded" /\ ~task[k].cancelling
    /\ body[k] = "unwinding" <=> task[k].state = "yielded" /\ task[k].cancelling

LEMMA OwnershipByKey ==
    TaskShape /\ BodyOwnership <=> \A k \in Keys : KeyOwnership(k)
BY DEF TaskShape, BodyOwnership, KeyOwnership, Live

\* A task whose shape and run do not move keeps its ownership.
LEMMA KeyUnmoved ==
    ASSUME NEW k \in Keys, KeyOwnership(k),
           body'[k] = body[k],
           task'[k].state = task[k].state,
           task'[k].started = task[k].started,
           task'[k].ownsLane = task[k].ownsLane,
           task'[k].cancelling = task[k].cancelling
    PROVE  KeyOwnership(k)'
BY DEF KeyOwnership

\* The drain leaves a task alone, but for its age, or puts it to work.
LEMMA DrainOutcome ==
    ASSUME TypeOK, Drain
    PROVE  \E granted \in SUBSET Keys :
             /\ \A l \in Lanes : Selected(ApplyDueAgeing(task), l, granted \cap KeysOf(l))
             /\ task' = [k \in Keys |-> IF k \in granted THEN Grant(ApplyDueAgeing(task)[k])
                                        ELSE ApplyDueAgeing(task)[k]]
             /\ body' = [k \in Keys |-> IF k \in granted THEN "working" ELSE body[k]]
             /\ running' = [l \in Lanes |->
                              running[l] + Cardinality(granted \cap KeysOf(l))]
BY DEF Drain

LEMMA AgeingKeepsShape ==
    ASSUME TypeOK, NEW k \in Keys
    PROVE  /\ ApplyDueAgeing(task)[k].state = task[k].state
           /\ ApplyDueAgeing(task)[k].started = task[k].started
           /\ ApplyDueAgeing(task)[k].ownsLane = task[k].ownsLane
           /\ ApplyDueAgeing(task)[k].cancelling = task[k].cancelling
           /\ ApplyDueAgeing(task)[k] \in TaskRecord
<1>1. task[k] \in TaskRecord
  BY DEF TypeOK
<1>2. ApplyDueAgeing(task)[k] = IF CanAge(task, k) /\ task[k].age = "due"
                                THEN [task[k] EXCEPT !.age = "aged"] ELSE task[k]
  BY DEF ApplyDueAgeing
<1>3. QED
  BY <1>1, <1>2 DEF TaskRecord

LEMMA GrantShape ==
    ASSUME NEW t \in TaskRecord
    PROVE  /\ Grant(t).state = "running"
           /\ Grant(t).started = TRUE
           /\ Grant(t).ownsLane = TRUE
           /\ Grant(t).cancelling = t.cancelling
BY DEF Grant, TaskRecord

\* What a drain grants was waiting, and is the waiting set or fills the lane.
LEMMA GrantedWaited ==
    ASSUME TypeOK, NEW granted \in SUBSET Keys,
           \A l \in Lanes : Selected(ApplyDueAgeing(task), l, granted \cap KeysOf(l)),
           NEW k \in granted
    PROVE  task[k].state \in {"queued", "yielded"} /\ ~task[k].cancelling
<1>1. k \in KeysOf(LaneOf[k]) /\ LaneOf[k] \in Lanes /\ k \in Keys
  BY DEF KeysOf
<1>2. k \in Eligible(ApplyDueAgeing(task), LaneOf[k])
  BY <1>1 DEF Selected
<1>3. QED
  BY <1>1, <1>2, AgeingKeepsShape DEF Eligible

\* Every step keeps each task, its run and its lane in agreement.
LEMMA OwnershipStep ==
    ASSUME TypeOK, \A k \in Keys : KeyOwnership(k), [Next]_vars, NEW k \in Keys
    PROVE  KeyOwnership(k)'
<1> USE DEF KeyOwnership
<1>t. task \in [Keys -> TaskRecord] /\ task[k] \in TaskRecord
      /\ body \in [Keys -> {"none", "working", "suspended", "unwinding"}]
  BY DEF TypeOK
<1>1. ASSUME NEW j \in Keys, NEW urgency \in Requested, NEW cost \in Costs,
             ScheduleNew(j, urgency, cost)
      PROVE  KeyOwnership(k)'
  BY <1>1, <1>t DEF ScheduleNew, NewTask, Live
<1>2. ASSUME NEW j \in Keys, NEW urgency \in Requested, NEW cost \in Costs,
             ScheduleAgain(j, urgency, cost)
      PROVE  KeyOwnership(k)'
  <2>1. /\ body'[k] = body[k] /\ task'[k].state = task[k].state
        /\ task'[k].started = task[k].started /\ task'[k].ownsLane = task[k].ownsLane
        /\ task'[k].cancelling = task[k].cancelling
    BY <1>2, <1>t DEF ScheduleAgain, TaskRecord
  <2> QED
    BY <2>1, KeyUnmoved
<1>3. ASSUME NEW j \in Keys, NEW urgency \in Requested, Promote(j, urgency)
      PROVE  KeyOwnership(k)'
  <2>1. /\ body'[k] = body[k] /\ task'[k].state = task[k].state
        /\ task'[k].started = task[k].started /\ task'[k].ownsLane = task[k].ownsLane
        /\ task'[k].cancelling = task[k].cancelling
    BY <1>3, <1>t DEF Promote, TaskRecord
  <2> QED
    BY <2>1, KeyUnmoved
<1>4. ASSUME NEW S \in SUBSET Keys, CancelKeys(S)
      PROVE  KeyOwnership(k)'
  <2>1. CASE k \in S /\ Live(k) /\ ~task[k].started
    BY <1>4, <2>1, <1>t DEF CancelKeys, Live, NoTask
  <2>2. CASE k \in S /\ Live(k) /\ task[k].started
    BY <1>4, <2>2, <1>t DEF CancelKeys, Live, TaskRecord
  <2>3. CASE ~(k \in S /\ Live(k))
    BY <1>4, <2>3, <1>t DEF CancelKeys, Live
  <2>4. QED
    BY <2>1, <2>2, <2>3
<1>5. ASSUME NEW j \in Keys, TimePasses(j)
      PROVE  KeyOwnership(k)'
  <2>1. /\ body'[k] = body[k] /\ task'[k].state = task[k].state
        /\ task'[k].started = task[k].started /\ task'[k].ownsLane = task[k].ownsLane
        /\ task'[k].cancelling = task[k].cancelling
    BY <1>5, <1>t DEF TimePasses, TaskRecord
  <2> QED
    BY <2>1, KeyUnmoved
<1>6. ASSUME NEW j \in Keys, YieldLane(j)
      PROVE  KeyOwnership(k)'
  BY <1>6, <1>t DEF YieldLane, TaskRecord
<1>7. ASSUME NEW j \in Keys, Finish(j)
      PROVE  KeyOwnership(k)'
  BY <1>7, <1>t DEF Finish, NoTask
<1>8. ASSUME NEW j \in Keys, NEW cost \in Costs, ClassifierReports(j, cost)
      PROVE  KeyOwnership(k)'
  <2>1. /\ body'[k] = body[k] /\ task'[k].state = task[k].state
        /\ task'[k].started = task[k].started /\ task'[k].ownsLane = task[k].ownsLane
        /\ task'[k].cancelling = task[k].cancelling
    BY <1>8, <1>t DEF ClassifierReports, TaskRecord
  <2> QED
    BY <2>1, KeyUnmoved
<1>9. ASSUME NEW j \in Keys, StrayClassifierEnds(j)
      PROVE  KeyOwnership(k)'
  BY <1>9, <1>t DEF StrayClassifierEnds
<1>10. ASSUME NEW folders \in SUBSET Folders, PrioritiesChanged(folders)
       PROVE  KeyOwnership(k)'
  BY <1>10, <1>t DEF PrioritiesChanged
<1>11. CASE Drain
  <2>1. PICK granted \in SUBSET Keys :
          /\ \A l \in Lanes : Selected(ApplyDueAgeing(task), l, granted \cap KeysOf(l))
          /\ task' = [i \in Keys |-> IF i \in granted THEN Grant(ApplyDueAgeing(task)[i])
                                     ELSE ApplyDueAgeing(task)[i]]
          /\ body' = [i \in Keys |-> IF i \in granted THEN "working" ELSE body[i]]
    BY <1>11, DrainOutcome
  <2>2. CASE k \in granted
    <3>1. ~task[k].cancelling
      BY <2>1, <2>2, GrantedWaited
    <3>2. QED
      BY <2>1, <2>2, <3>1, AgeingKeepsShape, GrantShape
  <2>3. CASE k \notin granted
    BY <2>1, <2>3, AgeingKeepsShape, KeyUnmoved
  <2>4. QED
    BY <2>2, <2>3
<1>12. CASE AgeingTimer
  BY <1>12, AgeingKeepsShape, KeyUnmoved DEF AgeingTimer
<1>13. CASE ClassifierDrain
  <2>1. PICK S \in SUBSET Unclassified :
          task' = [i \in Keys |-> IF i \in S THEN [task[i] EXCEPT !.classifier = "running"]
                                  ELSE task[i]]
    BY <1>13 DEF ClassifierDrain
  <2>2. body' = body
    BY <1>13 DEF ClassifierDrain
  <2>3. QED
    BY <2>1, <2>2, <1>t, KeyUnmoved DEF TaskRecord
<1>14. CASE UNCHANGED vars
  BY <1>14 DEF vars
<1> HIDE DEF KeyOwnership
<1>15. ASSUME NEW j \in Keys, Cancel(j)
       PROVE  KeyOwnership(k)'
  BY <1>15, <1>4 DEF Cancel
<1>16. ASSUME NEW f \in Folders, CancelUnder(f)
       PROVE  KeyOwnership(k)'
  BY <1>16, <1>4 DEF CancelUnder
<1>17. CASE CancelAll
  BY <1>17, <1>4 DEF CancelAll
<1>18. QED
  BY <1>1, <1>2, <1>3, <1>15, <1>16, <1>17, <1>5, <1>6, <1>7, <1>8, <1>9, <1>10,
     <1>11, <1>12, <1>13, <1>14 DEF Next

\* Init satisfies it.
LEMMA OwnershipInit == Init => \A k \in Keys : KeyOwnership(k)
BY DEF Init, KeyOwnership, NoTask

\* A run in progress always belongs to a started task of the map and works only
\* while its task owns the lane, whatever the order of grants, yields,
\* cancellations and retirements (yieldLane, drainLane, cancel, finish).
THEOREM RunsOwnTheirLanes == Spec => []BodyOwnership
<1> DEFINE Inv == \A k \in Keys : KeyOwnership(k)
<1>1. Init => Inv
  BY OwnershipInit
<1>2. TypeOK /\ Inv /\ [Next]_vars => Inv'
  BY OwnershipStep
<1>3. Inv => BodyOwnership
  BY OwnershipByKey
<1> HIDE DEF Inv
<1>4. QED
  BY <1>1, <1>2, <1>3, TypeCorrect, PTL DEF Spec

-----------------------------------------------------------------------------
(* Lane counters. *)

\* The owners of a lane do not change when no task changes its ownership.
LEMMA OwnersUnmoved ==
    ASSUME NEW l \in Lanes, \A k \in Keys : task'[k].ownsLane = task[k].ownsLane
    PROVE  Owners(l)' = Owners(l)
BY DEF Owners, KeysOf

LEMMA AccountingUnmoved ==
    ASSUME LaneAccounting, running' = running,
           \A k \in Keys : task'[k].ownsLane = task[k].ownsLane
    PROVE  LaneAccounting'
BY OwnersUnmoved DEF LaneAccounting

LEMMA OwnersFinite ==
    ASSUME NEW l \in Lanes
    PROVE  IsFiniteSet(Owners(l)) /\ Cardinality(Owners(l)) \in Nat
<1>1. Owners(l) \in SUBSET Keys
  BY DEF Owners, KeysOf
<1>2. QED
  BY <1>1, FiniteKeys

\* When one owner leaves its lane, the clamped decrement is the exact count.
LEMMA OneOwnerLeaves ==
    ASSUME TypeOK, LaneAccounting, NEW k \in Keys, task[k].ownsLane,
           \A j \in Keys : j # k => task'[j].ownsLane = task[j].ownsLane,
           ~task'[k].ownsLane,
           running' = [running EXCEPT ![LaneOf[k]] = Decrement(@)]
    PROVE  LaneAccounting'
<1> SUFFICES ASSUME NEW l \in Lanes
             PROVE  /\ running'[l] = Cardinality(Owners(l)')
                    /\ running'[l] <= LaneCapacity[l]
  BY DEF LaneAccounting
<1>1. running \in [Lanes -> Nat] /\ LaneCapacity[l] \in Nat
  BY DEF TypeOK
<1>2. running[l] = Cardinality(Owners(l)) /\ running[l] <= LaneCapacity[l]
  BY DEF LaneAccounting
<1>3. CASE l = LaneOf[k]
  <2>1. k \in Owners(l) /\ Owners(l)' = Owners(l) \ {k}
    BY <1>3 DEF Owners, KeysOf
  <2>2. Cardinality(Owners(l)') = Cardinality(Owners(l)) - 1
    BY <2>1, OwnersFinite, FS_RemoveElement
  <2>3. running[l] > 0
    BY <1>1, <1>2, <2>1, OwnersFinite, FS_EmptySet
  <2>4. running'[l] = running[l] - 1
    BY <1>1, <1>3, <2>3 DEF Decrement
  <2>5. QED
    BY <1>1, <1>2, <2>2, <2>4
<1>4. CASE l # LaneOf[k]
  <2>1. Owners(l)' = Owners(l)
    BY <1>4 DEF Owners, KeysOf
  <2>2. running'[l] = running[l]
    BY <1>1, <1>4
  <2>3. QED
    BY <1>2, <2>1, <2>2
<1>5. QED
  BY <1>3, <1>4

\* A drain adds to a lane as many owners as it adds to the counter, and no more
\* than there were free slots; afterwards the lane is full or nobody waits.
LEMMA DrainAccounting ==
    ASSUME TypeOK, \A k \in Keys : KeyOwnership(k), LaneAccounting, Drain,
           NEW l \in Lanes
    PROVE  /\ running'[l] = Cardinality(Owners(l)')
           /\ running'[l] <= LaneCapacity[l]
           /\ running'[l] < LaneCapacity[l] => Eligible(task', l) = {}
<1>1. PICK granted \in SUBSET Keys :
        /\ \A i \in Lanes : Selected(ApplyDueAgeing(task), i, granted \cap KeysOf(i))
        /\ task' = [k \in Keys |-> IF k \in granted THEN Grant(ApplyDueAgeing(task)[k])
                                   ELSE ApplyDueAgeing(task)[k]]
        /\ running' = [i \in Lanes |-> running[i] + Cardinality(granted \cap KeysOf(i))]
  BY DrainOutcome
<1> DEFINE S == granted \cap KeysOf(l)
           waiting == Eligible(ApplyDueAgeing(task), l)
<1>2. S \in SUBSET Keys /\ IsFiniteSet(S) /\ Cardinality(S) \in Nat
  BY FiniteKeys DEF KeysOf
<1>3. running[l] \in Nat /\ LaneCapacity[l] \in Nat
  BY DEF TypeOK
<1>4. running[l] = Cardinality(Owners(l)) /\ running[l] <= LaneCapacity[l]
  BY DEF LaneAccounting
<1>5. /\ S \subseteq waiting
      /\ \/ S = waiting /\ Cardinality(S) <= LaneCapacity[l] - running[l]
         \/ Cardinality(S) = LaneCapacity[l] - running[l]
  BY <1>1 DEF Selected
<1>6. ASSUME NEW k \in Keys
      PROVE  task'[k].ownsLane <=> k \in granted \/ task[k].ownsLane
  BY <1>1, AgeingKeepsShape, GrantShape DEF KeyOwnership
<1>7. Owners(l)' = Owners(l) \cup S
  BY <1>6 DEF Owners, KeysOf
<1>8. Owners(l) \cap S = {}
  BY <1>1, GrantedWaited DEF Owners, KeyOwnership, KeysOf
<1>9. Cardinality(Owners(l)') = Cardinality(Owners(l)) + Cardinality(S)
  <2>1. Cardinality(Owners(l) \cup S)
          = Cardinality(Owners(l)) + Cardinality(S) - Cardinality(Owners(l) \cap S)
    BY <1>2, OwnersFinite, FS_Union
  <2>2. Cardinality(Owners(l) \cap S) = 0
    BY <1>8, FS_EmptySet
  <2>3. Cardinality(Owners(l)') = Cardinality(Owners(l) \cup S)
    BY <1>7
  <2>4. QED
    BY <1>2, <2>1, <2>2, <2>3, OwnersFinite
<1>10. running'[l] = running[l] + Cardinality(S)
  BY <1>1
<1>11. ASSUME running'[l] < LaneCapacity[l]
       PROVE  Eligible(task', l) = {}
  <2>1. S = waiting
    BY <1>2, <1>3, <1>5, <1>10, <1>11
  <2>2. ASSUME NEW k \in Eligible(task', l)
        PROVE  FALSE
    <3>1. k \in Keys /\ k \in KeysOf(l)
      BY DEF Eligible, KeysOf
    <3>2. CASE k \in granted
      <4>1. task'[k].state = "running"
        BY <1>1, <3>1, <3>2, AgeingKeepsShape, GrantShape
      <4>2. QED
        BY <4>1 DEF Eligible
    <3>3. CASE k \notin granted
      <4>1. task'[k] = ApplyDueAgeing(task)[k]
        BY <1>1, <3>1, <3>3
      <4>2. k \in waiting
        BY <3>1, <4>1 DEF Eligible
      <4>3. QED
        BY <2>1, <3>3, <4>2
    <3>4. QED
      BY <3>2, <3>3
  <2>3. QED
    BY <2>2
<1>12. QED
  BY <1>3, <1>4, <1>2, <1>5, <1>9, <1>10, <1>11

LaneInv == LaneAccounting /\ NoLostDrain

\* Every step but a drain either leaves eligibility and the counters alone, or
\* leaves a drain scheduled.
LEMMA FreeUnmoved ==
    ASSUME TypeOK, NoLostDrain, running' = running, drainScheduled => drainScheduled',
           \A k \in Keys : /\ task'[k].state = task[k].state
                           /\ task'[k].cancelling = task[k].cancelling
    PROVE  NoLostDrain'
<1>1. \A l \in Lanes : Eligible(task', l) = Eligible(task, l)
  BY DEF Eligible, KeysOf
<1>2. QED
  BY <1>1 DEF NoLostDrain

LEMMA FreeScheduled == drainScheduled' = TRUE => NoLostDrain'
BY DEF NoLostDrain

\* Every step keeps the lane counters exact and loses no wakeup.
LEMMA LaneStep ==
    ASSUME TypeOK, \A k \in Keys : KeyOwnership(k), LaneInv, [Next]_vars
    PROVE  LaneInv'
<1> USE DEF LaneInv
<1>t. /\ task \in [Keys -> TaskRecord]
      /\ \A k \in Keys : task[k] \in TaskRecord
      /\ running \in [Lanes -> Nat]
      /\ drainScheduled \in BOOLEAN
  BY DEF TypeOK
<1>1. ASSUME NEW j \in Keys, NEW urgency \in Requested, NEW cost \in Costs,
             ScheduleNew(j, urgency, cost)
      PROVE  LaneInv'
  <2>1. task[j].state = "absent" /\ ~task[j].ownsLane
    BY <1>1, <1>t DEF ScheduleNew, Live, KeyOwnership
  <2>2. \A k \in Keys : task'[k].ownsLane = task[k].ownsLane
    BY <1>1, <1>t, <2>1 DEF ScheduleNew, NewTask, TaskRecord
  <2>3. QED
    BY <1>1, <2>2, AccountingUnmoved, FreeScheduled DEF ScheduleNew
<1>2. ASSUME NEW j \in Keys, NEW urgency \in Requested, NEW cost \in Costs,
             ScheduleAgain(j, urgency, cost)
      PROVE  LaneInv'
  <2>1. \A k \in Keys : /\ task'[k].ownsLane = task[k].ownsLane
                        /\ task'[k].state = task[k].state
                        /\ task'[k].cancelling = task[k].cancelling
    BY <1>2, <1>t DEF ScheduleAgain, TaskRecord
  <2>2. QED
    BY <1>2, <2>1, AccountingUnmoved, FreeUnmoved DEF ScheduleAgain
<1>3. ASSUME NEW j \in Keys, NEW urgency \in Requested, Promote(j, urgency)
      PROVE  LaneInv'
  <2>1. \A k \in Keys : task'[k].ownsLane = task[k].ownsLane
    BY <1>3, <1>t DEF Promote, TaskRecord
  <2>2. QED
    BY <1>3, <2>1, AccountingUnmoved, FreeScheduled DEF Promote
<1>4. ASSUME NEW S \in SUBSET Keys, CancelKeys(S)
      PROVE  LaneInv'
  <2>1. \A k \in Keys : task'[k].ownsLane = task[k].ownsLane
    <3> TAKE k \in Keys
    <3>1. CASE k \in S /\ Live(k) /\ ~task[k].started
      <4>1. task[k].ownsLane = FALSE
        BY <1>t, <3>1 DEF KeyOwnership, TaskRecord
      <4>2. task'[k] = NoTask
        BY <1>4, <3>1 DEF CancelKeys
      <4>3. NoTask.ownsLane = FALSE
        BY DEF NoTask
      <4>4. QED
        BY <4>1, <4>2, <4>3, Zenon
    <3>2. CASE k \in S /\ Live(k) /\ task[k].started
      BY <1>4, <1>t, <3>2 DEF CancelKeys, TaskRecord
    <3>3. CASE ~(k \in S /\ Live(k))
      BY <1>4, <3>3 DEF CancelKeys
    <3>4. QED
      BY <3>1, <3>2, <3>3
  <2>2. \A l \in Lanes : Eligible(task', l) \subseteq Eligible(task, l)
    BY <1>4, <1>t DEF CancelKeys, Live, NoTask, Eligible, KeysOf, TaskRecord
  <2>3. running' = running /\ (drainScheduled => drainScheduled')
    BY <1>4 DEF CancelKeys
  <2>4. NoLostDrain'
    BY <2>2, <2>3 DEF NoLostDrain
  <2>5. QED
    BY <2>1, <2>3, <2>4, AccountingUnmoved
<1>5. ASSUME NEW j \in Keys, TimePasses(j)
      PROVE  LaneInv'
  <2>1. \A k \in Keys : /\ task'[k].ownsLane = task[k].ownsLane
                        /\ task'[k].state = task[k].state
                        /\ task'[k].cancelling = task[k].cancelling
    BY <1>5, <1>t DEF TimePasses, TaskRecord
  <2>2. QED
    BY <1>5, <2>1, AccountingUnmoved, FreeUnmoved DEF TimePasses
<1>6. ASSUME NEW j \in Keys, YieldLane(j)
      PROVE  LaneInv'
  <2>1. /\ task[j].ownsLane
        /\ ~task'[j].ownsLane
        /\ \A k \in Keys : k # j => task'[k].ownsLane = task[k].ownsLane
        /\ running' = [running EXCEPT ![LaneOf[j]] = Decrement(@)]
        /\ drainScheduled' = TRUE
    BY <1>6, <1>t DEF YieldLane, TaskRecord
  <2>2. QED
    BY <2>1, OneOwnerLeaves, FreeScheduled
<1>7. ASSUME NEW j \in Keys, Finish(j)
      PROVE  LaneInv'
  <2>1. /\ ~task'[j].ownsLane
        /\ \A k \in Keys : k # j => task'[k].ownsLane = task[k].ownsLane
        /\ drainScheduled' = TRUE
    BY <1>7, <1>t DEF Finish, NoTask
  <2>2. CASE task[j].ownsLane
    BY <1>7, <2>1, <2>2, OneOwnerLeaves, FreeScheduled DEF Finish
  <2>3. CASE ~task[j].ownsLane
    <3>1. \A k \in Keys : task'[k].ownsLane = task[k].ownsLane
      BY <1>7, <1>t, <2>3 DEF Finish, NoTask, TaskRecord
    <3>2. running' = running
      BY <1>7, <2>3 DEF Finish
    <3>3. QED
      BY <2>1, <3>1, <3>2, AccountingUnmoved, FreeScheduled
  <2>4. QED
    BY <2>2, <2>3
<1>8. ASSUME NEW j \in Keys, NEW cost \in Costs, ClassifierReports(j, cost)
      PROVE  LaneInv'
  <2>1. \A k \in Keys : /\ task'[k].ownsLane = task[k].ownsLane
                        /\ task'[k].state = task[k].state
                        /\ task'[k].cancelling = task[k].cancelling
    BY <1>8, <1>t DEF ClassifierReports, TaskRecord
  <2>2. QED
    BY <1>8, <2>1, AccountingUnmoved, FreeUnmoved DEF ClassifierReports
<1>9. ASSUME NEW j \in Keys, StrayClassifierEnds(j)
      PROVE  LaneInv'
  BY <1>9, AccountingUnmoved, FreeUnmoved DEF StrayClassifierEnds
<1>10. ASSUME NEW folders \in SUBSET Folders, PrioritiesChanged(folders)
       PROVE  LaneInv'
  BY <1>10, AccountingUnmoved, FreeUnmoved DEF PrioritiesChanged
<1>11. CASE Drain
  <2>1. \A l \in Lanes : /\ running'[l] = Cardinality(Owners(l)')
                         /\ running'[l] <= LaneCapacity[l]
                         /\ running'[l] < LaneCapacity[l] => Eligible(task', l) = {}
    BY <1>11, DrainAccounting
  <2>2. QED
    BY <2>1 DEF LaneAccounting, NoLostDrain
<1>12. CASE AgeingTimer
  <2>1. \A k \in Keys : task'[k].ownsLane = task[k].ownsLane
    BY <1>12, AgeingKeepsShape DEF AgeingTimer
  <2>2. QED
    BY <1>12, <2>1, AccountingUnmoved, FreeScheduled DEF AgeingTimer
<1>13. CASE ClassifierDrain
  <2>1. PICK S \in SUBSET Unclassified :
          task' = [i \in Keys |-> IF i \in S THEN [task[i] EXCEPT !.classifier = "running"]
                                  ELSE task[i]]
    BY <1>13 DEF ClassifierDrain
  <2>2. \A k \in Keys : /\ task'[k].ownsLane = task[k].ownsLane
                        /\ task'[k].state = task[k].state
                        /\ task'[k].cancelling = task[k].cancelling
    BY <2>1, <1>t DEF TaskRecord
  <2>3. QED
    BY <1>13, <2>2, AccountingUnmoved, FreeUnmoved DEF ClassifierDrain
<1>14. CASE UNCHANGED vars
  BY <1>14, AccountingUnmoved, FreeUnmoved DEF vars
<1>15. ASSUME NEW j \in Keys, Cancel(j)
       PROVE  LaneInv'
  BY <1>15, <1>4 DEF Cancel
<1>16. ASSUME NEW f \in Folders, CancelUnder(f)
       PROVE  LaneInv'
  BY <1>16, <1>4 DEF CancelUnder
<1>17. CASE CancelAll
  BY <1>17, <1>4 DEF CancelAll
<1>18. QED
  BY <1>1, <1>2, <1>3, <1>15, <1>16, <1>17, <1>5, <1>6, <1>7, <1>8, <1>9, <1>10,
     <1>11, <1>12, <1>13, <1>14 DEF Next

LEMMA LaneInit == Init => LaneInv
<1> SUFFICES ASSUME Init PROVE LaneInv
  OBVIOUS
<1>1. \A l \in Lanes : Owners(l) = {}
  BY DEF Init, Owners, KeysOf, NoTask
<1>2. \A l \in Lanes : Eligible(task, l) = {}
  BY DEF Init, Eligible, KeysOf, NoTask
<1>3. \A l \in Lanes : running[l] = 0 /\ 0 <= LaneCapacity[l]
  BY DEF Init
<1>4. QED
  BY <1>1, <1>2, <1>3, FS_EmptySet DEF LaneInv, LaneAccounting, NoLostDrain

LEMMA LaneSafety == Spec => []LaneInv
<1> DEFINE Inv == \A k \in Keys : KeyOwnership(k)
<1>1. Init => Inv /\ LaneInv
  BY OwnershipInit, LaneInit
<1>2. TypeOK /\ Inv /\ LaneInv /\ [Next]_vars => Inv' /\ LaneInv'
  BY OwnershipStep, LaneStep
<1> HIDE DEF Inv
<1>3. QED
  BY <1>1, <1>2, TypeCorrect, PTL DEF Spec

\* The lane counters of the scheduler equal the number of tasks that own the
\* lane and stay within its capacity, for any number of sources and slots.
THEOREM LanesAccounted == Spec => []LaneAccounting
BY LaneSafety, PTL DEF LaneInv

\* No lost wakeup in the scheduler: a free slot with a task to take it always
\* has a drain scheduled (scheduleDrain and its drainScheduled flag).
THEOREM NoDrainLost == Spec => []NoLostDrain
BY LaneSafety, PTL DEF LaneInv

-----------------------------------------------------------------------------
(* Classifier slots. *)

\* The two kinds of classifier runs that hold a slot: those of live tasks, and
\* the aborted ones whose task is gone, numbered per key.
Classifying == {k \in Keys : task[k].classifier = "running"}
Abandoned == {p \in Keys \X (1..ClassifierCapacity) : p[2] <= strays[p[1]]}

\* The slots counted are the slots held, within the capacity.  The accounting
\* can only be read off the set of pairs while no key has more strays than there
\* are slots, and a new task starts without a classifier run only if an absent
\* one never keeps its own.
SlotsHeld ==
    /\ classifiersRunning = Cardinality(Classifying) + Cardinality(Abandoned)
    /\ classifiersRunning <= ClassifierCapacity
    /\ \A k \in Keys : strays[k] <= ClassifierCapacity
    /\ \A k \in Classifying : Live(k)

\* No free slot is forgotten while a task waits for one.
NoLostClassifier ==
    classifiersRunning < ClassifierCapacity /\ Unclassified # {}
      => classifierDrainScheduled

LEMMA SlotsAccounted == SlotsHeld /\ NoLostClassifier => ClassifierAccounting
BY DEF SlotsHeld, NoLostClassifier, ClassifierAccounting, Classifying, Abandoned

\* Both sets are finite.
LEMMA SlotsFinite ==
    /\ IsFiniteSet(Classifying) /\ Cardinality(Classifying) \in Nat
    /\ IsFiniteSet(Abandoned) /\ Cardinality(Abandoned) \in Nat
<1>1. Classifying \in SUBSET Keys
  BY DEF Classifying
<1>2. IsFiniteSet(1..ClassifierCapacity)
  BY FS_Interval
<1>3. IsFiniteSet(Keys \X (1..ClassifierCapacity))
  BY <1>2, FS_Product
<1>4. Abandoned \in SUBSET (Keys \X (1..ClassifierCapacity))
  BY DEF Abandoned
<1>5. IsFiniteSet(Abandoned)
  BY <1>3, <1>4, FS_Subset
<1>6. QED
  BY <1>1, <1>5, FiniteKeys, FS_CardinalityType

\* A key that still has a classifier run has room for one stray more: its strays
\* and its run hold different slots.
LEMMA StrayRoom ==
    ASSUME TypeOK, SlotsHeld, NEW k \in Classifying
    PROVE  k \in Keys /\ strays[k] \in Nat /\ strays[k] + 1 <= ClassifierCapacity
<1>1. k \in Keys /\ strays[k] \in Nat /\ strays[k] <= ClassifierCapacity
  BY DEF Classifying, TypeOK, SlotsHeld
<1> DEFINE n == strays[k]
           number == [i \in 1..n |-> <<k, i>>]
<1>2. number \in Injection(1..n, Abandoned)
  <2>1. \A i \in 1..n : <<k, i>> \in Abandoned
    BY <1>1 DEF Abandoned
  <2>2. number \in [1..n -> Abandoned]
    BY <2>1
  <2>3. \A i, j \in 1..n : number[i] = number[j] => i = j
    OBVIOUS
  <2>4. QED
    BY <2>2, <2>3, Fun_IsInj
<1>3. Cardinality(1..n) <= Cardinality(Abandoned)
  BY <1>2, SlotsFinite, FS_Injection
<1>4. Cardinality(1..n) = n
  <2>1. n \in Nat
    BY <1>1
  <2> HIDE DEF n
  <2>2. Cardinality(1..n) = IF 1 > n THEN 0 ELSE n - 1 + 1
    BY <2>1, FS_Interval
  <2>3. QED
    BY <2>1, <2>2
<1>5. Cardinality(Classifying) # 0
  BY SlotsFinite, FS_EmptySet
<1> HIDE DEF n, number
<1>6. n <= Cardinality(Abandoned)
  BY <1>3, <1>4
<1>7. classifiersRunning = Cardinality(Classifying) + Cardinality(Abandoned)
      /\ classifiersRunning <= ClassifierCapacity
  BY DEF SlotsHeld
<1>8. n \in Nat /\ n + 1 <= ClassifierCapacity
  BY <1>1, <1>5, <1>6, <1>7, SlotsFinite DEF n
<1>9. QED
  BY <1>1, <1>8 DEF n

\* A step that starts and ends no classifier run keeps the count.
LEMMA SlotsUnmoved ==
    ASSUME SlotsHeld, strays' = strays, classifiersRunning' = classifiersRunning,
           \A k \in Keys : /\ task'[k].classifier = "running"
                                <=> task[k].classifier = "running"
                           /\ task[k].classifier = "running" => task'[k].state # "absent"
    PROVE  SlotsHeld'
<1>1. Classifying' = Classifying
  BY DEF Classifying
<1>2. Abandoned' = Abandoned
  BY DEF Abandoned
<1>3. \A k \in Classifying : Live(k)'
  BY DEF Classifying, Live
<1>4. QED
  BY <1>1, <1>2, <1>3 DEF SlotsHeld

\* When tasks leave the map while their classifiers run, every run keeps its slot
\* as a stray: as many pairs are added as keys leave.
LEMMA TasksAbandon ==
    ASSUME TypeOK, SlotsHeld, NEW D \in SUBSET Keys,
           strays' = [k \in Keys |-> IF k \in D /\ task[k].classifier = "running"
                                     THEN strays[k] + 1 ELSE strays[k]],
           classifiersRunning' = classifiersRunning,
           \A k \in D : task'[k].classifier # "running",
           \A k \in Keys \ D : /\ task'[k].classifier = task[k].classifier
                               /\ task'[k].state = task[k].state
    PROVE  SlotsHeld'
<1> DEFINE L == Classifying \cap D
           added == {<<k, strays[k] + 1>> : k \in L}
           number == [k \in L |-> <<k, strays[k] + 1>>]
<1>1. Classifying' = Classifying \ L
  BY DEF Classifying
<1>2. \A k \in L : k \in Keys /\ strays[k] \in Nat /\ strays[k] + 1 <= ClassifierCapacity
  BY StrayRoom
<1>3. \A k \in Keys : strays'[k] = IF k \in L THEN strays[k] + 1 ELSE strays[k]
  BY DEF Classifying
<1>4. strays \in [Keys -> Nat]
  BY DEF TypeOK
<1>5. Abandoned' = Abandoned \cup added
  <2>1. ASSUME NEW p \in Abandoned'
        PROVE  p \in Abandoned \cup added
    <3>1. /\ p \in Keys \X (1..ClassifierCapacity)
          /\ p = <<p[1], p[2]>> /\ p[1] \in Keys /\ p[2] \in 1..ClassifierCapacity
          /\ p[2] <= strays'[p[1]]
      BY DEF Abandoned
    <3>2. CASE p[2] <= strays[p[1]]
      BY <3>1, <3>2 DEF Abandoned
    <3>3. CASE ~(p[2] <= strays[p[1]])
      <4> HIDE DEF L
      <4>1. /\ strays[p[1]] \in Nat /\ p[2] \in Nat
            /\ strays'[p[1]] = IF p[1] \in L THEN strays[p[1]] + 1 ELSE strays[p[1]]
        BY <1>3, <1>4, <3>1
      <4>2. p[1] \in L /\ p[2] = strays[p[1]] + 1
        BY <4>1, <3>1, <3>3
      <4>3. p = <<p[1], strays[p[1]] + 1>>
        BY <3>1, <4>2
      <4>4. QED
        BY <4>2, <4>3
    <3>4. QED
      BY <3>2, <3>3
  <2>2. ASSUME NEW p \in Abandoned
        PROVE  p \in Abandoned'
    <3>1. /\ p \in Keys \X (1..ClassifierCapacity)
          /\ p[1] \in Keys /\ p[2] \in 1..ClassifierCapacity
          /\ p[2] <= strays[p[1]]
      BY DEF Abandoned
    <3>2. p[2] <= strays'[p[1]]
      BY <1>3, <1>4, <3>1
    <3>3. QED
      BY <3>1, <3>2 DEF Abandoned
  <2>3. ASSUME NEW k \in L
        PROVE  <<k, strays[k] + 1>> \in Abandoned'
    BY <1>2, <1>3 DEF Abandoned
  <2>4. QED
    BY <2>1, <2>2, <2>3
<1>6. Abandoned \cap added = {}
  BY <1>2, <1>4 DEF Abandoned
<1>7. L \in SUBSET Keys /\ IsFiniteSet(L) /\ Cardinality(L) \in Nat
  BY FiniteKeys
<1>8. IsFiniteSet(added) /\ Cardinality(added) = Cardinality(L)
  <2>1. number \in Bijection(L, added)
    <3>1. number \in [L -> added]
      OBVIOUS
    <3>2. \A j, k \in L : number[j] = number[k] => j = k
      OBVIOUS
    <3>3. \A p \in added : \E k \in L : number[k] = p
      OBVIOUS
    <3> HIDE DEF number, added, L
    <3>4. QED
      BY <3>1, <3>2, <3>3, Fun_IsBij
  <2> HIDE DEF number, added, L
  <2>2. ExistsBijection(L, added)
    BY <2>1, Fun_ExistsBij
  <2>3. QED
    BY <1>7, <2>2, FS_Bijection
<1>9. Cardinality(Abandoned \cup added) = Cardinality(Abandoned) + Cardinality(L)
  <2> HIDE DEF number, added, L
  <2>1. Cardinality(Abandoned \cup added)
          = Cardinality(Abandoned) + Cardinality(added) - Cardinality(Abandoned \cap added)
    BY <1>8, SlotsFinite, FS_Union
  <2>2. Cardinality(Abandoned \cap added) = 0
    BY <1>6, FS_EmptySet
  <2>3. QED
    BY <1>7, <1>8, <2>1, <2>2, SlotsFinite
<1>10. Cardinality(Classifying \ L) = Cardinality(Classifying) - Cardinality(L)
  <2>1. Classifying \cap L = L
    OBVIOUS
  <2> HIDE DEF number, added, L
  <2>2. Cardinality(Classifying \ L)
          = Cardinality(Classifying) - Cardinality(Classifying \cap L)
    BY SlotsFinite, FS_Difference
  <2>3. QED
    BY <2>1, <2>2
<1>11. \A k \in Keys : strays'[k] <= ClassifierCapacity
  BY <1>2, <1>3 DEF SlotsHeld
<1>12. \A k \in Classifying' : Live(k)'
  BY DEF Classifying, SlotsHeld, Live
<1>13. (Cardinality(Classifying) + Cardinality(Abandoned) = classifiersRunning)'
  <2> HIDE DEF number, added, L
  <2>1. classifiersRunning = Cardinality(Classifying) + Cardinality(Abandoned)
    BY DEF SlotsHeld
  <2>2. Cardinality(Classifying)' = Cardinality(Classifying) - Cardinality(L)
    BY <1>1, <1>10
  <2>3. Cardinality(Abandoned)' = Cardinality(Abandoned) + Cardinality(L)
    BY <1>5, <1>9
  <2>4. QED
    BY <1>7, <2>1, <2>2, <2>3, SlotsFinite
<1>14. QED
  BY <1>11, <1>12, <1>13 DEF SlotsHeld

\* A drain of the classifiers takes as many slots as it starts runs, and no more
\* than are free; afterwards the slots are all taken or nobody waits for one.
LEMMA ClassifiersStart ==
    ASSUME TypeOK, SlotsHeld, ClassifierDrain
    PROVE  SlotsHeld' /\ NoLostClassifier'
<1> DEFINE free == ClassifierCapacity - classifiersRunning
<1>1. PICK S \in SUBSET Unclassified :
        /\ \/ S = Unclassified /\ Cardinality(S) <= free
           \/ S # Unclassified /\ Cardinality(S) = free
        /\ task' = [k \in Keys |-> IF k \in S THEN [task[k] EXCEPT !.classifier = "running"]
                                   ELSE task[k]]
        /\ classifiersRunning' = classifiersRunning + Cardinality(S)
  BY DEF ClassifierDrain
<1>2. strays' = strays /\ Abandoned' = Abandoned
  BY DEF ClassifierDrain, Abandoned
<1>3. /\ S \in SUBSET Keys
      /\ \A k \in S : task[k].state = "queued" /\ task[k].classifier = "queued"
  BY DEF Unclassified
<1>4. IsFiniteSet(S) /\ Cardinality(S) \in Nat
  BY <1>3, FiniteKeys
<1>5. \A k \in Keys : /\ task'[k].classifier = IF k \in S THEN "running" ELSE task[k].classifier
                      /\ task'[k].state = task[k].state
  BY <1>1 DEF TypeOK, TaskRecord
<1>6. Classifying' = Classifying \cup S /\ Classifying \cap S = {}
  BY <1>3, <1>5 DEF Classifying
<1>7. Cardinality(Classifying)' = Cardinality(Classifying) + Cardinality(S)
  <2>1. Cardinality(Classifying \cup S)
          = Cardinality(Classifying) + Cardinality(S) - Cardinality(Classifying \cap S)
    BY <1>4, SlotsFinite, FS_Union
  <2>2. Cardinality(Classifying \cap S) = 0
    BY <1>6, FS_EmptySet
  <2>3. Cardinality(Classifying)' = Cardinality(Classifying \cup S)
    BY <1>6
  <2>4. QED
    BY <1>4, <2>1, <2>2, <2>3, SlotsFinite
<1>8. /\ classifiersRunning = Cardinality(Classifying) + Cardinality(Abandoned)
      /\ classifiersRunning <= ClassifierCapacity
      /\ classifiersRunning \in Nat
  BY DEF SlotsHeld, TypeOK
<1>9. /\ (classifiersRunning = Cardinality(Classifying) + Cardinality(Abandoned))'
      /\ (classifiersRunning <= ClassifierCapacity)'
  <2>1. Cardinality(S) <= free
    BY <1>1, <1>4, <1>8
  <2>2. Cardinality(Abandoned)' = Cardinality(Abandoned)
    BY <1>2
  <2>3. QED
    BY <1>1, <1>4, <1>7, <1>8, <2>1, <2>2, SlotsFinite
<1>10. \A k \in Classifying' : Live(k)'
  BY <1>3, <1>5, <1>6 DEF SlotsHeld, Live, Classifying
<1>11. SlotsHeld'
  BY <1>2, <1>9, <1>10 DEF SlotsHeld
<1>12. ASSUME classifiersRunning' < ClassifierCapacity, NEW k \in Unclassified'
       PROVE  FALSE
  <2>1. S = Unclassified
    BY <1>1, <1>4, <1>8, <1>12
  <2>2. k \in Keys /\ task'[k].state = "queued" /\ task'[k].classifier = "queued"
    BY <1>12 DEF Unclassified
  <2>3. k \notin S /\ k \in Unclassified
    BY <1>5, <2>2 DEF Unclassified
  <2>4. QED
    BY <2>1, <2>3
<1>13. NoLostClassifier'
  BY <1>12 DEF NoLostClassifier
<1>14. QED
  BY <1>11, <1>13

\* A classifier that reports gives back the one slot that its task held: the
\* clamped decrement is exact.
LEMMA OneReports ==
    ASSUME TypeOK, SlotsHeld, NEW j \in Keys, NEW cost \in Costs,
           ClassifierReports(j, cost)
    PROVE  SlotsHeld'
<1>1. /\ j \in Classifying
      /\ strays' = strays
      /\ classifiersRunning' = Decrement(classifiersRunning)
  BY DEF ClassifierReports, Classifying
<1>2. \A k \in Keys : /\ task'[k].classifier = IF k = j THEN "done" ELSE task[k].classifier
                      /\ task'[k].state = task[k].state
  BY DEF ClassifierReports, TypeOK, TaskRecord
<1>3. Classifying' = Classifying \ {j} /\ Abandoned' = Abandoned
  BY <1>1, <1>2 DEF Classifying, Abandoned
<1>4. Cardinality(Classifying \ {j}) = Cardinality(Classifying) - 1
  BY <1>1, SlotsFinite, FS_RemoveElement
<1>5. Cardinality(Classifying) # 0
  BY <1>1, SlotsFinite, FS_EmptySet
<1>6. /\ classifiersRunning = Cardinality(Classifying) + Cardinality(Abandoned)
      /\ classifiersRunning <= ClassifierCapacity
  BY DEF SlotsHeld
<1>7. classifiersRunning' = classifiersRunning - 1
  BY <1>1, <1>5, <1>6, SlotsFinite DEF Decrement
<1>8. /\ (classifiersRunning = Cardinality(Classifying) + Cardinality(Abandoned))'
      /\ (classifiersRunning <= ClassifierCapacity)'
  <2>1. /\ Cardinality(Classifying)' = Cardinality(Classifying) - 1
        /\ Cardinality(Abandoned)' = Cardinality(Abandoned)
    BY <1>3, <1>4
  <2>2. QED
    BY <1>6, <1>7, <2>1, SlotsFinite
<1>9. \A k \in Classifying' : Live(k)'
  BY <1>2, <1>3 DEF SlotsHeld, Live, Classifying
<1>10. QED
  BY <1>1, <1>8, <1>9 DEF SlotsHeld

\* An aborted classifier that ends gives back the slot of one stray.
LEMMA OneStrayEnds ==
    ASSUME TypeOK, SlotsHeld, NEW j \in Keys, StrayClassifierEnds(j)
    PROVE  SlotsHeld'
<1> DEFINE last == <<j, strays[j]>>
<1>1. /\ task' = task
      /\ strays' = [strays EXCEPT ![j] = @ - 1]
      /\ classifiersRunning' = Decrement(classifiersRunning)
      /\ strays \in [Keys -> Nat] /\ strays[j] > 0
      /\ \A k \in Keys : strays[k] <= ClassifierCapacity
  BY DEF StrayClassifierEnds, TypeOK, SlotsHeld
<1>2. \A k \in Keys : strays'[k] = IF k = j THEN strays[j] - 1 ELSE strays[k]
  BY <1>1
<1>3. last \in Abandoned
  BY <1>1 DEF Abandoned
<1>4. Abandoned' = Abandoned \ {last}
  <2>1. ASSUME NEW p \in Keys \X (1..ClassifierCapacity)
        PROVE  p[2] <= strays'[p[1]] <=> p[2] <= strays[p[1]] /\ p # last
    <3>1. p = <<p[1], p[2]>> /\ p[1] \in Keys /\ p[2] \in Nat /\ strays[p[1]] \in Nat
      BY <1>1
    <3>2. p = last <=> p[1] = j /\ p[2] = strays[j]
      BY <3>1
    <3>3. CASE p[1] = j
      <4>1. strays'[p[1]] = strays[j] - 1 /\ strays[p[1]] = strays[j]
        BY <1>2, <3>1, <3>3
      <4>2. QED
        BY <1>1, <3>1, <3>2, <3>3, <4>1
    <3>4. CASE p[1] # j
      <4>1. strays'[p[1]] = strays[p[1]]
        BY <1>2, <3>1, <3>4
      <4>2. QED
        BY <3>2, <3>4, <4>1
    <3>5. QED
      BY <3>3, <3>4
  <2> HIDE DEF last
  <2>2. QED
    BY <2>1 DEF Abandoned
<1> HIDE DEF last
<1>5. Cardinality(Abandoned \ {last}) = Cardinality(Abandoned) - 1
  BY <1>3, SlotsFinite, FS_RemoveElement
<1>6. Cardinality(Abandoned) # 0
  BY <1>3, SlotsFinite, FS_EmptySet
<1>7. /\ classifiersRunning = Cardinality(Classifying) + Cardinality(Abandoned)
      /\ classifiersRunning <= ClassifierCapacity
  BY DEF SlotsHeld
<1>8. classifiersRunning' = classifiersRunning - 1
  BY <1>1, <1>6, <1>7, SlotsFinite DEF Decrement
<1>9. Classifying' = Classifying
  BY <1>1 DEF Classifying
<1>10. /\ (classifiersRunning = Cardinality(Classifying) + Cardinality(Abandoned))'
       /\ (classifiersRunning <= ClassifierCapacity)'
  <2>1. /\ Cardinality(Abandoned)' = Cardinality(Abandoned) - 1
        /\ Cardinality(Classifying)' = Cardinality(Classifying)
    BY <1>4, <1>5, <1>9
  <2>2. QED
    BY <1>7, <1>8, <2>1, SlotsFinite
<1>11. \A k \in Keys : strays'[k] <= ClassifierCapacity
  BY <1>1, <1>2
<1>12. \A k \in Classifying' : Live(k)'
  BY <1>1, <1>9 DEF SlotsHeld, Live
<1>13. QED
  BY <1>10, <1>11, <1>12 DEF SlotsHeld

\* Every step but a drain of the classifiers either leaves who waits and who
\* holds a slot alone, or leaves such a drain scheduled.
LEMMA WaitingUnmoved ==
    ASSUME NoLostClassifier, classifiersRunning' = classifiersRunning,
           classifierDrainScheduled => classifierDrainScheduled',
           \A k \in Keys :
             task'[k].state = "queued" /\ task'[k].classifier = "queued"
               => task[k].state = "queued" /\ task[k].classifier = "queued"
    PROVE  NoLostClassifier'
<1>1. Unclassified' \subseteq Unclassified
  BY DEF Unclassified
<1>2. QED
  BY <1>1 DEF NoLostClassifier

LEMMA DrainRequested == classifierDrainScheduled' = TRUE => NoLostClassifier'
BY DEF NoLostClassifier

LEMMA AgeingKeepsClassifier ==
    ASSUME TypeOK, NEW k \in Keys
    PROVE  ApplyDueAgeing(task)[k].classifier = task[k].classifier
<1>1. task[k] \in TaskRecord
  BY DEF TypeOK
<1>2. ApplyDueAgeing(task)[k] = IF CanAge(task, k) /\ task[k].age = "due"
                                THEN [task[k] EXCEPT !.age = "aged"] ELSE task[k]
  BY DEF ApplyDueAgeing
<1>3. QED
  BY <1>1, <1>2 DEF TaskRecord

LEMMA GrantClassifier ==
    ASSUME NEW t \in TaskRecord
    PROVE  Grant(t).classifier = IF t.classifier = "queued" THEN "done" ELSE t.classifier
BY DEF Grant, TaskRecord

ClassifierInv == SlotsHeld /\ NoLostClassifier

\* Every step keeps the slots accounted for and forgets no waiting classifier.
LEMMA ClassifierStep ==
    ASSUME TypeOK, ClassifierInv, [Next]_vars
    PROVE  ClassifierInv'
<1> USE DEF ClassifierInv
<1>t. /\ task \in [Keys -> TaskRecord]
      /\ \A k \in Keys : task[k] \in TaskRecord
      /\ strays \in [Keys -> Nat]
      /\ classifierDrainScheduled \in BOOLEAN
  BY DEF TypeOK
<1>l. \A k \in Keys : task[k].classifier = "running" => task[k].state # "absent"
  BY DEF SlotsHeld, Classifying, Live
<1>q. ASSUME strays' = strays, classifiersRunning' = classifiersRunning,
             classifierDrainScheduled => classifierDrainScheduled',
             \A k \in Keys : /\ task'[k].classifier = task[k].classifier
                             /\ task'[k].state = "queued" => task[k].state = "queued"
                             /\ task'[k].state = "absent" => task[k].state = "absent"
      PROVE  ClassifierInv'
  <2>1. SlotsHeld'
    BY <1>l, <1>q, SlotsUnmoved
  <2>2. NoLostClassifier'
    BY <1>q, WaitingUnmoved
  <2>3. QED
    BY <2>1, <2>2
<1>1. ASSUME NEW j \in Keys, NEW urgency \in Requested, NEW cost \in Costs,
             ScheduleNew(j, urgency, cost)
      PROVE  ClassifierInv'
  <2>1. task[j].state = "absent"
    BY <1>1 DEF ScheduleNew, Live
  <2>2. task'[j].state = "queued" /\ task'[j].classifier # "running"
    BY <1>1, <1>t DEF ScheduleNew, NewTask
  <2>3. \A k \in Keys : k # j => task'[k] = task[k]
    BY <1>1, <1>t DEF ScheduleNew
  <2>4. SlotsHeld'
    BY <1>1, <1>l, <2>1, <2>2, <2>3, SlotsUnmoved DEF ScheduleNew
  <2>5. QED
    BY <1>1, <2>4, DrainRequested DEF ScheduleNew
<1>2. ASSUME NEW j \in Keys, NEW urgency \in Requested, NEW cost \in Costs,
             ScheduleAgain(j, urgency, cost)
      PROVE  ClassifierInv'
  <2>1. \A k \in Keys : /\ task'[k].classifier = task[k].classifier
                        /\ task'[k].state = task[k].state
    BY <1>2, <1>t DEF ScheduleAgain, TaskRecord
  <2>2. QED
    BY <1>2, <1>q, <2>1 DEF ScheduleAgain
<1>3. ASSUME NEW j \in Keys, NEW urgency \in Requested, Promote(j, urgency)
      PROVE  ClassifierInv'
  <2>1. \A k \in Keys : /\ task'[k].classifier = task[k].classifier
                        /\ task'[k].state = task[k].state
    BY <1>3, <1>t DEF Promote, TaskRecord
  <2>2. QED
    BY <1>3, <1>q, <2>1 DEF Promote
<1>4. ASSUME NEW S \in SUBSET Keys, CancelKeys(S)
      PROVE  ClassifierInv'
  <2> DEFINE dropped == {k \in S : Live(k) /\ ~task[k].started}
  <2>1. /\ strays' = [k \in Keys |-> IF k \in dropped /\ task[k].classifier = "running"
                                     THEN strays[k] + 1 ELSE strays[k]]
        /\ classifiersRunning' = classifiersRunning
        /\ classifierDrainScheduled' = TRUE
    BY <1>4 DEF CancelKeys
  <2>2. \A k \in dropped : task'[k].classifier # "running"
    BY <1>4 DEF CancelKeys, NoTask
  <2>3. \A k \in Keys \ dropped : /\ task'[k].classifier = task[k].classifier
                                  /\ task'[k].state = task[k].state
    BY <1>4, <1>t DEF CancelKeys, TaskRecord
  <2>4. dropped \in SUBSET Keys
    OBVIOUS
  <2> HIDE DEF dropped
  <2>5. SlotsHeld'
    BY <2>1, <2>2, <2>3, <2>4, TasksAbandon
  <2>6. QED
    BY <2>1, <2>5, DrainRequested
<1>5. ASSUME NEW j \in Keys, TimePasses(j)
      PROVE  ClassifierInv'
  <2>1. \A k \in Keys : /\ task'[k].classifier = task[k].classifier
                        /\ task'[k].state = task[k].state
    BY <1>5, <1>t DEF TimePasses, TaskRecord
  <2>2. QED
    BY <1>5, <1>q, <2>1 DEF TimePasses
<1>6. ASSUME NEW j \in Keys, YieldLane(j)
      PROVE  ClassifierInv'
  <2>1. \A k \in Keys : /\ task'[k].classifier = task[k].classifier
                        /\ task'[k].state = "queued" => task[k].state = "queued"
                        /\ task'[k].state = "absent" => task[k].state = "absent"
    BY <1>6, <1>t DEF YieldLane, TaskRecord
  <2>2. QED
    BY <1>6, <1>q, <2>1 DEF YieldLane
<1>7. ASSUME NEW j \in Keys, Finish(j)
      PROVE  ClassifierInv'
  <2>1. \A k \in Keys : strays'[k] = IF k \in {j} /\ task[k].classifier = "running"
                                     THEN strays[k] + 1 ELSE strays[k]
    BY <1>7, <1>t DEF Finish
  <2>2. strays' = [k \in Keys |-> strays'[k]]
    BY <1>7, <1>t DEF Finish
  <2>3. strays' = [k \in Keys |-> IF k \in {j} /\ task[k].classifier = "running"
                                  THEN strays[k] + 1 ELSE strays[k]]
    BY <2>1, <2>2
  <2>4. /\ {j} \in SUBSET Keys
        /\ \A k \in {j} : task'[k].classifier # "running"
        /\ \A k \in Keys \ {j} : /\ task'[k].classifier = task[k].classifier
                                /\ task'[k].state = task[k].state
        /\ classifiersRunning' = classifiersRunning
        /\ classifierDrainScheduled' = TRUE
    BY <1>7, <1>t DEF Finish, NoTask
  <2>5. SlotsHeld'
    BY <2>3, <2>4, TasksAbandon
  <2>6. QED
    BY <2>4, <2>5, DrainRequested
<1>8. ASSUME NEW j \in Keys, NEW cost \in Costs, ClassifierReports(j, cost)
      PROVE  ClassifierInv'
  BY <1>8, OneReports, DrainRequested DEF ClassifierReports
<1>9. ASSUME NEW j \in Keys, StrayClassifierEnds(j)
      PROVE  ClassifierInv'
  BY <1>9, OneStrayEnds, DrainRequested DEF StrayClassifierEnds
<1>10. ASSUME NEW folders \in SUBSET Folders, PrioritiesChanged(folders)
       PROVE  ClassifierInv'
  BY <1>10, <1>q DEF PrioritiesChanged
<1>11. CASE Drain
  <2>1. PICK granted \in SUBSET Keys :
          /\ \A l \in Lanes : Selected(ApplyDueAgeing(task), l, granted \cap KeysOf(l))
          /\ task' = [k \in Keys |-> IF k \in granted THEN Grant(ApplyDueAgeing(task)[k])
                                     ELSE ApplyDueAgeing(task)[k]]
    BY <1>11, DrainOutcome
  <2>2. ASSUME NEW k \in Keys
        PROVE  /\ task'[k].classifier = "running" <=> task[k].classifier = "running"
               /\ task'[k].state = "absent" => task[k].state = "absent"
               /\ task'[k].state = "queued" => task'[k] = ApplyDueAgeing(task)[k]
    <3>1. CASE k \in granted
      <4> DEFINE t == ApplyDueAgeing(task)[k]
      <4>1. t \in TaskRecord /\ t.classifier = task[k].classifier
        BY AgeingKeepsShape, AgeingKeepsClassifier
      <4>2. task'[k] = Grant(t)
        BY <2>1, <3>1
      <4> HIDE DEF t
      <4>3. /\ task'[k].state = "running"
            /\ task'[k].classifier = IF t.classifier = "queued" THEN "done" ELSE t.classifier
        BY <4>1, <4>2, GrantShape, GrantClassifier
      <4>4. QED
        BY <4>1, <4>3
    <3>2. CASE k \notin granted
      BY <2>1, <3>2, AgeingKeepsShape, AgeingKeepsClassifier
    <3>3. QED
      BY <3>1, <3>2
  <2>3. /\ strays' = strays /\ classifiersRunning' = classifiersRunning
        /\ classifierDrainScheduled => classifierDrainScheduled'
    BY <1>11 DEF Drain
  <2>4. \A k \in Keys : task'[k].state = "queued" /\ task'[k].classifier = "queued"
                          => task[k].state = "queued" /\ task[k].classifier = "queued"
    BY <2>2, AgeingKeepsShape, AgeingKeepsClassifier
  <2>5. SlotsHeld'
    BY <1>l, <2>2, <2>3, SlotsUnmoved
  <2>6. NoLostClassifier'
    BY <2>3, <2>4, WaitingUnmoved
  <2>7. QED
    BY <2>5, <2>6
<1>12. CASE AgeingTimer
  <2>1. \A k \in Keys : /\ task'[k].classifier = task[k].classifier
                        /\ task'[k].state = task[k].state
    BY <1>12, AgeingKeepsShape, AgeingKeepsClassifier DEF AgeingTimer
  <2>2. QED
    BY <1>12, <1>q, <2>1 DEF AgeingTimer
<1>13. CASE ClassifierDrain
  BY <1>13, ClassifiersStart
<1>14. CASE UNCHANGED vars
  BY <1>14, <1>q DEF vars
<1>15. ASSUME NEW j \in Keys, Cancel(j)
       PROVE  ClassifierInv'
  BY <1>15, <1>4 DEF Cancel
<1>16. ASSUME NEW f \in Folders, CancelUnder(f)
       PROVE  ClassifierInv'
  BY <1>16, <1>4 DEF CancelUnder
<1>17. CASE CancelAll
  BY <1>17, <1>4 DEF CancelAll
<1>18. QED
  BY <1>1, <1>2, <1>3, <1>15, <1>16, <1>17, <1>5, <1>6, <1>7, <1>8, <1>9, <1>10,
     <1>11, <1>12, <1>13, <1>14 DEF Next

LEMMA ClassifierInit == Init => ClassifierInv
<1> SUFFICES ASSUME Init PROVE ClassifierInv
  OBVIOUS
<1>1. Classifying = {}
  BY DEF Init, Classifying, NoTask
<1>2. Abandoned = {}
  BY DEF Init, Abandoned
<1>3. Unclassified = {}
  BY DEF Init, Unclassified, NoTask
<1>4. Cardinality({}) = 0
  BY FS_EmptySet
<1>5. classifiersRunning = 0 /\ \A k \in Keys : strays[k] <= ClassifierCapacity
  BY DEF Init
<1>6. QED
  BY <1>1, <1>2, <1>3, <1>4, <1>5 DEF ClassifierInv, SlotsHeld, NoLostClassifier

\* The classifier slots counted are exactly those of running classifiers, of live
\* tasks and of tasks already gone (drainClassifiers and its finally, cancel,
\* finish); they stay within the capacity, and no free slot is forgotten while a
\* task waits for one, for any number of sources and slots.
THEOREM ClassifiersAccounted == Spec => []ClassifierAccounting
<1>1. TypeOK /\ ClassifierInv /\ [Next]_vars => ClassifierInv'
  BY ClassifierStep
<1>2. ClassifierInv => ClassifierAccounting
  BY SlotsAccounted DEF ClassifierInv
<1>3. QED
  BY <1>1, <1>2, ClassifierInit, TypeCorrect, PTL DEF Spec

-----------------------------------------------------------------------------
(* The scheduler implements ScheduledWork. *)

\* A step that moves no run, no membership of the map and no cancellation is not
\* seen by the callers.
LEMMA PromiseStutter ==
    ASSUME \A k \in Keys : /\ body'[k] = body[k]
                           /\ task'[k].state = "absent" <=> task[k].state = "absent"
                           /\ task'[k].cancelling = task[k].cancelling
    PROVE  UNCHANGED Promised!vars
<1>1. \A k \in Keys : Status(k)' = Status(k)
  BY DEF Status, Live
<1>2. QED
  BY <1>1 DEF Promised!vars

LEMMA PromiseInit == Init => Promised!Init
BY DEF Init, Promised!Init, Status, Live, NoTask

\* ScheduledWork counts as this module does.
LEMMA SameCount == \A S : Promised!Cardinality(S) = Cardinality(S)
BY DEF Promised!Cardinality, Cardinality

\* A drain is the handing out of slots, and no lane is overcommitted.
LEMMA PromiseDrain ==
    ASSUME TypeOK, \A k \in Keys : KeyOwnership(k), LaneInv, Drain
    PROVE  Promised!Next
<1>1. PICK granted \in SUBSET Keys :
        /\ \A l \in Lanes : Selected(ApplyDueAgeing(task), l, granted \cap KeysOf(l))
        /\ task' = [k \in Keys |-> IF k \in granted THEN Grant(ApplyDueAgeing(task)[k])
                                   ELSE ApplyDueAgeing(task)[k]]
        /\ body' = [k \in Keys |-> IF k \in granted THEN "working" ELSE body[k]]
  BY DrainOutcome
<1>2. ASSUME NEW k \in granted
      PROVE  /\ Status(k) \in {"waiting", "suspended"} /\ ~task[k].cancelling
             /\ Status(k)' = "working" /\ task'[k].cancelling = task[k].cancelling
  <2>1. task[k].state \in {"queued", "yielded"} /\ ~task[k].cancelling
    BY <1>1, GrantedWaited
  <2>2. Status(k) \in {"waiting", "suspended"}
    BY <2>1 DEF KeyOwnership, Status, Live
  <2>3. QED
    BY <1>1, <2>1, <2>2, AgeingKeepsShape, GrantShape DEF Status
<1>3. ASSUME NEW k \in Keys \ granted
      PROVE  Status(k)' = Status(k) /\ task'[k].cancelling = task[k].cancelling
  BY <1>1, AgeingKeepsShape DEF Status, Live
<1>4. ASSUME NEW l \in Lanes
      PROVE  Cardinality(Promised!Working(l)') <= LaneCapacity[l]
  <2>1. \A k \in Keys : KeyOwnership(k)'
    BY OwnershipStep DEF Next
  <2>2. \A k \in Keys : Status(k)' = "working" <=> task'[k].ownsLane
    BY <2>1 DEF KeyOwnership, Status
  <2>3. Promised!Working(l)' = Owners(l)'
    BY <2>2 DEF Promised!Working, Owners, KeysOf
  <2>4. QED
    BY <2>3, DrainAccounting DEF LaneInv
<1>5. Promised!Give(granted)
  BY <1>2, <1>3, <1>4, SameCount DEF Promised!Give
<1>6. QED
  BY <1>5 DEF Promised!Next

\* Every step is one of ScheduledWork, or unseen.
LEMMA PromiseStep ==
    ASSUME TypeOK, \A k \in Keys : KeyOwnership(k), LaneInv, [Next]_vars
    PROVE  [Promised!Next]_(Promised!vars)
<1>t. /\ task \in [Keys -> TaskRecord]
      /\ \A k \in Keys : task[k] \in TaskRecord
      /\ body \in [Keys -> {"none", "working", "suspended", "unwinding"}]
  BY DEF TypeOK
<1>1. ASSUME NEW j \in Keys, NEW urgency \in Requested, NEW cost \in Costs,
             ScheduleNew(j, urgency, cost)
      PROVE  Promised!Next
  <2>1. Status(j) = "absent" /\ task[j].cancelling = FALSE
    BY <1>1, <1>t DEF ScheduleNew, Status, Live, KeyOwnership, TaskRecord
  <2>2. Status(j)' = "waiting" /\ task'[j].cancelling = FALSE
    BY <1>1, <1>t DEF ScheduleNew, NewTask, Status, Live, KeyOwnership
  <2>3. \A k \in Keys \ {j} : Status(k)' = Status(k) /\ task'[k].cancelling = task[k].cancelling
    BY <1>1, <1>t DEF ScheduleNew, Status, Live
  <2>4. Promised!Request(j)
    BY <2>1, <2>2, <2>3 DEF Promised!Request
  <2>5. QED
    BY <2>4 DEF Promised!Next
<1>2. ASSUME NEW j \in Keys, NEW urgency \in Requested, NEW cost \in Costs,
             ScheduleAgain(j, urgency, cost)
      PROVE  UNCHANGED Promised!vars
  BY <1>2, <1>t, PromiseStutter DEF ScheduleAgain, TaskRecord
<1>3. ASSUME NEW j \in Keys, NEW urgency \in Requested, Promote(j, urgency)
      PROVE  UNCHANGED Promised!vars
  BY <1>3, <1>t, PromiseStutter DEF Promote, TaskRecord
<1>4. ASSUME NEW S \in SUBSET Keys, CancelKeys(S)
      PROVE  Promised!Next
  <2>1. ASSUME NEW k \in Keys
        PROVE  /\ Status(k)' = IF k \in S /\ Status(k) = "waiting" THEN "absent"
                                ELSE IF k \in S /\ Status(k) = "suspended" THEN "unwinding"
                                ELSE Status(k)
               /\ task'[k].cancelling =
                    (task[k].cancelling \/ (k \in S /\ Status(k) \in {"working", "suspended"}))
    <3>1. CASE k \in S /\ Live(k) /\ ~task[k].started
      BY <1>4, <3>1, <1>t DEF CancelKeys, Live, NoTask, Status, KeyOwnership, TaskRecord
    <3>2. CASE k \in S /\ Live(k) /\ task[k].started
      <4>1. /\ task'[k].cancelling = TRUE
            /\ task'[k].state = task[k].state
            /\ body'[k] = IF body[k] = "suspended" THEN "unwinding" ELSE body[k]
        BY <1>4, <3>2, <1>t DEF CancelKeys, TaskRecord
      <4>2. /\ body[k] \in {"working", "suspended", "unwinding"}
            /\ body[k] = "unwinding" => task[k].cancelling
            /\ Status(k) = body[k]
        BY <3>2, <1>t DEF Live, KeyOwnership, Status
      <4>3. task[k].cancelling \/ (k \in S /\ Status(k) \in {"working", "suspended"})
        BY <3>2, <4>2
      <4>4. QED
        BY <3>2, <4>1, <4>2, <4>3 DEF Status
    <3>3. CASE ~(k \in S /\ Live(k))
      BY <1>4, <3>3, <1>t DEF CancelKeys, Live, Status, KeyOwnership, TaskRecord
    <3>4. QED
      BY <3>1, <3>2, <3>3
  <2>2. Promised!Cancel(S)
    BY <2>1 DEF Promised!Cancel
  <2>3. QED
    BY <2>2 DEF Promised!Next
<1>5. ASSUME NEW j \in Keys, TimePasses(j)
      PROVE  UNCHANGED Promised!vars
  BY <1>5, <1>t, PromiseStutter DEF TimePasses, TaskRecord
<1>6. ASSUME NEW j \in Keys, YieldLane(j)
      PROVE  Promised!Next
  <2>1. Status(j) = "working" /\ ~task[j].cancelling
    BY <1>6 DEF YieldLane, Status
  <2>2. Status(j)' = "suspended"
    BY <1>6, <1>t DEF YieldLane, Status
  <2>3. \A k \in Keys \ {j} : Status(k)' = Status(k)
    BY <1>6, <1>t DEF YieldLane, Status, Live
  <2>4. \A k \in Keys : task'[k].cancelling = task[k].cancelling
    BY <1>6, <1>t DEF YieldLane, TaskRecord
  <2>5. Promised!Yield(j)
    BY <2>1, <2>2, <2>3, <2>4 DEF Promised!Yield
  <2>6. QED
    BY <2>5 DEF Promised!Next
<1>7. ASSUME NEW j \in Keys, Finish(j)
      PROVE  Promised!Next
  <2>1. Status(j) \in {"working", "unwinding"}
    BY <1>7 DEF Finish, Status
  <2>2. Status(j)' = "absent" /\ task'[j].cancelling = FALSE
    BY <1>7, <1>t DEF Finish, Status, Live, NoTask
  <2>3. \A k \in Keys \ {j} : Status(k)' = Status(k) /\ task'[k].cancelling = task[k].cancelling
    BY <1>7, <1>t DEF Finish, Status, Live
  <2>4. Promised!End(j)
    BY <2>1, <2>2, <2>3 DEF Promised!End
  <2>5. QED
    BY <2>4 DEF Promised!Next
<1>8. ASSUME NEW j \in Keys, NEW cost \in Costs, ClassifierReports(j, cost)
      PROVE  UNCHANGED Promised!vars
  BY <1>8, <1>t, PromiseStutter DEF ClassifierReports, TaskRecord
<1>9. ASSUME NEW j \in Keys, StrayClassifierEnds(j)
      PROVE  UNCHANGED Promised!vars
  BY <1>9, PromiseStutter DEF StrayClassifierEnds
<1>10. ASSUME NEW folders \in SUBSET Folders, PrioritiesChanged(folders)
       PROVE  UNCHANGED Promised!vars
  BY <1>10, PromiseStutter DEF PrioritiesChanged
<1>11. CASE Drain
  BY <1>11, PromiseDrain
<1>12. CASE AgeingTimer
  BY <1>12, AgeingKeepsShape, PromiseStutter DEF AgeingTimer
<1>13. CASE ClassifierDrain
  <2>1. PICK S \in SUBSET Unclassified :
          task' = [i \in Keys |-> IF i \in S THEN [task[i] EXCEPT !.classifier = "running"]
                                  ELSE task[i]]
    BY <1>13 DEF ClassifierDrain
  <2>2. body' = body
    BY <1>13 DEF ClassifierDrain
  <2>3. QED
    BY <2>1, <2>2, <1>t, PromiseStutter DEF TaskRecord
<1>14. CASE UNCHANGED vars
  BY <1>14, PromiseStutter DEF vars
<1>15. ASSUME NEW j \in Keys, Cancel(j)
       PROVE  Promised!Next
  BY <1>15, <1>4 DEF Cancel
<1>16. ASSUME NEW f \in Folders, CancelUnder(f)
       PROVE  Promised!Next
  BY <1>16, <1>4 DEF CancelUnder
<1>17. CASE CancelAll
  BY <1>17, <1>4 DEF CancelAll
<1>18. QED
  BY <1>1, <1>2, <1>3, <1>15, <1>16, <1>17, <1>5, <1>6, <1>7, <1>8, <1>9, <1>10,
     <1>11, <1>12, <1>13, <1>14 DEF Next

\* The scheduler keeps the promise its callers rely on: queues, counters, yields
\* and deferred drains implement ScheduledWork for any number of sources.
THEOREM PromiseKept == Spec => KeepsPromise
<1> DEFINE Inv == \A k \in Keys : KeyOwnership(k)
<1>1. Init => Inv /\ Promised!Init
  BY OwnershipInit, PromiseInit
<1>2. TypeOK /\ Inv /\ [Next]_vars => Inv'
  BY OwnershipStep
<1>3. TypeOK /\ Inv /\ LaneInv /\ [Next]_vars => [Promised!Next]_(Promised!vars)
  BY PromiseStep
<1> HIDE DEF Inv
<1>4. QED
  BY <1>1, <1>2, <1>3, TypeCorrect, LaneSafety, PTL DEF Spec, KeepsPromise, Promised!Spec
=============================================================================
