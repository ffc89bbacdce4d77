-------------------------- MODULE FolderSync_proofs --------------------------
(***************************************************************************)
(* Proofs about FolderSync for any number of folders, windows, requests and *)
(* failures: the type invariant, that no sync works on a folder whose       *)
(* removal has begun to delete, that a folder leaves nothing of a sync      *)
(* behind, and that one retirement of the daemon shows in no warning.       *)
(***************************************************************************)
EXTENDS FolderSync, SequenceTheorems, TLAPS

USE FolderSyncAssumption DEF FolderSyncAssumption

-----------------------------------------------------------------------------
(* Types. *)

\* The sets of the window's variables, of the operations, and of the rest.
WindowTypes ==
    /\ member \subseteq Folders
    /\ current \in [Windows -> Folders \cup {None}]
    /\ notices \in [Windows -> Seq(Folders)]
    /\ seq \in [Windows -> Nat] /\ tail \in [Windows -> Nat]
    /\ answered \in [Windows -> BOOLEAN]

SyncTypes ==
    /\ tickets \subseteq Ticket
    /\ queue \in [Folders -> Seq(Operation)]
    /\ step \in [Folders -> Steps]
    /\ todo \in [Folders -> 0..Files]
    /\ failed \in [Folders -> BOOLEAN]
    /\ warning \in [Folders -> Warnings]
    /\ sweep \in [kind : Sweeps \cup {"none"}, left : SUBSET Folders,
                  at : Folders \cup {None}]

StoreTypes ==
    /\ generation \in [Folders -> Nat]
    /\ removal \in [Folders -> Removals]
    /\ bound \subseteq Folders
    /\ rows \in [Folders -> SUBSET {"sync", "save"}]
    /\ saving \subseteq Folders
    /\ retirements \in Nat
    /\ requests \in 0..MaxRequests /\ faults \in 0..MaxFaults

Types == WindowTypes /\ SyncTypes /\ StoreTypes

\* Only a call that is in flight can be rejected.
RejectedInFlight ==
    \A x \in rejected :
        \/ \E f \in Folders : x = SyncCall(f) /\ step[f] # "idle"
        \/ \E f \in Folders : x = DeleteCall(f) /\ removal[f] = "deleting"

\* They are the types of the specification.
LEMMA TypesAreTypeOK == Types /\ RejectedInFlight <=> TypeOK
<1>1. RejectedInFlight <=> rejected \subseteq InFlight
  BY DEF RejectedInFlight, InFlight
<1> QED
  BY <1>1 DEF TypeOK, Types, WindowTypes, SyncTypes, StoreTypes

\* The two kinds of calls are different.
LEMMA CallsDiffer ==
    \A f, g \in Folders : /\ SyncCall(f) # DeleteCall(g)
                          /\ SyncCall(f) = SyncCall(g) => f = g
                          /\ DeleteCall(f) = DeleteCall(g) => f = g
BY DEF SyncCall, DeleteCall

-----------------------------------------------------------------------------
(* Scheduling an operation. *)

\* The queues stay, or an operation that has not been retried joins the one of a
\* folder that is not being removed.
Joins ==
    \/ queue' = queue
    \/ \E f \in Folders, op \in Operation :
         /\ removal[f] = "none" /\ ~op.retried
         /\ queue' = [queue EXCEPT ![f] = Append(@, op)]

\* What syncFolderNow returns.
LEMMA SyncJoins ==
    ASSUME Types, NEW f \in Folders, NEW by \in Windows \cup {"sweep", "user"}, NEW n \in Nat,
           queue' = SyncFolderNow(f, by, n).queue
    PROVE  /\ Joins
           /\ removal[f] # "none" => queue' = queue
<1> DEFINE op == [by |-> by, seq |-> n, gen |-> generation[f], retried |-> FALSE]
<1>1. op \in Operation /\ ~op.retried
  BY DEF Operation, Types, StoreTypes
<1>2. CASE removal[f] # "none"
  BY <1>2 DEF SyncFolderNow, Joins
<1>3. CASE removal[f] = "none"
  <2>1. queue' = [queue EXCEPT ![f] = Append(@, op)]
    BY <1>3 DEF SyncFolderNow
  <2> QED
    BY <1>1, <1>3, <2>1 DEF Joins
<1> QED
  BY <1>2, <1>3

\* Such queues are queues.
LEMMA JoinTypes ==
    ASSUME queue \in [Folders -> Seq(Operation)], Joins
    PROVE  queue' \in [Folders -> Seq(Operation)]
<1>1. ASSUME NEW f \in Folders, NEW op \in Operation,
             queue' = [queue EXCEPT ![f] = Append(@, op)]
      PROVE  queue' \in [Folders -> Seq(Operation)]
  <2>1. Append(queue[f], op) \in Seq(Operation)
    OBVIOUS
  <2> QED
    BY <1>1, <2>1
<1> QED
  BY <1>1 DEF Joins

\* A loop over the library keeps its place.
LEMMA SweepTypes ==
    ASSUME Types, NEW kind \in Sweeps, NEW rest \in SUBSET Folders, NEW f \in Folders,
           SweepTo(kind, rest, f)
    PROVE  /\ Joins /\ bound' \subseteq Folders
           /\ sweep' \in [kind : Sweeps \cup {"none"}, left : SUBSET Folders,
                          at : Folders \cup {None}]
<1>1. CASE kind = "reconcile" /\ queue' = SyncFolderNow(f, "sweep", 0).queue /\ bound' = bound
  <2>1. Joins
    BY <1>1, SyncJoins
  <2> QED
    BY <1>1, <2>1 DEF SweepTo, NoSweep, Types, StoreTypes
<1>2. CASE queue' = queue /\ bound' = bound \cup {f}
  BY <1>2 DEF SweepTo, NoSweep, Types, StoreTypes, Joins
<1> QED
  BY <1>1, <1>2 DEF SweepTo

-----------------------------------------------------------------------------
(* The end of an operation. *)

\* The types of the variables that the end of an operation changes.
LEMMA SettleTypes ==
    ASSUME Types, NEW f \in Folders, queue[f] # <<>>,
           NEW cause \in Warnings \cup {"cancelled"}, Settle(f, cause)
    PROVE  /\ SyncTypes'
           /\ answered' \in [Windows -> BOOLEAN]
           /\ queue' = [queue EXCEPT ![f] = Tail(@)]
           /\ step' = [step EXCEPT ![f] = "idle"]
           /\ \A g \in Folders : warning'[g] # warning[g] => g = f /\ warning'[g] = cause
<1> USE DEF Types, WindowTypes, SyncTypes
<1>1. queue' = [queue EXCEPT ![f] = Tail(@)] /\ step' = [step EXCEPT ![f] = "idle"]
  BY DEF Settle
<1>2. Tail(queue[f]) \in Seq(Operation)
  OBVIOUS
<1>3. queue' \in [Folders -> Seq(Operation)] /\ step' \in [Folders -> Steps]
  BY <1>1, <1>2 DEF Steps
<1>4. todo' \in [Folders -> 0..Files] /\ failed' \in [Folders -> BOOLEAN]
  BY DEF Settle
<1>5. /\ warning' \in [Folders -> Warnings]
      /\ \A g \in Folders : warning'[g] # warning[g] => g = f /\ warning'[g] = cause
  BY DEF Settle
<1>6. tickets' \subseteq Ticket
  BY DEF Settle
<1>7. answered' \in [Windows -> BOOLEAN]
  BY DEF Settle
<1>8. sweep' \in [kind : Sweeps \cup {"none"}, left : SUBSET Folders, at : Folders \cup {None}]
  BY DEF Settle, NoSweep
<1> QED
  BY <1>1, <1>3, <1>4, <1>5, <1>6, <1>7, <1>8




-----------------------------------------------------------------------------
(* Types of the states. *)

\* An operation that runs is the first of its queue, and writes what is left of
\* its diff.
Busy == \A f \in Folders : step[f] # "idle" => queue[f] # <<>>
Pending == \A f \in Folders : step[f] = "write" => todo[f] \in 1..Files

\* The first state has the types.
LEMMA TypesInit == Init => Types
BY EmptySeq DEF Init, Types, WindowTypes, SyncTypes, StoreTypes, Steps, Warnings, Removals, NoSweep

\* A step of the operation itself keeps them.
LEMMA AdvanceTypes ==
    ASSUME Types, NEW f \in Folders, NEW s \in Steps, NEW n \in 0..Files, Advance(f, s, n)
    PROVE  /\ SyncTypes' /\ answered' = answered
           /\ step' = [step EXCEPT ![f] = s] /\ queue' = queue /\ warning' = warning
BY DEF Advance, Types, SyncTypes

\* What Interrupted does to the queues of a folder that starts over.
LEMMA RetryTypes ==
    ASSUME Types, NEW f \in Folders, queue[f] # <<>>,
           queue' = [queue EXCEPT ![f][1].retried = TRUE]
    PROVE  /\ queue' \in [Folders -> Seq(Operation)]
           /\ Len(queue'[f]) = Len(queue[f])
           /\ \A g \in Folders \ {f} : queue'[g] = queue[g]
<1> DEFINE q == queue[f]
           op == [q[1] EXCEPT !.retried = TRUE]
<1>1. q \in Seq(Operation) /\ q # <<>> /\ 1 \in 1..Len(q) /\ q[1] \in Operation
  BY DEF Types, SyncTypes
<1>2. op \in Operation
  BY <1>1 DEF Operation
<1>3. [q EXCEPT ![1] = op] \in Seq(Operation) /\ Len([q EXCEPT ![1] = op]) = Len(q)
  BY <1>1, <1>2
<1>4. queue' = [queue EXCEPT ![f] = [q EXCEPT ![1] = op]]
  OBVIOUS
<1> QED
  BY <1>3, <1>4 DEF Types, SyncTypes

\* Every step keeps the types.
LEMMA TypesStep == Types /\ Busy /\ Pending /\ [Next]_vars => Types'
<1> SUFFICES ASSUME Types, Busy, Pending, [Next]_vars PROVE Types'
  OBVIOUS
<1> USE DEF windowVars, syncVars, storeVars, Request, Fault, Leave, Proceed
<1>a. WindowTypes /\ SyncTypes /\ StoreTypes
  BY DEF Types
<1>b. \A f \in Folders : step[f] # "idle" => queue[f] # <<>>
  BY DEF Busy
<1>c. \A f \in Folders : step[f] = "write" => todo[f] \in 1..Files
  BY DEF Pending
<1>1. ASSUME NEW w \in Windows, NEW f \in Folders, OpenFolder(w, f) PROVE Types'
  <2>1. Append(notices[w], f) \in Seq(Folders)
    BY <1>a DEF WindowTypes
  <2>2. WindowTypes'
    BY <1>a, <1>1, <2>1 DEF OpenFolder, WindowTypes
  <2>3. SyncTypes' /\ StoreTypes'
    BY <1>a, <1>1 DEF OpenFolder, SyncTypes, StoreTypes
  <2> QED
    BY <2>2, <2>3 DEF Types
<1>2. ASSUME NEW w \in Windows, CloseFolder(w) PROVE Types'
  <2>1. WindowTypes'
    BY <1>a, <1>2 DEF CloseFolder, WindowTypes
  <2>2. SyncTypes'
    BY <1>a, <1>2 DEF CloseFolder, SyncTypes
  <2>3. StoreTypes'
    BY <1>a, <1>2 DEF CloseFolder, StoreTypes
  <2> QED
    BY <2>1, <2>2, <2>3 DEF Types
<1>3. ASSUME NEW w \in Windows, ScheduleIndexerSync(w) PROVE Types'
  <2>1. /\ notices[w] \in Seq(Folders) /\ notices[w] # <<>>
        /\ Head(notices[w]) \in Folders /\ Tail(notices[w]) \in Seq(Folders)
    BY <1>a, <1>3 DEF ScheduleIndexerSync, WindowTypes
  <2>2. WindowTypes'
    BY <1>a, <1>3, <2>1 DEF ScheduleIndexerSync, WindowTypes
  <2>3. SyncTypes'
    <3>1. [window |-> w, folder |-> Head(notices[w]), seq |-> seq[w] + 1,
           after |-> tail[w], running |-> FALSE] \in Ticket
      BY <1>a, <2>1 DEF WindowTypes, Ticket
    <3> QED
      BY <1>a, <1>3, <3>1 DEF ScheduleIndexerSync, SyncTypes
  <2>4. StoreTypes'
    BY <1>a, <1>3 DEF ScheduleIndexerSync, StoreTypes
  <2> QED
    BY <2>2, <2>3, <2>4 DEF Types
<1>4. ASSUME NEW t \in tickets, TicketTurn(t) PROVE Types'
  <2>1. t \in Ticket /\ t.folder \in Folders /\ t.window \in Windows /\ t.seq \in Nat
    BY <1>a DEF SyncTypes, Ticket
  <2>2. queue' = queue \/ queue' = SyncFolderNow(t.folder, t.window, t.seq).queue
    BY <1>4 DEF TicketTurn
  <2>3. queue' \in [Folders -> Seq(Operation)]
    <3>1. t.window \in Windows \cup {"sweep", "user"}
      BY <2>1
    <3>2. Joins
      BY <2>1, <2>2, <3>1, SyncJoins DEF Joins
    <3> QED
      BY <1>a, <3>2, JoinTypes DEF SyncTypes
  <2>4. tickets' \subseteq Ticket
    <3>1. [t EXCEPT !.running = TRUE] \in Ticket
      BY <2>1 DEF Ticket
    <3> QED
      BY <1>a, <1>4, <3>1 DEF TicketTurn, SyncTypes
  <2>5. SyncTypes'
    BY <1>a, <1>4, <2>3, <2>4 DEF TicketTurn, SyncTypes
  <2>6. WindowTypes' /\ StoreTypes'
    BY <1>a, <1>4 DEF TicketTurn, WindowTypes, StoreTypes
  <2> QED
    BY <2>5, <2>6 DEF Types
<1>5. ASSUME NEW w \in Windows, UserSync(w) PROVE Types'
  <2>1. current[w] \in Folders /\ queue' = SyncFolderNow(current[w], "user", 0).queue
    BY <1>a, <1>5 DEF UserSync, WindowTypes
  <2>2. Joins
    BY <2>1, SyncJoins
  <2>3. queue' \in [Folders -> Seq(Operation)]
    BY <1>a, <2>2, JoinTypes DEF SyncTypes
  <2>4. SyncTypes'
    BY <1>a, <1>5, <2>3 DEF UserSync, SyncTypes
  <2>5. WindowTypes' /\ StoreTypes'
    BY <1>a, <1>5 DEF UserSync, WindowTypes, StoreTypes
  <2> QED
    BY <2>4, <2>5 DEF Types
<1>6. ASSUME NEW w \in Windows, SaveFile(w) PROVE Types'
  BY <1>a, <1>6 DEF SaveFile, Types, WindowTypes, SyncTypes, StoreTypes
<1>7. ASSUME NEW kind \in Sweeps, SweepStart(kind) PROVE Types'
  <2>1. PICK f \in Folders : SweepTo(kind, member, f)
    BY <1>a, <1>7 DEF SweepStart, WindowTypes
  <2>2. member \in SUBSET Folders
    BY <1>a DEF WindowTypes
  <2>3. /\ Joins /\ bound' \subseteq Folders
        /\ sweep' \in [kind : Sweeps \cup {"none"}, left : SUBSET Folders,
                       at : Folders \cup {None}]
    BY <2>1, <2>2, SweepTypes
  <2>4. queue' \in [Folders -> Seq(Operation)]
    BY <1>a, <2>3, JoinTypes DEF SyncTypes
  <2>5. SyncTypes'
    BY <1>a, <1>7, <2>3, <2>4 DEF SweepStart, SyncTypes
  <2>6. WindowTypes' /\ StoreTypes'
    BY <1>a, <1>7, <2>3 DEF SweepStart, WindowTypes, StoreTypes
  <2> QED
    BY <2>5, <2>6 DEF Types
<1>8. ASSUME NEW f \in Folders, SweepNext(f) PROVE Types'
  <2>1. sweep.kind \in Sweeps /\ sweep.left \in SUBSET Folders
    BY <1>a, <1>8 DEF SweepNext, SyncTypes, SweepTo
  <2>2. /\ Joins /\ bound' \subseteq Folders
        /\ sweep' \in [kind : Sweeps \cup {"none"}, left : SUBSET Folders,
                       at : Folders \cup {None}]
    BY <1>8, <2>1, SweepTypes DEF SweepNext
  <2>3. queue' \in [Folders -> Seq(Operation)]
    BY <1>a, <2>2, JoinTypes DEF SyncTypes
  <2>4. SyncTypes'
    BY <1>a, <1>8, <2>2, <2>3 DEF SweepNext, SyncTypes
  <2>5. WindowTypes' /\ StoreTypes'
    BY <1>a, <1>8, <2>2 DEF SweepNext, WindowTypes, StoreTypes
  <2> QED
    BY <2>4, <2>5 DEF Types
<1>9. ASSUME NEW f \in Folders, BindFolder(f) PROVE Types'
  <2>1. SyncTypes' /\ answered' \in [Windows -> BOOLEAN]
    <3>1. "bind" \in Steps /\ 0 \in 0..Files /\ "cancelled" \in Warnings \cup {"cancelled"}
      BY DEF Steps
    <3> QED
      BY <1>a, <1>9, <3>1, AdvanceTypes, SettleTypes DEF BindFolder, WindowTypes
  <2>2. WindowTypes' /\ StoreTypes'
    BY <1>a, <1>9, <2>1 DEF BindFolder, WindowTypes, StoreTypes
  <2> QED
    BY <2>1, <2>2 DEF Types
<1>10. ASSUME NEW f \in Folders, Interrupted(f) PROVE Types'
  <2>1. queue[f] # <<>>
    BY <1>b, <1>10 DEF Interrupted
  <2>2. SyncTypes' /\ answered' \in [Windows -> BOOLEAN] /\ bound' \subseteq Folders
    <3>1. CASE Settle(f, "cancelled") /\ bound' = bound
      BY <1>a, <2>1, <3>1, SettleTypes DEF StoreTypes
    <3>2. CASE Settle(f, "retired") /\ bound' = bound
      BY <1>a, <2>1, <3>2, SettleTypes DEF StoreTypes, Warnings
    <3>3. CASE /\ queue' = [queue EXCEPT ![f][1].retried = TRUE]
               /\ step' = [step EXCEPT ![f] = "bind"]
               /\ bound' = bound \cup {f}
               /\ UNCHANGED <<tickets, todo, failed, warning, sweep, answered>>
      BY <1>a, <2>1, <3>3, RetryTypes DEF SyncTypes, WindowTypes, StoreTypes, Steps
    <3> QED
      BY <1>10, <3>1, <3>2, <3>3 DEF Interrupted
  <2>3. WindowTypes' /\ StoreTypes'
    BY <1>a, <1>10, <2>2 DEF Interrupted, WindowTypes, StoreTypes
  <2> QED
    BY <2>2, <2>3 DEF Types
<1>11. ASSUME NEW f \in Folders, SyncFails(f) PROVE Types'
  <2>1. queue[f] # <<>>
    BY <1>b, <1>11 DEF SyncFails
  <2>2. SyncTypes' /\ answered' \in [Windows -> BOOLEAN]
    BY <1>11, <2>1, SettleTypes DEF SyncFails, Warnings
  <2>3. WindowTypes' /\ StoreTypes'
    BY <1>a, <1>11, <2>2 DEF SyncFails, WindowTypes, StoreTypes
  <2> QED
    BY <2>2, <2>3 DEF Types
<1>12. ASSUME NEW f \in Folders, BindAnswered(f) PROVE Types'
  <2>1. queue[f] # <<>>
    BY <1>b, <1>12 DEF BindAnswered
  <2>2. SyncTypes' /\ answered' \in [Windows -> BOOLEAN]
    <3>1. "diff" \in Steps /\ 0 \in 0..Files
      BY DEF Steps
    <3> QED
      BY <1>a, <1>12, <2>1, <3>1, AdvanceTypes, SettleTypes DEF BindAnswered, WindowTypes
  <2>3. WindowTypes' /\ StoreTypes'
    BY <1>a, <1>12, <2>2 DEF BindAnswered, WindowTypes, StoreTypes
  <2> QED
    BY <2>2, <2>3 DEF Types
<1>13. ASSUME NEW f \in Folders, DiffAnswered(f) PROVE Types'
  <2>1. queue[f] # <<>>
    BY <1>b, <1>13 DEF DiffAnswered
  <2>2. SyncTypes' /\ answered' \in [Windows -> BOOLEAN]
    <3>1. "write" \in Steps /\ "none" \in Warnings /\ \A n \in 1..Files : n \in 0..Files
      BY DEF Steps, Warnings
    <3> QED
      BY <1>a, <1>13, <2>1, <3>1, AdvanceTypes, SettleTypes DEF DiffAnswered, WindowTypes
  <2>3. WindowTypes' /\ StoreTypes'
    BY <1>a, <1>13, <2>2 DEF DiffAnswered, WindowTypes, StoreTypes
  <2> QED
    BY <2>2, <2>3 DEF Types
<1>14. ASSUME NEW f \in Folders, FileWritten(f) PROVE Types'
  <2>1. queue[f] # <<>>
    BY <1>b, <1>14 DEF FileWritten
  <2>2. SyncTypes' /\ answered' \in [Windows -> BOOLEAN]
    <3>1. CASE \E c \in {"files", "none", "cancelled"} : Settle(f, c)
      BY <2>1, <3>1, SettleTypes DEF Warnings
    <3>2. CASE \E bad \in BOOLEAN :
                 /\ todo[f] # 1 /\ todo[f] \in 1..Files
                 /\ todo' = [todo EXCEPT ![f] = @ - 1]
                 /\ failed' = [failed EXCEPT ![f] = bad]
                 /\ UNCHANGED <<tickets, queue, step, warning, sweep, answered>>
      BY <1>a, <3>2 DEF SyncTypes, WindowTypes
    <3> QED
      BY <1>a, <1>c, <1>14, <3>1, <3>2 DEF FileWritten, SyncTypes
  <2>3. WindowTypes'
    BY <1>a, <1>14, <2>2 DEF FileWritten, WindowTypes
  <2>4. rows' \in [Folders -> SUBSET {"sync", "save"}] /\ faults' \in 0..MaxFaults
    BY <1>a, <1>14 DEF FileWritten, StoreTypes
  <2>5. StoreTypes'
    BY <1>a, <1>14, <2>4 DEF FileWritten, StoreTypes
  <2> QED
    BY <2>2, <2>3, <2>5 DEF Types
<1>15. ASSUME NEW f \in Folders, SaveIndexed(f) PROVE Types'
  <2>1. WindowTypes' /\ SyncTypes'
    BY <1>a, <1>15 DEF SaveIndexed, WindowTypes, SyncTypes
  <2>2. StoreTypes'
    BY <1>a, <1>15 DEF SaveIndexed, StoreTypes, Removals
  <2> QED
    BY <2>1, <2>2 DEF Types
<1>16. ASSUME NEW f \in Folders, BeginRemoval(f) PROVE Types'
  <2>1. WindowTypes' /\ SyncTypes'
    BY <1>a, <1>16 DEF BeginRemoval, WindowTypes, SyncTypes
  <2>2. StoreTypes'
    BY <1>a, <1>16 DEF BeginRemoval, StoreTypes, Removals
  <2> QED
    BY <2>1, <2>2 DEF Types
<1>17. ASSUME NEW f \in Folders, StopSyncs(f) PROVE Types'
  <2>1. WindowTypes' /\ SyncTypes'
    BY <1>a, <1>17 DEF StopSyncs, WindowTypes, SyncTypes
  <2>2. StoreTypes'
    BY <1>a, <1>17 DEF StopSyncs, StoreTypes, Removals
  <2> QED
    BY <2>1, <2>2 DEF Types
<1>25. ASSUME NEW f \in Folders, NEW w \in Windows, LeaveWindow(f, w) PROVE Types'
  <2>1. WindowTypes'
    <3>1. /\ current' = [v \in Windows |-> IF v \in {w} THEN None ELSE current[v]]
          /\ seq' = [v \in Windows |-> IF v \in {w} THEN seq[v] + 1 ELSE seq[v]]
          /\ tail' = [v \in Windows |-> IF v \in {w} THEN 0 ELSE tail[v]]
      BY <1>25 DEF LeaveWindow
    <3> QED
      BY <1>a, <1>25, <3>1 DEF LeaveWindow, WindowTypes
  <2>2. SyncTypes' /\ StoreTypes'
    BY <1>a, <1>25 DEF LeaveWindow, SyncTypes, StoreTypes
  <2> QED
    BY <2>1, <2>2 DEF Types
<1>18. ASSUME NEW f \in Folders, SyncsStopped(f) PROVE Types'
  <2>1. WindowTypes' /\ SyncTypes'
    BY <1>a, <1>18 DEF SyncsStopped, WindowTypes, SyncTypes
  <2>2. StoreTypes'
    BY <1>a, <1>18 DEF SyncsStopped, StoreTypes, Removals
  <2> QED
    BY <2>1, <2>2 DEF Types
<1>19. ASSUME NEW f \in Folders, ConversionsStopped(f) PROVE Types'
  <2>1. WindowTypes' /\ SyncTypes'
    BY <1>a, <1>19 DEF ConversionsStopped, WindowTypes, SyncTypes
  <2>2. StoreTypes'
    BY <1>a, <1>19 DEF ConversionsStopped, StoreTypes, Removals
  <2> QED
    BY <2>1, <2>2 DEF Types
<1>20. ASSUME NEW f \in Folders, DerivedRemoved(f) PROVE Types'
  <2>1. WindowTypes' /\ SyncTypes'
    BY <1>a, <1>20 DEF DerivedRemoved, WindowTypes, SyncTypes
  <2>2. StoreTypes'
    BY <1>a, <1>20 DEF DerivedRemoved, StoreTypes, Removals
  <2> QED
    BY <2>1, <2>2 DEF Types
<1>21. ASSUME NEW f \in Folders, RowsDeleted(f) PROVE Types'
  <2>1. WindowTypes' /\ SyncTypes'
    BY <1>a, <1>21 DEF RowsDeleted, WindowTypes, SyncTypes
  <2>2. StoreTypes'
    BY <1>a, <1>21 DEF RowsDeleted, StoreTypes, Removals
  <2> QED
    BY <2>1, <2>2 DEF Types
<1>22. ASSUME NEW f \in Folders, Unbound(f) PROVE Types'
  <2>1. WindowTypes' /\ SyncTypes'
    BY <1>a, <1>22 DEF Unbound, WindowTypes, SyncTypes, Warnings
  <2>2. StoreTypes'
    BY <1>a, <1>22 DEF Unbound, StoreTypes, Removals
  <2> QED
    BY <2>1, <2>2 DEF Types
<1>23. ASSUME NEW f \in Folders, LeaveLibrary(f) PROVE Types'
  <2>1. WindowTypes' /\ SyncTypes'
    BY <1>a, <1>23 DEF LeaveLibrary, WindowTypes, SyncTypes
  <2>2. StoreTypes'
    BY <1>a, <1>23 DEF LeaveLibrary, StoreTypes, Removals
  <2> QED
    BY <2>1, <2>2 DEF Types
<1>24. CASE UNCHANGED vars
  BY <1>24 DEF vars, Types, WindowTypes, SyncTypes, StoreTypes
<1> QED
  BY <1>1, <1>2, <1>3, <1>4, <1>5, <1>6, <1>7, <1>8, <1>9, <1>10, <1>11, <1>12, <1>13,
     <1>14, <1>15, <1>16, <1>17, <1>18, <1>19, <1>20, <1>21, <1>22, <1>23, <1>24, <1>25 DEF Next



-----------------------------------------------------------------------------
(* What the removal of a folder can rely on. *)

\* Once the removal deletes, nothing of the folder is queued.
Quiesced == \A f \in Folders : removal[f] \in Cleaning => queue[f] = <<>>

\* What it has deleted does not come back before it ends.
Emptied ==
    \A f \in Folders :
        /\ removal[f] \in {"unbinding", "leaving"} => "sync" \notin rows[f]
        /\ removal[f] = "leaving" => warning[f] = "none"

\* The first retirement finds no operation that has started over, and whoever it
\* interrupts has its one retry left.
Retried(q) == \E i \in DOMAIN q : q[i].retried
Healing ==
    /\ retirements = 0 => rejected = {} /\ \A f \in Folders : ~Retried(queue[f])
    /\ retirements = 1 => \A f \in Folders : SyncCall(f) \in rejected => ~Retried(queue[f])
    /\ retirements <= 1 => \A f \in Folders : warning[f] # "retired"

Inv == Busy /\ Pending /\ RejectedInFlight /\ Quiesced /\ Emptied /\ Healing

\* In the first state nothing is queued and nothing is being removed.
LEMMA InvInit == Init => Inv
BY DEF Init, Inv, Busy, Pending, RejectedInFlight, Quiesced, Emptied, Healing, Retried, Cleaning

\* An operation that has not been retried changes nothing about those that have,
\* and the end of an operation leaves those behind it.
LEMMA RetriedAppend ==
    ASSUME NEW q \in Seq(Operation), NEW op \in Operation, ~op.retried
    PROVE  /\ Append(q, op) # <<>>
           /\ Retried(Append(q, op)) => Retried(q)
BY DEF Retried

(* The last folder that a retry waits for ends the pending entry, and no other step
   of the tail does. *)
LEMMA RetriedTail ==
    ASSUME NEW q \in Seq(Operation), q # <<>>
    PROVE  Retried(Tail(q)) => Retried(q)
<1> SUFFICES ASSUME NEW i \in 1..Len(Tail(q)), Tail(q)[i].retried PROVE Retried(q)
  BY DEF Retried
<1>1. Len(Tail(q)) = Len(q) - 1 /\ Len(q) \in Nat
  OBVIOUS
<1>2. i + 1 \in 1..Len(q) /\ Tail(q)[i] = q[i + 1]
  BY <1>1
<1> QED
  BY <1>2 DEF Retried

-----------------------------------------------------------------------------
(* The kinds of steps. *)

\* Windows and single-file writes: nothing of a sync changes.
Elsewhere ==
    /\ UNCHANGED <<queue, step, todo, warning, removal, rejected, retirements>>
    /\ \A f \in Folders : "sync" \in rows'[f] => "sync" \in rows[f]

\* An operation joins a queue.
Schedules ==
    /\ Joins
    /\ UNCHANGED <<step, todo, warning, removal, rejected, retirements, rows>>

\* The operation of f goes on, starts over or ends.
Works(f) ==
    /\ queue[f] # <<>>
    /\ UNCHANGED <<removal, retirements>>
    /\ \A g \in Folders \ {f} :
         /\ queue'[g] = queue[g] /\ step'[g] = step[g] /\ todo'[g] = todo[g]
         /\ warning'[g] = warning[g] /\ rows'[g] = rows[g]
    /\ step'[f] # "idle" => queue'[f] # <<>>
    /\ step'[f] = "write" => todo'[f] \in 1..Files
    /\ rejected' \subseteq rejected /\ SyncCall(f) \notin rejected'
    /\ Retried(queue'[f]) => Retried(queue[f]) \/ SyncCall(f) \in rejected
    /\ warning'[f] = "retired" => \/ warning[f] = "retired"
                                  \/ SyncCall(f) \in rejected /\ Retried(queue[f])

(* A step elsewhere, that moves neither busy nor quiesced folders, keeps the invariant. *)
LEMMA ElsewhereKeeps == Inv /\ Elsewhere => Inv'
BY DEF Inv, Elsewhere, Busy, Pending, RejectedInFlight, Quiesced, Emptied, Healing

\* A folder that is being removed is not joined.
LEMMA SchedulesKeeps ==
    ASSUME Types, Inv, Schedules PROVE Inv'
<1>1. CASE queue' = queue
  BY <1>1, ElsewhereKeeps DEF Schedules, Elsewhere
<1>2. ASSUME NEW f \in Folders, NEW op \in Operation, removal[f] = "none", ~op.retried,
             queue' = [queue EXCEPT ![f] = Append(@, op)]
      PROVE  Inv'
  <2>1. /\ queue'[f] # <<>>
        /\ Retried(queue'[f]) => Retried(queue[f])
        /\ \A g \in Folders \ {f} : queue'[g] = queue[g]
    <3>1. queue[f] \in Seq(Operation) /\ queue'[f] = Append(queue[f], op)
      BY <1>2 DEF Types, SyncTypes
    <3>2. \A g \in Folders \ {f} : queue'[g] = queue[g]
      BY <1>2 DEF Types, SyncTypes
    <3> QED
      BY <1>2, <3>1, <3>2, RetriedAppend
  <2>2. Busy' /\ Pending'
    <3>1. \A g \in Folders : queue'[g] = <<>> => queue[g] = <<>>
      BY <2>1
    <3> QED
      BY <3>1 DEF Schedules, Inv, Busy, Pending
  <2>a. RejectedInFlight' /\ Emptied'
    BY DEF Schedules, Inv, RejectedInFlight, Emptied
  <2>3. Quiesced'
    BY <1>2, <2>1 DEF Schedules, Inv, Quiesced, Cleaning
  <2>4. Healing'
    <3>1. \A g \in Folders : Retried(queue'[g]) => Retried(queue[g])
      BY <2>1
    <3> QED
      BY <3>1 DEF Schedules, Inv, Healing
  <2> QED
    BY <2>2, <2>a, <2>3, <2>4 DEF Inv
<1> QED
  BY <1>1, <1>2 DEF Schedules, Joins

\* The folder of an operation is not being cleaned up.
LEMMA WorksKeeps ==
    ASSUME Types, Inv, NEW f \in Folders, Works(f) PROVE Inv'
<1>1. Busy' /\ Pending'
  BY DEF Works, Inv, Busy, Pending
<1>2. RejectedInFlight'
  BY DEF Works, Inv, RejectedInFlight
<1>3. removal[f] \notin Cleaning
  BY DEF Works, Inv, Quiesced
<1>4. Quiesced' /\ Emptied'
  BY <1>3 DEF Works, Inv, Quiesced, Emptied, Cleaning
<1>5. Healing'
  <2>1. retirements = 0 => SyncCall(f) \notin rejected
    BY DEF Inv, Healing
  <2>2. \A g \in Folders \ {f} : Retried(queue'[g]) <=> Retried(queue[g])
    BY DEF Works
  <2>3. CASE retirements = 0
    BY <2>1, <2>2, <2>3 DEF Works, Inv, Healing
  <2>4. CASE retirements = 1
    <3>1. SyncCall(f) \in rejected => ~Retried(queue[f])
      BY <2>4 DEF Inv, Healing
    <3>2. \A g \in Folders : warning'[g] # "retired"
      BY <2>4, <3>1 DEF Works, Inv, Healing
    <3>3. \A g \in Folders : SyncCall(g) \in rejected' => ~Retried(queue'[g])
      BY <2>2, <2>4 DEF Works, Inv, Healing
    <3> QED
      BY <2>4, <3>2, <3>3 DEF Works, Healing
  <2>5. CASE retirements \notin {0, 1}
    BY <2>5 DEF Works, Healing, Types, StoreTypes
  <2> QED
    BY <2>3, <2>4, <2>5
<1> QED
  BY <1>1, <1>2, <1>4, <1>5 DEF Inv

\* The end of an operation is such a step.
LEMMA SettleWorks ==
    ASSUME Types, NEW f \in Folders, queue[f] # <<>>,
           NEW cause \in Warnings \cup {"cancelled"}, Settle(f, cause),
           UNCHANGED <<removal, retirements>>,
           \A g \in Folders \ {f} : rows'[g] = rows[g],
           rejected' \subseteq rejected, SyncCall(f) \notin rejected',
           cause = "retired" => SyncCall(f) \in rejected /\ Retried(queue[f])
    PROVE  Works(f)
<1>1. /\ queue' = [queue EXCEPT ![f] = Tail(@)] /\ step' = [step EXCEPT ![f] = "idle"]
      /\ \A g \in Folders : warning'[g] # warning[g] => g = f /\ warning'[g] = cause
  BY SettleTypes
<1>2. \A g \in Folders \ {f} : todo'[g] = todo[g]
  BY DEF Settle, Types, SyncTypes
<1>3. queue[f] \in Seq(Operation) /\ queue'[f] = Tail(queue[f])
  BY <1>1 DEF Types, SyncTypes
<1>4. Retried(queue'[f]) => Retried(queue[f])
  BY <1>3, RetriedTail
<1>5. /\ step'[f] = "idle"
      /\ \A g \in Folders \ {f} : queue'[g] = queue[g] /\ step'[g] = step[g]
  BY <1>1 DEF Types, SyncTypes
<1> QED
  BY <1>1, <1>2, <1>4, <1>5 DEF Works

\* So is an answer that is followed by the next question.
LEMMA AdvanceWorks ==
    ASSUME Types, NEW f \in Folders, queue[f] # <<>>, NEW s \in Steps, NEW n \in 0..Files,
           Advance(f, s, n), s = "write" => n \in 1..Files,
           UNCHANGED <<removal, retirements, rows>>,
           rejected' = rejected, SyncCall(f) \notin rejected
    PROVE  Works(f)
<1>1. /\ step' = [step EXCEPT ![f] = s] /\ todo' = [todo EXCEPT ![f] = n]
      /\ queue' = queue /\ warning' = warning
  BY DEF Advance
<1> QED
  BY <1>1 DEF Works, Types, SyncTypes

-----------------------------------------------------------------------------
(* The invariant. *)

(* Every action of the specification keeps the invariant, one step per action. *)
LEMMA InvStep == ASSUME Types, Inv, [Next]_vars PROVE Inv'
<1> USE DEF windowVars, syncVars, storeVars, Request, Fault, Leave, Proceed
<1>a. WindowTypes /\ SyncTypes /\ StoreTypes
  BY DEF Types
<1>b. Busy /\ Pending
  BY DEF Inv
<1>c. ASSUME NEW f \in Folders, step[f] = "idle" PROVE SyncCall(f) \notin rejected
  BY <1>c, CallsDiffer DEF Inv, RejectedInFlight
<1>1. ASSUME NEW w \in Windows, NEW f \in Folders, OpenFolder(w, f) PROVE Inv'
  BY <1>1, ElsewhereKeeps DEF OpenFolder, Elsewhere
<1>2. ASSUME NEW w \in Windows, CloseFolder(w) PROVE Inv'
  BY <1>2, ElsewhereKeeps DEF CloseFolder, Elsewhere
<1>3. ASSUME NEW w \in Windows, ScheduleIndexerSync(w) PROVE Inv'
  BY <1>3, ElsewhereKeeps DEF ScheduleIndexerSync, Elsewhere
<1>6. ASSUME NEW w \in Windows, SaveFile(w) PROVE Inv'
  BY <1>6, ElsewhereKeeps DEF SaveFile, Elsewhere
<1>15. ASSUME NEW f \in Folders, SaveIndexed(f) PROVE Inv'
  <2>1. Elsewhere
    BY <1>a, <1>15 DEF SaveIndexed, Elsewhere, StoreTypes
  <2> QED
    BY <2>1, ElsewhereKeeps
<1>4. ASSUME NEW t \in tickets, TicketTurn(t) PROVE Inv'
  <2>1. /\ t.folder \in Folders /\ t.window \in Windows \cup {"sweep", "user"}
        /\ t.seq \in Nat
    BY <1>a DEF SyncTypes, Ticket
  <2>2. queue' = queue \/ queue' = SyncFolderNow(t.folder, t.window, t.seq).queue
    BY <1>4 DEF TicketTurn
  <2>3. Schedules
    BY <1>4, <2>1, <2>2, SyncJoins DEF TicketTurn, Joins, Schedules
  <2> QED
    BY <2>3, SchedulesKeeps
<1>5. ASSUME NEW w \in Windows, UserSync(w) PROVE Inv'
  <2>1. current[w] \in Folders /\ queue' = SyncFolderNow(current[w], "user", 0).queue
    BY <1>a, <1>5 DEF UserSync, WindowTypes
  <2>2. Schedules
    BY <1>5, <2>1, SyncJoins DEF UserSync, Schedules
  <2> QED
    BY <2>2, SchedulesKeeps
<1>7. ASSUME NEW kind \in Sweeps, SweepStart(kind) PROVE Inv'
  <2>1. member \in SUBSET Folders /\ \E f \in Folders : SweepTo(kind, member, f)
    BY <1>a, <1>7 DEF SweepStart, WindowTypes
  <2>2. Schedules
    BY <1>7, <2>1, SweepTypes DEF SweepStart, Schedules
  <2> QED
    BY <2>2, SchedulesKeeps
<1>8. ASSUME NEW f \in Folders, SweepNext(f) PROVE Inv'
  <2>1. sweep.kind \in Sweeps /\ sweep.left \in SUBSET Folders
    BY <1>a, <1>8 DEF SweepNext, SyncTypes, SweepTo
  <2>2. Schedules
    BY <1>8, <2>1, SweepTypes DEF SweepNext, Schedules
  <2> QED
    BY <2>2, SchedulesKeeps
<1>9. ASSUME NEW f \in Folders, BindFolder(f) PROVE Inv'
  <2>1. queue[f] # <<>> /\ SyncCall(f) \notin rejected
    BY <1>9, <1>c DEF BindFolder
  <2>2. "bind" \in Steps /\ 0 \in 0..Files /\ "cancelled" \in Warnings \cup {"cancelled"}
    BY DEF Steps
  <2>3. Works(f)
    BY <1>9, <2>1, <2>2, AdvanceWorks, SettleWorks DEF BindFolder
  <2> QED
    BY <2>3, WorksKeeps
<1>10. ASSUME NEW f \in Folders, Interrupted(f) PROVE Inv'
  <2>1. queue[f] # <<>> /\ queue[f] \in Seq(Operation)
    BY <1>a, <1>b, <1>10 DEF Interrupted, Busy, SyncTypes
  <2>2. /\ UNCHANGED <<removal, retirements, rows>> /\ SyncCall(f) \in rejected
        /\ rejected' \subseteq rejected /\ SyncCall(f) \notin rejected'
    BY <1>10 DEF Interrupted
  <2>3. CASE Settle(f, "cancelled")
    BY <2>1, <2>2, <2>3, SettleWorks, WorksKeeps
  <2>4. CASE Settle(f, "retired") /\ Head(queue[f]).retried
    <3>1. Retried(queue[f]) /\ "retired" \in Warnings \cup {"cancelled"}
      BY <2>1, <2>4 DEF Retried, Warnings
    <3> QED
      BY <2>1, <2>2, <2>4, <3>1, SettleWorks, WorksKeeps
  <2>5. CASE /\ queue' = [queue EXCEPT ![f][1].retried = TRUE]
             /\ step' = [step EXCEPT ![f] = "bind"]
             /\ UNCHANGED <<tickets, todo, failed, warning, sweep, answered>>
    <3>1. Len(queue'[f]) = Len(queue[f]) /\ \A g \in Folders \ {f} : queue'[g] = queue[g]
      BY <2>1, <2>5, RetryTypes
    <3>2. queue'[f] # <<>>
      BY <2>1, <3>1
    <3>3. step'[f] = "bind" /\ \A g \in Folders \ {f} : step'[g] = step[g]
      BY <1>a, <2>5 DEF SyncTypes
    <3> QED
      BY <2>1, <2>2, <2>5, <3>1, <3>2, <3>3, WorksKeeps DEF Works
  <2> QED
    BY <1>10, <2>3, <2>4, <2>5 DEF Interrupted
<1>11. ASSUME NEW f \in Folders, SyncFails(f) PROVE Inv'
  <2>1. queue[f] # <<>>
    BY <1>b, <1>11 DEF SyncFails, Busy
  <2>2. PICK cause \in {"error", "cancelled"} : Settle(f, cause)
    BY <1>11 DEF SyncFails
  <2>3. Works(f)
    BY <1>11, <2>1, <2>2, SettleWorks DEF SyncFails, Warnings
  <2> QED
    BY <2>3, WorksKeeps
<1>12. ASSUME NEW f \in Folders, BindAnswered(f) PROVE Inv'
  <2>1. queue[f] # <<>>
    BY <1>b, <1>12 DEF BindAnswered, Busy
  <2>2. "diff" \in Steps /\ 0 \in 0..Files /\ "cancelled" \in Warnings \cup {"cancelled"}
    BY DEF Steps
  <2>3. Works(f)
    BY <1>12, <2>1, <2>2, AdvanceWorks, SettleWorks DEF BindAnswered
  <2> QED
    BY <2>3, WorksKeeps
<1>13. ASSUME NEW f \in Folders, DiffAnswered(f) PROVE Inv'
  <2>1. queue[f] # <<>>
    BY <1>b, <1>13 DEF DiffAnswered, Busy
  <2>2. CASE \E cause \in {"none", "cancelled"} : Settle(f, cause)
    <3>1. Works(f)
      BY <1>13, <2>1, <2>2, SettleWorks DEF DiffAnswered, Warnings
    <3> QED
      BY <3>1, WorksKeeps
  <2>3. CASE \E n \in 1..Files : Advance(f, "write", n)
    <3>1. "write" \in Steps /\ \A n \in 1..Files : n \in 0..Files
      BY DEF Steps
    <3>2. Works(f)
      BY <1>13, <2>1, <2>3, <3>1, AdvanceWorks DEF DiffAnswered
    <3> QED
      BY <3>2, WorksKeeps
  <2> QED
    BY <1>13, <2>2, <2>3 DEF DiffAnswered
<1>14. ASSUME NEW f \in Folders, FileWritten(f) PROVE Inv'
  <2>1. queue[f] # <<>> /\ todo[f] \in 1..Files
    BY <1>b, <1>14 DEF FileWritten, Busy, Pending
  <2>2. /\ UNCHANGED <<removal, retirements>> /\ \A g \in Folders \ {f} : rows'[g] = rows[g]
        /\ rejected' \subseteq rejected /\ SyncCall(f) \notin rejected'
    BY <1>a, <1>14 DEF FileWritten, StoreTypes
  <2>3. CASE \E cause \in {"files", "none", "cancelled"} : Settle(f, cause)
    <3>1. Works(f)
      BY <2>1, <2>2, <2>3, SettleWorks DEF Warnings
    <3> QED
      BY <3>1, WorksKeeps
  <2>4. CASE /\ todo[f] # 1 /\ todo' = [todo EXCEPT ![f] = @ - 1]
             /\ UNCHANGED <<tickets, queue, step, warning, sweep, answered>>
    <3>1. todo'[f] \in 1..Files /\ \A g \in Folders \ {f} : todo'[g] = todo[g]
      BY <1>a, <2>1, <2>4 DEF SyncTypes
    <3>2. Works(f)
      BY <2>1, <2>2, <2>4, <3>1 DEF Works
    <3> QED
      BY <3>2, WorksKeeps
  <2> QED
    BY <1>14, <2>3, <2>4 DEF FileWritten
<1>16. ASSUME NEW f \in Folders, BeginRemoval(f) PROVE Inv'
  <2>1. Busy' /\ Pending' /\ Healing'
    BY <1>16 DEF BeginRemoval, Inv, Busy, Pending, Healing
  <2>2. RejectedInFlight'
    BY <1>a, <1>16, CallsDiffer DEF BeginRemoval, Inv, RejectedInFlight, StoreTypes
  <2>3. Quiesced' /\ Emptied'
    BY <1>a, <1>16 DEF BeginRemoval, Inv, Quiesced, Emptied, Cleaning, StoreTypes, SyncTypes
  <2> QED
    BY <2>1, <2>2, <2>3 DEF Inv
<1>25. ASSUME NEW f \in Folders, NEW w \in Windows, LeaveWindow(f, w) PROVE Inv'
  <2>1. UNCHANGED <<syncVars, removal, rejected, storeVars>>
    BY <1>25 DEF LeaveWindow
  <2> QED
    BY <2>1 DEF Inv, Busy, Pending, Healing, RejectedInFlight, InFlight,
                Quiesced, Emptied, Cleaning
<1>17. ASSUME NEW f \in Folders, StopSyncs(f) PROVE Inv'
  <2>1. /\ removal[f] = "begun" /\ UNCHANGED <<queue, step, todo, warning, rows>>
        /\ removal'[f] = "cancelling" \/ removal'[f] = "draining"
        /\ removal'[f] = "cancelling" => queue[f] = <<>>
        /\ \A g \in Folders \ {f} : removal'[g] = removal[g]
    BY <1>a, <1>17 DEF StopSyncs, StoreTypes
  <2>2. \/ UNCHANGED <<rejected, retirements>>
        \/ /\ retirements' = retirements + 1
           /\ \E calls \in SUBSET InFlight : rejected' = rejected \cup calls
    BY <1>17 DEF StopSyncs
  <2>3. Busy' /\ Pending' /\ Quiesced' /\ Emptied'
    BY <2>1 DEF Inv, Busy, Pending, Quiesced, Emptied, Cleaning
  <2>4. RejectedInFlight'
    BY <2>1, <2>2 DEF Inv, RejectedInFlight, InFlight
  <2>5. Healing'
    BY <1>a, <2>1, <2>2 DEF Inv, Healing, StoreTypes
  <2> QED
    BY <2>3, <2>4, <2>5 DEF Inv
<1>18. ASSUME NEW f \in Folders, SyncsStopped(f) PROVE Inv'
  <2>1. Busy' /\ Pending' /\ Healing'
    BY <1>18 DEF SyncsStopped, Inv, Busy, Pending, Healing
  <2>2. RejectedInFlight'
    BY <1>a, <1>18, CallsDiffer DEF SyncsStopped, Inv, RejectedInFlight, StoreTypes
  <2>3. Quiesced' /\ Emptied'
    BY <1>a, <1>18 DEF SyncsStopped, Inv, Quiesced, Emptied, Cleaning, StoreTypes, SyncTypes
  <2> QED
    BY <2>1, <2>2, <2>3 DEF Inv
<1>19. ASSUME NEW f \in Folders, ConversionsStopped(f) PROVE Inv'
  <2>1. Busy' /\ Pending' /\ Healing'
    BY <1>19 DEF ConversionsStopped, Inv, Busy, Pending, Healing
  <2>2. RejectedInFlight'
    BY <1>a, <1>19, CallsDiffer DEF ConversionsStopped, Inv, RejectedInFlight, StoreTypes
  <2>3. Quiesced' /\ Emptied'
    BY <1>a, <1>19 DEF ConversionsStopped, Inv, Quiesced, Emptied, Cleaning, StoreTypes, SyncTypes
  <2> QED
    BY <2>1, <2>2, <2>3 DEF Inv
<1>20. ASSUME NEW f \in Folders, DerivedRemoved(f) PROVE Inv'
  <2>1. Busy' /\ Pending' /\ Healing'
    BY <1>20 DEF DerivedRemoved, Inv, Busy, Pending, Healing
  <2>2. RejectedInFlight'
    BY <1>a, <1>20, CallsDiffer DEF DerivedRemoved, Inv, RejectedInFlight, StoreTypes
  <2>3. Quiesced' /\ Emptied'
    BY <1>a, <1>20 DEF DerivedRemoved, Inv, Quiesced, Emptied, Cleaning, StoreTypes, SyncTypes
  <2> QED
    BY <2>1, <2>2, <2>3 DEF Inv
<1>21. ASSUME NEW f \in Folders, RowsDeleted(f) PROVE Inv'
  <2>1. /\ removal[f] = "deleting" /\ UNCHANGED <<queue, step, todo, warning, retirements>>
        /\ rejected' = rejected \ {DeleteCall(f)}
        /\ \A g \in Folders \ {f} : removal'[g] = removal[g] /\ rows'[g] = rows[g]
        /\ \/ removal'[f] = "unbinding" /\ rows'[f] = {}
           \/ removal'[f] = "none" /\ rows'[f] = rows[f]
    BY <1>a, <1>21 DEF RowsDeleted, StoreTypes
  <2>2. Busy' /\ Pending' /\ Healing'
    BY <2>1 DEF Inv, Busy, Pending, Healing
  <2>3. RejectedInFlight'
    BY <2>1, CallsDiffer DEF Inv, RejectedInFlight
  <2>4. Quiesced' /\ Emptied'
    BY <2>1 DEF Inv, Quiesced, Emptied, Cleaning
  <2> QED
    BY <2>2, <2>3, <2>4 DEF Inv
<1>22. ASSUME NEW f \in Folders, Unbound(f) PROVE Inv'
  <2>1. Busy' /\ Pending' /\ Healing'
    BY <1>22 DEF Unbound, Inv, Busy, Pending, Healing
  <2>2. RejectedInFlight'
    BY <1>a, <1>22, CallsDiffer DEF Unbound, Inv, RejectedInFlight, StoreTypes
  <2>3. Quiesced' /\ Emptied'
    BY <1>a, <1>22 DEF Unbound, Inv, Quiesced, Emptied, Cleaning, StoreTypes, SyncTypes
  <2> QED
    BY <2>1, <2>2, <2>3 DEF Inv
<1>23. ASSUME NEW f \in Folders, LeaveLibrary(f) PROVE Inv'
  <2>1. Busy' /\ Pending' /\ Healing'
    BY <1>23 DEF LeaveLibrary, Inv, Busy, Pending, Healing
  <2>2. RejectedInFlight'
    BY <1>a, <1>23, CallsDiffer DEF LeaveLibrary, Inv, RejectedInFlight, StoreTypes
  <2>3. Quiesced' /\ Emptied'
    BY <1>a, <1>23 DEF LeaveLibrary, Inv, Quiesced, Emptied, Cleaning, StoreTypes, SyncTypes
  <2> QED
    BY <2>1, <2>2, <2>3 DEF Inv
<1>24. CASE UNCHANGED vars
  BY <1>24, ElsewhereKeeps DEF vars, Elsewhere
<1> QED
  BY <1>1, <1>2, <1>3, <1>4, <1>5, <1>6, <1>7, <1>8, <1>9, <1>10, <1>11, <1>12, <1>13,
     <1>14, <1>15, <1>16, <1>17, <1>18, <1>19, <1>20, <1>21, <1>22, <1>23, <1>24, <1>25 DEF Next

-----------------------------------------------------------------------------
(* The theorems. *)

\* The specification keeps the types and the invariant.
LEMMA Invariant == Spec => [](Types /\ Inv)
<1>1. Types /\ Inv /\ [Next]_vars => Types'
  BY TypesStep DEF Inv
<1>2. Types /\ Inv /\ [Next]_vars => Inv'
  BY InvStep
<1> QED
  BY <1>1, <1>2, TypesInit, InvInit, PTL DEF Spec

\* Queues, switch tickets, rejected calls and the rest keep their types, for any
\* number of folders, windows, requests and failures.
THEOREM TypeCorrect == Spec => []TypeOK
<1>1. Types /\ Inv => TypeOK
  BY TypesAreTypeOK DEF Inv
<1> QED
  BY <1>1, Invariant, PTL

\* When the removal of a folder deletes what belongs to it, no sync of the folder
\* runs or waits, whatever windows, users and loops over the library ask for.
THEOREM NoSyncMeetsCleanup == Spec => []NoSyncUnderCleanup
<1>1. Inv => NoSyncUnderCleanup
  BY DEF Inv, Busy, Quiesced, NoSyncUnderCleanup
<1> QED
  BY <1>1, Invariant, PTL

\* A folder that leaves the library has no row of a sync, no warning and no pending
\* operation.
THEOREM RemovalIsClean == Spec => RemovalLeavesNothing
<1>1. Types /\ Inv /\ [Next]_vars =>
        [\A f \in member \ member' :
           "sync" \notin rows[f] /\ warning[f] = "none" /\ queue[f] = <<>>]_vars
  <2> SUFFICES ASSUME Types, Inv, [Next]_vars, NEW f \in member \ member'
               PROVE  "sync" \notin rows[f] /\ warning[f] = "none" /\ queue[f] = <<>>
    OBVIOUS
  <2>1. PICK g \in Folders : LeaveLibrary(g)
    BY DEF Next, vars, windowVars, syncVars, storeVars, OpenFolder, CloseFolder,
       ScheduleIndexerSync, UserSync, SaveFile, TicketTurn, SweepStart, SweepNext, BindFolder,
       BindAnswered, DiffAnswered, FileWritten, Interrupted, SyncFails, SaveIndexed,
       BeginRemoval, LeaveWindow, StopSyncs, SyncsStopped, ConversionsStopped, DerivedRemoved,
       RowsDeleted, Unbound
  <2>2. f = g /\ f \in Folders /\ removal[f] = "leaving"
    BY <2>1 DEF LeaveLibrary, Types, WindowTypes
  <2> QED
    BY <2>2 DEF Inv, Emptied, Quiesced, Cleaning
<1> QED
  BY <1>1, Invariant, PTL DEF Spec, RemovalLeavesNothing

\* However many folders are bound or compared when one removal retires the daemon,
\* each of them starts over and none shows a warning about it.
THEOREM OneRetirementHeals == Spec => []OneRemovalHeals
<1>1. Types /\ Inv => OneRemovalHeals
  BY DEF Inv, Healing, OneRemovalHeals
<1> QED
  BY <1>1, Invariant, PTL
=============================================================================
