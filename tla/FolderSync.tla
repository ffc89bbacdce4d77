----------------------------- MODULE FolderSync -----------------------------
(***************************************************************************)
(* The folder synchronisation of the server, server/state.ts, with the     *)
(* windows and the membership of server/folder.ts that drive it and the    *)
(* removal of a folder, server/routes/library.ts, that has to stop it.     *)
(*                                                                         *)
(* An action is a piece of code between two awaits.  The vector store is   *)
(* seen through its answers: a call succeeds, fails, or is rejected        *)
(* because a removal retired the daemon to interrupt its own reconcile.    *)
(***************************************************************************)
EXTENDS Integers, Sequences, FiniteSets

CONSTANTS Folders, Windows,
          None,          \* no folder
          Sweeps,        \* the loops over the library that may run
          Files,         \* most files that a diff finds to index
          MaxRequests,   \* bound on what users and timers ask for
          MaxFaults      \* bound on the failures of store and settings file

ASSUME FolderSyncAssumption ==
    /\ IsFiniteSet(Folders) /\ IsFiniteSet(Windows)
    /\ None \notin Folders
    /\ Windows \cap {"sweep", "user"} = {}
    /\ Sweeps \subseteq {"reconcile", "bind"}
    /\ Files \in Nat /\ MaxRequests \in Nat /\ MaxFaults \in Nat

VARIABLES
    member,      \* the library membership, the commit record of a removal
    current,     \* the folder each window shows
    notices,     \* per window: switches whose listeners have not been called
    seq, tail,   \* indexerSwitchSeq, and the last entry of indexerSwitchQueues
    tickets,     \* the unsettled entries of the switch queues
    generation,  \* folderSyncGeneration
    queue,       \* per folder: its sync operations, the running one first
    step,        \* how far the running one is
    todo,        \* the files it has still to index
    failed,      \* one of them could not be indexed
    warning,     \* the index warning of the folder and its cause
    removal,     \* how far the removal of the folder is
    rejected,    \* the calls in flight that a retirement has rejected
    bound,       \* the folders bound to the store
    rows,        \* per folder: who wrote the rows that the index holds of it
    saving,      \* folders with a single-file index write in flight
    sweep,       \* a loop over a snapshot of the library
    answered,    \* history: the switch of the window ended in a sync
    retirements, \* history: how often a removal has retired the daemon
    requests, faults

vars == <<member, current, notices, seq, tail, tickets, generation, queue, step, todo,
          failed, warning, removal, rejected, bound, rows, saving, sweep, answered,
          retirements, requests, faults>>

windowVars == <<current, notices, seq, tail>>
syncVars == <<tickets, queue, step, todo, failed, warning, sweep, answered>>
storeVars == <<bound, rows, saving, retirements>>

-----------------------------------------------------------------------------
Steps == {"idle", "bind", "diff", "write"}
Removals == {"none", "begun", "draining", "cancelling", "listing", "deleting",
             "unbinding", "leaving"}
Warnings == {"none", "files", "error", "retired"}
Operation == [by : Windows \cup {"sweep", "user"}, seq : Nat, gen : Nat, retried : BOOLEAN]
Ticket == [window : Windows, folder : Folders, seq : Nat, after : Nat, running : BOOLEAN]
NoSweep == [kind |-> "none", left |-> {}, at |-> None]

\* Calls of the store that a retirement can reject.
SyncCall(f) == <<"sync", f>>
DeleteCall(f) == <<"removal", f>>
InFlight == {SyncCall(f) : f \in {g \in Folders : step[g] # "idle"}}
              \cup {DeleteCall(f) : f \in {g \in Folders : removal[g] = "deleting"}}

Request == requests < MaxRequests /\ requests' = requests + 1
Fault == faults < MaxFaults /\ faults' = faults + 1

\* shouldContinueFolderSync of the running operation, with the caller's condition.
Continues(f) ==
    LET op == Head(queue[f])
    IN  /\ generation[f] = op.gen
        /\ op.by \in Windows => current[op.by] = f /\ seq[op.by] = op.seq

Init ==
    /\ member = Folders
    /\ current = [w \in Windows |-> None]
    /\ notices = [w \in Windows |-> <<>>]
    /\ seq = [w \in Windows |-> 0] /\ tail = [w \in Windows |-> 0]
    /\ tickets = {}
    /\ generation = [f \in Folders |-> 0]
    /\ queue = [f \in Folders |-> <<>>]
    /\ step = [f \in Folders |-> "idle"]
    /\ todo = [f \in Folders |-> 0]
    /\ failed = [f \in Folders |-> FALSE]
    /\ warning = [f \in Folders |-> "none"]
    /\ removal = [f \in Folders |-> "none"]
    /\ rejected = {}
    /\ bound = {}
    /\ rows = [f \in Folders |-> {"sync"}]
    /\ saving = {}
    /\ sweep = NoSweep
    /\ answered = [w \in Windows |-> TRUE]
    /\ retirements = 0 /\ requests = 0 /\ faults = 0

-----------------------------------------------------------------------------
(* Windows. *)

\* setCurrentFolder: membership and the window first, the listeners when the
\* response has been sent.
OpenFolder(w, f) ==
    /\ Request
    /\ removal[f] = "none"
    /\ member' = member \cup {f}
    /\ current' = [current EXCEPT ![w] = f]
    /\ IF current[w] = f
       THEN UNCHANGED <<notices, answered>>
       ELSE /\ notices' = [notices EXCEPT ![w] = Append(@, f)]
            /\ answered' = [answered EXCEPT ![w] = FALSE]
    /\ UNCHANGED <<seq, tail, tickets, generation, queue, step, todo, failed, warning,
                   removal, rejected, storeVars, sweep, faults>>

\* The close listener cuts the chain: later entries do not wait for earlier ones.
Leave(ws) ==
    /\ current' = [w \in Windows |-> IF w \in ws THEN None ELSE current[w]]
    /\ seq' = [w \in Windows |-> IF w \in ws THEN seq[w] + 1 ELSE seq[w]]
    /\ tail' = [w \in Windows |-> IF w \in ws THEN 0 ELSE tail[w]]

\* clearCurrentFolder
CloseFolder(w) ==
    /\ Request
    /\ current[w] # None
    /\ Leave({w})
    /\ UNCHANGED <<member, notices, tickets, generation, queue, step, todo, failed,
                   warning, removal, rejected, storeVars, sweep, answered, faults>>

\* Variant with a bug (for OpenIsSynced): an entry does not advance the sequence
\* before it joins it, so it is stale from the start.
ScheduleStale(w) ==
    /\ notices[w] # <<>>
    /\ notices' = [notices EXCEPT ![w] = Tail(@)]
    /\ seq' = [seq EXCEPT ![w] = @ + 1]
    /\ tail' = [tail EXCEPT ![w] = seq[w] + 1]
    /\ tickets' = tickets \cup
         {[window |-> w, folder |-> Head(notices[w]), seq |-> seq[w],
           after |-> tail[w], running |-> FALSE]}
    /\ UNCHANGED <<member, current, generation, queue, step, todo, failed, warning,
                   removal, rejected, storeVars, sweep, answered, requests, faults>>

\* scheduleIndexerSync: an entry of the window's chain.
ScheduleIndexerSync(w) ==
    /\ notices[w] # <<>>
    /\ notices' = [notices EXCEPT ![w] = Tail(@)]
    /\ seq' = [seq EXCEPT ![w] = @ + 1]
    /\ tail' = [tail EXCEPT ![w] = seq[w] + 1]
    /\ tickets' = tickets \cup
         {[window |-> w, folder |-> Head(notices[w]), seq |-> seq[w] + 1,
           after |-> tail[w], running |-> FALSE]}
    /\ UNCHANGED <<member, current, generation, queue, step, todo, failed, warning,
                   removal, rejected, storeVars, sweep, answered, requests, faults>>

-----------------------------------------------------------------------------
(* Scheduling a sync of a folder. *)

\* Variant with a bug (for NoSyncUnderCleanup): the removal gate is not consulted.
SyncWithoutGate(f, by, n) ==
    [refused |-> FALSE,
     queue |-> [queue EXCEPT ![f] =
                  Append(@, [by |-> by, seq |-> n, gen |-> generation[f],
                             retried |-> FALSE])]]

\* syncFolderNow: refused while the folder is being removed, otherwise behind the
\* folder's earlier operations, under the generation of this moment.
SyncFolderNow(f, by, n) ==
    IF removal[f] # "none"
    THEN [refused |-> TRUE, queue |-> queue]
    ELSE [refused |-> FALSE,
          queue |-> [queue EXCEPT ![f] =
                       Append(@, [by |-> by, seq |-> n, gen |-> generation[f],
                                  retried |-> FALSE])]]

\* The entry's turn: unless its window has moved on, it runs a sync.
TicketTurn(t) ==
    /\ t \in tickets /\ ~t.running
    /\ ~\E u \in tickets : u.window = t.window /\ u.seq = t.after
    /\ LET sync == SyncFolderNow(t.folder, t.window, t.seq)
       IN  IF current[t.window] # t.folder \/ sync.refused
           THEN tickets' = tickets \ {t} /\ queue' = queue
           ELSE /\ tickets' = (tickets \ {t}) \cup {[t EXCEPT !.running = TRUE]}
                /\ queue' = sync.queue
    /\ UNCHANGED <<member, windowVars, generation, step, todo, failed, warning, removal,
                   rejected, storeVars, sweep, answered, requests, faults>>

\* A manual sync, or a start of semantic indexing, of the folder a window shows.
UserSync(w) ==
    /\ Request
    /\ current[w] # None
    /\ LET sync == SyncFolderNow(current[w], "user", 0)
       IN  ~sync.refused /\ queue' = sync.queue
    /\ UNCHANGED <<member, windowVars, tickets, generation, step, todo, failed, warning,
                   removal, rejected, storeVars, sweep, answered, faults>>

\* The next folder f of the snapshot's rest; the loop waits for each of its syncs.
SweepTo(kind, rest, f) ==
    LET left == rest \ {f}
        sync == SyncFolderNow(f, "sweep", 0)
        Loop(at) == IF left = {} /\ at = None THEN NoSweep
                    ELSE [kind |-> kind, left |-> left, at |-> at]
    IN  \/ /\ kind = "reconcile"
           /\ queue' = sync.queue
           /\ sweep' = Loop(IF sync.refused THEN None ELSE f)
           /\ bound' = bound
        \/ /\ kind = "bind"
           /\ bound' = bound \cup {f}
           /\ sweep' = Loop(None)
           /\ queue' = queue

\* reconcileLibraryFolders and bootBindAllFolders take a snapshot of the members.
SweepStart(kind) ==
    /\ Request
    /\ sweep = NoSweep
    /\ \E f \in member : SweepTo(kind, member, f)
    /\ UNCHANGED <<member, windowVars, tickets, generation, step, todo, failed, warning,
                   removal, rejected, rows, saving, answered, retirements, faults>>

SweepNext(f) ==
    /\ sweep.at = None
    /\ f \in sweep.left
    /\ SweepTo(sweep.kind, sweep.left, f)
    /\ UNCHANGED <<member, windowVars, tickets, generation, step, todo, failed, warning,
                   removal, rejected, rows, saving, answered, retirements, requests,
                   faults>>

-----------------------------------------------------------------------------
(* runFolderSyncOperation. *)

\* The operation is over; whoever waited for it goes on.
Settle(f, cause) ==
    LET op == Head(queue[f])
    IN  /\ queue' = [queue EXCEPT ![f] = Tail(@)]
        /\ step' = [step EXCEPT ![f] = "idle"]
        /\ todo' = [todo EXCEPT ![f] = 0]
        /\ failed' = [failed EXCEPT ![f] = FALSE]
        /\ warning' = IF cause = "cancelled" THEN warning ELSE [warning EXCEPT ![f] = cause]
        /\ tickets' = {t \in tickets : ~(t.running /\ t.window = op.by /\ t.seq = op.seq)}
        /\ answered' = [w \in Windows |-> answered[w]
                          \/ (cause # "cancelled" /\ op.by = w /\ current[w] = f)]
        /\ sweep' = IF op.by # "sweep" THEN sweep
                    ELSE IF sweep.left = {} THEN NoSweep ELSE [sweep EXCEPT !.at = None]

Advance(f, s, n) ==
    /\ step' = [step EXCEPT ![f] = s]
    /\ todo' = [todo EXCEPT ![f] = n]
    /\ UNCHANGED <<tickets, queue, failed, warning, sweep, answered>>

\* A round of the loop: stop if stale, otherwise bind, which records the binding.
BindFolder(f) ==
    /\ queue[f] # <<>> /\ step[f] = "idle"
    /\ IF Continues(f)
       THEN Advance(f, "bind", 0) /\ bound' = bound \cup {f}
       ELSE Settle(f, "cancelled") /\ bound' = bound
    /\ UNCHANGED <<member, windowVars, generation, removal, rejected, rows, saving,
                   retirements, requests, faults>>

\* Variant with a bug (for OneRemovalHeals): a rejected operation does not start
\* over.
InterruptedForGood(f) ==
    /\ step[f] \in {"bind", "diff"}
    /\ SyncCall(f) \in rejected
    /\ rejected' = rejected \ {SyncCall(f)}
    /\ Settle(f, IF Continues(f) THEN "retired" ELSE "cancelled")
    /\ UNCHANGED <<member, windowVars, generation, removal, storeVars, requests, faults>>

\* Bind or diff is rejected.  A live operation that was interrupted by the removal
\* of another folder starts over, once.
Interrupted(f) ==
    /\ step[f] \in {"bind", "diff"}
    /\ SyncCall(f) \in rejected
    /\ rejected' = rejected \ {SyncCall(f)}
    /\ IF ~Continues(f) THEN Settle(f, "cancelled") /\ bound' = bound
       ELSE IF Head(queue[f]).retried THEN Settle(f, "retired") /\ bound' = bound
       ELSE /\ queue' = [queue EXCEPT ![f][1].retried = TRUE]
            /\ step' = [step EXCEPT ![f] = "bind"]
            /\ bound' = bound \cup {f}
            /\ UNCHANGED <<tickets, todo, failed, warning, sweep, answered>>
    /\ UNCHANGED <<member, windowVars, generation, removal, rows, saving, retirements, requests, faults>>

\* Bind or diff fails for another reason.
SyncFails(f) ==
    /\ Fault
    /\ step[f] \in {"bind", "diff"}
    /\ SyncCall(f) \notin rejected
    /\ Settle(f, IF Continues(f) THEN "error" ELSE "cancelled")
    /\ UNCHANGED <<member, windowVars, generation, removal, rejected, storeVars, requests>>

\* Variant with a bug (for RemovalEnds): a stale operation returns without settling
\* what waits for it.
BindAnsweredIfLive(f) ==
    /\ step[f] = "bind"
    /\ SyncCall(f) \notin rejected
    /\ Continues(f)
    /\ Advance(f, "diff", 0)
    /\ UNCHANGED <<member, windowVars, generation, removal, rejected, storeVars, requests,
                   faults>>

BindAnswered(f) ==
    /\ step[f] = "bind"
    /\ SyncCall(f) \notin rejected
    /\ IF Continues(f) THEN Advance(f, "diff", 0) ELSE Settle(f, "cancelled")
    /\ UNCHANGED <<member, windowVars, generation, removal, rejected, storeVars, requests,
                   faults>>

\* Variant with a bug (for TypeOK): an empty diff enters the loop over the files.
DiffAnsweredEmpty(f) ==
    /\ step[f] = "diff"
    /\ SyncCall(f) \notin rejected
    /\ \E n \in 0..Files : Advance(f, "write", n)
    /\ UNCHANGED <<member, windowVars, generation, removal, rejected, storeVars, requests,
                   faults>>

\* Nothing changed, or so many files to write, if there is still somebody to do
\* it for.
DiffAnswered(f) ==
    /\ step[f] = "diff"
    /\ SyncCall(f) \notin rejected
    /\ \/ Settle(f, "none")
       \/ /\ Files > 0
          /\ ~Continues(f)
          /\ Settle(f, "cancelled")
       \/ /\ Continues(f)
          /\ \E n \in 1..Files : Advance(f, "write", n)
    /\ UNCHANGED <<member, windowVars, generation, removal, rejected, storeVars, requests,
                   faults>>

\* One file: its failure is caught and counted.  Between two files the operation
\* looks whether it is stale; after the last one it does not.
FileWritten(f) ==
    LET lost == SyncCall(f) \in rejected
        AfterFile(bad) ==
            IF todo[f] = 1 THEN Settle(f, IF bad THEN "files" ELSE "none")
            ELSE IF ~Continues(f) THEN Settle(f, "cancelled")
            ELSE /\ todo' = [todo EXCEPT ![f] = @ - 1]
                 /\ failed' = [failed EXCEPT ![f] = bad]
                 /\ UNCHANGED <<tickets, queue, step, warning, sweep, answered>>
    IN  /\ step[f] = "write"
        /\ \/ /\ ~lost
              /\ rows' = [rows EXCEPT ![f] = @ \cup {"sync"}]
              /\ AfterFile(failed[f])
              /\ faults' = faults
           \/ /\ \/ lost /\ faults' = faults
                 \/ ~lost /\ Fault
              /\ rows' = rows
              /\ AfterFile(TRUE)
        /\ rejected' = rejected \ {SyncCall(f)}
        /\ UNCHANGED <<member, windowVars, generation, removal, bound, saving, retirements, requests>>

-----------------------------------------------------------------------------
(* Writes of single files that no sync owns. *)

\* A save or an upload answers its request first and leaves the index write to
\* itself.
SaveFile(w) ==
    /\ Request
    /\ current[w] # None /\ current[w] \notin saving
    /\ saving' = saving \cup {current[w]}
    /\ UNCHANGED <<member, windowVars, syncVars, generation, removal, rejected, bound,
                   rows, retirements, faults>>

\* The store takes a row only under a root that is bound.
SaveIndexed(f) ==
    /\ f \in saving
    /\ saving' = saving \ {f}
    /\ \/ f \in bound /\ rows' = [rows EXCEPT ![f] = @ \cup {"save"}]
       \/ rows' = rows
    /\ UNCHANGED <<member, windowVars, syncVars, generation, removal, rejected, bound,
                   retirements, requests, faults>>

-----------------------------------------------------------------------------
(* Removal of a folder. *)

Proceed(f, phase) == removal' = [removal EXCEPT ![f] = phase]

\* The request; its look at the membership may be an older one.
BeginRemoval(f) ==
    /\ Request
    /\ removal[f] = "none"
    /\ Proceed(f, "begun")
    /\ UNCHANGED <<member, windowVars, syncVars, generation, rejected, storeVars, faults>>

\* clearFolderPathAsync, window by window.  It compares paths read before its
\* awaits: closing a window that has switched meanwhile is CloseFolder.
LeaveWindow(f, w) ==
    /\ removal[f] = "begun" /\ current[w] = f
    /\ Leave({w})
    /\ UNCHANGED <<member, notices, syncVars, generation, removal, rejected, storeVars,
                   requests, faults>>

\* cancelFolderSyncsAndWait: with a sync pending, the daemon is retired and every
\* call it has not answered is rejected.
StopSyncs(f) ==
    /\ removal[f] = "begun"
    /\ \A w \in Windows : current[w] # f
    /\ generation' = [generation EXCEPT ![f] = @ + 1]
    /\ \/ /\ queue[f] = <<>>
          /\ Proceed(f, "cancelling")
          /\ UNCHANGED <<rejected, retirements>>
       \/ /\ queue[f] # <<>>
          /\ Proceed(f, "draining")
          /\ \E calls \in SUBSET InFlight : rejected' = rejected \cup calls
          /\ retirements' = retirements + 1
    /\ UNCHANGED <<member, windowVars, syncVars, bound, rows, saving, requests, faults>>

\* The syncs that were pending have settled.
SyncsStopped(f) ==
    /\ removal[f] = "draining"
    /\ queue[f] = <<>>
    /\ Proceed(f, "cancelling")
    /\ UNCHANGED <<member, windowVars, syncVars, generation, rejected, storeVars,
                   requests, faults>>

\* cancelConversionsUnderAndWait, and the durable records and order of the folder.
ConversionsStopped(f) ==
    /\ removal[f] = "cancelling"
    /\ Proceed(f, "listing")
    /\ UNCHANGED <<member, windowVars, syncVars, generation, rejected, storeVars,
                   requests, faults>>

\* cleanupDerivedForFolder: a failure to list the index is only logged.
DerivedRemoved(f) ==
    /\ removal[f] = "listing"
    /\ Proceed(f, "deleting")
    /\ UNCHANGED <<member, windowVars, syncVars, generation, rejected, storeVars,
                   requests, faults>>

\* Variant with a bug (for RemovalLeavesNothing): the failure of deletePathPrefix
\* is logged like the others and the removal goes on.
RowsDeletedOrNot(f) ==
    /\ removal[f] = "deleting"
    /\ \/ rows' = [rows EXCEPT ![f] = {}] /\ faults' = faults
       \/ rows' = rows /\ Fault
    /\ bound' = bound \ {f}
    /\ Proceed(f, "unbinding")
    /\ rejected' = rejected \ {DeleteCall(f)}
    /\ UNCHANGED <<member, windowVars, syncVars, generation, saving, retirements, requests>>

\* deletePathPrefix, then the call of unbindFolder; a failure ends the removal.
RowsDeleted(f) ==
    /\ removal[f] = "deleting"
    /\ \/ /\ DeleteCall(f) \notin rejected
          /\ rows' = [rows EXCEPT ![f] = {}]
          /\ bound' = bound \ {f}
          /\ Proceed(f, "unbinding")
          /\ faults' = faults
       \/ /\ \/ DeleteCall(f) \in rejected /\ faults' = faults
             \/ DeleteCall(f) \notin rejected /\ Fault
          /\ rows' = rows /\ bound' = bound
          /\ Proceed(f, "none")
    /\ rejected' = rejected \ {DeleteCall(f)}
    /\ UNCHANGED <<member, windowVars, syncVars, generation, saving, retirements, requests>>

\* deleteFolderRuntimeState: the generation stays monotonic.
Unbound(f) ==
    /\ removal[f] = "unbinding"
    /\ warning' = [warning EXCEPT ![f] = "none"]
    /\ generation' = [generation EXCEPT ![f] = @ + 1]
    /\ Proceed(f, "leaving")
    /\ UNCHANGED <<member, windowVars, tickets, queue, step, todo, failed, sweep,
                   answered, rejected, storeVars, requests, faults>>

\* removeRecent commits the removal, or the settings file is busy.
LeaveLibrary(f) ==
    /\ removal[f] = "leaving"
    /\ \/ member' = member \ {f} /\ faults' = faults
       \/ member' = member /\ Fault
    /\ Proceed(f, "none")
    /\ UNCHANGED <<windowVars, syncVars, generation, rejected, storeVars, requests>>

-----------------------------------------------------------------------------
Next ==
    \/ \E w \in Windows :
         \/ \E f \in Folders : OpenFolder(w, f)
         \/ CloseFolder(w) \/ ScheduleIndexerSync(w) \/ UserSync(w) \/ SaveFile(w)
    \/ \E t \in tickets : TicketTurn(t)
    \/ \E kind \in Sweeps : SweepStart(kind)
    \/ \E f \in Folders :
         \/ SweepNext(f)
         \/ BindFolder(f) \/ BindAnswered(f) \/ DiffAnswered(f) \/ FileWritten(f)
         \/ Interrupted(f) \/ SyncFails(f)
         \/ SaveIndexed(f)
         \/ BeginRemoval(f) \/ \E w \in Windows : LeaveWindow(f, w)
         \/ StopSyncs(f) \/ SyncsStopped(f) \/ ConversionsStopped(f)
         \/ DerivedRemoved(f) \/ RowsDeleted(f) \/ Unbound(f) \/ LeaveLibrary(f)

Spec == Init /\ [][Next]_vars

\* Callbacks run, the store answers or a retirement rejects what it was asked.
Fairness ==
    /\ \A w \in Windows : WF_vars(ScheduleIndexerSync(w))
    /\ WF_vars(\E t \in tickets : TicketTurn(t))
    /\ WF_vars(\E f \in Folders : SweepNext(f))
    /\ \A f \in Folders :
         /\ WF_vars(BindFolder(f))
         /\ WF_vars(BindAnswered(f) \/ DiffAnswered(f) \/ FileWritten(f) \/ Interrupted(f))
         /\ WF_vars(SaveIndexed(f))
         /\ WF_vars(\E w \in Windows : LeaveWindow(f, w))
         /\ WF_vars(\/ StopSyncs(f) \/ SyncsStopped(f) \/ ConversionsStopped(f)
                    \/ DerivedRemoved(f) \/ RowsDeleted(f) \/ Unbound(f) \/ LeaveLibrary(f))

FairSpec == Spec /\ Fairness

-----------------------------------------------------------------------------
(* Properties. *)

\* The types of the variables.
TypeOK ==
    /\ member \subseteq Folders
    /\ current \in [Windows -> Folders \cup {None}]
    /\ notices \in [Windows -> Seq(Folders)]
    /\ seq \in [Windows -> Nat] /\ tail \in [Windows -> Nat]
    /\ tickets \subseteq Ticket
    /\ generation \in [Folders -> Nat]
    /\ queue \in [Folders -> Seq(Operation)]
    /\ step \in [Folders -> Steps]
    /\ todo \in [Folders -> 0..Files]
    /\ failed \in [Folders -> BOOLEAN]
    /\ warning \in [Folders -> Warnings]
    /\ removal \in [Folders -> Removals]
    /\ rejected \subseteq InFlight
    /\ bound \subseteq Folders
    /\ rows \in [Folders -> SUBSET {"sync", "save"}]
    /\ saving \subseteq Folders
    /\ sweep \in [kind : Sweeps \cup {"none"}, left : SUBSET Folders,
                  at : Folders \cup {None}]
    /\ answered \in [Windows -> BOOLEAN]
    /\ retirements \in Nat
    /\ requests \in 0..MaxRequests /\ faults \in 0..MaxFaults

\* Once the removal of a folder has begun to delete what belongs to it, no sync
\* of the folder runs or waits: those that were pending have settled, and none
\* can be scheduled, from a window, by a user, or by a loop over the library.
Cleaning == {"cancelling", "listing", "deleting", "unbinding", "leaving"}
NoSyncUnderCleanup ==
    \A f \in Folders : removal[f] \in Cleaning => queue[f] = <<>> /\ step[f] = "idle"

\* A folder leaves the library only when nothing that a sync made of it is left:
\* no rows, no warning, no pending work; a removal that failed half way keeps
\* the folder a member, and the next reconcile can rebuild what is missing.
RemovalLeavesNothing ==
    [][\A f \in member \ member' :
         "sync" \notin rows[f] /\ warning[f] = "none" /\ queue[f] = <<>>]_vars

\* A bind or a diff that is rejected because the removal of another folder retired the
\* daemon heals without the user noticing.  (A bind that waits for a child still
\* starting sees an untyped failure and is not retried: it is SyncFails here.)
OneRemovalHeals ==
    retirements <= 1 => \A f \in Folders : warning[f] # "retired"

\* Whoever opens a folder gets it synchronised: some operation scheduled by the
\* window's last switch runs to its end, however switches, closes and removals
\* of other folders overlap.
OpenIsSynced ==
    \A w \in Windows, f \in Folders :
        current[w] = f /\ ~answered[w] ~> answered[w] \/ current[w] # f

\* A removal ends, although it waits for syncs that wait for the store.
RemovalEnds == \A f \in Folders : removal[f] # "none" ~> removal[f] = "none"

\* A folder that has left the library is not bound and not indexed again by work
\* that began before it left.
RemovedStaysRemoved ==
    \A f \in Folders \ member :
        removal[f] = "none" => f \notin bound /\ rows[f] = {} /\ queue[f] = <<>>
=============================================================================
