------------------------------ MODULE Reconcile ------------------------------
(***************************************************************************)
(* The reconcile of a folder's text files with their index rows, syncIndex *)
(* of server/sync.ts, with the semantic decision of server/state.ts and    *)
(* the single-file writes of server/indexer.mfs.ts and server/file-save.ts *)
(* that go on beside it.                                                   *)
(*                                                                         *)
(* The vector store (python/stashbase_daemon.py) serves the calls of the   *)
(* reconcile and of the saves in the order in which they were sent.        *)
(***************************************************************************)
EXTENDS Integers, Sequences, FiniteSets, Functions

CONSTANTS Paths, Contents,
          None,         \* no file, or no row
          Large,        \* sources from which a workload needs a decision
          RepublishFails, \* a decision that stands already may fail to be stored again
          MaxRequests,  \* bound on edits, saves and decisions
          MaxFaults     \* bound on failed calls and on stopped reconciles

ASSUME ReconcileAssumption ==
    /\ IsFiniteSet(Paths)
    /\ None \notin Contents \cup Paths
    /\ Large \in Nat \ {0}
    /\ RepublishFails \in BOOLEAN
    /\ MaxRequests \in Nat /\ MaxFaults \in Nat

VARIABLES
    disk,      \* the content of each file
    row,       \* the content that the index holds for it
    calls,     \* what the store has been sent and has not answered
    saves,     \* saved contents whose index write has not been sent
    decision,  \* semantic_indexing_decisions
    phase,     \* how far the reconcile is
    force,     \* the user has started it in spite of its size
    pausing,   \* pauseRequested
    work,      \* what is left of the diff
    stale,     \* of diff.modified, what is left to invalidate
    failed,    \* a file could not be handled
    stuck,     \* a stale row could not be invalidated
    outcome,   \* how the last reconcile ended
    others,    \* history: what others did to each file since the last diff
    requests, faults

storeVars == <<row, calls>>
fileVars == <<disk, saves, others>>
syncVars == <<phase, force, pausing, work, stale, failed, stuck, outcome>>
vars == <<storeVars, fileVars, decision, syncVars, requests, faults>>

-----------------------------------------------------------------------------
Phases == {"idle", "scan", "rename", "delete", "invalidate", "upsert"}
Outcomes == {"none", "complete", "failed", "paused", "stopped"}
NoWork == [renamed |-> {}, deleted |-> {}, added |-> {}, modified |-> {}]
Pair == [old : Paths, new : Paths]
Call == [op : {"diff", "write", "upsert", "delete", "rename"}, path : Paths \cup {None},
         old : Paths \cup {None}, text : Contents \cup {None}, by : {"sync", "save"}]

Diff == [op |-> "diff", path |-> None, old |-> None, text |-> None, by |-> "sync"]
Write(op, p, c, by) == [op |-> op, path |-> p, old |-> None, text |-> c, by |-> by]
Delete(p, by) == Write("delete", p, None, by)
RenameRow(r, c) == [Write("rename", r.new, c, "sync") EXCEPT !.old = r.old]

Request == requests < MaxRequests /\ requests' = requests + 1
Fault == faults < MaxFaults /\ faults' = faults + 1
Ready(ph) == phase = ph /\ \A k \in DOMAIN calls : calls[k].by # "sync"

Init ==
    /\ disk \in [Paths -> Contents \cup {None}]
    /\ row \in [Paths -> Contents \cup {None}]
    /\ calls = <<>> /\ saves = {}
    /\ decision = "none"
    /\ phase = "idle" /\ force = FALSE /\ pausing = FALSE
    /\ work = NoWork /\ stale = {}
    /\ failed = FALSE /\ stuck = FALSE
    /\ outcome = "none"
    /\ others = [p \in Paths |-> "none"]
    /\ requests = 0 /\ faults = 0

-----------------------------------------------------------------------------
(* Files change. *)

\* An editor, a sync tool: nothing tells the index.
Edit(p) ==
    /\ Request
    /\ \E c \in (Contents \cup {None}) \ {disk[p]} : disk' = [disk EXCEPT ![p] = c]
    /\ others' = [others EXCEPT ![p] = "edited"]
    /\ UNCHANGED <<storeVars, saves, decision, syncVars, faults>>

\* saveFileContent: the bytes first, then upsertSavedFile.  Of two saves that
\* overlap either may reach the index first.
Save(p, c) ==
    /\ Request
    /\ c # disk[p]
    /\ disk' = [disk EXCEPT ![p] = c]
    /\ saves' = saves \cup {<<p, c>>}
    /\ others' = [others EXCEPT ![p] = IF @ = "edited" \/ \E s \in saves : s[1] = p
                                       THEN "edited" ELSE "saved"]
    /\ UNCHANGED <<storeVars, decision, syncVars, faults>>

\* upsertFile: with a decision pending the row is looked up first.
WriteRow(p, c, by) == Write(IF decision = "none" THEN "upsert" ELSE "write", p, c, by)

SendSave(s) ==
    /\ s \in saves
    /\ saves' = saves \ {s}
    /\ calls' = Append(calls, WriteRow(s[1], s[2], "save"))
    /\ UNCHANGED <<disk, row, others, decision, syncVars, requests, faults>>

-----------------------------------------------------------------------------
(* The semantic decision. *)

\* syncFolderNow, or startSemanticIndexing, which clears the decision first.
StartSync(forced) ==
    /\ phase = "idle"
    /\ Request
    /\ decision' = IF forced THEN "none" ELSE decision
    /\ phase' = "scan" /\ force' = forced
    /\ calls' = Append(calls, Diff)
    /\ failed' = FALSE /\ stuck' = FALSE
    /\ UNCHANGED <<row, fileVars, pausing, work, stale, outcome, faults>>

\* deferSemanticIndexing
Defer ==
    /\ Request
    /\ decision = "awaiting" /\ decision' = "paused"
    /\ UNCHANGED <<storeVars, fileVars, syncVars, faults>>

-----------------------------------------------------------------------------
(* The store. *)

\* An added and a deleted file of one content are a rename when each is the only one.
Renames(added, deleted) ==
    {r \in [old : deleted, new : added] :
        /\ row[r.old] = disk[r.new]
        /\ \A p \in added : disk[p] = disk[r.new] => p = r.new
        /\ \A p \in deleted : row[p] = row[r.old] => p = r.old}

\* op_scan_diff
ScanDiff ==
    LET added == {p \in Paths : disk[p] # None /\ row[p] = None}
        deleted == {p \in Paths : disk[p] = None /\ row[p] # None}
        renamed == Renames(added, deleted)
    IN  [renamed |-> renamed,
         deleted |-> deleted \ {r.old : r \in renamed},
         added |-> added \ {r.new : r \in renamed},
         modified |-> {p \in Paths : disk[p] # None /\ row[p] \notin {None, disk[p]}}]

\* Saves that the diff did not see, in the store's queue or before it.
UnderWay(p) == \/ \E s \in saves : s[1] = p
               \/ \E c \in Range(calls) : c.by = "save" /\ c.path = p

\* The diff is answered: shouldPauseEmbedding, and the early return when nothing
\* has changed.  A Defer while the workload of the diff is estimated is one
\* before the answer.
DiffAnswered ==
    LET diff == ScanDiff
        large == Cardinality(diff.added \cup diff.modified) >= Large
    IN  /\ work' = diff /\ stale' = diff.modified
        /\ pausing' = (~force /\ (decision = "paused" \/ large))
        /\ IF diff = NoWork THEN phase' = "idle" /\ outcome' = "complete"
                            ELSE phase' = "rename" /\ outcome' = outcome
        /\ others' = [p \in Paths |-> IF UnderWay(p) THEN others[p] ELSE "none"]
        /\ UNCHANGED <<force, failed, stuck>>

\* An upsert replaces the row, a rename moves it.
Applied(c) ==
    CASE c.op = "upsert" -> [row EXCEPT ![c.path] = c.text]
      [] c.op = "delete" -> [row EXCEPT ![c.path] = None]
      [] c.op = "rename" -> [row EXCEPT ![c.old] = None, ![c.path] = c.text]
      [] c.op = "write"  -> row

\* Variant with a bug (for SavedNeverStale): with a decision pending every row is
\* retained.
AfterLookupRetaining(c) == <<>>

\* pausedWriteDisposition: a row of this very content is retained, another one is
\* invalidated, and nothing is embedded.
AfterLookup(c) ==
    IF c.op = "write" /\ row[c.path] \notin {None, c.text}
    THEN <<Delete(c.path, c.by)>> ELSE <<>>

Answer ==
    /\ calls # <<>>
    /\ LET c == Head(calls)
       IN  IF c.op = "diff"
           THEN /\ DiffAnswered
                /\ calls' = Tail(calls) /\ row' = row
           ELSE /\ calls' = Tail(calls) \o AfterLookup(c)
                /\ row' = Applied(c)
                /\ UNCHANGED <<others, syncVars>>
    /\ UNCHANGED <<disk, saves, decision, requests, faults>>

\* Variant with a bug (for PausePublishedClean): a failed invalidation is only
\* counted among the failures.
StuckNever(c) == FALSE

\* publishSemanticPause looks at the failures of its own deletes.
Stuck(c) == c.by = "sync" /\ phase = "invalidate"

\* Variant with a bug (for CompleteIsCurrent): a failed embedding is only logged.
CountedUnlessUpsert(c) == c.by = "sync" /\ c.op # "upsert"

\* What goes into the result's failures.
Counted(c) == c.by = "sync"

\* A call fails.  A failed diff ends the reconcile; a failed rename is followed by
\* the removal of the old row; an embedding fails after the old row is gone.
AnswerError ==
    /\ calls # <<>> /\ Fault
    /\ LET c == Head(calls)
       IN  /\ calls' = IF c.op = "rename" THEN Append(Tail(calls), Delete(c.old, "sync"))
                       ELSE Tail(calls)
           /\ row' \in {row} \cup
                        (CASE c.op = "upsert" -> {[row EXCEPT ![c.path] = None]}
                           [] c.op = "rename" -> {[row EXCEPT ![c.old] = None, ![c.path] = None]}
                           [] OTHER -> {})
           /\ IF c.op = "diff" THEN phase' = "idle" /\ outcome' = "failed"
                               ELSE UNCHANGED <<phase, outcome>>
           /\ failed' = (failed \/ Counted(c))
           /\ stuck' = (stuck \/ Stuck(c))
           /\ others' = IF c.by = "save" THEN [others EXCEPT ![c.path] = "edited"] ELSE others
    /\ UNCHANGED <<disk, saves, decision, force, pausing, work, stale, requests>>

-----------------------------------------------------------------------------
(* The phases of syncIndex. *)

Finish(how) ==
    /\ phase' = "idle" /\ outcome' = how
    /\ work' = NoWork /\ stale' = {}
    /\ UNCHANGED <<storeVars, fileVars, force, pausing, failed, stuck, requests>>

Send(c) ==
    /\ calls' = Append(calls, c)
    /\ UNCHANGED <<row, fileVars, decision, phase, force, pausing, stuck, outcome, requests,
                   faults>>

Enter(ph) ==
    /\ phase' = ph
    /\ UNCHANGED <<storeVars, fileVars, force, pausing, work, stale, failed, stuck, outcome,
                   requests>>

\* shouldStop, or an allowance that is used up, between two files.
Stop ==
    /\ \/ Ready("rename") /\ work.renamed # {}
       \/ Ready("delete") /\ work.deleted # {}
       \/ Ready("upsert") /\ work.added \cup work.modified # {}
    /\ Fault
    /\ Finish("stopped") /\ decision' = decision

\* The target is read when its turn comes.
RenameFile ==
    /\ Ready("rename")
    /\ \E r \in work.renamed :
         /\ work' = [work EXCEPT !.renamed = @ \ {r}] /\ stale' = stale
         /\ failed' = (failed \/ disk[r.new] = None)
         /\ Send(IF disk[r.new] = None THEN Delete(r.old, "sync") ELSE RenameRow(r, disk[r.new]))

RenamesDone ==
    /\ Ready("rename") /\ work.renamed = {}
    /\ Enter("delete") /\ UNCHANGED <<decision, faults>>

\* On the diff's word: the file may be back.
DeleteRow ==
    /\ Ready("delete")
    /\ \E p \in work.deleted :
         /\ work' = [work EXCEPT !.deleted = @ \ {p}]
         /\ Send(Delete(p, "sync"))
    /\ UNCHANGED <<stale, failed>>

\* publishSemanticPause, or commitEmbedding before the first embedding: an earlier
\* decision that cannot be cleared leaves the folder paused.
DeletesDone ==
    /\ Ready("delete") /\ work.deleted = {}
    /\ \/ pausing /\ Enter("invalidate") /\ UNCHANGED <<decision, faults>>
       \/ ~pausing /\ Enter("upsert") /\ decision' = "none" /\ faults' = faults
       \/ ~pausing /\ decision # "none" /\ Finish("paused") /\ decision' = decision /\ Fault

InvalidateRow ==
    /\ Ready("invalidate")
    /\ \E p \in stale :
         /\ stale' = stale \ {p}
         /\ Send(Delete(p, "sync"))
    /\ UNCHANGED <<work, failed>>

\* Variant with a bug (for TypeOK): the decision is published under the name of the
\* outcome that it had.
PublishOutcome ==
    /\ Ready("invalidate") /\ stale = {} /\ ~stuck
    /\ decision' = outcome
    /\ Finish("paused") /\ faults' = faults

\* publishPaused, or the fallback to indexing: a row could not be invalidated, or
\* the decision cannot be stored.  Under an earlier decision that still stands,
\* upsertFile embeds nothing in what follows.
Publish ==
    /\ Ready("invalidate") /\ stale = {} /\ ~stuck
    /\ decision' = IF decision = "paused" THEN "paused" ELSE "awaiting"
    /\ Finish("paused") /\ faults' = faults

FallBack ==
    /\ Ready("invalidate") /\ stale = {}
    /\ Enter("upsert") /\ decision' = decision
    /\ IF stuck THEN faults' = faults
                ELSE Fault /\ (decision = "none" \/ RepublishFails)

\* The added files come first.
Turn == IF work.added # {} THEN work.added ELSE work.modified

\* indexOne: a file that cannot be read loses its row.
IndexOne ==
    /\ Ready("upsert")
    /\ \E p \in Turn :
         /\ work' = [work EXCEPT !.added = @ \ {p},
                                 !.modified = IF p \in work.added THEN @ ELSE @ \ {p}]
         /\ failed' = (failed \/ disk[p] = None)
         /\ Send(IF disk[p] = None THEN Delete(p, "sync") ELSE WriteRow(p, disk[p], "sync"))
    /\ stale' = stale

Done ==
    /\ Ready("upsert") /\ Turn = {}
    /\ Finish(IF failed THEN "failed" ELSE "complete")
    /\ UNCHANGED <<decision, faults>>

-----------------------------------------------------------------------------
Sync ==
    \/ RenameFile \/ RenamesDone
    \/ DeleteRow \/ DeletesDone
    \/ InvalidateRow \/ Publish \/ FallBack
    \/ IndexOne \/ Done

Next ==
    \/ \E p \in Paths : Edit(p)
    \/ \E p \in Paths, c \in Contents : Save(p, c)
    \/ \E s \in saves : SendSave(s)
    \/ \E forced \in BOOLEAN : StartSync(forced)
    \/ Defer
    \/ Answer \/ AnswerError
    \/ Stop
    \/ Sync

Spec == Init /\ [][Next]_vars

-----------------------------------------------------------------------------
(* Properties. *)

\* The sets that the variables range over.
TypeOK ==
    /\ disk \in [Paths -> Contents \cup {None}]
    /\ row \in [Paths -> Contents \cup {None}]
    /\ calls \in Seq(Call)
    /\ saves \subseteq Paths \X Contents
    /\ decision \in {"none", "awaiting", "paused"}
    /\ phase \in Phases
    /\ force \in BOOLEAN /\ pausing \in BOOLEAN /\ failed \in BOOLEAN /\ stuck \in BOOLEAN
    /\ work \in [renamed : SUBSET Pair, deleted : SUBSET Paths,
                  added : SUBSET Paths, modified : SUBSET Paths]
    /\ stale \subseteq Paths
    /\ outcome \in Outcomes
    /\ others \in [Paths -> {"none", "saved", "edited"}]
    /\ requests \in 0..MaxRequests /\ faults \in 0..MaxFaults

\* A reconcile that reports no failure and no pause has told the truth: at its end
\* every file that nobody else wrote since the diff has a row of its content, and
\* no row is left of one that is gone (sync.ts, "sync does not lie").  Not so after a
\* fallback under a decision that stands: RepublishFails is FALSE here.
CompleteIsCurrent ==
    phase = "idle" /\ outcome = "complete" =>
        \A p \in Paths : others[p] = "none" => row[p] = disk[p]

\* A save that the app made while the reconcile worked on its diff never leaves
\* older text in the index: once its index write is answered, the row is the
\* file's or is missing, whatever the reconcile had read or removed meanwhile.
SavedNeverStale ==
    phase = "idle" /\ outcome \in {"complete", "paused"} =>
        \A p \in Paths :
            others[p] = "saved" /\ ~UnderWay(p) => row[p] \in {None, disk[p]}

\* The decision to pause becomes visible when the rows that the diff found modified
\* are gone: a search in a paused folder finds no text that a file no longer has
\* (sync.ts 111-113).
PausePublishedClean ==
    [][phase = "invalidate" /\ outcome' = "paused" /\ phase' = "idle" =>
        \A p \in Paths : others[p] = "none" /\ disk[p] # None => row[p] \in {None, disk[p]}]_vars

\* The same for the rows of files that are gone (sync.ts 100, "Publish only after
\* every known-stale row has been invalidated").
PublishedOnlyInvalidated ==
    [][phase = "invalidate" /\ outcome' = "paused" /\ phase' = "idle" =>
        \A p \in Paths : others[p] = "none" => row[p] \in {None, disk[p]}]_vars

=============================================================================
