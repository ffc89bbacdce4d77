----------------------------- MODULE Conversion -----------------------------
(***************************************************************************)
(* The life of one convertible source (a PDF, an image, a DOCX or an audio *)
(* file): server/conversion.ts with conversion-status.ts,                  *)
(* conversion-dispatch.ts and the conversion side of sync.ts.  The source  *)
(* is edited by anyone, its derived text is made by an extractor, a        *)
(* durable row records a failure or an explicit cancellation, the index    *)
(* holds the text under the hash of the source, and discovery, reconcile,  *)
(* the user and crashes of the server interfere at any moment.             *)
(*                                                                         *)
(* The scheduler is seen through what it promises for one task (module     *)
(* ConversionScheduler): a queued task starts, a running one keeps its     *)
(* place until its run has ended.  One action is one stretch of JavaScript *)
(* between two I/O events: the run's last segment, the retirement of its   *)
(* task, onSettled and the continuations of the promises that this         *)
(* resolves are microtasks of one another, so they are one step.           *)
(*                                                                         *)
(* A content of the source is its version, a number that every change      *)
(* increments; an mtime is the version at the time it was stamped.         *)
(***************************************************************************)
EXTENDS Naturals

CONSTANTS Format,           \* the format of the source
          SemanticEnabled,  \* an embedding source is configured
          KeptStamps,       \* edits may preserve size and mtime
          MaxVersion,       \* bound on the changes of the source
          MaxRequests,      \* bound on requests that interrupt or repeat work
          MaxCrashes        \* bound on crashes of the server

ASSUME ConversionAssumption ==
    /\ Format \in {"pdf", "image", "docx", "audio"}
    /\ SemanticEnabled \in BOOLEAN
    /\ KeptStamps \in BOOLEAN
    /\ MaxVersion \in Nat \ {0}
    /\ MaxRequests \in Nat
    /\ MaxCrashes \in Nat

VARIABLES
    source,     \* the user's file
    derived,    \* the final derived text in AppData
    row,        \* the durable row of state.db
    inFlight,   \* the in-memory marker of conversion-status.ts
    task,       \* the source's task in the scheduler
    probe,      \* the task's cost classifier
    winding,    \* an aborted classifier is still ending
    reason,     \* why the running task was aborted; the first reason stays
    run,        \* where executeConversion stands
    awaiting,   \* what the user's cancel request still waits for
    indexed,    \* the row of the index: its text, and the hash it is stored under
    scan,       \* what reconcile's diff said of the source, and "removing"
                \* while the index is asked to drop its row
    reindex,    \* indexFreshDerived, while it awaits the index
    orphan,     \* an extractor that survived its server
    gate,       \* history: the version for which a durable row was settled
    requests, crashes

vars == <<source, derived, row, inFlight, task, probe, winding, reason, run,
          awaiting, indexed, scan, reindex, orphan, gate, requests, crashes>>

scheduled == <<task, probe, winding, reason>>
counters == <<requests, crashes>>

-----------------------------------------------------------------------------
Subprocess == Format \in {"pdf", "image"}  \* the extractor writes the text itself
Bound == Format = "audio"       \* the text carries the identity of its source
GateFirst == Format = "audio"   \* cancel records the intent before it waits

Reasons == {"none", "user-request", "source-change", "interrupt"}

NoText == [present |-> FALSE, from |-> 0, at |-> 0]
Text(from) == [present |-> TRUE, from |-> from, at |-> source.version]

IdleRun == [stage |-> "idle", began |-> 0, read |-> 0, hash |-> 0]
NoRow == [text |-> 0, hash |-> 0]
NotReindexing == [busy |-> FALSE, text |-> 0, began |-> 0, hash |-> 0]
NoOrphan == [alive |-> FALSE, read |-> 0]

\* derivedReady: the text is complete, and for audio it carries the identity that
\* the source has now.
Ready(text) == text.present /\ (Bound => text.from = source.version)

\* derivedIsFresh: the text is ready and not older than the source.
Fresh(text) ==
    /\ source.exists
    /\ Ready(text)
    /\ text.at >= source.mtime

\* Variant with a bug (for ServedTextCurrent): the signature is not compared.
SignatureUnchecked == source.exists

\* startedWith against the signature now; 0 is the signature of no file.
SameSignature == run.began # 0 /\ run.began = source.mtime

\* Variant with a bug (for GateHolds): the durable rows are not consulted.
PendingOnly == inFlight

PendingOrFailed == inFlight \/ row # "none"

\* Variant with a bug (for NoStaleMarker and EventuallyPrepared): clearRecord
\* and markDone delete the row and forget the marker.
RecordKeepingMarker(state) ==
    /\ row' = state
    /\ inFlight' = (inFlight /\ state = "none")

\* markFailed, markCancelled, and markDone or clearRecord ("none").
Record(state) ==
    /\ row' = state
    /\ inFlight' = FALSE

\* Variant with a bug (for IndexedTextCurrent): the row is stamped with whatever
\* the source holds when the index writes it.
StoreLateHash(stored, text, hash) ==
    indexed' = IF stored THEN [text |-> text, hash |-> source.version] ELSE indexed

\* The index takes the text under the hash it was handed, or fails.
Store(stored, text, hash) ==
    indexed' = IF stored THEN [text |-> text, hash |-> hash] ELSE indexed

\* The version a durable row stands for once it is settled: from then on only
\* Reprocess may put the source back to work.
Settled(verdict, t) == IF verdict # "none" /\ t = "none" THEN source.version ELSE gate

\* Cleanup and schedule() of runConversion, for a task that does not exist.
Enqueue ==
    /\ task' = "queued"
    /\ probe' = IF Format = "pdf" THEN "waiting" ELSE "done"
    /\ derived' = NoText

\* Variant with a bug (for TypeOK): the dropped task stays in the map.
CancelScopeKeepingTask(why) ==
    /\ task' = IF task = "queued" THEN "cancelled" ELSE task
    /\ reason' = IF task = "running" /\ reason = "none" THEN why ELSE reason
    /\ probe' = "done"
    /\ winding' = (winding \/ probe = "running")

\* Variant with a bug (for UsesPromise): a queued task is marked, and not dropped.
CancelScopeMarking(why) ==
    /\ task' = task
    /\ reason' = IF task # "none" /\ reason = "none" THEN why ELSE reason
    /\ probe' = "done"
    /\ winding' = (winding \/ probe = "running")

\* cancelScope(): a queued task is dropped, a running one aborted, a
\* classifier aborted in both cases.
CancelScope(why) ==
    /\ task' = IF task = "queued" THEN "none" ELSE task
    /\ reason' = IF task = "running" /\ reason = "none" THEN why ELSE reason
    /\ probe' = "done"
    /\ winding' = (winding \/ probe = "running")

Init ==
    /\ source = [exists |-> TRUE, version |-> 1, mtime |-> 1]
    /\ derived = NoText
    /\ row = "none"
    /\ inFlight = FALSE
    /\ task = "none"
    /\ probe = "done"
    /\ winding = FALSE
    /\ reason = "none"
    /\ run = IdleRun
    /\ awaiting = {}
    /\ indexed = NoRow
    /\ scan = "idle"
    /\ reindex = NotReindexing
    /\ orphan = NoOrphan
    /\ gate = 0
    /\ requests = 0
    /\ crashes = 0

-----------------------------------------------------------------------------
(* The source, outside the server's control. *)

NewStamp == {source.version + 1} \cup (IF KeptStamps THEN {source.mtime} ELSE {})

Change(exists) ==
    /\ source.version < MaxVersion
    /\ \E stamp \in NewStamp :
         source' = [exists |-> exists, version |-> source.version + 1, mtime |-> stamp]
    /\ UNCHANGED <<derived, row, inFlight, scheduled, run, awaiting, indexed,
                   scan, reindex, orphan, gate, counters>>

Edit == source.exists /\ Change(TRUE)
Restore == ~source.exists /\ Change(TRUE)

Delete ==
    /\ source.exists
    /\ source' = [source EXCEPT !.exists = FALSE]
    /\ UNCHANGED <<derived, row, inFlight, scheduled, run, awaiting, indexed,
                   scan, reindex, orphan, gate, counters>>

\* deleteLibraryFile, after its barrier; a discovery may have queued the source
\* again since.
DeleteInApp ==
    /\ source.exists
    /\ source' = [source EXCEPT !.exists = FALSE]
    /\ derived' = NoText
    /\ Record("none")
    /\ indexed' = NoRow
    /\ UNCHANGED <<scheduled, run, awaiting, scan, reindex, orphan, gate, counters>>

-----------------------------------------------------------------------------
(* Discovery, and the start of a run. *)

\* discoverSource and maybeConvert.
Discover ==
    /\ source.exists
    /\ ~Fresh(derived)
    /\ ~PendingOrFailed
    /\ task = "none"
    /\ Enqueue
    /\ UNCHANGED <<source, row, inFlight, winding, reason, run, awaiting, indexed,
                   scan, reindex, orphan, gate, counters>>

ProbeStarts ==
    /\ task = "queued" /\ probe = "waiting"
    /\ probe' = "running"
    /\ UNCHANGED <<source, derived, row, inFlight, task, winding, reason, run,
                   awaiting, indexed, scan, reindex, orphan, gate, counters>>

ProbeReports ==
    /\ probe = "running"
    /\ probe' = "done"
    /\ UNCHANGED <<source, derived, row, inFlight, task, winding, reason, run,
                   awaiting, indexed, scan, reindex, orphan, gate, counters>>

\* The scheduler grants the lane: the first segment of executeConversion.
Start ==
    /\ task = "queued"
    /\ task' = "running"
    /\ probe' = "done"
    /\ winding' = (winding \/ probe = "running")
    /\ inFlight' = TRUE
    /\ derived' = NoText
    /\ run' = [stage |-> "extracting", read |-> 0, hash |-> 0,
               began |-> IF source.exists THEN source.mtime ELSE 0]
    /\ UNCHANGED <<source, row, reason, awaiting, indexed, scan, reindex, orphan,
                   gate, counters>>

ReadSource ==
    /\ run.stage = "extracting"
    /\ reason = "none"
    /\ source.exists
    /\ run' = [run EXCEPT !.stage = "read", !.read = source.version]
    /\ UNCHANGED <<source, derived, row, inFlight, scheduled, awaiting, indexed,
                   scan, reindex, orphan, gate, counters>>

ExtractorPublishes ==
    /\ Subprocess
    /\ run.stage = "read"
    /\ derived' = Text(run.read)
    /\ run' = [run EXCEPT !.stage = "written"]
    /\ UNCHANGED <<source, row, inFlight, scheduled, awaiting, indexed, scan,
                   reindex, orphan, gate, counters>>

-----------------------------------------------------------------------------
(* The end of a run.  left is the derived text it leaves, verdict the row. *)

\* The record is rewritten (markDone, markFailed, markCancelled, clearRecord
\* all drop the marker), the task retires, onSettled may queue the source
\* again, and a cancel request that waited only for this records its intent.
Retire(left, verdict, rediscover) ==
    LET again == rediscover /\ source.exists /\ ~Fresh(left)
        acknowledged == awaiting = {"task"}
    IN  /\ run' = IdleRun
        /\ reason' = "none"
        /\ task' = IF again THEN "queued" ELSE "none"
        /\ probe' = IF again /\ Format = "pdf" THEN "waiting" ELSE "done"
        /\ derived' = IF again THEN NoText ELSE left
        /\ awaiting' = awaiting \ {"task"}
        /\ Record(IF acknowledged THEN "cancelled" ELSE verdict)
        /\ gate' = Settled(row', task')
        /\ UNCHANGED <<source, winding, scan, reindex, orphan, counters>>

\* The catch block, for an aborted run.
RetireAborted ==
    Retire(NoText,
           IF reason = "user-request" /\ source.exists THEN "cancelled" ELSE "none",
           reason = "source-change")

\* convert() rejects: it was killed, or it failed before publishing its text.
ConvertFails ==
    /\ \/ run.stage \in {"extracting", "read"}
       \/ run.stage = "written" /\ reason # "none"
    /\ indexed' = indexed
    /\ \/ ~source.exists /\ Retire(NoText, "none", FALSE)
       \/ source.exists /\ reason # "none" /\ RetireAborted
       \/ source.exists /\ reason = "none" /\ ~SameSignature
            /\ Retire(derived, "none", TRUE)
       \/ /\ source.exists /\ reason = "none" /\ SameSignature
          /\ \E verdict \in {"none", "failed"} : Retire(NoText, verdict, FALSE)

\* convert() resolves: the checks that follow, up to the await of the index.
\* The transcription of audio returns only if its source kept its identity.
ConvertReturns ==
    LET text == IF Subprocess THEN derived ELSE Text(run.read)
    IN  /\ run.stage = IF Subprocess THEN "written" ELSE "read"
        /\ Bound => source.exists /\ run.read = source.version
        /\ \/ reason # "none" /\ RetireAborted /\ indexed' = indexed
           \/ reason = "none" /\ ~source.exists
                /\ Retire(NoText, "none", FALSE) /\ indexed' = indexed
           \/ reason = "none" /\ source.exists /\ ~SameSignature
                /\ Retire(NoText, "none", TRUE) /\ indexed' = indexed
           \/ reason = "none" /\ source.exists /\ SameSignature   \* empty or too long
                /\ Retire(NoText, "failed", FALSE) /\ indexed' = indexed
           \/ reason = "none" /\ source.exists /\ SameSignature /\ text.present
                /\ ~SemanticEnabled
                /\ Retire(text, "none", FALSE) /\ indexed' = indexed
           \/ /\ reason = "none" /\ source.exists /\ SameSignature /\ text.present
              /\ SemanticEnabled
              /\ derived' = text
              /\ run' = [run EXCEPT !.stage = "indexing", !.read = text.from,
                           !.hash = IF Bound THEN text.from ELSE 0]
              /\ UNCHANGED <<source, row, inFlight, scheduled, awaiting, indexed,
                             scan, reindex, orphan, gate, counters>>

\* The hook of index.ts hashes the source itself when the text is not bound to
\* one, and gives up if the signature has changed meanwhile.
HashSource ==
    /\ run.stage = "indexing"
    /\ run.hash = 0
    /\ source.exists /\ SameSignature
    /\ run' = [run EXCEPT !.hash = source.version]
    /\ UNCHANGED <<source, derived, row, inFlight, scheduled, awaiting, indexed,
                   scan, reindex, orphan, gate, counters>>

\* The index has answered, well (stored) or not, and the source is checked
\* once more before the run counts as done.
FinishIndexing(stored) ==
    /\ run.stage = "indexing"
    /\ stored => run.hash # 0
    /\ Store(stored, run.read, run.hash)
    /\ \/ reason # "none" /\ RetireAborted
       \/ reason = "none" /\ ~source.exists /\ Retire(NoText, "none", FALSE)
       \/ reason = "none" /\ source.exists /\ SameSignature /\ Ready(derived)
            /\ Retire(derived, "none", FALSE)
       \/ reason = "none" /\ source.exists /\ ~(SameSignature /\ Ready(derived))
            /\ Retire(NoText, "none", TRUE)

-----------------------------------------------------------------------------
(* Requests. *)

Request == requests < MaxRequests /\ requests' = requests + 1 /\ crashes' = crashes

\* A pending source is only promoted, which changes nothing here.
Reprocess ==
    /\ Request
    /\ source.exists
    /\ task = "none"
    /\ Enqueue
    /\ Record("none")
    /\ gate' = 0
    /\ UNCHANGED <<source, winding, reason, run, awaiting, indexed, scan, reindex, orphan>>

\* The cancel route, up to its await.
UserCancel ==
    LET awaited == (IF task = "running" THEN {"task"} ELSE {})
                     \cup (IF winding \/ probe = "running" THEN {"probes"} ELSE {})
        stopsNow == awaited = {} \/ (GateFirst /\ ~Fresh(derived))
    IN  /\ Request
        /\ source.exists
        /\ awaiting = {}
        /\ task # "none" \/ awaited # {} \/ (GateFirst /\ ~Fresh(derived))
        /\ CancelScope("user-request")
        /\ awaiting' = awaited
        /\ IF stopsNow THEN Record("cancelled") ELSE UNCHANGED <<row, inFlight>>
        /\ gate' = IF awaited = {} THEN Settled("cancelled", task') ELSE gate
        /\ UNCHANGED <<source, derived, run, indexed, scan, reindex, orphan>>

\* The aborted classifiers have ended.
ProbesEnd ==
    LET acknowledged == awaiting = {"probes"}
    IN  /\ winding
        /\ winding' = FALSE
        /\ awaiting' = awaiting \ {"probes"}
        /\ IF acknowledged THEN Record("cancelled") ELSE UNCHANGED <<row, inFlight>>
        /\ gate' = IF acknowledged THEN Settled("cancelled", task) ELSE gate
        /\ UNCHANGED <<source, derived, task, probe, reason, run, indexed, scan,
                       reindex, orphan, counters>>

\* A cancellation that is not the user's: a file operation, a preview, a removed
\* model, a shutdown.
Interrupt ==
    /\ Request
    /\ task # "none"
    /\ CancelScope("interrupt")
    /\ UNCHANGED <<source, derived, row, inFlight, run, awaiting, indexed, scan,
                   reindex, orphan, gate>>

-----------------------------------------------------------------------------
(* Reconcile. *)

\* cleanupRemovedSource and invalidateModifiedConvertedSource do the same.
Invalidate ==
    /\ CancelScope("source-change")
    /\ Record("none")
    /\ derived' = NoText
    /\ UNCHANGED <<source, run, awaiting, indexed, reindex, orphan, gate, counters>>

\* cleanupMissingConvertedSources.
CleanupMissing == ~source.exists /\ Invalidate /\ scan' = scan

\* scan_diff compares the row with the disk: the content, or that it is gone.
ScanDiff ==
    /\ SemanticEnabled
    /\ scan = "idle"
    /\ indexed.hash # 0
    /\ source.exists => indexed.hash # source.version
    /\ scan' = IF source.exists THEN "modified" ELSE "removed"
    /\ UNCHANGED <<source, derived, row, inFlight, scheduled, run, awaiting,
                   indexed, reindex, orphan, gate, counters>>

InvalidateModified == scan = "modified" /\ scan' = "idle" /\ Invalidate

\* The stale rows go one after the other, and by its turn the source may be back.
RemoveStale == scan = "removed" /\ scan' = "removing" /\ Invalidate

\* The index has dropped the row, or failed to.
RowRemoved ==
    /\ scan = "removing"
    /\ scan' = "idle"
    /\ indexed' \in {indexed, NoRow}
    /\ UNCHANGED <<source, derived, row, inFlight, scheduled, run, awaiting,
                   reindex, orphan, gate, counters>>

\* indexFreshDerived, for a source the diff called added or modified.
ReindexBegin ==
    /\ SemanticEnabled
    /\ ~reindex.busy
    /\ indexed.hash # source.version
    /\ ~PendingOrFailed
    /\ task = "none"
    /\ Fresh(derived)
    /\ reindex' = [busy |-> TRUE, text |-> derived.from, began |-> source.mtime,
                   hash |-> IF Bound THEN derived.from ELSE 0]
    /\ UNCHANGED <<source, derived, row, inFlight, scheduled, run, awaiting,
                   indexed, scan, orphan, gate, counters>>

ReindexHash ==
    /\ reindex.busy
    /\ reindex.hash = 0
    /\ source.exists /\ source.mtime = reindex.began
    /\ reindex' = [reindex EXCEPT !.hash = source.version]
    /\ UNCHANGED <<source, derived, row, inFlight, scheduled, run, awaiting,
                   indexed, scan, orphan, gate, counters>>

ReindexEnd(stored) ==
    /\ reindex.busy
    /\ stored => reindex.hash # 0
    /\ reindex' = NotReindexing
    /\ Store(stored, reindex.text, reindex.hash)
    /\ IF stored THEN Record("none") ELSE UNCHANGED <<row, inFlight>>
    /\ UNCHANGED <<source, derived, scheduled, run, awaiting, scan, orphan, gate, counters>>

-----------------------------------------------------------------------------
(* A crash loses the memory of the server.  The extractors of PDFs and images
   run in a process group of their own, and may go on.  The text of the other
   formats is written by the server in the stretch that then compares the
   signature (ConvertReturns): a crash in between leaves a complete text that
   nothing has compared with its source. *)

Crash ==
    /\ crashes < MaxCrashes
    /\ crashes' = crashes + 1
    /\ inFlight' = FALSE
    /\ task' = "none"
    /\ probe' = "done"
    /\ winding' = FALSE
    /\ reason' = "none"
    /\ run' = IdleRun
    /\ awaiting' = {}
    /\ scan' = "idle"
    /\ reindex' = NotReindexing
    /\ \/ UNCHANGED <<derived, orphan>>
       \/ /\ ~Subprocess /\ run.stage = "read"
          /\ derived' = Text(run.read) /\ orphan' = orphan
       \/ /\ Subprocess /\ run.stage = "read" /\ ~orphan.alive
          /\ orphan' = [alive |-> TRUE, read |-> run.read] /\ derived' = derived
    /\ UNCHANGED <<source, row, indexed, gate, requests>>

OrphanPublishes ==
    /\ orphan.alive
    /\ derived' = Text(orphan.read)
    /\ orphan' = NoOrphan
    /\ UNCHANGED <<source, row, inFlight, scheduled, run, awaiting, indexed, scan,
                   reindex, gate, counters>>

-----------------------------------------------------------------------------
Next ==
    \/ Edit \/ Restore \/ Delete \/ DeleteInApp
    \/ Discover \/ ProbeStarts \/ ProbeReports
    \/ Start \/ ReadSource \/ ExtractorPublishes
    \/ ConvertFails \/ ConvertReturns
    \/ \E stored \in BOOLEAN : FinishIndexing(stored)
    \/ Reprocess \/ UserCancel \/ ProbesEnd \/ Interrupt
    \/ CleanupMissing \/ ScanDiff \/ InvalidateModified \/ RemoveStale \/ RowRemoved
    \/ HashSource \/ ReindexBegin \/ ReindexHash
    \/ \E stored \in BOOLEAN : ReindexEnd(stored)
    \/ Crash \/ OrphanPublishes

Spec == Init /\ [][Next]_vars

\* Reconcile comes again and again (focus, idle maintenance, agent turns), the
\* scheduler starts what is queued, an extractor ends, also when it is aborted
\* or orphaned, and does not fail transiently for ever.  A diff that keeps
\* saying "modified" may abort every run (see ReconcilePreservesGates), so with
\* SemanticEnabled this does not carry a source to its text.
Fairness ==
    /\ WF_vars(Discover)
    /\ WF_vars(Start)
    /\ SF_vars(ReadSource)
    /\ SF_vars(ExtractorPublishes)
    /\ SF_vars(ConvertReturns)
    /\ WF_vars(ConvertFails /\ (reason # "none" \/ ~source.exists))
    /\ WF_vars(\E stored \in BOOLEAN : FinishIndexing(stored))
    /\ WF_vars(InvalidateModified)
    /\ WF_vars(ProbesEnd)
    /\ WF_vars(OrphanPublishes)

FairSpec == Spec /\ Fairness

-----------------------------------------------------------------------------
(* Properties. *)

\* The types of the variables.
TypeOK ==
    /\ source \in [exists : BOOLEAN, version : 1..MaxVersion, mtime : 1..MaxVersion]
    /\ derived \in [present : BOOLEAN, from : 0..MaxVersion, at : 0..MaxVersion]
    /\ row \in {"none", "failed", "cancelled"}
    /\ inFlight \in BOOLEAN
    /\ task \in {"none", "queued", "running"}
    /\ probe \in {"waiting", "running", "done"}
    /\ winding \in BOOLEAN
    /\ reason \in Reasons
    /\ run \in [stage : {"idle", "extracting", "read", "written", "indexing"},
                began : 0..MaxVersion, read : 0..MaxVersion, hash : 0..MaxVersion]
    /\ awaiting \in SUBSET {"task", "probes"}
    /\ indexed \in [text : 0..MaxVersion, hash : 0..MaxVersion]
    /\ scan \in {"idle", "modified", "removed", "removing"}
    /\ reindex \in [busy : BOOLEAN, text : 0..MaxVersion, began : 0..MaxVersion,
                    hash : 0..MaxVersion]
    /\ orphan \in [alive : BOOLEAN, read : 0..MaxVersion]
    /\ gate \in 0..MaxVersion
    /\ requests \in 0..MaxRequests
    /\ crashes \in 0..MaxCrashes

\* What retrieval serves as the current text of the source.
Served ==
    /\ Fresh(derived)
    /\ task = "none"
    /\ ~PendingOrFailed

\* The in-memory marker never outlives its run: a marker left behind by one of
\* the many ways out of executeConversion, or by a route that races it, would
\* hide the source from every later discovery.
NoStaleMarker ==
    /\ inFlight => run.stage # "idle"
    /\ run.stage # "idle" <=> task = "running"

\* Text served as current was extracted from the current content, whatever
\* edits, replacements, cancellations and repetitions overlapped the run.
ServedTextCurrent == Served => derived.from = source.version

\* The index never holds old text under the hash of newer bytes, where no later
\* scan would see it.
IndexedTextCurrent == indexed.hash # 0 => indexed.text = indexed.hash

\* A failure or cancellation recorded for the present content, with nothing
\* scheduled, holds the source back until Reprocess.
GateHolds ==
    source.exists /\ gate = source.version => row # "none" /\ task = "none"

\* When a cancel request is answered, nothing is scheduled for the source.
CancelStops ==
    [][awaiting # {} /\ awaiting' = {} /\ row' = "cancelled" => task' = "none"]_vars

\* Reconcile keeps a gate that was recorded for the content it finds.
ReconcilePreservesGates ==
    [][scan = "modified" /\ scan' = "idle" /\ gate = source.version /\ crashes' = crashes
         => row' = row]_vars

\* Once the disturbances end, the source has current text or a durable row that
\* says why not: no lost work, no stuck marker, no endless conversion.
EventuallyPrepared == <>[](source.exists => Fresh(derived) \/ row # "none")

-----------------------------------------------------------------------------
Promised == INSTANCE ScheduledWork WITH
    Keys         <- {"source"},
    Lanes        <- {"lane"},
    LaneOf       <- [k \in {"source"} |-> "lane"],
    LaneCapacity <- [l \in {"lane"} |-> 1],
    Restarts     <- MaxCrashes > 0,
    status       <- [k \in {"source"} |-> CASE task = "none" -> "absent"
                                             [] task = "queued" -> "waiting"
                                             [] task = "running" -> "working"],
    cancelled    <- [k \in {"source"} |-> reason # "none"]

\* What discovery, the routes, reconcile and the runs do to the source's task is
\* what ScheduledWork promises of one key, so that the properties above rest on
\* nothing that the scheduler does not provide.
UsesPromise == Promised!Spec
=============================================================================
