-------------------------- MODULE Conversion_proofs --------------------------
(***************************************************************************)
(* Proofs about Conversion for every format and for any bounds: the type   *)
(* invariant, the in-memory marker that never outlives its run, the        *)
(* agreement of everything that moves the source's task with the contract  *)
(* of the scheduler, the currency of what is served and indexed, and the   *)
(* gates that only Reprocess opens.                                        *)
(***************************************************************************)
EXTENDS Conversion, FiniteSetTheorems, TLAPS

USE ConversionAssumption DEF ConversionAssumption

-----------------------------------------------------------------------------
(* Types. *)

Versions == 0..MaxVersion
TextType == [present : BOOLEAN, from : Versions, at : Versions]
RunType == [stage : {"idle", "extracting", "read", "written", "indexing"},
            began : Versions, read : Versions, hash : Versions]
Verdicts == {"none", "failed", "cancelled"}
Waits == SUBSET {"task", "probes"}
RowType == [text : Versions, hash : Versions]
SourceType == [exists : BOOLEAN, version : 1..MaxVersion, mtime : 1..MaxVersion]
ReindexType == [busy : BOOLEAN, text : Versions, began : Versions, hash : Versions]
OrphanType == [alive : BOOLEAN, read : Versions]

\* TypeOK with its sets named, which keeps the obligations of the provers small.
Typed ==
    /\ source \in SourceType /\ derived \in TextType /\ row \in Verdicts /\ inFlight \in BOOLEAN
    /\ task \in {"none", "queued", "running"} /\ probe \in {"waiting", "running", "done"}
    /\ winding \in BOOLEAN /\ reason \in Reasons /\ run \in RunType /\ awaiting \in Waits
    /\ indexed \in RowType /\ scan \in {"idle", "modified", "removed", "removing"} /\ reindex \in ReindexType
    /\ orphan \in OrphanType /\ gate \in Versions
    /\ requests \in 0..MaxRequests /\ crashes \in 0..MaxCrashes

LEMMA TypedMeansTypeOK == (TypeOK <=> Typed) /\ (TypeOK' <=> Typed')
BY DEF TypeOK, Typed, SourceType, TextType, Verdicts, RunType, Waits, RowType, ReindexType,
       OrphanType, Versions

LEMMA NumberFacts ==
    /\ 0 \in Versions /\ 1 \in 1..MaxVersion
    /\ \A n \in 1..MaxVersion : n \in Versions
    /\ MaxVersion \in Nat
BY DEF Versions

\* Texts, rows of the index and runs that the operators build are well typed.
LEMMA RecordTypes ==
    ASSUME TypeOK
    PROVE  /\ NoText \in TextType /\ derived \in TextType
           /\ \A n \in Versions : Text(n) \in TextType
           /\ IdleRun \in RunType /\ run \in RunType
           /\ source.version \in Versions /\ source.mtime \in Versions
           /\ source.version \in 1..MaxVersion /\ source.mtime \in 1..MaxVersion
           /\ run.began \in Versions /\ run.read \in Versions /\ run.hash \in Versions
           /\ Fresh(derived) \in BOOLEAN
<1>1. source.version \in 1..MaxVersion /\ source.mtime \in 1..MaxVersion
  BY DEF TypeOK
<1>2. source.version \in Versions /\ source.mtime \in Versions
  BY <1>1, NumberFacts
<1>3. NoText \in TextType /\ \A n \in Versions : Text(n) \in TextType
  BY <1>2, NumberFacts DEF NoText, Text, TextType
<1>4. IdleRun \in RunType
  BY NumberFacts DEF IdleRun, RunType
<1>5. derived \in TextType /\ run \in RunType
  BY DEF TypeOK, TextType, RunType, Versions
<1>6. run.began \in Versions /\ run.read \in Versions /\ run.hash \in Versions
  BY <1>5 DEF RunType
<1>7. Fresh(derived) \in BOOLEAN
  BY <1>1, <1>5 DEF Fresh, Ready, TextType
<1> QED
  BY <1>1, <1>2, <1>3, <1>4, <1>5, <1>6, <1>7

\* The three parts of the scheduler's view that cancelScope moves.
LEMMA CancelScopeType ==
    ASSUME TypeOK, NEW why \in Reasons, CancelScope(why)
    PROVE  /\ task' \in {"none", "queued", "running"} /\ probe' = "done"
           /\ winding' \in BOOLEAN /\ reason' \in Reasons
           /\ task' = (IF task = "queued" THEN "none" ELSE task)
           /\ reason' # "none" => reason # "none" \/ task = "running"
BY DEF CancelScope, TypeOK

\* The end of a run, whatever it leaves.
LEMMA RetireType ==
    ASSUME TypeOK, NEW left \in TextType, NEW verdict \in Verdicts, NEW rediscover \in BOOLEAN,
           Retire(left, verdict, rediscover), indexed' \in RowType
    PROVE  TypeOK'
<1>1. run' \in RunType /\ derived' \in TextType
  BY RecordTypes DEF Retire
<1>2. /\ row' \in Verdicts /\ inFlight' = FALSE
      /\ task' \in {"none", "queued", "running"} /\ probe' \in {"waiting", "running", "done"}
      /\ reason' = "none" /\ awaiting' \in Waits
  BY DEF Retire, Record, Verdicts, Waits, TypeOK
<1>3. gate' \in Versions
  <2>1. source.version \in Versions /\ gate \in Versions
    BY RecordTypes DEF TypeOK, Versions
  <2>2. gate' = source.version \/ gate' = gate
    BY DEF Retire, Settled
  <2> QED
    BY <2>1, <2>2
<1>4. UNCHANGED <<source, winding, scan, reindex, orphan, counters>>
  BY DEF Retire
<1>5. "none" \in Reasons /\ FALSE \in BOOLEAN
  BY DEF Reasons
<1> QED
  BY <1>1, <1>2, <1>3, <1>4, <1>5, TypedMeansTypeOK DEF Typed, counters

LEMMA AbortedType ==
    ASSUME TypeOK, RetireAborted, indexed' \in RowType
    PROVE  TypeOK'
<1> DEFINE verdict == IF reason = "user-request" /\ source.exists THEN "cancelled" ELSE "none"
           rediscover == reason = "source-change"
<1>1. verdict \in Verdicts /\ rediscover \in BOOLEAN
  BY DEF Verdicts
<1>2. Retire(NoText, verdict, rediscover)
  BY DEF RetireAborted
<1>3. NoText \in TextType
  BY RecordTypes
<1> HIDE DEF verdict, rediscover
<1> QED
  BY <1>1, <1>2, <1>3, RetireType

LEMMA MoreRequests ==
    ASSUME TypeOK, Request
    PROVE  requests' \in 0..MaxRequests /\ crashes' = crashes
BY DEF TypeOK, Request

LEMMA StoreType ==
    ASSUME TypeOK, NEW stored \in BOOLEAN, NEW text \in Versions, NEW hash \in Versions,
           Store(stored, text, hash)
    PROVE  indexed' \in RowType
BY DEF Store, TypeOK, RowType, Versions

LEMMA TypeStep == TypeOK /\ [Next]_vars => TypeOK'
<1> SUFFICES ASSUME TypeOK, [Next]_vars PROVE TypeOK'
  OBVIOUS
<1> USE DEF Versions
<1>0. indexed \in RowType
  BY DEF TypeOK, RowType
<1>1. ASSUME NEW exists \in BOOLEAN, Change(exists) PROVE TypeOK'
  <2>1. source.version + 1 \in 1..MaxVersion /\ source.mtime \in 1..MaxVersion
    BY <1>1, RecordTypes DEF Change
  <2>2. source' \in [exists : BOOLEAN, version : 1..MaxVersion, mtime : 1..MaxVersion]
    BY <1>1, <2>1 DEF Change, NewStamp
  <2> QED
    BY <1>1, <2>2 DEF TypeOK, Change, scheduled, counters
<1>2. ASSUME Delete PROVE TypeOK'
  <2>1. source' \in SourceType
    <3>1. source \in SourceType /\ source' = [source EXCEPT !.exists = FALSE]
      BY <1>2, TypedMeansTypeOK DEF Delete, Typed
    <3> QED
      BY <3>1 DEF SourceType
  <2> QED
    BY <1>2, <2>1, TypedMeansTypeOK DEF Delete, Typed, scheduled, counters
<1>3. ASSUME DeleteInApp PROVE TypeOK'
  <2>1. derived' \in TextType
    BY <1>3, RecordTypes DEF DeleteInApp
  <2>2. source' \in SourceType
    <3>1. source \in SourceType /\ source' = [source EXCEPT !.exists = FALSE]
      BY <1>3, TypedMeansTypeOK DEF DeleteInApp, Typed
    <3> QED
      BY <3>1 DEF SourceType
  <2>3. row' \in Verdicts /\ inFlight' \in BOOLEAN
    BY <1>3 DEF DeleteInApp, Record, Verdicts
  <2>4. indexed' \in RowType
    BY <1>3, NumberFacts DEF DeleteInApp, NoRow, RowType
  <2>5. UNCHANGED <<scheduled, run, awaiting, scan, reindex, orphan, gate, counters>>
    BY <1>3 DEF DeleteInApp
  <2> QED
    BY <2>1, <2>2, <2>3, <2>4, <2>5, TypedMeansTypeOK DEF Typed, scheduled, counters
<1>4. ASSUME Discover \/ ProbeStarts \/ ProbeReports PROVE TypeOK'
  <2>1. NoText \in TextType
    BY RecordTypes
  <2> QED
    BY <1>4, <2>1 DEF Discover, ProbeStarts, ProbeReports, Enqueue, TypeOK, TextType, counters
<1>5. ASSUME Start PROVE TypeOK'
  <2>1. NoText \in TextType /\ run' \in RunType
    BY <1>5, RecordTypes DEF Start, RunType
  <2> QED
    BY <1>5, <2>1 DEF Start, TypeOK, TextType, RunType, counters
<1>6. ASSUME ReadSource \/ HashSource PROVE TypeOK'
  <2>1. run' \in RunType
    BY <1>6, RecordTypes DEF ReadSource, HashSource, RunType
  <2> QED
    BY <1>6, <2>1 DEF ReadSource, HashSource, TypeOK, RunType, scheduled, counters
<1>7. ASSUME ExtractorPublishes PROVE TypeOK'
  <2>1. run' \in RunType /\ derived' \in TextType
    BY <1>7, RecordTypes DEF ExtractorPublishes, RunType
  <2> QED
    BY <1>7, <2>1 DEF ExtractorPublishes, TypeOK, RunType, TextType, scheduled, counters
<1>8. ASSUME ConvertFails PROVE TypeOK'
  <2>1. indexed' \in RowType /\ derived \in TextType /\ NoText \in TextType
    BY <1>0, <1>8, RecordTypes DEF ConvertFails
  <2>2. \/ RetireAborted
        \/ \E left \in TextType, verdict \in Verdicts, rediscover \in BOOLEAN :
             Retire(left, verdict, rediscover)
    BY <1>8, <2>1 DEF ConvertFails, Verdicts
  <2> QED
    BY <2>1, <2>2, AbortedType, RetireType
<1>9. ASSUME ConvertReturns PROVE TypeOK'
  <2> DEFINE text == IF Subprocess THEN derived ELSE Text(run.read)
  <2>1. text \in TextType /\ NoText \in TextType
    BY RecordTypes
  <2> HIDE DEF text
  <2>2. CASE indexed' = indexed
             /\ (RetireAborted
                 \/ \E left \in TextType, verdict \in Verdicts, rediscover \in BOOLEAN :
                      Retire(left, verdict, rediscover))
    BY <1>0, <2>2, AbortedType, RetireType
  <2>3. CASE /\ derived' = text
             /\ run' = [run EXCEPT !.stage = "indexing", !.read = text.from,
                          !.hash = IF Bound THEN text.from ELSE 0]
             /\ UNCHANGED <<source, row, inFlight, scheduled, awaiting, indexed,
                            scan, reindex, orphan, gate, counters>>
    <3>1. text.from \in Versions
      BY <2>1 DEF TextType
    <3>2. run \in RunType /\ 0 \in Versions
      BY RecordTypes, NumberFacts
    <3>3. (IF Bound THEN text.from ELSE 0) \in Versions
      BY <3>1, <3>2
    <3>4. run' \in RunType
      BY <2>3, <3>1, <3>2, <3>3 DEF RunType
    <3> QED
      BY <2>1, <2>3, <3>4, TypedMeansTypeOK DEF Typed, scheduled, counters
  <2> QED
    BY <1>9, <2>1, <2>2, <2>3 DEF ConvertReturns, Verdicts, text
<1>10. ASSUME NEW stored \in BOOLEAN, FinishIndexing(stored) PROVE TypeOK'
  <2>1. indexed' \in RowType /\ derived \in TextType /\ NoText \in TextType
    BY <1>10, RecordTypes, StoreType DEF FinishIndexing
  <2>2. \/ RetireAborted
        \/ \E left \in TextType, rediscover \in BOOLEAN : Retire(left, "none", rediscover)
    BY <1>10, <2>1 DEF FinishIndexing
  <2> QED
    BY <2>1, <2>2, AbortedType, RetireType DEF Verdicts
<1>11. ASSUME Reprocess PROVE TypeOK'
  <2>1. NoText \in TextType
    BY RecordTypes
  <2>2. row' \in Verdicts /\ inFlight' \in BOOLEAN /\ gate' \in Versions
    BY <1>11, NumberFacts DEF Reprocess, Record, Verdicts
  <2>3. requests' \in 0..MaxRequests /\ crashes' = crashes
    BY <1>11, MoreRequests DEF Reprocess
  <2>4. /\ derived' = NoText /\ task' = "queued" /\ probe' \in {"waiting", "running", "done"}
        /\ UNCHANGED <<source, winding, reason, run, awaiting, indexed, scan, reindex, orphan>>
    BY <1>11 DEF Reprocess, Enqueue
  <2> QED
    BY <2>1, <2>2, <2>3, <2>4, TypedMeansTypeOK DEF Typed
<1>12. ASSUME UserCancel PROVE TypeOK'
  <2>1. CancelScope("user-request") /\ "user-request" \in Reasons
    BY <1>12 DEF UserCancel, Reasons
  <2>2. gate' \in Versions
    BY <1>12, RecordTypes DEF UserCancel, Settled, TypeOK
  <2>3. row' \in Verdicts /\ inFlight' \in BOOLEAN /\ awaiting' \in Waits
    BY <1>12 DEF UserCancel, Record, TypeOK, Verdicts, Waits
  <2>4. requests' \in 0..MaxRequests /\ crashes' = crashes
    BY <1>12, MoreRequests DEF UserCancel
  <2>5. UNCHANGED <<source, derived, run, indexed, scan, reindex, orphan>>
    BY <1>12 DEF UserCancel
  <2>6. probe' \in {"waiting", "running", "done"}
    BY <2>1, CancelScopeType
  <2> QED
    BY <2>1, <2>2, <2>3, <2>4, <2>5, <2>6, CancelScopeType, TypedMeansTypeOK DEF Typed
<1>13. ASSUME ProbesEnd PROVE TypeOK'
  <2>1. gate' \in Versions
    BY <1>13, RecordTypes DEF ProbesEnd, Settled, TypeOK
  <2>2. row' \in Verdicts /\ inFlight' \in BOOLEAN /\ awaiting' \in Waits
    BY <1>13 DEF ProbesEnd, Record, TypeOK, Verdicts, Waits
  <2>3. /\ winding' = FALSE
        /\ UNCHANGED <<source, derived, task, probe, reason, run, indexed, scan, reindex,
                       orphan, counters>>
    BY <1>13 DEF ProbesEnd
  <2> QED
    BY <2>1, <2>2, <2>3, TypedMeansTypeOK DEF Typed, counters
<1>14. ASSUME Interrupt PROVE TypeOK'
  <2>1. CancelScope("interrupt") /\ "interrupt" \in Reasons
    BY <1>14 DEF Interrupt, Reasons
  <2>2. requests' \in 0..MaxRequests /\ crashes' = crashes
    BY <1>14, MoreRequests DEF Interrupt
  <2>3. UNCHANGED <<source, derived, row, inFlight, run, awaiting, indexed, scan, reindex,
                    orphan, gate>>
    BY <1>14 DEF Interrupt
  <2>4. probe' \in {"waiting", "running", "done"}
    BY <2>1, CancelScopeType
  <2> QED
    BY <2>1, <2>2, <2>3, <2>4, CancelScopeType, TypedMeansTypeOK DEF Typed
<1>15. ASSUME CleanupMissing \/ InvalidateModified \/ RemoveStale PROVE TypeOK'
  <2>1. Invalidate /\ scan' \in {scan, "idle", "removing"}
    BY <1>15 DEF CleanupMissing, InvalidateModified, RemoveStale
  <2>2. CancelScope("source-change") /\ "source-change" \in Reasons
    BY <2>1 DEF Invalidate, Reasons
  <2>3. derived' \in TextType
    BY <2>1, RecordTypes DEF Invalidate
  <2> QED
    BY <2>1, <2>2, <2>3, CancelScopeType DEF Invalidate, Record, TypeOK, TextType, counters
<1>16. ASSUME ScanDiff \/ RowRemoved PROVE TypeOK'
  <2>1. indexed' \in RowType
    BY <1>0, <1>16 DEF ScanDiff, RowRemoved, NoRow, RowType, TypeOK
  <2> QED
    BY <1>16, <2>1 DEF ScanDiff, RowRemoved, TypeOK, RowType, scheduled, counters
<1>17. ASSUME ReindexBegin \/ ReindexHash PROVE TypeOK'
  <2>1. derived.from \in Versions
    BY RecordTypes DEF TextType
  <2>2. CASE ReindexBegin
    <3>1. /\ 0 \in Versions /\ source.mtime \in Versions
          /\ (IF Bound THEN derived.from ELSE 0) \in Versions
      BY <2>1, RecordTypes, NumberFacts
    <3>2. reindex' \in ReindexType
      BY <2>1, <2>2, <3>1 DEF ReindexBegin, ReindexType
    <3> QED
      BY <2>2, <3>2, TypedMeansTypeOK DEF ReindexBegin, Typed, scheduled, counters
  <2>3. CASE ReindexHash
    <3>1. reindex \in ReindexType /\ source.version \in Versions
      BY RecordTypes, TypedMeansTypeOK DEF Typed
    <3>2. reindex' \in ReindexType
      BY <2>3, <3>1 DEF ReindexHash, ReindexType
    <3> QED
      BY <2>3, <3>2, TypedMeansTypeOK DEF ReindexHash, Typed, scheduled, counters
  <2> QED
    BY <1>17, <2>2, <2>3
<1>18. ASSUME NEW stored \in BOOLEAN, ReindexEnd(stored) PROVE TypeOK'
  <2>1. reindex.text \in Versions /\ reindex.hash \in Versions
    BY DEF TypeOK
  <2>2. indexed' \in RowType
    BY <1>18, <2>1, StoreType DEF ReindexEnd
  <2>3. row' \in Verdicts /\ inFlight' \in BOOLEAN
    BY <1>18 DEF ReindexEnd, Record, TypeOK, Verdicts
  <2>4. reindex' \in ReindexType
    BY <1>18, NumberFacts DEF ReindexEnd, NotReindexing, ReindexType
  <2>5. UNCHANGED <<source, derived, scheduled, run, awaiting, scan, orphan, gate, counters>>
    BY <1>18 DEF ReindexEnd
  <2> QED
    BY <2>2, <2>3, <2>4, <2>5, TypedMeansTypeOK DEF Typed, scheduled, counters
<1>19. ASSUME Crash PROVE TypeOK'
  <2>1. run' \in RunType
    BY <1>19, RecordTypes DEF Crash
  <2>2. orphan' \in OrphanType
    <3>1. orphan \in OrphanType /\ run.read \in Versions
      BY RecordTypes, TypedMeansTypeOK DEF Typed
    <3>2. orphan' = orphan \/ orphan' = [alive |-> TRUE, read |-> run.read]
      BY <1>19 DEF Crash
    <3>3. [alive |-> TRUE, read |-> run.read] \in OrphanType
      BY <3>1 DEF OrphanType
    <3> QED
      BY <3>1, <3>2, <3>3
  <2>3. reindex' \in ReindexType
    BY <1>19, NumberFacts DEF Crash, NotReindexing, ReindexType
  <2>4. crashes' \in 0..MaxCrashes
    BY <1>19 DEF Crash, TypeOK
  <2>5. derived' \in TextType
    <3>1. derived' = derived \/ derived' = Text(run.read)
      BY <1>19 DEF Crash
    <3> QED
      BY <3>1, RecordTypes
  <2>6. /\ UNCHANGED <<source, row, indexed, gate, requests>>
        /\ inFlight' = FALSE /\ task' = "none" /\ probe' = "done" /\ winding' = FALSE
        /\ reason' = "none" /\ awaiting' = {} /\ scan' = "idle"
    BY <1>19 DEF Crash
  <2>7. "none" \in Reasons /\ {} \in Waits
    BY DEF Reasons, Waits
  <2> QED
    BY <2>1, <2>2, <2>3, <2>4, <2>5, <2>6, <2>7, TypedMeansTypeOK DEF Typed
<1>20. ASSUME OrphanPublishes PROVE TypeOK'
  <2>1. orphan.read \in Versions
    BY DEF TypeOK
  <2>2. derived' \in TextType
    BY <1>20, <2>1, RecordTypes DEF OrphanPublishes
  <2> QED
    BY <1>20, <2>2 DEF OrphanPublishes, NoOrphan, TypeOK, TextType, scheduled, counters
<1>21. CASE UNCHANGED vars
  BY <1>21 DEF vars, TypeOK
<1> QED
  BY <1>1, <1>2, <1>3, <1>4, <1>5, <1>6, <1>7, <1>8, <1>9, <1>10, <1>11, <1>12, <1>13,
     <1>14, <1>15, <1>16, <1>17, <1>18, <1>19, <1>20, <1>21 DEF Next, Edit, Restore

LEMMA TypeInit == Init => TypeOK
<1> SUFFICES ASSUME Init PROVE TypeOK
  OBVIOUS
<1>1. source \in SourceType
  BY NumberFacts DEF Init, SourceType
<1>2. derived \in TextType /\ run \in RunType /\ indexed \in RowType
  BY NumberFacts
  DEF Init, NoText, TextType, IdleRun, RunType, NoRow, RowType
<1>3. reindex \in ReindexType /\ orphan \in OrphanType
  BY NumberFacts DEF Init, NotReindexing, ReindexType, NoOrphan, OrphanType
<1>4. /\ requests \in 0..MaxRequests /\ crashes \in 0..MaxCrashes /\ gate \in Versions
      /\ reason \in Reasons /\ awaiting \in Waits /\ row \in Verdicts
  BY NumberFacts DEF Init, Reasons, Waits, Verdicts
<1> QED
  BY <1>1, <1>2, <1>3, <1>4, TypedMeansTypeOK DEF Init, Typed

\* Every variable of the life of a source keeps its type, for every format and
\* any number of changes, requests and crashes.
THEOREM TypeCorrect == Spec => []TypeOK
BY TypeInit, TypeStep, PTL DEF Spec

-----------------------------------------------------------------------------
(* The marker.  NoStaleMarker is inductive together with the fact that only  *)
(* a running task is being aborted: a reason left behind by an earlier run   *)
(* would abort the next one.                                                 *)

ReasonOfRun == reason # "none" => task = "running"

Tracked == NoStaleMarker /\ ReasonOfRun

\* What a run's last segment does to the four variables of Tracked.
LEMMA RetireTracked ==
    ASSUME NEW left, NEW verdict, NEW rediscover, Retire(left, verdict, rediscover)
    PROVE  /\ Tracked'
           /\ task' \in {"none", "queued"} /\ reason' = "none"
BY DEF Retire, Record, IdleRun, Tracked, NoStaleMarker, ReasonOfRun

\* A run ends in one way, from wherever it stands.
LEMMA EndRetires ==
    ASSUME TypeOK, Tracked,
           \/ ConvertFails
           \/ ConvertReturns /\ ~(run'.stage = "indexing")
           \/ \E stored \in BOOLEAN : FinishIndexing(stored)
    PROVE  /\ task = "running"
           /\ \E left, verdict, rediscover : Retire(left, verdict, rediscover)
<1>1. task = "running"
  BY DEF Tracked, NoStaleMarker, ConvertFails, ConvertReturns, FinishIndexing
<1>2. ASSUME RetireAborted PROVE \E left, verdict, rediscover : Retire(left, verdict, rediscover)
  BY <1>2 DEF RetireAborted
<1>3. run \in RunType
  BY RecordTypes
<1>4. CASE ConvertFails
  BY <1>1, <1>2, <1>4 DEF ConvertFails
<1>5. CASE ConvertReturns /\ ~(run'.stage = "indexing")
  BY <1>1, <1>2, <1>3, <1>5 DEF ConvertReturns, RunType
<1>6. CASE \E stored \in BOOLEAN : FinishIndexing(stored)
  BY <1>1, <1>2, <1>6 DEF FinishIndexing
<1> QED
  BY <1>4, <1>5, <1>6

LEMMA EndOfRun ==
    ASSUME TypeOK, Tracked,
           \/ ConvertFails
           \/ ConvertReturns /\ ~(run'.stage = "indexing")
           \/ \E stored \in BOOLEAN : FinishIndexing(stored)
    PROVE  /\ Tracked' /\ task = "running"
           /\ task' \in {"none", "queued"} /\ reason' = "none"
BY EndRetires, RetireTracked

\* The one way on: the text goes to the index.
LEMMA ReturnsToIndex ==
    ASSUME ConvertReturns, run'.stage = "indexing"
    PROVE  UNCHANGED <<inFlight, scheduled>> /\ run.stage # "idle" /\ SemanticEnabled
<1>1. ASSUME NEW left, NEW verdict, NEW rediscover, Retire(left, verdict, rediscover)
      PROVE  FALSE
  BY <1>1 DEF Retire, IdleRun
<1>2. ~RetireAborted
  BY <1>1 DEF RetireAborted
<1> QED
  BY <1>1, <1>2 DEF ConvertReturns

\* The steps that move neither the task nor the reason nor what the run is at.
Quiet ==
    /\ UNCHANGED <<task, reason>>
    /\ inFlight' => inFlight
    /\ run'.stage # "idle" <=> run.stage # "idle"

LEMMA QuietTracked == Tracked /\ Quiet => Tracked'
BY DEF Tracked, NoStaleMarker, ReasonOfRun, Quiet

\* cancelScope, by a route or by reconcile: the run goes on until it ends.
Aborts == Reasons \ {"none"}
Cancels(why) == CancelScope(why) /\ run' = run /\ (inFlight' => inFlight)

LEMMA CancelTracked ==
    ASSUME TypeOK, Tracked, NEW why \in Aborts, Cancels(why)
    PROVE  Tracked'
BY DEF Tracked, NoStaleMarker, ReasonOfRun, Cancels, CancelScope, TypeOK

\* Every step of Next, by what it does to the task.
Queues == task = "none" /\ task' = "queued" /\ UNCHANGED <<run, reason>> /\ (inFlight' => inFlight)

Starts == task = "queued" /\ task' = "running" /\ reason' = reason /\ run'.stage # "idle"

Ends ==
    /\ Tracked' /\ task = "running"
    /\ task' \in {"none", "queued"} /\ reason' = "none"

Crashes ==
    /\ MaxCrashes > 0
    /\ task' = "none" /\ reason' = "none" /\ ~inFlight' /\ run'.stage = "idle"

LEMMA StepKinds ==
    ASSUME TypeOK, Tracked, [Next]_vars
    PROVE  Quiet \/ Queues \/ Starts \/ Ends \/ Crashes \/ (\E why \in Aborts : Cancels(why))
<1>r. run \in RunType
  BY RecordTypes
<1>1. CASE Edit \/ Restore \/ Delete \/ DeleteInApp
  BY <1>1 DEF Edit, Restore, Change, Delete, DeleteInApp, Record, scheduled, Quiet
<1>2. CASE Discover \/ Reprocess
  BY <1>2 DEF Discover, Reprocess, Enqueue, Record, Queues
<1>3. CASE ProbeStarts \/ ProbeReports
  BY <1>3 DEF ProbeStarts, ProbeReports, Quiet
<1>4. CASE Start
  BY <1>4 DEF Start, Starts
<1>5. CASE ReadSource \/ ExtractorPublishes \/ HashSource
  BY <1>5, <1>r DEF ReadSource, ExtractorPublishes, HashSource, RunType, scheduled, Quiet
<1>6. CASE \/ ConvertFails
           \/ ConvertReturns /\ ~(run'.stage = "indexing")
           \/ \E stored \in BOOLEAN : FinishIndexing(stored)
  BY <1>6, EndOfRun DEF Ends
<1>7. CASE ConvertReturns /\ run'.stage = "indexing"
  BY <1>7, ReturnsToIndex DEF scheduled, Quiet
<1>8. CASE UserCancel
  <2>1. Cancels("user-request") /\ "user-request" \in Aborts
    BY <1>8 DEF UserCancel, Record, Cancels, Aborts, Reasons
  <2> QED
    BY <2>1
<1>9. CASE ProbesEnd
  BY <1>9 DEF ProbesEnd, Record, Quiet
<1>10. CASE Interrupt
  <2>1. Cancels("interrupt") /\ "interrupt" \in Aborts
    BY <1>10 DEF Interrupt, Cancels, Aborts, Reasons
  <2> QED
    BY <2>1
<1>11. CASE CleanupMissing \/ InvalidateModified \/ RemoveStale
  <2>1. Cancels("source-change") /\ "source-change" \in Aborts
    BY <1>11 DEF CleanupMissing, InvalidateModified, RemoveStale, Invalidate, Record, Cancels,
                 Aborts, Reasons
  <2> QED
    BY <2>1
<1>12. CASE ScanDiff \/ RowRemoved \/ ReindexBegin \/ ReindexHash \/ OrphanPublishes
  BY <1>12 DEF ScanDiff, RowRemoved, ReindexBegin, ReindexHash, OrphanPublishes, scheduled, Quiet
<1>13. CASE \E stored \in BOOLEAN : ReindexEnd(stored)
  BY <1>13 DEF ReindexEnd, Record, scheduled, Quiet
<1>14. CASE Crash
  BY <1>14 DEF Crash, IdleRun, Crashes, TypeOK
<1>15. CASE UNCHANGED vars
  BY <1>15 DEF vars, Quiet
<1> QED
  BY <1>1, <1>2, <1>3, <1>4, <1>5, <1>6, <1>7, <1>8, <1>9, <1>10, <1>11, <1>12, <1>13,
     <1>14, <1>15 DEF Next

LEMMA TrackedStep == TypeOK /\ Tracked /\ [Next]_vars => Tracked'
<1> SUFFICES ASSUME TypeOK, Tracked, [Next]_vars PROVE Tracked'
  OBVIOUS
<1>1. CASE Queues \/ Starts \/ Crashes
  BY <1>1 DEF Queues, Starts, Crashes, Tracked, NoStaleMarker, ReasonOfRun
<1>2. CASE Ends
  BY <1>2 DEF Ends
<1> QED
  BY <1>1, <1>2, StepKinds, QuietTracked, CancelTracked

LEMMA TrackedInit == Init => Tracked
BY DEF Init, IdleRun, Tracked, NoStaleMarker, ReasonOfRun

\* No way out of executeConversion, no route that races it and no crash leaves a
\* marker without its run, or a running task without its run.
THEOREM MarkerNeverStale == Spec => []NoStaleMarker
<1>1. Tracked => NoStaleMarker
  BY DEF Tracked
<1> QED
  BY <1>1, TrackedInit, TrackedStep, TypeCorrect, PTL DEF Spec

-----------------------------------------------------------------------------
(* The contract of the scheduler. *)

LEMMA PromiseInit == Init => Promised!Init
BY DEF Init, Promised!Init

LEMMA PromiseStep ==
    ASSUME TypeOK, Tracked, [Next]_vars
    PROVE  [Promised!Next]_(Promised!vars)
<1>t. task \in {"none", "queued", "running"} /\ (reason # "none" => task = "running")
  BY DEF TypeOK, Tracked, ReasonOfRun
<1>1. CASE Quiet
  BY <1>1 DEF Quiet, Promised!vars
<1>2. CASE Queues
  <2>1. Promised!Request("source")
    BY <1>2 DEF Queues, Promised!Request
  <2> QED
    BY <2>1 DEF Promised!Next
<1>3. CASE Starts
  <2>1. Promised!Working("lane")' \in SUBSET {"source"}
    BY DEF Promised!Working
  <2>2. Cardinality(Promised!Working("lane")') <= 1
    <3>1. IsFiniteSet({"source"}) /\ Cardinality({"source"}) = 1
      BY FS_Singleton
    <3> QED
      BY <2>1, <3>1, FS_Subset, FS_CardinalityType
  <2>3. Promised!Cardinality(Promised!Working("lane")') <= 1
    BY <2>2 DEF Promised!Cardinality, Cardinality
  <2>4. Promised!Give({"source"})
    BY <1>3, <1>t, <2>3 DEF Starts, Promised!Give
  <2> QED
    BY <2>4 DEF Promised!Next
<1>4. CASE Ends
  <2>1. Promised!End("source")
    BY <1>4 DEF Ends, Promised!End
  <2> QED
    BY <2>1 DEF Promised!Next
<1>5. CASE Crashes
  <2>1. Promised!Restart
    BY <1>5 DEF Crashes, Promised!Restart
  <2> QED
    BY <2>1 DEF Promised!Next
<1>6. ASSUME NEW why \in Aborts, Cancels(why) PROVE Promised!Next
  <2>1. Promised!Cancel({"source"})
    BY <1>6, <1>t DEF Cancels, CancelScope, Promised!Cancel, Aborts, Reasons
  <2> QED
    BY <2>1 DEF Promised!Next
<1> QED
  BY <1>1, <1>2, <1>3, <1>4, <1>5, <1>6, StepKinds

\* Whatever discovery, the routes, reconcile, the runs and crashes do to a
\* source's task is what ScheduledWork promises of one key.
THEOREM PromiseUsed == Spec => UsesPromise
BY PromiseInit, PromiseStep, TrackedInit, TrackedStep, TypeCorrect, PTL
DEF Spec, UsesPromise, Promised!Spec

-----------------------------------------------------------------------------
(* Current text.  What is served, and what the index holds under a hash, is  *)
(* the text of that content.  Audio compares identities.  The other formats  *)
(* compare mtimes, so there an edit must stamp a new mtime, and no crash may  *)
(* fall between the writing of a text and the comparison of signatures: the  *)
(* text it leaves dates from after an edit that it does not contain.         *)

Trusted == Bound \/ (~KeptStamps /\ MaxCrashes = 0)

TimeFollowsContent == ~Bound => source.mtime = source.version

NoSurvivor == ~Bound => ~orphan.alive

\* A text is dated after the content it was extracted from, and only the text
\* of a run that is still to be checked may be older than its date says.
TextDated ==
    ~Bound /\ derived.present =>
        /\ derived.at <= source.version
        /\ run.stage = "written" => derived.from = run.read /\ run.read <= derived.at
        /\ run.stage # "written" => derived.from = derived.at

ReadAfterBegin ==
    /\ ~Bound => run.began <= source.version
    /\ run.stage = "written" => Subprocess
    /\ run.stage \in {"read", "written", "indexing"} =>
         /\ run.read # 0
         /\ ~Bound => run.began <= run.read /\ run.read <= source.version

\* The hash a text will be stored under is the one of its content; when it is
\* still to be taken, the content is the one the signature stands for.
Pinned(text, began, hash) ==
    \/ hash # 0 /\ hash = text
    \/ hash = 0 /\ ~Bound /\ text = began /\ text # 0

HashPinned ==
    /\ run.stage = "indexing" => Pinned(run.read, run.began, run.hash)
    /\ reindex.busy => Pinned(reindex.text, reindex.began, reindex.hash)

Current ==
    /\ TimeFollowsContent /\ NoSurvivor /\ TextDated /\ ReadAfterBegin /\ HashPinned
    /\ IndexedTextCurrent

\* Every variable Current reads.
seen == <<source, derived, run, reindex, orphan, indexed>>

LEMMA CurrentUnchanged == Current /\ UNCHANGED seen => Current'
BY DEF Current, TimeFollowsContent, NoSurvivor, TextDated, ReadAfterBegin, HashPinned, Pinned,
       IndexedTextCurrent, seen

LEMMA CurrentInit == Init => Current
BY DEF Init, NoText, IdleRun, NotReindexing, NoOrphan, NoRow, Current, TimeFollowsContent,
       NoSurvivor, TextDated, ReadAfterBegin, HashPinned, IndexedTextCurrent

\* A text that a run may leave behind.
Settles(left) ==
    ~Bound /\ left.present => left.at <= source.version /\ left.from = left.at

LEMMA NoTextSettles == Settles(NoText)
BY DEF Settles, NoText

LEMMA RetireCurrent ==
    ASSUME TypeOK, Current, NEW left, NEW verdict, NEW rediscover,
           Retire(left, verdict, rediscover), Settles(left), IndexedTextCurrent'
    PROVE  Current'
<1>1. UNCHANGED <<source, reindex, orphan>> /\ run'.stage = "idle" /\ run'.began = 0
  BY DEF Retire, IdleRun
<1>2. derived' = left \/ derived' = NoText
  BY DEF Retire
<1>3. Settles(derived')
  BY <1>2, NoTextSettles
<1>4. TextDated'
  BY <1>1, <1>3 DEF TextDated, Settles
<1>5. source.version \in 1..MaxVersion
  BY RecordTypes
<1>6. ReadAfterBegin'
  BY <1>1, <1>5 DEF ReadAfterBegin
<1> QED
  BY <1>1, <1>4, <1>6 DEF Current, TimeFollowsContent, NoSurvivor, HashPinned, Pinned

LEMMA AbortedCurrent ==
    ASSUME TypeOK, Current, RetireAborted, IndexedTextCurrent'
    PROVE  Current'
<1>1. PICK verdict, rediscover : Retire(NoText, verdict, rediscover)
  BY DEF RetireAborted
<1> QED
  BY <1>1, NoTextSettles, RetireCurrent

LEMMA ServedFromCurrent ==
    ASSUME TypeOK, Tracked, Current, task = "none", Fresh(derived)
    PROVE  derived.from = source.version
<1>1. run.stage # "written"
  BY DEF Tracked, NoStaleMarker
<1>2. source.version \in Nat /\ derived.at \in Nat
  <2>1. source.version \in 1..MaxVersion /\ derived \in TextType
    BY RecordTypes
  <2> QED
    BY <2>1 DEF TextType, Versions
<1>3. CASE ~Bound
  BY <1>1, <1>2, <1>3 DEF Fresh, Ready, Current, TimeFollowsContent, TextDated
<1> QED
  BY <1>3 DEF Fresh, Ready

LEMMA CurrentStep == Trusted /\ TypeOK /\ Tracked /\ Current /\ [Next]_vars => Current'
<1> SUFFICES ASSUME Trusted, TypeOK, Tracked, Current, [Next]_vars PROVE Current'
  OBVIOUS
<1>t. /\ source \in SourceType /\ derived \in TextType /\ run \in RunType
      /\ reindex \in ReindexType /\ orphan \in OrphanType /\ indexed \in RowType
  BY TypedMeansTypeOK DEF Typed
<1>n. /\ source.version \in Nat /\ source.version > 0 /\ source.mtime \in Nat
      /\ derived.at \in Nat /\ derived.from \in Nat
      /\ run.began \in Nat /\ run.read \in Nat /\ run.hash \in Nat
  BY <1>t DEF SourceType, TextType, RunType, Versions
<1> USE DEF Current
<1>1. ASSUME NEW exists \in BOOLEAN, Change(exists) PROVE Current'
  <2>1. /\ source'.version = source.version + 1
        /\ ~KeptStamps => source'.mtime = source'.version
        /\ UNCHANGED <<derived, run, reindex, orphan, indexed>>
    BY <1>1 DEF Change, NewStamp
  <2>2. TimeFollowsContent'
    BY <2>1 DEF TimeFollowsContent, Trusted
  <2>3. TextDated' /\ ReadAfterBegin'
    BY <2>1, <1>n DEF TextDated, ReadAfterBegin
  <2> QED
    BY <2>1, <2>2, <2>3 DEF NoSurvivor, HashPinned, Pinned, IndexedTextCurrent
<1>2. CASE Delete
  <2>1. source'.version = source.version /\ source'.mtime = source.mtime
    BY <1>2, <1>t DEF Delete, SourceType
  <2> QED
    BY <1>2, <2>1 DEF Delete, TimeFollowsContent, NoSurvivor, TextDated, ReadAfterBegin,
                      HashPinned, Pinned, IndexedTextCurrent
<1>3. CASE DeleteInApp
  <2>1. source'.version = source.version /\ source'.mtime = source.mtime
    BY <1>3, <1>t DEF DeleteInApp, SourceType
  <2> QED
    BY <1>3, <2>1 DEF DeleteInApp, NoText, NoRow, TimeFollowsContent, NoSurvivor, TextDated,
                      ReadAfterBegin, HashPinned, Pinned, IndexedTextCurrent
<1>4. ASSUME /\ derived' \in {derived, NoText} /\ indexed' \in {indexed, NoRow}
             /\ UNCHANGED <<source, run, reindex, orphan>>
      PROVE  Current'
  BY <1>4 DEF NoText, NoRow, TimeFollowsContent, NoSurvivor, TextDated, ReadAfterBegin,
              HashPinned, Pinned, IndexedTextCurrent
<1>5. CASE \/ Discover \/ ProbeStarts \/ ProbeReports
           \/ Reprocess \/ UserCancel \/ ProbesEnd \/ Interrupt
           \/ CleanupMissing \/ ScanDiff \/ InvalidateModified \/ RemoveStale \/ RowRemoved
  BY <1>4, <1>5 DEF Discover, ProbeStarts, ProbeReports, Enqueue, Reprocess, UserCancel,
     ProbesEnd, Interrupt, CleanupMissing, ScanDiff, InvalidateModified, RemoveStale,
     RowRemoved, Invalidate
<1>6. CASE Start
  <2>1. /\ run' = [stage |-> "extracting", read |-> 0, hash |-> 0,
                   began |-> IF source.exists THEN source.mtime ELSE 0]
        /\ derived' = NoText
        /\ UNCHANGED <<source, reindex, orphan, indexed>>
    BY <1>6 DEF Start
  <2>2. ReadAfterBegin'
    BY <2>1, <1>n DEF ReadAfterBegin, TimeFollowsContent
  <2> QED
    BY <2>1, <2>2 DEF NoText, TimeFollowsContent, NoSurvivor, TextDated, HashPinned, Pinned,
                      IndexedTextCurrent
<1>7. CASE ReadSource
  <2>1. /\ run.stage = "extracting"
        /\ run'.stage = "read" /\ run'.read = source.version /\ run'.began = run.began
        /\ UNCHANGED <<source, derived, reindex, orphan, indexed>>
    BY <1>7, <1>t DEF ReadSource, RunType
  <2>2. ReadAfterBegin'
    BY <2>1, <1>n DEF ReadAfterBegin
  <2> QED
    BY <2>1, <2>2 DEF TimeFollowsContent, NoSurvivor, TextDated, HashPinned, Pinned,
                      IndexedTextCurrent
<1>8. CASE ExtractorPublishes
  <2>1. /\ run.stage = "read" /\ run'.stage = "written"
        /\ run'.read = run.read /\ run'.began = run.began
        /\ Subprocess /\ derived' = Text(run.read)
        /\ UNCHANGED <<source, reindex, orphan, indexed>>
    BY <1>8, <1>t DEF ExtractorPublishes, RunType
  <2>2. ReadAfterBegin'
    BY <2>1, <1>n DEF ReadAfterBegin
  <2>3. TextDated'
    BY <2>1, <1>n DEF ReadAfterBegin, TextDated, Text
  <2> QED
    BY <2>1, <2>2, <2>3 DEF TimeFollowsContent, NoSurvivor, HashPinned, Pinned,
                            IndexedTextCurrent
<1>k. ASSUME run.stage # "written" PROVE Settles(derived)
  BY <1>k DEF Settles, TextDated
<1>a. ASSUME indexed' = indexed,
             \/ RetireAborted
             \/ \E left, verdict, rediscover :
                  Settles(left) /\ Retire(left, verdict, rediscover)
      PROVE  Current'
  <2>1. IndexedTextCurrent'
    BY <1>a DEF IndexedTextCurrent
  <2> QED
    BY <1>a, <2>1, AbortedCurrent, RetireCurrent
<1>9. CASE ConvertFails
  <2>1. CASE run.stage \in {"extracting", "read"}
    <3>1. Settles(derived) /\ Settles(NoText)
      BY <2>1, <1>k, NoTextSettles
    <3> QED
      BY <1>9, <1>a, <3>1 DEF ConvertFails
  <2>2. CASE run.stage = "written" /\ reason # "none"
    BY <1>9, <1>a, <2>2, NoTextSettles DEF ConvertFails
  <2> QED
    BY <1>9, <2>1, <2>2 DEF ConvertFails
<1>s. ASSUME ~Bound, SameSignature
      PROVE  run.began = source.version /\ run.began # 0
  BY <1>s DEF SameSignature, TimeFollowsContent
<1>10. CASE ConvertReturns
  <2> DEFINE text == IF Subprocess THEN derived ELSE Text(run.read)
  <2>1. run.stage = (IF Subprocess THEN "written" ELSE "read")
    BY <1>10 DEF ConvertReturns
  \* The text of an unchanged source is the text of its content.
  <2>2. ASSUME text.present, SameSignature
        PROVE  /\ ~Bound => text.from = run.began /\ text.at = source.version
               /\ text.from # 0
    <3>1. run.read # 0 /\ (~Bound => run.began <= run.read /\ run.read <= source.version)
      BY <2>1 DEF ReadAfterBegin
    <3>2. CASE Subprocess
      <4>1. ~Bound
        BY <3>2 DEF Subprocess, Bound
      <4>2. /\ derived.from = run.read /\ run.read <= derived.at
            /\ derived.at <= source.version
        BY <2>1, <2>2, <3>2, <4>1 DEF TextDated
      <4>3. run.began = source.version
        BY <2>2, <4>1, <1>s
      <4> QED
        BY <3>1, <3>2, <4>1, <4>2, <4>3, <1>n
    <3>3. CASE ~Subprocess
      <4>1. text.from = run.read /\ text.at = source.version
        BY <3>3 DEF Text
      <4> QED
        BY <2>2, <3>1, <4>1, <1>s, <1>n
    <3> QED
      BY <3>2, <3>3
  <2> HIDE DEF text
  <2>3. ASSUME text.present, SameSignature PROVE Settles(text)
    BY <2>2, <2>3, <1>s, <1>n DEF Settles
  <2>4. CASE /\ indexed' = indexed
             /\ \/ RetireAborted
                \/ \E left, verdict, rediscover :
                     Settles(left) /\ Retire(left, verdict, rediscover)
    BY <1>a, <2>4
  <2>5. CASE /\ SameSignature /\ text.present
             /\ derived' = text
             /\ run' = [run EXCEPT !.stage = "indexing", !.read = text.from,
                          !.hash = IF Bound THEN text.from ELSE 0]
             /\ UNCHANGED <<source, reindex, orphan, indexed>>
    <3>1. /\ run'.stage = "indexing" /\ run'.read = text.from /\ run'.began = run.began
          /\ run'.hash = IF Bound THEN text.from ELSE 0
      BY <2>5, <1>t DEF RunType
    <3>2. ReadAfterBegin'
      BY <2>2, <2>5, <3>1, <1>n, <1>s DEF ReadAfterBegin
    <3>3. TextDated'
      BY <2>2, <2>5, <3>1, <1>n, <1>s DEF TextDated
    <3>4. HashPinned'
      BY <2>2, <2>5, <3>1 DEF HashPinned, Pinned
    <3> QED
      BY <2>5, <3>2, <3>3, <3>4 DEF TimeFollowsContent, NoSurvivor, IndexedTextCurrent
  <2> QED
    BY <1>10, <2>3, <2>4, <2>5, NoTextSettles DEF ConvertReturns, text
<1>11. CASE HashSource
  <2>1. /\ run.stage = "indexing" /\ run.hash = 0 /\ SameSignature
        /\ run'.stage = "indexing" /\ run'.read = run.read /\ run'.began = run.began
        /\ run'.hash = source.version
        /\ UNCHANGED <<source, derived, reindex, orphan, indexed>>
    BY <1>11, <1>t DEF HashSource, RunType
  <2>2. ~Bound /\ run.read = run.began
    BY <2>1 DEF HashPinned, Pinned
  <2>3. HashPinned'
    BY <2>1, <2>2, <1>s, <1>n DEF HashPinned, Pinned
  <2> QED
    BY <2>1, <2>3 DEF TimeFollowsContent, NoSurvivor, TextDated, ReadAfterBegin,
                      IndexedTextCurrent
<1>12. ASSUME NEW stored \in BOOLEAN, FinishIndexing(stored) PROVE Current'
  <2>1. run.stage = "indexing" /\ (stored => run.hash # 0) /\ Store(stored, run.read, run.hash)
    BY <1>12 DEF FinishIndexing
  <2>2. IndexedTextCurrent'
    BY <2>1 DEF Store, HashPinned, Pinned, IndexedTextCurrent
  <2>3. Settles(derived) /\ Settles(NoText)
    BY <2>1, <1>k, NoTextSettles
  <2>4. CASE RetireAborted
    BY <2>2, <2>4, AbortedCurrent
  <2>5. ASSUME NEW left \in {derived, NoText}, NEW rediscover, Retire(left, "none", rediscover)
        PROVE  Current'
    BY <2>2, <2>3, <2>5, RetireCurrent
  <2> QED
    BY <1>12, <2>4, <2>5 DEF FinishIndexing
<1>13. CASE ReindexBegin
  <2>1. /\ task = "none" /\ Fresh(derived)
        /\ reindex' = [busy |-> TRUE, text |-> derived.from, began |-> source.mtime,
                       hash |-> IF Bound THEN derived.from ELSE 0]
        /\ UNCHANGED <<source, derived, run, orphan, indexed>>
    BY <1>13 DEF ReindexBegin
  <2>2. derived.from = source.version
    BY <2>1, ServedFromCurrent
  <2>3. HashPinned'
    BY <2>1, <2>2, <1>n DEF HashPinned, Pinned, TimeFollowsContent
  <2> QED
    BY <2>1, <2>3 DEF TimeFollowsContent, NoSurvivor, TextDated, ReadAfterBegin,
                      IndexedTextCurrent
<1>14. CASE ReindexHash
  <2>1. /\ reindex.busy /\ reindex.hash = 0 /\ source.mtime = reindex.began
        /\ reindex'.text = reindex.text /\ reindex'.hash = source.version
        /\ UNCHANGED <<source, derived, run, orphan, indexed>>
    BY <1>14, <1>t DEF ReindexHash, ReindexType
  <2>2. HashPinned'
    BY <2>1, <1>n DEF HashPinned, Pinned, TimeFollowsContent
  <2> QED
    BY <2>1, <2>2 DEF TimeFollowsContent, NoSurvivor, TextDated, ReadAfterBegin,
                      IndexedTextCurrent
<1>15. ASSUME NEW stored \in BOOLEAN, ReindexEnd(stored) PROVE Current'
  <2>1. /\ reindex.busy /\ (stored => reindex.hash # 0)
        /\ Store(stored, reindex.text, reindex.hash)
        /\ ~reindex'.busy
        /\ UNCHANGED <<source, derived, run, orphan>>
    BY <1>15 DEF ReindexEnd, NotReindexing
  <2>2. IndexedTextCurrent'
    BY <2>1 DEF Store, HashPinned, Pinned, IndexedTextCurrent
  <2> QED
    BY <2>1, <2>2 DEF TimeFollowsContent, NoSurvivor, TextDated, ReadAfterBegin, HashPinned,
                      Pinned
<1>16. CASE Crash
  <2>1. /\ run'.stage = "idle" /\ run'.began = 0 /\ ~reindex'.busy
        /\ MaxCrashes # 0
        /\ UNCHANGED <<source, indexed>>
    BY <1>16 DEF Crash, IdleRun, NotReindexing, TypeOK
  <2>2. Bound
    BY <2>1 DEF Trusted
  <2> QED
    BY <2>1, <2>2, <1>n DEF TimeFollowsContent, NoSurvivor, TextDated, ReadAfterBegin,
                            HashPinned, Pinned, IndexedTextCurrent
<1>17. CASE OrphanPublishes
  <2>1. /\ orphan.alive /\ orphan' = NoOrphan
        /\ UNCHANGED <<source, run, reindex, indexed>>
    BY <1>17 DEF OrphanPublishes
  <2> QED
    BY <2>1 DEF TimeFollowsContent, NoSurvivor, NoOrphan, TextDated, ReadAfterBegin,
                HashPinned, Pinned, IndexedTextCurrent
<1>18. CASE UNCHANGED vars
  BY <1>18, CurrentUnchanged DEF vars, seen
<1> QED
  BY <1>1, <1>2, <1>3, <1>5, <1>6, <1>7, <1>8, <1>9, <1>10, <1>11, <1>12, <1>13, <1>14,
     <1>15, <1>16, <1>17, <1>18 DEF Next, Edit, Restore

\* The index never holds old text under the hash of newer bytes.
THEOREM IndexCurrent == ASSUME Trusted PROVE Spec => []IndexedTextCurrent
<1>1. Current => IndexedTextCurrent
  BY DEF Current
<1>2. TypeOK /\ Tracked /\ Current /\ [Next]_vars => Current'
  BY CurrentStep
<1> QED
  BY <1>1, <1>2, CurrentInit, TrackedInit, TrackedStep, TypeCorrect, PTL DEF Spec

\* Text that retrieval serves as current was extracted from the current content.
THEOREM ServedCurrent == ASSUME Trusted PROVE Spec => []ServedTextCurrent
<1>1. TypeOK /\ Tracked /\ Current => ServedTextCurrent
  BY ServedFromCurrent DEF ServedTextCurrent, Served
<1>2. TypeOK /\ Tracked /\ Current /\ [Next]_vars => Current'
  BY CurrentStep
<1> QED
  BY <1>1, <1>2, CurrentInit, TrackedInit, TrackedStep, TypeCorrect, PTL DEF Spec

-----------------------------------------------------------------------------
(* Gates.  Reconcile may clear a gate only through a row of the index        *)
(* (InvalidateModified, ReindexEnd), so without an index it never does.      *)

Gated ==
    /\ GateHolds
    /\ gate <= source.version
    /\ scan = "idle" /\ ~reindex.busy

LEMMA GatedInit == Init => Gated
BY DEF Init, NotReindexing, Gated, GateHolds

LEMMA RetireGated ==
    ASSUME TypeOK, Gated, task = "running", NEW left, NEW verdict, NEW rediscover,
           Retire(left, verdict, rediscover)
    PROVE  Gated'
<1>1. /\ UNCHANGED <<source, scan, reindex>>
      /\ gate' = (IF row' # "none" /\ task' = "none" THEN source.version ELSE gate)
  BY DEF Retire, Settled
<1>2. source.version \in Nat
  BY RecordTypes DEF Versions
<1> QED
  BY <1>1, <1>2 DEF Gated, GateHolds

LEMMA GatedStep == ~SemanticEnabled /\ TypeOK /\ Tracked /\ Gated /\ [Next]_vars => Gated'
<1> SUFFICES ASSUME ~SemanticEnabled, TypeOK, Tracked, Gated, [Next]_vars PROVE Gated'
  OBVIOUS
<1>n. source \in SourceType /\ source.version \in Nat /\ source.version > 0 /\ gate \in Nat
  <2>1. source.version \in 1..MaxVersion /\ gate \in Versions /\ source \in SourceType
    BY RecordTypes, TypedMeansTypeOK DEF Typed
  <2> QED
    BY <2>1 DEF Versions
<1>1. ASSUME NEW exists \in BOOLEAN, Change(exists) PROVE Gated'
  <2>1. source'.version = source.version + 1 /\ UNCHANGED <<row, task, gate, scan, reindex>>
    BY <1>1 DEF Change, scheduled
  <2> QED
    BY <2>1, <1>n DEF Gated, GateHolds
<1>2. CASE Delete \/ DeleteInApp
  <2>1. /\ ~source'.exists /\ source'.version = source.version
        /\ UNCHANGED <<gate, scan, reindex>>
    BY <1>2, <1>n DEF Delete, DeleteInApp, SourceType
  <2> QED
    BY <2>1 DEF Gated, GateHolds
<1>3. CASE Discover
  BY <1>3 DEF Discover, PendingOrFailed, Gated, GateHolds
<1>4. CASE Start
  BY <1>4 DEF Start, Gated, GateHolds
<1>5. CASE \/ ConvertFails
           \/ ConvertReturns /\ ~(run'.stage = "indexing")
           \/ \E stored \in BOOLEAN : FinishIndexing(stored)
  BY <1>5, EndRetires, RetireGated
<1>6. CASE Reprocess
  BY <1>6, <1>n DEF Reprocess, Gated, GateHolds
<1>7. CASE UserCancel
  <2>1. UNCHANGED <<source, scan, reindex>>
    BY <1>7 DEF UserCancel
  <2>2. \/ gate' = gate /\ (task' = task \/ task' = "none") /\ row' \in {row, "cancelled"}
        \/ gate' = source.version /\ task' = "none" /\ row' = "cancelled"
    BY <1>7 DEF UserCancel, CancelScope, Settled, Record
  <2>3. source.exists /\ gate = source.version => row # "none" /\ task = "none"
    BY DEF Gated, GateHolds
  <2> QED
    BY <2>1, <2>2, <2>3, <1>n DEF Gated, GateHolds
<1>8. CASE ProbesEnd
  <2>1. UNCHANGED <<source, scan, reindex, task>>
    BY <1>8 DEF ProbesEnd, counters
  <2>2. \/ gate' = gate /\ row' \in {row, "cancelled"}
        \/ gate' = source.version /\ task = "none" /\ row' = "cancelled"
    BY <1>8 DEF ProbesEnd, Settled, Record
  <2> QED
    BY <2>1, <2>2, <1>n DEF Gated, GateHolds
<1>9. CASE Interrupt
  BY <1>9 DEF Interrupt, CancelScope, Gated, GateHolds
<1>10. CASE CleanupMissing
  BY <1>10 DEF CleanupMissing, Invalidate, Gated, GateHolds
<1>11. CASE Crash
  BY <1>11 DEF Crash, NotReindexing, Gated, GateHolds
<1>12. CASE \/ ProbeStarts \/ ProbeReports \/ ReadSource \/ ExtractorPublishes
            \/ HashSource \/ OrphanPublishes \/ UNCHANGED vars
  <2>1. UNCHANGED <<source, row, task, gate, scan, reindex>>
    BY <1>12 DEF ProbeStarts, ProbeReports, ReadSource, ExtractorPublishes, HashSource,
                 OrphanPublishes, scheduled, vars
  <2> QED
    BY <2>1 DEF Gated, GateHolds
<1>13. ~ScanDiff /\ ~InvalidateModified /\ ~RemoveStale /\ ~RowRemoved
       /\ ~ReindexBegin /\ ~ReindexHash /\ ~(\E stored \in BOOLEAN : ReindexEnd(stored))
  BY DEF ScanDiff, InvalidateModified, RemoveStale, RowRemoved, ReindexBegin, ReindexHash, ReindexEnd, Gated
<1>14. ~(ConvertReturns /\ run'.stage = "indexing")
  BY ReturnsToIndex
<1> QED
  BY <1>1, <1>2, <1>3, <1>4, <1>5, <1>6, <1>7, <1>8, <1>9, <1>10, <1>11, <1>12, <1>13,
     <1>14 DEF Next, Edit, Restore

\* Without an index, a failure or cancellation recorded for the present content
\* holds the source back until Reprocess, whatever else happens to it.
THEOREM GateKept == ASSUME ~SemanticEnabled PROVE Spec => []GateHolds
<1>1. Gated => GateHolds
  BY DEF Gated
<1>2. TypeOK /\ Tracked /\ Gated /\ [Next]_vars => Gated'
  BY GatedStep
<1> QED
  BY <1>1, <1>2, GatedInit, TrackedInit, TrackedStep, TypeCorrect, PTL DEF Spec
=============================================================================
