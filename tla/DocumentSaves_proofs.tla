------------------------- MODULE DocumentSaves_proofs -------------------------
(***************************************************************************)
(* Proofs about DocumentSaves for any agents, any number of edits and any  *)
(* number of failing writes.                                               *)
(***************************************************************************)
EXTENDS DocumentSaves, TLAPS

USE DocumentSavesAssumption DEF DocumentSavesAssumption

-----------------------------------------------------------------------------
(* Types. *)

\* The stages of a request.
Stage == {"none", "get", "got", "gotten", "check", "compare", "read", "write",
          "version", "ok", "changed", "error", "apply", "rewrite", "others", "back"}

\* The requests are told apart.
LEMMA Names ==
    /\ "put" \in Requests /\ "conflict" \in Requests /\ "refresh" \in Requests
    /\ "links" \in Requests /\ Agents \subseteq Requests
    /\ \A a \in Agents : a \notin {"put", "conflict", "refresh", "links"}
BY DEF Requests

\* The records that a request goes through.
LEMMA Jobs ==
    /\ Idle \in Job /\ Get \in Job /\ Idle.st = "none" /\ Get.st = "get"
    /\ \A t \in Text, b \in Text \cup {None} :
         /\ Put(t, b) \in Job /\ Put(t, b).st = "check"
         /\ Put(t, b).text = t /\ Put(t, b).base = b /\ Put(t, b).seen = {}
    /\ \A j \in Job : j.st \in Stage /\ j.text \in Text /\ j.base \in Text \cup {None} /\ j.seen \in Text
    /\ \A j \in Job, s \in Stage :
         /\ [j EXCEPT !.st = s] \in Job
         /\ \A t \in Text : [j EXCEPT !.st = s, !.text = t] \in Job
         /\ \A t \in Text : [j EXCEPT !.st = s, !.seen = t] \in Job
<1>1. {} \in Text
  BY DEF Text
<1>2. Idle \in Job /\ Idle.st = "none"
  BY <1>1 DEF Idle, Job
<1>3. Get = [st |-> "get", text |-> {}, base |-> None, seen |-> {}]
  BY DEF Get, Idle
<1>4. Get \in Job /\ Get.st = "get"
  BY <1>1, <1>3 DEF Job
<1>5. ASSUME NEW t \in Text, NEW b \in Text \cup {None}
      PROVE  /\ Put(t, b) \in Job /\ Put(t, b).st = "check"
             /\ Put(t, b).text = t /\ Put(t, b).base = b /\ Put(t, b).seen = {}
  BY <1>1 DEF Put, Job
<1>6. ASSUME NEW j \in Job
      PROVE  j.st \in Stage /\ j.text \in Text /\ j.base \in Text \cup {None} /\ j.seen \in Text
  BY DEF Job, Stage
<1>7. ASSUME NEW j \in Job, NEW s \in Stage
      PROVE  /\ [j EXCEPT !.st = s] \in Job
             /\ \A t \in Text : [j EXCEPT !.st = s, !.text = t] \in Job
             /\ \A t \in Text : [j EXCEPT !.st = s, !.seen = t] \in Job
  BY DEF Job, Stage
<1> QED
  BY <1>2, <1>4, <1>5, <1>6, <1>7

\* A save of a text and the version that it is to replace.
LEMMA PutIs ==
    ASSUME NEW text \in Text, NEW base \in Text \cup {None}
    PROVE  /\ Put(text, base) \in Job /\ Put(text, base).st = "check"
           /\ Put(text, base).text = text /\ Put(text, base).base = base
<1>1. {} \in Text
  BY DEF Text
<1> QED
  BY <1>1 DEF Put, Job

\* The tab and what it is changed to.
LEMMA Tabs ==
    ASSUME NEW t \in Tab
    PROVE  /\ t.open \in BOOLEAN /\ t.content \in Text /\ t.version \in Text
           /\ t.dirty \in BOOLEAN /\ t.conflict \in Conflict \cup {None}
           /\ \A d \in BOOLEAN : [t EXCEPT !.dirty = d] \in Tab
           /\ \A d \in BOOLEAN, o \in BOOLEAN : [t EXCEPT !.dirty = d, !.open = o] \in Tab
           /\ \A c \in Text, v \in Text : [t EXCEPT !.content = c, !.version = v] \in Tab
           /\ \A c \in Text, v \in Text, d \in BOOLEAN, o \in BOOLEAN :
                [t EXCEPT !.content = c, !.version = v, !.dirty = d, !.open = o] \in Tab
           /\ \A c \in Text, v \in Text, d \in BOOLEAN :
                [t EXCEPT !.content = c, !.version = v, !.dirty = d, !.conflict = None] \in Tab
           /\ \A k \in Conflict : [t EXCEPT !.conflict = k] \in Tab
           /\ [t EXCEPT !.open = FALSE, !.conflict = None, !.dirty = FALSE] \in Tab
BY DEF Tab

LEMMA TypeInit == Init => TypeOK
<1> SUFFICES ASSUME Init PROVE TypeOK
  OBVIOUS
<1>1. {} \in Text /\ 0 \in 0..MaxEdits /\ 0 \in 0..MaxFaults
  BY DEF Text
<1>2. job \in [Requests -> Job]
  BY Jobs DEF Init
<1>3. tab \in Tab /\ mirror \in Tab
  BY <1>1 DEF Init, Tab
<1>4. /\ disk \in Text /\ buffer \in Text /\ mine \in Text
      /\ edits \in 0..MaxEdits /\ faults \in 0..MaxFaults
      /\ durable \in Baseline \cup {None} /\ flush \in Flush \cup {None}
      /\ typed \in BOOLEAN /\ timer \in BOOLEAN /\ resolving \in BOOLEAN /\ failed \in BOOLEAN
  BY <1>1 DEF Init
<1> QED
  BY <1>2, <1>3, <1>4 DEF TypeOK

LEMMA FreshText ==
    ASSUME TypeOK, EditMade
    PROVE  /\ edits' \in 0..MaxEdits /\ Fresh \in 1..MaxEdits
           /\ \A t \in Text : t \cup {Fresh} \in Text
<1>1. edits \in 0..MaxEdits /\ edits < MaxEdits /\ edits' = edits + 1 /\ Fresh = edits + 1
  BY DEF TypeOK, EditMade, Fresh
<1>2. edits + 1 \in 1..MaxEdits /\ edits + 1 \in 0..MaxEdits
  BY <1>1
<1> QED
  BY <1>1, <1>2 DEF Text

\* A step of a request that leaves the editor alone.
LEMMA JobStep ==
    ASSUME TypeOK, NEW r \in Requests, NEW j \in Job, job' = [job EXCEPT ![r] = j],
           disk' \in Text, UNCHANGED editorVars, edits' \in 0..MaxEdits, faults' \in 0..MaxFaults
    PROVE  TypeOK'
<1>1. job' \in [Requests -> Job]
  BY DEF TypeOK
<1> QED
  BY <1>1 DEF TypeOK, editorVars, Text, Tab, Conflict, Baseline, Flush

LEMMA ServeTypes == ASSUME TypeOK, NEW r \in Requests, Serve(r) PROVE TypeOK'
<1>1. /\ disk \in Text /\ job[r] \in Job /\ edits \in 0..MaxEdits /\ faults \in 0..MaxFaults
      /\ job[r].text \in Text
  BY Jobs DEF TypeOK
<1>2. {"got", "gotten", "read", "compare", "ok", "changed", "version", "write", "error"}
        \subseteq Stage
  BY DEF Stage
<1>3. ASSUME NEW from, NEW j \in Job, Goes(r, from, j), disk' \in Text, faults' \in 0..MaxFaults
      PROVE  TypeOK'
  BY <1>1, <1>3, JobStep DEF Goes
<1>4. CASE ReadText(r)
  BY <1>1, <1>2, <1>3, <1>4, Jobs DEF ReadText
<1>5. CASE ReadVersion(r)
  BY <1>1, <1>2, <1>3, <1>5, Jobs DEF ReadVersion
<1>6. CASE CheckVersion(r)
  BY <1>1, <1>2, <1>3, <1>6, Jobs DEF CheckVersion
<1>7. CASE CompareText(r)
  BY <1>1, <1>2, <1>3, <1>7, Jobs DEF CompareText
<1>8. CASE ReadPrevious(r)
  BY <1>1, <1>2, <1>3, <1>8, Jobs DEF ReadPrevious
<1>9. CASE WriteText(r)
  <2>1. CASE Goes(r, "write", [job[r] EXCEPT !.st = "version"])
    <3>1. disk' \in Text /\ faults' \in 0..MaxFaults
      BY <1>1, <1>9 DEF WriteText
    <3> QED
      BY <1>1, <1>2, <1>3, <2>1, <3>1, Jobs
  <2>2. CASE Goes(r, "write", [job[r] EXCEPT !.st = "error"])
    <3>1. disk' \in Text /\ faults' \in 0..MaxFaults
      BY <1>1, <1>9 DEF WriteText
    <3> QED
      BY <1>1, <1>2, <1>3, <2>2, <3>1, Jobs
  <2> QED
    BY <1>9, <2>1, <2>2 DEF WriteText
<1>10. CASE AnswerVersion(r)
  BY <1>1, <1>2, <1>3, <1>10, Jobs DEF AnswerVersion
<1> QED
  BY <1>4, <1>5, <1>6, <1>7, <1>8, <1>9, <1>10 DEF Serve

LEMMA OthersTypes ==
    ASSUME TypeOK,
           \/ \E a \in Agents : AgentReads(a) \/ AgentWrites(a) \/ AgentDone(a)
           \/ PlanLinks \/ MoveLinked \/ Refresh \/ Refused
    PROVE  TypeOK'
<1>1. /\ disk \in Text /\ edits \in 0..MaxEdits /\ faults \in 0..MaxFaults
      /\ job \in [Requests -> Job]
  BY DEF TypeOK
<1>2. \A r \in Requests : job[r] \in Job /\ job[r].text \in Text /\ job[r].seen \in Text
  BY <1>1, Jobs
<1>3. {"apply", "rewrite", "others", "back"} \subseteq Stage
  BY DEF Stage
<1>4. ASSUME NEW a \in Agents, AgentReads(a) \/ AgentWrites(a) \/ AgentDone(a) PROVE TypeOK'
  <2>1. CASE AgentReads(a)
    BY <1>1, <2>1, Names, Jobs, JobStep DEF AgentReads
  <2>2. CASE AgentWrites(a)
    <3>1. Put(job[a].text \cup {Fresh}, job[a].seen) \in Job
      BY <1>2, <2>2, Names, Jobs, FreshText DEF AgentWrites
    <3>2. edits' \in 0..MaxEdits
      BY <2>2, FreshText DEF AgentWrites
    <3> QED
      BY <1>1, <2>2, <3>1, <3>2, Names, JobStep DEF AgentWrites
  <2>3. CASE AgentDone(a)
    BY <1>1, <2>3, Names, Jobs, JobStep DEF AgentDone
  <2> QED
    BY <1>4, <2>1, <2>2, <2>3
<1>5. CASE PlanLinks
  <2>1. disk \cup {Fresh} \in Text /\ edits' \in 0..MaxEdits
    BY <1>1, <1>5, FreshText DEF PlanLinks
  <2>2. [Idle EXCEPT !.st = "apply", !.text = disk \cup {Fresh}] \in Job
    BY <1>3, <2>1, Jobs
  <2> QED
    BY <1>1, <1>5, <2>1, <2>2, Names, JobStep DEF PlanLinks
<1>6. CASE MoveLinked
  <2>1. ASSUME NEW from, NEW j \in Job, Goes("links", from, j), disk' \in Text,
               faults' \in 0..MaxFaults
        PROVE  TypeOK'
    BY <1>1, <2>1, Names, JobStep DEF Goes
  <2>2. CASE ReadOriginal
    BY <1>1, <1>2, <1>3, <2>1, <2>2, Names, Jobs DEF ReadOriginal
  <2>3. CASE RewriteLinks
    BY <1>1, <1>2, <1>3, <2>1, <2>3, Names, Jobs DEF RewriteLinks
  <2>4. CASE RewriteOthers
    <3>1. disk' \in Text /\ faults' \in 0..MaxFaults
      BY <1>1, <2>4 DEF RewriteOthers
    <3>2. CASE Goes("links", "others", Idle)
      BY <2>1, <3>1, <3>2, Jobs
    <3>3. CASE Goes("links", "others", [job["links"] EXCEPT !.st = "back"])
      BY <1>2, <1>3, <2>1, <3>1, <3>3, Names, Jobs
    <3> QED
      BY <2>4, <3>2, <3>3 DEF RewriteOthers
  <2>5. CASE RollBack
    BY <1>1, <1>2, <1>3, <2>1, <2>5, Names, Jobs DEF RollBack
  <2> QED
    BY <1>6, <2>2, <2>3, <2>4, <2>5 DEF MoveLinked
<1>7. CASE Refresh
  BY <1>1, <1>7, Names, Jobs, JobStep DEF Refresh
<1>8. CASE Refused
  <2>1. job' \in [Requests -> Job]
    BY <1>1, <1>8, Names, Jobs DEF Refused
  <2> QED
    BY <1>8, <2>1 DEF Refused, TypeOK, editorVars, Text, Tab, Conflict, Baseline, Flush
<1> QED
  BY <1>4, <1>5, <1>6, <1>7, <1>8

\* A step of the editor.
LEMMA EditorStep ==
    ASSUME TypeOK, job' \in [Requests -> Job], tab' \in Tab, mirror' \in Tab, buffer' \in Text,
           mine' \in Text, durable' \in Baseline \cup {None}, flush' \in Flush \cup {None},
           typed' \in BOOLEAN, timer' \in BOOLEAN, resolving' \in BOOLEAN, failed' \in BOOLEAN,
           edits' \in 0..MaxEdits, UNCHANGED <<disk, faults>>
    PROVE  TypeOK'
BY DEF TypeOK, Text, Tab, Conflict, Baseline, Flush, Job, Requests

\* A decision is carried out on a conflict that is shown, and a save that goes by a
\* later baseline has one.
Sensible ==
    /\ resolving => tab.conflict # None /\ mirror.conflict # None
    /\ flush # None => (flush.lags => durable # None)

LEMMA EditorTypes ==
    ASSUME TypeOK, Sensible,
           \/ Render \/ Type \/ Saved \/ ShowConflict \/ SaveFailed \/ Refreshed
           \/ \E close \in BOOLEAN : FlushSave(close)
    PROVE  TypeOK'
<1>1. /\ job \in [Requests -> Job] /\ tab \in Tab /\ mirror \in Tab /\ buffer \in Text
      /\ mine \in Text /\ durable \in Baseline \cup {None} /\ flush \in Flush \cup {None}
      /\ typed \in BOOLEAN /\ timer \in BOOLEAN /\ resolving \in BOOLEAN /\ failed \in BOOLEAN
      /\ edits \in 0..MaxEdits
  BY DEF TypeOK
<1>2. \A r \in Requests : job[r] \in Job /\ job[r].text \in Text /\ job[r].seen \in Text
  BY <1>1, Jobs
<1>3. CASE Render
  <2>1. buffer' \in Text
    BY <1>1, <1>3, Tabs DEF Render
  <2> QED
    BY <1>1, <1>3, <2>1, EditorStep DEF Render
<1>4. CASE Type
  <2>1. buffer' \in Text /\ mine' \in Text /\ edits' \in 0..MaxEdits
    BY <1>1, <1>4, FreshText DEF Type
  <2>2. tab' \in Tab
    BY <1>1, <1>4, Tabs DEF Type
  <2> QED
    BY <1>1, <1>4, <2>1, <2>2, EditorStep DEF Type
<1>5. CASE Saved
  <2>1. flush \in Flush /\ flush.content \in Text /\ flush.base \in Text /\ flush.close \in BOOLEAN
        /\ job["put"].seen \in Text
    BY <1>1, <1>2, <1>5, Names DEF Saved, Flush
  <2>2. tab' \in Tab
    <3>1. (IF buffer = flush.content THEN FALSE ELSE tab.dirty) \in BOOLEAN
          /\ (tab.open /\ ~flush.close) \in BOOLEAN
      BY <1>1, Tabs
    <3> QED
      BY <1>1, <1>5, <2>1, <3>1, Tabs DEF Saved
  <2>3. durable' \in Baseline
    <3>1. flush.lags => durable \in Baseline
      BY <1>1, <1>5 DEF Sensible, Saved
    <3>2. (IF flush.lags THEN durable.superseded ELSE {}) \cup {flush.base} \in SUBSET Text
      BY <2>1, <3>1 DEF Baseline
    <3> QED
      BY <1>5, <2>1, <3>2 DEF Saved, Baseline
  <2>4. job' \in [Requests -> Job]
    BY <1>1, <1>5, Jobs, Names DEF Saved
  <2>5. typed' \in BOOLEAN /\ timer' \in BOOLEAN /\ flush' = None
    BY <1>5 DEF Saved
  <2> QED
    BY <1>1, <1>5, <2>2, <2>3, <2>4, <2>5, EditorStep DEF Saved
<1>6. CASE ShowConflict
  <2>1. job["conflict"].text \in Text /\ job["conflict"].seen \in Text
    BY <1>2, Names
  <2>2. [disk |-> job["conflict"].text, version |-> job["conflict"].seen, text |-> EditorText]
          \in Conflict
    BY <1>1, <2>1 DEF Conflict, EditorText
  <2>3. tab' \in Tab /\ job' \in [Requests -> Job]
    BY <1>1, <1>6, <2>2, Tabs, Jobs, Names DEF ShowConflict
  <2> QED
    BY <1>1, <1>6, <2>3, EditorStep DEF ShowConflict
<1>7. CASE SaveFailed
  <2>1. ASSUME NEW q \in {"put", "conflict"}, job' = [job EXCEPT ![q] = Idle]
        PROVE  job' \in [Requests -> Job]
    BY <1>1, <2>1, Jobs, Names
  <2>2. job' \in [Requests -> Job]
    BY <1>7, <2>1 DEF SaveFailed
  <2>3. faults' \in 0..MaxFaults
    BY <1>7, DocumentSavesAssumption DEF SaveFailed, TypeOK
  <2>4. flush' = None /\ failed' = TRUE
        /\ UNCHANGED <<disk, tab, mirror, buffer, typed, durable, timer, resolving, mine, edits>>
    BY <1>7 DEF SaveFailed
  <2> QED
    BY <1>1, <2>2, <2>3, <2>4 DEF TypeOK
<1>8. CASE Refreshed
  <2>1. job' \in [Requests -> Job]
    BY <1>1, <1>8, Jobs, Names DEF Refreshed
  <2>2. job["refresh"].text \in Text /\ job["refresh"].seen \in Text
    BY <1>2, Names
  <2>3. tab' \in Tab
    BY <1>1, <1>8, <2>2, Tabs DEF Refreshed
  <2> QED
    BY <1>1, <1>8, <2>1, <2>3, EditorStep DEF Refreshed
<1>9. ASSUME NEW close \in BOOLEAN, FlushSave(close) PROVE TypeOK'
  <2> DEFINE baseline == IF Lags THEN durable.content ELSE mirror.content
             base == IF Lags THEN durable.version ELSE mirror.version
             clean == ~typed /\ ~mirror.dirty
  <2>1. base \in Text /\ Lags \in BOOLEAN
    BY <1>1, Tabs DEF Lags, Baseline
  <2>2. /\ timer' = FALSE /\ failed' = FALSE
        /\ UNCHANGED <<disk, mirror, buffer, durable, resolving, mine, edits, faults>>
        /\ \/ /\ typed' = FALSE
              /\ tab' = [tab EXCEPT !.dirty = IF clean THEN @ ELSE FALSE, !.open = ~close]
              /\ UNCHANGED <<job, flush>>
           \/ /\ flush' = [content |-> buffer, base |-> base, close |-> close, lags |-> Lags]
              /\ job' = [job EXCEPT !["put"] = Put(buffer, base)]
              /\ UNCHANGED <<typed, tab>>
    BY <1>9 DEF FlushSave
  <2> HIDE DEF base, clean
  <2>3. CASE /\ typed' = FALSE
             /\ tab' = [tab EXCEPT !.dirty = IF clean THEN @ ELSE FALSE, !.open = ~close]
             /\ UNCHANGED <<job, flush>>
    <3>1. (IF clean THEN tab.dirty ELSE FALSE) \in BOOLEAN /\ (~close) \in BOOLEAN
      BY <1>1, Tabs
    <3>2. tab' \in Tab
      BY <1>1, <2>3, <3>1, Tabs
    <3> QED
      BY <1>1, <2>2, <2>3, <3>2, EditorStep
  <2>4. CASE /\ flush' = [content |-> buffer, base |-> base, close |-> close, lags |-> Lags]
             /\ job' = [job EXCEPT !["put"] = Put(buffer, base)]
             /\ UNCHANGED <<typed, tab>>
    <3>1. flush' \in Flush
      BY <1>1, <2>1, <2>4 DEF Flush
    <3>2. job' \in [Requests -> Job]
      BY <1>1, <2>1, <2>4, Jobs, Names
    <3> QED
      BY <1>1, <2>2, <2>4, <3>1, <3>2, EditorStep
  <2> QED
    BY <2>2, <2>3, <2>4
<1> QED
  BY <1>3, <1>4, <1>5, <1>6, <1>7, <1>8, <1>9

LEMMA DecisionTypes ==
    ASSUME TypeOK, Sensible,
           Reload \/ Merge \/ Overwrite \/ Overwritten \/ OverwriteFailed \/ Discard
    PROVE  TypeOK'
<1>1. /\ job \in [Requests -> Job] /\ tab \in Tab /\ mirror \in Tab /\ buffer \in Text
      /\ mine \in Text /\ durable \in Baseline \cup {None} /\ flush \in Flush \cup {None}
      /\ typed \in BOOLEAN /\ timer \in BOOLEAN /\ resolving \in BOOLEAN /\ failed \in BOOLEAN
      /\ edits \in 0..MaxEdits /\ disk \in Text
  BY DEF TypeOK
<1>2. job["put"].seen \in Text
  BY <1>1, Jobs, Names
<1>3. mirror.conflict \in Conflict =>
        /\ mirror.conflict.disk \in Text /\ mirror.conflict.version \in Text
        /\ mirror.conflict.text \in Text
  BY DEF Conflict
<1>4. mirror.conflict \in Conflict \cup {None} /\ mirror.version \in Text
  BY <1>1, Tabs
<1>5. ASSUME NEW content \in Text, NEW version \in Text, NEW replaced \in SUBSET Text,
             NEW next \in Text, NEW dirty \in BOOLEAN,
             Settle(content, version, replaced, next, dirty)
      PROVE  durable' \in Baseline /\ typed' \in BOOLEAN /\ tab' \in Tab
  BY <1>1, <1>5, Tabs DEF Settle, Baseline
<1>6. CASE Reload
  <2>1. mirror.conflict \in Conflict
    BY <1>4, <1>6 DEF Reload, Decide
  <2>2. durable' \in Baseline /\ typed' \in BOOLEAN /\ tab' \in Tab
    BY <1>3, <1>4, <1>5, <1>6, <2>1 DEF Reload
  <2>3. mine' \in Text
    BY <1>1, <1>6 DEF Reload, Text
  <2> QED
    BY <1>1, <1>6, <2>2, <2>3, EditorStep DEF Reload
<1>7. CASE Merge
  <2>1. mirror.conflict \in Conflict
    BY <1>4, <1>7 DEF Merge, Decide
  <2>2. mirror.conflict.text \cup mirror.conflict.disk \in Text
    BY <1>3, <2>1 DEF Text
  <2>3. durable' \in Baseline /\ typed' \in BOOLEAN /\ tab' \in Tab
    BY <1>3, <1>4, <1>5, <1>7, <2>1, <2>2 DEF Merge
  <2> QED
    BY <1>1, <1>7, <2>3, EditorStep DEF Merge
<1>8. CASE Overwrite
  <2>1. mirror.conflict \in Conflict
    BY <1>4, <1>8 DEF Overwrite, Decide
  <2>2. job' \in [Requests -> Job]
    BY <1>1, <1>3, <1>8, <2>1, Jobs, Names DEF Overwrite
  <2> QED
    BY <1>1, <1>8, <2>2, EditorStep DEF Overwrite
<1>9. CASE Overwritten
  <2>1. mirror.conflict \in Conflict
    BY <1>4, <1>9 DEF Overwritten, Sensible
  <2>2. durable' \in Baseline /\ typed' \in BOOLEAN /\ tab' \in Tab
    BY <1>2, <1>3, <1>4, <1>5, <1>9, <2>1 DEF Overwritten
  <2>3. job' \in [Requests -> Job]
    BY <1>1, <1>9, Jobs, Names DEF Overwritten
  <2> QED
    BY <1>1, <1>9, <2>2, <2>3, EditorStep DEF Overwritten
<1>10. CASE OverwriteFailed
  <2>1. job' \in [Requests -> Job]
    BY <1>1, <1>10, Jobs, Names DEF OverwriteFailed
  <2> QED
    BY <1>1, <1>10, <2>1, EditorStep DEF OverwriteFailed
<1>11. CASE Discard
  <2>1. mine' \in Text /\ tab' \in Tab
    BY <1>1, <1>11, Tabs DEF Discard, Text
  <2> QED
    BY <1>1, <1>11, <2>1, EditorStep DEF Discard
<1> QED
  BY <1>6, <1>7, <1>8, <1>9, <1>10, <1>11

LEMMA SensibleStep == TypeOK /\ Sensible /\ [Next]_vars => Sensible'
<1> SUFFICES ASSUME TypeOK, Sensible, [Next]_vars PROVE Sensible'
  OBVIOUS
<1>1. tab \in Tab /\ mirror \in Tab /\ flush \in Flush \cup {None}
  BY DEF TypeOK
<1>2. ASSUME UNCHANGED editorVars PROVE Sensible'
  BY <1>2 DEF Sensible, editorVars
<1>3. CASE UNCHANGED vars \/ \E r \in Requests : Serve(r)
  BY <1>2, <1>3 DEF vars, Serve, ReadText, ReadVersion, CheckVersion, CompareText, ReadPrevious,
                    WriteText, AnswerVersion, Goes
<1>4. CASE \/ \E a \in Agents : AgentReads(a) \/ AgentWrites(a) \/ AgentDone(a)
           \/ PlanLinks \/ MoveLinked \/ Refresh \/ Refused
  BY <1>2, <1>4 DEF AgentReads, AgentWrites, AgentDone, PlanLinks, MoveLinked, ReadOriginal,
                    RewriteLinks, RewriteOthers, RollBack, Goes, Refresh, Refused
<1>5. ASSUME UNCHANGED <<mirror, flush, durable, resolving>>,
             tab'.conflict = tab.conflict
      PROVE  Sensible'
  BY <1>5 DEF Sensible
<1>6. CASE Type \/ Refreshed
  <2>1. tab'.conflict = tab.conflict
    BY <1>1, <1>6 DEF Type, Refreshed, Tab
  <2> QED
    BY <1>5, <1>6, <2>1 DEF Type, Refreshed
<1>7. CASE Render
  BY <1>7 DEF Render, Sensible
<1>8. ASSUME NEW close \in BOOLEAN, FlushSave(close) PROVE Sensible'
  <2>1. tab'.conflict = tab.conflict /\ UNCHANGED <<mirror, resolving, durable>>
    BY <1>1, <1>8 DEF FlushSave, Tab
  <2> DEFINE base == IF Lags THEN durable.version ELSE mirror.version
             next == [content |-> buffer, base |-> base, close |-> close, lags |-> Lags]
  <2>2. flush' = flush \/ flush' = next
    BY <1>8 DEF FlushSave
  <2>3. next.lags = Lags
    OBVIOUS
  <2>4. Lags => durable # None
    BY DEF Lags
  <2> HIDE DEF next
  <2>5. CASE flush' = flush
    BY <2>1, <2>5 DEF Sensible
  <2>6. CASE flush' = next
    BY <2>1, <2>3, <2>4, <2>6 DEF Sensible
  <2> QED
    BY <2>2, <2>5, <2>6
<1>9. CASE Saved
  <2>1. tab'.conflict = tab.conflict /\ flush' = None /\ UNCHANGED <<mirror, resolving>>
    BY <1>1, <1>9 DEF Saved, Tab
  <2> QED
    BY <2>1 DEF Sensible
<1>10. CASE ShowConflict
  <2>1. /\ flush' = None /\ UNCHANGED <<mirror, resolving>>
        /\ tab'.conflict = [disk |-> job["conflict"].text, version |-> job["conflict"].seen,
                            text |-> EditorText]
    BY <1>1, <1>10 DEF ShowConflict, Tab
  <2>2. tab'.conflict \in Conflict
    <3>1. job["conflict"] \in Job
      BY Names DEF TypeOK
    <3>2. job["conflict"].text \in Text /\ job["conflict"].seen \in Text
      BY <3>1, Jobs
    <3>3. EditorText \in Text
      BY DEF TypeOK, EditorText
    <3> QED
      BY <2>1, <3>2, <3>3 DEF Conflict
  <2> QED
    BY <2>1, <2>2, NoneAssumption DEF Sensible
<1>11. CASE SaveFailed
  BY <1>11 DEF SaveFailed, Sensible
<1>12. CASE Reload \/ Merge \/ Discard
  <2>1. resolving' = FALSE /\ flush' = flush
    BY <1>12 DEF Reload, Merge, Discard, Decide, TypeOK
  <2>2. durable' = durable \/ durable' \in Baseline
    <3>1. CASE Reload
      <4>1. mirror.conflict \in Conflict /\ mirror.version \in Text
        BY <1>1, <3>1 DEF Reload, Decide, Tab
      <4> QED
        BY <3>1, <4>1 DEF Reload, Settle, Baseline, Conflict
    <3>2. CASE Merge
      <4>1. mirror.conflict \in Conflict /\ mirror.version \in Text
        BY <1>1, <3>2 DEF Merge, Decide, Tab
      <4> QED
        BY <3>2, <4>1 DEF Merge, Settle, Baseline, Conflict
    <3>3. CASE Discard
      BY <3>3 DEF Discard
    <3> QED
      BY <1>12, <3>1, <3>2, <3>3
  <2> QED
    BY <2>1, <2>2, NoneAssumption DEF Sensible
<1>13. CASE Overwrite
  BY <1>13 DEF Overwrite, Decide, Sensible
<1>14. CASE Overwritten
  <2>1. resolving' = FALSE /\ flush' = flush
    BY <1>14 DEF Overwritten
  <2>2. durable' \in Baseline
    <3>1. mirror.conflict \in Conflict /\ mirror.version \in Text
      BY <1>1, <1>14 DEF Overwritten, Sensible, Tab
    <3>2. job["put"].seen \in Text
      BY Names, Jobs DEF TypeOK
    <3> QED
      BY <1>14, <3>1, <3>2 DEF Overwritten, Settle, Baseline, Conflict
  <2> QED
    BY <2>1, <2>2, NoneAssumption DEF Sensible
<1>15. CASE OverwriteFailed
  BY <1>15 DEF OverwriteFailed, Sensible
<1> QED
  BY <1>3, <1>4, <1>6, <1>7, <1>8, <1>9, <1>10, <1>11, <1>12, <1>13, <1>14, <1>15
     DEF Next, Continue

LEMMA TypeStep == TypeOK /\ Sensible /\ [Next]_vars => TypeOK'
<1> SUFFICES ASSUME TypeOK, Sensible, [Next]_vars PROVE TypeOK'
  OBVIOUS
<1>1. CASE UNCHANGED vars
  BY <1>1 DEF TypeOK, vars, editorVars, Text, Tab, Conflict, Baseline, Flush, Job, Requests
<1>2. CASE \E r \in Requests : Serve(r)
  BY <1>2, ServeTypes
<1>3. CASE \/ \E a \in Agents : AgentReads(a) \/ AgentWrites(a) \/ AgentDone(a)
           \/ PlanLinks \/ MoveLinked \/ Refresh \/ Refused
  BY <1>3, OthersTypes
<1>4. CASE \/ Render \/ Type \/ Saved \/ ShowConflict \/ SaveFailed \/ Refreshed
           \/ \E close \in BOOLEAN : FlushSave(close)
  BY <1>4, EditorTypes
<1>5. CASE Reload \/ Merge \/ Overwrite \/ Overwritten \/ OverwriteFailed \/ Discard
  BY <1>5, DecisionTypes
<1> QED
  BY <1>1, <1>2, <1>3, <1>4, <1>5 DEF Next, Continue

\* The texts, the requests and the state of the editor stay in the sets that their
\* readers expect; a decision finds its conflict, and a late save its baseline.
THEOREM TypeCorrect == Spec => []TypeOK
<1>1. Init => TypeOK /\ Sensible
  BY TypeInit DEF Init, Sensible
<1>2. TypeOK /\ Sensible /\ [Next]_vars => TypeOK' /\ Sensible'
  BY TypeStep, SensibleStep
<1> QED
  BY <1>1, <1>2, PTL DEF Spec

-----------------------------------------------------------------------------
(* The server, one request at a time. *)

\* A request in one of these stages is under way: it relies on the file.
OnDisk == {"got", "compare", "read", "write", "version", "apply", "rewrite", "others", "back"}

\* What a request has read, and what it is about to write, in terms of the file.
ReadBy(r, j, file) ==
    /\ r = "put" => j.st \in {"none", "check", "compare", "read", "write", "version", "ok",
                              "changed", "error"}
    /\ r \in {"conflict", "refresh"} => j.st \in {"none", "get", "got", "gotten"}
    /\ r = "links" => j.st \in {"none", "apply", "rewrite", "others", "back"}
    /\ r \in Agents => /\ j.st \notin {"apply", "rewrite", "others", "back"}
                       /\ j.st \in {"check", "compare", "read", "write"} =>
                            j.base # None /\ j.base \subseteq j.text
    /\ j.st = "got" => j.text = file
    /\ j.st \in {"gotten", "ok"} => j.seen = j.text
    /\ j.st \in {"read", "write"} => j.base \in {None, file}
    /\ j.st = "version" => j.text = file
    /\ j.st = "compare" => j.seen = file
    /\ j.st \in {"apply", "rewrite"} => file \subseteq j.text
    /\ j.st = "rewrite" => j.seen = file
    /\ j.st \in {"others", "back"} => j.text = file /\ j.seen \subseteq file

\* One request works on the file at a time, and knows it.
Serving ==
    /\ \A r, s \in Requests : job[r].st \in OnDisk /\ job[s].st \in OnDisk => r = s
    /\ \A r \in Requests : ReadBy(r, job[r], disk)

\* What stays of the file, should a move that is under way fail.
Lasting == IF job["links"].st \in {"others", "back"} THEN job["links"].seen ELSE disk


LEMMA UnderWayIs == TypeOK => \A r \in Requests : UnderWay(r) <=> job[r].st \in OnDisk
BY DEF UnderWay, OnDisk

LEMMA ServingInit == Init => Serving
BY Names DEF Init, Serving, Idle, OnDisk, ReadBy

\* What the rest of the state makes of a request that takes a step.
LEMMA ServingStep ==
    ASSUME TypeOK, Serving, NEW r \in Requests, NEW j \in Job, job' = [job EXCEPT ![r] = j],
           ReadBy(r, j, disk'),
           \/ \A s \in Requests \ {r} : job[s].st \notin OnDisk
           \/ disk' = disk /\ j.st \notin OnDisk
    PROVE  Serving'
<1>1. /\ job'[r] = j /\ \A s \in Requests \ {r} : job'[s] = job[s]
  BY DEF TypeOK
<1>2. \A s \in Requests \ {r} : ReadBy(s, job'[s], disk')
  <2> SUFFICES ASSUME NEW s \in Requests \ {r} PROVE ReadBy(s, job'[s], disk')
    OBVIOUS
  <2>1. ReadBy(s, job[s], disk) /\ job'[s] = job[s]
    BY <1>1 DEF Serving
  <2>2. CASE disk' = disk
    BY <2>1, <2>2
  <2>3. CASE job[s].st \notin OnDisk
    BY <2>1, <2>3 DEF ReadBy, OnDisk
  <2> QED
    BY <2>2, <2>3
<1>3. \A s, q \in Requests : job'[s].st \in OnDisk /\ job'[q].st \in OnDisk => s = q
  BY <1>1 DEF Serving
<1> QED
  BY <1>1, <1>2, <1>3 DEF Serving

\* Requests that are sent, answered or forgotten disturb no other.
LEMMA ServingQuiet ==
    ASSUME TypeOK, Serving, disk' = disk, job' \in [Requests -> Job],
           \A r \in Requests : \/ job'[r] = job[r]
                               \/ job'[r].st \notin OnDisk /\ ReadBy(r, job'[r], disk)
    PROVE  Serving'
<1>1. \A r \in Requests : ReadBy(r, job'[r], disk')
  BY DEF Serving
<1>2. \A s, q \in Requests : job'[s].st \in OnDisk /\ job'[q].st \in OnDisk => s = q
  BY DEF Serving
<1> QED
  BY <1>1, <1>2 DEF Serving

\* One request works on the file at a time.
LEMMA Alternate ==
    ASSUME TypeOK, ~Overtaken, NEW r \in Requests, MayStep(r)
    PROVE  \A s \in Requests \ {r} : job[s].st \notin OnDisk
BY UnderWayIs DEF MayStep

\* The text of a save is in the file.
Done == {"version", "ok"}

\* A save on its way to the file.
Writing == {"check", "compare", "read", "write"}

\* The step of a request that is served takes it from one record to the next.
ServedTo(r, j, file) ==
    /\ job[r].st # "none" /\ j.st # "none" /\ j.base = job[r].base
    /\ IF job[r].st = "get" THEN j.st = "got" /\ j.text = disk /\ file = disk
                            ELSE j.st # "got" /\ j.text = job[r].text
    /\ j.st = "gotten" => job[r].st = "got"
    /\ j.st \in Writing => job[r].st \in Writing
    /\ job[r].st \in Done => j.st \in Done
    /\ j.st \in Done /\ job[r].st \notin Done => file = job[r].text
    /\ \/ file = disk
       \/ /\ job[r].st = "write" /\ j.st = "version"
          /\ file = job[r].text /\ job[r].base \in {None, disk}
    /\ ReadBy(r, j, file)

LEMMA Served ==
    ASSUME TypeOK, Serving, NEW r \in Requests, Serve(r)
    PROVE  \E j \in Job : /\ job' = [job EXCEPT ![r] = j]
                          /\ MayStep(r) /\ UNCHANGED <<editorVars, edits>>
                          /\ ServedTo(r, j, disk')
<1>1. job[r] \in Job /\ disk \in Text /\ ReadBy(r, job[r], disk)
  BY DEF TypeOK, Serving
<1>2. job[r].text \in Text /\ job[r].st \in Stage
  BY <1>1, Jobs
<1>3. {"got", "gotten", "read", "compare", "ok", "changed", "version", "write", "error"}
        \subseteq Stage
  BY DEF Stage
<1>4. SUFFICES \E from : \E j \in Job : Goes(r, from, j) /\ ServedTo(r, j, disk')
  BY DEF Goes
<1>5. CASE ReadText(r)
  <2> DEFINE j == [job[r] EXCEPT !.st = "got", !.text = disk]
  <2>1. j \in Job /\ j.st = "got" /\ j.text = disk /\ j.base = job[r].base
    BY <1>1, <1>3, Jobs DEF Job
  <2>2. job[r].st = "get" /\ disk' = disk /\ Goes(r, "get", j)
    BY <1>5 DEF ReadText, Goes
  <2> HIDE DEF j
  <2>3. ServedTo(r, j, disk')
    BY <1>1, <2>1, <2>2, Names DEF ServedTo, ReadBy, Done, Writing
  <2> QED
    BY <2>1, <2>2, <2>3
<1>6. CASE ReadVersion(r)
  <2> DEFINE j == [job[r] EXCEPT !.st = "gotten", !.seen = disk]
  <2>1. /\ j \in Job /\ j.st = "gotten" /\ j.text = job[r].text /\ j.base = job[r].base
        /\ j.seen = disk
    BY <1>1, <1>3, Jobs DEF Job
  <2>2. job[r].st = "got" /\ disk' = disk /\ Goes(r, "got", j)
    BY <1>6 DEF ReadVersion, Goes
  <2> HIDE DEF j
  <2>3. ServedTo(r, j, disk')
    BY <1>1, <2>1, <2>2, Names DEF ServedTo, ReadBy, Done, Writing
  <2> QED
    BY <2>1, <2>2, <2>3
<1>7. CASE CheckVersion(r)
  <2>1. job[r].st = "check" /\ disk' = disk
    BY <1>7 DEF CheckVersion, Goes
  <2>2. CASE job[r].base \in {None, disk}
    <3> DEFINE j == [job[r] EXCEPT !.st = "read"]
    <3>1. j \in Job /\ j.st = "read" /\ j.text = job[r].text /\ j.base = job[r].base
      BY <1>1, <1>3, Jobs DEF Job
    <3>2. Goes(r, "check", j)
      BY <1>7, <2>2 DEF CheckVersion
    <3> HIDE DEF j
    <3>3. ServedTo(r, j, disk')
      BY <1>1, <2>1, <2>2, <3>1, Names DEF ServedTo, ReadBy, Done, Writing
    <3> QED
      BY <3>1, <3>2, <3>3
  <2>3. CASE job[r].base \notin {None, disk}
    <3> DEFINE j == [job[r] EXCEPT !.st = "compare", !.seen = disk]
    <3>1. /\ j \in Job /\ j.st = "compare" /\ j.text = job[r].text /\ j.base = job[r].base
          /\ j.seen = disk
      BY <1>1, <1>3, Jobs DEF Job
    <3>2. Goes(r, "check", j)
      BY <1>7, <2>3 DEF CheckVersion
    <3> HIDE DEF j
    <3>3. ServedTo(r, j, disk')
      BY <1>1, <2>1, <3>1, Names DEF ServedTo, ReadBy, Done, Writing
    <3> QED
      BY <3>1, <3>2, <3>3
  <2> QED
    BY <2>2, <2>3
<1>8. CASE CompareText(r)
  <2> DEFINE j == [job[r] EXCEPT !.st = IF disk = job[r].text THEN "ok" ELSE "changed"]
  <2>1. /\ j \in Job /\ j.st = (IF disk = job[r].text THEN "ok" ELSE "changed")
        /\ j.text = job[r].text /\ j.base = job[r].base /\ j.seen = job[r].seen
    BY <1>1, <1>3, Jobs DEF Job
  <2>2. job[r].st = "compare" /\ disk' = disk /\ Goes(r, "compare", j)
    BY <1>8 DEF CompareText, Goes
  <2> HIDE DEF j
  <2>3. ServedTo(r, j, disk')
    BY <1>1, <2>1, <2>2, Names DEF ServedTo, ReadBy, Done, Writing
  <2> QED
    BY <2>1, <2>2, <2>3
<1>9. CASE ReadPrevious(r)
  <2> DEFINE j == [job[r] EXCEPT !.st = IF disk = job[r].text THEN "version" ELSE "write"]
  <2>1. /\ j \in Job /\ j.st = (IF disk = job[r].text THEN "version" ELSE "write")
        /\ j.text = job[r].text /\ j.base = job[r].base /\ j.seen = job[r].seen
    BY <1>1, <1>3, Jobs DEF Job
  <2>2. job[r].st = "read" /\ disk' = disk /\ Goes(r, "read", j)
    BY <1>9 DEF ReadPrevious, Goes
  <2> HIDE DEF j
  <2>3. ServedTo(r, j, disk')
    BY <1>1, <2>1, <2>2, Names DEF ServedTo, ReadBy, Done, Writing
  <2> QED
    BY <2>1, <2>2, <2>3
<1>10. CASE WriteText(r)
  <2>1. job[r].st = "write"
    BY <1>10 DEF WriteText, Goes
  <2>2. CASE Goes(r, "write", [job[r] EXCEPT !.st = "version"]) /\ disk' = job[r].text
    <3> DEFINE j == [job[r] EXCEPT !.st = "version"]
    <3>1. j \in Job /\ j.st = "version" /\ j.text = job[r].text /\ j.base = job[r].base
      BY <1>1, <1>3, Jobs DEF Job
    <3> HIDE DEF j
    <3>2. ServedTo(r, j, disk')
      BY <1>1, <2>1, <2>2, <3>1, Names DEF ServedTo, ReadBy, Done, Writing
    <3> QED
      BY <2>2, <3>1, <3>2 DEF j
  <2>3. CASE Goes(r, "write", [job[r] EXCEPT !.st = "error"]) /\ disk' = disk
    <3> DEFINE j == [job[r] EXCEPT !.st = "error"]
    <3>1. j \in Job /\ j.st = "error" /\ j.text = job[r].text /\ j.base = job[r].base
      BY <1>1, <1>3, Jobs DEF Job
    <3> HIDE DEF j
    <3>2. ServedTo(r, j, disk')
      BY <1>1, <2>1, <2>3, <3>1, Names DEF ServedTo, ReadBy, Done, Writing
    <3> QED
      BY <2>3, <3>1, <3>2 DEF j
  <2> QED
    BY <1>10, <2>2, <2>3 DEF WriteText
<1>11. CASE AnswerVersion(r)
  <2> DEFINE j == [job[r] EXCEPT !.st = "ok", !.seen = disk]
  <2>1. /\ j \in Job /\ j.st = "ok" /\ j.text = job[r].text /\ j.base = job[r].base
        /\ j.seen = disk
    BY <1>1, <1>3, Jobs DEF Job
  <2>2. job[r].st = "version" /\ disk' = disk /\ Goes(r, "version", j)
    BY <1>11 DEF AnswerVersion, Goes
  <2> HIDE DEF j
  <2>3. ServedTo(r, j, disk')
    BY <1>1, <2>1, <2>2, Names DEF ServedTo, ReadBy, Done, Writing
  <2> QED
    BY <2>1, <2>2, <2>3
<1> QED
  BY <1>5, <1>6, <1>7, <1>8, <1>9, <1>10, <1>11 DEF Serve

-----------------------------------------------------------------------------
(* The editor. *)

\* The editor waits for this request.
Running(r) == job[r].st # "none"

\* A save, a decision and a refresh take turns, and the tab stays as rendered while
\* one of them is under way.
Turns ==
    /\ flush # None \/ resolving => mirror = tab /\ tab.open /\ ~Running("refresh")
    /\ flush # None => /\ ~resolving /\ tab.conflict = None /\ tab.dirty
                       /\ Running("put") <=> ~Running("conflict")
    /\ resolving => Running("put") /\ tab.conflict # None
    /\ Running("put") => flush # None \/ resolving
    /\ Running("conflict") => flush # None
    /\ Running("refresh") => mirror = tab /\ tab.open /\ ~tab.dirty
    /\ tab.conflict # None => tab.dirty /\ tab.open
    /\ typed => tab.dirty

\* What the editor shows as soon as the tab is rendered.
Shown == IF \/ mirror.conflict # None /\ tab.conflict = None
            \/ ~tab.dirty /\ <<tab.dirty, tab.content>> # <<mirror.dirty, mirror.content>>
         THEN tab.content ELSE buffer

\* The user's choice to overwrite has reached the file.
Overwrote == resolving /\ job["put"].st \in Done

\* A text that the editor shows carries every edit of the versions that the next save
\* may name.
Carries(text) ==
    /\ tab.version \subseteq text
    /\ durable # None => durable.version \subseteq text

\* A save that is under way carries the text that the editor sent, on the version it
\* named; the user's own choice names none.
Sent ==
    /\ flush # None => /\ flush.content \subseteq buffer
                       /\ Running("put") => /\ job["put"].text = flush.content
                                            /\ job["put"].base = flush.base
                                            /\ flush.base \subseteq flush.content
                       /\ job["put"].st \in Done => flush.content \subseteq Lasting
    /\ resolving => job["put"].base = None /\ job["put"].text = tab.conflict.text

\* What the editor knows of the file stays in the file, and in what it shows.
Known ==
    /\ Carries(tab.content)
    /\ tab.open /\ tab.conflict = None => Carries(Shown)
    /\ ~Overwrote => /\ durable # None => durable.version \subseteq Lasting
                     /\ tab.conflict # None => tab.conflict.disk \subseteq Lasting
    /\ Overwrote => tab.conflict.text \subseteq Lasting
    /\ tab.conflict # None => tab.conflict.disk = tab.conflict.version
    /\ job["refresh"].st \in {"got", "gotten"} =>
         (durable # None => durable.version \subseteq job["refresh"].text)
    /\ job["conflict"].st \in {"got", "gotten"} => job["conflict"].text \subseteq Lasting

-----------------------------------------------------------------------------
(* The steps of the server. *)

\* What the editor is told of a step of the server.
Moves ==
    /\ UNCHANGED editorVars
    /\ \A q \in {"put", "conflict", "refresh"} : job'[q].st = "none" <=> job[q].st = "none"
    /\ job'["put"].text = job["put"].text /\ job'["put"].base = job["put"].base
    /\ job["put"].st \in Done => job'["put"].st \in Done
    /\ job'["put"].st \in Done /\ job["put"].st \notin Done => Lasting' = job["put"].text
    /\ \/ Lasting \subseteq Lasting'
       \/ resolving /\ job["put"].st \notin Done /\ job'["put"].st \in Done
    /\ \A q \in {"conflict", "refresh"} :
         job'[q].st \in {"got", "gotten"} =>
           IF job[q].st \in {"got", "gotten"} THEN job'[q].text = job[q].text
                                               ELSE /\ job'[q].text = Lasting /\ Lasting' = Lasting
                                                    /\ disk' = Lasting

LEMMA ServeMoves ==
    ASSUME TypeOK, ~Overtaken, Serving, Turns, Sent, NEW r \in Requests, Serve(r)
    PROVE  Serving' /\ Moves /\ (resolving \/ disk \subseteq disk')
<1>1. PICK j \in Job : /\ job' = [job EXCEPT ![r] = j]
                       /\ MayStep(r) /\ UNCHANGED <<editorVars, edits>>
                       /\ ServedTo(r, j, disk')
  BY Served
<1>2. \A s \in Requests \ {r} : job[s].st \notin OnDisk
  BY <1>1, Alternate
<1>3. ReadBy(r, j, disk')
  BY <1>1 DEF ServedTo
<1>4. Serving'
  BY <1>1, <1>2, <1>3, ServingStep
<1>5. ReadBy(r, job[r], disk)
  BY DEF Serving
<1>6. r # "links"
  <2>1. job[r].st \notin {"none", "apply", "rewrite", "others", "back"}
    BY DEF Serve, ReadText, ReadVersion, CheckVersion, CompareText, ReadPrevious, WriteText,
           AnswerVersion, Goes
  <2> QED
    BY <1>5, <2>1 DEF ReadBy
<1>7. job'[r] = j /\ \A s \in Requests \ {r} : job'[s] = job[s]
  BY <1>1 DEF TypeOK
<1>8. Lasting = disk /\ Lasting' = disk'
  <2>1. job["links"].st \notin OnDisk /\ job'["links"] = job["links"]
    BY <1>2, <1>6, <1>7, Names
  <2> QED
    BY <2>1 DEF Lasting, OnDisk
<1>9. r \in {"put", "conflict", "refresh"} \cup Agents
  BY <1>6 DEF Requests
<1>10. disk \subseteq disk' \/ (resolving /\ r = "put" /\ job[r].st = "write" /\ j.st = "version")
  <2>1. CASE disk' = disk
    BY <2>1
  <2>2. CASE disk' # disk
    <3>1. /\ job[r].st = "write" /\ j.st = "version"
          /\ disk' = job[r].text /\ job[r].base \in {None, disk}
      BY <1>1, <2>2 DEF ServedTo
    <3>2. r \notin {"conflict", "refresh"}
      BY <1>5, <3>1 DEF ReadBy
    <3>3. CASE r \in Agents
      BY <1>5, <3>1, <3>3 DEF ReadBy
    <3>4. CASE r = "put" /\ ~resolving
      <4>1. flush # None /\ job["put"].text = flush.content /\ job["put"].base = flush.base
            /\ flush.base \subseteq flush.content
        BY <3>1, <3>4 DEF Turns, Sent, Running
      <4>2. flush.base # None
        <5>1. flush \in Flush
          BY <4>1 DEF TypeOK
        <5>2. flush.base \in Text
          BY <5>1 DEF Flush
        <5> QED
          BY <5>2, NoneAssumption
      <4> QED
        BY <3>1, <3>4, <4>1, <4>2
    <3> QED
      BY <1>9, <3>1, <3>2, <3>3, <3>4
  <2> QED
    BY <2>1, <2>2
<1>11. Moves
  <2>1. \A q \in {"put", "conflict", "refresh"} : job'[q].st = "none" <=> job[q].st = "none"
    BY <1>1, <1>7, Names DEF ServedTo
  <2>2. /\ job'["put"].text = job["put"].text /\ job'["put"].base = job["put"].base
        /\ job["put"].st \in Done => job'["put"].st \in Done
        /\ job'["put"].st \in Done /\ job["put"].st \notin Done => Lasting' = job["put"].text
    <3>1. CASE r = "put"
      <4>1. job[r].st # "get"
        BY <1>5, <3>1 DEF ReadBy
      <4> QED
        BY <1>1, <1>7, <1>8, <3>1, <4>1 DEF ServedTo
    <3>2. CASE r # "put"
      BY <1>7, <3>2, Names
    <3> QED
      BY <3>1, <3>2
  <2>3. \/ Lasting \subseteq Lasting'
        \/ resolving /\ job["put"].st \notin Done /\ job'["put"].st \in Done
    BY <1>7, <1>8, <1>10 DEF Done
  <2>4. ASSUME NEW q \in {"conflict", "refresh"}, job'[q].st \in {"got", "gotten"}
        PROVE  IF job[q].st \in {"got", "gotten"}
               THEN job'[q].text = job[q].text
               ELSE job'[q].text = Lasting /\ Lasting' = Lasting /\ disk' = Lasting
    <3>1. CASE r = q
      BY <1>1, <1>7, <1>8, <2>4, <3>1 DEF ServedTo
    <3>2. CASE r # q
      BY <1>7, <2>4, <3>2, Names
    <3> QED
      BY <3>1, <3>2
  <2> QED
    BY <1>1, <2>1, <2>2, <2>3, <2>4 DEF Moves
<1> QED
  BY <1>4, <1>10, <1>11

\* Requests that the editor does not wait for tell it nothing.
LEMMA ElsewhereMoves ==
    ASSUME TypeOK, UNCHANGED editorVars, Lasting \subseteq Lasting',
           \A q \in {"put", "conflict", "refresh"} : job'[q] = job[q]
    PROVE  Moves
<1>1. job["put"] = job'["put"] /\ job'["conflict"] = job["conflict"]
      /\ job'["refresh"] = job["refresh"]
  OBVIOUS
<1> QED
  BY <1>1 DEF Moves

LEMMA AgentMoves ==
    ASSUME TypeOK, Serving, NEW a \in Agents, AgentReads(a) \/ AgentWrites(a) \/ AgentDone(a)
    PROVE  Serving' /\ Moves /\ disk' = disk
<1>1. disk' = disk /\ UNCHANGED editorVars
  BY DEF AgentReads, AgentWrites, AgentDone
<1>2. a \in Requests /\ a \notin {"put", "conflict", "refresh", "links"}
  BY Names
<1>3. ReadBy(a, job[a], disk) /\ job[a] \in Job
  BY <1>2 DEF Serving, TypeOK
<1>4. PICK j \in Job : /\ job' = [job EXCEPT ![a] = j]
                       /\ j.st \notin OnDisk /\ ReadBy(a, j, disk)
  <2>1. CASE AgentReads(a)
    <3>1. ReadBy(a, Get, disk) /\ Get.st \notin OnDisk
      BY <1>2, Jobs DEF ReadBy, OnDisk
    <3> QED
      BY <2>1, <3>1, Jobs DEF AgentReads
  <2>2. CASE AgentWrites(a)
    <3> DEFINE text == job[a].text \cup {Fresh}
               base == job[a].seen
               j == Put(text, base)
    <3>1. base \in Text /\ text \in Text
      BY <1>3, <2>2, Jobs, FreshText DEF AgentWrites
    <3>2. base # None /\ base \subseteq text
      BY <1>3, <2>2, <3>1, NoneAssumption DEF AgentWrites, ReadBy
    <3> HIDE DEF text, base
    <3>3. j \in Job /\ j.st = "check" /\ j.base = base /\ j.text = text
      BY <3>1, PutIs
    <3> HIDE DEF j
    <3>4. ReadBy(a, j, disk) /\ j.st \notin OnDisk
      BY <1>2, <3>2, <3>3 DEF ReadBy, OnDisk
    <3> QED
      BY <2>2, <3>3, <3>4 DEF AgentWrites, j, text, base
  <2>3. CASE AgentDone(a)
    <3>1. ReadBy(a, Idle, disk) /\ Idle.st \notin OnDisk
      BY <1>2, Jobs DEF ReadBy, OnDisk
    <3> QED
      BY <2>3, <3>1, Jobs DEF AgentDone
  <2> QED
    BY <2>1, <2>2, <2>3
<1>5. job'[a] = j /\ \A s \in Requests \ {a} : job'[s] = job[s]
  BY <1>2, <1>4 DEF TypeOK
<1>6. Serving'
  BY <1>1, <1>2, <1>4, ServingStep
<1>7. Lasting' = Lasting /\ \A q \in {"put", "conflict", "refresh"} : job'[q] = job[q]
  BY <1>1, <1>2, <1>5, Names DEF Lasting
<1> QED
  BY <1>1, <1>6, <1>7, ElsewhereMoves

LEMMA LinksMoves ==
    ASSUME TypeOK, ~Overtaken, Serving, PlanLinks \/ MoveLinked
    PROVE  /\ Serving' /\ Moves
           /\ disk \ disk' \subseteq IF job["links"].st = "back"
                                     THEN job["links"].text \ job["links"].seen ELSE {}
<1>1. "links" \in Requests /\ "links" \notin {"put", "conflict", "refresh"} \cup Agents
  BY Names
<1>2. ReadBy("links", job["links"], disk) /\ job["links"] \in Job
  BY <1>1 DEF Serving, TypeOK
<1>3. ASSUME NEW j \in Job, job' = [job EXCEPT !["links"] = j], MayStep("links"),
             UNCHANGED editorVars, ReadBy("links", j, disk'), Lasting \subseteq Lasting'
      PROVE  Serving' /\ Moves
  <2>1. job'["links"] = j /\ \A s \in Requests \ {"links"} : job'[s] = job[s]
    BY <1>1, <1>3 DEF TypeOK
  <2>2. \A q \in {"put", "conflict", "refresh"} : job'[q] = job[q]
    BY <1>1, <2>1, Names
  <2>3. Serving'
    BY <1>1, <1>3, Alternate, ServingStep
  <2> QED
    BY <1>3, <2>2, <2>3, ElsewhereMoves
<1>4. ASSUME NEW j \in Job, job' = [job EXCEPT !["links"] = j]
      PROVE  Lasting' = IF j.st \in {"others", "back"} THEN j.seen ELSE disk'
  BY <1>1, <1>4 DEF Lasting, TypeOK
<1>5. {"apply", "rewrite", "others", "back"} \subseteq Stage
  BY DEF Stage
<1>6. CASE PlanLinks
  <2> DEFINE text == disk \cup {Fresh}
             j == [Idle EXCEPT !.st = "apply", !.text = text]
  <2>1. text \in Text
    BY <1>6, FreshText DEF TypeOK, PlanLinks
  <2>2. /\ disk' = disk /\ MayStep("links") /\ UNCHANGED editorVars
        /\ job["links"].st = "none" /\ job' = [job EXCEPT !["links"] = j]
    BY <1>6 DEF PlanLinks
  <2>3. disk \subseteq text
    OBVIOUS
  <2> HIDE DEF text
  <2>4. j \in Job /\ j.st = "apply" /\ j.text = text
    BY <1>5, <2>1, Jobs DEF Job
  <2> HIDE DEF j
  <2>5. ReadBy("links", j, disk')
    BY <1>1, <2>2, <2>3, <2>4 DEF ReadBy
  <2>6. Lasting \subseteq Lasting'
    BY <1>4, <2>2, <2>4 DEF Lasting
  <2> QED
    BY <1>3, <2>2, <2>4, <2>5, <2>6
<1>7. CASE ReadOriginal
  <2> DEFINE j == [job["links"] EXCEPT !.st = "rewrite", !.seen = disk]
  <2>1. /\ disk' = disk /\ MayStep("links") /\ UNCHANGED editorVars
        /\ job["links"].st = "apply" /\ job' = [job EXCEPT !["links"] = j]
    BY <1>7 DEF ReadOriginal, Goes
  <2>2. j \in Job /\ j.st = "rewrite" /\ j.text = job["links"].text /\ j.seen = disk
    BY <1>2, <1>5, Jobs DEF Job, TypeOK
  <2> HIDE DEF j
  <2>3. ReadBy("links", j, disk')
    BY <1>1, <1>2, <2>1, <2>2 DEF ReadBy
  <2>4. Lasting \subseteq Lasting'
    BY <1>4, <2>1, <2>2 DEF Lasting
  <2> QED
    BY <1>3, <2>1, <2>2, <2>3, <2>4
<1>8. CASE RewriteLinks
  <2> DEFINE j == [job["links"] EXCEPT !.st = "others"]
  <2>1. /\ disk' = job["links"].text /\ MayStep("links") /\ UNCHANGED editorVars
        /\ job["links"].st = "rewrite" /\ job' = [job EXCEPT !["links"] = j]
    BY <1>8 DEF RewriteLinks, Goes
  <2>2. /\ j \in Job /\ j.st = "others" /\ j.text = job["links"].text
        /\ j.seen = job["links"].seen
    BY <1>2, <1>5, Jobs DEF Job
  <2> HIDE DEF j
  <2>3. disk \subseteq job["links"].text /\ job["links"].seen = disk
    BY <1>2, <2>1 DEF ReadBy
  <2>4. ReadBy("links", j, disk')
    BY <1>1, <2>1, <2>2, <2>3 DEF ReadBy
  <2>5. Lasting \subseteq Lasting'
    BY <1>4, <2>1, <2>2, <2>3 DEF Lasting
  <2> QED
    BY <1>3, <2>1, <2>2, <2>3, <2>4, <2>5
<1>9. CASE RewriteOthers
  <2>1. /\ disk' = disk /\ MayStep("links") /\ UNCHANGED editorVars
        /\ job["links"].st = "others"
    BY <1>9 DEF RewriteOthers, Goes
  <2>2. job["links"].text = disk /\ job["links"].seen \subseteq disk
    BY <1>2, <2>1 DEF ReadBy
  <2>3. CASE Goes("links", "others", Idle)
    <3>1. ReadBy("links", Idle, disk')
      BY <1>1, Jobs DEF ReadBy
    <3>2. Lasting \subseteq Lasting'
      <4>1. job' = [job EXCEPT !["links"] = Idle]
        BY <2>3 DEF Goes
      <4>2. Lasting' = IF Idle.st \in {"others", "back"} THEN Idle.seen ELSE disk'
        BY <1>4, <4>1, Jobs
      <4> QED
        BY <2>1, <2>2, <4>2, Jobs DEF Lasting
    <3> QED
      BY <1>3, <2>1, <2>3, <3>1, <3>2, Jobs DEF Goes
  <2>4. CASE Goes("links", "others", [job["links"] EXCEPT !.st = "back"])
    <3> DEFINE j == [job["links"] EXCEPT !.st = "back"]
    <3>1. job' = [job EXCEPT !["links"] = j]
      BY <2>4 DEF Goes
    <3>2. /\ j \in Job /\ j.st = "back" /\ j.text = job["links"].text
          /\ j.seen = job["links"].seen
      BY <1>2, <1>5, Jobs DEF Job
    <3> HIDE DEF j
    <3>3. ReadBy("links", j, disk')
      BY <1>1, <2>1, <2>2, <3>2 DEF ReadBy
    <3>4. Lasting \subseteq Lasting'
      BY <1>4, <2>1, <3>1, <3>2 DEF Lasting
    <3> QED
      BY <1>3, <2>1, <3>1, <3>2, <3>3, <3>4
  <2> QED
    BY <1>9, <2>3, <2>4 DEF RewriteOthers
<1>10. CASE RollBack
  <2>1. /\ disk' = job["links"].seen /\ MayStep("links") /\ UNCHANGED editorVars
        /\ job["links"].st = "back" /\ job' = [job EXCEPT !["links"] = Idle]
    BY <1>10 DEF RollBack, Goes
  <2>2. job["links"].text = disk
    BY <1>2, <2>1 DEF ReadBy
  <2>3. ReadBy("links", Idle, disk')
    BY <1>1, Jobs DEF ReadBy
  <2>4. Lasting \subseteq Lasting'
    <3>1. Lasting' = IF Idle.st \in {"others", "back"} THEN Idle.seen ELSE disk'
      BY <1>4, <2>1, Jobs
    <3> QED
      BY <2>1, <3>1, Jobs DEF Lasting
  <2> QED
    BY <1>3, <2>1, <2>2, <2>3, <2>4, Jobs
<1> QED
  BY <1>6, <1>7, <1>8, <1>9, <1>10 DEF MoveLinked

\* Every choice of a step of the server that is open to it leaves the editor's view
\* true.
LEMMA MovesKept ==
    ASSUME TypeOK, Turns, Sent, Known, Moves
    PROVE  Turns' /\ Sent' /\ Known'
<1>1. UNCHANGED <<tab, mirror, buffer, typed, durable, flush, timer, resolving, failed, mine>>
  BY DEF Moves, editorVars
<1>2. /\ Running("put")' <=> Running("put")
      /\ Running("conflict")' <=> Running("conflict")
      /\ Running("refresh")' <=> Running("refresh")
  BY DEF Moves, Running
<1>3. Turns'
  BY <1>1, <1>2 DEF Turns
<1>4. /\ job'["put"].text = job["put"].text /\ job'["put"].base = job["put"].base
      /\ job["put"].st \in Done => job'["put"].st \in Done
      /\ job'["put"].st \in Done /\ job["put"].st \notin Done => Lasting' = job["put"].text
      /\ \/ Lasting \subseteq Lasting'
         \/ resolving /\ job["put"].st \notin Done /\ job'["put"].st \in Done
  BY DEF Moves
<1>5. job["put"].st \in Done => Running("put")
  BY DEF Done, Running
<1>6. job'["put"].st \in Done => Running("put")'
  BY DEF Done, Running
<1>7. Sent'
  <2>1. ASSUME flush # None, Running("put")
        PROVE  /\ job'["put"].text = flush.content /\ job'["put"].base = flush.base
               /\ flush.base \subseteq flush.content
    BY <1>4, <2>1 DEF Sent
  <2>2. ASSUME flush # None, job'["put"].st \in Done
        PROVE  flush.content \subseteq Lasting'
    <3>1. job["put"].text = flush.content
      BY <1>2, <1>6, <2>2 DEF Sent
    <3>2. ~resolving
      BY <2>2 DEF Turns
    <3> QED
      BY <1>4, <2>2, <3>1, <3>2 DEF Sent
  <2>3. flush # None => flush.content \subseteq buffer
    BY DEF Sent
  <2>4. ASSUME resolving
        PROVE  job'["put"].base = None /\ job'["put"].text = tab.conflict.text
    BY <1>4, <2>4 DEF Sent
  <2> QED
    BY <1>1, <1>2, <2>1, <2>2, <2>3, <2>4 DEF Sent
<1>8. Known'
  <2>1. Carries(tab.content)' /\ (tab.open /\ tab.conflict = None => Carries(Shown))'
    <3>1. Shown' = Shown
      BY <1>1 DEF Shown
    <3> QED
      BY <1>1, <3>1 DEF Known, Carries
  <2>2. Overwrote => Overwrote' /\ Lasting \subseteq Lasting'
    BY <1>1, <1>4 DEF Overwrote
  <2>3. ~Overwrote' => ~Overwrote /\ Lasting \subseteq Lasting'
    BY <1>1, <1>4 DEF Overwrote
  <2>4. Overwrote' => tab.conflict.text \subseteq Lasting'
    <3>1. CASE Overwrote
      BY <2>2, <3>1 DEF Known
    <3>2. CASE ~Overwrote
      BY <1>1, <1>4, <3>2 DEF Overwrote, Sent
    <3> QED
      BY <3>1, <3>2
  <2>5. ~Overwrote' => /\ durable # None => durable.version \subseteq Lasting'
                       /\ tab.conflict # None => tab.conflict.disk \subseteq Lasting'
    BY <2>3 DEF Known
  <2>6. tab.conflict # None => tab.conflict.disk = tab.conflict.version
    BY DEF Known
  <2>7. ASSUME NEW q \in {"conflict", "refresh"}, job'[q].st \in {"got", "gotten"}
        PROVE  /\ job[q].st # "none"
               /\ \/ job[q].st \in {"got", "gotten"} /\ job'[q].text = job[q].text
                  \/ job'[q].text = Lasting /\ Lasting' = Lasting
    BY <2>7 DEF Moves
  <2>8. ASSUME job'["refresh"].st \in {"got", "gotten"}, durable # None
        PROVE  durable.version \subseteq job'["refresh"].text
    <3>1. ~resolving
      BY <2>7, <2>8 DEF Turns, Running
    <3>2. durable.version \subseteq Lasting
      BY <2>8, <3>1 DEF Known, Overwrote
    <3> QED
      BY <2>7, <2>8, <3>2 DEF Known
  <2>9. ASSUME job'["conflict"].st \in {"got", "gotten"}
        PROVE  job'["conflict"].text \subseteq Lasting'
    <3>1. flush # None /\ ~resolving
      BY <2>7, <2>9 DEF Turns, Running
    <3>2. Lasting \subseteq Lasting'
      BY <1>4, <3>1
    <3> QED
      BY <2>7, <2>9, <3>2 DEF Known
  <2> QED
    BY <1>1, <2>1, <2>4, <2>5, <2>6, <2>8, <2>9 DEF Known
<1> QED
  BY <1>3, <1>7, <1>8

-----------------------------------------------------------------------------
(* The steps of the editor. *)

\* The editor sends a request, or has read the answer.
LEMMA EditorServes ==
    ASSUME TypeOK, Serving, disk' = disk, NEW q \in {"put", "conflict", "refresh"}, NEW j \in Job,
           job' = [job EXCEPT ![q] = j],
           j.st = "none" \/ (j.st = "get" /\ q # "put") \/ (j.st = "check" /\ q = "put")
    PROVE  /\ Serving' /\ Lasting' = Lasting
           /\ job'[q] = j /\ \A s \in Requests \ {q} : job'[s] = job[s]
<1>1. q \in Requests /\ "links" \in Requests \ {q} /\ q \notin Agents
  BY Names
<1>2. job'[q] = j /\ \A s \in Requests \ {q} : job'[s] = job[s]
  BY <1>1 DEF TypeOK
<1>3. j.st \notin OnDisk /\ ReadBy(q, j, disk)
  BY <1>1 DEF OnDisk, ReadBy
<1>4. Serving'
  BY <1>1, <1>3, ServingStep
<1>5. Lasting' = Lasting
  BY <1>1, <1>2 DEF Lasting
<1> QED
  BY <1>2, <1>4, <1>5

\* The editor changes nothing that the server knows.
LEMMA EditorKeeps ==
    ASSUME TypeOK, Serving, UNCHANGED <<disk, job>>
    PROVE  /\ Serving' /\ Lasting' = Lasting
           /\ Running("put")' = Running("put") /\ Running("conflict")' = Running("conflict")
           /\ Running("refresh")' = Running("refresh")
BY DEF Serving, Lasting, Running

LEMMA RenderKept ==
    ASSUME TypeOK, Serving, Turns, Sent, Known, Render
    PROVE  Serving' /\ Turns' /\ Sent' /\ Known'
<1>1. /\ mirror # tab /\ mirror' = tab /\ buffer' = Shown
      /\ UNCHANGED <<disk, job, tab, durable, flush, typed, resolving>>
  BY DEF Render, Shown
<1>2. Serving' /\ Lasting' = Lasting
  BY <1>1, EditorKeeps
<1>3. flush = None /\ ~resolving /\ ~Running("refresh") /\ ~Running("put") /\ ~Running("conflict")
  BY <1>1 DEF Turns
<1>4. Turns'
  BY <1>1, <1>3 DEF Turns, Running
<1>5. Sent'
  BY <1>1, <1>3 DEF Sent
<1>6. Shown' = Shown
  BY <1>1 DEF Shown
<1>7. Known'
  <2>1. Carries(tab.content)' /\ (tab.open /\ tab.conflict = None => Carries(Shown))'
    BY <1>1, <1>6 DEF Known, Carries
  <2>2. ~Overwrote /\ ~Overwrote'
    BY <1>1, <1>3 DEF Overwrote
  <2> QED
    BY <1>1, <1>2, <2>1, <2>2 DEF Known
<1> QED
  BY <1>2, <1>4, <1>5, <1>7

LEMMA TypeKept ==
    ASSUME TypeOK, Serving, Turns, Sent, Known, ~Late, Type
    PROVE  Serving' /\ Turns' /\ Sent' /\ Known'
<1>1. /\ mirror = tab /\ ~Running("refresh") /\ mirror.open /\ mirror.conflict = None
      /\ buffer' = buffer \cup {Fresh} /\ typed' = TRUE
      /\ tab' = [tab EXCEPT !.dirty = TRUE]
      /\ UNCHANGED <<disk, job, mirror, durable, flush, resolving>>
  BY DEF Type, Mounted, Quiet, Running
<1>2. Serving' /\ Lasting' = Lasting
  BY <1>1, EditorKeeps
<1>3. /\ tab'.open = tab.open /\ tab'.content = tab.content /\ tab'.version = tab.version
      /\ tab'.conflict = tab.conflict /\ tab'.dirty = TRUE
      /\ tab.dirty => tab' = tab
  BY <1>1 DEF TypeOK, Tab
<1>4. ~resolving
  BY <1>1 DEF Turns
<1>5. Turns'
  BY <1>1, <1>3, <1>4 DEF Turns, Running
<1>6. Sent'
  BY <1>1, <1>2, <1>4 DEF Sent, Running
<1>7. Known'
  <2>1. Carries(tab.content)'
    BY <1>1, <1>3 DEF Known, Carries
  <2>2. Shown = buffer /\ Shown' = buffer'
    BY <1>1, <1>3 DEF Shown
  <2>3. (tab.open /\ tab.conflict = None => Carries(Shown))'
    BY <1>1, <1>3, <2>2 DEF Known, Carries
  <2>4. ~Overwrote /\ ~Overwrote'
    BY <1>1, <1>4 DEF Overwrote
  <2> QED
    BY <1>1, <1>2, <1>3, <2>1, <2>3, <2>4 DEF Known
<1> QED
  BY <1>2, <1>5, <1>6, <1>7

LEMMA FlushSaveKept ==
    ASSUME TypeOK, Serving, Turns, Sent, Known, ~Late, NEW close \in BOOLEAN, FlushSave(close)
    PROVE  Serving' /\ Turns' /\ Sent' /\ Known'
<1> DEFINE base == IF Lags THEN durable.version ELSE mirror.version
           clean == ~typed /\ ~mirror.dirty
<1>1. /\ mirror = tab /\ ~Running("refresh") /\ tab.open /\ tab.conflict = None /\ flush = None
      /\ UNCHANGED <<disk, mirror, buffer, durable, resolving>>
  BY DEF FlushSave, Mounted, Quiet, Running
<1>2. ~resolving /\ ~Running("put") /\ ~Running("conflict")
  BY <1>1 DEF Turns
<1>3. Shown = buffer /\ Carries(buffer)
  BY <1>1 DEF Shown, Known
<1>4. \/ /\ typed' = FALSE
         /\ tab' = [tab EXCEPT !.dirty = IF clean THEN @ ELSE FALSE, !.open = ~close]
         /\ UNCHANGED <<job, flush>>
      \/ /\ ~clean
         /\ flush' = [content |-> buffer, base |-> base, close |-> close, lags |-> Lags]
         /\ job' = [job EXCEPT !["put"] = Put(buffer, base)]
         /\ UNCHANGED <<typed, tab>>
  BY DEF FlushSave
<1>5. ~Overwrote /\ (UNCHANGED resolving => ~Overwrote')
  BY <1>2 DEF Overwrote
<1>6. CASE /\ typed' = FALSE
           /\ tab' = [tab EXCEPT !.dirty = IF clean THEN @ ELSE FALSE, !.open = ~close]
           /\ UNCHANGED <<job, flush>>
  <2> HIDE DEF base, clean
  <2>1. /\ tab'.content = tab.content /\ tab'.version = tab.version
        /\ tab'.conflict = tab.conflict
    BY <1>6 DEF TypeOK, Tab
  <2>2. Serving' /\ Lasting' = Lasting
    BY <1>1, <1>6, EditorKeeps
  <2>3. Turns'
    BY <1>1, <1>2, <1>6, <2>1 DEF Turns, Running
  <2>4. Sent'
    BY <1>1, <1>2, <1>6, <2>2 DEF Sent
  <2>5. Carries(tab.content)' /\ Carries(Shown)'
    <3>1. Carries(tab.content)' /\ Carries(buffer)'
      BY <1>1, <1>3, <2>1 DEF Known, Carries
    <3>2. Shown' = tab'.content \/ Shown' = buffer'
      BY DEF Shown
    <3> QED
      BY <3>1, <3>2 DEF Carries
  <2>6. Known'
    BY <1>1, <1>5, <1>6, <2>1, <2>2, <2>5 DEF Known
  <2> QED
    BY <2>2, <2>3, <2>4, <2>6
<1>7. CASE /\ ~clean
           /\ flush' = [content |-> buffer, base |-> base, close |-> close, lags |-> Lags]
           /\ job' = [job EXCEPT !["put"] = Put(buffer, base)]
           /\ UNCHANGED <<typed, tab>>
  <2>1. tab.dirty
    BY <1>1, <1>7 DEF Turns
  <2>2. base \in Text /\ base \subseteq buffer
    <3>1. tab.version \in Text
      BY DEF TypeOK, Tab
    <3>2. Lags => durable # None /\ durable.version \in Text
      BY DEF Lags, TypeOK, Baseline
    <3> QED
      BY <1>1, <1>3, <3>1, <3>2 DEF Carries
  <2>3. buffer \in Text
    BY DEF TypeOK
  <2> HIDE DEF base, clean
  <2>4. /\ flush' # None /\ flush'.content = buffer /\ flush'.base = base
    <3>1. flush' \in Flush
      BY <1>7, <2>2, <2>3 DEF Flush, Lags
    <3> QED
      BY <1>7, <3>1, NoneAssumption
  <2>5. /\ Put(buffer, base) \in Job /\ Put(buffer, base).st = "check"
        /\ Put(buffer, base).text = buffer /\ Put(buffer, base).base = base
    BY <2>2, <2>3, PutIs
  <2>6. /\ Serving' /\ Lasting' = Lasting
        /\ job'["put"] = Put(buffer, base) /\ \A s \in Requests \ {"put"} : job'[s] = job[s]
    BY <1>1, <1>7, <2>5, EditorServes
  <2>7. Running("put")' /\ ~Running("conflict")' /\ ~Running("refresh")'
    BY <1>1, <1>2, <2>5, <2>6, Names DEF Running
  <2>8. Turns'
    <3>1. UNCHANGED <<tab, typed, mirror, resolving>>
      BY <1>1, <1>7
    <3>2. typed => tab.dirty
      BY <2>1
    <3> QED
      BY <1>1, <1>2, <2>1, <2>4, <2>7, <3>1, <3>2 DEF Turns
  <2>9. Sent'
    BY <1>1, <1>2, <2>2, <2>4, <2>5, <2>6 DEF Sent, Done
  <2>10. Known'
    <3>1. Carries(tab.content)' /\ Carries(Shown)'
      BY <1>1, <1>3, <1>7 DEF Known, Carries, Shown
    <3>2. job'["refresh"].st \notin {"got", "gotten"} /\ job'["conflict"].st \notin {"got", "gotten"}
      BY <2>7 DEF Running
    <3> QED
      BY <1>1, <1>5, <1>7, <2>6, <3>1, <3>2 DEF Known
  <2> QED
    BY <2>6, <2>8, <2>9, <2>10
<1> QED
  BY <1>4, <1>6, <1>7

LEMMA SavedKept ==
    ASSUME TypeOK, Serving, Turns, Sent, Known, Saved
    PROVE  Serving' /\ Turns' /\ Sent' /\ Known'
<1>1. /\ flush # None /\ flush' = None /\ job["put"].st = "ok" /\ flush \in Flush
      /\ job' = [job EXCEPT !["put"] = Idle]
      /\ UNCHANGED <<disk, mirror, buffer, resolving>>
      /\ typed' = (buffer # flush.content)
  BY DEF Saved, TypeOK
<1>2. /\ mirror = tab /\ tab.open /\ ~Running("refresh") /\ ~resolving /\ tab.conflict = None
      /\ tab.dirty /\ ~Running("conflict") /\ Running("put")
  BY <1>1 DEF Turns, Running
<1>3. job["put"].seen = flush.content /\ flush.content \subseteq Lasting
      /\ flush.content \subseteq buffer
  <2>1. job["put"].seen = job["put"].text
    BY <1>1, Names DEF Serving, ReadBy
  <2> QED
    BY <1>1, <1>2, <2>1 DEF Sent, Done
<1>4. /\ tab'.content = flush.content /\ tab'.version = flush.content
      /\ tab'.dirty = (buffer # flush.content) /\ tab'.conflict = None
  <2>1. tab' = [tab EXCEPT !.content = flush.content, !.version = job["put"].seen,
                           !.dirty = IF buffer = flush.content THEN FALSE ELSE @,
                           !.open = @ /\ ~flush.close]
    BY DEF Saved
  <2>2. tab.dirty = TRUE
    BY <1>2 DEF TypeOK, Tab
  <2> QED
    BY <1>2, <1>3, <2>1, <2>2 DEF TypeOK, Tab
<1>5. durable'.version = flush.content
  BY <1>3 DEF Saved
<1>6. /\ Serving' /\ Lasting' = Lasting
      /\ job'["put"] = Idle /\ \A s \in Requests \ {"put"} : job'[s] = job[s]
  BY <1>1, Jobs, EditorServes
<1>7. ~Running("put")' /\ ~Running("conflict")' /\ ~Running("refresh")'
  BY <1>2, <1>6, Names, Jobs DEF Running
<1>8. Turns'
  BY <1>1, <1>2, <1>4, <1>7 DEF Turns
<1>9. Sent'
  BY <1>1, <1>2 DEF Sent
<1>10. Known'
  <2>1. Shown' = flush.content \/ Shown' = buffer
    BY <1>1, <1>4 DEF Shown
  <2>2. Carries(tab.content)' /\ Carries(Shown)'
    BY <1>3, <1>4, <1>5, <2>1 DEF Carries
  <2>3. job'["refresh"].st \notin {"got", "gotten"} /\ job'["conflict"].st \notin {"got", "gotten"}
    BY <1>7 DEF Running
  <2>4. ~Overwrote'
    BY <1>1, <1>2 DEF Overwrote
  <2> QED
    BY <1>3, <1>4, <1>5, <1>6, <2>2, <2>3, <2>4 DEF Known
<1> QED
  BY <1>6, <1>8, <1>9, <1>10

LEMMA RefusedKept ==
    ASSUME TypeOK, Serving, Turns, Sent, Known, Refused
    PROVE  Serving' /\ Turns' /\ Sent' /\ Known'
<1>1. /\ flush # None /\ job["put"].st = "changed"
      /\ job' = [job EXCEPT !["put"] = Idle, !["conflict"] = Get]
      /\ UNCHANGED <<disk, tab, mirror, buffer, typed, durable, flush, resolving>>
  BY DEF Refused, editorVars
<1>2. /\ mirror = tab /\ tab.open /\ ~Running("refresh") /\ ~resolving /\ tab.conflict = None
      /\ tab.dirty /\ ~Running("conflict") /\ Running("put")
  BY <1>1 DEF Turns, Running
<1>3. /\ job'["put"] = Idle /\ job'["conflict"] = Get
      /\ \A s \in Requests \ {"put", "conflict"} : job'[s] = job[s]
  BY <1>1, Names DEF TypeOK
<1>4. Serving'
  <2>1. job' \in [Requests -> Job]
    BY <1>1, Jobs DEF TypeOK
  <2>2. Idle.st \notin OnDisk /\ ReadBy("put", Idle, disk)
    BY Jobs, Names DEF OnDisk, ReadBy
  <2>3. Get.st \notin OnDisk /\ ReadBy("conflict", Get, disk)
    BY Jobs, Names DEF OnDisk, ReadBy
  <2> QED
    BY <1>1, <1>3, <2>1, <2>2, <2>3, ServingQuiet
<1>5. ~Running("put")' /\ Running("conflict")' /\ ~Running("refresh")'
  BY <1>2, <1>3, Names, Jobs DEF Running
<1>6. Lasting' = Lasting
  <2>1. job'["links"] = job["links"]
    BY <1>3, Names
  <2> QED
    BY <1>1, <2>1 DEF Lasting
<1>7. Turns'
  BY <1>1, <1>2, <1>5 DEF Turns
<1>8. Sent'
  BY <1>1, <1>2, <1>3, <1>5, Jobs DEF Sent, Done
<1>9. Known'
  <2>1. Shown' = Shown
    BY <1>1 DEF Shown
  <2>2. Carries(tab.content)' /\ Carries(Shown)'
    BY <1>1, <1>2, <2>1 DEF Known, Carries
  <2>3. job'["refresh"].st \notin {"got", "gotten"} /\ job'["conflict"].st \notin {"got", "gotten"}
    BY <1>3, <1>5, Jobs DEF Running
  <2>4. ~Overwrote /\ ~Overwrote'
    BY <1>1, <1>2 DEF Overwrote
  <2> QED
    BY <1>1, <1>6, <2>2, <2>3, <2>4 DEF Known
<1> QED
  BY <1>4, <1>7, <1>8, <1>9

LEMMA ShowConflictKept ==
    ASSUME TypeOK, Serving, Turns, Sent, Known, ShowConflict
    PROVE  Serving' /\ Turns' /\ Sent' /\ Known'
<1> DEFINE c == [disk |-> job["conflict"].text, version |-> job["conflict"].seen,
                 text |-> EditorText]
<1>1. /\ flush # None /\ flush' = None /\ job["conflict"].st = "gotten"
      /\ job' = [job EXCEPT !["conflict"] = Idle] /\ tab' = [tab EXCEPT !.conflict = c]
      /\ UNCHANGED <<disk, mirror, buffer, typed, durable, resolving>>
  BY DEF ShowConflict
<1>2. /\ mirror = tab /\ tab.open /\ ~Running("refresh") /\ ~resolving /\ tab.conflict = None
      /\ tab.dirty /\ ~Running("put")
  BY <1>1 DEF Turns, Running
<1>3. job["conflict"].text \subseteq Lasting /\ job["conflict"].seen = job["conflict"].text
  BY <1>1, Names DEF Serving, ReadBy, Known
<1>4. c # None /\ c.disk \subseteq Lasting /\ c.disk = c.version
  <2>1. job["conflict"] \in Job
    BY Names DEF TypeOK
  <2>2. job["conflict"].text \in Text /\ job["conflict"].seen \in Text
    BY <2>1, Jobs
  <2>3. EditorText \in Text
    BY DEF TypeOK, EditorText
  <2>4. c \in Conflict
    BY <2>2, <2>3 DEF Conflict
  <2> QED
    BY <1>3, <2>4, NoneAssumption
<1> HIDE DEF c
<1>5. /\ tab'.content = tab.content /\ tab'.version = tab.version /\ tab'.dirty = tab.dirty
      /\ tab'.open = tab.open /\ tab'.conflict = c
  BY <1>1 DEF TypeOK, Tab
<1>6. /\ Serving' /\ Lasting' = Lasting
      /\ job'["conflict"] = Idle /\ \A s \in Requests \ {"conflict"} : job'[s] = job[s]
  BY <1>1, Jobs, EditorServes
<1>7. ~Running("put")' /\ ~Running("conflict")' /\ ~Running("refresh")'
  BY <1>2, <1>6, Names, Jobs DEF Running
<1>8. Turns'
  BY <1>1, <1>2, <1>5, <1>7 DEF Turns
<1>9. Sent'
  BY <1>1, <1>2 DEF Sent
<1>10. Known'
  <2>1. Carries(tab.content)'
    BY <1>1, <1>5 DEF Known, Carries
  <2>2. job'["refresh"].st \notin {"got", "gotten"} /\ job'["conflict"].st \notin {"got", "gotten"}
    BY <1>7 DEF Running
  <2>3. ~Overwrote /\ ~Overwrote'
    BY <1>1, <1>2 DEF Overwrote
  <2> QED
    BY <1>1, <1>4, <1>5, <1>6, <2>1, <2>2, <2>3 DEF Known
<1> QED
  BY <1>6, <1>8, <1>9, <1>10

LEMMA SaveFailedKept ==
    ASSUME TypeOK, Serving, Turns, Sent, Known, SaveFailed
    PROVE  Serving' /\ Turns' /\ Sent' /\ Known'
<1>q. PICK q \in {"put", "conflict"} :
        /\ job' = [job EXCEPT ![q] = Idle]
        /\ q = "put" => job["put"].st = "error"
        /\ q = "conflict" => job["conflict"].st = "gotten"
  BY DEF SaveFailed
<1>1. /\ flush # None /\ flush' = None
      /\ UNCHANGED <<disk, tab, mirror, buffer, typed, durable, resolving>>
  BY DEF SaveFailed
<1>2. /\ mirror = tab /\ tab.open /\ ~Running("refresh") /\ ~resolving /\ tab.conflict = None
      /\ tab.dirty /\ \A s \in {"put", "conflict"} \ {q} : ~Running(s)
  BY <1>1, <1>q DEF Turns, Running
<1>3. /\ Serving' /\ Lasting' = Lasting
      /\ job'[q] = Idle /\ \A s \in Requests \ {q} : job'[s] = job[s]
  <2>1. Idle \in Job /\ Idle.st = "none" /\ q \in {"put", "conflict", "refresh"}
    BY Jobs DEF Idle
  <2>2. disk' = disk /\ job' = [job EXCEPT ![q] = Idle]
    BY <1>1, <1>q
  <2> QED
    BY <2>1, <2>2, EditorServes
<1>4. ~Running("put")' /\ ~Running("conflict")' /\ ~Running("refresh")'
  <2>1. Idle.st = "none"
    BY DEF Idle
  <2>2. CASE q = "put"
    BY <1>2, <1>3, <2>1, <2>2, Names DEF Running
  <2>3. CASE q = "conflict"
    BY <1>2, <1>3, <2>1, <2>3, Names DEF Running
  <2> QED
    BY <2>2, <2>3
<1>5. Turns'
  BY <1>1, <1>2, <1>4 DEF Turns
<1>6. Sent'
  BY <1>1, <1>2 DEF Sent
<1>7. Known'
  <2>1. Shown' = Shown
    BY <1>1 DEF Shown
  <2>2. Carries(tab.content)' /\ Carries(Shown)'
    BY <1>1, <1>2, <2>1 DEF Known, Carries
  <2>3. job'["refresh"].st \notin {"got", "gotten"} /\ job'["conflict"].st \notin {"got", "gotten"}
    BY <1>4 DEF Running
  <2>4. ~Overwrote /\ ~Overwrote'
    BY <1>1, <1>2 DEF Overwrote
  <2> QED
    BY <1>1, <1>3, <2>2, <2>3, <2>4 DEF Known
<1> QED
  BY <1>3, <1>5, <1>6, <1>7

LEMMA RefreshKept ==
    ASSUME TypeOK, Serving, Turns, Sent, Known, ~Late, Refresh
    PROVE  Serving' /\ Turns' /\ Sent' /\ Known'
<1>1. /\ mirror = tab /\ tab.open /\ ~tab.dirty
      /\ job' = [job EXCEPT !["refresh"] = Get]
      /\ UNCHANGED <<disk, tab, mirror, buffer, typed, durable, flush, resolving>>
  BY DEF Refresh, Quiet, editorVars
<1>2. /\ flush = None /\ ~resolving /\ tab.conflict = None /\ ~typed
      /\ ~Running("put") /\ ~Running("conflict")
  BY <1>1 DEF Turns
<1>3. /\ Serving' /\ Lasting' = Lasting
      /\ job'["refresh"] = Get /\ \A s \in Requests \ {"refresh"} : job'[s] = job[s]
  BY <1>1, Jobs, EditorServes
<1>4. ~Running("put")' /\ ~Running("conflict")' /\ Running("refresh")'
  BY <1>2, <1>3, Names, Jobs DEF Running
<1>5. Turns'
  BY <1>1, <1>2, <1>4 DEF Turns
<1>6. Sent'
  BY <1>1, <1>2 DEF Sent
<1>7. Known'
  <2>1. Shown' = Shown
    BY <1>1 DEF Shown
  <2>2. Carries(tab.content)' /\ Carries(Shown)'
    BY <1>1, <1>2, <2>1 DEF Known, Carries
  <2>3. job'["refresh"].st \notin {"got", "gotten"} /\ job'["conflict"].st \notin {"got", "gotten"}
    BY <1>3, <1>4, Jobs DEF Running
  <2>4. ~Overwrote /\ ~Overwrote'
    BY <1>1, <1>2 DEF Overwrote
  <2> QED
    BY <1>1, <1>3, <2>2, <2>3, <2>4 DEF Known
<1> QED
  BY <1>3, <1>5, <1>6, <1>7

LEMMA RefreshedKept ==
    ASSUME TypeOK, Serving, Turns, Sent, Known, Refreshed
    PROVE  Serving' /\ Turns' /\ Sent' /\ Known'
<1>1. /\ job["refresh"].st = "gotten" /\ job' = [job EXCEPT !["refresh"] = Idle]
      /\ UNCHANGED <<disk, mirror, buffer, typed, durable, flush, resolving>>
  BY DEF Refreshed
<1>2. /\ mirror = tab /\ tab.open /\ ~tab.dirty /\ tab.conflict = None /\ ~typed
      /\ flush = None /\ ~resolving /\ ~Running("put") /\ ~Running("conflict")
  BY <1>1 DEF Turns, Running
<1>3. /\ Serving' /\ Lasting' = Lasting
      /\ job'["refresh"] = Idle /\ \A s \in Requests \ {"refresh"} : job'[s] = job[s]
  BY <1>1, Jobs, EditorServes
<1>4. ~Running("put")' /\ ~Running("conflict")' /\ ~Running("refresh")'
  BY <1>2, <1>3, Names, Jobs DEF Running
<1>5. job["refresh"].seen = job["refresh"].text
  BY <1>1, Names DEF Serving, ReadBy
<1>6. \/ tab' = tab
      \/ /\ tab'.content = job["refresh"].text /\ tab'.version = job["refresh"].text
         /\ tab'.content # mirror.content
         /\ tab'.dirty = tab.dirty /\ tab'.conflict = tab.conflict /\ tab'.open = tab.open
  BY <1>1, <1>5 DEF Refreshed, TypeOK, Tab
<1>7. Turns'
  BY <1>1, <1>2, <1>4, <1>6 DEF Turns
<1>8. Sent'
  BY <1>1, <1>2 DEF Sent
<1>9. Known'
  <2>1. Carries(tab.content)' /\ Carries(Shown)'
    <3>1. CASE tab' = tab
      <4>1. Shown' = Shown
        BY <1>1, <3>1 DEF Shown
      <4> QED
        BY <1>1, <1>2, <3>1, <4>1 DEF Known, Carries
    <3>2. CASE tab' # tab
      <4>1. Shown' = tab'.content
        BY <1>1, <1>2, <1>6, <3>2 DEF Shown
      <4>2. durable # None => durable.version \subseteq job["refresh"].text
        BY <1>1 DEF Known
      <4>3. Carries(tab.content)'
        BY <1>1, <1>6, <3>2, <4>2 DEF Carries
      <4> QED
        BY <4>1, <4>3 DEF Carries
    <3> QED
      BY <3>1, <3>2
  <2>2. job'["refresh"].st \notin {"got", "gotten"} /\ job'["conflict"].st \notin {"got", "gotten"}
    BY <1>4 DEF Running
  <2>3. ~Overwrote /\ ~Overwrote'
    BY <1>1, <1>2 DEF Overwrote
  <2>4. tab'.conflict = None
    BY <1>2, <1>6
  <2> QED
    BY <1>1, <1>3, <2>1, <2>2, <2>3, <2>4 DEF Known
<1> QED
  BY <1>3, <1>7, <1>8, <1>9

\* While the user decides about a conflict nothing else is under way.
LEMMA Undecided ==
    ASSUME TypeOK, Turns, Decide
    PROVE  /\ mirror = tab /\ tab.open /\ tab.dirty /\ ~resolving /\ flush = None
           /\ tab.conflict # None /\ tab.conflict \in Conflict
           /\ ~Running("put") /\ ~Running("conflict") /\ ~Running("refresh")
BY DEF Decide, Turns, TypeOK, Tab

\* A conflict that is settled on a text of the file, or on one that carries it.
LEMMA Settled ==
    ASSUME TypeOK, Serving, Turns, Sent, Known,
           NEW content, NEW version, NEW replaced, NEW next, NEW dirty,
           Settle(content, version, replaced, next, dirty),
           mirror = tab, tab.open, tab.conflict # None, flush = None,
           version \subseteq next, version \subseteq Lasting,
           UNCHANGED <<disk, mirror, buffer, flush>>, ~resolving',
           \A q \in {"put", "conflict", "refresh"} : job'[q].st = "none",
           Lasting' = Lasting
    PROVE  Turns' /\ Sent' /\ Known'
<1>1. /\ durable'.version = version /\ typed' = dirty
      /\ tab'.content = next /\ tab'.version = version /\ tab'.dirty = dirty
      /\ tab'.conflict = None /\ tab'.open = tab.open
  BY DEF Settle, TypeOK, Tab
<1>2. ~Running("put")' /\ ~Running("conflict")' /\ ~Running("refresh")'
  BY DEF Running
<1>3. Turns'
  BY <1>1, <1>2 DEF Turns
<1>4. Sent'
  BY DEF Sent
<1>5. Known'
  <2>1. Shown' = tab'.content
    BY <1>1 DEF Shown
  <2>2. Carries(tab.content)'
    BY <1>1 DEF Carries
  <2>3. Carries(Shown)'
    BY <2>1, <2>2 DEF Carries
  <2>4. ~Overwrote'
    BY DEF Overwrote
  <2>5. job'["refresh"].st \notin {"got", "gotten"} /\ job'["conflict"].st \notin {"got", "gotten"}
    OBVIOUS
  <2> QED
    BY <1>1, <2>2, <2>3, <2>4, <2>5 DEF Known
<1> QED
  BY <1>3, <1>4, <1>5

LEMMA DecidedKept ==
    ASSUME TypeOK, Serving, Turns, Sent, Known, Reload \/ Merge \/ Discard
    PROVE  Serving' /\ Turns' /\ Sent' /\ Known'
<1>1. Decide /\ UNCHANGED <<disk, job, mirror, buffer, flush, resolving>>
  BY DEF Reload, Merge, Discard
<1>2. /\ mirror = tab /\ tab.open /\ tab.dirty /\ ~resolving /\ flush = None
      /\ tab.conflict # None /\ tab.conflict \in Conflict
      /\ ~Running("put") /\ ~Running("conflict") /\ ~Running("refresh")
  BY <1>1, Undecided
<1>3. Serving' /\ Lasting' = Lasting
  BY <1>1, EditorKeeps
<1>4. \A q \in {"put", "conflict", "refresh"} : job'[q].st = "none"
  BY <1>1, <1>2 DEF Running
<1>5. tab.conflict.disk = tab.conflict.version /\ tab.conflict.disk \subseteq Lasting
  BY <1>2 DEF Known, Overwrote
<1>6. CASE Reload
  <2>1. Settle(tab.conflict.disk, tab.conflict.version, {tab.version}, tab.conflict.disk, FALSE)
    BY <1>2, <1>6 DEF Reload
  <2> QED
    BY <1>1, <1>2, <1>3, <1>4, <1>5, <2>1, Settled
<1>7. CASE Merge
  <2> DEFINE next == tab.conflict.text \cup tab.conflict.disk
  <2>1. Settle(tab.conflict.disk, tab.conflict.version, {tab.version, tab.conflict.version},
               next, TRUE)
    BY <1>2, <1>7 DEF Merge
  <2>2. tab.conflict.version \subseteq next /\ tab.conflict.version \subseteq Lasting
    BY <1>5
  <2> HIDE DEF next
  <2> QED
    BY <1>1, <1>2, <1>3, <1>4, <2>1, <2>2, Settled
<1>8. CASE Discard
  <2>1. /\ tab'.open = FALSE /\ tab'.conflict = None /\ tab'.dirty = FALSE
        /\ tab'.content = tab.content /\ tab'.version = tab.version
        /\ typed' = FALSE /\ durable' = durable
    BY <1>8 DEF Discard, TypeOK, Tab
  <2>2. Turns'
    BY <1>1, <1>2, <1>4, <2>1 DEF Turns, Running
  <2>3. Sent'
    BY <1>1, <1>2 DEF Sent
  <2>4. Known'
    <3>1. Carries(tab.content)'
      BY <2>1 DEF Known, Carries
    <3>2. ~Overwrote /\ ~Overwrote'
      BY <1>1, <1>2 DEF Overwrote
    <3> QED
      BY <1>3, <1>4, <2>1, <3>1, <3>2 DEF Known
  <2> QED
    BY <1>3, <2>2, <2>3, <2>4
<1> QED
  BY <1>6, <1>7, <1>8

LEMMA OverwriteKept ==
    ASSUME TypeOK, Serving, Turns, Sent, Known, Overwrite
    PROVE  Serving' /\ Turns' /\ Sent' /\ Known'
<1> DEFINE text == mirror.conflict.text
<1>1. /\ Decide /\ resolving' = TRUE /\ job' = [job EXCEPT !["put"] = Put(text, None)]
      /\ UNCHANGED <<disk, tab, mirror, buffer, typed, durable, flush>>
  BY DEF Overwrite
<1>2. /\ mirror = tab /\ tab.open /\ tab.dirty /\ ~resolving /\ flush = None
      /\ tab.conflict # None /\ tab.conflict \in Conflict
      /\ ~Running("put") /\ ~Running("conflict") /\ ~Running("refresh")
  BY <1>1, Undecided
<1>3. text \in Text /\ text = tab.conflict.text
  BY <1>2 DEF Conflict
<1> HIDE DEF text
<1>4. /\ Put(text, None) \in Job /\ Put(text, None).st = "check"
      /\ Put(text, None).text = text /\ Put(text, None).base = None
  BY <1>3, PutIs
<1>5. /\ Serving' /\ Lasting' = Lasting
      /\ job'["put"] = Put(text, None) /\ \A s \in Requests \ {"put"} : job'[s] = job[s]
  BY <1>1, <1>4, EditorServes
<1>6. Running("put")' /\ ~Running("conflict")' /\ ~Running("refresh")'
  BY <1>2, <1>4, <1>5, Names DEF Running
<1>7. Turns'
  BY <1>1, <1>2, <1>6 DEF Turns
<1>8. Sent'
  BY <1>1, <1>2, <1>3, <1>4, <1>5 DEF Sent
<1>9. Known'
  <2>1. Carries(tab.content)'
    BY <1>1 DEF Known, Carries
  <2>2. job'["refresh"].st \notin {"got", "gotten"} /\ job'["conflict"].st \notin {"got", "gotten"}
    BY <1>6 DEF Running
  <2>3. ~Overwrote
    BY <1>2 DEF Overwrote
  <2>4. ~Overwrote'
    BY <1>4, <1>5 DEF Overwrote, Done
  <2> QED
    BY <1>1, <1>2, <1>5, <2>1, <2>2, <2>3, <2>4 DEF Known
<1> QED
  BY <1>5, <1>7, <1>8, <1>9

LEMMA OverwrittenKept ==
    ASSUME TypeOK, Serving, Turns, Sent, Known, Overwritten \/ OverwriteFailed
    PROVE  Serving' /\ Turns' /\ Sent' /\ Known'
<1>1. /\ resolving /\ resolving' = FALSE /\ job' = [job EXCEPT !["put"] = Idle]
      /\ UNCHANGED <<disk, mirror, buffer, flush>>
  BY DEF Overwritten, OverwriteFailed
<1>2. /\ mirror = tab /\ tab.open /\ flush = None /\ tab.conflict # None /\ tab.dirty
      /\ ~Running("conflict") /\ ~Running("refresh")
  BY <1>1 DEF Turns
<1>3. /\ Serving' /\ Lasting' = Lasting
      /\ job'["put"] = Idle /\ \A s \in Requests \ {"put"} : job'[s] = job[s]
  BY <1>1, Jobs, EditorServes
<1>4. \A q \in {"put", "conflict", "refresh"} : job'[q].st = "none"
  <2>1. job'["put"].st = "none"
    BY <1>3, Jobs
  <2>2. job'["conflict"] = job["conflict"] /\ job'["refresh"] = job["refresh"]
    BY <1>3, Names
  <2> QED
    BY <1>2, <2>1, <2>2 DEF Running
<1>5. CASE Overwritten
  <2> DEFINE text == tab.conflict.text
  <2>1. job["put"].st = "ok" /\ Settle(text, job["put"].seen, {tab.version}, text, FALSE)
    BY <1>2, <1>5 DEF Overwritten
  <2>2. job["put"].seen = text
    <3>1. job["put"].seen = job["put"].text
      BY <2>1, Names DEF Serving, ReadBy
    <3> QED
      BY <1>1, <3>1 DEF Sent
  <2>3. text \subseteq Lasting
    BY <1>1, <2>1 DEF Known, Overwrote, Done
  <2> HIDE DEF text
  <2>4. Settle(text, text, {tab.version}, text, FALSE)
    BY <2>1, <2>2
  <2> QED
    BY <1>1, <1>2, <1>3, <1>4, <2>3, <2>4, Settled
<1>6. CASE OverwriteFailed
  <2>1. job["put"].st = "error" /\ UNCHANGED <<tab, typed, durable>>
    BY <1>6 DEF OverwriteFailed
  <2>2. Turns'
    BY <1>1, <1>2, <1>4, <2>1 DEF Turns, Running
  <2>3. Sent'
    BY <1>1, <1>2 DEF Sent
  <2>4. Known'
    <3>1. Carries(tab.content)'
      BY <2>1 DEF Known, Carries
    <3>2. ~Overwrote /\ ~Overwrote'
      BY <1>1, <2>1 DEF Overwrote, Done
    <3> QED
      BY <1>2, <1>3, <1>4, <2>1, <3>1, <3>2 DEF Known
  <2> QED
    BY <1>3, <2>2, <2>3, <2>4
<1> QED
  BY <1>5, <1>6

-----------------------------------------------------------------------------
(* No save erases what its author has not seen. *)

\* The inductive invariant.
Editing == Serving /\ Turns /\ Sent /\ Known

LEMMA EditingInit == Init => Editing
<1> SUFFICES ASSUME Init PROVE Editing
  OBVIOUS
<1>1. /\ tab.conflict = None /\ tab.content = {} /\ tab.version = {} /\ mirror = tab
      /\ buffer = {} /\ ~typed /\ durable = None /\ flush = None /\ ~resolving
  BY DEF Init
<1>2. job["put"] = Idle /\ job["conflict"] = Idle /\ job["refresh"] = Idle
  BY Names DEF Init
<1>3. ~Running("put") /\ ~Running("conflict") /\ ~Running("refresh")
  BY <1>2, Jobs DEF Running
<1>4. Turns /\ Sent
  BY <1>1, <1>3 DEF Turns, Sent
<1>5. Known
  <2>1. Carries(tab.content) /\ Carries(Shown)
    BY <1>1 DEF Carries, Shown
  <2>2. ~Overwrote
    BY <1>1 DEF Overwrote
  <2> QED
    BY <1>1, <1>2, <2>1, <2>2, Jobs DEF Known
<1> QED
  BY <1>4, <1>5, ServingInit DEF Editing

\* What a step may take out of the file.
Erased == IF job["links"].st = "back" THEN job["links"].text \ job["links"].seen ELSE {}

LEMMA EditingStep ==
    ASSUME ~Overtaken, ~Late, TypeOK, Editing, [Next]_vars
    PROVE  Editing' /\ (resolving \/ disk \ disk' \subseteq Erased)
<1>1. Serving /\ Turns /\ Sent /\ Known
  BY DEF Editing
<1>2. ASSUME Serving', Moves PROVE Editing'
  BY <1>1, <1>2, MovesKept DEF Editing
<1>3. ASSUME disk' = disk PROVE disk \ disk' \subseteq Erased
  BY <1>3
<1>4. CASE UNCHANGED vars
  <2>1. UNCHANGED <<disk, job, tab, mirror, buffer, typed, durable, flush, resolving>>
    BY <1>4 DEF vars, editorVars
  <2>2. Editing'
    BY <1>1, <2>1 DEF Editing, Serving, Turns, Sent, Known, Running, Lasting, Overwrote, Carries,
                      Shown
  <2> QED
    BY <1>3, <2>1, <2>2
<1>5. ASSUME NEW r \in Requests, Serve(r)
      PROVE  Editing' /\ (resolving \/ disk \ disk' \subseteq Erased)
  BY <1>1, <1>2, <1>5, ServeMoves
<1>6. ASSUME NEW a \in Agents, AgentReads(a) \/ AgentWrites(a) \/ AgentDone(a)
      PROVE  Editing' /\ disk' = disk
  BY <1>1, <1>2, <1>6, AgentMoves
<1>7. CASE PlanLinks \/ MoveLinked
  BY <1>1, <1>2, <1>7, LinksMoves DEF Erased
<1>8. ASSUME \/ Render \/ Type \/ Saved \/ Refused \/ ShowConflict \/ SaveFailed
             \/ Refresh \/ Refreshed
             \/ \E close \in BOOLEAN : FlushSave(close)
      PROVE  Editing' /\ disk' = disk
  <2>1. disk' = disk
    BY <1>8 DEF Render, Type, Saved, Refused, ShowConflict, SaveFailed, Refresh, Refreshed,
                FlushSave
  <2>2. Editing'
    BY <1>1, <1>8, RenderKept, TypeKept, SavedKept, RefusedKept, ShowConflictKept,
       SaveFailedKept, RefreshKept, RefreshedKept, FlushSaveKept DEF Editing
  <2> QED
    BY <2>1, <2>2
<1>9. ASSUME Reload \/ Merge \/ Discard \/ Overwrite \/ Overwritten \/ OverwriteFailed
      PROVE  Editing' /\ disk' = disk
  <2>1. disk' = disk
    BY <1>9 DEF Reload, Merge, Discard, Overwrite, Overwritten, OverwriteFailed
  <2>2. Editing'
    BY <1>1, <1>9, DecidedKept, OverwriteKept, OverwrittenKept DEF Editing
  <2> QED
    BY <2>1, <2>2
<1> QED
  BY <1>3, <1>4, <1>5, <1>6, <1>7, <1>8, <1>9 DEF Next, Continue

\* When the server serves one request at a time and answers in order, no save of the
\* editor or of an agent takes out of the file an edit that its author has not seen:
\* the version that it names is the file's, and its text carries it.
THEOREM NoSaveErases == ~Overtaken /\ ~Late => (Spec => NothingErased)
<1> SUFFICES ASSUME ~Overtaken, ~Late PROVE Spec => NothingErased
  OBVIOUS
<1>1. Init => TypeOK /\ Sensible /\ Editing
  BY TypeInit, EditingInit DEF Init, Sensible
<1>2. TypeOK /\ Sensible /\ Editing /\ [Next]_vars => TypeOK' /\ Sensible' /\ Editing'
  BY TypeStep, SensibleStep, EditingStep
<1>3. TypeOK /\ Editing /\ [Next]_vars
        => [resolving \/ disk \ disk' \subseteq (IF job["links"].st = "back"
                                                THEN job["links"].text \ job["links"].seen
                                                ELSE {})]_vars
  BY EditingStep DEF Erased
<1> QED
  BY <1>1, <1>2, <1>3, PTL DEF Spec, NothingErased

-----------------------------------------------------------------------------
(* What the user has typed. *)

\* The edits made so far.
Old == 1..edits

\* No text carries an edit that is still to be made.
Made ==
    /\ disk \subseteq Old /\ mine \subseteq Old /\ buffer \subseteq Old /\ tab.content \subseteq Old
    /\ tab.conflict # None => tab.conflict.text \subseteq Old /\ tab.conflict.disk \subseteq Old
    /\ \A r \in Requests : job[r].text \subseteq Old
    /\ job["links"].seen \subseteq Old

\* Agents and moves add no edit of the user to what they have read.
Foreign ==
    /\ \A a \in Agents : job[a].st \in Writing => mine \cap job[a].text \subseteq job[a].base
    /\ job["links"].st = "apply" => mine \cap job["links"].text \subseteq disk
    /\ job["links"].st \in {"rewrite", "others", "back"} =>
         mine \cap job["links"].text \subseteq job["links"].seen

\* The tab as dispatched has a version that its baseline has replaced.
Outdated == durable # None /\ tab.version \in durable.superseded

\* Where the user finds the text.
Visible == IF ~mirror.open THEN {}
           ELSE IF mirror.conflict = None THEN buffer
           ELSE mirror.conflict.text

\* Every edit of the user that no decision has given up is in the text that the tab
\* is about to show; the tab that looks saved, or is gone, has left it in the file.
Typing ==
    /\ durable # None => durable.content = durable.version
    /\ tab.open /\ tab.conflict = None => mine \subseteq Shown
    /\ tab.conflict # None => mine \subseteq tab.conflict.text
    /\ tab.conflict # None /\ ~Overwrote => mine \cap disk \subseteq tab.conflict.disk
    /\ ~tab.open \/ ~tab.dirty => mine \subseteq Lasting
    /\ tab.open /\ tab.conflict = None /\ ~Outdated => tab.content \subseteq Lasting
    /\ job["conflict"].st \in {"got", "gotten"} => mine \cap disk \subseteq job["conflict"].text
    /\ job["refresh"].st \in {"got", "gotten"} => /\ mine \subseteq job["refresh"].text
                                                  /\ job["refresh"].text \subseteq Lasting
    /\ flush # None => (flush.close => buffer = flush.content)
    /\ mine \subseteq Lasting \cup Visible

\* No step of the server puts an edit of the user into the file but the editor's save.
Restored == \/ mine \cap disk' \subseteq disk
            \/ job["put"].st = "write" /\ job'["put"].st = "version"

LEMMA ServeMine ==
    ASSUME TypeOK, ~Overtaken, Serving, Made, Foreign, NEW r \in Requests, Serve(r)
    PROVE  Made' /\ Foreign' /\ Restored
<1>1. PICK j \in Job : /\ job' = [job EXCEPT ![r] = j]
                       /\ MayStep(r) /\ UNCHANGED <<editorVars, edits>>
                       /\ ServedTo(r, j, disk')
  BY Served
<1>2. \A s \in Requests \ {r} : job[s].st \notin OnDisk
  BY <1>1, Alternate
<1>3. ReadBy(r, job[r], disk)
  BY DEF Serving
<1>4. r # "links" /\ "links" \in Requests
  <2>1. job[r].st \notin {"none", "apply", "rewrite", "others", "back"}
    BY DEF Serve, ReadText, ReadVersion, CheckVersion, CompareText, ReadPrevious, WriteText,
           AnswerVersion, Goes
  <2> QED
    BY <1>3, <2>1, Names DEF ReadBy
<1>5. job'[r] = j /\ \A s \in Requests \ {r} : job'[s] = job[s]
  BY <1>1 DEF TypeOK
<1>6. UNCHANGED <<mine, buffer, tab, edits>>
  BY <1>1 DEF editorVars
<1>7. r \in {"put", "conflict", "refresh"} \cup Agents
  BY <1>4 DEF Requests
<1>8. disk' = disk \/ (disk' = job[r].text /\ job[r].st = "write" /\ j.st = "version"
                       /\ job[r].base \in {None, disk})
  BY <1>1 DEF ServedTo
<1>9. j.text = disk \/ j.text = job[r].text
  BY <1>1 DEF ServedTo
<1>10. Made'
  <2>1. disk' \subseteq Old
    BY <1>8 DEF Made
  <2>2. \A s \in Requests : job'[s].text \subseteq Old
    BY <1>5, <1>9 DEF Made
  <2>3. job'["links"] = job["links"]
    BY <1>4, <1>5
  <2> QED
    BY <1>6, <2>1, <2>2, <2>3 DEF Made, Old
<1>11. Foreign'
  <2>1. ASSUME NEW a \in Agents, job'[a].st \in Writing
        PROVE  mine \cap job'[a].text \subseteq job'[a].base
    <3>1. a \in Requests
      BY Names
    <3>2. CASE a = r
      <4>1. job[a].st \in Writing /\ job'[a].base = job[a].base
        BY <1>1, <1>5, <2>1, <3>2 DEF ServedTo
      <4>2. job[a].st # "get"
        BY <4>1 DEF Writing
      <4>3. job'[a].text = job[a].text
        BY <1>1, <1>5, <3>2, <4>2 DEF ServedTo
      <4> QED
        BY <4>1, <4>3 DEF Foreign
    <3>3. CASE a # r
      BY <1>5, <2>1, <3>1, <3>3 DEF Foreign
    <3> QED
      BY <3>2, <3>3
  <2>2. job'["links"] = job["links"] /\ job["links"].st \notin OnDisk
    BY <1>2, <1>4, <1>5
  <2> QED
    BY <1>6, <2>1, <2>2 DEF Foreign, OnDisk
<1>12. Restored
  <2>1. CASE disk' = disk
    BY <2>1 DEF Restored
  <2>2. CASE disk' # disk /\ r = "put"
    BY <1>5, <1>8, <2>2 DEF Restored
  <2>3. CASE disk' # disk /\ r # "put"
    <3>1. r \in Agents
      BY <1>3, <1>7, <1>8, <2>3 DEF ReadBy
    <3>2. job[r].base # None /\ job[r].st \in Writing
      BY <1>3, <1>8, <2>3, <3>1 DEF ReadBy, Writing
    <3>3. mine \cap job[r].text \subseteq job[r].base
      BY <3>1, <3>2 DEF Foreign
    <3> QED
      BY <1>8, <2>3, <3>2, <3>3 DEF Restored
  <2> QED
    BY <2>1, <2>2, <2>3
<1> QED
  BY <1>10, <1>11, <1>12

\* An edit that is made now is in no text.
LEMMA FreshEdit ==
    ASSUME TypeOK, Made, EditMade
    PROVE  /\ Fresh \notin Old /\ Old \subseteq Old' /\ Fresh \in Old'
           /\ Fresh \notin mine /\ Fresh \notin disk
           /\ \A r \in Requests : Fresh \notin job[r].text
<1>1. edits \in Nat /\ edits' = edits + 1 /\ Fresh = edits + 1
  BY DEF TypeOK, EditMade, Fresh
<1>2. Fresh \notin Old /\ Old \subseteq Old' /\ Fresh \in Old'
  BY <1>1 DEF Old
<1> QED
  BY <1>2 DEF Made

LEMMA AgentMine ==
    ASSUME TypeOK, Serving, Made, Foreign, NEW a \in Agents,
           AgentReads(a) \/ AgentWrites(a) \/ AgentDone(a)
    PROVE  Made' /\ Foreign' /\ Restored
<1>1. disk' = disk /\ UNCHANGED <<mine, buffer, tab>>
  BY DEF AgentReads, AgentWrites, AgentDone, editorVars
<1>2. a \in Requests /\ a \notin {"put", "conflict", "refresh", "links"} /\ "links" \in Requests
  BY Names
<1>3. ReadBy(a, job[a], disk) /\ job[a] \in Job
  BY <1>2 DEF Serving, TypeOK
<1>4. Old \subseteq Old'
  <2>1. edits' = edits \/ EditMade
    BY DEF AgentReads, AgentWrites, AgentDone
  <2>2. CASE edits' = edits
    BY <2>2 DEF Old
  <2>3. CASE EditMade
    BY <2>3, FreshEdit
  <2> QED
    BY <2>1, <2>2, <2>3
<1>5. PICK j \in Job : /\ job' = [job EXCEPT ![a] = j]
                       /\ j.text \subseteq Old'
                       /\ j.st \in Writing => mine \cap j.text \subseteq j.base
  <2>1. CASE AgentReads(a)
    <3>1. Get \in Job /\ Get.text = {} /\ Get.st \notin Writing
      BY Jobs DEF Get, Idle, Writing
    <3> QED
      BY <2>1, <3>1 DEF AgentReads
  <2>2. CASE AgentWrites(a)
    <3> DEFINE text == job[a].text \cup {Fresh}
               base == job[a].seen
               j == Put(text, base)
    <3>1. base \in Text /\ text \in Text
      BY <1>3, <2>2, Jobs, FreshText DEF AgentWrites
    <3>2. base = job[a].text
      BY <1>3, <2>2 DEF AgentWrites, ReadBy
    <3>3. text \subseteq Old' /\ mine \cap text \subseteq base
      BY <1>2, <1>4, <2>2, <3>2, FreshEdit DEF AgentWrites, Made
    <3> HIDE DEF text, base
    <3>4. j \in Job /\ j.text = text /\ j.base = base
      BY <3>1, PutIs
    <3> HIDE DEF j
    <3>5. job' = [job EXCEPT ![a] = j]
      BY <2>2 DEF AgentWrites, j, text, base
    <3> QED
      BY <3>3, <3>4, <3>5
  <2>3. CASE AgentDone(a)
    <3>1. Idle \in Job /\ Idle.text = {} /\ Idle.st \notin Writing
      BY Jobs DEF Idle, Writing
    <3> QED
      BY <2>3, <3>1 DEF AgentDone
  <2> QED
    BY <2>1, <2>2, <2>3
<1>6. job'[a] = j /\ \A s \in Requests \ {a} : job'[s] = job[s]
  BY <1>2, <1>5 DEF TypeOK
<1>7. job'["links"] = job["links"]
  BY <1>2, <1>6
<1>8. Made'
  <2>1. \A s \in Requests : job'[s].text \subseteq Old'
    BY <1>4, <1>5, <1>6 DEF Made
  <2> QED
    BY <1>1, <1>4, <1>7, <2>1 DEF Made
<1>9. Foreign'
  <2>1. ASSUME NEW b \in Agents, job'[b].st \in Writing
        PROVE  mine \cap job'[b].text \subseteq job'[b].base
    BY <1>5, <1>6, <2>1, Names DEF Foreign
  <2> QED
    BY <1>1, <1>7, <2>1 DEF Foreign
<1>10. Restored
  BY <1>1 DEF Restored
<1> QED
  BY <1>8, <1>9, <1>10

LEMMA LinksMine ==
    ASSUME TypeOK, ~Overtaken, Serving, Made, Foreign, PlanLinks \/ MoveLinked
    PROVE  Made' /\ Foreign' /\ Restored
<1>1. UNCHANGED <<mine, buffer, tab>>
  BY DEF PlanLinks, MoveLinked, ReadOriginal, RewriteLinks, RewriteOthers, RollBack, Goes,
         editorVars
<1>2. "links" \in Requests /\ "links" \notin Agents
  BY Names
<1>3. ReadBy("links", job["links"], disk) /\ job["links"] \in Job
  BY <1>2 DEF Serving, TypeOK
<1>4. Old \subseteq Old'
  <2>1. edits' = edits \/ EditMade
    BY DEF PlanLinks, MoveLinked, ReadOriginal, RewriteLinks, RewriteOthers, RollBack, Goes
  <2>2. CASE edits' = edits
    BY <2>2 DEF Old
  <2>3. CASE EditMade
    BY <2>3, FreshEdit
  <2> QED
    BY <2>1, <2>2, <2>3
<1>5. ASSUME NEW j \in Job, job' = [job EXCEPT !["links"] = j],
             disk' \subseteq Old', j.text \subseteq Old', j.seen \subseteq Old',
             mine \cap disk' \subseteq disk,
             j.st = "apply" => mine \cap j.text \subseteq disk',
             j.st \in {"rewrite", "others", "back"} => mine \cap j.text \subseteq j.seen
      PROVE  Made' /\ Foreign' /\ Restored
  <2>1. job'["links"] = j /\ \A s \in Requests \ {"links"} : job'[s] = job[s]
    BY <1>2, <1>5 DEF TypeOK
  <2>2. Made'
    <3>1. \A s \in Requests : job'[s].text \subseteq Old'
      BY <1>4, <1>5, <2>1 DEF Made
    <3> QED
      BY <1>1, <1>4, <1>5, <2>1, <3>1 DEF Made
  <2>3. Foreign'
    <3>1. \A a \in Agents : job'[a] = job[a]
      BY <1>2, <2>1, Names
    <3> QED
      BY <1>1, <1>5, <2>1, <3>1 DEF Foreign
  <2> QED
    BY <1>5, <2>2, <2>3 DEF Restored
<1>6. /\ disk \subseteq Old' /\ job["links"].text \subseteq Old' /\ job["links"].seen \subseteq Old'
      /\ {} \subseteq Old'
  BY <1>2, <1>4 DEF Made
<1>7. Idle \in Job /\ Idle.st = "none" /\ Idle.text = {} /\ Idle.seen = {}
  <2>1. Idle \in Job /\ Idle.st = "none"
    BY Jobs
  <2> QED
    BY <2>1 DEF Idle
<1>8. {"apply", "rewrite", "others", "back"} \subseteq Stage
  BY DEF Stage
<1>9. CASE PlanLinks
  <2> DEFINE text == disk \cup {Fresh}
             j == [Idle EXCEPT !.st = "apply", !.text = text]
  <2>1. text \in Text
    BY <1>9, FreshText DEF TypeOK, PlanLinks
  <2>2. disk' = disk /\ EditMade /\ job' = [job EXCEPT !["links"] = j]
    BY <1>9 DEF PlanLinks
  <2>3. mine \cap text \subseteq disk /\ text \subseteq Old'
    BY <1>6, <2>2, FreshEdit
  <2> HIDE DEF text
  <2>4. j \in Job /\ j.st = "apply" /\ j.text = text /\ j.seen = {}
    BY <1>7, <1>8, <2>1 DEF Job
  <2> HIDE DEF j
  <2> QED
    BY <1>5, <1>6, <2>2, <2>3, <2>4
<1>10. CASE ReadOriginal
  <2> DEFINE j == [job["links"] EXCEPT !.st = "rewrite", !.seen = disk]
  <2>1. disk' = disk /\ job["links"].st = "apply" /\ job' = [job EXCEPT !["links"] = j]
    BY <1>10 DEF ReadOriginal, Goes
  <2>2. j \in Job /\ j.st = "rewrite" /\ j.text = job["links"].text /\ j.seen = disk
    BY <1>3, <1>8, Jobs DEF Job, TypeOK
  <2> HIDE DEF j
  <2>3. mine \cap job["links"].text \subseteq disk
    BY <2>1 DEF Foreign
  <2> QED
    BY <1>5, <1>6, <2>1, <2>2, <2>3
<1>11. CASE RewriteLinks
  <2> DEFINE j == [job["links"] EXCEPT !.st = "others"]
  <2>1. /\ disk' = job["links"].text /\ job["links"].st = "rewrite"
        /\ job' = [job EXCEPT !["links"] = j]
    BY <1>11 DEF RewriteLinks, Goes
  <2>2. /\ j \in Job /\ j.st = "others" /\ j.text = job["links"].text
        /\ j.seen = job["links"].seen
    BY <1>3, <1>8, Jobs DEF Job
  <2> HIDE DEF j
  <2>3. mine \cap job["links"].text \subseteq job["links"].seen /\ job["links"].seen = disk
    BY <1>3, <2>1 DEF Foreign, ReadBy
  <2> QED
    BY <1>5, <1>6, <2>1, <2>2, <2>3
<1>12. CASE RewriteOthers
  <2>1. disk' = disk /\ job["links"].st = "others"
    BY <1>12 DEF RewriteOthers, Goes
  <2>2. CASE Goes("links", "others", Idle)
    <3>1. job' = [job EXCEPT !["links"] = Idle]
      BY <2>2 DEF Goes
    <3> QED
      BY <1>5, <1>6, <1>7, <2>1, <3>1
  <2>3. CASE Goes("links", "others", [job["links"] EXCEPT !.st = "back"])
    <3> DEFINE j == [job["links"] EXCEPT !.st = "back"]
    <3>1. job' = [job EXCEPT !["links"] = j]
      BY <2>3 DEF Goes
    <3>2. /\ j \in Job /\ j.st = "back" /\ j.text = job["links"].text
          /\ j.seen = job["links"].seen
      BY <1>3, <1>8, Jobs DEF Job
    <3> HIDE DEF j
    <3>3. mine \cap job["links"].text \subseteq job["links"].seen
      BY <2>1 DEF Foreign
    <3> QED
      BY <1>5, <1>6, <2>1, <3>1, <3>2, <3>3
  <2> QED
    BY <1>12, <2>2, <2>3 DEF RewriteOthers
<1>13. CASE RollBack
  <2>1. /\ disk' = job["links"].seen /\ job["links"].st = "back"
        /\ job' = [job EXCEPT !["links"] = Idle]
    BY <1>13 DEF RollBack, Goes
  <2>2. job["links"].seen \subseteq disk
    BY <1>3, <2>1 DEF ReadBy
  <2> QED
    BY <1>5, <1>6, <1>7, <2>1, <2>2
<1> QED
  BY <1>9, <1>10, <1>11, <1>12, <1>13 DEF MoveLinked

\* A step of the server leaves what the user has typed where the user finds it.
LEMMA MovesTyped ==
    ASSUME TypeOK, Serving, Turns, Sent, Known, Typing, Moves, Restored
    PROVE  Typing'
<1>1. UNCHANGED <<tab, mirror, buffer, typed, durable, flush, timer, resolving, failed, mine>>
  BY DEF Moves, editorVars
<1>2. /\ job["put"].st \in Done => job'["put"].st \in Done
      /\ \/ Lasting \subseteq Lasting'
         \/ resolving /\ job["put"].st \notin Done /\ job'["put"].st \in Done
  BY DEF Moves
<1>3. ~resolving => Lasting \subseteq Lasting'
  BY <1>2
<1>4. /\ Shown' = Shown /\ Visible' = Visible /\ Outdated' = Outdated
  BY <1>1 DEF Shown, Visible, Outdated
<1>5. ~Overwrote' => ~Overwrote
  BY <1>1, <1>2 DEF Overwrote
<1>6. ASSUME NEW q \in {"conflict", "refresh"}, job'[q].st \in {"got", "gotten"}
      PROVE  /\ job[q].st # "none"
             /\ \/ job[q].st \in {"got", "gotten"} /\ job'[q].text = job[q].text
                \/ job'[q].text = Lasting /\ Lasting' = Lasting /\ disk' = Lasting
  BY <1>6 DEF Moves
<1>7. ASSUME tab.conflict # None, ~Overwrote'
      PROVE  mine \cap disk' \subseteq tab.conflict.disk
  <2>1. mine \cap disk \subseteq tab.conflict.disk
    BY <1>5, <1>7 DEF Typing
  <2>2. flush = None
    BY <1>7 DEF Turns
  <2>3. job["put"].st = "write" /\ job'["put"].st = "version" => Overwrote'
    BY <1>1, <2>2 DEF Turns, Running, Overwrote, Done
  <2> QED
    BY <1>7, <2>1, <2>3 DEF Restored
<1>8. ~tab.open \/ ~tab.dirty => mine \subseteq Lasting'
  BY <1>3 DEF Typing, Turns
<1>9. tab.open /\ tab.conflict = None /\ ~Outdated => tab.content \subseteq Lasting'
  BY <1>3 DEF Typing, Turns
<1>10. ASSUME job'["conflict"].st \in {"got", "gotten"}
       PROVE  mine \cap disk' \subseteq job'["conflict"].text
  <2>1. job["conflict"].st # "none"
    BY <1>6, <1>10
  <2>2. job["put"].st = "none"
    BY <2>1 DEF Turns, Running
  <2>3. mine \cap disk' \subseteq disk
    BY <2>2 DEF Restored
  <2>4. CASE job["conflict"].st \in {"got", "gotten"} /\ job'["conflict"].text = job["conflict"].text
    BY <2>3, <2>4 DEF Typing
  <2>5. CASE job'["conflict"].text = Lasting /\ disk' = Lasting
    BY <2>5
  <2> QED
    BY <1>6, <1>10, <2>4, <2>5
<1>11. ASSUME job'["refresh"].st \in {"got", "gotten"}
       PROVE  mine \subseteq job'["refresh"].text /\ job'["refresh"].text \subseteq Lasting'
  <2>1. job["refresh"].st # "none"
    BY <1>6, <1>11
  <2>2. ~tab.dirty /\ ~resolving
    BY <2>1 DEF Turns, Running
  <2>3. mine \subseteq Lasting /\ Lasting \subseteq Lasting'
    BY <1>3, <2>2 DEF Typing
  <2>4. CASE job["refresh"].st \in {"got", "gotten"} /\ job'["refresh"].text = job["refresh"].text
    BY <2>3, <2>4 DEF Typing
  <2>5. CASE job'["refresh"].text = Lasting /\ Lasting' = Lasting
    BY <2>3, <2>5
  <2> QED
    BY <1>6, <1>11, <2>4, <2>5
<1>12. mine \subseteq Lasting' \cup Visible
  <2>1. CASE resolving
    <3>1. mirror = tab /\ tab.open /\ tab.conflict # None
      BY <2>1 DEF Turns
    <3>2. mine \subseteq Visible
      BY <3>1 DEF Typing, Visible
    <3> QED
      BY <3>2
  <2>2. CASE ~resolving
    BY <1>3, <2>2 DEF Typing
  <2> QED
    BY <2>1, <2>2
<1>13. /\ durable # None => durable.content = durable.version
       /\ tab.open /\ tab.conflict = None => mine \subseteq Shown
       /\ tab.conflict # None => mine \subseteq tab.conflict.text
       /\ flush # None => (flush.close => buffer = flush.content)
  BY DEF Typing
<1> QED
  BY <1>1, <1>4, <1>7, <1>8, <1>9, <1>10, <1>11, <1>12, <1>13 DEF Typing

\* What a step of the editor leaves of both invariants about edits.
LEMMA EditorMade ==
    ASSUME TypeOK, Made, Foreign, UNCHANGED <<disk, edits>>, mine' \subseteq mine,
           buffer' \subseteq Old, tab'.content \subseteq Old,
           tab'.conflict # None => tab'.conflict.text \subseteq Old /\ tab'.conflict.disk \subseteq Old,
           \A r \in Requests : \/ job'[r] = job[r]
                               \/ r \in {"put", "conflict", "refresh"} /\ job'[r].text \subseteq Old
    PROVE  Made' /\ Foreign'
<1>1. Old' = Old
  BY DEF Old
<1>2. job'["links"] = job["links"] /\ \A a \in Agents : job'[a] = job[a]
  BY Names
<1>3. \A r \in Requests : job'[r].text \subseteq Old
  BY DEF Made
<1>4. Made'
  BY <1>1, <1>2, <1>3 DEF Made
<1>5. Foreign'
  BY <1>2 DEF Foreign
<1> QED
  BY <1>4, <1>5

\* The records that the editor sends, and what becomes of the others.
LEMMA EditorJob ==
    ASSUME TypeOK, NEW q \in {"put", "conflict", "refresh"}, NEW j, job' = [job EXCEPT ![q] = j]
    PROVE  job'[q] = j /\ \A s \in Requests \ {q} : job'[s] = job[s]
BY Names DEF TypeOK

LEMMA IdleIs == /\ Idle.st = "none" /\ Idle.text = {} /\ Get.st = "get" /\ Get.text = {}
BY DEF Idle, Get

\* Steps that only tell the editor how far a request has come.
LEMMA UnmovedTyped ==
    ASSUME TypeOK, Serving, Turns, Sent, Known, Made, Foreign, Typing,
           Lasting' = Lasting,
           Refused \/ SaveFailed \/ Refresh \/ OverwriteFailed \/ Overwrite
    PROVE  Made' /\ Foreign' /\ Typing'
<1>1. UNCHANGED <<disk, tab, mirror, buffer, durable, mine, edits>>
  BY DEF Refused, SaveFailed, Refresh, OverwriteFailed, Overwrite, editorVars
<1>2. flush' = flush \/ flush' = None
  BY DEF Refused, SaveFailed, Refresh, OverwriteFailed, Overwrite, editorVars
<1>3. \A r \in Requests :
        \/ job'[r] = job[r]
        \/ /\ r \in {"put", "conflict", "refresh"} /\ job'[r].text \subseteq Old
           /\ r # "put" => job'[r].st \notin {"got", "gotten"}
  <2>1. CASE Refused
    <3>1. /\ job'["put"] = Idle /\ job'["conflict"] = Get
          /\ \A s \in Requests \ {"put", "conflict"} : job'[s] = job[s]
      BY <2>1, Names DEF Refused, TypeOK
    <3> QED
      BY <3>1, IdleIs
  <2>2. CASE SaveFailed \/ OverwriteFailed
    <3>q. PICK q \in {"put", "conflict"} : job' = [job EXCEPT ![q] = Idle]
      BY <2>2 DEF SaveFailed, OverwriteFailed
    <3>1. job'[q] = Idle /\ \A s \in Requests \ {q} : job'[s] = job[s]
      BY <3>q, EditorJob
    <3> QED
      BY <3>1, IdleIs
  <2>3. CASE Refresh
    <3>1. job'["refresh"] = Get /\ \A s \in Requests \ {"refresh"} : job'[s] = job[s]
      BY <2>3, EditorJob DEF Refresh
    <3> QED
      BY <3>1, IdleIs
  <2>4. CASE Overwrite
    <3> DEFINE text == mirror.conflict.text
    <3>1. mirror = tab /\ tab.conflict # None /\ tab.conflict \in Conflict
      BY <2>4, Undecided DEF Overwrite
    <3>2. text \in Text /\ text \subseteq Old
      BY <3>1 DEF Conflict, Made
    <3>3. job' = [job EXCEPT !["put"] = Put(text, None)]
      BY <2>4 DEF Overwrite
    <3> HIDE DEF text
    <3>4. Put(text, None).text = text
      BY <3>2, PutIs
    <3>5. /\ job'["put"] = Put(text, None)
          /\ \A s \in Requests \ {"put"} : job'[s] = job[s]
      BY <3>3, EditorJob
    <3> QED
      BY <3>2, <3>4, <3>5
  <2> QED
    BY <2>1, <2>2, <2>3, <2>4
<1>4. Made' /\ Foreign'
  BY <1>1, <1>3, EditorMade DEF Made
<1>5. ~Overwrote
  <2>1. CASE Refused \/ SaveFailed
    BY <2>1 DEF Refused, SaveFailed, Turns, Overwrote
  <2>2. CASE Refresh
    BY <2>2 DEF Refresh, Overwrote, Turns, Quiet
  <2>3. CASE OverwriteFailed
    BY <2>3 DEF OverwriteFailed, Overwrote, Done
  <2>4. CASE Overwrite
    BY <2>4 DEF Overwrite, Decide, Overwrote
  <2> QED
    BY <2>1, <2>2, <2>3, <2>4
<1>6. Shown' = Shown /\ Visible' = Visible /\ Outdated' = Outdated
  BY <1>1 DEF Shown, Visible, Outdated
<1>7. /\ job'["conflict"].st \in {"got", "gotten"} => job'["conflict"] = job["conflict"]
      /\ job'["refresh"].st \in {"got", "gotten"} => job'["refresh"] = job["refresh"]
  BY <1>3, Names
<1>8. Typing'
  BY <1>1, <1>2, <1>5, <1>6, <1>7 DEF Typing
<1> QED
  BY <1>4, <1>8

LEMMA RenderTyped ==
    ASSUME TypeOK, Serving, Turns, Made, Foreign, Typing, Render
    PROVE  Made' /\ Foreign' /\ Typing'
<1>1. /\ mirror' = tab /\ buffer' = Shown
      /\ UNCHANGED <<disk, job, tab, durable, flush, typed, resolving, mine, edits>>
  BY DEF Render, Shown
<1>2. Shown \subseteq Old
  BY DEF Shown, Made
<1>3. Made' /\ Foreign'
  BY <1>1, <1>2, EditorMade DEF Made
<1>4. Lasting' = Lasting
  BY <1>1, EditorKeeps
<1>5. /\ Shown' = Shown /\ Outdated' = Outdated /\ Overwrote' = Overwrote
  BY <1>1 DEF Shown, Outdated, Overwrote
<1>6. flush = None
  BY DEF Turns, Render
<1>7. mine \subseteq Lasting \cup Visible'
  BY <1>1 DEF Typing, Visible
<1>8. Typing'
  BY <1>1, <1>4, <1>5, <1>6, <1>7 DEF Typing
<1> QED
  BY <1>3, <1>8

LEMMA TypeTyped ==
    ASSUME ~Late, ~TypesAhead, TypeOK, Serving, Turns, Made, Foreign, Typing, Type
    PROVE  Made' /\ Foreign' /\ Typing'
<1>1. /\ mirror = tab /\ ~Running("refresh") /\ mirror.open /\ mirror.conflict = None
      /\ flush # None => ~flush.close
      /\ buffer' = buffer \cup {Fresh} /\ mine' = mine \cup {Fresh}
      /\ tab' = [tab EXCEPT !.dirty = TRUE] /\ EditMade
      /\ UNCHANGED <<disk, job, mirror, durable, flush, resolving>>
  BY DEF Type, Mounted, Quiet, Running
<1>2. /\ tab'.open = tab.open /\ tab'.content = tab.content /\ tab'.version = tab.version
      /\ tab'.conflict = tab.conflict /\ tab'.dirty = TRUE
  BY <1>1 DEF TypeOK, Tab
<1>3. /\ Old \subseteq Old' /\ Fresh \in Old' /\ Fresh \notin disk
      /\ \A r \in Requests : Fresh \notin job[r].text
  BY <1>1, FreshEdit
<1>4. Made'
  <2>1. \A r \in Requests : job'[r].text \subseteq Old'
    BY <1>1, <1>3 DEF Made
  <2>2. job'["links"].seen \subseteq Old'
    BY <1>1, <1>3 DEF Made
  <2> QED
    BY <1>1, <1>2, <1>3, <2>1, <2>2 DEF Made
<1>5. Foreign'
  BY <1>1, <1>3, Names DEF Foreign
<1>6. Lasting' = Lasting
  BY <1>1, EditorKeeps
<1>7. Shown = buffer /\ Shown' = buffer' /\ Outdated' = Outdated /\ Visible' = buffer'
  BY <1>1, <1>2 DEF Shown, Outdated, Visible
<1>8. mine \subseteq buffer
  BY <1>1, <1>7 DEF Typing
<1>9. job["refresh"].st \notin {"got", "gotten"}
  BY <1>1 DEF Running
<1>10. job["conflict"].st \in {"got", "gotten"} => mine' \cap disk \subseteq job["conflict"].text
  BY <1>1, <1>3 DEF Typing
<1>11. Typing'
  BY <1>1, <1>2, <1>6, <1>7, <1>8, <1>9, <1>10 DEF Typing
<1> QED
  BY <1>4, <1>5, <1>11

LEMMA FlushSaveTyped ==
    ASSUME ~Late, TypeOK, Serving, Turns, Known, Made, Foreign, Typing,
           NEW close \in BOOLEAN, FlushSave(close)
    PROVE  Made' /\ Foreign' /\ Typing'
<1> DEFINE baseline == IF Lags THEN durable.content ELSE mirror.content
           base == IF Lags THEN durable.version ELSE mirror.version
           clean == ~typed /\ ~mirror.dirty
<1>1. /\ mirror = tab /\ ~Running("refresh") /\ tab.open /\ tab.conflict = None /\ flush = None
      /\ UNCHANGED <<disk, mirror, buffer, durable, resolving, mine, edits>>
  BY DEF FlushSave, Mounted, Quiet, Running
<1>2. ~resolving /\ ~Running("put") /\ ~Running("conflict")
  BY <1>1 DEF Turns
<1>3. Shown = buffer /\ mine \subseteq buffer
  BY <1>1 DEF Shown, Typing
<1>4. Lags = Outdated
  BY <1>1 DEF Lags, Outdated
<1>5. \/ /\ clean \/ buffer = baseline
         /\ tab' = [tab EXCEPT !.dirty = IF clean THEN @ ELSE FALSE, !.open = ~close]
         /\ UNCHANGED <<job, flush>>
      \/ /\ flush' = [content |-> buffer, base |-> base, close |-> close, lags |-> Lags]
         /\ job' = [job EXCEPT !["put"] = Put(buffer, base)]
         /\ UNCHANGED tab
  BY DEF FlushSave
<1>6. ~Overwrote /\ ~Overwrote'
  BY <1>1, <1>2 DEF Overwrote
<1>7. Visible' = Visible
  BY <1>1 DEF Visible
<1>8. CASE /\ clean \/ buffer = baseline
           /\ tab' = [tab EXCEPT !.dirty = IF clean THEN @ ELSE FALSE, !.open = ~close]
           /\ UNCHANGED <<job, flush>>
  <2>1. /\ tab'.content = tab.content /\ tab'.version = tab.version /\ tab'.conflict = None
        /\ tab'.dirty = (IF clean THEN tab.dirty ELSE FALSE)
    <3> HIDE DEF clean
    <3> QED
      BY <1>1, <1>8 DEF TypeOK, Tab
  <2>2. Lasting' = Lasting
    BY <1>1, <1>8, EditorKeeps
  <2>3. Made' /\ Foreign'
    BY <1>1, <1>8, <2>1, EditorMade DEF Made
  <2>4. CASE clean
    <3>1. tab.dirty = FALSE /\ tab'.dirty = FALSE
      BY <1>1, <2>1, <2>4 DEF TypeOK, Tab
    <3>2. mine \subseteq Lasting
      BY <3>1 DEF Typing
    <3>3. Shown' = buffer
      BY <1>1, <2>1, <3>1 DEF Shown
    <3>4. Outdated' = Outdated
      BY <1>1, <2>1 DEF Outdated
    <3> QED
      BY <1>1, <1>2, <1>3, <1>6, <1>7, <1>8, <2>1, <2>2, <2>3, <3>2, <3>3, <3>4
         DEF Typing, Running
  <2>5. CASE ~clean /\ buffer = baseline
    <3>1. buffer \subseteq tab.content /\ buffer \subseteq Lasting
      <4>1. CASE Lags
        <5>1. durable # None /\ buffer = durable.version
          BY <2>5, <4>1 DEF Lags, Typing
        <5> QED
          BY <1>6, <5>1 DEF Known, Carries
      <4>2. CASE ~Lags
        <5>1. buffer = tab.content
          BY <1>1, <2>5, <4>2
        <5> QED
          BY <1>1, <1>4, <4>2, <5>1 DEF Typing
      <4> QED
        BY <4>1, <4>2
    <3>2. mine \subseteq Shown' /\ mine \subseteq Lasting
      <4>1. Shown' = tab'.content \/ Shown' = buffer'
        BY DEF Shown
      <4> QED
        BY <1>1, <1>3, <2>1, <3>1, <4>1
    <3>3. Outdated' = Outdated
      BY <1>1, <2>1 DEF Outdated
    <3> HIDE DEF clean, baseline
    <3> QED
      BY <1>1, <1>2, <1>6, <1>7, <1>8, <2>1, <2>2, <2>3, <3>2, <3>3 DEF Typing, Running
  <2> QED
    BY <1>8, <2>4, <2>5
<1>9. CASE /\ flush' = [content |-> buffer, base |-> base, close |-> close, lags |-> Lags]
           /\ job' = [job EXCEPT !["put"] = Put(buffer, base)]
           /\ UNCHANGED tab
  <2>1. base \in Text /\ buffer \in Text
    <3>1. tab.version \in Text /\ buffer \in Text
      BY DEF TypeOK, Tab
    <3>2. Lags => durable # None /\ durable.version \in Text
      BY DEF Lags, TypeOK, Baseline
    <3> QED
      BY <1>1, <3>1, <3>2
  <2>2. flush'.content = buffer
    BY <1>9
  <2> HIDE DEF base, baseline, clean
  <2>3. Put(buffer, base).text = buffer
    BY <2>1, PutIs
  <2>4. job'["put"] = Put(buffer, base) /\ \A s \in Requests \ {"put"} : job'[s] = job[s]
    BY <1>9, EditorJob
  <2>5. buffer \subseteq Old
    BY DEF Made
  <2>6. \A r \in Requests : \/ job'[r] = job[r]
                            \/ r \in {"put", "conflict", "refresh"} /\ job'[r].text \subseteq Old
    BY <2>3, <2>4, <2>5
  <2>7. UNCHANGED tab
    BY <1>9
  <2>8. Made' /\ Foreign'
    BY <1>1, <2>6, <2>7, EditorMade DEF Made
  <2>9. job'["links"] = job["links"] /\ job'["refresh"] = job["refresh"]
        /\ job'["conflict"] = job["conflict"]
    BY <2>4, Names
  <2>10. Lasting' = Lasting
    BY <1>1, <2>9 DEF Lasting
  <2>11. Shown' = Shown /\ Outdated' = Outdated
    BY <1>1, <2>7 DEF Shown, Outdated
  <2>12. Typing'
    BY <1>1, <1>2, <1>6, <1>7, <2>2, <2>7, <2>9, <2>10, <2>11 DEF Typing, Running
  <2> QED
    BY <2>8, <2>12
<1> QED
  BY <1>5, <1>8, <1>9

LEMMA SavedTyped ==
    ASSUME TypeOK, Serving, Turns, Sent, Known, Made, Foreign, Typing, Saved
    PROVE  Made' /\ Foreign' /\ Typing'
<1>1. /\ flush # None /\ flush' = None /\ job["put"].st = "ok" /\ flush \in Flush
      /\ job' = [job EXCEPT !["put"] = Idle]
      /\ UNCHANGED <<disk, mirror, buffer, resolving, mine, edits>>
  BY DEF Saved, TypeOK
<1>2. /\ mirror = tab /\ tab.open /\ ~Running("refresh") /\ ~resolving /\ tab.conflict = None
      /\ tab.dirty /\ ~Running("conflict") /\ Running("put")
  BY <1>1 DEF Turns, Running
<1>3. job["put"].seen = flush.content /\ flush.content \subseteq Lasting
      /\ flush.content \subseteq buffer
  <2>1. job["put"].seen = job["put"].text
    BY <1>1, Names DEF Serving, ReadBy
  <2> QED
    BY <1>1, <1>2, <2>1 DEF Sent, Done
<1>4. /\ tab'.content = flush.content /\ tab'.version = flush.content
      /\ tab'.dirty = (buffer # flush.content) /\ tab'.conflict = None
      /\ tab'.open = ~flush.close
  <2>1. tab' = [tab EXCEPT !.content = flush.content, !.version = job["put"].seen,
                           !.dirty = IF buffer = flush.content THEN FALSE ELSE @,
                           !.open = @ /\ ~flush.close]
    BY DEF Saved
  <2>2. tab.dirty = TRUE /\ tab.open = TRUE /\ flush.close \in BOOLEAN
    BY <1>1, <1>2 DEF TypeOK, Tab, Flush
  <2> QED
    BY <1>2, <1>3, <2>1, <2>2 DEF TypeOK, Tab
<1>5. durable'.version = flush.content /\ durable'.content = flush.content
  BY <1>3 DEF Saved
<1>6. job'["put"] = Idle /\ \A s \in Requests \ {"put"} : job'[s] = job[s]
  BY <1>1, EditorJob
<1>7. Lasting' = Lasting
  BY <1>1, Jobs, EditorServes
<1>8. Made' /\ Foreign'
  <2>1. buffer \subseteq Old /\ flush.content \subseteq Old
    BY <1>3 DEF Made
  <2>2. \A r \in Requests : \/ job'[r] = job[r]
                            \/ r \in {"put", "conflict", "refresh"} /\ job'[r].text \subseteq Old
    BY <1>6, IdleIs
  <2> QED
    BY <1>1, <1>4, <2>1, <2>2, EditorMade
<1>9. mine \subseteq buffer
  BY <1>2 DEF Typing, Shown
<1>10. Visible' = Visible
  BY <1>1 DEF Visible
<1>11. job'["refresh"].st = "none" /\ job'["conflict"].st = "none"
  BY <1>2, <1>6, Names DEF Running
<1>12. tab'.open => mine \subseteq Shown'
  <2>1. tab'.dirty => Shown' = buffer
    BY <1>1, <1>2, <1>4 DEF Shown
  <2>2. Shown' = flush.content \/ Shown' = buffer
    BY <1>1, <1>4 DEF Shown
  <2> QED
    BY <1>4, <1>9, <2>1, <2>2
<1>13. ~tab'.open \/ ~tab'.dirty => mine \subseteq Lasting
  <2>1. ~tab'.open \/ ~tab'.dirty => buffer = flush.content
    BY <1>1, <1>4 DEF Typing
  <2> QED
    BY <1>3, <1>9, <2>1
<1>14. Typing'
  BY <1>1, <1>3, <1>4, <1>5, <1>7, <1>10, <1>11, <1>12, <1>13 DEF Typing
<1> QED
  BY <1>8, <1>14

LEMMA ShowConflictTyped ==
    ASSUME TypeOK, Serving, Turns, Sent, Known, Made, Foreign, Typing, ShowConflict
    PROVE  Made' /\ Foreign' /\ Typing'
<1> DEFINE c == [disk |-> job["conflict"].text, version |-> job["conflict"].seen,
                 text |-> EditorText]
<1>1. /\ flush # None /\ flush' = None /\ job["conflict"].st = "gotten"
      /\ job' = [job EXCEPT !["conflict"] = Idle] /\ tab' = [tab EXCEPT !.conflict = c]
      /\ UNCHANGED <<disk, mirror, buffer, typed, durable, resolving, mine, edits>>
  BY DEF ShowConflict
<1>2. /\ mirror = tab /\ tab.open /\ ~Running("refresh") /\ ~resolving /\ tab.conflict = None
      /\ tab.dirty /\ ~Running("put")
  BY <1>1 DEF Turns, Running
<1>3. c.disk = job["conflict"].text /\ c.text = buffer
  BY DEF EditorText
<1>4. c # None
  <2>1. job["conflict"] \in Job
    BY Names DEF TypeOK
  <2>2. job["conflict"].text \in Text /\ job["conflict"].seen \in Text
    BY <2>1, Jobs
  <2>3. EditorText \in Text
    BY DEF TypeOK, EditorText
  <2>4. c \in Conflict
    BY <2>2, <2>3 DEF Conflict
  <2> QED
    BY <2>4, NoneAssumption
<1> HIDE DEF c
<1>5. /\ tab'.content = tab.content /\ tab'.version = tab.version /\ tab'.dirty = tab.dirty
      /\ tab'.open = tab.open /\ tab'.conflict = c
  BY <1>1 DEF TypeOK, Tab
<1>6. job'["conflict"] = Idle /\ \A s \in Requests \ {"conflict"} : job'[s] = job[s]
  BY <1>1, EditorJob
<1>7. Lasting' = Lasting
  BY <1>1, Jobs, EditorServes
<1>8. Made' /\ Foreign'
  <2>1. buffer \subseteq Old /\ job["conflict"].text \subseteq Old /\ tab.content \subseteq Old
    BY Names DEF Made
  <2>2. \A r \in Requests : \/ job'[r] = job[r]
                            \/ r \in {"put", "conflict", "refresh"} /\ job'[r].text \subseteq Old
    BY <1>6, IdleIs
  <2> QED
    BY <1>1, <1>3, <1>5, <2>1, <2>2, EditorMade
<1>9. mine \subseteq c.text /\ mine \cap disk \subseteq c.disk
  BY <1>1, <1>2, <1>3 DEF Typing, Shown
<1>10. Visible' = Visible
  BY <1>1 DEF Visible
<1>11. job'["refresh"].st = "none" /\ job'["conflict"].st = "none"
  BY <1>2, <1>6, Names, IdleIs DEF Running
<1>12. Typing'
  BY <1>1, <1>2, <1>4, <1>5, <1>7, <1>9, <1>10, <1>11 DEF Typing
<1> QED
  BY <1>8, <1>12

LEMMA RefreshedTyped ==
    ASSUME TypeOK, Serving, Turns, Made, Foreign, Typing, Refreshed
    PROVE  Made' /\ Foreign' /\ Typing'
<1>1. /\ job["refresh"].st = "gotten" /\ job' = [job EXCEPT !["refresh"] = Idle]
      /\ UNCHANGED <<disk, mirror, buffer, typed, durable, flush, resolving, mine, edits>>
  BY DEF Refreshed
<1>2. /\ mirror = tab /\ tab.open /\ ~tab.dirty /\ tab.conflict = None
      /\ flush = None /\ ~resolving /\ ~Running("conflict")
  BY <1>1 DEF Turns, Running
<1>3. /\ mine \subseteq job["refresh"].text /\ job["refresh"].text \subseteq Lasting
      /\ mine \subseteq Lasting
  BY <1>1, <1>2 DEF Typing
<1>4. \/ tab' = tab
      \/ /\ tab'.content = job["refresh"].text /\ tab'.content # mirror.content
         /\ tab'.dirty = tab.dirty /\ tab'.conflict = tab.conflict /\ tab'.open = tab.open
  BY <1>1 DEF Refreshed, TypeOK, Tab
<1>5. job'["refresh"] = Idle /\ \A s \in Requests \ {"refresh"} : job'[s] = job[s]
  BY <1>1, EditorJob
<1>6. Lasting' = Lasting
  BY <1>1, Jobs, EditorServes
<1>7. Made' /\ Foreign'
  <2>1. /\ buffer \subseteq Old /\ tab'.content \subseteq Old /\ tab'.conflict = None
    BY <1>2, <1>4, Names DEF Made
  <2>2. \A r \in Requests : \/ job'[r] = job[r]
                            \/ r \in {"put", "conflict", "refresh"} /\ job'[r].text \subseteq Old
    BY <1>5, IdleIs
  <2> QED
    BY <1>1, <2>1, <2>2, EditorMade
<1>8. Visible' = Visible
  BY <1>1 DEF Visible
<1>9. job'["refresh"].st = "none" /\ job'["conflict"].st = "none"
  BY <1>2, <1>5, Names, IdleIs DEF Running
<1>10. Typing'
  <2>1. CASE tab' = tab
    <3>1. Shown' = Shown /\ Outdated' = Outdated
      BY <1>1, <2>1 DEF Shown, Outdated
    <3> QED
      BY <1>1, <1>2, <1>6, <1>8, <1>9, <2>1, <3>1 DEF Typing
  <2>2. CASE tab' # tab
    <3>1. Shown' = tab'.content
      BY <1>1, <1>2, <1>4, <2>2 DEF Shown
    <3> QED
      BY <1>1, <1>2, <1>3, <1>4, <1>6, <1>8, <1>9, <2>2, <3>1 DEF Typing
  <2> QED
    BY <2>1, <2>2
<1> QED
  BY <1>7, <1>10

\* A conflict that is settled keeps what the user has typed, or what a decision leaves
\* of it: in the draft, and in the file unless the draft is still to be saved.
LEMMA SettledTyped ==
    ASSUME TypeOK, Turns, Made, Typing,
           NEW content \in Text, NEW version \in Text, NEW replaced \in SUBSET Text, NEW next,
           NEW dirty \in BOOLEAN, Settle(content, version, replaced, next, dirty),
           mirror = tab, tab.open, tab.conflict # None, flush = None,
           UNCHANGED <<disk, mirror, buffer, flush>>, Lasting' = Lasting,
           \A q \in {"put", "conflict", "refresh"} : job'[q].st = "none",
           content = version, mine' \subseteq mine, mine' \subseteq next,
           ~dirty => mine' \subseteq Lasting,
           version \in replaced \/ next \subseteq Lasting
    PROVE  Typing'
<1>1. /\ durable'.version = version /\ durable'.content = content
      /\ durable'.superseded = replaced
      /\ tab'.content = next /\ tab'.version = version /\ tab'.dirty = dirty
      /\ tab'.conflict = None /\ tab'.open = tab.open
  BY DEF Settle, TypeOK, Tab
<1>2. durable' = [content |-> content, version |-> version, superseded |-> replaced]
  BY DEF Settle
<1>3. Shown' = next
  BY <1>1 DEF Shown
<1>4. Visible' = Visible
  BY DEF Visible
<1>5. tab'.content \subseteq Lasting \/ version \in durable'.superseded
  BY <1>1
<1>6. durable' # None => (Outdated' <=> version \in durable'.superseded)
  BY <1>1 DEF Outdated
<1>7. mine' \subseteq Lasting' \cup Visible'
  BY <1>4 DEF Typing
<1>8. job'["conflict"].st = "none" /\ job'["refresh"].st = "none"
  OBVIOUS
<1>9. durable' # None => durable'.content = durable'.version
  BY <1>1
<1>10. tab'.open /\ tab'.conflict = None => mine' \subseteq Shown'
  BY <1>3
<1>11. ~tab'.open \/ ~tab'.dirty => mine' \subseteq Lasting'
  BY <1>1
<1>12. tab'.open /\ tab'.conflict = None /\ ~Outdated' => tab'.content \subseteq Lasting'
  <2>1. durable' # None
    <3>1. durable' \in Baseline
      BY <1>2 DEF Baseline
    <3> QED
      BY <3>1, NoneAssumption
  <2> QED
    BY <1>5, <1>6, <2>1
<1> QED
  BY <1>1, <1>7, <1>8, <1>9, <1>10, <1>11, <1>12 DEF Typing

LEMMA DecidedTyped ==
    ASSUME TypeOK, Serving, Turns, Sent, Known, Made, Foreign, Typing,
           Reload \/ Merge \/ Discard \/ Overwritten
    PROVE  Made' /\ Foreign' /\ Typing'
<1> DEFINE c == tab.conflict
<1>1. UNCHANGED <<disk, mirror, buffer, flush, edits>>
  BY DEF Reload, Merge, Discard, Overwritten
<1>2. /\ mirror = tab /\ tab.open /\ flush = None /\ c # None /\ tab.dirty
      /\ ~Running("conflict") /\ ~Running("refresh")
  BY Undecided DEF Reload, Merge, Discard, Overwritten, Turns
<1>3. Reload \/ Merge \/ Discard => UNCHANGED job /\ ~resolving /\ ~Running("put")
  BY Undecided DEF Reload, Merge, Discard
<1>4. Overwritten => job'["put"] = Idle /\ \A s \in Requests \ {"put"} : job'[s] = job[s]
  BY EditorJob DEF Overwritten
<1>5. \A q \in {"put", "conflict", "refresh"} : job'[q].st = "none"
  <2>1. CASE Reload \/ Merge \/ Discard
    BY <1>2, <1>3, <2>1 DEF Running
  <2>2. CASE Overwritten
    <3>1. job'["put"].st = "none"
      BY <1>4, <2>2, IdleIs
    <3>2. job'["conflict"] = job["conflict"] /\ job'["refresh"] = job["refresh"]
      BY <1>4, <2>2, Names
    <3> QED
      BY <1>2, <3>1, <3>2 DEF Running
  <2> QED
    BY <2>1, <2>2
<1>6. Lasting' = Lasting
  <2>1. job'["links"] = job["links"]
    BY <1>3, <1>4, Names
  <2> QED
    BY <1>1, <2>1 DEF Lasting
<1>7. /\ c.text \subseteq Old /\ c.disk \subseteq Old /\ mine \subseteq c.text
      /\ c.disk = c.version
  BY <1>2 DEF Made, Typing, Known
<1>8. ~resolving => c.disk \subseteq Lasting /\ mine \cap disk \subseteq c.disk
  BY <1>2 DEF Known, Typing, Overwrote
<1>9. \A r \in Requests : \/ job'[r] = job[r]
                          \/ r \in {"put", "conflict", "refresh"} /\ job'[r].text \subseteq Old
  BY <1>3, <1>4, IdleIs
<1>10. ASSUME mine' \subseteq mine, tab'.content \subseteq Old, tab'.conflict = None
       PROVE  Made' /\ Foreign'
  <2>1. buffer' \subseteq Old
    BY <1>1 DEF Made
  <2> QED
    BY <1>1, <1>9, <1>10, <2>1, EditorMade
<1>11. ASSUME NEW content, NEW version, NEW replaced, NEW next, NEW dirty,
              Settle(content, version, replaced, next, dirty)
       PROVE  tab'.content = next /\ tab'.conflict = None
  BY <1>11 DEF Settle, TypeOK, Tab
<1>12. ASSUME NEW text \in Text, NEW replaced \in SUBSET Text, NEW next, NEW dirty \in BOOLEAN,
              Settle(text, text, replaced, next, dirty), mine' \subseteq mine,
              mine' \subseteq next, next \subseteq Old, ~dirty => mine' \subseteq Lasting,
              text \in replaced \/ next \subseteq Lasting
       PROVE  Made' /\ Foreign' /\ Typing'
  <2>1. Made' /\ Foreign'
    BY <1>10, <1>11, <1>12
  <2>2. mirror = tab /\ tab.open /\ tab.conflict # None /\ flush = None
    BY <1>2
  <2> HIDE DEF c
  <2>3. Typing'
    BY <1>1, <1>5, <1>6, <1>12, <2>2, SettledTyped
  <2> QED
    BY <2>1, <2>3
<1>13. tab.version \in Text /\ c.disk \in Text /\ c.text \in Text
  BY <1>2 DEF TypeOK, Tab, Conflict
<1>14. CASE Reload \/ Merge \/ Overwritten
  <2> DEFINE both == c.text \cup c.disk
             old == {tab.version}
             read == {tab.version, c.disk}
  <2>1. CASE Reload
    <3>1. Settle(c.disk, c.disk, old, c.disk, FALSE) /\ mine' = mine \cap (c.disk \cup disk)
      BY <1>2, <1>7, <2>1 DEF Reload
    <3>2. /\ mine' \subseteq mine /\ mine' \subseteq c.disk /\ mine' \subseteq Lasting
          /\ c.disk \subseteq Lasting
      BY <1>3, <1>8, <2>1, <3>1
    <3>3. old \in SUBSET Text
      BY <1>13
    <3> HIDE DEF c, old
    <3> QED
      BY <1>7, <1>12, <1>13, <3>1, <3>2, <3>3
  <2>2. CASE Merge
    <3>1. Settle(c.disk, c.disk, read, both, TRUE) /\ mine' = mine
      BY <1>2, <1>7, <2>2 DEF Merge
    <3>2. mine' \subseteq mine /\ mine' \subseteq both /\ both \subseteq Old
      BY <1>7, <3>1
    <3>3. read \in SUBSET Text /\ c.disk \in read
      BY <1>13
    <3> HIDE DEF c, read, both
    <3> QED
      BY <1>12, <1>13, <3>1, <3>2, <3>3
  <2>3. CASE Overwritten
    <3>1. /\ resolving /\ job["put"].st = "ok" /\ mine' = mine
          /\ Settle(c.text, job["put"].seen, old, c.text, FALSE)
      BY <1>2, <2>3 DEF Overwritten
    <3>2. job["put"].seen = c.text
      <4>1. job["put"].seen = job["put"].text
        BY <3>1, Names DEF Serving, ReadBy
      <4> QED
        BY <3>1, <4>1 DEF Sent
    <3>3. c.text \subseteq Lasting
      BY <3>1 DEF Known, Overwrote, Done
    <3>4. mine' \subseteq mine /\ mine' \subseteq c.text /\ mine' \subseteq Lasting
      BY <1>7, <3>1, <3>3
    <3>5. old \in SUBSET Text /\ Settle(c.text, c.text, old, c.text, FALSE)
      BY <1>13, <3>1, <3>2
    <3> HIDE DEF c, old
    <3> QED
      BY <1>7, <1>12, <1>13, <3>3, <3>4, <3>5
  <2> QED
    BY <1>14, <2>1, <2>2, <2>3
<1>15. CASE Discard
  <2>1. /\ tab'.open = FALSE /\ tab'.conflict = None /\ tab'.dirty = FALSE
        /\ tab'.content = tab.content /\ mine' = mine \cap disk /\ durable' = durable
    BY <1>15 DEF Discard, TypeOK, Tab
  <2>2. mine' \subseteq mine /\ mine' \subseteq Lasting
    BY <1>3, <1>8, <1>15, <2>1
  <2>3. Made' /\ Foreign'
    BY <1>10, <2>1, <2>2 DEF Made
  <2>4. job'["conflict"].st = "none" /\ job'["refresh"].st = "none"
    BY <1>5
  <2>5. mine' \subseteq Lasting' \cup Visible'
    BY <1>6, <2>2
  <2>6. Typing'
    BY <1>1, <1>2, <1>6, <2>1, <2>2, <2>4, <2>5 DEF Typing
  <2> QED
    BY <2>3, <2>6
<1> QED
  BY <1>14, <1>15

\* The inductive invariant, on top of Editing.
Authored == Made /\ Foreign /\ Typing

LEMMA AuthoredInit == Init => Authored
<1> SUFFICES ASSUME Init PROVE Authored
  OBVIOUS
<1>1. /\ tab.conflict = None /\ tab.content = {} /\ mirror = tab /\ mirror.open
      /\ buffer = {} /\ mine = {} /\ disk = {} /\ durable = None /\ flush = None
  BY DEF Init
<1>2. \A r \in Requests : job[r] = Idle
  BY DEF Init
<1>3. \A r \in Requests : job[r].text = {} /\ job[r].seen = {} /\ job[r].st = "none"
  BY <1>2 DEF Idle
<1>4. Made
  BY <1>1, <1>3, Names DEF Made
<1>5. Foreign
  BY <1>1 DEF Foreign
<1>6. Lasting = {}
  BY <1>1, <1>3, Names DEF Lasting
<1>7. Typing
  BY <1>1, <1>3, <1>6, Names DEF Typing
<1> QED
  BY <1>4, <1>5, <1>7 DEF Authored

LEMMA AuthoredStep ==
    ASSUME ~Overtaken, ~Late, ~TypesAhead, TypeOK, Editing, Authored, [Next]_vars
    PROVE  Authored'
<1>1. /\ Serving /\ Turns /\ Sent /\ Known /\ Made /\ Foreign /\ Typing
  BY DEF Editing, Authored
<1>2. ASSUME Made', Foreign', Restored, Moves PROVE Authored'
  BY <1>1, <1>2, MovesTyped DEF Authored
<1>3. CASE UNCHANGED vars
  <2>1. UNCHANGED <<disk, job, tab, mirror, buffer, durable, flush, resolving, mine, edits>>
    BY <1>3 DEF vars, editorVars
  <2>2. Made' /\ Foreign'
    BY <1>1, <2>1 DEF Made, Foreign, Old
  <2>3. Typing'
    BY <1>1, <2>1 DEF Typing, Lasting, Overwrote, Outdated, Shown, Visible
  <2> QED
    BY <2>2, <2>3 DEF Authored
<1>4. ASSUME NEW r \in Requests, Serve(r) PROVE Authored'
  BY <1>1, <1>2, <1>4, ServeMoves, ServeMine
<1>5. ASSUME NEW a \in Agents, AgentReads(a) \/ AgentWrites(a) \/ AgentDone(a) PROVE Authored'
  BY <1>1, <1>2, <1>5, AgentMoves, AgentMine
<1>6. CASE PlanLinks \/ MoveLinked
  BY <1>1, <1>2, <1>6, LinksMoves, LinksMine
<1>7. CASE Render \/ Type \/ \E close \in BOOLEAN : FlushSave(close)
  BY <1>1, <1>7, RenderTyped, TypeTyped, FlushSaveTyped DEF Authored
<1>8. CASE Saved \/ ShowConflict \/ Refreshed
  BY <1>1, <1>8, SavedTyped, ShowConflictTyped, RefreshedTyped DEF Authored
<1>9. CASE Refused \/ SaveFailed \/ Refresh \/ OverwriteFailed \/ Overwrite
  <2>1. Lasting' = Lasting
    <3>1. disk' = disk
      BY <1>9 DEF Refused, SaveFailed, Refresh, OverwriteFailed, Overwrite
    <3>2. job'["links"] = job["links"]
      BY <1>9, Names DEF Refused, SaveFailed, Refresh, OverwriteFailed, Overwrite, TypeOK
    <3> QED
      BY <3>1, <3>2 DEF Lasting
  <2> QED
    BY <1>1, <1>9, <2>1, UnmovedTyped DEF Authored
<1>10. CASE Reload \/ Merge \/ Discard \/ Overwritten
  BY <1>1, <1>10, DecidedTyped DEF Authored
<1> QED
  BY <1>3, <1>4, <1>5, <1>6, <1>7, <1>8, <1>9, <1>10 DEF Next, Continue

\* What is sure to stay of the file is in it.
LEMMA LastingHolds == TypeOK /\ Serving => Lasting \subseteq disk
BY Names DEF Serving, ReadBy, Lasting

\* When, besides, the user does not type into a tab that is being closed, no answer,
\* refresh, render or close loses what the user has typed: it is on the screen, in the
\* conflict that is shown or in the file until a decision of the user gives it up.
THEOREM NoTypingLost == ~Overtaken /\ ~Late /\ ~TypesAhead => (Spec => []TypingSurvives)
<1> SUFFICES ASSUME ~Overtaken, ~Late, ~TypesAhead PROVE Spec => []TypingSurvives
  OBVIOUS
<1>1. Init => TypeOK /\ Sensible /\ Editing /\ Authored
  BY TypeInit, EditingInit, AuthoredInit DEF Init, Sensible
<1>2. TypeOK /\ Sensible /\ Editing /\ Authored /\ [Next]_vars
        => TypeOK' /\ Sensible' /\ Editing' /\ Authored'
  BY TypeStep, SensibleStep, EditingStep, AuthoredStep
<1>3. TypeOK /\ Editing /\ Authored => TypingSurvives
  <2>1. TypeOK /\ Editing => Lasting \subseteq disk
    BY LastingHolds DEF Editing
  <2> QED
    BY <2>1 DEF Authored, Typing, Visible, TypingSurvives
<1> QED
  BY <1>1, <1>2, <1>3, PTL DEF Spec

=============================================================================
