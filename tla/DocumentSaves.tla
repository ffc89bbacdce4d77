---------------------------- MODULE DocumentSaves ----------------------------
(***************************************************************************)
(* One open text document between its editor, the agents that edit the     *)
(* same file, the moves of other files that rewrite its links and the file *)
(* itself: flushSave and the conflict decisions of the renderer            *)
(* (web-src/src/store/hooks/useDocumentActions.ts), its refresh from disk  *)
(* (store/contexts/AppContext.tsx), and saveFileContent of                 *)
(* server/file-save.ts, which serves the editor's saves and the agents'.   *)
(*                                                                         *)
(* A text is the set of the edits that it carries, and a version, the hash *)
(* of a text, is the text.  A step of a request is one file operation.     *)
(***************************************************************************)
EXTENDS Integers, FiniteSets

CONSTANTS
    Agents,     \* edit_file callers
    None,
    MaxEdits,   \* bound on edits, of the user and of the agents
    MaxFaults,  \* bound on writes that fail
    Overtaken,  \* file operations of two requests may alternate
    Late,       \* a refresh may be answered, and a dispatch rendered, later than what follows
    TypesAhead  \* the user may type while a tab that is being closed is saved

ASSUME DocumentSavesAssumption ==
    /\ Agents \cap {"put", "conflict", "refresh", "links"} = {}
    /\ MaxEdits \in Nat /\ MaxFaults \in Nat
    /\ Overtaken \in BOOLEAN /\ Late \in BOOLEAN /\ TypesAhead \in BOOLEAN

VARIABLES
    disk,     \* the file's text
    job,      \* the requests: where each is and what it has read
    tab,      \* the tab as dispatched
    mirror,   \* the tab as rendered, which callbacks read (state.current)
    buffer,   \* the live editor value
    typed,    \* pendingEditorChangeTabs has the tab
    durable,  \* latestDurableBaseline
    flush,    \* the save in flight
    timer,    \* an autosave is scheduled
    resolving,\* a conflict decision is being carried out
    failed,   \* the last save failed, and the status says so
    mine,     \* history: the user's edits, without those that a decision gave up
    edits, faults

editorVars == <<tab, mirror, buffer, typed, durable, flush, timer, resolving, failed, mine>>
vars == <<disk, job, editorVars, edits, faults>>

-----------------------------------------------------------------------------
Text == SUBSET (1..MaxEdits)
Requests == {"put", "conflict", "refresh", "links"} \cup Agents
Job == [st : {"none", "get", "got", "gotten", "check", "compare", "read", "write",
              "version", "ok", "changed", "error", "apply", "rewrite", "others", "back"},
        text : Text, base : Text \cup {None}, seen : Text]
Conflict == [disk : Text, version : Text, text : Text]
Tab == [open : BOOLEAN, content : Text, version : Text, dirty : BOOLEAN,
        conflict : Conflict \cup {None}]
Flush == [content : Text, base : Text, close : BOOLEAN, lags : BOOLEAN]
Baseline == [content : Text, version : Text, superseded : SUBSET Text]

\* null is none of these.
ASSUME NoneAssumption ==
    /\ None \notin Conflict \cup Flush \cup Baseline
    /\ \A text \in Text : text # None

Idle == [st |-> "none", text |-> {}, base |-> None, seen |-> {}]
Get == [Idle EXCEPT !.st = "get"]
Put(text, base) == [st |-> "check", text |-> text, base |-> base, seen |-> {}]

Init ==
    /\ disk = {} /\ job = [r \in Requests |-> Idle]
    /\ tab = [open |-> TRUE, content |-> {}, version |-> {}, dirty |-> FALSE, conflict |-> None]
    /\ mirror = tab
    /\ buffer = {} /\ typed = FALSE
    /\ durable = None /\ flush = None /\ timer = FALSE
    /\ resolving = FALSE /\ failed = FALSE
    /\ mine = {}
    /\ edits = 0 /\ faults = 0

\* Another edit.
Fresh == edits + 1
EditMade == edits < MaxEdits /\ edits' = Fresh

-----------------------------------------------------------------------------
(* The server: GET /api/files and read, PUT /api/files and write. *)

UnderWay(r) == job[r].st \in {"got", "compare", "read", "write", "version",
                            "apply", "rewrite", "others", "back"}
MayStep(r) == Overtaken \/ \A other \in Requests \ {r} : ~UnderWay(other)

Goes(r, from, to) ==
    /\ job[r].st = from /\ MayStep(r)
    /\ job' = [job EXCEPT ![r] = to]
    /\ UNCHANGED <<editorVars, edits>>

\* readTextAsync, and then fileVersionAsync.
ReadText(r) ==
    /\ Goes(r, "get", [job[r] EXCEPT !.st = "got", !.text = disk])
    /\ UNCHANGED <<disk, faults>>

ReadVersion(r) ==
    /\ Goes(r, "got", [job[r] EXCEPT !.st = "gotten", !.seen = disk])
    /\ UNCHANGED <<disk, faults>>

\* Variant with a bug (for NothingErased): a version that does not match is taken
\* for the one of a file that has since been saved.
CheckNothing(r) ==
    /\ Goes(r, "check", [job[r] EXCEPT !.st = "read"])
    /\ UNCHANGED <<disk, faults>>

\* The version that the caller started from, if it has named one.
CheckVersion(r) ==
    /\ Goes(r, "check", IF job[r].base \in {None, disk}
                        THEN [job[r] EXCEPT !.st = "read"]
                        ELSE [job[r] EXCEPT !.st = "compare", !.seen = disk])
    /\ UNCHANGED <<disk, faults>>

\* A stale version of this very text is no conflict.
CompareText(r) ==
    /\ Goes(r, "compare", [job[r] EXCEPT !.st = IF disk = job[r].text THEN "ok" ELSE "changed"])
    /\ UNCHANGED <<disk, faults>>

\* A save of the same bytes writes nothing.
ReadPrevious(r) ==
    /\ Goes(r, "read", [job[r] EXCEPT !.st = IF disk = job[r].text THEN "version" ELSE "write"])
    /\ UNCHANGED <<disk, faults>>

\* saveTextAsync, an atomic replacement; it may fail.
WriteText(r) ==
    \/ /\ Goes(r, "write", [job[r] EXCEPT !.st = "version"])
       /\ disk' = job[r].text /\ faults' = faults
    \/ /\ Goes(r, "write", [job[r] EXCEPT !.st = "error"])
       /\ disk' = disk /\ faults < MaxFaults /\ faults' = faults + 1

\* The version in the answer is read after the index update.
AnswerVersion(r) ==
    /\ Goes(r, "version", [job[r] EXCEPT !.st = "ok", !.seen = disk])
    /\ UNCHANGED <<disk, faults>>

Serve(r) ==
    \/ ReadText(r) \/ ReadVersion(r)
    \/ CheckVersion(r) \/ CompareText(r) \/ ReadPrevious(r) \/ WriteText(r) \/ AnswerVersion(r)

-----------------------------------------------------------------------------
(* An agent: editLibraryFile reads the file and writes what it makes of it. *)

AgentReads(a) ==
    /\ job[a].st = "none" /\ edits < MaxEdits
    /\ job' = [job EXCEPT ![a] = Get]
    /\ UNCHANGED <<disk, editorVars, edits, faults>>

AgentWrites(a) ==
    /\ job[a].st = "gotten" /\ EditMade
    /\ job' = [job EXCEPT ![a] = Put(job[a].text \cup {Fresh}, job[a].seen)]
    /\ UNCHANGED <<disk, editorVars, faults>>

AgentDone(a) ==
    /\ job[a].st \in {"ok", "changed", "error"}
    /\ job' = [job EXCEPT ![a] = Idle]
    /\ UNCHANGED <<disk, editorVars, edits, faults>>

-----------------------------------------------------------------------------
(* A move of a file that the document links to, moveLibraryFile: the new text is
   made before the rename, and written after it (server/links.ts). *)

\* planRenameLinksAsync
PlanLinks ==
    /\ job["links"].st = "none" /\ MayStep("links") /\ EditMade
    /\ job' = [job EXCEPT !["links"] = [Idle EXCEPT !.st = "apply", !.text = disk \cup {Fresh}]]
    /\ UNCHANGED <<disk, editorVars, faults>>

\* applyRenamePlanAsync, for this document: what it replaces is kept for a rollback.
ReadOriginal ==
    /\ Goes("links", "apply", [job["links"] EXCEPT !.st = "rewrite", !.seen = disk])
    /\ UNCHANGED <<disk, faults>>

RewriteLinks ==
    /\ Goes("links", "rewrite", [job["links"] EXCEPT !.st = "others"])
    /\ disk' = job["links"].text
    /\ UNCHANGED faults

\* The other documents of the plan; one that cannot be written takes this one back.
RewriteOthers ==
    \/ /\ Goes("links", "others", Idle)
       /\ UNCHANGED <<disk, faults>>
    \/ /\ Goes("links", "others", [job["links"] EXCEPT !.st = "back"])
       /\ faults < MaxFaults /\ faults' = faults + 1
       /\ UNCHANGED disk

RollBack ==
    /\ Goes("links", "back", Idle)
    /\ disk' = job["links"].seen
    /\ UNCHANGED faults

MoveLinked == ReadOriginal \/ RewriteLinks \/ RewriteOthers \/ RollBack

-----------------------------------------------------------------------------
(* The renderer. *)

\* What is dispatched is rendered, and a refresh that was sent is answered, before
\* anything else happens, unless Late.
Quiet == Late \/ (mirror = tab /\ job["refresh"].st = "none")
Mounted == mirror.open /\ mirror.conflict = None

\* React renders; an editor that is clean shows the tab's content, and so does one
\* that is mounted again.
Render ==
    /\ mirror # tab
    /\ mirror' = tab
    /\ buffer' = IF \/ mirror.conflict # None /\ tab.conflict = None
                    \/ /\ ~tab.dirty
                       /\ <<tab.dirty, tab.content>> # <<mirror.dirty, mirror.content>>
                 THEN tab.content ELSE buffer
    /\ UNCHANGED <<disk, job, tab, typed, durable, flush, timer, resolving, failed, mine,
                   edits, faults>>

\* scheduleSave, on a change of the document by the user.
Type ==
    /\ Mounted /\ Quiet
    /\ IF flush = None THEN TRUE ELSE TypesAhead \/ ~flush.close
    /\ EditMade
    /\ buffer' = buffer \cup {Fresh} /\ mine' = mine \cup {Fresh}
    /\ typed' = TRUE /\ timer' = TRUE
    /\ tab' = [tab EXCEPT !.dirty = TRUE]
    /\ UNCHANGED <<disk, job, mirror, durable, flush, resolving, failed, faults>>

\* The mirror still shows a version that a later baseline has replaced.
Lags == durable # None /\ mirror.version \in durable.superseded

\* flushSave, by the timer or for a tab that is to be closed; a conflict is a barrier.
FlushSave(close) ==
    /\ Mounted /\ tab.open /\ flush = None /\ Quiet
    /\ close \/ timer
    /\ timer' = FALSE
    /\ LET baseline == IF Lags THEN durable.content ELSE mirror.content
           base == IF Lags THEN durable.version ELSE mirror.version
           clean == ~typed /\ ~mirror.dirty
       IN  IF clean \/ buffer = baseline
           THEN /\ typed' = FALSE
                /\ tab' = [tab EXCEPT !.dirty = IF clean THEN @ ELSE FALSE, !.open = ~close]
                /\ UNCHANGED <<job, flush>>
           ELSE /\ flush' = [content |-> buffer, base |-> base, close |-> close, lags |-> Lags]
                /\ job' = [job EXCEPT !["put"] = Put(buffer, base)]
                /\ UNCHANGED <<typed, tab>>
    /\ failed' = FALSE
    /\ UNCHANGED <<disk, mirror, buffer, durable, resolving, mine, edits, faults>>

\* The save is accepted; the user may have gone on typing.
Saved ==
    /\ flush # None /\ job["put"].st = "ok"
    /\ durable' = [content |-> flush.content, version |-> job["put"].seen,
                   superseded |-> (IF flush.lags THEN durable.superseded ELSE {})
                                    \cup {flush.base}]
    /\ tab' = [tab EXCEPT !.content = flush.content, !.version = job["put"].seen,
                          !.dirty = IF buffer = flush.content THEN FALSE ELSE @,
                          !.open = @ /\ ~flush.close]
    /\ typed' = (buffer # flush.content)
    /\ timer' = (timer \/ buffer # flush.content)
    /\ flush' = None /\ job' = [job EXCEPT !["put"] = Idle]
    /\ UNCHANGED <<disk, mirror, buffer, resolving, failed, mine, edits, faults>>

\* FILE_CHANGED: the file is read, and then the conflict shown; no save without a base.
Refused ==
    /\ flush # None /\ job["put"].st = "changed"
    /\ job' = [job EXCEPT !["put"] = Idle, !["conflict"] = Get]
    /\ UNCHANGED <<disk, editorVars, edits, faults>>

\* Variant with a bug (for TypingSurvives): the conflict keeps the text of the save.
EditorTextOfSave == flush.content

\* What was typed while the save was under way is part of it.
EditorText == buffer

\* Variant with a bug (for TypeOK): the conflict is shown without the version read with it.
ShowConflictUnversioned ==
    /\ flush # None /\ job["conflict"].st = "gotten"
    /\ tab' = [tab EXCEPT !.conflict = [disk |-> job["conflict"].text, text |-> EditorText]]
    /\ flush' = None /\ job' = [job EXCEPT !["conflict"] = Idle]
    /\ UNCHANGED <<disk, mirror, buffer, typed, durable, timer, resolving, failed, mine, edits,
                   faults>>

ShowConflict ==
    /\ flush # None /\ job["conflict"].st = "gotten"
    /\ tab' = [tab EXCEPT !.conflict = [disk |-> job["conflict"].text,
                                        version |-> job["conflict"].seen, text |-> EditorText]]
    /\ flush' = None /\ job' = [job EXCEPT !["conflict"] = Idle]
    /\ UNCHANGED <<disk, mirror, buffer, typed, durable, timer, resolving, failed, mine, edits,
                   faults>>

\* Variant with a bug (for TypingSettles): nobody is told.
SaveFailedSilently ==
    /\ flush # None /\ job["put"].st = "error"
    /\ flush' = None /\ job' = [job EXCEPT !["put"] = Idle]
    /\ UNCHANGED <<disk, tab, mirror, buffer, typed, durable, timer, resolving, failed, mine,
                   edits, faults>>

\* The save, or the read of the conflict it met, has failed; nothing schedules another.
SaveFailed ==
    /\ flush # None /\ flush' = None
    /\ \/ /\ job["put"].st = "error" /\ job' = [job EXCEPT !["put"] = Idle]
          /\ faults' = faults
       \/ /\ job["conflict"].st = "gotten" /\ job' = [job EXCEPT !["conflict"] = Idle]
          /\ faults < MaxFaults /\ faults' = faults + 1
    /\ failed' = TRUE
    /\ UNCHANGED <<disk, tab, mirror, buffer, typed, durable, timer, resolving, mine, edits>>

-----------------------------------------------------------------------------
(* refreshActiveTabFromDisk, when the watcher has seen the tree change. *)

Refresh ==
    /\ mirror.open /\ ~mirror.dirty /\ job["refresh"].st = "none" /\ Quiet
    /\ disk # mirror.content
    /\ job' = [job EXCEPT !["refresh"] = Get]
    /\ UNCHANGED <<disk, editorVars, edits, faults>>

\* canApplyExternalTextRefresh
MayRefresh == mirror.open /\ ~mirror.dirty

Refreshed ==
    /\ job["refresh"].st = "gotten"
    /\ job' = [job EXCEPT !["refresh"] = Idle]
    /\ tab' = IF MayRefresh /\ job["refresh"].text # mirror.content
              THEN [tab EXCEPT !.content = job["refresh"].text, !.version = job["refresh"].seen]
              ELSE tab
    /\ UNCHANGED <<disk, mirror, buffer, typed, durable, flush, timer, resolving, failed, mine,
                   edits, faults>>

-----------------------------------------------------------------------------
(* The conflict decisions. *)

Decide == mirror.open /\ mirror.conflict # None /\ tab = mirror /\ ~resolving

\* settleConflict
Settle(content, version, replaced, next, dirty) ==
    /\ durable' = [content |-> content, version |-> version, superseded |-> replaced]
    /\ typed' = dirty
    /\ tab' = [tab EXCEPT !.content = next, !.version = version, !.dirty = dirty,
                          !.conflict = None]

Reload ==
    /\ Decide
    /\ LET c == mirror.conflict
       IN  /\ Settle(c.disk, c.version, {mirror.version}, c.disk, FALSE)
           /\ mine' = mine \cap (c.disk \cup disk)
    /\ UNCHANGED <<disk, job, mirror, buffer, flush, timer, resolving, failed, edits, faults>>

\* Both texts in one draft, which the next flushSave saves.
Merge ==
    /\ Decide
    /\ LET c == mirror.conflict
       IN  Settle(c.disk, c.version, {mirror.version, c.version}, c.text \cup c.disk, TRUE)
    /\ UNCHANGED <<disk, job, mirror, buffer, flush, timer, resolving, failed, mine, edits,
                   faults>>

Overwrite ==
    /\ Decide
    /\ resolving' = TRUE
    /\ job' = [job EXCEPT !["put"] = Put(mirror.conflict.text, None)]
    /\ UNCHANGED <<disk, tab, mirror, buffer, typed, durable, flush, timer, failed, mine, edits,
                   faults>>

Overwritten ==
    /\ resolving /\ job["put"].st = "ok"
    /\ LET c == mirror.conflict
       IN  Settle(c.text, job["put"].seen, {mirror.version}, c.text, FALSE)
    /\ resolving' = FALSE /\ job' = [job EXCEPT !["put"] = Idle]
    /\ UNCHANGED <<disk, mirror, buffer, flush, timer, failed, mine, edits, faults>>

OverwriteFailed ==
    /\ resolving /\ job["put"].st = "error"
    /\ resolving' = FALSE /\ job' = [job EXCEPT !["put"] = Idle]
    /\ UNCHANGED <<disk, tab, mirror, buffer, typed, durable, flush, timer, failed, mine, edits,
                   faults>>

\* closeTab of a conflict, once the user has confirmed.
Discard ==
    /\ Decide
    /\ tab' = [tab EXCEPT !.open = FALSE, !.conflict = None, !.dirty = FALSE]
    /\ typed' = FALSE
    /\ mine' = mine \cap disk
    /\ UNCHANGED <<disk, job, mirror, buffer, durable, flush, timer, resolving, failed, edits,
                   faults>>

-----------------------------------------------------------------------------
Continue ==
    \/ Render
    \/ Saved \/ Refused \/ ShowConflict \/ SaveFailed
    \/ Refreshed
    \/ Overwritten \/ OverwriteFailed

Next ==
    \/ \E r \in Requests : Serve(r)
    \/ \E a \in Agents : AgentReads(a) \/ AgentWrites(a) \/ AgentDone(a)
    \/ PlanLinks \/ MoveLinked
    \/ Type
    \/ \E close \in BOOLEAN : FlushSave(close)
    \/ Refresh
    \/ Reload \/ Merge \/ Overwrite \/ Discard
    \/ Continue

Spec == Init /\ [][Next]_vars

\* The server serves every request, callbacks run, and the autosave timer fires.
FairSpec ==
    /\ Spec
    /\ \A r \in Requests : WF_vars(Serve(r))
    /\ WF_vars(MoveLinked)
    /\ WF_vars(Continue)
    /\ WF_vars(FlushSave(FALSE))

-----------------------------------------------------------------------------
(* Properties. *)

\* The sets that the variables range over.
TypeOK ==
    /\ disk \in Text
    /\ job \in [Requests -> Job]
    /\ tab \in Tab /\ mirror \in Tab
    /\ buffer \in Text /\ mine \in Text
    /\ durable \in Baseline \cup {None}
    /\ flush \in Flush \cup {None}
    /\ typed \in BOOLEAN /\ timer \in BOOLEAN /\ resolving \in BOOLEAN /\ failed \in BOOLEAN
    /\ edits \in 0..MaxEdits /\ faults \in 0..MaxFaults

\* No save erases what its author has not seen: only Overwrite, which the user has
\* chosen, takes an edit out of the file, and a move that fails its own.
NothingErased ==
    [][resolving \/ disk \ disk' \subseteq (IF job["links"].st = "back"
                                           THEN job["links"].text \ job["links"].seen
                                           ELSE {})]_vars

\* What the user has typed is on the screen, in the conflict that replaced it or in
\* the file, until a decision of the user gives it up: no answer, refresh or close
\* loses it.
TypingSurvives ==
    mine \subseteq disk \cup (IF ~mirror.open THEN {}
                              ELSE IF mirror.conflict = None THEN buffer
                              ELSE mirror.conflict.text)

\* A scheduled save comes to an end that the user can see: the text is saved, a
\* conflict is shown, the status says that the save failed, or the tab is closed.
TypingSettles ==
    timer ~> (~typed \/ failed \/ mirror.conflict # None \/ ~mirror.open)

\* A save that names a version replaces that version and no other
\* (file-transactions.md, "stale editor write with base V1 is rejected").
StaleSaveRejected ==
    [][\A r \in Requests :
         (job[r].st = "write" /\ job'[r].st = "version" /\ job[r].base # None)
             => disk = job[r].base]_vars

\* A conflict holds a text of the file with the version of that very text
\* (file-transactions.md, "Conflict comparison content and version come from one disk
\* read").
ConflictIsOneRead ==
    tab.conflict # None => tab.conflict.disk = tab.conflict.version
=============================================================================
