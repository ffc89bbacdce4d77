# StashBase, verified: TLA+ models and proofs

StashBase keeps a library of plain files on the user's disk. A Node server prepares derived
text for PDFs, images, DOCX and audio, a Python sidecar holds the vector store, an Electron
shell and a web client show the library, and agents reach it through MCP. The files are
edited by anybody at any moment, the server can die at any moment, and conversions, index
calls, saves, imports and agent turns overlap. What must survive all this is simple to say:
*text and index rows that are served as current belong to the current bytes of their source,
nobody's bytes are lost without a decision, work that was asked for is eventually done or
has a visible reason why not, and bounded resources stay bounded.*

This directory holds

| module | what it is |
| --- | --- |
| `ScheduledWork` | the abstract contract of the conversion scheduler, per key |
| `ConversionScheduler` | `src/server/conversion-scheduler.ts`, for many sources; implements `ScheduledWork` |
| `Conversion` | one convertible source: execution, durable row, derived text, index row, discovery, cancel, reconcile, crash; a client of `ScheduledWork` |
| `Reconcile` | the text files of a folder with their index rows: `syncIndex` of `src/server/sync.ts`, its pauses, and the saves beside it |
| `FolderSync` | bindings, sync queues, windows and the removal of folders: `src/server/state.ts`, `folder.ts`, `routes/library.ts` |
| `MfsDaemon` | the manager of the Python sidecar, `src/server/mfs-daemon.ts` |
| `ImportPublication` | publication of an import and its start-up recovery, `src/server/import-publication.ts` |
| `DocumentSaves` | one open text document between editor, agents, link rewrites and the file: `useDocumentActions.ts`, `AppContext.tsx`, `file-save.ts`, `links.ts` |
| `AgentSession` | a chat tab and the Claude sessions that serve it: `agent.ts`, `useAgentSession.ts`, `useAgentPromptQueue.ts` |
| `*_proofs` | theorems about each module above but `ScheduledWork`, for every value of the constants |
| `MC*` | small instances for TLC (`AgentSession` needs none) |

`PROJECT.json` lists the components, the runs, the correspondence between definitions and
source lines, the findings, the hazards and the theorems.

Run a model with `tlc -config Scheduler.cfg MCConversionScheduler`, check the proofs with
`tlapm ConversionScheduler_proofs.tla` and likewise for the other `*_proofs` modules.

---------------------------------------------------------------------------

## 1. Inventory

### 1.1 Components with state of their own

**Conversion scheduler** (`src/server/conversion-scheduler.ts`). State: a map of tasks by
canonical source path (state, urgency, cost, ageing, classifier, `started`, `ownsLane`,
`cancelling`), a counter per lane, a counter of classifiers, two flags for drains that are
scheduled as microtasks, an ageing timer. Operations: `schedule`, `promote`, `cancel`,
`cancelScope`, `cancelUnder`, `cancelAll`, `prioritiesChanged`, the drains, `yieldLane`,
`finish`. Hard: every deferred step runs after an unknown number of other callbacks; a job
can give its lane back in the middle of a run and be cancelled while it waits for it again;
a classifier can outlive its task. Correct when: counters equal owners, a lane is never
overcommitted, no free slot is forgotten, a cancelled run never resumes and always settles,
nothing starves.

**Conversion of one source** (`conversion.ts`, `conversion-status.ts`,
`conversion-dispatch.ts`, `extractor-process.ts`, the conversion side of `sync.ts`, the
indexing hook of `index.ts`, the cancel and reprocess routes of `routes/indexing.ts`).
State: an in-memory marker, a durable row (failed or cancelled), the derived text in
AppData, the row of the index. Operations: discover, convert, publish, index, reprocess,
cancel, invalidate, clean up. Hard: the source is not locked, so its bytes can change
between any two awaits; the extractors of PDFs and images are detached processes which
outlive a crash; the user's cancel awaits the end of aborted work. Correct when: served text
and index rows are current, the marker never outlives the run, a durable gate holds until
Reprocess, preparation converges.

**Reconcile of a folder** (`sync.ts`, the semantic decision of `state.ts`,
`indexer.mfs.ts`). State: what is left of the diff, the decision to pause or to embed, the
failures so far. Operations: scan, move rows, remove rows, invalidate and publish a pause,
embed; single-file index writes of saves run beside it. Hard: everything after the diff is
old knowledge; a pause becomes visible to search. Correct when: a reconcile that reports
success has told the truth, a save is never undone in the index, a pause is published over
clean rows.

**Folder runtime** (`state.ts`, `folder.ts`, `routes/library.ts`). State: membership, the
folder each window shows, per-window chains of switches, per-folder queues of sync
operations, generations that fence off removed folders, index warnings. Operations: open,
close, sync, loops over the library, removal in six steps; a retry when the daemon was
retired. Hard: a folder is removed while its bind, sync or retry is in flight; the removal
of one folder retires the daemon under the sync of another; a cleanup fails half way.
Correct when: no sync works on a folder that is being cleaned up, nothing of a sync is left
behind, an interrupted sync heals, the last switch of a window ends in a sync, a removal
ends.

**Sidecar manager** (`mfs-daemon.ts`, `state.ts:resetIndexerRuntime`). State: the child, the
readiness latch, the retirement barrier, pending calls, the bindings to replay. Operations:
`call` (with every operation of the store), `bindFolder`, `unbindFolder`, `close`, the
child's events, the timers. Hard: calls arrive while a child is being spawned, configured,
retired or replaced; exit events of an old child arrive when its successor is current.
Correct when: one child works on the store, no public call reaches an unconfigured child,
every call is settled, a late event of an old generation disturbs nobody.

**Uploads and imports** (`import-publication.ts`, `routes/upload.ts`). State: staged bytes,
a temporary file or a reservation, a durable recovery record. Operations: publish by hard
link or by an exclusive reservation that is streamed into, clean up, recover at start-up.
Hard: the user may create, replace or delete the file of that name at any step, calls fail,
the server dies. Correct when: nobody else's file and no published file loses its name, and
no partial file keeps it.

**File mutations and saves** (`file-save.ts`, `library-file-mutations.ts`,
`active-file-operations.ts`, `links.ts`; in the renderer `useDocumentActions.ts`,
`AppContext.tsx`). State: the file, the tab (content, version, dirty flag, conflict), the
live editor value, the save in flight, the autosave timer. Operations: versioned save,
conflict decisions (reload, merge, overwrite, discard), refresh from disk, agent edit,
rewriting of links by a move and its rollback. Hard: the version is compared and the bytes
are replaced in two steps; typing goes on during every await; a callback reads the state of
the last rendering. Correct when: no save erases what its author has not seen, no typing is
lost without a decision, and every save ends in something the user sees.

**Agent sessions** (`agent.ts`, `agent-projects.ts`; in the renderer `useAgentSession.ts`,
`useAgentPromptQueue.ts`). State: per web socket a session with its native process, its
turn, its interrupt; per transcript an owner; per tab phase, busy flag, queue, retry and
failure card. Operations: connect, resume, take over, send, stop, edit and resend, migrate a
Library chat into the project it has made, retire, try again, reconnect. Hard: a transcript
may be resumed while its owner starts, works or is being closed; a result may arrive while
an interrupt is under way; the tab knows of all this only by messages. Correct when: one
process writes a transcript, results and interrupts meet the turn they belong to, tab and
session agree on whether a turn is active, nobody waits for ever.

**Durable per-machine state** (`state-db.ts`, `derived-store.ts`, `local-data.ts`):
synchronous rows and files, the ground under the components above. **Audio transcription and
models** (`audio-transcription.ts`, `transcription-models.ts`): checkpoints per chunk and
downloads that resume. **Codex and OpenCode runtimes, MCP, accounts**
(`codex-session-runtime.ts`, `opencode-runtime.ts`, `src/mcp`, `hosted-*.ts`): bridges to
third-party processes, adapters over the same library operations, brokers with tokens of
limited life. **Desktop shell** (`src/electron`): windows that may veto their closing while
an update waits for them all. **Rest of the renderer** (`src/web-src`): user interface.
**Retrieval** (`src/server/retrieval`): ranking and filtering, no state to interleave.

### 1.2 How they interact

    windows, routes --> FolderSync --> Reconcile ----------------+--> MfsDaemon --> Python store
                                          |                      |
    discovery, routes -------------> Conversion --> indexing hook+
                                          |
                                          +--> ConversionScheduler --> extractor process
    editor, agents, moves --> DocumentSaves --> file --> index write of the save (Reconcile)
    uploads --> ImportPublication --> file --> late index write (FolderSync)
    chat tab <--> AgentSession --> native agent process --> MCP tools --> the operations above

- Discovery, the routes and reconcile call the scheduler with the source's path as key. The
  scheduler calls `run` back, and `onSettled` when the run has ended, in a microtask of the
  run's own end.
- The run's indexing hook, reconcile and the saves call the store through the sidecar
  manager, which may be retired under them; `FolderSync` sees that as a rejected call,
  `Reconcile` as a failed one.
- The store's `scan_diff` compares hashes, and its answer makes reconcile move and replace
  rows and cancel, clean and requeue conversions.
- The only shared memory is that of one JavaScript thread, in the server and in each window,
  so an atomic step is a stretch between two I/O events together with the microtasks it
  resolves. Everything else (files, extractor, child processes, sockets, the user) moves
  between any two such steps.

### 1.3 Hazards

`PROJECT.json` lists each one at its line, with the property that would catch it. In short:
interleavings of yields, cancels and retirements; drains that are scheduled late; edits in
the middle of a run, a reconcile, a save or an import; replacements that keep size and
mtime; crashes between two writes; cancels that await while discovery runs; late exits of
old children; folders that are removed under their syncs; versions that are compared before
they are replaced; results that cross interrupts; tabs whose session is replaced. Hazards
without a property carry a note that says why.

---------------------------------------------------------------------------

## 2. Plan

Done, in this order: `ConversionScheduler` with its contract `ScheduledWork`; `Conversion`
as a client of that contract; `MfsDaemon`; `FolderSync`; `Reconcile`; `ImportPublication`;
`DocumentSaves`; `AgentSession`; and proofs of every safety property that a run checks.

Left, most important first:

1. **`ReadyStore`**, an abstract contract of the sidecar (a call is answered, fails, or is
   rejected by a retirement; one store at a time), which `MfsDaemon` implements and
   `FolderSync` and `Reconcile` use.
2. **Credentials in `MfsDaemon`**: bindings carry a credential, a refused binding stays
   refused, and `forgetBindings` drops the old ones. Property: no child works with a
   credential replaced before it was spawned.
3. **Audio checkpoints**: transcription resumed after a crash, as a refinement of
   `Conversion`'s single extracting step; **model downloads** that resume.
4. **The Codex runtime** as a second implementation of the turn protocol of `AgentSession`,
   with approvals.
5. **The update barrier** of the desktop shell.

A move of the file itself would join `DocumentSaves` and `Conversion`: today the first has
the links a move rewrites, the second the deletion and the new source.

---------------------------------------------------------------------------

## 3. The models

### 3.1 `ScheduledWork`: what the scheduler promises

Per key a status (absent, waiting, working, suspended, unwinding) and whether its run was
told to end. Work of one key never overlaps itself, a lane never holds more runs than slots,
only work that was not cancelled is given a slot, work that never started is dropped when
cancelled, started work stays known until its run has ended.

It is used from both sides. `ConversionScheduler!KeepsPromise` says that the scheduler
implements it (checked by TLC and **proved**). `Conversion!UsesPromise` says that the task
of one source, as discovery, routes, reconcile, runs and crashes move it, behaves as one key
of it. So `Conversion` does not rest on anything the scheduler does not provide.

### 3.2 `ConversionScheduler`

| code | model |
| --- | --- |
| `tasks` map, `Task` | `task`, one record per key, `"absent"` when not in the map |
| `seq` | `before[k]`, the live tasks that arrived earlier (no bound on arrivals is needed) |
| `running` counters, `classifiersRunning` | the same names, moved by `+ 1` and `Math.max(0, n - 1)` as in the code, never derived from the tasks |
| `run()` of a job, the resume promise of `yieldLane` | `body`: working, suspended, unwinding |
| aborted classifiers whose task is gone | `strays` |
| `drainScheduled`, `classifierDrainScheduled`, `queueMicrotask` | flags, with `Drain` and `ClassifierDrain` as actions of their own |
| `schedule` | `ScheduleNew`, `ScheduleAgain` |
| `promote` | `Promote` |
| `cancel`, `cancelScope`, `cancelUnder`, `cancelAll` | `Cancel`, `CancelUnder`, `CancelAll` over `CancelKeys(S)` |
| `prioritiesChanged` | `PrioritiesChanged`, with the change of open folders that its caller reports |
| `drainLane`, `compare` | `Selected`, `Precedes`, `Grant` |
| ageing timer | `TimePasses` (the clock), `AgeingTimer`, `ApplyDueAgeing` |
| `yieldLane`, `finish` | `YieldLane`, `Finish` |
| classifier callbacks | `ClassifierReports`, `StrayClassifierEnds` |

Left out: the revision counter and the snapshots (observers only read them), and the error
thrown when one key is scheduled for two lanes (a lane is a function of the key here).

### 3.3 `Conversion`

The unit is one source. A content is a version number that each change increments; an mtime
is the version at the time it was stamped, or the old one if the change preserves stamps
(`KeptStamps`). `derived.from` is the version the text was extracted from, `derived.at` the
time it was written, `indexed` the text in the index and the hash it is stored under. `run`
holds the stage of `executeConversion`, the signature it began with (`began`), and what its
extractor and its hash have read.

| code | model |
| --- | --- |
| `discoverSource`, `maybeConvert`, `runConversion` | `Discover`, `Enqueue` |
| cost probe of PDFs | `ProbeStarts`, `ProbeReports`, `ProbesEnd` (`winding`: aborted and still ending) |
| `executeConversion`, first segment | `Start` |
| the extractor | `ReadSource`, `ExtractorPublishes` (subprocess formats write the text themselves) |
| `convert()` rejects / resolves | `ConvertFails` / `ConvertReturns`, one disjunct per exit |
| indexing hook of `index.ts` | `HashSource`, `FinishIndexing` |
| `markDone`, `markFailed`, `markCancelled`, `clearRecord`, `finish`, `onSettled` | `Retire`, `RetireAborted`, `Record`: microtasks of one another, hence one step |
| reprocess and cancel routes | `Reprocess`, `UserCancel` (up to its await; the rest is in `Retire` and `ProbesEnd`) |
| file operations, preview, shutdown | `Interrupt`, `DeleteInApp` |
| `scan_diff`, `invalidateModifiedConvertedSource`, `cleanupMissingConvertedSources` | `ScanDiff`, `InvalidateModified`, `CleanupMissing` with `Invalidate` |
| reconcile's removal of a stale or missing row, `indexFreshDerived` | `RemoveStale`, `RowRemoved`, `ReindexBegin/Hash/End` |
| death of the server | `Crash`, also between the write of a text and the check of the signature; `OrphanPublishes` for the detached extractor that goes on |

Not modelled: best-effort cleanups that fail, loss of folder membership during a run,
configuration of transcription providers, the scratch files of PDF batches, an extractor
that fails after it has published, and a reconcile that stops or pauses before it reaches
the source.

### 3.4 `MfsDaemon`

A generation is one spawned child with the attempt that configures it. An action is one
callback of Node with the microtasks that follow. `readyP`, `closeP`, `pending`, `bindings`
are the fields of the class; `gen[g].calls` and `held` are the calls suspended on the
readiness promise of a generation and on the close promise.

| code | model |
| --- | --- |
| `call`, `ensureReady`, `spawnAndConfigure` | `Send`, `Spawn` |
| `bindFolder`, `unbindFolder`, every other operation | `Bind`, `Unbind`, `Query` |
| the `ready` event, the rules, the replay loop, replies | `ChildReady`, `Reply`, `Replay`, `ReplyError` |
| `close`, and `resetIndexerRuntime` of `state.ts` | `Retire`, `Close`, `Reset` |
| the call timer | `CallTimeout` |
| the escalation timers, the exit they wait for, the last timer | `Escalate`, `RetiredChildExits`, `GiveUp`: the child is then `"killed"`, not gone |
| exit and error events with the identity fence of `failAll` | `CurrentChildExits` (also a child that was not ready in 90 s), `LateExit` |

Simplifications: the operations of the store other than bind and unbind are one `Query`; the
replay order of bindings is arbitrary; the owner of a failed attempt is told at once, and
not after the retirement it waits for; requests already written to a retired child may still
be executed there, which no property of this module depends on; credentials are not
modelled.

### 3.5 `FolderSync`

An action is what lies between two awaits. The store is seen through its answers: a call
succeeds, fails, or is rejected because a removal has retired the daemon. `queue[f]` holds
the sync operations of a folder, the running one first, `step[f]` how far that one is,
`generation[f]` the fence that a removal moves.

| code | model |
| --- | --- |
| `setCurrentFolder`, `clearCurrentFolder`, their listeners | `OpenFolder`, `CloseFolder`, `Leave` |
| `scheduleIndexerSync`, the entries of its chain | `ScheduleIndexerSync`, `TicketTurn` |
| `enqueueFolderSyncOperation`, `syncFolderNow` | `SyncFolderNow`, from a window, a user (`UserSync`) or a loop |
| `bootBindAllFolders`, `reconcileLibraryFolders` | `SweepStart`, `SweepNext`, `SweepTo`, over a snapshot of the membership |
| `runFolderSyncOperation` with its retry | `BindFolder`, `BindAnswered`, `DiffAnswered`, `FileWritten`, `Interrupted`, `SyncFails`, `Settle`, `Advance` |
| the late index write of saves and uploads | `SaveFile`, `SaveIndexed` |
| the removal route | `BeginRemoval`, `LeaveWindow` (one window after the other), `StopSyncs`, `SyncsStopped`, `ConversionsStopped`, `DerivedRemoved`, `RowsDeleted`, `Unbound`, `LeaveLibrary` |

Left out: the watchdog of a slow switch, which only logs; directories, stars and recents;
what a sync does with a file (that is `Reconcile`).

### 3.6 `Reconcile`

`disk` and `row` give each file a content; `calls` is what the store has been sent, in
order, by the reconcile (`"sync"`) and by saves (`"save"`); `work` and `stale` are what is
left of the diff. `others` is a history variable: what somebody else has done to the file
since the diff.

| code | model |
| --- | --- |
| `saveFileContent`, `upsertSavedFile` | `Save`, `SendSave` |
| `startSemanticIndexing`, `deferSemanticIndexing`, `semanticSyncPolicy` | `StartSync`, `Defer`, `Publish` |
| `op_scan_diff` with its pairing of renames | `ScanDiff`, `Renames` |
| `op_upsert`, `op_delete`, `op_rename`; the lookup of a paused write | `Applied`, `AfterLookup` |
| `syncIndex` | `DiffAnswered`, `RenameFile`, `RenamesDone`, `DeleteRow`, `DeletesDone`, `IndexOne`, `Done`, `Stop` |
| `publishSemanticPause` | `InvalidateRow`, `Stuck`, `Publish`, `FallBack` |
| the clearing of a decision that no longer stands | `DeletesDone`, which ends the reconcile paused when the clearing fails |
| a failing call | `AnswerError`, `Counted` |

`FallBack` is the way back to embedding, after a failed invalidation or a failed storing of
the decision. The code falls back so that the reconcile can replace what it could not
invalidate; but when a decision already stands, the writes it then sends still find that
decision and embed nothing. The constant `RepublishFails` says whether the storing of a
decision that already stands may fail: `FALSE` in the run, section 6 for `TRUE`.

The decision to pause is taken at the answer of the diff. The code takes it after a further
await, in which it estimates the work of that diff; what can change meanwhile and matters is
a `Defer`, and one that comes then is one that came just before the answer.

Left out: converted sources (that is `Conversion`), rows of excluded files, size limits, the
final assertion, which only logs.

### 3.7 `ImportPublication`

The name in the user's folder (`target`) refers to an inode; an inode has an owner and is
whole or partial. Every system call of `publishStagedImport` and `publishWithoutHardLinks`
is a step of its own that may fail; a crash may leave the line that was being written to the
record torn, and frees temporary files and handles; `Edit` is the user, who may create,
replace or delete the file of that name.

| code | model |
| --- | --- |
| `publishStagedImport` | `Begin`, `Copy`, `Link` (exclusive), `Finish`, `Abort` |
| `publishWithoutHardLinks` | `Announce`, `Reserve`, `Identify`, `RecordReservation`, `Stream`, `Check`, `Commit`, `RecordRemoved`, `DropRecord` |
| `removeIfIdentityMatches`: look, then remove by name | `LookAtTarget`, `RemoveTarget` |
| `cleanupStaleUploads`, `recoverInterruptedPublication` | `Crash`, `Restart`, `Recover` |

An append to the record that is reported as failed may have got through, and a record whose
removal fails is left to the next start.

Two constants name what the file system does: `Reuse`, that the number of a freed inode is
given out again, and `Overtaken`, that the user acts between the look at an identity and the
removal by name.

### 3.8 `DocumentSaves`

A text is the set of the edits it carries, so that losing an edit can be seen; a version is
the hash of a text, hence the text. Every file operation of a request is a step (`job`). The
renderer keeps what it has dispatched (`tab`), what it has rendered and its callbacks read
(`mirror`), and the live editor value (`buffer`).

| code | model |
| --- | --- |
| `readLibraryFile`, `GET /api/files` | `ReadText`, `ReadVersion` |
| `saveFileContent` | `CheckVersion`, `CompareText`, `ReadPrevious`, `WriteText`, `AnswerVersion` |
| `editLibraryFile` of an agent | `AgentReads`, `AgentWrites`, `AgentDone` |
| `planRenameLinksAsync`, `applyRenamePlanAsync` with its rollback | `PlanLinks`, `ReadOriginal`, `RewriteLinks`, `RewriteOthers`, `RollBack`, `MoveLinked` |
| `scheduleSave`, `flushSave` | `Type`, `FlushSave`, `Saved`, `Refused`, `ShowConflict`, `SaveFailed` |
| `refreshActiveTabFromDisk` | `Refresh`, `MayRefresh`, `Refreshed` |
| the decisions of a conflict | `Reload`, `Merge`, `Overwrite`, `Overwritten`, `OverwriteFailed`, `Discard`, `Settle` |

Three constants name orders that the run leaves out and section 6 reports: `Overtaken`, that
the file operations of two requests alternate; `Late`, that a refresh is answered, or a
dispatch rendered, later than what follows it; `TypesAhead`, that the user types while a tab
that is being closed is saved. `SaveFailed` is also what a failing read of the conflicting
file comes to.

### 3.9 `AgentSession`

All connections resume one transcript. `session[c]` is the `AgentSession` of web socket `c`,
`up` and `down` are the two directions of the socket, `owner` and `line` are
`ClaudeNativeSessionOwnership` (the active session, and the acquisitions that wait for each
other), `native` the processes that live, at most two per session: a Library chat that has
made a project goes on in a second one. A turn is named by its prompt, also where the code
counts generations.

| code | model |
| --- | --- |
| `send`, `resend`, `resendFailedPrompt`, `sendPromptNow`, `runNextQueuedPrompt` | `Send`, `EditAndResend`, `Submit`, `Compose`, `Composed`, `NextQueued` |
| `stop` | `StopTurn` |
| connect effect, `resetSessionState`, `resumeSession` | `Open`, `Connect`, `ElsewhereResumes` |
| `handleTurnFailureAction`, `reconnectAfterFatal` | `TryAgain`, `ReconnectFromCard`, `ReconnectAfterFatal` |
| `handleEvent`, `TurnErrorTracker`, `finishRendererSession`, `retireRemovedScope` | `Receive`, `Handled`, `Finished` |
| `start`, `acquire` | `Acquire`, `TakeOver`, `Claim`, `Resolve`, `Launch`, `Ready` |
| `dispose`, `finish`, `retireNativeQuery`, removal of the folder | `Disposed`, `Finish`, `RetirementEnds`, `ScopeRemoved` |
| `onMessage` | `OnMessage`, `OnPrompt`, `OnInterrupt`, `InterruptAnswered` |
| `rebindToFolder`, `migrateAndEnqueuePrompt` | `Rebind`, `Drained`, `Migrated` |
| `pump`, `onSdkMessage`, `onClaudeResult` | `OnResult`, `Settle`, `PumpEnds`, `FirstMessage` |
| the native process (external) | `Answer`, `InterruptLands`, `ProcessEnds` |

External assumptions, from how the code uses the SDK: one result per prompt, in order, none
after the next prompt has been taken; an interrupt ends what the process works on when it
lands; a process whose input has ended goes.

The constant `SkillsVanish` says that a prompt may carry a skill that is gone when the
prompt arrives; `OnPrompt` then answers with an error and begins no turn, as the code does.
Which prompts carry a skill is left open, so with `TRUE` any may be refused. The run has
`FALSE`; section 6 shows `TRUE`.

Left out: steering, tool permissions (a prompt for one counts as work of the process), what
skills do, simulated failures, the Codex and OpenCode runtimes. `OnPrompt` and `OnInterrupt`
ask whether the session is closed where the code need not: after that nobody listens.

---------------------------------------------------------------------------

## 4. What the runs check

### 4.1 Runs that pass

| run | question | instance | distinct states |
| --- | --- | --- | --- |
| `Scheduler` | do counters, classifier slots and drains agree in every interleaving, and is `ScheduledWork` implemented? | 3 sources of one folder, 2 light slots, 1 classifier slot, costs {0, 1}, background requests | 360 356 |
| `SchedulerLive` | do cancellations settle, and is background work starved? | 2 sources on 1 slot, all urgencies, one classifier | 41 926 |
| `ConversionDocx` | are served text and index rows current across edits and interruptions? | a DOCX, 3 versions, 3 requests, no crash, index enabled | 211 491 |
| `ConversionLive` | does a durable gate hold across a crash, and does preparation converge? | a PDF, 3 versions, 2 requests, 1 crash, index disabled, edits that keep stamps | 120 454 |
| `Daemon` | one child at a time, no public call before its configuration, every call settled? | 2 callers, 2 folders, 1 fault, resets | 823 773 |
| `FolderSync` | does a removal leave nothing, does what it interrupts heal, is what is opened synchronised? | 2 folders, 1 window, both loops, 2 files, 3 requests, 2 faults | 130 546 |
| `Reconcile` | does a reconcile tell the truth, and is a save ever undone in the index? | 3 files, 2 contents, a decision from 2 files on, 3 requests, 2 faults | 951 681 |
| `ImportPublication` | is any file lost, or any partial file left? | 2 imports, 6 inodes, 2 edits, 2 crashes, 1 fault | 169 286 |
| `DocumentSaves` | is typing lost, is an edit erased unseen, does every save end? | 1 agent, a move of other files, 4 edits, 1 fault | 266 529 |
| `AgentSession` | one process per transcript, do tab and session agree, does waiting end? | 2 prompts, 3 connections, 1 Stop, 1 fault | 721 077 |

**Why the bounds are enough.** Scheduler: three sources on two slots are the fewest where a
lane is full, one source waits, and a choice between two waiting ones is made; one
classifier slot makes classifiers queue; the scheduler itself needs no bound on time or
arrivals, so its state space is complete for these sources. Conversion: three versions are
the one that a run began with, one that it may have read, and one that a check finds; two
requests let one interrupt another, and the DOCX run has a third that follows both. Daemon:
two callers are the fewest where one waits for what the other causes; one fault (a crash, a
timeout, a reset or an error of the bootstrap) gives two generations, so that the late exit
of the first meets its successor, and the theorems cover any number. FolderSync: two folders
are what it takes for one removal to interrupt the other's sync, and two faults can fail
both the sync and the retry that heals it. Reconcile: three files are a rename pair with a
bystander, or two sources that need a decision with one that does not; with three requests a
save can follow an edit that a started reconcile has seen. ImportPublication: two imports
and two edits let a partial file be replaced by the user and by another import; six inodes
are what they can create, and a second crash can meet the recovery from the first.
DocumentSaves: four edits are one before the save, one during it, one of the agent and one
after the conflict. AgentSession: two prompts let a result or an interrupt miss its turn,
and three connections let an acquisition wait behind one that waits.

**Symmetry** is used where only safety is checked and no operator chooses between the
permuted values: sources in `Scheduler`, files and contents in `Reconcile`, imports and
inodes in `ImportPublication`.

**Deadlock** is checked where the system never stops (the scheduler, the conversions and the
daemon, whose clients may always ask again). In the other modules what users do is bounded,
and when everything they asked for is done nothing is left to do: `CHECK_DEADLOCK FALSE`,
and the liveness properties of `FolderSync`, `DocumentSaves` and `AgentSession` say what
must be done by then.

**What the properties say.**

- `LaneAccounting`: counters moved incrementally always equal the number of owners.
  `NoLostDrain`: no free slot with an eligible task without a scheduled drain.
  `ClassifierAccounting`: a slot is returned exactly once although its task may have gone.
  `KeepsPromise`: the scheduler implements `ScheduledWork`. `CancelSettles`,
  `BackgroundNotStarved`: cancellation ends, ageing works.
- `ServedTextCurrent`, `IndexedTextCurrent`: text served or indexed is of the bytes it is
  served or stored for, as long as no edit keeps the stamps of the file and the server does
  not die in the middle of a run (section 6). `GateHolds`: a recorded failure or
  cancellation of the present content is changed only by Reprocess. `EventuallyPrepared`:
  convergence. `UsesPromise`: the task of a source is moved as `ScheduledWork` says.
- `OneStore`, `ConfiguredBarrier`, `CallsSettle`: section 1.1. `OneStore` does not count a
  child to which SIGKILL was sent and whose exit the manager no longer waits for.
- `NoSyncUnderCleanup`, `RemovalLeavesNothing`, `OneRemovalHeals`, `OpenIsSynced`,
  `RemovalEnds`: section 1.1. The first is what the removal gate, the generations and the
  barrier of `cancelFolderSyncsAndWait` achieve together; none of them does alone.
- `CompleteIsCurrent`: a reconcile that reports success leaves the row of every file that
  nobody else has touched equal to the file, as long as no storing of a decision that
  already stands fails (section 6). `SavedNeverStale`: a save is never followed by older
  text in the index. `PausePublishedClean`: a folder that is seen to be paused has no row of
  an older content.
- `OthersKept`, `PublishedKept`, `NoPartialLeft`: section 1.1, on a file system that does
  not give a freed inode number out again (`Reuse`) and, the first two, with no user between
  the last look and the removal by name (`Overtaken`).
- `TypingSurvives`: what was typed is on screen, in the conflict, or in the file.
  `NothingErased`: no write removes an edit that its author has not seen, but for Overwrite.
  `TypingSettles`: a scheduled save ends saved, in a conflict, or in a failure that is
  shown.
- `OneQuery`: one process per transcript. `TabAgrees`: with nothing on its way, tab and
  session agree on whether a turn is active. `OwnTurnOnly`: a result that is on its way
  belongs to the active turn, an interrupt to the turn it will meet. `WaitingEnds`: a busy
  or connecting tab stops being so. `TabAgrees` and `WaitingEnds` hold on the condition that
  no prompt carries a skill that has vanished (`~SkillsVanish`); section 6 shows what the
  code does otherwise.

### 4.2 Fairness

*Scheduler.* Microtasks and timers fire (weak fairness of the drains, of `TimePasses` and
`AgeingTimer`). Classifiers end: each probe has a timer that kills it and a second one that
settles it. `Finish` has strong fairness: a run may yield and be resumed any number of
times, but it has finitely many units of work, so one that is given its lane again and again
ends. Nothing is assumed of clients. `BackgroundNotStarved` excludes an endless stream of
interactive work, which the code lets pass by design.

*Conversion.* Discovery and reconcile are repeated by focus, idle maintenance and agent
turns; the scheduler starts what is queued (checked by `SchedulerLive`); an extractor ends,
aborted or not; `ReadSource`, `ExtractorPublishes` and `ConvertReturns` have strong
fairness, which says that it does not fail transiently for ever. Convergence is claimed with
the index disabled only: with it enabled, a conversion longer than the interval between two
reconciles of a modified source is aborted by each of them, and no fairness of the code
excludes that.

*MfsDaemon.* Timers: the ready timer kills a child that is not ready, the call timer retires
a child that does not answer, the escalation timers fire. A child that was told to exit is
**not** assumed to obey EOF, SIGTERM or, in time, SIGKILL.

*FolderSync.* Callbacks run, and every call of the store is answered or rejected;
`MfsDaemon`'s `CallsSettle` is the justification.

*DocumentSaves.* Requests are served, callbacks run, the autosave timer fires. Nobody has to
decide a conflict.

*AgentSession.* Messages arrive and are handled, awaited calls return, a process answers
what it works on and goes when its input has ended, interrupts land or fail. Permission
prompts count as answered. No user has to do anything.

### 4.3 Findings: runs that TLC refutes

Each states what a document of the repository says.

- `CancelRace` / `CancelStops`: the cancel route awaits aborted work before it records the
  cancellation. If the queued task was dropped and only its cost probe is winding down, a
  discovery in the gap queues the source again, and the request is answered "cancelled" over
  live work. `cancelAudioPreparation` records the intent first for this very reason.
- `SaveRace` / `StaleSaveRejected`: `saveFileContent` compares the version, then reads the
  previous text, then replaces the file, each in an await of its own, and nothing serialises
  two requests for one file. A save whose comparison has passed replaces what another save,
  an agent's edit or a link rewrite has written meanwhile, although
  `src/code-review/file-transactions.md:95` has the stale write rejected.

---------------------------------------------------------------------------

## 5. What is proved

### 5.1 The scheduler (`ConversionScheduler_proofs`)

From `SchedulerAssumption` alone (finitely many keys, positive capacities, costs that are
numbers), for any number of sources, folders and lanes' capacities:

| theorem | statement |
| --- | --- |
| `TypeCorrect` | `Spec => []TypeOK` |
| `RunsOwnTheirLanes` | `Spec => []BodyOwnership` |
| `LanesAccounted` | `Spec => []LaneAccounting` |
| `NoDrainLost` | `Spec => []NoLostDrain` |
| `ClassifiersAccounted` | `Spec => []ClassifierAccounting` |
| `PromiseKept` | `Spec => KeepsPromise`, the refinement |

*The argument.* None of these is inductive alone. `BodyOwnership` needs the shape of a task
(`KeyOwnership`, `TaskShape`): which combinations of state, `started`, `ownsLane` and
`cancelling` occur; without it a step of `Drain` might grant a lane to a task whose run
already works. `LaneAccounting` needs the cardinalities of the owner sets across each step
(one lemma per way in which an owner set can change: unchanged, one element less, a disjoint
set of granted tasks more), and the bound on what `Selected` grants. `NoLostDrain` needs
`LaneAccounting`: after a drain either no task is eligible or the lane is full.
`ClassifierAccounting` is proved from `SlotsHeld`, which adds that no key has more strays
than there are slots and that no absent task keeps a classifier run. The strays of a key are
counted as pairs of the key and a number, so that a task that leaves the map under its
classifier moves one slot from one set to the other (`TasksAbandon`), and `StrayRoom` finds
the number free: the strays and the run of the key hold different slots. The refinement maps
each action to one step of `ScheduledWork` or to a stutter; `Drain` is `Give`, `Finish` is
`End`, the cancels are `Cancel`, and the capacity conjunct of `Give` is the lane invariant.

### 5.2 The sidecar manager (`MfsDaemon_proofs`)

From `MfsDaemonAssumption` alone (finitely many callers and folders, at least one folder),
for any number of callers, folders and faults:

| theorem | statement |
| --- | --- |
| `TypeCorrect` | `Spec => []TypeOK` |
| `LatchStaysCurrent` | `Spec => []LatchIsCurrent`, also when a killed child exits late |
| `StoreHasOneOwner` | `Spec => []OneStore` |
| `CallsFindConfiguredChild` | `Spec => []ConfiguredBarrier` |

*The argument.* `Base` is inductive: types, `Counting` (every generation but the current one
has ended by a fault, so the numbers of the generations never run out and the current child
is the newest) and `Owner` (latch, child and barrier agree; the child behind the barrier is
alive; nobody else is, unless it was killed). `OneStore` alone is not inductive: the step
that spawns needs to know that nobody is left, which is what `Owner` says.

`ConfiguredBarrier` is not inductive either: a binding may be unbound and bound again while
both calls are still in the pipe, and the reply to the unbind would break it but for the
bind that follows. `Staged` says so: while the child starts, only bootstrap requests are
sent to it and the calls that wait rebind what they unbind (`Rebound`); when the last
binding has been replayed these calls become what is pending, and the queue keeps that shape
under every append and every reply; calls held by the retirement barrier hold no unbind,
because without a child `unbindFolder` tells nobody.

### 5.3 The life of a source (`Conversion_proofs`)

From `ConversionAssumption`, for every format, with or without an index, and any number of
changes, requests and crashes, except where a condition is given:

| theorem | statement |
| --- | --- |
| `TypeCorrect` | `Spec => []TypeOK` |
| `MarkerNeverStale` | `Spec => []NoStaleMarker` |
| `PromiseUsed` | `Spec => UsesPromise`, the refinement |
| `ServedCurrent` | `Trusted => (Spec => []ServedTextCurrent)` |
| `IndexCurrent` | `Trusted => (Spec => []IndexedTextCurrent)` |
| `GateKept` | `~SemanticEnabled => (Spec => []GateHolds)` |

`Trusted` says that the source is audio, whose text carries the identity of its source; or
else that an edit never keeps the mtime and that the server does not crash. The second
condition can be dropped for no other format: a text that was written and not yet compared
survives the crash, whether the server or a detached extractor wrote it, and section 6 has
both counterexamples. The first is what a comparison of size and mtime can give at most.
`GateKept` needs the index to be off because reconcile clears gates through the diff of the
index (section 6).

*The argument.* `Tracked` adds to `NoStaleMarker` that only a running task has a reason to
end; it is inductive, and each step of `Next` is one of six kinds (`StepKinds`): it leaves
task, reason and run alone, queues, starts, ends, cancels, or crashes. These kinds are the
actions of `ScheduledWork` on one key, which gives `PromiseUsed`. `Current` follows one text
from the read to the hash: a text is dated after the content it was read from (`TextDated`),
a run reads after it took its signature (`ReadAfterBegin`), so an unchanged signature means
that nothing came between; from then on the hash to be stored is that of the content the
text was read from, or is still to be taken under the same signature (`HashPinned`). `Gated`
adds that a gate is never younger than its source, so that every change of the source opens
it.

### 5.4 Folders (`FolderSync_proofs`)

From `FolderSyncAssumption`, for any finite sets of folders and windows, any loops, requests
and failures:

| theorem | statement |
| --- | --- |
| `TypeCorrect` | `Spec => []TypeOK` |
| `NoSyncMeetsCleanup` | `Spec => []NoSyncUnderCleanup` |
| `RemovalIsClean` | `Spec => RemovalLeavesNothing` |
| `OneRetirementHeals` | `Spec => []OneRemovalHeals` |

*The argument.* The inductive invariant joins the types with six facts. `Busy` and
`Pending`: a step is under way only for the head of a queue, and a file is written only
while one is left. `RejectedInFlight`: a retirement rejects only calls that are in flight.
`Quiesced`, which is `NoSyncUnderCleanup` for every folder: the removal gate keeps new
operations out, and the barrier waits for the old ones. `Emptied`: from the deletion of its
rows to its end a removal finds no row of a sync, and no warning once it has forgotten them.
`Healing`: before the first retirement no operation has started over, and none that this
retirement rejects has; so the warning needs a second one. Every step is elsewhere,
schedules, or works on the head of one queue (`Elsewhere`, `Schedules`, the `Works` lemmas).

### 5.5 Imports (`ImportPublication_proofs`)

From `ImportPublicationAssumption`, for any number of imports, inodes, edits, crashes and
failing calls:

| theorem | statement |
| --- | --- |
| `TypeCorrect` | `Spec => []TypeOK` |
| `NoPartialStays` | `~Reuse => (Spec => []NoPartialLeft)` |
| `OthersStayKept` | `~Reuse /\ ~Overtaken => (Spec => OthersKept)` |
| `PublishedStayKept` | `~Reuse /\ ~Overtaken => (Spec => PublishedKept)` |

*The argument.* Per import, `Owned` says that every inode it remembers is a file it has
made; `Recorded` that the durable record names just that file, and that only a whole one is
committed; `Staged` what it holds at each step; `GivenUp` that an import that is over has
given the name up or left a whole file; `Announced` that no record of a published file asks
for its removal. A step of another import is a bystander's (`Bystander`), because fresh
files take inodes nobody has. The two action properties add `Secured`: between the last look
and the removal by name nobody else has taken it, which is where `~Overtaken` comes in. Both
conditions are necessary (section 6).

### 5.6 Reconcile of a folder (`Reconcile_proofs`)

From `ReconcileAssumption`, for any files, contents, saves, edits, requests and failures:

| theorem | statement |
| --- | --- |
| `TypeCorrect` | `Spec => []TypeOK` |
| `SavesSettle` | `Spec => []SavedNeverStale` |
| `SyncDoesNotLie` | `~RepublishFails => (Spec => []CompleteIsCurrent)` |
| `PauseIsClean` | `Spec => PausePublishedClean` |

*The argument.* Each property speaks of a moment (an answered save, a reconcile that is
over, the publication of a pause), and its invariant of everything before it. `Saved`: since
the diff, every file that only the application saved is covered: its last save is still to
be sent, or is in the queue with nothing behind it that would leave another text, or has
settled. `Lined` joins the types with the shape of the queue: one call of the reconcile at a
time (`OneSync`), of the kind its phase sends (`Kinds`), the phases in their order
(`Ordered`), a decision that stands passed over only for a failure (`Decided`), and the rows
to be invalidated those of files to be indexed again (`Marked`). On it stand `Right`, that
what is left of the diff and what is in the queue fit the content of every file that nobody
else has touched, and `Current`, that while nothing has failed the row of such a file is its
content, or is still to be worked on, or is being worked on. At the end nothing is left and
nothing is in the queue, so the row is current. `~RepublishFails` enters through `Decided`:
without it a reconcile that has fallen back, and has counted no failure, sends writes that
embed nothing. `Cleared` says the same of the rows a pause must invalidate. What makes
`Right` inductive is `Fits`, which says for each kind of call what its file is: the row of a
file that still exists is deleted only by an invalidation, or in the place of an upsert
whose text could not be read, and that one has been counted as a failure.

### 5.7 One open document (`DocumentSaves_proofs`)

From `DocumentSavesAssumption` and `NoneAssumption` (no agent has the name of one of the
editor's requests, `null` is none of the values), for any agents, edits and failing writes:

| theorem | statement |
| --- | --- |
| `TypeCorrect` | `Spec => []TypeOK` |
| `NoSaveErases` | `~Overtaken /\ ~Late => (Spec => NothingErased)` |
| `NoTypingLost` | `~Overtaken /\ ~Late /\ ~TypesAhead => (Spec => []TypingSurvives)` |

`TypeCorrect` holds in every order of operations. The conditions of the other two are those
of the run `DocumentSaves`, and none can be dropped: section 6 and the run `SaveRace` show
what each of the three orders does.

*The argument.* A save is safe when the version it names is one whose every edit its text
carries, and when that version is still the file's while it is written. `Serving` says the
second: of all requests one at a time is between its first look at the file and its last
operation, and what it has read is the file (`ReadBy`). `Known` says the first, of what the
editor would send next: its content, and what it is about to show, carry every edit of the
versions it may name (`Carries`), and these versions are part of what stays in the file.
What stays is not the file: the rewriting of a move that is under way may be taken back, so
the invariant speaks of `Lasting`, the file less what a failing move would take back. `Sent`
says the same of a save that is on its way, and `Turns` that a save, a decision of the user
and a refresh never overlap, with the tab as rendered while one of them is under way. The
four together are the inductive invariant `Editing`.

`TypingSurvives` needs, on top, where each edit of the user is at every moment: `Made` (no
text carries an edit that is still to be made), `Foreign` (agents and moves add no edit of
the user to what they read, so none comes back to the file behind the editor's save) and
`Typing` (an edit that no decision has given up is in the text that the tab is about to
show, and a tab that looks saved, or is gone, has left it in `Lasting`). The last part is
what breaks when the user types while the tab is being closed.

### 5.8 Chat tab and sessions (`AgentSession_proofs`)

From `AgentSessionAssumption`, for any number of prompts, connections, uses of Stop and
failures:

| theorem | statement |
| --- | --- |
| `TypeCorrect` | `Spec => []TypeOK` |
| `OneWriter` | `Spec => []OneQuery` |
| `OwnTurn` | `Spec => []OwnTurnOnly` |
| `Agreement` | `~SkillsVanish => (Spec => []TabAgrees)` |

*The argument.* `Sound` is the ground of all four: types; the acquisitions in the line and
the head that takes over (`Lined`); a session is closed as soon as it is to be retired
(`Ending`); a process lives only for a session that is up or starting and not retired, and
the second of a session only when the first is gone (`Living`); only living processes work
(`Working`). Steps are sorted by what they do to the line, the owner and the processes
(`LifeStep`), to a turn (`Turning`) and to what the tab is told (`ConnStep`), so that each
invariant is proved for a dozen kinds of steps instead of every action.

`OneQuery` follows from `Owning`: a session that may have a process is the owner of the
transcript, or the transcript has no name yet and then the first session is the only one.
The ownership map alone does not say so, because a session owns before it launches and is
retired after it has closed. `OwnTurnOnly` follows from `Turn`: a session without a turn has
nothing under way in either process; with one, exactly one process works on it or has its
result in the stream, and an interrupt that is under way belongs to it (`AtWork`,
`Stopping`). `TabAgrees` needs both directions of the socket: the order of the events that
are under way (`EndsLast`, `AtMostOne`), what each phase of a tab may still receive (`Here`,
`Active`, `Tabbed`), and `EveryTurn` for the server's side of it. An answer to an earlier
turn cannot end a later one, because the tab composes a prompt only when it has seen the end
of the last. The condition is needed where a prompt arrives: it is followed by the start of
its turn only if it is not refused. The other three theorems hold with refused prompts as
well.

### 5.9 Model-checked only

- Liveness (`CancelSettles`, `BackgroundNotStarved`, `EventuallyPrepared`, `CallsSettle`,
  `OpenIsSynced`, `RemovalEnds`, `TypingSettles`, `WaitingEnds`): liveness under fairness is
  outside what the proof system's backends do. TLC checks it on the instances of section 4.
- The two refuted properties of section 4.3 and those of section 6 are shown by
  counterexample.

Every invariant and every action property of a run that passes is proved. Where a theorem
has a hypothesis (`Trusted`, `~SemanticEnabled`, `~Reuse`, `~Overtaken`, `~Late`,
`~TypesAhead`, `~RepublishFails`, `~SkillsVanish`), it is a condition on constants that name
a behaviour of the environment, a failure or an order of operations; the run of the property
satisfies it, and section 6 or a run of section 4.3 shows what the code does without it.

---------------------------------------------------------------------------

## 6. Disagreements observed without a run

The models state more than the runs check. Each of the following properties or conditions is
in a module, and TLC refutes it with the constants given (those of the named configuration
where none are).

- **A gate is cleared by reconcile** (`ReconcilePreservesGates`; `ConversionDocx.cfg` with
  `Format = "pdf"`). A source that failed after a modification keeps its old index row, so
  each scan calls it modified, clears its failure and queues it again
  (`src/server/sync.ts:204`).
- **Text of older bytes after a crash** (`ServedTextCurrent`, `IndexedTextCurrent`;
  `ConversionDocx.cfg` with `MaxCrashes = 1`). The server writes the text of a DOCX
  (`src/server/docx.ts:204`) and dies before it compares the signature of the source
  (`src/server/conversion.ts:369`); if the source was edited after it was read, the older
  text is newer than the source and counts as fresh.
- **The same with an extractor that goes on** (`ServedTextCurrent`; `ConversionDocx.cfg`
  with `Format = "image"`, `SemanticEnabled = FALSE`, `MaxCrashes = 1`). The server dies
  between the write of a detached extractor and the signature check; the text is newer than
  the source and counts as fresh. `src/server/conversion-status.ts:6` says that a conversion
  dies with the process; for detached extractors it does not, and `Crash` and
  `OrphanPublishes` model what happens.
- **A retirement is not always typed** (`RetirementIsTyped`; `Daemon.cfg`). A call that
  waits for a child that is still spawning learns of a deliberate retirement as an ordinary
  failure.
- **A folder comes back to the store** (`UnboundStaysUnbound`; `Daemon.cfg`). A bind held by
  the retirement barrier reaches the replacement after the folder was unbound.
- **The last timer opens the barrier although the child may live**
  (`src/server/mfs-daemon.ts:419`). This is why `OneStore` does not count a child that was
  killed.
- **A removed folder comes back** (`RemovedStaysRemoved`; `FolderSync.cfg`). A loop over an
  older snapshot of the library reaches the folder when its removal has ended and the gate
  is open again, although `src/server/folder.ts:708` says that such a reconcile must not
  restart work. With `Sweeps = {}` it holds.
- **An import removes what is not its own** (`OthersKept`, `PublishedKept`;
  `ImportPublication.cfg` with `Reuse = TRUE`). A partial file is replaced, its inode number
  is given out again to the file that replaces it, and the identity matches;
  `src/code-review/file-transactions.md:190` says that only an identity-proven partial
  reservation is removed. With `Overtaken = TRUE` the user replaces the file between the
  look and the removal by name.
- **A pause is published over rows of deleted files** (`PublishedOnlyInvalidated`;
  `Reconcile.cfg`). A failed removal of the row of a file that is gone does not stop the
  pause (`src/server/sync.ts:372`), although `src/server/sync.ts:100` says "every
  known-stale row".
- **A reconcile that falls back under a standing decision** (`CompleteIsCurrent`;
  `Reconcile.cfg` with `RepublishFails = TRUE`). A reconcile pauses; the next one cannot
  store the decision again and goes on to embed, so that, as `src/server/sync.ts:111` says,
  it "can replace stale content". But its writes look the decision up, find the first one
  and embed nothing (`AfterLookup`), and the reconcile reports success over missing rows.
- **A prompt whose skill has vanished** (`TabAgrees`, `WaitingEnds`; `AgentSession.cfg` with
  `SkillsVanish = TRUE`). It is answered with an error and no turn
  (`src/server/agent.ts:782`); the tab, which became busy when it sent the prompt, stays
  busy and queues everything. `src/design-docs/design/agent-panel.md:114` says that a failed
  turn "never blocks the panel".
- **Typing is lost on close** (`TypingSurvives`; `DocumentSaves.cfg` with `TypesAhead =
  TRUE`). `closeTab` goes by the success of a save of an older text.
- **A late refresh** (`TypingSurvives`, `NothingErased`; `DocumentSaves.cfg` with `Late =
  TRUE`). The answer of a refresh is applied by a dirty flag that has not been rendered yet.
- **A conflict of two reads** (`ConflictIsOneRead`; `DocumentSaves.cfg` with `Overtaken =
  TRUE`). `GET /api/files` reads the text and its version in two awaits
  (`src/server/routes/files.ts:218`); and with the same constant a move's rewriting of
  links, like any save, replaces an edit made after its look at the file (`NothingErased`).

Three more came up while `AgentSession` was written. The first two are behaviours of the
model (`StopTurn`, `OnInterrupt`, `Migrated`) that no property speaks of; the third needs
what the model excludes by assumption, a result delivered twice.

- Stop is ignored silently while the tab still builds the context of a prompt, and while a
  migration drains the old process: the session has no turn, or no query, to interrupt. The
  tab keeps its busy state and the turn goes on.
- Stop during the last await of a migration is taken by the new query before the prompt is
  enqueued: it interrupts nothing, the turn runs, further stops are blocked, and a failure
  of that turn is shown as a stop.
- A result that the SDK delivers twice, the second time after the next prompt, would settle
  the next turn: results carry no identity that `onClaudeResult` could compare.

---------------------------------------------------------------------------

## 7. Not modelled, and why

- **Rows, files and store as such** (`state-db.ts`, Milvus): synchronous and transactional
  towards the server; the models use their effects.
- **Retrieval, MCP adapters, most of the renderer, settings**: they read, or forward to
  operations modelled here. They are most of the repository's lines; what the models cover
  is the small part that keeps state under concurrency.
- **Conversion**: best-effort cleanups that fail, loss of membership during a run, provider
  configuration, scratch files of PDF batches, checkpoints of audio, stops and pauses of a
  reconcile before it reaches the source.
- **MfsDaemon**: credentials, command resolution.
- **ImportPublication**: temporary files that a crash leaves on the hard-link path, the
  removal of the staging directory by the age of its process, a user who edits a partial
  file in place.
- **DocumentSaves**: formats other than text, agent writes without a version, the save on
  unload, the move of the file itself.
- **AgentSession**: Codex and OpenCode, permissions, steering, skills but for the refusal of
  one that has vanished, simulated failures, installation of runtimes.
- **Codex and OpenCode runtimes, accounts, model downloads, the update barrier**: planned
  (section 2) or left to services whose own protocol would have to be assumed.
- **Process-level errors** (a write to a pipe whose reader has just died): below the level
  of the models.
