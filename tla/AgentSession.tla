---------------------------- MODULE AgentSession ----------------------------
(***************************************************************************)
(* A chat tab and the Claude sessions that serve it, one per connection:   *)
(* the tab's turn, queue and recovery (web-src/src/features/agent-panel/   *)
(* hooks/useAgentSession.ts, useAgentPromptQueue.ts), the two directions   *)
(* of a web socket, and AgentSession with ClaudeNativeSessionOwnership     *)
(* (server/agent.ts) over native processes, which are external.            *)
(*                                                                         *)
(* All connections resume one transcript.  The tab reconnects, another tab *)
(* opens the transcript from History, and a Library chat that has made a   *)
(* project goes on in a second process.  A turn is named by its prompt.    *)
(***************************************************************************)
EXTENDS Integers, Sequences, FiniteSets

CONSTANTS
    MaxPrompts,      \* bound on prompts, those sent again included
    MaxConnections,  \* bound on sessions of the transcript
    MaxStops,        \* bound on uses of Stop
    MaxFaults,       \* bound on failing turns, processes and calls
    SkillsVanish     \* the skill of a prompt may be gone when the prompt arrives

ASSUME AgentSessionAssumption ==
    /\ MaxPrompts \in Nat /\ MaxConnections \in Nat \ {0}
    /\ MaxStops \in Nat /\ MaxFaults \in Nat
    /\ SkillsVanish \in BOOLEAN

VARIABLES
    tab,      \* the tab
    session,  \* the server's sessions
    owner,    \* nativeOwnership.active of the transcript, or 0
    line,     \* the acquisitions under way, in the order of their tails
    native,   \* the processes that live
    told,     \* those whose input was ended
    running,  \* the prompt each one works on, or 0
    results,  \* what each one's stream holds
    stops,    \* native interrupts in flight
    up, down, \* the sockets
    opened, typed, stopped, faults

nativeVars == <<native, told, running, results, stops>>
counters == <<opened, typed, stopped, faults>>
vars == <<tab, session, owner, line, nativeVars, up, down, counters>>

-----------------------------------------------------------------------------
Connections == 1..MaxConnections
Prompts == 1..MaxPrompts
Processes == Connections \X {1, 2}

Result == [prompt : Prompts, failed : BOOLEAN]
NoResult == [prompt |-> 0, failed |-> FALSE]
Tab == [conn : Connections, phase : {"connecting", "live", "closed", "retired"},
        busy : BOOLEAN, queue : Seq(Prompts),
        composing : 0..MaxPrompts, retry : 0..MaxPrompts,
        card : 0..MaxPrompts, latest : 0..MaxPrompts, ended : BOOLEAN, known : BOOLEAN]
Session == [start : {"none", "checking", "queued", "taking", "owned", "starting",
                     "up", "over"},
            closed : BOOLEAN, bound : {"library", "rebound", "folder"},
            gen : 0..MaxPrompts, active : BOOLEAN, requested : BOOLEAN,
            stop : 0..MaxPrompts, deferred : Result \cup {NoResult},
            query : {0, 1, 2}, migrating : {"no", "draining", "skills"},
            retire : {"no", "asked", "done"}]
Stop == [conn : Connections, leg : {1, 2}, prompt : Prompts, landed : BOOLEAN]
ToServer == [t : {"prompt"}, prompt : Prompts] \cup [t : {"interrupt", "close"}]
ToTab == [t : {"ready", "session-id", "turn-start", "exit", "removed", "closed",
                "error"}]
         \cup [t : {"turn-end"}, error : BOOLEAN]

Say(kind) == [t |-> kind]
Unopened == [start |-> "none", closed |-> FALSE, bound |-> "library", gen |-> 0,
             active |-> FALSE, requested |-> FALSE, stop |-> 0, deferred |-> NoResult,
             query |-> 0, migrating |-> "no", retire |-> "no"]

\* A fresh Library chat that has just become live; its transcript has no name yet.
Init ==
    /\ tab = [conn |-> 1, phase |-> "live", busy |-> FALSE, queue |-> <<>>, composing |-> 0,
              retry |-> 0, card |-> 0, latest |-> 0, ended |-> FALSE, known |-> FALSE]
    /\ session = [c \in Connections |->
                    IF c = 1 THEN [Unopened EXCEPT !.start = "up", !.query = 1]
                    ELSE Unopened]
    /\ owner = 0 /\ line = <<>>
    /\ native = {<<1, 1>>} /\ told = {} /\ stops = {}
    /\ running = [p \in Processes |-> 0]
    /\ results = [p \in Processes |-> <<>>]
    /\ up = [c \in Connections |-> <<>>] /\ down = [c \in Connections |-> <<>>]
    /\ opened = 1 /\ typed = 0 /\ stopped = 0 /\ faults = 0

Fault == faults < MaxFaults /\ faults' = faults + 1

-----------------------------------------------------------------------------
(* The tab. *)

\* sendPromptNow, up to the await of the prompt's context.
Compose(t, prompt) ==
    [t EXCEPT !.busy = TRUE, !.composing = prompt, !.latest = prompt]

\* send and resendFailedPrompt: behind the turn that is active, or at once.
Submit(t, prompt) ==
    IF t.busy THEN [t EXCEPT !.queue = Append(@, prompt)] ELSE Compose(t, prompt)

\* The user sends a message, or edits an earlier one during a turn: the edit goes
\* before the queue and the turn is stopped.
Send ==
    /\ tab.phase = "live" /\ typed < MaxPrompts
    /\ typed' = typed + 1 /\ tab' = Submit(tab, typed + 1)
    /\ UNCHANGED <<session, owner, line, nativeVars, up, down, opened, stopped, faults>>

PressStop == stopped < MaxStops /\ stopped' = stopped + 1

EditAndResend ==
    /\ tab.phase = "live" /\ tab.busy /\ typed < MaxPrompts /\ PressStop
    /\ typed' = typed + 1
    /\ tab' = [tab EXCEPT !.queue = <<typed + 1>> \o @]
    /\ up' = [up EXCEPT ![tab.conn] = Append(@, Say("interrupt"))]
    /\ UNCHANGED <<session, owner, line, nativeVars, down, opened, faults>>

StopTurn ==
    /\ tab.phase = "live" /\ tab.busy /\ PressStop
    /\ up' = [up EXCEPT ![tab.conn] = Append(@, Say("interrupt"))]
    /\ UNCHANGED <<tab, session, owner, line, nativeVars, down, opened, typed, faults>>

\* The context is there: the prompt leaves on the socket it was composed for, or
\* is dropped by a socket that has closed.
Composed ==
    /\ tab.composing # 0
    /\ tab' = [tab EXCEPT !.composing = 0]
    /\ up' = IF tab.phase = "live"
             THEN [up EXCEPT ![tab.conn] =
                     Append(@, [t |-> "prompt", prompt |-> tab.composing])]
             ELSE up
    /\ UNCHANGED <<session, owner, line, nativeVars, down, counters>>

\* A web socket that resumes the transcript, under the scope it is listed under now.
Open ==
    /\ opened < MaxConnections /\ tab.known
    /\ opened' = opened + 1
    /\ session' = [session EXCEPT
                     ![opened + 1].start = "checking",
                     ![opened + 1].bound =
                       IF \A c \in Connections : session[c].bound = "library"
                       THEN @ ELSE "folder"]

\* resetSessionState and the connect effect: nothing of the old connection is left
\* but its visible transcript.
Connect(retry) ==
    /\ Open
    /\ tab' = [tab EXCEPT !.conn = opened + 1, !.phase = "connecting", !.busy = FALSE,
                          !.queue = <<>>, !.composing = 0, !.retry = retry, !.card = 0]
    /\ up' = [up EXCEPT ![tab.conn] = Append(@, Say("close"))]
    /\ down' = [down EXCEPT ![tab.conn] = <<>>]

\* handleTurnFailureAction: the card's prompt again, now or in a new session.
TryAgain ==
    /\ tab.phase = "live" /\ tab.card # 0 /\ typed < MaxPrompts
    /\ typed' = typed + 1 /\ tab' = Submit([tab EXCEPT !.card = 0], typed + 1)
    /\ UNCHANGED <<session, owner, line, nativeVars, up, down, opened, stopped, faults>>

ReconnectFromCard ==
    /\ tab.card # 0 /\ tab.phase # "retired" /\ typed < MaxPrompts /\ typed' = typed + 1
    /\ Connect(typed + 1)
    /\ UNCHANGED <<owner, line, nativeVars, stopped, faults>>

\* reconnectAfterFatal.
ReconnectAfterFatal ==
    /\ tab.phase = "closed" /\ Connect(0)
    /\ UNCHANGED <<owner, line, nativeVars, typed, stopped, faults>>

\* Variant with a bug (for WaitingEnds): the turn of the session that ends is not settled.
FinishedBusy(t, phase) ==
    IF t.phase \in {"closed", "retired"} THEN t
    ELSE [t EXCEPT !.queue = <<>>, !.retry = 0, !.phase = phase]

\* finishRendererSession, and retireRemovedScope: a tab that has ended stays as it is.
Finished(t, phase) ==
    IF t.phase \in {"closed", "retired"} THEN t
    ELSE [t EXCEPT !.busy = FALSE, !.queue = <<>>, !.retry = 0, !.phase = phase]

\* runNextQueuedPrompt.
NextQueued(t) ==
    LET idle == [t EXCEPT !.busy = FALSE]
    IN  IF t.queue = <<>> THEN idle
        ELSE Compose([idle EXCEPT !.queue = Tail(@)], Head(t.queue))

\* handleEvent; TurnErrorTracker lets the first turn-end of a turn through, and an error
\* that reaches a live tab is a notice.
Handled(t, event) ==
    CASE event.t = "ready" ->
           LET live == [t EXCEPT !.phase = "live", !.retry = 0]
           IN  IF t.retry = 0 THEN live ELSE Submit(live, t.retry)
      [] event.t = "session-id" -> [t EXCEPT !.known = TRUE]
      [] event.t = "turn-start" -> [t EXCEPT !.busy = TRUE, !.ended = FALSE]
      [] event.t = "turn-end" ->
           IF t.ended THEN t
           ELSE NextQueued([t EXCEPT !.ended = TRUE,
                                     !.card = IF event.error THEN t.latest ELSE @])
      [] event.t = "error" -> t
      [] event.t = "removed" -> Finished(t, "retired")
      [] OTHER -> Finished(t, "closed")

Receive ==
    /\ down[tab.conn] # <<>>
    /\ tab' = Handled(tab, Head(down[tab.conn]))
    /\ down' = [down EXCEPT ![tab.conn] = Tail(@)]
    /\ UNCHANGED <<session, owner, line, nativeVars, up, counters>>

\* Another tab resumes the transcript from History.
ElsewhereResumes ==
    /\ Open
    /\ UNCHANGED <<tab, owner, line, nativeVars, up, down, typed, stopped, faults>>

-----------------------------------------------------------------------------
(* Sessions: ownership, start and retirement. *)

\* send, to a socket that is open; nobody reads what other tabs are sent.
Tell(c, events) ==
    IF session[c].closed \/ c # tab.conn THEN down
    ELSE [down EXCEPT ![c] = @ \o events]

\* dispose: input and socket are closed, the query is retired.
Disposed(s) == [s EXCEPT !.closed = TRUE, !.retire = "asked"]
Silenced(c) == told \cup {<<c, l>> : l \in {session[c].query} \ {0}}

\* finish, and the dispose of a session whose folder is removed: the tab is told why.
Finish(c, why) ==
    /\ session' = [session EXCEPT ![c] = Disposed(@)]
    /\ told' = Silenced(c)
    /\ down' = Tell(c, <<Say(why), Say("closed")>>)

\* resumeBelongsToFolder has answered; the session joins the tail of the transcript.
Acquire(c) ==
    /\ session[c].start = "checking"
    /\ \/ /\ session[c].closed
          /\ session' = [session EXCEPT ![c].start = "over"]
          /\ UNCHANGED <<line, told, down, faults>>
       \/ /\ ~session[c].closed
          /\ session' = [session EXCEPT ![c].start = "queued"] /\ line' = Append(line, c)
          /\ UNCHANGED <<told, down, faults>>
       \/ ~session[c].closed /\ Fault /\ Finish(c, "exit") /\ line' = line
    /\ UNCHANGED <<tab, owner, native, running, results, stops, up, opened, typed, stopped>>

\* The end of acquire: claim, unless closed, and let the next one in.
Resolve(c) ==
    /\ line' = Tail(line)
    /\ IF session[c].closed
       THEN session' = [session EXCEPT ![c].start = "over"] /\ owner' = owner
       ELSE session' = [session EXCEPT ![c].start = "owned"] /\ owner' = c

\* Its turn: an owner that is alive is closed, one that is not yet gone is waited for.
TakeOver(c) ==
    /\ session[c].start = "queued" /\ Head(line) = c
    /\ \/ /\ session[c].closed \/ owner = 0
          /\ Resolve(c)
          /\ UNCHANGED <<told, down>>
       \/ /\ ~session[c].closed /\ owner # 0 /\ session[owner].closed
          /\ session' = [session EXCEPT ![c].start = "taking"]
          /\ UNCHANGED <<told, down, line, owner>>
       \/ /\ ~session[c].closed /\ owner # 0 /\ ~session[owner].closed
          /\ session' = [session EXCEPT ![owner] = Disposed(@), ![c].start = "taking"]
          /\ told' = Silenced(owner) /\ down' = Tell(owner, <<Say("closed")>>)
          /\ UNCHANGED <<line, owner>>
    /\ UNCHANGED <<tab, native, running, results, stops, up, counters>>

\* Variant with a bug (for OneQuery): the claim does not wait for the retirement.
ClaimAtOnce(c) ==
    /\ session[c].start = "taking"
    /\ Resolve(c)
    /\ UNCHANGED <<tab, nativeVars, up, down, counters>>

\* The previous session is retired.
Claim(c) ==
    /\ session[c].start = "taking"
    /\ owner # 0 => session[owner].retire = "done"
    /\ Resolve(c)
    /\ UNCHANGED <<tab, nativeVars, up, down, counters>>

\* The rest of start, up to the query; it may fail.
Launch(c) ==
    /\ session[c].start = "owned"
    /\ \/ /\ session[c].closed
          /\ session' = [session EXCEPT ![c].start = "over"]
          /\ UNCHANGED <<native, told, down, faults>>
       \/ /\ ~session[c].closed
          /\ session' = [session EXCEPT ![c].start = "starting", ![c].query = 1]
          /\ native' = native \cup {<<c, 1>>}
          /\ UNCHANGED <<told, down, faults>>
       \/ ~session[c].closed /\ Fault /\ Finish(c, "exit") /\ native' = native
    /\ UNCHANGED <<tab, owner, line, running, results, stops, up, opened, typed, stopped>>

\* Models and skills are published, and the pump starts.
Ready(c) ==
    /\ session[c].start = "starting"
    /\ session' = [session EXCEPT ![c].start = "up"]
    /\ down' = Tell(c, <<Say("ready")>>)
    /\ UNCHANGED <<tab, owner, line, nativeVars, up, counters>>

\* retireNativeQuery: a migration, then the end of the query; then release.
RetirementEnds(c) ==
    /\ session[c].retire = "asked" /\ session[c].migrating = "no"
    /\ \A l \in {1, 2} : <<c, l>> \notin native /\ results[<<c, l>>] = <<>>
    /\ session' = [session EXCEPT ![c].retire = "done"]
    /\ owner' = IF owner = c THEN 0 ELSE owner
    /\ UNCHANGED <<tab, line, nativeVars, up, down, counters>>

\* A removed folder ends the session that is bound to it.
ScopeRemoved(c) ==
    /\ session[c].start # "none" /\ ~session[c].closed /\ session[c].bound # "library"
    /\ Fault /\ Finish(c, "removed")
    /\ UNCHANGED <<tab, owner, line, native, running, results, stops, up,
                   opened, typed, stopped>>

Lifecycle(c) ==
    \/ Acquire(c) \/ TakeOver(c) \/ Claim(c) \/ Launch(c) \/ Ready(c) \/ RetirementEnds(c)

-----------------------------------------------------------------------------
(* Sessions: turns. *)

\* A prompt reaches the process of the session.
Push(c, leg, prompt) ==
    running' = IF <<c, leg>> \in native THEN [running EXCEPT ![<<c, leg>>] = prompt]
               ELSE running

\* onMessage, prompt: refused with an error and no turn when its skill is gone, which may
\* befall any prompt that is typed; dropped beside a turn, or a turn; the first one in a
\* new project ends the process of the Library.  The input of a closed session has
\* ended, and what it still reads is dropped.
OnPrompt(c, prompt) ==
    LET s == session[c]
        begun == [s EXCEPT !.active = TRUE, !.gen = prompt, !.requested = FALSE]
    IN  \/ /\ SkillsVanish
           /\ down' = Tell(c, <<Say("error")>>)
           /\ UNCHANGED <<session, told, running>>
        \/ /\ s.closed \/ s.active
           /\ UNCHANGED <<session, told, running, down>>
        \/ /\ ~s.closed /\ ~s.active /\ s.bound # "rebound"
           /\ session' = [session EXCEPT ![c] = begun]
           /\ Push(c, s.query, prompt)
           /\ down' = Tell(c, <<Say("turn-start")>>) /\ told' = told
        \/ /\ ~s.closed /\ ~s.active /\ s.bound = "rebound"
           /\ session' = [session EXCEPT ![c] = [begun EXCEPT !.migrating = "draining",
                                                             !.query = 0]]
           /\ told' = Silenced(c)
           /\ down' = Tell(c, <<Say("turn-start")>>) /\ running' = running

\* Variant with a bug (for TypeOK): Stop is passed on although no turn has begun.
OnAnyInterrupt(c) ==
    LET s == session[c]
    IN  IF s.query # 0 /\ ~s.requested /\ ~s.closed
        THEN /\ session' = [session EXCEPT ![c].requested = TRUE, ![c].stop = s.gen]
             /\ stops' = stops \cup {[conn |-> c, leg |-> s.query, prompt |-> s.gen,
                                     landed |-> FALSE]}
        ELSE UNCHANGED <<session, stops>>

\* onMessage, interrupt.
OnInterrupt(c) ==
    LET s == session[c]
    IN  IF s.active /\ s.query # 0 /\ ~s.requested /\ ~s.closed
        THEN /\ session' = [session EXCEPT ![c].requested = TRUE, ![c].stop = s.gen]
             /\ stops' = stops \cup {[conn |-> c, leg |-> s.query, prompt |-> s.gen,
                                     landed |-> FALSE]}
        ELSE UNCHANGED <<session, stops>>

OnMessage(c) ==
    /\ up[c] # <<>> /\ session[c].start # "none"
    /\ up' = [up EXCEPT ![c] = Tail(@)]
    /\ LET m == Head(up[c])
       IN  \/ /\ m.t = "prompt" /\ OnPrompt(c, m.prompt) /\ stops' = stops
          \/ /\ m.t = "interrupt" /\ OnInterrupt(c)
             /\ UNCHANGED <<told, running, down>>
          \/ /\ m.t = "close"
             /\ IF session[c].closed THEN UNCHANGED <<session, told>>
                ELSE session' = [session EXCEPT ![c] = Disposed(@)] /\ told' = Silenced(c)
             /\ UNCHANGED <<running, stops, down>>
    /\ UNCHANGED <<tab, owner, line, native, results, counters>>

\* migrateAndEnqueuePrompt: the old process has ended; the next one may fail.
Drained(c) ==
    /\ session[c].migrating = "draining"
    /\ <<c, 1>> \notin native /\ results[<<c, 1>>] = <<>>
    /\ \/ /\ session[c].closed
          /\ session' = [session EXCEPT ![c].migrating = "no"]
          /\ UNCHANGED <<native, down, faults>>
       \/ /\ ~session[c].closed
          /\ session' = [session EXCEPT ![c].migrating = "skills", ![c].query = 2,
                                        ![c].bound = "folder"]
          /\ native' = native \cup {<<c, 2>>}
          /\ UNCHANGED <<down, faults>>
       \/ /\ ~session[c].closed /\ Fault
          /\ session' = [session EXCEPT ![c].migrating = "no", ![c].active = FALSE]
          /\ down' = Tell(c, <<[t |-> "turn-end", error |-> TRUE]>>)
          /\ native' = native
    /\ UNCHANGED <<tab, owner, line, told, running, results, stops, up,
                   opened, typed, stopped>>

Migrated(c) ==
    /\ session[c].migrating = "skills"
    /\ session' = [session EXCEPT ![c].migrating = "no"]
    /\ IF session[c].closed THEN running' = running ELSE Push(c, 2, session[c].gen)
    /\ UNCHANGED <<tab, owner, line, native, told, results, stops, up, down, counters>>

\* Variant with a bug (for TabAgrees): a turn that the user has stopped ends silently.
SettleUnlessStopped(c, failed) ==
    IF session[c].active
    THEN /\ session' = [session EXCEPT ![c].active = FALSE, ![c].requested = FALSE,
                                       ![c].stop = 0, ![c].deferred = NoResult]
         /\ down' = IF session[c].requested THEN down
                    ELSE Tell(c, <<[t |-> "turn-end", error |-> failed]>>)
    ELSE UNCHANGED <<session, down>>

\* onClaudeResult: only an active turn is settled; a failure that the user asked for
\* is none.
Settle(c, failed) ==
    IF session[c].active
    THEN /\ session' = [session EXCEPT ![c].active = FALSE, ![c].requested = FALSE,
                                       ![c].stop = 0, ![c].deferred = NoResult]
         /\ down' = Tell(c, <<[t |-> "turn-end",
                               error |-> failed /\ ~session[c].requested]>>)
    ELSE UNCHANGED <<session, down>>

\* Variant with a bug (for OwnTurnOnly): the result does not wait for the interrupt.
OnResultAtOnce(c, leg) ==
    /\ session[c].start = "up" /\ results[<<c, leg>>] # <<>>
    /\ results' = [results EXCEPT ![<<c, leg>>] = Tail(@)]
    /\ Settle(c, Head(results[<<c, leg>>]).failed)
    /\ UNCHANGED <<tab, owner, line, native, told, running, stops, up, counters>>

\* The pump of c reads a result; it waits for an interrupt that is under way.
OnResult(c, leg) ==
    /\ session[c].start = "up" /\ results[<<c, leg>>] # <<>>
    /\ results' = [results EXCEPT ![<<c, leg>>] = Tail(@)]
    /\ LET result == Head(results[<<c, leg>>])
       IN  IF session[c].stop # 0
           THEN /\ session' = [session EXCEPT ![c].deferred =
                                 [prompt |-> session[c].gen, failed |-> result.failed]]
                /\ down' = down
           ELSE Settle(c, result.failed)
    /\ UNCHANGED <<tab, owner, line, native, told, running, stops, up, counters>>

\* The native interrupt is acknowledged, or rejected; a result that waited for it
\* settles the turn it came in.
InterruptAnswered(x) ==
    /\ x \in stops /\ stops' = stops \ {x}
    /\ \/ x.landed /\ faults' = faults
       \/ ~x.landed /\ Fault
       \/ ~x.landed /\ <<x.conn, x.leg>> \notin native /\ faults' = faults
    /\ LET s == session[x.conn]
           answered == [s EXCEPT !.stop = IF @ = x.prompt THEN 0 ELSE @,
                                 !.requested = IF ~x.landed /\ s.active /\ s.gen = x.prompt
                                               THEN FALSE ELSE @,
                                 !.deferred = NoResult]
       IN  IF s.deferred # NoResult /\ s.deferred.prompt = s.gen /\ s.active
           THEN /\ session' = [session EXCEPT ![x.conn] =
                                 [answered EXCEPT !.active = FALSE, !.requested = FALSE]]
                /\ down' = Tell(x.conn,
                                <<[t |-> "turn-end",
                                   error |-> s.deferred.failed /\ ~answered.requested]>>)
           ELSE session' = [session EXCEPT ![x.conn] = answered] /\ down' = down
    /\ UNCHANGED <<tab, owner, line, native, told, running, results, up,
                   opened, typed, stopped>>

\* The stream of the current query has ended by itself.
PumpEnds(c) ==
    /\ session[c].start = "up" /\ session[c].query # 0 /\ session[c].migrating = "no"
    /\ LET p == <<c, session[c].query>> IN p \notin native /\ results[p] = <<>>
    /\ ~session[c].closed /\ Finish(c, "exit")
    /\ UNCHANGED <<tab, owner, line, native, running, results, stops, up, counters>>

\* create_project, called in a turn of a Library chat, has made the folder, maybe after
\* that turn: rebindToFolder.
Rebind(c) ==
    /\ session[c].bound = "library" /\ session[c].gen # 0 /\ ~session[c].closed
    /\ owner = c
    /\ session' = [session EXCEPT ![c].bound = "rebound"]
    /\ UNCHANGED <<tab, owner, line, nativeVars, up, down, counters>>

Turns(c) ==
    \/ OnMessage(c) \/ Drained(c) \/ Migrated(c) \/ PumpEnds(c)
    \/ \E leg \in {1, 2} : OnResult(c, leg)

-----------------------------------------------------------------------------
(* The native processes, which are external. *)

\* The first message of a stream names the transcript.
FirstMessage(c) ==
    /\ owner = 0 /\ ~tab.known /\ running[<<c, 1>>] # 0
    /\ owner' = c /\ down' = Tell(c, <<Say("session-id")>>)
    /\ UNCHANGED <<tab, session, line, nativeVars, up, counters>>

\* A turn of the process ends, well or with a failure.
Answer(p) ==
    /\ running[p] # 0 /\ owner = p[1]
    /\ running' = [running EXCEPT ![p] = 0]
    /\ \/ results' = [results EXCEPT ![p] =
                        Append(@, [prompt |-> running[p], failed |-> FALSE])]
          /\ faults' = faults
       \/ results' = [results EXCEPT ![p] =
                        Append(@, [prompt |-> running[p], failed |-> TRUE])]
          /\ Fault
    /\ UNCHANGED <<tab, session, owner, line, native, told, stops, up, down,
                   opened, typed, stopped>>

\* An interrupt ends what the process works on, if anything.
InterruptLands(x) ==
    /\ x \in stops /\ ~x.landed /\ <<x.conn, x.leg>> \in native
    /\ stops' = (stops \ {x}) \cup {[x EXCEPT !.landed = TRUE]}
    /\ LET p == <<x.conn, x.leg>>
       IN  /\ running' = [running EXCEPT ![p] = 0]
           /\ results' = IF running[p] = 0 THEN results
                         ELSE [results EXCEPT ![p] =
                                 Append(@, [prompt |-> running[p], failed |-> TRUE])]
    /\ UNCHANGED <<tab, session, owner, line, native, told, up, down, counters>>

\* A process whose input was ended goes; any other one may die.
ProcessEnds(p) ==
    /\ p \in native
    /\ \/ p \in told /\ faults' = faults
       \/ p \notin told /\ Fault
    /\ native' = native \ {p} /\ running' = [running EXCEPT ![p] = 0]
    /\ UNCHANGED <<tab, session, owner, line, told, results, stops, up, down,
                   opened, typed, stopped>>

-----------------------------------------------------------------------------
User == Send \/ EditAndResend \/ StopTurn \/ TryAgain \/ ReconnectFromCard
        \/ ReconnectAfterFatal \/ ElsewhereResumes
Renderer == Composed \/ Receive
Process == \/ \E c \in Connections : FirstMessage(c)
           \/ \E p \in Processes : Answer(p) \/ ProcessEnds(p)
           \/ \E x \in stops : InterruptLands(x)

Next ==
    \/ User \/ Renderer \/ Process
    \/ \E c \in Connections : Lifecycle(c) \/ Turns(c) \/ ScopeRemoved(c) \/ Rebind(c)
    \/ \E x \in stops : InterruptAnswered(x)

Spec == Init /\ [][Next]_vars

\* Messages arrive, awaited calls return, processes answer and, when their input has
\* ended, go; nobody has to do anything.
FairSpec ==
    /\ Spec /\ WF_vars(Renderer)
    /\ \A c \in Connections :
          WF_vars(Lifecycle(c)) /\ WF_vars(Turns(c)) /\ WF_vars(FirstMessage(c))
    /\ \A p \in Processes : WF_vars(Answer(p)) /\ WF_vars(p \in told /\ ProcessEnds(p))
    /\ WF_vars(\E x \in stops : InterruptLands(x))
    /\ WF_vars(\E x \in stops : InterruptAnswered(x))

-----------------------------------------------------------------------------
TypeOK ==
    /\ tab \in Tab
    /\ session \in [Connections -> Session]
    /\ owner \in 0..MaxConnections /\ line \in Seq(Connections)
    /\ native \subseteq Processes /\ told \subseteq Processes
    /\ running \in [Processes -> 0..MaxPrompts]
    /\ results \in [Processes -> Seq(Result)]
    /\ stops \subseteq Stop
    /\ up \in [Connections -> Seq(ToServer)] /\ down \in [Connections -> Seq(ToTab)]
    /\ opened \in Connections /\ typed \in 0..MaxPrompts
    /\ stopped \in 0..MaxStops /\ faults \in 0..MaxFaults

\* No two processes write the same transcript, whoever resumes it while its owner
\* starts, works, migrates to a project or is being closed.
OneQuery == \A p, q \in native : p = q

\* When nothing is under way between the tab and its session, they agree on whether
\* a turn is active: no prompt was dropped, and no tab waits for nothing.  It holds
\* unless SkillsVanish: a prompt that is refused for its skill (agent.ts:782) begins no
\* turn and ends none, and its tab stays busy.
TabAgrees ==
    tab.phase = "live" /\ tab.composing = 0 /\ up[tab.conn] = <<>> /\ down[tab.conn] = <<>>
        => (tab.busy <=> session[tab.conn].active)

\* What is under way belongs to the turn it will meet: a result never settles a later
\* turn, and an interrupt never stops one.
OwnTurnOnly ==
    \A c \in Connections, leg \in {1, 2} :
        /\ session[c].active => \A i \in DOMAIN results[<<c, leg>>] :
                                   results[<<c, leg>>][i].prompt = session[c].gen
        /\ \A x \in stops : /\ x.conn = c /\ x.leg = leg /\ ~x.landed
                             /\ running[<<c, leg>>] # 0
                             => x.prompt = running[<<c, leg>>]

\* Whoever waits, for a turn or for a connection, does not wait for ever; unless
\* SkillsVanish, as for TabAgrees.
WaitingEnds == (tab.busy \/ tab.phase = "connecting")
                 ~> (~tab.busy /\ tab.phase # "connecting")
=============================================================================
