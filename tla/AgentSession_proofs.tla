------------------------ MODULE AgentSession_proofs ------------------------
(***************************************************************************)
(* Proofs about AgentSession for any number of prompts, connections, uses  *)
(* of Stop and failures.                                                   *)
(*                                                                         *)
(* Sound collects what every step keeps about types, the line, the life of *)
(* a session and its processes.  On it rest three arguments: who owns the  *)
(* transcript (OneQuery), what is under way in a turn (OwnTurnOnly), and   *)
(* where the turn of the tab is (TabAgrees).  What a step does is stated   *)
(* once per part of the state - LifeSteps, DownSteps, TabSteps, UpSteps,   *)
(* TurnSteps, ConnSteps - and every invariant is proved from those.        *)
(***************************************************************************)
EXTENDS AgentSession, SequenceTheorems, TLAPS

USE AgentSessionAssumption DEF AgentSessionAssumption

-----------------------------------------------------------------------------
(* Types of the operators. *)

\* The messages of both directions are messages.
LEMMA MessageTypes ==
    /\ \A k \in {"interrupt", "close"} : Say(k) \in ToServer
    /\ \A k \in {"ready", "session-id", "turn-start", "exit", "removed", "closed", "error"} :
          Say(k) \in ToTab
    /\ \A e \in BOOLEAN : [t |-> "turn-end", error |-> e] \in ToTab
    /\ \A q \in Prompts : [t |-> "prompt", prompt |-> q] \in ToServer
    /\ \A m \in ToServer : m.t = "prompt" => m.prompt \in Prompts
    /\ \A e \in ToTab : e.t = "turn-end" => e.error \in BOOLEAN
BY DEF Say, ToServer, ToTab

\* What is told to a tab is appended to its socket.
LEMMA TellTypes ==
    ASSUME TypeOK, NEW c \in Connections, NEW events \in Seq(ToTab)
    PROVE  Tell(c, events) \in [Connections -> Seq(ToTab)]
<1>1. down[c] \o events \in Seq(ToTab)
  BY DEF TypeOK
<1> QED
  BY <1>1 DEF TypeOK, Tell

\* A tab stays a tab, whatever the user or an event makes of it.
LEMMA ComposeType ==
    ASSUME NEW t \in Tab, NEW q \in Prompts
    PROVE  Compose(t, q) \in Tab
<1>1. q \in 0..MaxPrompts
  BY DEF Prompts
<1> QED
  BY <1>1 DEF Compose, Tab

LEMMA SubmitType ==
    ASSUME NEW t \in Tab, NEW q \in Prompts
    PROVE  Submit(t, q) \in Tab
<1>1. Append(t.queue, q) \in Seq(Prompts)
  BY DEF Tab
<1> QED
  BY <1>1, ComposeType DEF Submit, Tab

LEMMA FinishedType ==
    ASSUME NEW t \in Tab, NEW phase \in {"closed", "retired"}
    PROVE  Finished(t, phase) \in Tab
<1>1. <<>> \in Seq(Prompts) /\ 0 \in 0..MaxPrompts
  OBVIOUS
<1> QED
  BY <1>1 DEF Finished, Tab

LEMMA NextQueuedType ==
    ASSUME NEW t \in Tab
    PROVE  NextQueued(t) \in Tab
<1>1. [t EXCEPT !.busy = FALSE] \in Tab
  BY DEF Tab
<1>2. CASE t.queue = <<>>
  BY <1>1, <1>2 DEF NextQueued
<1>3. CASE t.queue # <<>>
  <2>1. t.queue \in Seq(Prompts)
    BY DEF Tab
  <2>2. Head(t.queue) \in Prompts /\ Tail(t.queue) \in Seq(Prompts)
    BY <1>3, <2>1, HeadTailProperties
  <2>3. [[t EXCEPT !.busy = FALSE] EXCEPT !.queue = Tail(@)] \in Tab
    BY <2>2 DEF Tab
  <2> QED
    BY <1>3, <2>2, <2>3, ComposeType DEF NextQueued
<1> QED
  BY <1>2, <1>3

LEMMA HandledType ==
    ASSUME NEW t \in Tab, NEW e \in ToTab
    PROVE  Handled(t, e) \in Tab
<1>1. CASE e.t = "ready"
  <2>1. [t EXCEPT !.phase = "live", !.retry = 0] \in Tab
    <3>1. 0 \in 0..MaxPrompts
      OBVIOUS
    <3> QED
      BY <3>1 DEF Tab
  <2>2. t.retry # 0 => t.retry \in Prompts
    BY DEF Tab, Prompts
  <2> QED
    BY <1>1, <2>1, <2>2, SubmitType DEF Handled
<1>2. CASE e.t = "session-id" \/ e.t = "turn-start"
  BY <1>2 DEF Handled, Tab
<1>3. CASE e.t = "turn-end"
  <2>1. [t EXCEPT !.ended = TRUE, !.card = IF e.error THEN t.latest ELSE @] \in Tab
    BY DEF Tab
  <2> QED
    BY <1>3, <2>1, NextQueuedType DEF Handled
<1>4. CASE e.t \notin {"ready", "session-id", "turn-start", "turn-end"}
  BY <1>4, FinishedType DEF Handled
<1> QED
  BY <1>1, <1>2, <1>3, <1>4

\* So does a session.
LEMMA SessionTypes ==
    /\ Unopened \in Session
    /\ \A s \in Session : Disposed(s) \in Session
    /\ NoResult \notin Result
<1>1. NoResult \notin Result /\ 0 \in 0..MaxPrompts
  BY DEF NoResult, Result, Prompts
<1>2. Unopened \in Session
  BY <1>1 DEF Unopened, Session
<1>3. \A s \in Session : Disposed(s) \in Session
  BY DEF Session, Disposed
<1> QED
  BY <1>1, <1>2, <1>3

LEMMA SilencedType ==
    ASSUME TypeOK, NEW c \in Connections
    PROVE  Silenced(c) \subseteq Processes
<1>1. session[c] \in Session
  BY DEF TypeOK
<1>2. session[c].query \in {0, 1, 2}
  BY <1>1 DEF Session
<1> QED
  BY <1>2 DEF TypeOK, Silenced, Processes

LEMMA FinishTypes ==
    ASSUME TypeOK, NEW c \in Connections, NEW why \in {"exit", "removed"}, Finish(c, why)
    PROVE  /\ session' \in [Connections -> Session] /\ told' \subseteq Processes
           /\ down' \in [Connections -> Seq(ToTab)]
<1>1. <<Say(why), Say("closed")>> \in Seq(ToTab)
  BY MessageTypes
<1>2. Disposed(session[c]) \in Session
  BY SessionTypes DEF TypeOK
<1>3. session' \in [Connections -> Session]
  BY <1>2 DEF Finish, TypeOK
<1> QED
  BY <1>1, <1>3, TellTypes, SilencedType DEF Finish

-----------------------------------------------------------------------------
(* Types of the states. *)

\* The session at the end of the line of its transcript is in the line, and the one
\* that takes over is its head.
Lined ==
    \A c \in Connections :
        /\ session[c].start = "queued" => \E i \in 1..Len(line) : line[i] = c
        /\ session[c].start = "taking" => line # <<>> /\ line[1] = c

\* A turn has a prompt.
Named ==
    \A c \in Connections : session[c].active \/ session[c].stop # 0 => session[c].gen # 0

\* The first state has the types.
LEMMA TypeInit == Init => TypeOK
<1> SUFFICES ASSUME Init PROVE TypeOK
  OBVIOUS
<1>1. /\ 0 \in 0..MaxPrompts /\ 0 \in 0..MaxStops /\ 0 \in 0..MaxFaults
      /\ 0 \in 0..MaxConnections /\ 1 \in Connections
  BY DEF Connections
<1>2. <<>> \in Seq(Prompts) /\ <<>> \in Seq(Connections) /\ <<>> \in Seq(Result)
      /\ <<>> \in Seq(ToServer) /\ <<>> \in Seq(ToTab)
  OBVIOUS
<1>3. tab \in Tab
  BY <1>1, <1>2 DEF Init, Tab
<1>4. session \in [Connections -> Session]
  <2>1. [Unopened EXCEPT !.start = "up", !.query = 1] \in Session
    BY SessionTypes DEF Session
  <2> QED
    BY <2>1, SessionTypes DEF Init
<1>5. native \subseteq Processes
  BY <1>1 DEF Init, Processes
<1> QED
  BY <1>1, <1>2, <1>3, <1>4, <1>5 DEF Init, TypeOK

\* A failure is counted.
LEMMA FaultType == TypeOK /\ Fault => faults' \in 0..MaxFaults
BY DEF TypeOK, Fault

\* What the user does keeps them.
LEMMA UserTypes ==
    ASSUME TypeOK, User
    PROVE  TypeOK'
<1>1. typed < MaxPrompts => typed + 1 \in Prompts /\ typed + 1 \in 0..MaxPrompts
  BY DEF TypeOK, Prompts
<1>2. PressStop => stopped' \in 0..MaxStops
  BY DEF PressStop, TypeOK
<1>3. tab.conn \in Connections /\ tab \in Tab
  BY DEF TypeOK, Tab
<1>4. \A m \in ToServer : [up EXCEPT ![tab.conn] = Append(@, m)] \in [Connections -> Seq(ToServer)]
  <2> TAKE m \in ToServer
  <2>1. Append(up[tab.conn], m) \in Seq(ToServer)
    BY <1>3 DEF TypeOK
  <2> QED
    BY <2>1 DEF TypeOK
<1>5. ASSUME Open
      PROVE  /\ session' \in [Connections -> Session] /\ opened' \in Connections
             /\ opened + 1 \in Connections
  <2>1. opened + 1 \in Connections
    BY <1>5 DEF Open, TypeOK, Connections
  <2> DEFINE s == session[opened + 1]
             bound == IF \A c \in Connections : session[c].bound = "library"
                      THEN s.bound ELSE "folder"
  <2>2. s \in Session /\ bound \in {"library", "rebound", "folder"}
    BY <2>1 DEF TypeOK, Session
  <2>3. session' = [session EXCEPT ![opened + 1] = [s EXCEPT !.start = "checking",
                                                            !.bound = bound]]
    BY <1>5, <2>1 DEF Open, TypeOK
  <2>4. [s EXCEPT !.start = "checking", !.bound = bound] \in Session
    BY <2>2 DEF Session
  <2>5. opened' = opened + 1
    BY <1>5 DEF Open
  <2> QED
    BY <2>1, <2>3, <2>4, <2>5 DEF TypeOK
<1>6. ASSUME NEW q \in 0..MaxPrompts, Connect(q)
      PROVE  /\ session' \in [Connections -> Session] /\ opened' \in Connections
             /\ tab' \in Tab /\ up' \in [Connections -> Seq(ToServer)]
             /\ down' \in [Connections -> Seq(ToTab)]
  <2>1. <<>> \in Seq(Prompts) /\ <<>> \in Seq(ToTab) /\ 0 \in 0..MaxPrompts
    OBVIOUS
  <2>2. opened + 1 \in Connections
    BY <1>5, <1>6 DEF Connect
  <2>3. tab' \in Tab
    <3>1. tab' = [tab EXCEPT !.conn = opened + 1, !.phase = "connecting", !.busy = FALSE,
                             !.queue = <<>>, !.composing = 0, !.retry = q, !.card = 0]
      BY <1>6 DEF Connect
    <3> QED
      BY <1>3, <2>1, <2>2, <3>1 DEF Tab
  <2>4. up' \in [Connections -> Seq(ToServer)] /\ down' \in [Connections -> Seq(ToTab)]
    BY <1>4, <1>6, <2>1, MessageTypes DEF Connect, TypeOK
  <2> QED
    BY <1>5, <1>6, <2>3, <2>4 DEF Connect
<1>7. CASE Send
  BY <1>1, <1>3, <1>7, SubmitType DEF Send, TypeOK, nativeVars
<1>8. CASE EditAndResend
  <2>1. <<typed + 1>> \o tab.queue \in Seq(Prompts)
    BY <1>1, <1>3, <1>8 DEF EditAndResend, Tab
  <2>2. tab' \in Tab
    BY <1>3, <1>8, <2>1 DEF EditAndResend, Tab
  <2> QED
    BY <1>1, <1>2, <1>4, <1>8, <2>2, MessageTypes DEF EditAndResend, TypeOK, nativeVars
<1>9. CASE StopTurn
  BY <1>2, <1>4, <1>9, MessageTypes DEF StopTurn, TypeOK, nativeVars
<1>10. CASE TryAgain
  <2>1. [tab EXCEPT !.card = 0] \in Tab
    <3>1. 0 \in 0..MaxPrompts
      OBVIOUS
    <3> QED
      BY <1>3, <3>1 DEF Tab
  <2> QED
    BY <1>1, <1>10, <2>1, SubmitType DEF TryAgain, TypeOK, nativeVars
<1>11. CASE ReconnectFromCard
  BY <1>1, <1>6, <1>11 DEF ReconnectFromCard, TypeOK, nativeVars
<1>12. CASE ReconnectAfterFatal
  BY <1>6, <1>12 DEF ReconnectAfterFatal, TypeOK, nativeVars
<1>13. CASE ElsewhereResumes
  BY <1>5, <1>13 DEF ElsewhereResumes, TypeOK, nativeVars
<1> QED
  BY <1>7, <1>8, <1>9, <1>10, <1>11, <1>12, <1>13 DEF User

\* So does the renderer.
LEMMA RendererTypes ==
    ASSUME TypeOK, Renderer
    PROVE  TypeOK'
<1>1. tab.conn \in Connections /\ tab \in Tab
  BY DEF TypeOK, Tab
<1>2. CASE Composed
  <2>1. tab.composing \in Prompts
    BY <1>1, <1>2 DEF Composed, Tab, Prompts
  <2>2. tab' \in Tab
    BY <1>1, <1>2 DEF Composed, Tab
  <2>3. Append(up[tab.conn], [t |-> "prompt", prompt |-> tab.composing]) \in Seq(ToServer)
    BY <1>1, <2>1, MessageTypes DEF TypeOK
  <2>4. up' \in [Connections -> Seq(ToServer)]
    BY <1>2, <2>3 DEF Composed, TypeOK
  <2> QED
    BY <1>2, <2>2, <2>4 DEF Composed, TypeOK, nativeVars, counters
<1>3. CASE Receive
  <2>1. Head(down[tab.conn]) \in ToTab /\ Tail(down[tab.conn]) \in Seq(ToTab)
    BY <1>1, <1>3, HeadTailProperties DEF Receive, TypeOK
  <2>2. tab' \in Tab
    BY <1>1, <1>3, <2>1, HandledType DEF Receive
  <2> QED
    BY <1>3, <2>1, <2>2 DEF Receive, TypeOK, nativeVars, counters
<1> QED
  BY <1>2, <1>3 DEF Renderer

\* So do the processes.
LEMMA ProcessTypes ==
    ASSUME TypeOK, Process
    PROVE  TypeOK'
<1>1. ASSUME NEW c \in Connections, FirstMessage(c) PROVE TypeOK'
  <2>1. owner' \in 0..MaxConnections
    BY <1>1 DEF FirstMessage, Connections
  <2>2. <<Say("session-id")>> \in Seq(ToTab)
    BY MessageTypes
  <2> QED
    BY <1>1, <2>1, <2>2, TellTypes DEF FirstMessage, TypeOK, nativeVars, counters
<1>2. ASSUME NEW p \in Processes, NEW failed \in BOOLEAN, running[p] # 0
      PROVE  [results EXCEPT ![p] = Append(@, [prompt |-> running[p], failed |-> failed])]
               \in [Processes -> Seq(Result)]
  <2>1. running[p] \in Prompts
    BY <1>2 DEF TypeOK, Prompts
  <2>2. [prompt |-> running[p], failed |-> failed] \in Result
    BY <2>1 DEF Result
  <2>3. Append(results[p], [prompt |-> running[p], failed |-> failed]) \in Seq(Result)
    BY <2>2 DEF TypeOK
  <2> QED
    BY <2>3 DEF TypeOK
<1>3. \A p \in Processes : [running EXCEPT ![p] = 0] \in [Processes -> 0..MaxPrompts]
  BY DEF TypeOK
<1>4. ASSUME NEW p \in Processes, Answer(p) PROVE TypeOK'
  BY <1>2, <1>3, <1>4, FaultType DEF Answer, TypeOK
<1>5. ASSUME NEW x \in stops, InterruptLands(x) PROVE TypeOK'
  <2>1. x \in Stop /\ <<x.conn, x.leg>> \in Processes
    BY DEF TypeOK, Stop, Processes
  <2>2. stops' \subseteq Stop
    BY <1>5, <2>1 DEF InterruptLands, TypeOK, Stop
  <2>3. results' \in [Processes -> Seq(Result)]
    BY <1>2, <1>5, <2>1 DEF InterruptLands, TypeOK
  <2> QED
    BY <1>3, <1>5, <2>1, <2>2, <2>3 DEF InterruptLands, TypeOK, counters
<1>6. ASSUME NEW p \in Processes, ProcessEnds(p) PROVE TypeOK'
  BY <1>3, <1>6, FaultType DEF ProcessEnds, TypeOK
<1> QED
  BY <1>1, <1>4, <1>5, <1>6 DEF Process

\* A session that is given other values stays a session.
LEMMA SessionEdits ==
    ASSUME TypeOK, NEW c \in Connections, NEW s \in Session
    PROVE  [session EXCEPT ![c] = s] \in [Connections -> Session]
BY DEF TypeOK

\* So do ownership, start and retirement.
LEMMA LifecycleTypes ==
    ASSUME TypeOK, Lined, NEW c \in Connections, Lifecycle(c) \/ ScopeRemoved(c)
    PROVE  TypeOK'
<1> DEFINE s == session[c]
<1>1. s \in Session
  BY DEF TypeOK
<1>2. /\ [s EXCEPT !.start = "over"] \in Session /\ [s EXCEPT !.start = "queued"] \in Session
      /\ [s EXCEPT !.start = "taking"] \in Session /\ [s EXCEPT !.start = "owned"] \in Session
      /\ [s EXCEPT !.start = "up"] \in Session /\ [s EXCEPT !.retire = "done"] \in Session
      /\ [s EXCEPT !.start = "starting", !.query = 1] \in Session
  BY <1>1 DEF Session
<1>3. c \in 0..MaxConnections
  BY DEF Connections
<1>4. CASE Acquire(c)
  <2>1. Append(line, c) \in Seq(Connections)
    BY DEF TypeOK
  <2>2. CASE s.closed /\ session' = [session EXCEPT ![c].start = "over"]
             /\ UNCHANGED <<line, told, down, faults>>
    <3>1. session' = [session EXCEPT ![c] = [s EXCEPT !.start = "over"]]
      BY <2>2
    <3> QED
      BY <1>2, <1>4, <2>2, <3>1, SessionEdits DEF Acquire, TypeOK
  <2>3. CASE session' = [session EXCEPT ![c].start = "queued"] /\ line' = Append(line, c)
             /\ UNCHANGED <<told, down, faults>>
    <3>1. session' = [session EXCEPT ![c] = [s EXCEPT !.start = "queued"]]
      BY <2>3
    <3> QED
      BY <1>2, <1>4, <2>1, <2>3, <3>1, SessionEdits DEF Acquire, TypeOK
  <2>4. CASE Fault /\ Finish(c, "exit") /\ line' = line
    BY <1>4, <2>4, FaultType, FinishTypes DEF Acquire, TypeOK
  <2> QED
    BY <1>4, <2>2, <2>3, <2>4 DEF Acquire
<1>5. ASSUME line # <<>>, Resolve(c)
      PROVE  /\ session' \in [Connections -> Session] /\ owner' \in 0..MaxConnections
             /\ line' \in Seq(Connections)
  <2>1. Tail(line) \in Seq(Connections)
    BY <1>5 DEF TypeOK
  <2>2. \/ session' = [session EXCEPT ![c] = [s EXCEPT !.start = "over"]]
        \/ session' = [session EXCEPT ![c] = [s EXCEPT !.start = "owned"]]
    BY <1>5 DEF Resolve
  <2>3. owner' \in 0..MaxConnections /\ line' = Tail(line)
    BY <1>3, <1>5 DEF Resolve, TypeOK
  <2> QED
    BY <1>2, <2>1, <2>2, <2>3, SessionEdits
<1>6. CASE TakeOver(c)
  <2>1. line # <<>>
    <3>1. PICK i \in 1..Len(line) : line[i] = c
      BY <1>6 DEF TakeOver, Lined
    <3> QED
      BY <3>1 DEF TypeOK
  <2>2. CASE Resolve(c) /\ UNCHANGED <<told, down>>
    BY <1>5, <1>6, <2>1, <2>2 DEF TakeOver, TypeOK, counters
  <2>3. CASE session' = [session EXCEPT ![c].start = "taking"]
             /\ UNCHANGED <<told, down, line, owner>>
    <3>1. session' = [session EXCEPT ![c] = [s EXCEPT !.start = "taking"]]
      BY <2>3
    <3>2. session' \in [Connections -> Session]
      BY <1>2, <3>1, SessionEdits
    <3> QED
      BY <1>6, <2>3, <3>2 DEF TakeOver, TypeOK, counters
  <2>4. CASE /\ ~s.closed /\ owner # 0 /\ ~session[owner].closed
             /\ session' = [session EXCEPT ![owner] = Disposed(@), ![c].start = "taking"]
             /\ told' = Silenced(owner) /\ down' = Tell(owner, <<Say("closed")>>)
             /\ UNCHANGED <<line, owner>>
    <3>1. owner \in Connections
      BY <2>4 DEF TypeOK, Connections
    <3>2. Disposed(session[owner]) \in Session
      BY <3>1, SessionTypes DEF TypeOK
    <3> DEFINE first == [session EXCEPT ![owner] = Disposed(@)]
    <3>3. first \in [Connections -> Session]
      BY <3>2 DEF TypeOK
    <3>4. first[c] \in Session
      BY <3>3
    <3>5. [first[c] EXCEPT !.start = "taking"] \in Session
      BY <3>4 DEF Session
    <3>6. session' = [first EXCEPT ![c] = [first[c] EXCEPT !.start = "taking"]]
      BY <2>4
    <3>7. session' \in [Connections -> Session]
      BY <3>3, <3>5, <3>6
    <3>8. told' \subseteq Processes
      BY <2>4, <3>1, SilencedType
    <3>9. <<Say("closed")>> \in Seq(ToTab)
      BY MessageTypes
    <3>10. down' \in [Connections -> Seq(ToTab)]
      BY <2>4, <3>1, <3>9, TellTypes
    <3> QED
      BY <1>6, <2>4, <3>7, <3>8, <3>10 DEF TakeOver, TypeOK, counters
  <2> QED
    BY <1>6, <2>2, <2>3, <2>4 DEF TakeOver
<1>7. CASE Claim(c)
  BY <1>5, <1>7 DEF Claim, Lined, TypeOK, nativeVars, counters
<1>8. CASE Launch(c)
  <2>1. CASE session' = [session EXCEPT ![c].start = "over"]
             /\ UNCHANGED <<native, told, down, faults>>
    <3>1. session' = [session EXCEPT ![c] = [s EXCEPT !.start = "over"]]
      BY <2>1
    <3> QED
      BY <1>2, <1>8, <2>1, <3>1, SessionEdits DEF Launch, TypeOK
  <2>2. CASE session' = [session EXCEPT ![c].start = "starting", ![c].query = 1]
             /\ native' = native \cup {<<c, 1>>} /\ UNCHANGED <<told, down, faults>>
    <3>1. session' = [session EXCEPT ![c] = [s EXCEPT !.start = "starting", !.query = 1]]
      BY <2>2 DEF TypeOK
    <3>2. native' \subseteq Processes
      BY <2>2 DEF TypeOK, Processes
    <3>3. session' \in [Connections -> Session]
      BY <1>2, <3>1, SessionEdits
    <3> QED
      BY <1>8, <2>2, <3>2, <3>3 DEF Launch, TypeOK
  <2>3. CASE Fault /\ Finish(c, "exit") /\ native' = native
    BY <1>8, <2>3, FaultType, FinishTypes DEF Launch, TypeOK
  <2> QED
    BY <1>8, <2>1, <2>2, <2>3 DEF Launch
<1>9. CASE Ready(c)
  <2>1. session' = [session EXCEPT ![c] = [s EXCEPT !.start = "up"]]
    BY <1>9 DEF Ready
  <2>2. <<Say("ready")>> \in Seq(ToTab)
    BY MessageTypes
  <2> QED
    BY <1>2, <1>9, <2>1, <2>2, SessionEdits, TellTypes DEF Ready, TypeOK, nativeVars, counters
<1>10. CASE RetirementEnds(c)
  <2>1. session' = [session EXCEPT ![c] = [s EXCEPT !.retire = "done"]]
    BY <1>10 DEF RetirementEnds
  <2>2. owner' \in 0..MaxConnections
    BY <1>10 DEF RetirementEnds, TypeOK
  <2> QED
    BY <1>2, <1>10, <2>1, <2>2, SessionEdits DEF RetirementEnds, TypeOK, nativeVars, counters
<1>11. CASE ScopeRemoved(c)
  BY <1>11, FaultType, FinishTypes DEF ScopeRemoved, TypeOK
<1> QED
  BY <1>4, <1>6, <1>7, <1>8, <1>9, <1>10, <1>11 DEF Lifecycle

\* A prompt that reaches a process, or none, keeps the types.
LEMMA PushType ==
    ASSUME TypeOK, NEW c, NEW leg, NEW q \in 0..MaxPrompts, Push(c, leg, q)
    PROVE  running' \in [Processes -> 0..MaxPrompts]
BY DEF Push, TypeOK

\* So does the end of a turn.
LEMMA SettleTypes ==
    ASSUME TypeOK, NEW c \in Connections, NEW failed \in BOOLEAN, Settle(c, failed)
    PROVE  session' \in [Connections -> Session] /\ down' \in [Connections -> Seq(ToTab)]
<1> DEFINE s == session[c]
           settled == [s EXCEPT !.active = FALSE, !.requested = FALSE, !.stop = 0,
                                !.deferred = NoResult]
<1>1. s \in Session
  BY DEF TypeOK
<1>2. 0 \in 0..MaxPrompts
  OBVIOUS
<1>3. settled \in Session
  BY <1>1, <1>2 DEF Session
<1>4. CASE s.active
  <2>1. session' = [session EXCEPT ![c] = settled]
    BY <1>4 DEF Settle, TypeOK
  <2> DEFINE error == failed /\ ~s.requested
  <2>2. error = TRUE \/ error = FALSE
    OBVIOUS
  <2> HIDE DEF error
  <2>3. [t |-> "turn-end", error |-> error] \in ToTab
    BY <2>2 DEF ToTab
  <2>4. <<[t |-> "turn-end", error |-> error]>> \in Seq(ToTab)
    BY <2>3
  <2>5. down' = Tell(c, <<[t |-> "turn-end", error |-> error]>>)
    BY <1>4 DEF Settle, error
  <2> QED
    BY <1>3, <2>1, <2>4, <2>5, SessionEdits, TellTypes
<1>5. CASE ~s.active
  BY <1>5 DEF Settle, TypeOK
<1> QED
  BY <1>4, <1>5

\* A message to the server keeps them.
LEMMA MessageStepTypes ==
    ASSUME TypeOK, Named, NEW c \in Connections, OnMessage(c)
    PROVE  TypeOK'
<1> DEFINE s == session[c]
           m == Head(up[c])
<1>1. s \in Session /\ m \in ToServer /\ Tail(up[c]) \in Seq(ToServer)
  BY HeadTailProperties DEF OnMessage, TypeOK
<1>2. up' \in [Connections -> Seq(ToServer)]
  BY <1>1 DEF OnMessage, TypeOK
<1>3. s.gen \in 0..MaxPrompts /\ s.query \in {0, 1, 2}
  BY <1>1 DEF Session
<1>4. <<Say("turn-start")>> \in Seq(ToTab)
  BY MessageTypes
<1>5. CASE m.t = "prompt" /\ OnPrompt(c, m.prompt) /\ stops' = stops
  <2>1. m.prompt \in 0..MaxPrompts
    BY <1>1, <1>5, MessageTypes DEF Prompts
  <2> DEFINE begun == [s EXCEPT !.active = TRUE, !.gen = m.prompt, !.requested = FALSE]
  <2>2. begun \in Session
    BY <1>1, <2>1 DEF Session
  <2>3. [begun EXCEPT !.migrating = "draining", !.query = 0] \in Session
    BY <2>2 DEF Session
  <2>4. CASE UNCHANGED <<session, told, running, down>>
    BY <1>2, <1>5, <2>4 DEF OnMessage, TypeOK, counters
  <2>5. CASE /\ session' = [session EXCEPT ![c] = begun]
             /\ Push(c, s.query, m.prompt)
             /\ down' = Tell(c, <<Say("turn-start")>>) /\ told' = told
    <3>1. session' \in [Connections -> Session]
      BY <2>2, <2>5, SessionEdits
    <3>2. running' \in [Processes -> 0..MaxPrompts]
      BY <2>1, <2>5, PushType
    <3> QED
      BY <1>2, <1>4, <1>5, <2>5, <3>1, <3>2, TellTypes DEF OnMessage, TypeOK, counters
  <2>6. CASE /\ session' = [session EXCEPT ![c] = [begun EXCEPT !.migrating = "draining",
                                                               !.query = 0]]
             /\ told' = Silenced(c)
             /\ down' = Tell(c, <<Say("turn-start")>>) /\ running' = running
    <3>1. session' \in [Connections -> Session]
      BY <2>3, <2>6, SessionEdits
    <3> QED
      BY <1>2, <1>4, <1>5, <2>6, <3>1, TellTypes, SilencedType DEF OnMessage, TypeOK, counters
  <2>7. CASE down' = Tell(c, <<Say("error")>>) /\ UNCHANGED <<session, told, running>>
    <3>1. <<Say("error")>> \in Seq(ToTab)
      BY MessageTypes
    <3> QED
      BY <1>2, <1>5, <2>7, <3>1, TellTypes DEF OnMessage, TypeOK, counters
  <2> QED
    BY <1>5, <2>4, <2>5, <2>6, <2>7 DEF OnPrompt
<1>6. CASE m.t = "interrupt" /\ OnInterrupt(c) /\ UNCHANGED <<told, running, down>>
  <2> DEFINE x == [conn |-> c, leg |-> s.query, prompt |-> s.gen, landed |-> FALSE]
  <2>1. CASE UNCHANGED <<session, stops>>
    BY <1>2, <1>6, <2>1 DEF OnMessage, TypeOK, counters
  <2>2. CASE /\ s.active /\ s.query # 0
             /\ session' = [session EXCEPT ![c].requested = TRUE, ![c].stop = s.gen]
             /\ stops' = stops \cup {x}
    <3>1. [s EXCEPT !.requested = TRUE, !.stop = s.gen] \in Session
      BY <1>1, <1>3 DEF Session
    <3>2. session' = [session EXCEPT ![c] = [s EXCEPT !.requested = TRUE, !.stop = s.gen]]
      BY <2>2 DEF TypeOK
    <3>3. session' \in [Connections -> Session]
      BY <3>1, <3>2, SessionEdits
    <3>4. s.gen \in Prompts
      BY <1>3, <2>2 DEF Named, Prompts
    <3>5. x \in Stop
      BY <1>3, <2>2, <3>4 DEF Stop
    <3> QED
      BY <1>2, <1>6, <2>2, <3>3, <3>5 DEF OnMessage, TypeOK, counters
  <2> QED
    BY <1>6, <2>1, <2>2 DEF OnInterrupt
<1>7. CASE /\ m.t = "close" /\ UNCHANGED <<running, stops, down>>
           /\ IF s.closed THEN UNCHANGED <<session, told>>
              ELSE session' = [session EXCEPT ![c] = Disposed(@)] /\ told' = Silenced(c)
  <2>1. session' \in [Connections -> Session] /\ told' \subseteq Processes
    BY <1>1, <1>7, SessionTypes, SilencedType DEF TypeOK
  <2> QED
    BY <1>2, <1>7, <2>1 DEF OnMessage, TypeOK, counters
<1> QED
  BY <1>5, <1>6, <1>7 DEF OnMessage

\* So does the rest of a turn.
LEMMA TurnTypes ==
    ASSUME TypeOK, Named, NEW c \in Connections, Turns(c) \/ Rebind(c)
    PROVE  TypeOK'
<1> DEFINE s == session[c]
<1>1. s \in Session /\ s.gen \in 0..MaxPrompts
  BY DEF TypeOK, Session
<1>2. CASE OnMessage(c)
  BY <1>2, MessageStepTypes
<1>3. CASE Drained(c)
  <2>1. /\ [s EXCEPT !.migrating = "no"] \in Session
        /\ [s EXCEPT !.migrating = "skills", !.query = 2, !.bound = "folder"] \in Session
        /\ [s EXCEPT !.migrating = "no", !.active = FALSE] \in Session
    BY <1>1 DEF Session
  <2>2. CASE session' = [session EXCEPT ![c].migrating = "no"] /\ UNCHANGED <<native, down, faults>>
    <3>1. session' = [session EXCEPT ![c] = [s EXCEPT !.migrating = "no"]]
      BY <2>2
    <3>2. session' \in [Connections -> Session]
      BY <2>1, <3>1, SessionEdits
    <3> QED
      BY <1>3, <2>2, <3>2 DEF Drained, TypeOK
  <2>3. CASE /\ session' = [session EXCEPT ![c].migrating = "skills", ![c].query = 2,
                                          ![c].bound = "folder"]
             /\ native' = native \cup {<<c, 2>>} /\ UNCHANGED <<down, faults>>
    <3>1. session' = [session EXCEPT ![c] = [s EXCEPT !.migrating = "skills", !.query = 2,
                                                      !.bound = "folder"]]
      BY <2>3 DEF TypeOK
    <3>2. session' \in [Connections -> Session]
      BY <2>1, <3>1, SessionEdits
    <3>3. native' \subseteq Processes
      BY <2>3 DEF TypeOK, Processes
    <3> QED
      BY <1>3, <2>3, <3>2, <3>3 DEF Drained, TypeOK
  <2>4. CASE /\ Fault /\ session' = [session EXCEPT ![c].migrating = "no", ![c].active = FALSE]
             /\ down' = Tell(c, <<[t |-> "turn-end", error |-> TRUE]>>)
             /\ native' = native
    <3>1. session' = [session EXCEPT ![c] = [s EXCEPT !.migrating = "no", !.active = FALSE]]
      BY <2>4 DEF TypeOK
    <3>2. session' \in [Connections -> Session]
      BY <2>1, <3>1, SessionEdits
    <3>3. [t |-> "turn-end", error |-> TRUE] \in ToTab
      BY DEF ToTab
    <3>4. <<[t |-> "turn-end", error |-> TRUE]>> \in Seq(ToTab)
      BY <3>3
    <3>5. down' \in [Connections -> Seq(ToTab)]
      BY <2>4, <3>4, TellTypes
    <3> QED
      BY <1>3, <2>4, <3>2, <3>5, FaultType DEF Drained, TypeOK
  <2> QED
    BY <1>3, <2>2, <2>3, <2>4 DEF Drained
<1>4. CASE Migrated(c)
  <2>1. [s EXCEPT !.migrating = "no"] \in Session
    BY <1>1 DEF Session
  <2>2. session' = [session EXCEPT ![c] = [s EXCEPT !.migrating = "no"]]
    BY <1>4 DEF Migrated
  <2>3. session' \in [Connections -> Session]
    BY <2>1, <2>2, SessionEdits
  <2>4. running' \in [Processes -> 0..MaxPrompts]
    BY <1>1, <1>4, PushType DEF Migrated, TypeOK
  <2> QED
    BY <1>4, <2>3, <2>4 DEF Migrated, TypeOK, counters
<1>5. CASE PumpEnds(c)
  BY <1>5, FinishTypes DEF PumpEnds, TypeOK, counters
<1>6. ASSUME NEW leg \in {1, 2}, OnResult(c, leg) PROVE TypeOK'
  <2> DEFINE p == <<c, leg>>
             result == Head(results[p])
  <2>1. p \in Processes
    BY DEF Processes
  <2>2. result \in Result /\ Tail(results[p]) \in Seq(Result)
    BY <1>6, <2>1, HeadTailProperties DEF OnResult, TypeOK
  <2>3. results' \in [Processes -> Seq(Result)]
    BY <1>6, <2>1, <2>2 DEF OnResult, TypeOK
  <2>4. result.failed \in BOOLEAN
    BY <2>2 DEF Result
  <2>5. CASE s.stop # 0
    <3> DEFINE kept == [prompt |-> s.gen, failed |-> result.failed]
    <3>1. s.gen \in Prompts
      BY <1>1, <2>5 DEF Named, Prompts
    <3>2. kept \in Result
      BY <2>4, <3>1 DEF Result
    <3>3. [s EXCEPT !.deferred = kept] \in Session
      BY <1>1, <3>2 DEF Session
    <3>4. session' = [session EXCEPT ![c] = [s EXCEPT !.deferred = kept]] /\ down' = down
      BY <1>6, <2>5 DEF OnResult
    <3>5. session' \in [Connections -> Session]
      BY <3>3, <3>4, SessionEdits
    <3> QED
      BY <1>6, <2>3, <3>4, <3>5 DEF OnResult, TypeOK, counters
  <2>6. CASE s.stop = 0
    <3>1. Settle(c, result.failed)
      BY <1>6, <2>6 DEF OnResult
    <3> QED
      BY <1>6, <2>3, <2>4, <3>1, SettleTypes DEF OnResult, TypeOK, counters
  <2> QED
    BY <2>5, <2>6
<1>7. CASE Rebind(c)
  <2>1. [s EXCEPT !.bound = "rebound"] \in Session
    BY <1>1 DEF Session
  <2>2. session' = [session EXCEPT ![c] = [s EXCEPT !.bound = "rebound"]]
    BY <1>7 DEF Rebind
  <2>3. session' \in [Connections -> Session]
    BY <2>1, <2>2, SessionEdits
  <2> QED
    BY <1>7, <2>3 DEF Rebind, TypeOK, nativeVars, counters
<1> QED
  BY <1>2, <1>3, <1>4, <1>5, <1>6, <1>7 DEF Turns

\* What the answer to an interrupt makes of its session: the session without that
\* interrupt, and maybe without its turn.
Answered(x) ==
    LET s == session[x.conn]
    IN  [s EXCEPT !.stop = IF @ = x.prompt THEN 0 ELSE @,
                  !.requested = IF ~x.landed /\ s.active /\ s.gen = x.prompt THEN FALSE ELSE @,
                  !.deferred = NoResult]
Deferring(s) == s.deferred # NoResult /\ s.deferred.prompt = s.gen /\ s.active

LEMMA InterruptAnsweredSteps ==
    ASSUME TypeOK, NEW x \in stops, InterruptAnswered(x)
    PROVE  /\ x.conn \in Connections /\ Answered(x) \in Session
           /\ stops' = stops \ {x} /\ faults' \in 0..MaxFaults
           /\ \/ /\ Deferring(session[x.conn])
                 /\ session' = [session EXCEPT ![x.conn] =
                                  [Answered(x) EXCEPT !.active = FALSE, !.requested = FALSE]]
                 /\ \E e \in BOOLEAN : down' = Tell(x.conn, <<[t |-> "turn-end", error |-> e]>>)
              \/ /\ ~Deferring(session[x.conn])
                 /\ session' = [session EXCEPT ![x.conn] = Answered(x)] /\ down' = down
<1> DEFINE s == session[x.conn]
<1>1. x \in Stop /\ x.conn \in Connections
  BY DEF TypeOK, Stop
<1>2. s \in Session
  BY <1>1 DEF TypeOK
<1>3. Answered(x) \in Session
  <2>1. 0 \in 0..MaxPrompts
    OBVIOUS
  <2> QED
    BY <1>2, <2>1 DEF Answered, Session
<1>4. faults' \in 0..MaxFaults
  BY FaultType DEF InterruptAnswered, TypeOK
<1>5. CASE Deferring(s)
  <2> DEFINE error == s.deferred.failed /\ ~Answered(x).requested
  <2>1. error = TRUE \/ error = FALSE
    OBVIOUS
  <2> HIDE DEF error
  <2>2. down' = Tell(x.conn, <<[t |-> "turn-end", error |-> error]>>)
    BY <1>5 DEF InterruptAnswered, Answered, Deferring, error
  <2>3. session' = [session EXCEPT ![x.conn] =
                      [Answered(x) EXCEPT !.active = FALSE, !.requested = FALSE]]
    BY <1>5 DEF InterruptAnswered, Answered, Deferring
  <2> QED
    BY <1>1, <1>3, <1>4, <1>5, <2>1, <2>2, <2>3 DEF InterruptAnswered
<1>6. CASE ~Deferring(s)
  BY <1>1, <1>3, <1>4, <1>6 DEF InterruptAnswered, Answered, Deferring
<1> QED
  BY <1>5, <1>6

LEMMA AnsweredTypes ==
    ASSUME TypeOK, NEW x \in stops, InterruptAnswered(x)
    PROVE  TypeOK'
<1>1. /\ x.conn \in Connections /\ Answered(x) \in Session
      /\ stops' = stops \ {x} /\ faults' \in 0..MaxFaults
  BY InterruptAnsweredSteps
<1>2. [Answered(x) EXCEPT !.active = FALSE, !.requested = FALSE] \in Session
  BY <1>1 DEF Session
<1>3. session' \in [Connections -> Session]
  <2>1. \/ session' = [session EXCEPT ![x.conn] =
                         [Answered(x) EXCEPT !.active = FALSE, !.requested = FALSE]]
        \/ session' = [session EXCEPT ![x.conn] = Answered(x)]
    BY InterruptAnsweredSteps
  <2> QED
    BY <1>1, <1>2, <2>1, SessionEdits
<1>4. down' \in [Connections -> Seq(ToTab)]
  <2>1. CASE down' = down
    BY <2>1 DEF TypeOK
  <2>2. ASSUME NEW e \in BOOLEAN, down' = Tell(x.conn, <<[t |-> "turn-end", error |-> e]>>)
        PROVE  down' \in [Connections -> Seq(ToTab)]
    <3>1. <<[t |-> "turn-end", error |-> e]>> \in Seq(ToTab)
      BY MessageTypes
    <3> QED
      BY <1>1, <2>2, <3>1, TellTypes
  <2> QED
    BY <2>1, <2>2, InterruptAnsweredSteps
<1> QED
  BY <1>1, <1>3, <1>4 DEF InterruptAnswered, TypeOK

\* Every step keeps the types.
LEMMA TypeStep == TypeOK /\ Lined /\ Named /\ [Next]_vars => TypeOK'
<1> SUFFICES ASSUME TypeOK, Lined, Named, [Next]_vars PROVE TypeOK'
  OBVIOUS
<1>1. CASE UNCHANGED vars
  BY <1>1 DEF TypeOK, vars, nativeVars, counters
<1> QED
  BY <1>1, UserTypes, RendererTypes, ProcessTypes, LifecycleTypes, TurnTypes, AnsweredTypes DEF Next

-----------------------------------------------------------------------------
(* The life of a session: what a step does to its start, its end and its owner. *)

SameLife(c) ==
    /\ session'[c].start = session[c].start
    /\ session'[c].closed = session[c].closed /\ session'[c].retire = session[c].retire
Apart(S) == \A d \in Connections \ S : SameLife(d)
Moves(c, from, to) ==
    /\ session[c].start = from /\ session'[c].start = to
    /\ session'[c].closed = session[c].closed /\ session'[c].retire = session[c].retire
Closes(c) ==
    /\ session[c].start # "none" /\ ~session[c].closed
    /\ session'[c].start = session[c].start
    /\ session'[c].closed /\ session'[c].retire = "asked"

\* The kinds of steps, by what they do to the sessions, to the line, to the owner and
\* to the processes.
Stays == Apart({}) /\ UNCHANGED <<line, owner>> /\ native' \subseteq native
Owns(c) == /\ Apart({}) /\ owner = 0 /\ owner' = c /\ running[<<c, 1>>] # 0
           /\ UNCHANGED <<line, native>>
Replaces(c) ==
    /\ Apart({}) /\ UNCHANGED <<line, owner>> /\ ~session[c].closed
    /\ session[c].migrating = "draining" /\ <<c, 1>> \notin native
    /\ native' = native \cup {<<c, 2>>}
Opens(c) == /\ c = opened + 1 /\ opened' = opened + 1 /\ tab.known
            /\ session'[c].start = "checking"
            /\ session'[c].closed = session[c].closed /\ session'[c].retire = session[c].retire
            /\ Apart({c}) /\ UNCHANGED <<line, owner, native>>
GivesUp(c) ==
    /\ \E from \in {"checking", "owned"} : Moves(c, from, "over")
    /\ session[c].closed /\ Apart({c}) /\ UNCHANGED <<line, owner, native>>
Queues(c) == /\ Moves(c, "checking", "queued") /\ ~session[c].closed /\ Apart({c})
             /\ line' = Append(line, c) /\ UNCHANGED <<owner, native>>
ClosesOne(c) == Closes(c) /\ Apart({c}) /\ UNCHANGED <<line, owner, native>>
Takes(c) ==
    /\ Moves(c, "queued", "taking") /\ line # <<>> /\ line[1] = c /\ owner # 0
    /\ \/ Apart({c})
       \/ owner # c /\ Closes(owner) /\ Apart({c, owner})
    /\ UNCHANGED <<line, owner, native>>
Resolves(c) ==
    /\ line # <<>> /\ line[1] = c /\ line' = Tail(line)
    /\ Apart({c}) /\ native' = native
    /\ \E from \in {"queued", "taking"} :
         \/ Moves(c, from, "over") /\ session[c].closed /\ owner' = owner
         \/ /\ Moves(c, from, "owned") /\ ~session[c].closed /\ owner' = c
            /\ owner = 0 \/ session[owner].retire = "done"
Launches(c) == /\ Moves(c, "owned", "starting") /\ ~session[c].closed /\ Apart({c})
               /\ native' = native \cup {<<c, 1>>} /\ UNCHANGED <<line, owner>>
Starts(c) == Moves(c, "starting", "up") /\ Apart({c}) /\ UNCHANGED <<line, owner, native>>
Retires(c) ==
    /\ session[c].retire = "asked" /\ session'[c].retire = "done"
    /\ session'[c].start = session[c].start /\ session'[c].closed = session[c].closed
    /\ \A l \in {1, 2} : <<c, l>> \notin native
    /\ owner' = (IF owner = c THEN 0 ELSE owner)
    /\ Apart({c}) /\ UNCHANGED <<line, native>>

LifeStep ==
    \/ Stays
    \/ \E c \in Connections :
         \/ Owns(c) \/ Replaces(c) \/ Opens(c) \/ GivesUp(c) \/ Queues(c) \/ ClosesOne(c)
         \/ Takes(c) \/ Resolves(c) \/ Launches(c) \/ Starts(c) \/ Retires(c)

\* Sessions that are not open yet are as they were made.
Opened ==
    /\ \A c \in Connections :
         /\ c > opened => session[c].start = "none"
         /\ session[c].start = "none" => ~session[c].closed /\ session[c].retire = "no"
    /\ owner # 0 => session[owner].start \in {"owned", "starting", "up", "over"}
    /\ tab.conn <= opened

\* A session that is changed at one place is changed nowhere else.
LEMMA OneSession ==
    ASSUME TypeOK, NEW c \in Connections, NEW s, session' = [session EXCEPT ![c] = s]
    PROVE  /\ session'[c] = s
           /\ \A d \in Connections \ {c} : session'[d] = session[d]
BY DEF TypeOK

\* Finish and the other disposals.
LEMMA DisposeCloses ==
    ASSUME TypeOK, NEW c \in Connections, session[c].start # "none", ~session[c].closed,
           session' = [session EXCEPT ![c] = Disposed(@)]
    PROVE  Closes(c) /\ Apart({c})
<1>1. session[c] \in Session
  BY DEF TypeOK
<1>2. session'[c] = Disposed(session[c]) /\ \A d \in Connections \ {c} : session'[d] = session[d]
  BY OneSession
<1>3. /\ Disposed(session[c]).start = session[c].start
      /\ Disposed(session[c]).closed /\ Disposed(session[c]).retire = "asked"
  BY <1>1 DEF Disposed, Session
<1> QED
  BY <1>2, <1>3 DEF Closes, Apart, SameLife

\* A session whose start alone is changed moves from where it was.
LEMMA StartMoves ==
    ASSUME TypeOK, NEW c \in Connections, NEW to, session' = [session EXCEPT ![c].start = to]
    PROVE  Moves(c, session[c].start, to) /\ Apart({c})
<1>1. session[c] \in Session
  BY DEF TypeOK
<1>2. session' = [session EXCEPT ![c] = [session[c] EXCEPT !.start = to]]
  OBVIOUS
<1>3. /\ session'[c] = [session[c] EXCEPT !.start = to]
      /\ \A d \in Connections \ {c} : session'[d] = session[d]
  BY <1>2, OneSession
<1> QED
  BY <1>1, <1>3 DEF Moves, Apart, SameLife, Session

\* One whose life is not changed stays as it was.
LEMMA KeepsLife ==
    ASSUME TypeOK, NEW c \in Connections, NEW s, session' = [session EXCEPT ![c] = s],
           s.start = session[c].start, s.closed = session[c].closed,
           s.retire = session[c].retire
    PROVE  Apart({})
BY OneSession DEF Apart, SameLife

\* A turn does not touch the life of its session.
LEMMA TurnKeepsLife ==
    ASSUME TypeOK, NEW c \in Connections,
           \/ OnMessage(c) /\ Head(up[c]).t # "close"
           \/ Drained(c) \/ Migrated(c) \/ Rebind(c)
           \/ \E leg \in {1, 2} : OnResult(c, leg)
    PROVE  Apart({})
<1> DEFINE s == session[c]
<1>1. s \in Session
  BY DEF TypeOK
<1>2. session' = session => Apart({})
  BY DEF Apart, SameLife
<1>3. CASE OnMessage(c) /\ Head(up[c]).t # "close"
  <2>1. ASSUME NEW q, OnPrompt(c, q) PROVE Apart({})
    <3> DEFINE begun == [s EXCEPT !.active = TRUE, !.gen = q, !.requested = FALSE]
    <3>1. \/ session' = session
          \/ session' = [session EXCEPT ![c] = begun]
          \/ session' = [session EXCEPT ![c] = [begun EXCEPT !.migrating = "draining",
                                                            !.query = 0]]
      BY <2>1 DEF OnPrompt
    <3>2. /\ begun.start = s.start /\ begun.closed = s.closed /\ begun.retire = s.retire
          /\ [begun EXCEPT !.migrating = "draining", !.query = 0].start = s.start
          /\ [begun EXCEPT !.migrating = "draining", !.query = 0].closed = s.closed
          /\ [begun EXCEPT !.migrating = "draining", !.query = 0].retire = s.retire
      BY <1>1 DEF Session
    <3> QED
      BY <1>2, <3>1, <3>2, KeepsLife
  <2>2. ASSUME OnInterrupt(c) PROVE Apart({})
    <3> DEFINE asked == [s EXCEPT !.requested = TRUE, !.stop = s.gen]
    <3>1. session' = session \/ session' = [session EXCEPT ![c] = asked]
      BY <2>2 DEF OnInterrupt, TypeOK
    <3>2. asked.start = s.start /\ asked.closed = s.closed /\ asked.retire = s.retire
      BY <1>1 DEF Session
    <3> QED
      BY <1>2, <3>1, <3>2, KeepsLife
  <2> QED
    BY <1>3, <2>1, <2>2 DEF OnMessage
<1>4. CASE Drained(c)
  <2> DEFINE left == [s EXCEPT !.migrating = "no"]
             next == [s EXCEPT !.migrating = "skills", !.query = 2, !.bound = "folder"]
             broken == [s EXCEPT !.migrating = "no", !.active = FALSE]
  <2>1. \/ session' = [session EXCEPT ![c] = left]
        \/ session' = [session EXCEPT ![c] = next]
        \/ session' = [session EXCEPT ![c] = broken]
    BY <1>4 DEF Drained, TypeOK
  <2>2. /\ left.start = s.start /\ left.closed = s.closed /\ left.retire = s.retire
        /\ next.start = s.start /\ next.closed = s.closed /\ next.retire = s.retire
        /\ broken.start = s.start /\ broken.closed = s.closed /\ broken.retire = s.retire
    BY <1>1 DEF Session
  <2> QED
    BY <2>1, <2>2, KeepsLife
<1>5. CASE Migrated(c) \/ Rebind(c)
  <2> DEFINE left == [s EXCEPT !.migrating = "no"]
             moved == [s EXCEPT !.bound = "rebound"]
  <2>1. session' = [session EXCEPT ![c] = left] \/ session' = [session EXCEPT ![c] = moved]
    BY <1>5 DEF Migrated, Rebind
  <2>2. /\ left.start = s.start /\ left.closed = s.closed /\ left.retire = s.retire
        /\ moved.start = s.start /\ moved.closed = s.closed /\ moved.retire = s.retire
    BY <1>1 DEF Session
  <2> QED
    BY <2>1, <2>2, KeepsLife
<1>6. ASSUME NEW leg \in {1, 2}, OnResult(c, leg) PROVE Apart({})
  <2> DEFINE kept == [prompt |-> s.gen, failed |-> Head(results[<<c, leg>>]).failed]
             waiting == [s EXCEPT !.deferred = kept]
             settled == [s EXCEPT !.active = FALSE, !.requested = FALSE, !.stop = 0,
                                  !.deferred = NoResult]
  <2>1. \/ session' = session
        \/ session' = [session EXCEPT ![c] = waiting]
        \/ session' = [session EXCEPT ![c] = settled]
    BY <1>6 DEF OnResult, Settle, TypeOK
  <2>2. /\ waiting.start = s.start /\ waiting.closed = s.closed /\ waiting.retire = s.retire
        /\ settled.start = s.start /\ settled.closed = s.closed /\ settled.retire = s.retire
    BY <1>1 DEF Session
  <2> QED
    BY <1>2, <2>1, <2>2, KeepsLife
<1> QED
  BY <1>3, <1>4, <1>5, <1>6

\* Every step is of one of the kinds.
LEMMA LifeSteps ==
    ASSUME TypeOK, Lined, Opened, [Next]_vars
    PROVE  LifeStep
<1>1. ASSUME session' = session PROVE Apart({})
  BY <1>1 DEF Apart, SameLife
<1>2. \A c \in Connections : session[c] \in Session
  BY DEF TypeOK
<1>3. CASE UNCHANGED vars
  BY <1>1, <1>3 DEF LifeStep, Stays, vars, nativeVars
<1>4. ASSUME Open
      PROVE  \E c \in Connections :
               /\ c = opened + 1 /\ opened' = opened + 1 /\ tab.known
               /\ session'[c].start = "checking"
               /\ session'[c].closed = session[c].closed /\ session'[c].retire = session[c].retire
               /\ Apart({c})
  <2>1. opened + 1 \in Connections
    BY <1>4 DEF Open, TypeOK, Connections
  <2> QED
    BY <1>2, <1>4, <2>1 DEF Open, TypeOK, Session, Apart, SameLife
<1>5. CASE User
  <2>1. CASE Send \/ EditAndResend \/ StopTurn \/ TryAgain
    BY <1>1, <2>1 DEF Send, EditAndResend, StopTurn, TryAgain, LifeStep, Stays, nativeVars
  <2>2. CASE Open /\ UNCHANGED <<owner, line, nativeVars>>
    BY <1>4, <2>2 DEF LifeStep, Opens, nativeVars
  <2> QED
    BY <1>5, <2>1, <2>2 DEF User, ReconnectFromCard, ReconnectAfterFatal, ElsewhereResumes,
                            Connect
<1>6. CASE Renderer
  BY <1>1, <1>6 DEF Renderer, Composed, Receive, LifeStep, Stays, nativeVars
<1>7. CASE Process
  <2>1. ASSUME NEW c \in Connections, FirstMessage(c) PROVE LifeStep
    BY <1>1, <2>1 DEF FirstMessage, LifeStep, Owns, nativeVars
  <2>2. ASSUME NEW p \in Processes, Answer(p) \/ ProcessEnds(p) PROVE LifeStep
    BY <1>1, <2>2 DEF Answer, ProcessEnds, LifeStep, Stays
  <2>3. ASSUME NEW x \in stops, InterruptLands(x) PROVE LifeStep
    BY <1>1, <2>3 DEF InterruptLands, LifeStep, Stays
  <2> QED
    BY <1>7, <2>1, <2>2, <2>3 DEF Process
<1>8. ASSUME NEW x \in stops, InterruptAnswered(x) PROVE LifeStep
  <2>1. /\ x.conn \in Connections
        /\ \/ session' = [session EXCEPT ![x.conn] =
                            [Answered(x) EXCEPT !.active = FALSE, !.requested = FALSE]]
           \/ session' = [session EXCEPT ![x.conn] = Answered(x)]
    BY <1>8, InterruptAnsweredSteps
  <2> DEFINE s == session[x.conn]
             ended == [Answered(x) EXCEPT !.active = FALSE, !.requested = FALSE]
  <2>2. s \in Session /\ Answered(x) \in Session
    BY <1>2, <1>8, <2>1, InterruptAnsweredSteps
  <2>3. /\ Answered(x).start = s.start /\ Answered(x).closed = s.closed
        /\ Answered(x).retire = s.retire
    BY <2>2 DEF Answered, Session
  <2>4. ended.start = s.start /\ ended.closed = s.closed /\ ended.retire = s.retire
    BY <2>3, <2>2 DEF Session
  <2>5. Apart({})
    BY <2>1, <2>3, <2>4, KeepsLife
  <2> QED
    BY <1>8, <2>5 DEF InterruptAnswered, LifeStep, Stays
<1>9. ASSUME NEW c \in Connections, Lifecycle(c) PROVE LifeStep
  <2> USE DEF LifeStep
  <2>1. CASE Acquire(c)
    <3>1. CASE session[c].closed
      <4>1. GivesUp(c)
        BY <2>1, <3>1, StartMoves DEF Acquire, GivesUp
      <4> QED
        BY <4>1
    <3>2. CASE ~session[c].closed /\ session' = [session EXCEPT ![c].start = "queued"]
               /\ line' = Append(line, c)
      <4>1. Queues(c)
        BY <2>1, <3>2, StartMoves DEF Acquire, Queues
      <4> QED
        BY <4>1
    <3>3. CASE ~session[c].closed /\ Finish(c, "exit") /\ line' = line
      <4>1. ClosesOne(c)
        BY <2>1, <3>3, DisposeCloses DEF Acquire, Finish, ClosesOne
      <4> QED
        BY <4>1
    <3> QED
      BY <2>1, <3>1, <3>2, <3>3 DEF Acquire
  <2>2. ASSUME Resolve(c), session[c].start \in {"queued", "taking"}, line # <<>>, line[1] = c,
               session[c].closed \/ owner = 0 \/ session[owner].retire = "done", native' = native
        PROVE  LifeStep
    <3>1. CASE session[c].closed
      <4>1. Resolves(c)
        BY <2>2, <3>1, StartMoves DEF Resolve, Resolves
      <4> QED
        BY <4>1
    <3>2. CASE ~session[c].closed
      <4>1. Resolves(c)
        BY <2>2, <3>2, StartMoves DEF Resolve, Resolves
      <4> QED
        BY <4>1
    <3> QED
      BY <3>1, <3>2
  <2>3. CASE TakeOver(c)
    <3>1. line # <<>> /\ line[1] = c
      <4>1. PICK i \in 1..Len(line) : line[i] = c
        BY <2>3 DEF TakeOver, Lined
      <4>2. line # <<>>
        BY <4>1 DEF TypeOK
      <4> QED
        BY <2>3, <4>2 DEF TakeOver, TypeOK
    <3>2. CASE Resolve(c) /\ (session[c].closed \/ owner = 0)
      BY <2>2, <2>3, <3>1, <3>2 DEF TakeOver
    <3>3. CASE owner # 0 /\ session' = [session EXCEPT ![c].start = "taking"]
               /\ UNCHANGED <<line, owner>>
      <4>1. Moves(c, "queued", "taking") /\ Apart({c})
        BY <2>3, <3>3, StartMoves DEF TakeOver
      <4>2. Takes(c)
        BY <2>3, <3>1, <3>3, <4>1 DEF TakeOver, Takes
      <4> QED
        BY <4>2
    <3>4. CASE /\ ~session[c].closed /\ owner # 0 /\ ~session[owner].closed
               /\ session' = [session EXCEPT ![owner] = Disposed(@), ![c].start = "taking"]
               /\ UNCHANGED <<line, owner>>
      <4>1. owner \in Connections /\ session[owner] \in Session
        BY <3>4 DEF TypeOK, Connections
      <4>2. /\ Disposed(session[owner]).start = session[owner].start
            /\ Disposed(session[owner]).closed /\ Disposed(session[owner]).retire = "asked"
            /\ Disposed(session[owner]) \in Session
        BY <4>1, SessionTypes DEF Disposed, Session
      <4>3. CASE owner # c
        <5>1. session'[owner] = Disposed(session[owner])
          BY <3>4, <4>1, <4>3 DEF TypeOK
        <5>2. session'[c] = [session[c] EXCEPT !.start = "taking"]
          BY <3>4, <4>1, <4>3 DEF TypeOK
        <5>3. \A d \in Connections \ {c, owner} : session'[d] = session[d]
          BY <3>4, <4>1, <4>3 DEF TypeOK
        <5>4. Moves(c, "queued", "taking")
          BY <1>2, <2>3, <5>2 DEF TakeOver, Moves, Session
        <5>5. Closes(owner)
          BY <3>4, <4>2, <5>1 DEF Closes, Opened
        <5>6. Takes(c)
          BY <2>3, <3>1, <3>4, <4>3, <5>3, <5>4, <5>5 DEF TakeOver, Takes, Apart, SameLife
        <5> QED
          BY <5>6
      <4>4. owner # c
        BY <2>3, <3>4 DEF TakeOver, Opened
      <4> QED
        BY <4>3, <4>4
    <3> QED
      BY <2>3, <3>2, <3>3, <3>4 DEF TakeOver
  <2>4. CASE Claim(c)
    <3>1. line # <<>> /\ line[1] = c
      BY <2>4 DEF Claim, Lined
    <3> QED
      BY <2>2, <2>4, <3>1 DEF Claim, nativeVars
  <2>5. CASE Launch(c)
    <3>1. CASE session[c].closed
      <4>1. GivesUp(c)
        BY <2>5, <3>1, StartMoves DEF Launch, GivesUp
      <4> QED
        BY <4>1
    <3>2. CASE ~session[c].closed /\ native' = native \cup {<<c, 1>>}
               /\ session' = [session EXCEPT ![c].start = "starting", ![c].query = 1]
      <4>1. session'[c] = [session[c] EXCEPT !.start = "starting", !.query = 1]
            /\ \A d \in Connections \ {c} : session'[d] = session[d]
        BY <3>2 DEF TypeOK
      <4>2. Moves(c, "owned", "starting") /\ Apart({c})
        BY <1>2, <2>5, <4>1 DEF Launch, Moves, Session, Apart, SameLife
      <4>3. Launches(c)
        BY <2>5, <3>2, <4>2 DEF Launch, Launches
      <4> QED
        BY <4>3
    <3>3. CASE ~session[c].closed /\ Finish(c, "exit") /\ native' = native
      <4>1. ClosesOne(c)
        BY <2>5, <3>3, DisposeCloses DEF Launch, Finish, ClosesOne
      <4> QED
        BY <4>1
    <3> QED
      BY <2>5, <3>1, <3>2, <3>3 DEF Launch
  <2>6. CASE Ready(c)
    <3>1. Starts(c)
      BY <2>6, StartMoves DEF Ready, Starts, nativeVars
    <3> QED
      BY <3>1
  <2>7. CASE RetirementEnds(c)
    <3>1. Retires(c)
      BY <1>2, <2>7 DEF RetirementEnds, Retires, TypeOK, Session, Apart, SameLife, nativeVars
    <3> QED
      BY <3>1
  <2> QED
    BY <1>9, <2>1, <2>3, <2>4, <2>5, <2>6, <2>7 DEF Lifecycle
<1>10. ASSUME NEW c \in Connections, Turns(c) \/ ScopeRemoved(c) \/ Rebind(c) PROVE LifeStep
  <2>1. CASE OnMessage(c) /\ Head(up[c]).t # "close"
    <3>1. Apart({})
      BY <2>1, TurnKeepsLife
    <3> QED
      BY <2>1, <3>1 DEF OnMessage, LifeStep, Stays
  <2>2. CASE OnMessage(c) /\ Head(up[c]).t = "close"
    <3>1. CASE session[c].closed
      BY <1>1, <2>2, <3>1 DEF OnMessage, LifeStep, Stays
    <3>2. CASE ~session[c].closed
      <4>1. ClosesOne(c)
        BY <2>2, <3>2, DisposeCloses DEF OnMessage, ClosesOne
      <4> QED
        BY <4>1 DEF LifeStep
    <3> QED
      BY <3>1, <3>2
  <2>3. CASE Drained(c)
    <3>1. Apart({})
      BY <2>3, TurnKeepsLife
    <3>2. CASE native' = native
      BY <2>3, <3>1, <3>2 DEF Drained, LifeStep, Stays
    <3>3. CASE native' # native
      <4>1. Replaces(c)
        BY <2>3, <3>1, <3>3 DEF Drained, Replaces
      <4> QED
        BY <4>1 DEF LifeStep
    <3> QED
      BY <3>2, <3>3
  <2>4. CASE Migrated(c)
    <3>1. Apart({})
      BY <2>4, TurnKeepsLife
    <3> QED
      BY <2>4, <3>1 DEF Migrated, LifeStep, Stays
  <2>5. CASE Rebind(c)
    <3>1. Apart({})
      BY <2>5, TurnKeepsLife
    <3> QED
      BY <2>5, <3>1 DEF Rebind, LifeStep, Stays, nativeVars
  <2>6. ASSUME NEW leg \in {1, 2}, OnResult(c, leg) PROVE LifeStep
    <3>1. Apart({})
      BY <2>6, TurnKeepsLife
    <3> QED
      BY <2>6, <3>1 DEF OnResult, LifeStep, Stays
  <2>7. CASE PumpEnds(c) \/ ScopeRemoved(c)
    <3>1. ClosesOne(c)
      BY <2>7, DisposeCloses DEF PumpEnds, ScopeRemoved, Finish, ClosesOne
    <3> QED
      BY <3>1 DEF LifeStep
  <2> QED
    BY <1>10, <2>1, <2>2, <2>3, <2>4, <2>5, <2>6, <2>7 DEF Turns
<1> QED
  BY <1>3, <1>5, <1>6, <1>7, <1>8, <1>9, <1>10 DEF Next

-----------------------------------------------------------------------------
(* The sockets. *)

\* A sequence holds a message of a kind.
Has(s, kind) == \E i \in 1..Len(s) : s[i].t = kind

LEMMA TailHas ==
    ASSUME NEW S, NEW s \in Seq(S), s # <<>>, NEW kind
    PROVE  /\ Has(Tail(s), kind) => Has(s, kind)
           /\ Has(s, kind) => Head(s).t = kind \/ Has(Tail(s), kind)
           /\ Head(s).t = kind => Has(s, kind)
<1>1. /\ Len(s) \in Nat /\ Len(s) > 0 /\ Head(s) = s[1]
      /\ Len(Tail(s)) = Len(s) - 1 /\ \A i \in 1..Len(Tail(s)) : Tail(s)[i] = s[i + 1]
  BY HeadTailProperties, LenProperties
<1>2. ASSUME NEW i \in 1..Len(s), s[i].t = kind, i # 1
      PROVE  Has(Tail(s), kind)
  <2>1. i - 1 \in 1..Len(Tail(s)) /\ Tail(s)[i - 1] = s[i]
    BY <1>1, <1>2
  <2> QED
    BY <1>2, <2>1 DEF Has
<1>3. ASSUME NEW i \in 1..Len(Tail(s)), Tail(s)[i].t = kind
      PROVE  Has(s, kind)
  <2>1. i + 1 \in 1..Len(s) /\ Tail(s)[i] = s[i + 1]
    BY <1>1
  <2> QED
    BY <1>3, <2>1 DEF Has
<1>4. Head(s).t = kind => Has(s, kind)
  <2>1. 1 \in 1..Len(s)
    BY <1>1
  <2> QED
    BY <1>1, <2>1 DEF Has
<1> QED
  BY <1>1, <1>2, <1>3, <1>4 DEF Has

LEMMA ConcatHas ==
    ASSUME NEW S, NEW s \in Seq(S), NEW e \in Seq(S), NEW kind
    PROVE  Has(s \o e, kind) <=> Has(s, kind) \/ Has(e, kind)
<1>1. /\ Len(s) \in Nat /\ Len(e) \in Nat /\ Len(s \o e) = Len(s) + Len(e)
      /\ \A i \in 1..Len(s) + Len(e) :
            (s \o e)[i] = IF i <= Len(s) THEN s[i] ELSE e[i - Len(s)]
  BY ConcatProperties, LenProperties
<1>2. ASSUME Has(s \o e, kind) PROVE Has(s, kind) \/ Has(e, kind)
  <2>1. PICK i \in 1..Len(s) + Len(e) : (s \o e)[i].t = kind
    BY <1>1, <1>2 DEF Has
  <2>2. CASE i <= Len(s)
    BY <1>1, <2>1, <2>2 DEF Has
  <2>3. CASE i > Len(s)
    <3>1. i - Len(s) \in 1..Len(e) /\ (s \o e)[i] = e[i - Len(s)]
      BY <1>1, <2>3
    <3> QED
      BY <2>1, <3>1 DEF Has
  <2> QED
    BY <1>1, <2>2, <2>3
<1>3. ASSUME Has(s, kind) PROVE Has(s \o e, kind)
  <2>1. PICK i \in 1..Len(s) : s[i].t = kind
    BY <1>3 DEF Has
  <2>2. i \in 1..Len(s \o e) /\ (s \o e)[i] = s[i]
    BY <1>1
  <2> QED
    BY <2>1, <2>2 DEF Has
<1>4. ASSUME Has(e, kind) PROVE Has(s \o e, kind)
  <2>1. PICK i \in 1..Len(e) : e[i].t = kind
    BY <1>4 DEF Has
  <2>2. Len(s) + i \in 1..Len(s \o e) /\ (s \o e)[Len(s) + i] = e[i]
    BY <1>1
  <2> QED
    BY <2>1, <2>2 DEF Has
<1> QED
  BY <1>2, <1>3, <1>4

LEMMA AppendHas ==
    ASSUME NEW S, NEW s \in Seq(S), NEW m \in S, NEW kind
    PROVE  Has(Append(s, m), kind) <=> Has(s, kind) \/ m.t = kind
<1>1. Append(s, m) = s \o <<m>> /\ <<m>> \in Seq(S)
  BY AppendIsConcat
<1>2. Has(<<m>>, kind) <=> m.t = kind
  BY DEF Has
<1>3. Has(s \o <<m>>, kind) <=> Has(s, kind) \/ Has(<<m>>, kind)
  BY <1>1, ConcatHas
<1> QED
  BY <1>1, <1>2, <1>3

\* What the tab is told, and when: a step tells one session's tab something, or
\* the tab takes the next event, or it drops the socket for a new one.
Events(c) ==
    {<<Say("closed")>>, <<Say("exit"), Say("closed")>>, <<Say("removed"), Say("closed")>>}
    \cup {<<[t |-> "turn-end", error |-> e]>> : e \in BOOLEAN}
    \cup {<<Say("turn-start")>>, <<Say("error")>>}
    \cup (IF FirstMessage(c) THEN {<<Say("session-id")>>} ELSE {})
    \cup (IF Ready(c) THEN {<<Say("ready")>>} ELSE {})
Tells == \E c \in Connections : \E e \in Events(c) : down' = Tell(c, e)

LEMMA FirstHas ==
    ASSUME NEW c \in Connections, NEW e \in Events(c)
    PROVE  /\ e \in Seq(ToTab)
           /\ Has(e, "session-id") => FirstMessage(c)
           /\ Has(e, "ready") => Ready(c)
<1>1. ASSUME NEW kind \in {"closed", "turn-start", "error", "session-id", "ready"}, e = <<Say(kind)>>
      PROVE  /\ e \in Seq(ToTab)
             /\ Has(e, "session-id") => kind = "session-id"
             /\ Has(e, "ready") => kind = "ready"
  <2>1. Len(e) = 1 /\ e[1].t = kind
    BY <1>1 DEF Say
  <2>2. e \in Seq(ToTab)
    BY <1>1, MessageTypes
  <2> QED
    BY <2>1, <2>2 DEF Has
<1>2. ASSUME NEW why \in {"exit", "removed"}, e = <<Say(why), Say("closed")>>
      PROVE  e \in Seq(ToTab) /\ ~Has(e, "session-id") /\ ~Has(e, "ready")
  <2>1. Len(e) = 2 /\ e[1].t = why /\ e[2].t = "closed"
    BY <1>2 DEF Say
  <2>2. e \in Seq(ToTab)
    BY <1>2, MessageTypes
  <2> QED
    BY <2>1, <2>2 DEF Has
<1>3. ASSUME NEW error \in BOOLEAN, e = <<[t |-> "turn-end", error |-> error]>>
      PROVE  e \in Seq(ToTab) /\ ~Has(e, "session-id") /\ ~Has(e, "ready")
  <2>1. [t |-> "turn-end", error |-> error] \in ToTab
    BY DEF ToTab
  <2> QED
    BY <1>3, <2>1 DEF Has
<1>4. CASE e \in {<<Say("closed")>>, <<Say("turn-start")>>, <<Say("error")>>}
  BY <1>1, <1>4
<1>5. CASE FirstMessage(c) /\ e = <<Say("session-id")>>
  BY <1>1, <1>5
<1>6. CASE Ready(c) /\ e = <<Say("ready")>>
  BY <1>1, <1>6
<1> QED
  BY <1>2, <1>3, <1>4, <1>5, <1>6 DEF Events

LEMMA DownSteps ==
    ASSUME TypeOK, [Next]_vars
    PROVE  \/ down' = down /\ ~Receive
           \/ Receive
           \/ \E q \in 0..MaxPrompts : Connect(q)
           \/ Tells /\ tab' = tab
<1> DEFINE Goal == \/ down' = down /\ ~Receive
                   \/ Receive
                   \/ \E q \in 0..MaxPrompts : Connect(q)
                   \/ Tells /\ tab' = tab
<1>1. down' = down => Goal
  OBVIOUS
<1>2. ASSUME NEW c \in Connections, NEW e \in Events(c), down' = Tell(c, e), tab' = tab PROVE Goal
  BY <1>2 DEF Tells
<1>3. \A c \in Connections :
         /\ <<Say("turn-start")>> \in Events(c) /\ <<Say("closed")>> \in Events(c)
         /\ <<Say("error")>> \in Events(c)
  BY DEF Events
<1>4. ASSUME NEW c \in Connections, NEW why \in {"exit", "removed"}, Finish(c, why), tab' = tab
      PROVE  Goal
  <2>1. <<Say(why), Say("closed")>> \in Events(c)
    BY DEF Events
  <2> QED
    BY <1>2, <1>4, <2>1 DEF Finish
<1>5. ASSUME NEW c \in Connections, NEW error \in BOOLEAN, tab' = tab,
             down' = Tell(c, <<[t |-> "turn-end", error |-> error]>>)
      PROVE  Goal
  <2>1. <<[t |-> "turn-end", error |-> error]>> \in Events(c)
    BY DEF Events
  <2> QED
    BY <1>2, <1>5, <2>1
<1>6. CASE UNCHANGED vars
  BY <1>1, <1>6 DEF vars
<1>7. CASE User
  <2>1. typed < MaxPrompts => typed + 1 \in 0..MaxPrompts
    BY DEF TypeOK
  <2>2. 0 \in 0..MaxPrompts
    OBVIOUS
  <2>3. ReconnectFromCard \/ ReconnectAfterFatal => Goal
    BY <2>1, <2>2 DEF ReconnectFromCard, ReconnectAfterFatal
  <2> QED
    BY <1>1, <1>7, <2>3 DEF User, Send, EditAndResend, StopTurn, TryAgain, ElsewhereResumes
<1>8. CASE Renderer
  BY <1>1, <1>8 DEF Renderer, Composed
<1>9. CASE Process
  <2>1. ASSUME NEW c \in Connections, FirstMessage(c) PROVE Goal
    <3>1. <<Say("session-id")>> \in Events(c)
      BY <2>1 DEF Events
    <3> QED
      BY <1>2, <2>1, <3>1 DEF FirstMessage
  <2> QED
    BY <1>1, <1>9, <2>1 DEF Process, Answer, ProcessEnds, InterruptLands
<1>10. ASSUME NEW c \in Connections, Lifecycle(c) \/ ScopeRemoved(c) PROVE Goal
  <2>1. CASE Ready(c)
    <3>1. <<Say("ready")>> \in Events(c)
      BY <2>1 DEF Events
    <3> QED
      BY <1>2, <2>1, <3>1 DEF Ready
  <2>2. CASE TakeOver(c)
    <3>1. owner # 0 => owner \in Connections
      BY DEF TypeOK, Connections
    <3> QED
      BY <1>1, <1>2, <1>3, <2>2, <3>1 DEF TakeOver
  <2> QED
    BY <1>1, <1>4, <1>10, <2>1, <2>2
       DEF Lifecycle, Acquire, Claim, Launch, RetirementEnds, ScopeRemoved
<1>11. ASSUME NEW c \in Connections, NEW failed \in BOOLEAN, Settle(c, failed), tab' = tab
       PROVE  Goal
  <2> DEFINE error == failed /\ ~session[c].requested
  <2>1. error = TRUE \/ error = FALSE
    OBVIOUS
  <2> HIDE DEF error
  <2>2. down' = down \/ down' = Tell(c, <<[t |-> "turn-end", error |-> error]>>)
    BY <1>11 DEF Settle, error
  <2> QED
    BY <1>1, <1>5, <1>11, <2>1, <2>2
<1>12. ASSUME NEW c \in Connections, Turns(c) \/ Rebind(c) PROVE Goal
  <2>1. CASE OnMessage(c)
    BY <1>1, <1>2, <1>3, <2>1 DEF OnMessage, OnPrompt
  <2>2. CASE Drained(c)
    BY <1>1, <1>5, <2>2 DEF Drained
  <2>3. ASSUME NEW leg \in {1, 2}, OnResult(c, leg) PROVE Goal
    <3>1. <<c, leg>> \in Processes
      BY DEF Processes
    <3>2. Head(results[<<c, leg>>]) \in Result
      BY <2>3, <3>1, HeadTailProperties DEF OnResult, TypeOK
    <3>3. Head(results[<<c, leg>>]).failed \in BOOLEAN
      BY <3>2 DEF Result
    <3> QED
      BY <1>1, <1>11, <2>3, <3>3 DEF OnResult
  <2> QED
    BY <1>1, <1>4, <1>12, <2>1, <2>2, <2>3 DEF Turns, Migrated, PumpEnds, Rebind
<1>13. ASSUME NEW x \in stops, InterruptAnswered(x) PROVE Goal
  <2>1. tab' = tab
    BY <1>13 DEF InterruptAnswered
  <2> QED
    BY <1>1, <1>5, <1>13, <2>1, InterruptAnsweredSteps
<1> QED
  BY <1>6, <1>7, <1>8, <1>9, <1>10, <1>12, <1>13 DEF Next

-----------------------------------------------------------------------------
(* The tab. *)

\* What changes the tab.
LEMMA TabSteps ==
    ASSUME TypeOK, [Next]_vars
    PROVE  \/ tab' = tab /\ opened' = opened
           \/ Open /\ tab' = tab
           \/ Send \/ EditAndResend \/ TryAgain \/ Composed \/ Receive
           \/ \E q \in 0..MaxPrompts : Connect(q)
<1>1. CASE UNCHANGED vars
  BY <1>1 DEF vars, counters
<1>2. CASE User
  <2>1. typed < MaxPrompts => typed + 1 \in 0..MaxPrompts
    BY DEF TypeOK
  <2>2. 0 \in 0..MaxPrompts
    OBVIOUS
  <2> QED
    BY <1>2, <2>1, <2>2
       DEF User, StopTurn, ReconnectFromCard, ReconnectAfterFatal, ElsewhereResumes
<1>3. CASE Process
  BY <1>3 DEF Process, FirstMessage, Answer, ProcessEnds, InterruptLands, counters
<1>4. ASSUME NEW c \in Connections, Lifecycle(c) \/ ScopeRemoved(c) \/ Rebind(c)
      PROVE  tab' = tab /\ opened' = opened
  BY <1>4 DEF Lifecycle, Acquire, TakeOver, Claim, Launch, Ready, RetirementEnds,
              ScopeRemoved, Rebind, counters
<1>5. ASSUME NEW c \in Connections, Turns(c)
      PROVE  tab' = tab /\ opened' = opened
  BY <1>5 DEF Turns, OnMessage, Drained, Migrated, PumpEnds, OnResult, counters
<1>6. ASSUME NEW x \in stops, InterruptAnswered(x)
      PROVE  tab' = tab /\ opened' = opened
  BY <1>6 DEF InterruptAnswered
<1> QED
  BY <1>1, <1>2, <1>3, <1>4, <1>5, <1>6 DEF Next, Renderer

\* The parts of a tab that an edit of it leaves alone.
SameTab(t, u) == u.conn = t.conn /\ u.known = t.known /\ u.phase = t.phase

LEMMA SubmitFields ==
    ASSUME NEW t \in Tab, NEW q \in Prompts
    PROVE  SameTab(t, Submit(t, q))
BY DEF SameTab, Submit, Compose, Tab

LEMMA NextQueuedFields ==
    ASSUME NEW t \in Tab
    PROVE  SameTab(t, NextQueued(t))
BY DEF SameTab, NextQueued, Compose, Tab

\* What an event makes of the connection, the name and the phase.
LEMMA HandledFields ==
    ASSUME NEW t \in Tab, NEW e \in ToTab
    PROVE  /\ Handled(t, e).conn = t.conn
           /\ Handled(t, e).known <=> t.known \/ e.t = "session-id"
           /\ e.t = "ready" => Handled(t, e).phase = "live"
           /\ e.t \in {"session-id", "turn-start", "turn-end", "error"} =>
                 Handled(t, e).phase = t.phase
           /\ e.t \in {"exit", "removed", "closed"} => Handled(t, e).phase \in {"closed", "retired"}
<1>1. CASE e.t = "ready"
  <2> DEFINE live == [t EXCEPT !.phase = "live", !.retry = 0]
  <2>1. live \in Tab /\ live.conn = t.conn /\ live.known = t.known /\ live.phase = "live"
    <3>1. 0 \in 0..MaxPrompts
      OBVIOUS
    <3> QED
      BY <3>1 DEF Tab
  <2>2. t.retry # 0 => t.retry \in Prompts
    BY DEF Tab, Prompts
  <2>3. t.retry # 0 => SameTab(live, Submit(live, t.retry))
    BY <2>1, <2>2, SubmitFields
  <2>4. Handled(t, e) = (IF t.retry = 0 THEN live ELSE Submit(live, t.retry))
    BY <1>1 DEF Handled
  <2> QED
    BY <1>1, <2>1, <2>3, <2>4 DEF SameTab
<1>2. CASE e.t = "session-id"
  <2>1. Handled(t, e) = [t EXCEPT !.known = TRUE]
    BY <1>2 DEF Handled
  <2> QED
    BY <1>2, <2>1 DEF Tab
<1>3. CASE e.t = "turn-start"
  <2>1. Handled(t, e) = [t EXCEPT !.busy = TRUE, !.ended = FALSE]
    BY <1>3 DEF Handled
  <2> QED
    BY <1>3, <2>1 DEF Tab
<1>4. CASE e.t = "turn-end"
  <2> DEFINE done == [t EXCEPT !.ended = TRUE, !.card = IF e.error THEN t.latest ELSE @]
  <2>1. done \in Tab /\ SameTab(t, done)
    BY DEF Tab, SameTab
  <2>2. SameTab(done, NextQueued(done))
    BY <2>1, NextQueuedFields
  <2>3. Handled(t, e) = IF t.ended THEN t ELSE NextQueued(done)
    BY <1>4 DEF Handled
  <2> QED
    BY <1>4, <2>1, <2>2, <2>3 DEF SameTab
<1>5. CASE e.t = "error"
  BY <1>5 DEF Handled
<1>6. CASE e.t \notin {"ready", "session-id", "turn-start", "turn-end", "error"}
  <2>1. PICK phase \in {"closed", "retired"} : Handled(t, e) = Finished(t, phase)
    BY <1>6 DEF Handled
  <2> QED
    BY <1>6, <2>1 DEF Finished, Tab
<1> QED
  BY <1>1, <1>2, <1>3, <1>4, <1>5, <1>6

\* A tab keeps its connection unless it connects; it learns the name of its transcript,
\* and that it is live, from what it is told.
LEMMA TabFields ==
    ASSUME TypeOK, [Next]_vars
    PROVE  \/ \E q \in 0..MaxPrompts : Connect(q)
           \/ /\ tab'.conn = tab.conn
              /\ tab'.known # tab.known => tab'.known /\ Receive /\ Has(down[tab.conn], "session-id")
              /\ tab'.phase # tab.phase => Receive
              /\ tab'.phase = "live" => tab.phase = "live" \/ Has(down[tab.conn], "ready")
<1>1. tab \in Tab /\ down[tab.conn] \in Seq(ToTab)
  BY DEF TypeOK, Tab
<1>2. CASE Send \/ EditAndResend \/ TryAgain \/ Composed
  <2>1. Send \/ TryAgain => typed + 1 \in Prompts
    BY DEF Send, TryAgain, TypeOK, Prompts
  <2>2. [tab EXCEPT !.card = 0] \in Tab /\ SameTab(tab, [tab EXCEPT !.card = 0])
    <3>1. 0 \in 0..MaxPrompts
      OBVIOUS
    <3> QED
      BY <1>1, <3>1 DEF SameTab, Tab
  <2>3. Send => SameTab(tab, tab')
    BY <1>1, <2>1, SubmitFields DEF Send
  <2>4. TryAgain => SameTab(tab, tab')
    <3>1. TryAgain => SameTab([tab EXCEPT !.card = 0], tab')
      BY <2>1, <2>2, SubmitFields DEF TryAgain
    <3> QED
      BY <2>2, <3>1 DEF SameTab
  <2>5. EditAndResend \/ Composed => SameTab(tab, tab')
    BY <1>1 DEF EditAndResend, Composed, SameTab, Tab
  <2> QED
    BY <1>2, <2>3, <2>4, <2>5 DEF SameTab
<1>3. CASE Receive
  <2> DEFINE e == Head(down[tab.conn])
  <2>1. e \in ToTab /\ tab' = Handled(tab, e)
    BY <1>1, <1>3, HeadTailProperties DEF Receive
  <2>2. \A kind : e.t = kind => Has(down[tab.conn], kind)
    BY <1>1, <1>3, TailHas DEF Receive
  <2>3. e.t \in {"ready", "session-id", "turn-start", "turn-end", "error",
                "exit", "removed", "closed"}
    BY <2>1 DEF ToTab
  <2>4. /\ tab'.conn = tab.conn /\ (tab'.known <=> tab.known \/ e.t = "session-id")
        /\ e.t = "ready" => tab'.phase = "live"
        /\ e.t \in {"session-id", "turn-start", "turn-end", "error"} => tab'.phase = tab.phase
        /\ e.t \in {"exit", "removed", "closed"} => tab'.phase \in {"closed", "retired"}
    BY <1>1, <2>1, HandledFields
  <2>5. tab.known \in BOOLEAN /\ tab'.known \in BOOLEAN
    BY <1>1, <2>1, HandledType DEF Tab
  <2> QED
    BY <1>3, <2>2, <2>3, <2>4, <2>5
<1> QED
  BY <1>2, <1>3, TabSteps

-----------------------------------------------------------------------------
(* The life of the sessions: what every step keeps. *)

\* A session is closed as soon as its query is to be retired.
Ending == \A c \in Connections : session[c].closed <=> session[c].retire # "no"

\* A process works for a session that is up, or about to be, and not yet retired; the
\* second process of a session comes when the first one has gone.
Living ==
    \A p \in native :
        /\ session[p[1]].start \in {"starting", "up"} /\ session[p[1]].retire # "done"
        /\ p[2] = 2 => <<p[1], 1>> \notin native

\* Only a process that lives works, and only a session that is up goes on elsewhere.
Working == \A p \in Processes : running[p] # 0 => p \in native
Migrating == \A c \in Connections : session[c].migrating # "no" => session[c].start = "up"

\* The line loses its head and gains a tail.
LEMMA LinedStep ==
    ASSUME TypeOK, Lined, Opened, [Next]_vars
    PROVE  Lined'
<1>1. line \in Seq(Connections) /\ Len(line) \in Nat
  BY DEF TypeOK
<1>2. LifeStep
  BY LifeSteps
<1>3. ASSUME Apart({}), line' = line PROVE Lined'
  BY <1>3 DEF Lined, Apart, SameLife
<1>4. ASSUME NEW c \in Connections, line' = line, Apart({c}),
             session'[c].start \notin {"queued", "taking"} \/ session'[c].start = session[c].start
      PROVE  Lined'
  BY <1>4 DEF Lined, Apart, SameLife
<1>5. ASSUME NEW c \in Connections, Queues(c) PROVE Lined'
  <2>1. /\ Len(line') = Len(line) + 1 /\ line'[Len(line) + 1] = c
        /\ \A i \in 1..Len(line) : line'[i] = line[i]
    BY <1>1, <1>5, AppendProperties DEF Queues
  <2>2. ASSUME NEW d \in Connections, session'[d].start = "queued"
        PROVE  \E i \in 1..Len(line') : line'[i] = d
    <3>1. CASE d = c
      BY <1>1, <2>1, <3>1
    <3>2. CASE d # c
      <4>1. PICK i \in 1..Len(line) : line[i] = d
        BY <1>5, <2>2, <3>2 DEF Queues, Apart, SameLife, Lined
      <4> QED
        BY <1>1, <2>1, <4>1
    <3> QED
      BY <3>1, <3>2
  <2>3. ASSUME NEW d \in Connections, session'[d].start = "taking"
        PROVE  line' # <<>> /\ line'[1] = d
    <3>1. session[d].start = "taking"
      BY <1>5, <2>3 DEF Queues, Moves, Apart, SameLife
    <3>2. line # <<>> /\ line[1] = d
      BY <3>1 DEF Lined
    <3>3. Len(line) >= 1
      BY <1>1, <3>2, EmptySeq
    <3> QED
      BY <1>1, <2>1, <3>2, <3>3
  <2> QED
    BY <2>2, <2>3 DEF Lined
<1>6. ASSUME NEW c \in Connections, Takes(c) PROVE Lined'
  <2>1. owner \in Connections
    BY <1>6 DEF Takes, TypeOK, Connections
  <2>2. \A d \in Connections \ {c} : session'[d].start = session[d].start
    BY <1>6, <2>1 DEF Takes, Closes, Apart, SameLife
  <2> QED
    BY <1>6, <2>2 DEF Takes, Moves, Lined
<1>7. ASSUME NEW c \in Connections, Resolves(c) PROVE Lined'
  <2>1. /\ Len(line) >= 1 /\ Len(line') = Len(line) - 1
        /\ \A i \in 1..Len(line') : line'[i] = line[i + 1]
    BY <1>1, <1>7, HeadTailProperties, EmptySeq DEF Resolves
  <2>2. ASSUME NEW d \in Connections, d # c, session'[d].start = "queued"
        PROVE  \E i \in 1..Len(line') : line'[i] = d
    <3>1. PICK i \in 1..Len(line) : line[i] = d
      BY <1>7, <2>2 DEF Resolves, Apart, SameLife, Lined
    <3>2. i # 1
      BY <1>7, <2>2, <3>1 DEF Resolves
    <3>3. i - 1 \in 1..Len(line') /\ line'[i - 1] = d
      BY <1>1, <2>1, <3>1, <3>2
    <3> QED
      BY <3>3
  <2>3. ASSUME NEW d \in Connections, d # c PROVE session'[d].start # "taking"
    BY <1>7, <2>3 DEF Resolves, Apart, SameLife, Lined
  <2>4. session'[c].start \notin {"queued", "taking"}
    BY <1>7 DEF Resolves, Moves
  <2> QED
    BY <2>2, <2>3, <2>4 DEF Lined
<1>8. ASSUME NEW c \in Connections,
             Opens(c) \/ GivesUp(c) \/ ClosesOne(c) \/ Launches(c) \/ Starts(c) \/ Retires(c)
      PROVE  Lined'
  BY <1>4, <1>8 DEF Opens, GivesUp, ClosesOne, Launches, Starts, Retires, Moves, Closes
<1> QED
  BY <1>2, <1>3, <1>5, <1>6, <1>7, <1>8 DEF LifeStep, Stays, Owns, Replaces

\* Every step that closes a session asks for its retirement.
LEMMA EndingStep ==
    ASSUME TypeOK, Lined, Opened, Ending, [Next]_vars
    PROVE  Ending'
<1>1. LifeStep
  BY LifeSteps
<1>2. ASSUME Apart({}) PROVE Ending'
  BY <1>2 DEF Apart, SameLife, Ending
<1>3. ASSUME NEW c \in Connections, Apart({c}),
             session'[c].closed <=> session'[c].retire # "no"
      PROVE  Ending'
  BY <1>3 DEF Apart, SameLife, Ending
<1>4. ASSUME NEW c \in Connections, Takes(c) PROVE Ending'
  <2>1. owner \in Connections
    BY <1>4 DEF Takes, TypeOK, Connections
  <2> QED
    BY <1>4, <2>1 DEF Takes, Moves, Closes, Apart, SameLife, Ending
<1>5. ASSUME NEW c \in Connections,
             \/ Opens(c) \/ GivesUp(c) \/ Queues(c) \/ ClosesOne(c) \/ Resolves(c)
             \/ Launches(c) \/ Starts(c) \/ Retires(c)
      PROVE  Ending'
  BY <1>3, <1>5 DEF Opens, GivesUp, Queues, ClosesOne, Resolves, Launches, Starts, Retires,
                    Moves, Closes, Ending
<1> QED
  BY <1>1, <1>2, <1>4, <1>5 DEF LifeStep, Stays, Owns, Replaces

\* A session that is up stays up; nothing starts unless it is opened.
LEMMA UpStays ==
    ASSUME TypeOK, Lined, Opened, Ending, [Next]_vars, NEW d \in Connections
    PROVE  /\ session[d].start = "up" => session'[d].start = "up"
           /\ session[d].start # "none" => session'[d].start # "none"
           /\ session[d].closed => session'[d].closed
           /\ session[d].retire = "done" => session'[d].retire = "done"
<1> DEFINE Kept ==
             /\ session[d].start = "up" => session'[d].start = "up"
             /\ session[d].start # "none" => session'[d].start # "none"
             /\ session[d].closed => session'[d].closed
             /\ session[d].retire = "done" => session'[d].retire = "done"
<1>1. LifeStep
  BY LifeSteps
<1>2. SameLife(d) => Kept
  BY DEF SameLife
<1>3. Closes(d) => Kept
  BY DEF Closes, Ending
<1>4. ASSUME NEW from, NEW to, Moves(d, from, to), from # "up", to # "none" PROVE Kept
  BY <1>4 DEF Moves
<1>5. ASSUME NEW c \in Connections, Takes(c) PROVE Kept
  <2>1. CASE d = c
    BY <1>4, <1>5, <2>1 DEF Takes
  <2>2. CASE d # c
    BY <1>2, <1>3, <1>5, <2>2 DEF Takes, Apart
  <2> QED
    BY <2>1, <2>2
<1>6. ASSUME NEW c \in Connections, Opens(c) PROVE Kept
  <2>1. session[c].start = "none"
    BY <1>6 DEF Opens, Opened, TypeOK, Connections
  <2> QED
    BY <1>2, <1>6, <2>1 DEF Opens, Apart
<1>7. ASSUME NEW c \in Connections, Retires(c) PROVE Kept
  BY <1>2, <1>7 DEF Retires, Apart
<1>8. ASSUME NEW c \in Connections, Resolves(c) PROVE Kept
  BY <1>2, <1>4, <1>8 DEF Resolves, Apart
<1>9. ASSUME NEW c \in Connections,
             GivesUp(c) \/ Queues(c) \/ ClosesOne(c) \/ Launches(c) \/ Starts(c)
      PROVE  Kept
  <2>1. d # c => Kept
    BY <1>2, <1>9 DEF GivesUp, Queues, ClosesOne, Launches, Starts, Apart
  <2>2. CASE d = c
    BY <1>3, <1>4, <1>9, <2>2 DEF GivesUp, Queues, ClosesOne, Launches, Starts
  <2> QED
    BY <2>1, <2>2
<1>10. CASE Apart({})
  BY <1>2, <1>10 DEF Apart
<1> QED
  BY <1>1, <1>5, <1>6, <1>7, <1>8, <1>9, <1>10 DEF LifeStep, Stays, Owns, Replaces

-----------------------------------------------------------------------------
(* The turn of a session: which steps touch it. *)

SameTurn(c) ==
    LET s == session[c]
        t == session'[c]
    IN  /\ t.active = s.active /\ t.requested = s.requested /\ t.gen = s.gen
        /\ t.stop = s.stop /\ t.deferred = s.deferred /\ t.migrating = s.migrating
        /\ t.query = s.query \/ s.start = "owned"
SameWork(c) ==
    /\ \A l \in {1, 2} : /\ running'[<<c, l>>] = running[<<c, l>>]
                          /\ results'[<<c, l>>] = results[<<c, l>>]
    /\ \A x \in stops \cup stops' : x.conn = c => x \in stops /\ x \in stops'
Quiet(c) == SameTurn(c) /\ SameWork(c)
Turning(c) ==
    \/ OnMessage(c) /\ Head(up[c]).t # "close"
    \/ Drained(c) \/ Migrated(c) \/ \E leg \in {1, 2} : OnResult(c, leg)
    \/ \E x \in stops : x.conn = c /\ (InterruptAnswered(x) \/ InterruptLands(x))
    \/ \E l \in {1, 2} : Answer(<<c, l>>) \/ ProcessEnds(<<c, l>>)

\* Steps that leave the turns alone.
LEMMA QuietSteps ==
    ASSUME TypeOK, UNCHANGED <<running, results, stops>>, \A c \in Connections : SameTurn(c)
    PROVE  \A c \in Connections : Quiet(c)
BY DEF Quiet, SameWork

\* A session that is disposed of keeps its turn, and so does one whose start or
\* folder changes.
LEMMA DisposeQuiet ==
    ASSUME TypeOK, NEW c \in Connections, session' = [session EXCEPT ![c] = Disposed(@)]
    PROVE  \A d \in Connections : SameTurn(d)
<1>1. session'[c] = Disposed(session[c]) /\ \A d \in Connections \ {c} : session'[d] = session[d]
  BY OneSession
<1>2. session[c] \in Session
  BY DEF TypeOK
<1> QED
  BY <1>1, <1>2 DEF SameTurn, Disposed, Session

LEMMA EditQuiet ==
    ASSUME TypeOK, NEW c \in Connections, NEW v,
           \/ session' = [session EXCEPT ![c].start = v]
           \/ session' = [session EXCEPT ![c].bound = v]
           \/ session' = [session EXCEPT ![c].retire = v]
    PROVE  \A d \in Connections : SameTurn(d)
<1>1. session[c] \in Session
  BY DEF TypeOK
<1>2. \/ session'[c] = [session[c] EXCEPT !.start = v]
      \/ session'[c] = [session[c] EXCEPT !.bound = v]
      \/ session'[c] = [session[c] EXCEPT !.retire = v]
  BY DEF TypeOK
<1>3. \A d \in Connections \ {c} : session'[d] = session[d]
  BY DEF TypeOK
<1> QED
  BY <1>1, <1>2, <1>3 DEF SameTurn, Session

\* So do the steps of a session's life.
LEMMA LifecycleQuiet ==
    ASSUME TypeOK, Opened, NEW c \in Connections,
           Lifecycle(c) \/ ScopeRemoved(c) \/ Rebind(c) \/ PumpEnds(c)
    PROVE  \A d \in Connections : Quiet(d)
<1> DEFINE Same == \A d \in Connections : SameTurn(d)
<1>1. UNCHANGED <<running, results, stops>>
  BY DEF Lifecycle, Acquire, TakeOver, Claim, Launch, Ready, RetirementEnds, ScopeRemoved,
         Rebind, PumpEnds, nativeVars
<1> SUFFICES Same
  BY <1>1, QuietSteps
<1>2. session' = session => Same
  BY DEF SameTurn
<1>3. \A why \in {"exit", "removed"} : Finish(c, why) => Same
  BY DisposeQuiet DEF Finish
<1>4. Resolve(c) => Same
  BY EditQuiet DEF Resolve
<1>5. CASE Acquire(c)
  BY <1>3, <1>5, EditQuiet DEF Acquire
<1>6. CASE TakeOver(c)
  <2>1. CASE session' = [session EXCEPT ![owner] = Disposed(@), ![c].start = "taking"]
              /\ owner # 0
    <3>1. owner \in Connections /\ session[owner] \in Session /\ session[c] \in Session
      BY <2>1 DEF TypeOK, Connections
    <3>2. session[owner].start # "queued"
      BY <2>1 DEF Opened
    <3>3. owner # c
      BY <1>6, <3>2 DEF TakeOver
    <3>4. /\ session'[owner] = Disposed(session[owner])
          /\ session'[c] = [session[c] EXCEPT !.start = "taking"]
          /\ \A d \in Connections \ {c, owner} : session'[d] = session[d]
      BY <2>1, <3>1, <3>3 DEF TypeOK
    <3>5. SameTurn(owner)
      BY <3>1, <3>4 DEF SameTurn, Disposed, Session
    <3>6. SameTurn(c)
      BY <3>1, <3>4 DEF SameTurn, Session
    <3>7. \A d \in Connections \ {c, owner} : SameTurn(d)
      BY <3>4 DEF SameTurn
    <3> QED
      BY <3>5, <3>6, <3>7
  <2> QED
    BY <1>4, <1>6, <2>1, EditQuiet DEF TakeOver
<1>7. CASE Claim(c) \/ Ready(c) \/ RetirementEnds(c) \/ Rebind(c)
  BY <1>4, <1>7, EditQuiet DEF Claim, Ready, RetirementEnds, Rebind
<1>8. CASE Launch(c)
  <2>1. CASE session[c].start = "owned"
             /\ session' = [session EXCEPT ![c].start = "starting", ![c].query = 1]
    <3>1. /\ session'[c] = [session[c] EXCEPT !.start = "starting", !.query = 1]
          /\ \A d \in Connections \ {c} : session'[d] = session[d]
          /\ session[c] \in Session
      BY <2>1 DEF TypeOK
    <3>2. session[c].start = "owned"
      BY <2>1
    <3>3. SameTurn(c)
      BY <3>1, <3>2 DEF SameTurn, Session
    <3>4. \A d \in Connections \ {c} : SameTurn(d)
      BY <3>1 DEF SameTurn
    <3> QED
      BY <3>3, <3>4
  <2> QED
    BY <1>3, <1>8, <2>1, EditQuiet DEF Launch
<1>9. CASE ScopeRemoved(c) \/ PumpEnds(c)
  BY <1>3, <1>9 DEF ScopeRemoved, PumpEnds
<1> QED
  BY <1>5, <1>6, <1>7, <1>8, <1>9 DEF Lifecycle

\* Only the steps of a session's own turn touch it.
LEMMA TurnSteps ==
    ASSUME TypeOK, Opened, [Next]_vars, NEW d \in Connections
    PROVE  Quiet(d) \/ Turning(d)
<1>1. ASSUME session' = session, UNCHANGED <<running, results, stops>> PROVE Quiet(d)
  BY <1>1, QuietSteps DEF SameTurn
<1>2. CASE UNCHANGED vars
  BY <1>1, <1>2 DEF vars, nativeVars
<1>3. CASE User
  <2>1. ASSUME Open, UNCHANGED nativeVars PROVE Quiet(d)
    <3>1. session[opened + 1] \in Session /\ opened + 1 \in Connections
      BY <2>1 DEF Open, TypeOK, Connections
    <3>2. PICK bound :
            session' = [session EXCEPT ![opened + 1].start = "checking",
                                       ![opened + 1].bound = bound]
      BY <2>1 DEF Open
    <3>3. /\ session'[opened + 1] = [session[opened + 1] EXCEPT !.start = "checking",
                                                              !.bound = bound]
          /\ \A c \in Connections \ {opened + 1} : session'[c] = session[c]
      BY <3>1, <3>2 DEF TypeOK
    <3> QED
      BY <2>1, <3>1, <3>3, QuietSteps DEF SameTurn, Session, nativeVars
  <2> QED
    BY <1>1, <1>3, <2>1
       DEF User, Send, EditAndResend, StopTurn, TryAgain, ReconnectFromCard,
           ReconnectAfterFatal, ElsewhereResumes, Connect, nativeVars
<1>4. CASE Renderer
  BY <1>1, <1>4 DEF Renderer, Composed, Receive, nativeVars
<1>5. CASE Process
  <2>1. ASSUME NEW c \in Connections, FirstMessage(c) PROVE Quiet(d)
    BY <1>1, <2>1 DEF FirstMessage, nativeVars
  <2>2. ASSUME NEW p \in Processes, Answer(p) \/ ProcessEnds(p) PROVE Quiet(d) \/ Turning(d)
    <3>1. PICK c \in Connections, l \in {1, 2} : p = <<c, l>>
      BY DEF Processes
    <3>2. CASE c = d
      BY <2>2, <3>1, <3>2 DEF Turning
    <3>3. CASE c # d
      <4>1. \A k \in {1, 2} : /\ running'[<<d, k>>] = running[<<d, k>>]
                               /\ results'[<<d, k>>] = results[<<d, k>>]
        BY <2>2, <3>1, <3>3 DEF Answer, ProcessEnds, TypeOK, Processes
      <4>2. session' = session /\ stops' = stops
        BY <2>2 DEF Answer, ProcessEnds
      <4> QED
        BY <4>1, <4>2 DEF Quiet, SameTurn, SameWork
    <3> QED
      BY <3>2, <3>3
  <2>3. ASSUME NEW x \in stops, InterruptLands(x) PROVE Quiet(d) \/ Turning(d)
    <3>1. CASE x.conn = d
      BY <2>3, <3>1 DEF Turning
    <3>2. CASE x.conn # d
      <4>1. x \in Stop
        BY DEF TypeOK
      <4>2. [x EXCEPT !.landed = TRUE].conn = x.conn
        BY <4>1 DEF Stop
      <4>3. \A y \in stops \cup stops' : y.conn = d => y \in stops /\ y \in stops'
        BY <2>3, <3>2, <4>2 DEF InterruptLands
      <4>4. \A k \in {1, 2} : /\ running'[<<d, k>>] = running[<<d, k>>]
                               /\ results'[<<d, k>>] = results[<<d, k>>]
        BY <2>3, <3>2, <4>1 DEF InterruptLands, TypeOK, Processes, Stop
      <4> QED
        BY <2>3, <4>3, <4>4 DEF Quiet, SameTurn, SameWork, InterruptLands
    <3> QED
      BY <3>1, <3>2
  <2> QED
    BY <1>5, <2>1, <2>2, <2>3 DEF Process
<1>6. ASSUME NEW c \in Connections, Lifecycle(c) \/ ScopeRemoved(c) \/ Rebind(c) \/ PumpEnds(c)
      PROVE  Quiet(d)
  BY <1>6, LifecycleQuiet
<1>7. ASSUME NEW c \in Connections, OnMessage(c) PROVE Quiet(d) \/ Turning(d)
  <2>1. CASE Head(up[c]).t = "close"
    <3>1. session' = session \/ session' = [session EXCEPT ![c] = Disposed(@)]
      BY <1>7, <2>1 DEF OnMessage
    <3>2. UNCHANGED <<running, results, stops>>
      BY <1>7, <2>1 DEF OnMessage
    <3> QED
      BY <1>1, <3>1, <3>2, DisposeQuiet, QuietSteps
  <2>2. CASE Head(up[c]).t # "close" /\ c # d
    <3>1. UNCHANGED results /\ \A e \in Connections \ {c} : session'[e] = session[e]
      BY <1>7, <2>2 DEF OnMessage, OnPrompt, OnInterrupt, TypeOK
    <3>2. \A l \in {1, 2} : running'[<<d, l>>] = running[<<d, l>>]
      <4>1. CASE running' = running
        BY <4>1
      <4>2. CASE Push(c, session[c].query, Head(up[c]).prompt)
        BY <2>2, <4>2 DEF Push, TypeOK, Processes
      <4> QED
        BY <1>7, <4>1, <4>2 DEF OnMessage, OnPrompt
    <3>3. \A x \in stops \cup stops' : x.conn = d => x \in stops /\ x \in stops'
      BY <1>7, <2>2 DEF OnMessage, OnInterrupt
    <3> QED
      BY <3>1, <3>2, <3>3, <2>2 DEF Quiet, SameTurn, SameWork
  <2>3. CASE Head(up[c]).t # "close" /\ c = d
    BY <1>7, <2>3 DEF Turning
  <2> QED
    BY <2>1, <2>2, <2>3
<1>8. ASSUME NEW c \in Connections,
             Drained(c) \/ Migrated(c) \/ \E leg \in {1, 2} : OnResult(c, leg)
      PROVE  Quiet(d) \/ Turning(d)
  <2>1. CASE c = d
    BY <1>8, <2>1 DEF Turning
  <2>2. CASE c # d
    <3>1. UNCHANGED stops /\ session'[d] = session[d]
      BY <1>8, <2>2 DEF Drained, Migrated, OnResult, Settle, TypeOK
    <3>2. \A l \in {1, 2} : running'[<<d, l>>] = running[<<d, l>>]
      BY <1>8, <2>2 DEF Drained, Migrated, OnResult, Push, TypeOK, Processes
    <3>3. \A l \in {1, 2} : results'[<<d, l>>] = results[<<d, l>>]
      BY <1>8, <2>2 DEF Drained, Migrated, OnResult, TypeOK, Processes
    <3> QED
      BY <3>1, <3>2, <3>3 DEF Quiet, SameTurn, SameWork
  <2> QED
    BY <2>1, <2>2
<1>9. ASSUME NEW x \in stops, InterruptAnswered(x) PROVE Quiet(d) \/ Turning(d)
  <2>1. CASE x.conn = d
    BY <1>9, <2>1 DEF Turning
  <2>2. CASE x.conn # d
    <3>1. /\ x.conn \in Connections
          /\ \/ session' = [session EXCEPT ![x.conn] =
                              [Answered(x) EXCEPT !.active = FALSE, !.requested = FALSE]]
             \/ session' = [session EXCEPT ![x.conn] = Answered(x)]
      BY <1>9, InterruptAnsweredSteps
    <3>2. session'[d] = session[d]
      BY <2>2, <3>1, OneSession
    <3> QED
      BY <1>9, <2>2, <3>2 DEF InterruptAnswered, Quiet, SameTurn, SameWork
  <2> QED
    BY <2>1, <2>2
<1> QED
  BY <1>2, <1>3, <1>4, <1>5, <1>6, <1>7, <1>8, <1>9 DEF Next, Turns

-----------------------------------------------------------------------------
(* The turn of a session: what the steps make of it. *)

\* The turn part of session c after a step: the flags, the query and the migration.
Turned(c, active, requested, gen, stop, deferred) ==
    LET t == session'[c]
    IN  /\ t.active = active /\ t.requested = requested /\ t.gen = gen
        /\ t.stop = stop /\ t.deferred = deferred
Kept(c) == LET s == session[c] IN Turned(c, s.active, s.requested, s.gen, s.stop, s.deferred)
Sited(c, query, migrating) ==
    session'[c].query = query /\ session'[c].migrating = migrating
SameSite(c) == Sited(c, session[c].query, session[c].migrating)

\* A prompt that begins a turn, at once or after a migration; a message that changes
\* nothing, though a prompt may be refused with an error; the first interrupt of a turn.
Begins(c, q) ==
    LET s == session[c]
    IN  /\ ~s.closed /\ ~s.active /\ Turned(c, TRUE, FALSE, q, s.stop, s.deferred)
        /\ \/ SameSite(c) /\ Push(c, s.query, q)
           \/ Sited(c, 0, "draining") /\ running' = running
        /\ down' = Tell(c, <<Say("turn-start")>>) /\ stops' = stops
Passes(c) ==
    /\ Head(up[c]).t = "prompt" => session[c].closed \/ session[c].active \/ SkillsVanish
    /\ Kept(c) /\ SameSite(c) /\ UNCHANGED <<running, stops>>
    /\ down' = down \/ (Head(up[c]).t = "prompt" /\ down' = Tell(c, <<Say("error")>>))
Asks(c) ==
    LET s == session[c]
    IN  /\ s.active /\ s.query # 0 /\ ~s.requested /\ ~s.closed
        /\ Turned(c, s.active, TRUE, s.gen, s.gen, s.deferred) /\ SameSite(c)
        /\ stops' = stops \cup {[conn |-> c, leg |-> s.query, prompt |-> s.gen,
                                 landed |-> FALSE]}
        /\ UNCHANGED <<running, down>>

LEMMA MessageEffects ==
    ASSUME TypeOK, NEW c \in Connections, OnMessage(c), Head(up[c]).t # "close"
    PROVE  /\ results' = results /\ native' = native
           /\ \/ \E q \in Prompts : Head(up[c]).t = "prompt" /\ Head(up[c]).prompt = q /\ Begins(c, q)
              \/ Passes(c)
              \/ Head(up[c]).t = "interrupt" /\ Asks(c)
<1> DEFINE s == session[c]
           m == Head(up[c])
<1>1. s \in Session /\ m \in ToServer
  BY HeadTailProperties DEF OnMessage, TypeOK
<1>2. results' = results /\ native' = native
  BY DEF OnMessage
<1>3. session' = session => Kept(c) /\ SameSite(c)
  BY DEF Kept, Turned, SameSite, Sited
<1>4. CASE m.t = "prompt" /\ OnPrompt(c, m.prompt) /\ stops' = stops
  <2>1. m.prompt \in Prompts
    BY <1>1, <1>4, MessageTypes
  <2> DEFINE begun == [s EXCEPT !.active = TRUE, !.gen = m.prompt, !.requested = FALSE]
             moved == [begun EXCEPT !.migrating = "draining", !.query = 0]
  <2>2. m.prompt \in 0..MaxPrompts
    BY <2>1 DEF Prompts
  <2>3. /\ begun \in Session /\ begun.active /\ ~begun.requested /\ begun.gen = m.prompt
        /\ begun.active = TRUE /\ begun.requested = FALSE
        /\ begun.stop = s.stop /\ begun.deferred = s.deferred
        /\ begun.query = s.query /\ begun.migrating = s.migrating
    BY <1>1, <2>2 DEF Session
  <2>4. /\ moved.active = TRUE /\ moved.requested = FALSE /\ moved.gen = m.prompt
        /\ moved.stop = s.stop /\ moved.deferred = s.deferred
        /\ moved.query = 0 /\ moved.migrating = "draining"
    BY <2>3 DEF Session
  <2> HIDE DEF begun, moved
  <2>5. CASE (s.closed \/ s.active) /\ UNCHANGED <<session, told, running, down>>
    BY <1>2, <1>3, <1>4, <2>5 DEF Passes
  <2>8. CASE /\ SkillsVanish /\ down' = Tell(c, <<Say("error")>>)
             /\ UNCHANGED <<session, told, running>>
    BY <1>2, <1>3, <1>4, <2>8 DEF Passes
  <2>6. CASE /\ ~s.closed /\ ~s.active
             /\ session' = [session EXCEPT ![c] = begun]
             /\ Push(c, s.query, m.prompt)
             /\ down' = Tell(c, <<Say("turn-start")>>)
    <3>1. session'[c] = begun
      BY <2>6, OneSession
    <3>2. Turned(c, TRUE, FALSE, m.prompt, s.stop, s.deferred) /\ SameSite(c)
      BY <2>3, <3>1 DEF Turned, SameSite, Sited
    <3>3. Begins(c, m.prompt)
      BY <1>4, <2>6, <3>2 DEF Begins
    <3> QED
      BY <1>2, <1>4, <2>1, <3>3
  <2>7. CASE /\ ~s.closed /\ ~s.active
             /\ session' = [session EXCEPT ![c] = moved]
             /\ down' = Tell(c, <<Say("turn-start")>>) /\ running' = running
    <3>1. session'[c] = moved
      BY <2>7, OneSession
    <3>2. Turned(c, TRUE, FALSE, m.prompt, s.stop, s.deferred) /\ Sited(c, 0, "draining")
      BY <2>4, <3>1 DEF Turned, Sited
    <3>3. Begins(c, m.prompt)
      BY <1>4, <2>7, <3>2 DEF Begins
    <3> QED
      BY <1>2, <1>4, <2>1, <3>3
  <2> QED
    BY <1>4, <2>5, <2>6, <2>7, <2>8 DEF OnPrompt, begun, moved
<1>5. CASE m.t = "interrupt" /\ OnInterrupt(c) /\ UNCHANGED <<told, running, down>>
  <2> DEFINE asked == [s EXCEPT !.requested = TRUE, !.stop = s.gen]
  <2>1. CASE UNCHANGED <<session, stops>>
    BY <1>2, <1>3, <1>5, <2>1 DEF Passes
  <2>2. CASE /\ s.active /\ s.query # 0 /\ ~s.requested /\ ~s.closed
             /\ session' = [session EXCEPT ![c].requested = TRUE, ![c].stop = s.gen]
             /\ stops' = stops \cup {[conn |-> c, leg |-> s.query, prompt |-> s.gen,
                                     landed |-> FALSE]}
    <3>1. session'[c] = asked
      BY <2>2 DEF TypeOK
    <3>2. Turned(c, s.active, TRUE, s.gen, s.gen, s.deferred) /\ SameSite(c)
      BY <1>1, <3>1 DEF Turned, SameSite, Sited, Session
    <3>3. Asks(c)
      BY <1>5, <2>2, <3>2 DEF Asks
    <3> QED
      BY <1>2, <1>5, <3>3
  <2> QED
    BY <1>5, <2>1, <2>2 DEF OnInterrupt
<1> QED
  BY <1>1, <1>4, <1>5 DEF OnMessage

\* A migration that ends without a session, goes on, or fails.
Leaves(c) == Kept(c) /\ Sited(c, session[c].query, "no") /\ down' = down
GoesOn(c) == ~session[c].closed /\ Kept(c) /\ Sited(c, 2, "skills") /\ down' = down
Breaks(c) ==
    LET s == session[c]
    IN  /\ ~s.closed /\ Turned(c, FALSE, s.requested, s.gen, s.stop, s.deferred)
        /\ Sited(c, s.query, "no")
        /\ \E e \in BOOLEAN : down' = Tell(c, <<[t |-> "turn-end", error |-> e]>>)

LEMMA DrainEffects ==
    ASSUME TypeOK, NEW c \in Connections, Drained(c)
    PROVE  /\ UNCHANGED <<running, results, stops>> /\ session[c].migrating = "draining"
           /\ (Leaves(c) /\ session[c].closed) \/ GoesOn(c) \/ Breaks(c)
<1> DEFINE s == session[c]
           left == [s EXCEPT !.migrating = "no"]
           next == [s EXCEPT !.migrating = "skills", !.query = 2, !.bound = "folder"]
           broken == [s EXCEPT !.migrating = "no", !.active = FALSE]
<1>1. s \in Session
  BY DEF TypeOK
<1>2. /\ left.active = s.active /\ left.requested = s.requested /\ left.gen = s.gen
      /\ left.stop = s.stop /\ left.deferred = s.deferred
      /\ left.query = s.query /\ left.migrating = "no"
  BY <1>1 DEF Session
<1>3. /\ next.active = s.active /\ next.requested = s.requested /\ next.gen = s.gen
      /\ next.stop = s.stop /\ next.deferred = s.deferred
      /\ next.query = 2 /\ next.migrating = "skills"
  BY <1>1 DEF Session
<1>4. /\ broken.active = FALSE /\ broken.requested = s.requested /\ broken.gen = s.gen
      /\ broken.stop = s.stop /\ broken.deferred = s.deferred
      /\ broken.query = s.query /\ broken.migrating = "no"
  BY <1>1 DEF Session
<1> HIDE DEF left, next, broken
<1>5. \/ s.closed /\ session' = [session EXCEPT ![c] = left] /\ down' = down
      \/ ~s.closed /\ session' = [session EXCEPT ![c] = next] /\ down' = down
      \/ /\ ~s.closed /\ session' = [session EXCEPT ![c] = broken]
         /\ down' = Tell(c, <<[t |-> "turn-end", error |-> TRUE]>>)
  BY DEF Drained, TypeOK, left, next, broken
<1>6. CASE s.closed /\ session'[c] = left /\ down' = down
  BY <1>2, <1>6 DEF Drained, Leaves, Kept, Turned, Sited
<1>7. CASE ~s.closed /\ session'[c] = next /\ down' = down
  BY <1>3, <1>7 DEF Drained, GoesOn, Kept, Turned, Sited
<1>8. CASE /\ ~s.closed /\ session'[c] = broken
           /\ down' = Tell(c, <<[t |-> "turn-end", error |-> TRUE]>>)
  BY <1>4, <1>8 DEF Drained, Breaks, Turned, Sited
<1> QED
  BY <1>5, <1>6, <1>7, <1>8, OneSession

\* The prompt that waited for the migration reaches the new process.
LEMMA MigratedEffects ==
    ASSUME TypeOK, NEW c \in Connections, Migrated(c)
    PROVE  /\ UNCHANGED <<results, stops>> /\ session[c].migrating = "skills" /\ Leaves(c)
           /\ running' = running \/ Push(c, 2, session[c].gen)
<1>1. session[c] \in Session /\ session'[c] = [session[c] EXCEPT !.migrating = "no"]
  BY DEF TypeOK, Migrated
<1>2. Leaves(c)
  BY <1>1 DEF Migrated, Leaves, Kept, Turned, Sited, Session
<1> QED
  BY <1>2 DEF Migrated

\* A result that waits for an interrupt, ends the turn, or comes after it.
Defers(c) ==
    LET s == session[c]
    IN  /\ s.stop # 0 /\ down' = down
        /\ \E failed \in BOOLEAN :
              Turned(c, s.active, s.requested, s.gen, s.stop,
                     [prompt |-> s.gen, failed |-> failed])
Settles(c) ==
    /\ session[c].active /\ Turned(c, FALSE, FALSE, session[c].gen, 0, NoResult)
    /\ \E e \in BOOLEAN : down' = Tell(c, <<[t |-> "turn-end", error |-> e]>>)
Discards(c) == ~session[c].active /\ Kept(c) /\ down' = down

LEMMA ResultEffects ==
    ASSUME TypeOK, NEW c \in Connections, NEW leg \in {1, 2}, OnResult(c, leg)
    PROVE  /\ UNCHANGED <<running, stops>> /\ results[<<c, leg>>] # <<>> /\ SameSite(c)
           /\ results' = [results EXCEPT ![<<c, leg>>] = Tail(@)]
           /\ Defers(c) \/ (session[c].stop = 0 /\ (Settles(c) \/ Discards(c)))
<1> DEFINE s == session[c]
           failed == Head(results[<<c, leg>>]).failed
           waiting == [s EXCEPT !.deferred = [prompt |-> s.gen, failed |-> failed]]
           settled == [s EXCEPT !.active = FALSE, !.requested = FALSE, !.stop = 0,
                                !.deferred = NoResult]
           error == failed /\ ~s.requested
<1>1. s \in Session
  BY DEF TypeOK
<1>2. failed \in BOOLEAN
  <2>1. <<c, leg>> \in Processes
    BY DEF Processes
  <2>2. Head(results[<<c, leg>>]) \in Result
    BY <2>1, HeadTailProperties DEF OnResult, TypeOK
  <2> QED
    BY <2>2 DEF Result
<1>3. error = TRUE \/ error = FALSE
  OBVIOUS
<1>4. /\ waiting.active = s.active /\ waiting.requested = s.requested /\ waiting.gen = s.gen
      /\ waiting.stop = s.stop /\ waiting.deferred = [prompt |-> s.gen, failed |-> failed]
      /\ waiting.query = s.query /\ waiting.migrating = s.migrating
  BY <1>1 DEF Session
<1>5. /\ settled.active = FALSE /\ settled.requested = FALSE /\ settled.gen = s.gen
      /\ settled.stop = 0 /\ settled.deferred = NoResult
      /\ settled.query = s.query /\ settled.migrating = s.migrating
  BY <1>1 DEF Session
<1>6. /\ UNCHANGED <<running, stops>> /\ results[<<c, leg>>] # <<>>
      /\ results' = [results EXCEPT ![<<c, leg>>] = Tail(@)]
  BY DEF OnResult
<1> HIDE DEF waiting, settled, error
<1>7. \/ s.stop # 0 /\ session' = [session EXCEPT ![c] = waiting] /\ down' = down
      \/ /\ s.stop = 0 /\ s.active /\ session' = [session EXCEPT ![c] = settled]
         /\ down' = Tell(c, <<[t |-> "turn-end", error |-> error]>>)
      \/ s.stop = 0 /\ ~s.active /\ session' = session /\ down' = down
  BY DEF OnResult, Settle, TypeOK, waiting, settled, error
<1>8. CASE s.stop # 0 /\ session'[c] = waiting /\ down' = down
  <2>1. Defers(c) /\ SameSite(c)
    BY <1>2, <1>4, <1>8 DEF Defers, Turned, SameSite, Sited
  <2> QED
    BY <1>6, <2>1
<1>9. CASE /\ s.stop = 0 /\ s.active /\ session'[c] = settled
           /\ down' = Tell(c, <<[t |-> "turn-end", error |-> error]>>)
  <2>1. Settles(c) /\ SameSite(c)
    BY <1>3, <1>5, <1>9 DEF Settles, Turned, SameSite, Sited
  <2> QED
    BY <1>6, <1>9, <2>1
<1>10. CASE s.stop = 0 /\ ~s.active /\ session' = session /\ down' = down
  BY <1>6, <1>10 DEF Discards, Kept, Turned, SameSite, Sited
<1> QED
  BY <1>7, <1>8, <1>9, <1>10, OneSession

\* The answer to an interrupt: the turn goes on, or the result that waited ends it.
LEMMA AnswerEffects ==
    ASSUME TypeOK, NEW x \in stops, InterruptAnswered(x)
    PROVE  LET c == x.conn
               s == session[c]
           IN  /\ UNCHANGED <<running, results, native>> /\ stops' = stops \ {x} /\ SameSite(c)
               /\ \/ /\ Deferring(s)
                     /\ Turned(c, FALSE, FALSE, s.gen, IF s.stop = x.prompt THEN 0 ELSE s.stop,
                               NoResult)
                     /\ \E e \in BOOLEAN : down' = Tell(c, <<[t |-> "turn-end", error |-> e]>>)
                  \/ /\ ~Deferring(s) /\ down' = down
                     /\ \E requested \in {s.requested, FALSE} :
                          Turned(c, s.active, requested, s.gen,
                                 IF s.stop = x.prompt THEN 0 ELSE s.stop, NoResult)
<1> DEFINE c == x.conn
           s == session[c]
           stop == IF s.stop = x.prompt THEN 0 ELSE s.stop
           ended == [Answered(x) EXCEPT !.active = FALSE, !.requested = FALSE]
<1>1. c \in Connections /\ s \in Session /\ Answered(x) \in Session /\ stops' = stops \ {x}
  BY InterruptAnsweredSteps DEF TypeOK
<1>2. UNCHANGED <<running, results, native>>
  BY DEF InterruptAnswered
<1>3. /\ Answered(x).active = s.active /\ Answered(x).gen = s.gen /\ Answered(x).stop = stop
      /\ Answered(x).deferred = NoResult /\ Answered(x).requested \in {s.requested, FALSE}
      /\ Answered(x).query = s.query /\ Answered(x).migrating = s.migrating
  BY <1>1 DEF Answered, Session
<1>4. /\ ended.active = FALSE /\ ended.requested = FALSE /\ ended.gen = s.gen
      /\ ended.stop = stop /\ ended.deferred = NoResult
      /\ ended.query = s.query /\ ended.migrating = s.migrating
  BY <1>1, <1>3 DEF Session
<1> HIDE DEF ended
<1>5. CASE /\ Deferring(s) /\ session' = [session EXCEPT ![c] = ended]
           /\ \E e \in BOOLEAN : down' = Tell(c, <<[t |-> "turn-end", error |-> e]>>)
  <2>1. session'[c] = ended
    BY <1>1, <1>5, OneSession
  <2>2. Turned(c, FALSE, FALSE, s.gen, stop, NoResult) /\ SameSite(c)
    BY <1>4, <2>1 DEF Turned, SameSite, Sited
  <2> QED
    BY <1>1, <1>2, <1>5, <2>2
<1>6. CASE ~Deferring(s) /\ session' = [session EXCEPT ![c] = Answered(x)] /\ down' = down
  <2>1. session'[c] = Answered(x)
    BY <1>1, <1>6, OneSession
  <2>2. Turned(c, s.active, Answered(x).requested, s.gen, stop, NoResult) /\ SameSite(c)
    BY <1>3, <2>1 DEF Turned, SameSite, Sited
  <2> QED
    BY <1>1, <1>2, <1>3, <1>6, <2>2
<1> QED
  BY <1>5, <1>6, InterruptAnsweredSteps DEF ended

-----------------------------------------------------------------------------
(* What passes on the sockets. *)

\* Only the tab's own socket gains a message, and its session takes the first one.
LEMMA UpSteps ==
    ASSUME TypeOK, [Next]_vars, NEW c \in Connections
    PROVE  \/ up'[c] = up[c]
           \/ c = tab.conn /\ (StopTurn \/ EditAndResend) /\ up'[c] = Append(up[c], Say("interrupt"))
           \/ /\ c = tab.conn /\ Composed /\ tab.phase = "live" /\ tab.composing # 0
              /\ up'[c] = Append(up[c], [t |-> "prompt", prompt |-> tab.composing])
           \/ /\ c = tab.conn /\ \E q \in 0..MaxPrompts : Connect(q)
              /\ up'[c] = Append(up[c], Say("close"))
           \/ OnMessage(c) /\ up[c] # <<>> /\ up'[c] = Tail(up[c])
<1>1. tab.conn \in Connections
  BY DEF TypeOK, Tab
<1>2. CASE UNCHANGED vars
  BY <1>2 DEF vars
<1>3. CASE User
  <2>1. CASE StopTurn \/ EditAndResend
    BY <1>1, <2>1 DEF StopTurn, EditAndResend, TypeOK
  <2>2. CASE Send \/ TryAgain \/ ElsewhereResumes
    BY <2>2 DEF Send, TryAgain, ElsewhereResumes
  <2>3. ASSUME NEW q \in 0..MaxPrompts, Connect(q)
        PROVE  \/ up'[c] = up[c]
               \/ c = tab.conn /\ up'[c] = Append(up[c], Say("close"))
    BY <1>1, <2>3 DEF Connect, TypeOK
  <2>4. ReconnectFromCard \/ ReconnectAfterFatal => \E q \in 0..MaxPrompts : Connect(q)
    <3>1. 0 \in 0..MaxPrompts /\ (typed < MaxPrompts => typed + 1 \in 0..MaxPrompts)
      BY DEF TypeOK
    <3> QED
      BY <3>1 DEF ReconnectFromCard, ReconnectAfterFatal
  <2> QED
    BY <1>3, <2>1, <2>2, <2>3, <2>4 DEF User
<1>4. CASE Renderer
  BY <1>1, <1>4 DEF Renderer, Composed, Receive, TypeOK
<1>5. CASE Process
  BY <1>5 DEF Process, FirstMessage, Answer, ProcessEnds, InterruptLands
<1>6. ASSUME NEW d \in Connections, Lifecycle(d) \/ ScopeRemoved(d) \/ Rebind(d)
      PROVE  up' = up
  BY <1>6 DEF Lifecycle, Acquire, TakeOver, Claim, Launch, Ready, RetirementEnds,
              ScopeRemoved, Rebind
<1>7. ASSUME NEW d \in Connections, Turns(d), ~OnMessage(d) PROVE up' = up
  BY <1>7 DEF Turns, Drained, Migrated, PumpEnds, OnResult
<1>8. ASSUME NEW d \in Connections, OnMessage(d)
      PROVE  up'[c] = up[c] \/ (OnMessage(c) /\ up[c] # <<>> /\ up'[c] = Tail(up[c]))
  BY <1>8 DEF OnMessage, TypeOK
<1>9. ASSUME NEW x \in stops, InterruptAnswered(x) PROVE up' = up
  BY <1>9 DEF InterruptAnswered
<1> QED
  BY <1>2, <1>3, <1>4, <1>5, <1>6, <1>7, <1>8, <1>9 DEF Next

\* What a session has told its tab was there before, or is told now.
LEMMA Told ==
    ASSUME TypeOK, [Next]_vars, NEW c \in Connections, NEW kind, Has(down'[c], kind)
    PROVE  Has(down[c], kind) \/ \E e \in Events(c) : Has(e, kind)
<1>1. tab.conn \in Connections /\ down[c] \in Seq(ToTab)
  BY DEF TypeOK, Tab
<1>2. CASE down' = down
  BY <1>2
<1>3. CASE Receive
  <2>1. CASE c = tab.conn
    <3>1. down'[c] = Tail(down[c]) /\ down[c] # <<>>
      BY <1>1, <1>3, <2>1 DEF Receive, TypeOK
    <3> QED
      BY <1>1, <3>1, TailHas
  <2>2. CASE c # tab.conn
    BY <1>3, <2>2 DEF Receive, TypeOK
  <2> QED
    BY <2>1, <2>2
<1>4. ASSUME NEW q \in 0..MaxPrompts, Connect(q)
      PROVE  Has(down[c], kind)
  <2>1. CASE c = tab.conn
    <3>1. down'[c] = <<>>
      BY <1>1, <1>4, <2>1 DEF Connect, TypeOK
    <3> QED
      BY <3>1 DEF Has
  <2>2. CASE c # tab.conn
    BY <1>4, <2>2 DEF Connect, TypeOK
  <2> QED
    BY <2>1, <2>2
<1>5. ASSUME NEW d \in Connections, NEW e \in Events(d), down' = Tell(d, e)
      PROVE  Has(down[c], kind) \/ \E f \in Events(c) : Has(f, kind)
  <2>1. CASE down'[c] = down[c]
    BY <2>1
  <2>2. CASE c = d /\ down'[c] = down[c] \o e
    <3>1. e \in Seq(ToTab)
      BY FirstHas
    <3>2. Has(down[c] \o e, kind) <=> Has(down[c], kind) \/ Has(e, kind)
      BY <1>1, <3>1, ConcatHas
    <3> QED
      BY <1>5, <2>2, <3>2
  <2> QED
    BY <1>5, <2>1, <2>2 DEF Tell, TypeOK
<1> QED
  BY <1>2, <1>3, <1>4, <1>5, DownSteps DEF Tells

\* The tab is live, and sends prompts, only when its session is up, or was.
Prompted ==
    /\ tab.phase = "live" => session[tab.conn].start = "up"
    /\ \A c \in Connections :
          Has(up[c], "prompt") \/ Has(down[c], "ready") => session[c].start = "up"

LEMMA PromptedStep ==
    ASSUME TypeOK, Lined, Opened, Ending, Prompted, [Next]_vars
    PROVE  Prompted'
<1>1. \A c \in Connections : session[c].start = "up" => session'[c].start = "up"
  BY UpStays
<1>2. tab.conn \in Connections
  BY DEF TypeOK, Tab
<1>3. ASSUME tab'.phase = "live" PROVE session'[tab'.conn].start = "up"
  <2>1. \A q \in 0..MaxPrompts : ~Connect(q)
    BY <1>3 DEF Connect, TypeOK, Tab
  <2>2. tab'.conn = tab.conn /\ (tab.phase = "live" \/ Has(down[tab.conn], "ready"))
    BY <1>3, <2>1, TabFields
  <2> QED
    BY <1>1, <1>2, <2>2 DEF Prompted
<1>4. ASSUME NEW c \in Connections, Has(up'[c], "prompt") PROVE session'[c].start = "up"
  <2>1. up[c] \in Seq(ToServer) /\ Say("interrupt") \in ToServer /\ Say("close") \in ToServer
    BY MessageTypes DEF TypeOK
  <2>2. Say("interrupt").t # "prompt" /\ Say("close").t # "prompt"
    BY DEF Say
  <2>3. CASE c = tab.conn /\ tab.phase = "live"
    BY <1>1, <2>3 DEF Prompted
  <2>4. CASE up'[c] = Append(up[c], Say("interrupt")) \/ up'[c] = Append(up[c], Say("close"))
    <3>1. Has(up[c], "prompt")
      BY <1>4, <2>1, <2>2, <2>4, AppendHas
    <3> QED
      BY <1>1, <3>1 DEF Prompted
  <2>5. CASE up[c] # <<>> /\ up'[c] = Tail(up[c])
    <3>1. Has(up[c], "prompt")
      BY <1>4, <2>1, <2>5, TailHas
    <3> QED
      BY <1>1, <3>1 DEF Prompted
  <2>6. CASE up'[c] = up[c]
    BY <1>1, <1>4, <2>6 DEF Prompted
  <2> QED
    BY <2>3, <2>4, <2>5, <2>6, UpSteps
<1>5. ASSUME NEW c \in Connections, Has(down'[c], "ready") PROVE session'[c].start = "up"
  <2>1. CASE Has(down[c], "ready")
    BY <1>1, <2>1 DEF Prompted
  <2>2. CASE Ready(c)
    BY <2>2 DEF Ready, TypeOK
  <2> QED
    BY <1>5, <2>1, <2>2, Told, FirstHas
<1> QED
  BY <1>3, <1>4, <1>5 DEF Prompted

\* A migration begins with a prompt.
LEMMA MigratingStep ==
    ASSUME TypeOK, Lined, Opened, Ending, Prompted, Migrating, [Next]_vars
    PROVE  Migrating'
<1> SUFFICES ASSUME NEW c \in Connections, session'[c].migrating # "no"
             PROVE  session'[c].start = "up"
  BY DEF Migrating
<1>1. session[c].start = "up" => session'[c].start = "up"
  BY UpStays
<1>2. session[c].migrating # "no" => session[c].start = "up"
  BY DEF Migrating
<1>3. CASE Quiet(c)
  BY <1>1, <1>2, <1>3 DEF Quiet, SameTurn
<1>4. CASE OnMessage(c) /\ Head(up[c]).t # "close"
  <2>1. CASE Head(up[c]).t = "prompt"
    <3>1. up[c] \in Seq(ToServer) /\ up[c] # <<>>
      BY <1>4 DEF OnMessage, TypeOK
    <3>2. Has(up[c], "prompt")
      BY <2>1, <3>1, TailHas
    <3> QED
      BY <1>1, <3>2 DEF Prompted
  <2>2. CASE Head(up[c]).t # "prompt"
    <3>1. SameSite(c)
      BY <1>4, <2>2, MessageEffects DEF Passes, Asks
    <3> QED
      BY <1>1, <1>2, <3>1 DEF SameSite, Sited
  <2> QED
    BY <2>1, <2>2
<1>5. CASE Drained(c)
  BY <1>1, <1>2, <1>5, DrainEffects
<1>6. CASE Migrated(c)
  BY <1>1, <1>2, <1>6, MigratedEffects
<1>7. ASSUME NEW leg \in {1, 2}, OnResult(c, leg) PROVE session'[c].start = "up"
  <2>1. SameSite(c)
    BY <1>7, ResultEffects
  <2> QED
    BY <1>1, <1>2, <2>1 DEF SameSite, Sited
<1>8. ASSUME NEW x \in stops, x.conn = c, InterruptAnswered(x) PROVE session'[c].start = "up"
  <2>1. SameSite(c)
    BY <1>8, AnswerEffects
  <2> QED
    BY <1>1, <1>2, <2>1 DEF SameSite, Sited
<1>9. CASE session' = session
  BY <1>2, <1>9
<1> QED
  BY <1>3, <1>4, <1>5, <1>6, <1>7, <1>8, <1>9, TurnSteps
     DEF Turning, InterruptLands, Answer, ProcessEnds

\* Only a process that lives takes a prompt, and one that ends drops it.
LEMMA WorkingStep ==
    ASSUME TypeOK, Working, [Next]_vars
    PROVE  Working'
<1>1. ASSUME UNCHANGED <<running, native>> PROVE Working'
  BY <1>1 DEF Working
<1>2. ASSUME running' = running, native \subseteq native' PROVE Working'
  BY <1>2 DEF Working
<1>3. ASSUME NEW c \in Connections, NEW l, NEW q, Push(c, l, q), native' = native PROVE Working'
  <2>1. ASSUME NEW p \in Processes, running'[p] # 0 PROVE p \in native
    <3>1. CASE <<c, l>> \in native /\ p = <<c, l>>
      BY <3>1
    <3>2. CASE ~(<<c, l>> \in native /\ p = <<c, l>>)
      <4>1. running'[p] = running[p]
        BY <1>3, <3>2 DEF Push, TypeOK
      <4> QED
        BY <2>1, <4>1 DEF Working
    <3> QED
      BY <3>1, <3>2
  <2> QED
    BY <1>3, <2>1 DEF Working
<1>4. CASE UNCHANGED vars
  BY <1>1, <1>4 DEF vars, nativeVars
<1>5. CASE User \/ Renderer
  BY <1>1, <1>5 DEF User, Send, EditAndResend, StopTurn, TryAgain, ReconnectFromCard,
                    ReconnectAfterFatal, ElsewhereResumes, Renderer, Composed, Receive, nativeVars
<1>6. CASE Process
  <2>1. ASSUME NEW p \in Processes, Answer(p) PROVE Working'
    BY <2>1 DEF Answer, Working, TypeOK
  <2>2. ASSUME NEW p \in Processes, ProcessEnds(p) PROVE Working'
    BY <2>2 DEF ProcessEnds, Working, TypeOK
  <2>3. ASSUME NEW x \in stops, InterruptLands(x) PROVE Working'
    BY <2>3 DEF InterruptLands, Working, TypeOK
  <2> QED
    BY <1>1, <1>6, <2>1, <2>2, <2>3 DEF Process, FirstMessage, nativeVars
<1>7. ASSUME NEW c \in Connections, Lifecycle(c) \/ ScopeRemoved(c) \/ Rebind(c) PROVE Working'
  BY <1>1, <1>2, <1>7 DEF Lifecycle, Acquire, TakeOver, Claim, Launch, Ready, RetirementEnds,
                         ScopeRemoved, Rebind, nativeVars
<1>8. ASSUME NEW c \in Connections, Turns(c) PROVE Working'
  <2>1. CASE OnMessage(c)
    BY <1>1, <1>3, <2>1 DEF OnMessage, OnPrompt
  <2>2. CASE Migrated(c)
    BY <1>1, <1>3, <2>2 DEF Migrated
  <2> QED
    BY <1>1, <1>2, <1>8, <2>1, <2>2 DEF Turns, Drained, PumpEnds, OnResult
<1>9. ASSUME NEW x \in stops, InterruptAnswered(x) PROVE Working'
  BY <1>1, <1>9 DEF InterruptAnswered
<1> QED
  BY <1>4, <1>5, <1>6, <1>7, <1>8, <1>9 DEF Next

\* Processes come and go with the start and the retirement of their sessions.
LEMMA LivingStep ==
    ASSUME TypeOK, Lined, Opened, Ending, Migrating, Living, [Next]_vars
    PROVE  Living'
<1> DEFINE Runs(c) == session[c].start \in {"starting", "up"} /\ session[c].retire # "done"
<1>1. LifeStep
  BY LifeSteps
<1>2. \A p \in native : p \in Processes /\ p[1] \in Connections /\ p[2] \in {1, 2} /\ Runs(p[1])
  BY DEF TypeOK, Processes, Living
<1>3. ASSUME native' \subseteq native, \A c \in Connections : Runs(c) => Runs(c)' PROVE Living'
  BY <1>2, <1>3 DEF Living
<1>4. ASSUME Apart({}) PROVE \A c \in Connections : Runs(c) => Runs(c)'
  BY <1>4 DEF Apart, SameLife
<1>5. ASSUME NEW c \in Connections, Replaces(c) PROVE Living'
  <2>1. Runs(c)
    BY <1>5 DEF Replaces, Migrating, Ending
  <2>2. \A p \in native' : p \in native \/ p = <<c, 2>>
    BY <1>5 DEF Replaces
  <2>3. \A p \in native' : Runs(p[1])'
    BY <1>2, <1>4, <1>5, <2>1, <2>2 DEF Replaces
  <2>4. ASSUME NEW p \in native', p[2] = 2 PROVE <<p[1], 1>> \notin native'
    <3>1. p[1] = c => <<p[1], 1>> \notin native
      BY <1>5 DEF Replaces
    <3>2. p \in native => <<p[1], 1>> \notin native
      BY <2>4 DEF Living
    <3> QED
      BY <1>5, <2>2, <3>1, <3>2 DEF Replaces
  <2> QED
    BY <2>3, <2>4 DEF Living
<1>6. ASSUME NEW c \in Connections, Launches(c) PROVE Living'
  <2>1. Runs(c)' /\ ~Runs(c)
    BY <1>6 DEF Launches, Moves, Ending
  <2>2. \A d \in Connections \ {c} : Runs(d) => Runs(d)'
    BY <1>6 DEF Launches, Apart, SameLife
  <2>3. \A p \in native : p[1] # c
    BY <1>2, <2>1
  <2>4. \A p \in native' : p \in native \/ p = <<c, 1>>
    BY <1>6 DEF Launches
  <2>5. \A p \in native' : Runs(p[1])'
    BY <1>2, <2>1, <2>2, <2>3, <2>4
  <2>6. ASSUME NEW p \in native', p[2] = 2 PROVE <<p[1], 1>> \notin native'
    <3>1. p \in native
      BY <2>4, <2>6
    <3>2. <<p[1], 1>> \notin native /\ p[1] # c
      BY <2>3, <2>6, <3>1 DEF Living
    <3> QED
      BY <1>6, <3>2 DEF Launches
  <2> QED
    BY <2>5, <2>6 DEF Living
<1>7. ASSUME NEW c \in Connections, Retires(c) PROVE Living'
  <2>1. \A p \in native : p[1] # c
    BY <1>2, <1>7 DEF Retires, Processes
  <2>2. \A d \in Connections \ {c} : Runs(d) => Runs(d)'
    BY <1>7 DEF Retires, Apart, SameLife
  <2> QED
    BY <1>2, <1>7, <2>1, <2>2 DEF Retires, Living
<1>8. ASSUME NEW c \in Connections, Takes(c) PROVE Living'
  <2>1. \A d \in Connections : Runs(d) => Runs(d)'
    BY <1>8 DEF Takes, Moves, Closes, Apart, SameLife
  <2> QED
    BY <1>3, <1>8, <2>1 DEF Takes
<1>9. ASSUME NEW c \in Connections, Opens(c) PROVE Living'
  <2>1. session[c].start = "none"
    BY <1>9 DEF Opens, Opened, TypeOK, Connections
  <2>2. \A d \in Connections : Runs(d) => Runs(d)'
    BY <1>9, <2>1 DEF Opens, Apart, SameLife
  <2> QED
    BY <1>3, <1>9, <2>2 DEF Opens
<1>10. ASSUME NEW c \in Connections,
              GivesUp(c) \/ Queues(c) \/ ClosesOne(c) \/ Resolves(c) \/ Starts(c)
       PROVE  Living'
  <2>1. \A d \in Connections : Runs(d) => Runs(d)'
    BY <1>10 DEF GivesUp, Queues, ClosesOne, Resolves, Starts, Moves, Closes, Apart, SameLife
  <2> QED
    BY <1>3, <1>10, <2>1 DEF GivesUp, Queues, ClosesOne, Resolves, Starts
<1> QED
  BY <1>1, <1>3, <1>4, <1>5, <1>6, <1>7, <1>8, <1>9, <1>10 DEF LifeStep, Stays, Owns

\* Connections are opened in their order, and whoever owns the transcript has started.
LEMMA OpenedStep ==
    ASSUME TypeOK, Lined, Opened, Ending, Working, Living, [Next]_vars
    PROVE  Opened'
<1> DEFINE Started(c) == session[c].start \in {"owned", "starting", "up", "over"}
           StartedNow(c) == session'[c].start \in {"owned", "starting", "up", "over"}
           Unused(c) == session[c].start = "none" => ~session[c].closed /\ session[c].retire = "no"
<1>1. LifeStep
  BY LifeSteps
<1>2. opened \in Connections /\ opened' \in {opened, opened + 1}
  BY TabSteps DEF TypeOK, Open, Connect, Send, EditAndResend, TryAgain, Composed, Receive, counters
<1>3. tab'.conn <= opened'
  <2>1. CASE tab'.conn = tab.conn
    BY <1>2, <2>1 DEF Opened, TypeOK, Tab, Connections
  <2>2. ASSUME NEW q \in 0..MaxPrompts, Connect(q) PROVE tab'.conn = opened'
    BY <2>2 DEF Connect, Open, TypeOK, Tab
  <2> QED
    BY <1>2, <2>1, <2>2, TabFields DEF Connections
<1>4. \A d \in Connections : session[d].start # "none" => session'[d].start # "none"
  BY UpStays
<1>5. ASSUME NEW d \in Connections, d > opened' PROVE session'[d].start = "none"
  <2>1. d > opened /\ session[d].start = "none" /\ session[d].retire = "no"
    BY <1>2, <1>5 DEF Opened, Connections
  <2>2. \A c \in Connections : Opens(c) => d # c
    BY <1>2, <1>5 DEF Opens, Connections
  <2> QED
    BY <1>1, <2>1, <2>2
       DEF LifeStep, Stays, Owns, Replaces, Opens, GivesUp, Queues, ClosesOne, Takes, Resolves,
           Launches, Starts, Retires, Moves, Closes, Apart, SameLife
<1>6. \A d \in Connections : Unused(d) => Unused(d)'
  <2>1. \A c \in Connections : Takes(c) => owner \in Connections
    BY DEF Takes, TypeOK, Connections
  <2> QED
    BY <1>1, <1>4, <2>1
       DEF LifeStep, Stays, Owns, Replaces, Opens, GivesUp, Queues, ClosesOne, Takes, Resolves,
           Launches, Starts, Retires, Moves, Closes, Apart, SameLife
<1>7. \A d \in Connections : Started(d) => StartedNow(d)
  <2>1. ASSUME NEW c \in Connections, Opens(c) PROVE \A d \in Connections : Started(d) => StartedNow(d)
    <3>1. session[c].start = "none"
      BY <2>1 DEF Opens, Opened, TypeOK, Connections
    <3> QED
      BY <2>1, <3>1 DEF Opens, Apart, SameLife
  <2>2. ASSUME NEW c \in Connections, Takes(c) PROVE \A d \in Connections : Started(d) => StartedNow(d)
    BY <2>2 DEF Takes, Moves, Closes, Apart, SameLife
  <2>3. ASSUME NEW c \in Connections,
               \/ GivesUp(c) \/ Queues(c) \/ ClosesOne(c) \/ Resolves(c)
               \/ Launches(c) \/ Starts(c) \/ Retires(c)
        PROVE  \A d \in Connections : Started(d) => StartedNow(d)
    BY <2>3 DEF GivesUp, Queues, ClosesOne, Resolves, Launches, Starts, Retires, Moves, Closes,
                Apart, SameLife
  <2> QED
    BY <1>1, <2>1, <2>2, <2>3 DEF LifeStep, Stays, Owns, Replaces, Apart, SameLife
<1>8. ASSUME owner' # 0 PROVE StartedNow(owner')
  <2>1. CASE owner' = owner
    BY <1>7, <1>8, <2>1 DEF Opened, TypeOK, Connections
  <2>2. ASSUME NEW c \in Connections, Owns(c) PROVE StartedNow(owner')
    <3>1. <<c, 1>> \in native
      BY <2>2 DEF Owns, Working, Processes
    <3>2. Started(c)
      BY <3>1 DEF Living
    <3> QED
      BY <1>7, <2>2, <3>2 DEF Owns
  <2>3. ASSUME NEW c \in Connections, Resolves(c), owner' # owner PROVE StartedNow(owner')
    BY <2>3 DEF Resolves, Moves
  <2>4. ASSUME NEW c \in Connections, Retires(c), owner' # owner PROVE FALSE
    BY <1>8, <2>4 DEF Retires
  <2> QED
    BY <1>1, <2>1, <2>2, <2>3, <2>4
       DEF LifeStep, Stays, Replaces, Opens, GivesUp, Queues, ClosesOne, Takes, Launches, Starts
<1> QED
  BY <1>3, <1>5, <1>6, <1>8 DEF Opened

\* A turn begins with a prompt, and an interrupt belongs to a turn.
LEMMA NamedStep ==
    ASSUME TypeOK, Named, Opened, [Next]_vars
    PROVE  Named'
<1> SUFFICES ASSUME NEW c \in Connections, session'[c].active \/ session'[c].stop # 0
             PROVE  session'[c].gen # 0
  BY DEF Named
<1>1. session[c].active \/ session[c].stop # 0 => session[c].gen # 0
  BY DEF Named
<1>2. CASE Quiet(c)
  BY <1>1, <1>2 DEF Quiet, SameTurn
<1>3. CASE OnMessage(c) /\ Head(up[c]).t # "close"
  <2>1. \A q \in Prompts : q # 0
    BY DEF Prompts
  <2> QED
    BY <1>1, <1>3, <2>1, MessageEffects DEF Begins, Passes, Asks, Kept, Turned
<1>4. CASE Drained(c)
  BY <1>1, <1>4, DrainEffects DEF Leaves, GoesOn, Breaks, Kept, Turned
<1>5. CASE Migrated(c)
  BY <1>1, <1>5, MigratedEffects DEF Leaves, Kept, Turned
<1>6. ASSUME NEW leg \in {1, 2}, OnResult(c, leg) PROVE session'[c].gen # 0
  BY <1>1, <1>6, ResultEffects DEF Defers, Settles, Discards, Kept, Turned
<1>7. ASSUME NEW x \in stops, x.conn = c, InterruptAnswered(x) PROVE session'[c].gen # 0
  BY <1>1, <1>7, AnswerEffects DEF Turned
<1>8. CASE session' = session
  BY <1>1, <1>8
<1> QED
  BY <1>2, <1>3, <1>4, <1>5, <1>6, <1>7, <1>8, TurnSteps
     DEF Turning, InterruptLands, Answer, ProcessEnds

\* What every proof below starts from.
Sound == /\ TypeOK /\ Lined /\ Named /\ Opened /\ Ending
         /\ Living /\ Working /\ Migrating /\ Prompted

LEMMA SoundInvariant == Spec => []Sound
<1>1. Init => Sound
  <2> SUFFICES ASSUME Init PROVE Sound
    OBVIOUS
  <2>1. TypeOK
    BY TypeInit
  <2>2. /\ \A c \in Connections :
              /\ session[c].start = (IF c = 1 THEN "up" ELSE "none")
              /\ ~session[c].closed /\ session[c].retire = "no"
              /\ ~session[c].active /\ session[c].stop = 0 /\ session[c].migrating = "no"
        /\ 1 \in Connections
    BY DEF Init, Unopened, Connections
  <2>3. Lined /\ Named /\ Ending /\ Migrating
    BY <2>2 DEF Lined, Named, Ending, Migrating
  <2>4. Opened
    BY <2>2 DEF Init, Opened, Connections
  <2>5. Living /\ Working
    BY <2>2 DEF Init, Living, Working
  <2>6. Prompted
    <3>1. tab.conn = 1 /\ \A c \in Connections : up[c] = <<>> /\ down[c] = <<>>
      BY DEF Init
    <3>2. \A kind : ~Has(<<>>, kind)
      BY DEF Has
    <3> QED
      BY <2>2, <3>1, <3>2 DEF Prompted
  <2> QED
    BY <2>1, <2>3, <2>4, <2>5, <2>6 DEF Sound
<1>2. Sound /\ [Next]_vars => Sound'
  BY TypeStep, LinedStep, NamedStep, OpenedStep, EndingStep, LivingStep, WorkingStep,
     MigratingStep, PromptedStep DEF Sound
<1> QED
  BY <1>1, <1>2, PTL DEF Spec

-----------------------------------------------------------------------------
\* Whatever the tab, its sessions and their processes do, the state has the types:
\* no prompt, connection, use of Stop or failure is counted beyond its bound, and a
\* turn and an interrupt always have a prompt.
THEOREM TypeCorrect == Spec => []TypeOK
<1>1. Sound => TypeOK
  BY DEF Sound
<1> QED
  BY <1>1, SoundInvariant, PTL

-----------------------------------------------------------------------------
(* The owner of the transcript. *)

\* A session that may have a process is the owner; or the transcript has no name yet,
\* and then the first session is the only one.
Holder(c) == session[c].start \in {"owned", "starting", "up"} /\ session[c].retire # "done"
Unnamed(c) ==
    /\ owner = 0 /\ c = 1 /\ ~tab.known /\ session[1].start = "up"
    /\ \A d \in Connections \ {1} : session[d].start = "none"
    /\ \A d \in Connections : ~Has(down[d], "session-id")
Owning == \A c \in Connections : Holder(c) => owner = c \/ Unnamed(c)

\* The first session stays the only one until it names the transcript, and owns it then.
LEMMA UnnamedStays ==
    ASSUME Sound, Unnamed(1), [Next]_vars
    PROVE  Unnamed(1)' \/ owner' = 1
<1>1. TypeOK /\ Lined /\ Opened /\ Ending /\ Living /\ Working /\ 1 \in Connections
  BY DEF Sound, Connections
<1>2. ASSUME NEW c \in Connections, running[<<c, 1>>] # 0 PROVE c = 1
  <2>1. <<c, 1>> \in native
    BY <1>1, <1>2 DEF Working, Processes
  <2>2. session[c].start \in {"starting", "up"}
    BY <1>1, <2>1 DEF Living
  <2> QED
    BY <2>2 DEF Unnamed
<1>3. ASSUME NEW c \in Connections, FirstMessage(c) PROVE owner' = 1
  BY <1>2, <1>3 DEF FirstMessage
<1>4. ASSUME \A c \in Connections : ~FirstMessage(c) PROVE Unnamed(1)' \/ owner' = 1
  <2>1. ~tab'.known
    <3>1. \A q \in 0..MaxPrompts : ~Connect(q)
      BY DEF Connect, Open, Unnamed
    <3>2. tab.conn \in Connections
      BY <1>1 DEF TypeOK, Tab
    <3> QED
      BY <1>1, <3>1, <3>2, TabFields DEF Unnamed
  <2>2. \A d \in Connections : ~Has(down'[d], "session-id")
    BY <1>1, <1>4, Told, FirstHas DEF Unnamed
  <2>3. session'[1].start = "up"
    BY <1>1, UpStays DEF Unnamed
  <2>4. LifeStep
    BY <1>1, LifeSteps
  <2>5. \A d \in Connections \ {1} : session'[d].start = "none"
    <3>1. \A c \in Connections : ~Opens(c)
      BY DEF Opens, Unnamed
    <3> QED
      BY <2>4, <3>1
         DEF Unnamed, LifeStep, Stays, Owns, Replaces, GivesUp, Queues, ClosesOne, Takes,
             Resolves, Launches, Starts, Retires, Moves, Closes, Apart, SameLife
  <2>6. owner' = 0 \/ owner' = 1
    <3>1. \A c \in Connections : ~Resolves(c)
      BY <1>1 DEF Resolves, Moves, Unnamed
    <3> QED
      BY <1>2, <2>4, <3>1
         DEF Unnamed, LifeStep, Stays, Owns, Replaces, Opens, GivesUp, Queues, ClosesOne, Takes,
             Launches, Starts, Retires
  <2> QED
    BY <2>1, <2>2, <2>3, <2>5, <2>6 DEF Unnamed
<1> QED
  BY <1>3, <1>4

\* A claim waits until the owner is retired.
LEMMA OwningStep ==
    ASSUME Sound, Owning, [Next]_vars
    PROVE  Owning'
<1> SUFFICES ASSUME NEW c \in Connections, Holder(c)'
             PROVE  owner' = c \/ Unnamed(c)'
  BY DEF Owning
<1>1. TypeOK /\ Lined /\ Opened /\ Ending
  BY DEF Sound
<1>2. LifeStep
  BY <1>1, LifeSteps
<1>3. CASE Unnamed(1)
  <2>1. Unnamed(1)' \/ owner' = 1
    BY <1>3, UnnamedStays
  <2>2. CASE c = 1
    BY <2>1, <2>2
  <2>3. CASE c # 1
    <3>1. session[c].start = "none" /\ owner = 0
      BY <1>3, <2>3 DEF Unnamed
    <3> QED
      BY <1>2, <3>1
         DEF LifeStep, Stays, Owns, Replaces, Opens, GivesUp, Queues, ClosesOne, Takes, Resolves,
             Launches, Starts, Retires, Moves, Closes, Apart, SameLife, Holder
  <2> QED
    BY <2>2, <2>3
<1>4. CASE ~Unnamed(1)
  <2>1. \A d \in Connections : Holder(d) => owner = d
    BY <1>4 DEF Owning, Unnamed
  <2>2. owner \in 0..MaxConnections /\ c # 0
    BY <1>1 DEF TypeOK, Connections
  <2>3. ASSUME NEW d \in Connections, Resolves(d) PROVE owner' = c
    <3>1. Holder(c) => owner' = owner
      BY <2>1, <2>2, <2>3 DEF Resolves, Moves, Holder
    <3>2. Holder(c) \/ owner' = c
      BY <2>3 DEF Resolves, Moves, Apart, SameLife, Holder
    <3> QED
      BY <2>1, <3>1, <3>2
  <2>4. ASSUME NEW d \in Connections, Retires(d) PROVE owner' = c
    <3>1. c # d /\ Holder(c)
      BY <2>4 DEF Retires, Apart, SameLife, Holder
    <3> QED
      BY <2>1, <2>4, <3>1 DEF Retires
  <2>5. ASSUME NEW d \in Connections, Owns(d) PROVE owner' = c
    <3>1. Holder(c)
      BY <2>5 DEF Owns, Apart, SameLife, Holder
    <3> QED
      BY <2>1, <2>2, <2>5, <3>1 DEF Owns
  <2>6. ASSUME owner' = owner, Holder(c) PROVE owner' = c
    BY <2>1, <2>6
  <2>7. ASSUME NEW d \in Connections, Takes(d) PROVE owner' = c
    <3>1. Holder(c)
      BY <1>1, <2>7 DEF Takes, Moves, Closes, Apart, SameLife, Holder, Ending
    <3> QED
      BY <2>6, <2>7, <3>1 DEF Takes
  <2>8. ASSUME NEW d \in Connections,
               \/ Opens(d) \/ GivesUp(d) \/ Queues(d) \/ ClosesOne(d) \/ Launches(d) \/ Starts(d)
        PROVE  owner' = c
    <3>1. ASSUME c # d PROVE Holder(c)
      <4>1. Apart({d})
        BY <2>8 DEF Opens, GivesUp, Queues, ClosesOne, Launches, Starts
      <4> QED
        BY <3>1, <4>1 DEF Apart, SameLife, Holder
    <3>2. ASSUME c = d PROVE Holder(c)
      <4>1. ~Opens(c) /\ ~GivesUp(c) /\ ~Queues(c)
        BY DEF Opens, GivesUp, Queues, Moves, Holder
      <4>2. ClosesOne(c) => Holder(c)
        BY <1>1 DEF ClosesOne, Closes, Holder, Ending
      <4>3. Launches(c) \/ Starts(c) => Holder(c)
        BY DEF Launches, Starts, Moves, Holder
      <4> QED
        BY <2>8, <3>2, <4>1, <4>2, <4>3
    <3> QED
      BY <2>6, <2>8, <3>1, <3>2 DEF Opens, GivesUp, Queues, ClosesOne, Launches, Starts
  <2>9. ASSUME Apart({}), owner' = owner PROVE owner' = c
    BY <2>6, <2>9 DEF Apart, SameLife, Holder
  <2> QED
    BY <1>2, <2>3, <2>4, <2>5, <2>7, <2>8, <2>9 DEF LifeStep, Stays, Replaces
<1> QED
  BY <1>3, <1>4

LEMMA OwningInvariant == Spec => [](Sound /\ Owning)
<1>1. Init => Owning
  <2> SUFFICES ASSUME Init PROVE Owning
    OBVIOUS
  <2>1. /\ session[1].start = "up" /\ 1 \in Connections
        /\ \A d \in Connections \ {1} : session[d].start = "none"
    BY DEF Init, Unopened, Connections
  <2>2. \A d \in Connections : ~Has(down[d], "session-id")
    BY DEF Init, Has
  <2>3. owner = 0 /\ ~tab.known
    BY DEF Init
  <2> QED
    BY <2>1, <2>2, <2>3 DEF Owning, Holder, Unnamed
<1>2. Sound /\ Owning /\ [Next]_vars => Owning'
  BY OwningStep
<1> QED
  BY <1>1, <1>2, SoundInvariant, PTL DEF Spec

\* However many tabs resume a transcript, while its owner starts, works, fails, goes on
\* in a project or is being closed, at most one process writes it: a claim waits for the
\* retirement of the owner, a retirement for the end of its processes, and the second
\* process of a session for the end of the first.
THEOREM OneWriter == Spec => []OneQuery
<1>1. Sound /\ Owning => OneQuery
  <2> SUFFICES ASSUME Sound, Owning, NEW p \in native, NEW q \in native PROVE p = q
    BY DEF OneQuery
  <2>1. /\ p \in Processes /\ q \in Processes
        /\ p[1] \in Connections /\ q[1] \in Connections /\ p[2] \in {1, 2} /\ q[2] \in {1, 2}
    BY DEF Sound, TypeOK, Processes
  <2>2. Holder(p[1]) /\ Holder(q[1])
    BY DEF Sound, Living, Holder
  <2>3. p[1] = q[1]
    BY <2>1, <2>2 DEF Owning, Unnamed, Holder
  <2>4. p = <<p[1], p[2]>> /\ q = <<q[1], q[2]>>
    BY <2>1 DEF Processes
  <2>5. p[2] = q[2]
    <3>1. p[2] = 2 => q[2] # 1
      BY <2>3, <2>4 DEF Sound, Living
    <3>2. q[2] = 2 => p[2] # 1
      BY <2>3, <2>4 DEF Sound, Living
    <3> QED
      BY <2>1, <3>1, <3>2
  <2> QED
    BY <2>3, <2>4, <2>5
<1> QED
  BY <1>1, OwningInvariant, PTL

-----------------------------------------------------------------------------
(* The turn of a session and what is under way for it. *)

Idle(c) == \A l \in {1, 2} : running[<<c, l>>] = 0 /\ results[<<c, l>>] = <<>>

\* One process of the session works on the turn, or its result is in the stream.
AtWork(c) ==
    \A l \in {1, 2} :
        /\ running[<<c, l>>] # 0 => /\ running[<<c, l>>] = session[c].gen
                                    /\ results[<<c, l>>] = <<>>
        /\ results[<<c, l>>] # <<>> => /\ Len(results[<<c, l>>]) = 1
                                       /\ results[<<c, l>>][1].prompt = session[c].gen
        /\ \A m \in {1, 2} \ {l} :
              running[<<c, l>>] # 0 \/ results[<<c, l>>] # <<>> =>
                 running[<<c, m>>] = 0 /\ results[<<c, m>>] = <<>>

\* The one interrupt that is under way belongs to the turn.
Stopping(c) ==
    LET s == session[c]
    IN  \A x \in stops : x.conn = c =>
           /\ s.active /\ s.requested /\ s.migrating # "draining"
           /\ s.stop = s.gen /\ x.prompt = s.gen
           /\ \A y \in stops : y.conn = c => y = x

\* A session without a turn has nothing under way; neither has one that is between
\* two processes, or whose result waits for an interrupt.
Turn(c) ==
    LET s == session[c]
    IN  /\ ~s.active => Idle(c) /\ s.deferred = NoResult /\ s.migrating = "no"
        /\ s.deferred # NoResult => Idle(c) /\ s.migrating = "no"
        /\ s.migrating # "no" => Idle(c)
        /\ s.migrating = "draining" => s.query = 0
        /\ AtWork(c) /\ Stopping(c)

\* What an idle session is after a step, whatever else it is.
LEMMA IdleWorks ==
    ASSUME NEW c \in Connections, Idle(c)'
    PROVE  AtWork(c)'
BY DEF Idle, AtWork

\* A step that leaves the turn and the work of a session alone.
LEMMA QuietTurn ==
    ASSUME Sound, NEW c \in Connections, Turn(c), Quiet(c)
    PROVE  Turn(c)'
<1>1. session[c].start = "owned" => session[c].migrating # "draining"
  BY DEF Sound, Migrating
<1>2. Idle(c) => Idle(c)'
  BY DEF Quiet, SameWork, Idle
<1>3. AtWork(c)'
  BY DEF Quiet, SameTurn, SameWork, AtWork, Turn
<1>4. Stopping(c)'
  BY DEF Quiet, SameTurn, SameWork, Stopping, Turn
<1> QED
  BY <1>1, <1>2, <1>3, <1>4 DEF Quiet, SameTurn, Turn

\* A prompt that reaches an idle session is all it works on.
LEMMA PushWorks ==
    ASSUME TypeOK, NEW c \in Connections, NEW l \in {0, 1, 2}, Push(c, l, session'[c].gen),
           Idle(c), results' = results
    PROVE  AtWork(c)'
<1>1. CASE <<c, l>> \in native
  <2>1. l \in {1, 2}
    BY <1>1 DEF TypeOK, Processes
  <2>2. /\ running'[<<c, l>>] = session'[c].gen
        /\ \A m \in {1, 2} \ {l} : running'[<<c, m>>] = 0
    BY <1>1, <2>1 DEF Push, TypeOK, Processes, Idle
  <2> QED
    BY <2>1, <2>2 DEF Idle, AtWork
<1>2. CASE <<c, l>> \notin native
  <2>1. Idle(c)'
    BY <1>2 DEF Push, Idle
  <2> QED
    BY <2>1, IdleWorks
<1> QED
  BY <1>1, <1>2

LEMMA MessageTurn ==
    ASSUME Sound, NEW c \in Connections, Turn(c), OnMessage(c), Head(up[c]).t # "close"
    PROVE  Turn(c)'
<1> DEFINE s == session[c]
<1>1. TypeOK /\ s \in Session /\ s.query \in {0, 1, 2}
  BY DEF Sound, TypeOK, Session
<1>2. results' = results
  BY <1>1, MessageEffects
<1>3. ASSUME NEW q \in Prompts, Begins(c, q) PROVE Turn(c)'
  <2>1. /\ Idle(c) /\ s.deferred = NoResult /\ s.migrating = "no"
        /\ \A x \in stops' : x.conn # c
    BY <1>3 DEF Begins, Turn, Stopping
  <2>2. /\ session'[c].active /\ session'[c].gen = q /\ session'[c].deferred = NoResult
    BY <1>3, <2>1 DEF Begins, Turned
  <2>3. Stopping(c)'
    BY <2>1 DEF Stopping
  <2>4. CASE SameSite(c) /\ Push(c, s.query, q)
    <3>1. AtWork(c)'
      BY <1>1, <1>2, <2>1, <2>2, <2>4, PushWorks
    <3>2. session'[c].migrating = "no"
      BY <2>1, <2>4 DEF SameSite, Sited
    <3> QED
      BY <2>2, <2>3, <3>1, <3>2 DEF Turn
  <2>5. CASE Sited(c, 0, "draining") /\ running' = running
    <3>1. Idle(c)'
      BY <1>2, <2>1, <2>5 DEF Idle
    <3>2. AtWork(c)'
      BY <3>1, IdleWorks
    <3> QED
      BY <2>2, <2>3, <2>5, <3>1, <3>2 DEF Turn, Sited
  <2> QED
    BY <1>3, <2>4, <2>5 DEF Begins
<1>4. CASE Passes(c)
  <2>1. Idle(c) <=> Idle(c)'
    BY <1>2, <1>4 DEF Passes, Idle
  <2>2. AtWork(c)' /\ Stopping(c)'
    BY <1>2, <1>4 DEF Passes, Kept, Turned, SameSite, Sited, AtWork, Stopping, Turn
  <2> QED
    BY <1>4, <2>1, <2>2 DEF Passes, Kept, Turned, SameSite, Sited, Turn
<1>5. CASE Asks(c)
  <2>1. Idle(c) <=> Idle(c)'
    BY <1>2, <1>5 DEF Asks, Idle
  <2>2. AtWork(c)'
    BY <1>2, <1>5 DEF Asks, Turned, AtWork, Turn
  <2>3. Stopping(c)'
    <3>1. \A x \in stops : x.conn # c
      BY <1>5 DEF Asks, Turn, Stopping
    <3>2. s.migrating # "draining"
      BY <1>5 DEF Asks, Turn
    <3>3. /\ session'[c].active /\ session'[c].requested /\ session'[c].migrating # "draining"
          /\ session'[c].stop = session'[c].gen /\ session'[c].gen = s.gen
      BY <1>5, <3>2 DEF Asks, Turned, SameSite, Sited
    <3> DEFINE new == [conn |-> c, leg |-> s.query, prompt |-> s.gen, landed |-> FALSE]
    <3>4. new.conn = c /\ new.prompt = s.gen
      OBVIOUS
    <3> HIDE DEF new
    <3>5. \A x \in stops' : x.conn = c => x = new
      BY <1>5, <3>1 DEF Asks, new
    <3> QED
      BY <3>3, <3>4, <3>5 DEF Stopping
  <2> QED
    BY <1>5, <2>1, <2>2, <2>3 DEF Asks, Turned, SameSite, Sited, Turn
<1> QED
  BY <1>1, <1>3, <1>4, <1>5, MessageEffects

LEMMA MigrationTurn ==
    ASSUME Sound, NEW c \in Connections, Turn(c), Drained(c) \/ Migrated(c)
    PROVE  Turn(c)'
<1> DEFINE s == session[c]
<1>1. TypeOK
  BY DEF Sound
<1>2. /\ UNCHANGED <<results, stops>> /\ s.migrating \in {"draining", "skills"}
      /\ s.migrating = "draining" => running' = running
  BY <1>1, DrainEffects, MigratedEffects
<1>3. Idle(c) /\ s.active /\ s.deferred = NoResult
  BY <1>2 DEF Turn
<1>4. CASE Drained(c)
  <2>1. Idle(c)' /\ AtWork(c)' /\ \A x \in stops' : x.conn # c
    <3>1. Idle(c)' /\ \A x \in stops' : x.conn # c
      BY <1>1, <1>2, <1>3, <1>4, DrainEffects DEF Idle, Turn, Stopping
    <3> QED
      BY <3>1, IdleWorks
  <2>2. Stopping(c)'
    BY <2>1 DEF Stopping
  <2>3. Leaves(c) \/ GoesOn(c) \/ Breaks(c)
    BY <1>1, <1>4, DrainEffects
  <2>4. session'[c].deferred = NoResult /\ session'[c].migrating \in {"no", "skills"}
    BY <1>3, <2>3 DEF Leaves, GoesOn, Breaks, Kept, Turned, Sited
  <2>5. ~session'[c].active => session'[c].migrating = "no"
    BY <1>3, <2>3 DEF Leaves, GoesOn, Breaks, Kept, Turned, Sited
  <2> QED
    BY <2>1, <2>2, <2>4, <2>5 DEF Turn
<1>5. CASE Migrated(c)
  <2>1. Leaves(c) /\ (running' = running \/ Push(c, 2, s.gen))
    BY <1>1, <1>5, MigratedEffects
  <2>2. /\ session'[c].active /\ session'[c].gen = s.gen /\ session'[c].deferred = NoResult
        /\ session'[c].migrating = "no"
    BY <1>3, <2>1 DEF Leaves, Kept, Turned, Sited
  <2>3. AtWork(c)'
    <3>1. CASE running' = running
      <4>1. Idle(c)'
        BY <1>2, <1>3, <3>1 DEF Idle
      <4> QED
        BY <4>1, IdleWorks
    <3>2. CASE Push(c, 2, s.gen)
      BY <1>1, <1>2, <1>3, <2>2, <3>2, PushWorks
    <3> QED
      BY <2>1, <3>1, <3>2
  <2>4. Stopping(c)'
    BY <1>2, <2>1, <2>2 DEF Leaves, Kept, Turned, Stopping, Turn
  <2> QED
    BY <2>2, <2>3, <2>4 DEF Turn
<1> QED
  BY <1>4, <1>5

LEMMA ResultTurn ==
    ASSUME Sound, NEW c \in Connections, Turn(c), NEW l \in {1, 2}, OnResult(c, l)
    PROVE  Turn(c)'
<1> DEFINE s == session[c]
<1>1. TypeOK /\ <<c, l>> \in Processes
  BY DEF Sound, Processes
<1>2. /\ UNCHANGED <<running, stops>> /\ results[<<c, l>>] # <<>> /\ SameSite(c)
      /\ results' = [results EXCEPT ![<<c, l>>] = Tail(@)]
      /\ Defers(c) \/ (s.stop = 0 /\ (Settles(c) \/ Discards(c)))
  BY <1>1, ResultEffects
<1>3. /\ s.active /\ s.migrating = "no" /\ s.deferred = NoResult
      /\ Len(results[<<c, l>>]) = 1 /\ running[<<c, l>>] = 0
      /\ \A m \in {1, 2} \ {l} : running[<<c, m>>] = 0 /\ results[<<c, m>>] = <<>>
  BY <1>2 DEF Turn, Idle, AtWork
<1>4. Idle(c)' /\ AtWork(c)'
  <2>1. results[<<c, l>>] \in Seq(Result)
    BY <1>1 DEF TypeOK
  <2>2. Tail(results[<<c, l>>]) = <<>>
    <3>1. /\ Tail(results[<<c, l>>]) \in Seq(Result)
          /\ Len(Tail(results[<<c, l>>])) = Len(results[<<c, l>>]) - 1
      BY <1>2, <2>1, HeadTailProperties
    <3>2. Len(Tail(results[<<c, l>>])) = 0
      BY <1>3, <3>1
    <3> QED
      BY <3>1, <3>2, EmptySeq
  <2>3. results'[<<c, l>>] = <<>>
    BY <1>1, <1>2, <2>2 DEF TypeOK
  <2>4. \A m \in {1, 2} \ {l} : results'[<<c, m>>] = results[<<c, m>>]
    BY <1>1, <1>2 DEF TypeOK, Processes
  <2>5. Idle(c)'
    BY <1>2, <1>3, <2>3, <2>4 DEF Idle
  <2> QED
    BY <2>5, IdleWorks
<1>5. session'[c].migrating = "no"
  BY <1>2, <1>3 DEF SameSite, Sited
<1>6. CASE Defers(c)
  <2>1. /\ session'[c].active = s.active /\ session'[c].requested = s.requested
        /\ session'[c].gen = s.gen /\ session'[c].stop = s.stop
    BY <1>6 DEF Defers, Turned
  <2>2. Stopping(c)'
    BY <1>2, <1>5, <2>1 DEF Turn, Stopping
  <2> QED
    BY <1>3, <1>4, <1>5, <2>1, <2>2 DEF Turn
<1>7. CASE s.stop = 0 /\ Settles(c)
  <2>1. \A x \in stops' : x.conn # c
    BY <1>2, <1>3, <1>7 DEF Turn, Stopping, Sound, Named
  <2>2. Stopping(c)' /\ session'[c].deferred = NoResult
    BY <1>7, <2>1 DEF Stopping, Settles, Turned
  <2> QED
    BY <1>4, <1>5, <2>2 DEF Turn
<1>8. ~Discards(c)
  BY <1>3 DEF Discards
<1> QED
  BY <1>2, <1>6, <1>7, <1>8

LEMMA AnswerTurn ==
    ASSUME Sound, NEW x \in stops, InterruptAnswered(x), x.conn \in Connections, Turn(x.conn)
    PROVE  Turn(x.conn)'
<1> DEFINE c == x.conn
           s == session[c]
<1>1. TypeOK
  BY DEF Sound
<1>2. /\ UNCHANGED <<running, results>> /\ stops' = stops \ {x} /\ SameSite(c)
      /\ session'[c].gen = s.gen /\ session'[c].deferred = NoResult
      /\ session'[c].active = s.active \/ Deferring(s)
  BY <1>1, AnswerEffects DEF Turned
<1>3. \A y \in stops' : y.conn # c
  BY <1>2 DEF Turn, Stopping
<1>4. Stopping(c)'
  BY <1>3 DEF Stopping
<1>5. Idle(c) => Idle(c)'
  BY <1>2 DEF Idle
<1>6. AtWork(c)'
  BY <1>2 DEF AtWork, Turn
<1>7. ~session'[c].active => Idle(c) /\ session'[c].migrating = "no"
  BY <1>2 DEF Turn, Deferring, SameSite, Sited
<1>8. /\ session'[c].migrating # "no" => Idle(c)
      /\ session'[c].migrating = "draining" => session'[c].query = 0
  BY <1>2 DEF Turn, SameSite, Sited
<1> QED
  BY <1>2, <1>4, <1>5, <1>6, <1>7, <1>8 DEF Turn

\* A process ends its turn by itself or because it is interrupted, or dies.
LEMMA ProcessTurn ==
    ASSUME Sound, NEW c \in Connections, Turn(c), NEW l \in {1, 2},
           \/ Answer(<<c, l>>) \/ ProcessEnds(<<c, l>>)
           \/ \E x \in stops : x.conn = c /\ x.leg = l /\ InterruptLands(x)
    PROVE  Turn(c)'
<1> DEFINE s == session[c]
           m == 3 - l
<1>1. TypeOK /\ <<c, l>> \in Processes /\ m \in {1, 2} /\ m # l /\ <<c, l>> # <<c, m>>
  BY DEF Sound, Processes
<1>2. session' = session
  BY DEF Answer, ProcessEnds, InterruptLands
<1> DEFINE Ended == /\ running'[<<c, l>>] = 0 /\ running'[<<c, m>>] = running[<<c, m>>]
                    /\ results'[<<c, m>>] = results[<<c, m>>]
           Held(s1) == s1 = results[<<c, l>>]
           Gained(s1) ==
             /\ running[<<c, l>>] # 0
             /\ \E failed \in BOOLEAN :
                   s1 = Append(results[<<c, l>>], [prompt |-> running[<<c, l>>], failed |-> failed])
<1> HIDE DEF m
<1>3. Ended /\ (Held(results'[<<c, l>>]) \/ Gained(results'[<<c, l>>]))
  <2>1. ASSUME Answer(<<c, l>>)
        PROVE  Ended /\ Gained(results'[<<c, l>>])
    <3>1. Ended /\ running[<<c, l>>] # 0
      BY <1>1, <2>1 DEF Answer, TypeOK, Processes
    <3>2. PICK failed \in BOOLEAN :
            results' = [results EXCEPT ![<<c, l>>] =
                          Append(@, [prompt |-> running[<<c, l>>], failed |-> failed])]
      BY <2>1 DEF Answer
    <3>3. results'[<<c, l>>] =
            Append(results[<<c, l>>], [prompt |-> running[<<c, l>>], failed |-> failed])
      BY <1>1, <3>2 DEF TypeOK
    <3> QED
      BY <3>1, <3>3
  <2>2. ASSUME ProcessEnds(<<c, l>>) PROVE Ended /\ Held(results'[<<c, l>>])
    BY <1>1, <2>2 DEF ProcessEnds, TypeOK, Processes
  <2>3. ASSUME NEW x \in stops, x.conn = c, x.leg = l, InterruptLands(x)
        PROVE  Ended /\ (Held(results'[<<c, l>>]) \/ Gained(results'[<<c, l>>]))
    <3>1. /\ running' = [running EXCEPT ![<<c, l>>] = 0]
          /\ results' = IF running[<<c, l>>] = 0 THEN results
                        ELSE [results EXCEPT ![<<c, l>>] =
                                Append(@, [prompt |-> running[<<c, l>>], failed |-> TRUE])]
      BY <2>3 DEF InterruptLands
    <3>2. Ended
      BY <1>1, <3>1 DEF TypeOK, Processes
    <3>3. CASE running[<<c, l>>] = 0
      BY <3>1, <3>2, <3>3
    <3>4. CASE running[<<c, l>>] # 0
      <4>1. results'[<<c, l>>] =
              Append(results[<<c, l>>], [prompt |-> running[<<c, l>>], failed |-> TRUE])
        BY <1>1, <3>1, <3>4 DEF TypeOK
      <4>2. Gained(results'[<<c, l>>])
        BY <3>4, <4>1
      <4> QED
        BY <3>2, <4>2
    <3> QED
      BY <3>3, <3>4
  <2> QED
    BY <2>1, <2>2, <2>3
<1>4. \/ results'[<<c, l>>] = results[<<c, l>>]
      \/ /\ running[<<c, l>>] # 0
         /\ \E failed \in BOOLEAN :
               results'[<<c, l>>] = Append(results[<<c, l>>],
                                           [prompt |-> running[<<c, l>>], failed |-> failed])
  BY <1>3
<1>5. Idle(c) => Idle(c)'
  BY <1>1, <1>3, <1>4 DEF Idle
<1>6. AtWork(c)'
  <2>1. CASE results'[<<c, l>>] = results[<<c, l>>]
    BY <1>1, <1>2, <1>3, <2>1 DEF AtWork, Turn
  <2>2. ASSUME NEW failed \in BOOLEAN, running[<<c, l>>] # 0,
               results'[<<c, l>>] = Append(results[<<c, l>>],
                                           [prompt |-> running[<<c, l>>], failed |-> failed])
        PROVE  AtWork(c)'
    <3>1. /\ results[<<c, l>>] = <<>> /\ running[<<c, l>>] = s.gen
          /\ running[<<c, m>>] = 0 /\ results[<<c, m>>] = <<>>
      BY <1>1, <2>2 DEF AtWork, Turn
    <3>2. results'[<<c, l>>] = <<[prompt |-> s.gen, failed |-> failed]>>
      BY <2>2, <3>1
    <3>3. /\ Len(results'[<<c, l>>]) = 1 /\ results'[<<c, l>>][1].prompt = s.gen
      BY <3>2
    <3> QED
      BY <1>1, <1>2, <1>3, <3>1, <3>3 DEF AtWork
  <2> QED
    BY <1>4, <2>1, <2>2
<1>7. Stopping(c)'
  <2>1. CASE stops' = stops
    BY <1>2, <2>1 DEF Stopping, Turn
  <2>2. ASSUME NEW x \in stops, x.conn = c, InterruptLands(x) PROVE Stopping(c)'
    <3>1. x \in Stop
      BY <1>1 DEF TypeOK
    <3> DEFINE landed == [x EXCEPT !.landed = TRUE]
    <3>2. landed.conn = c /\ landed.prompt = x.prompt
      BY <2>2, <3>1 DEF Stop
    <3> HIDE DEF landed
    <3>3. stops' = (stops \ {x}) \cup {landed}
      BY <2>2 DEF InterruptLands, landed
    <3>4. \A y \in stops' : y.conn = c => y = landed
      BY <2>2, <3>3 DEF Turn, Stopping
    <3> QED
      BY <1>2, <2>2, <3>2, <3>4 DEF Turn, Stopping
  <2> QED
    BY <2>1, <2>2 DEF Answer, ProcessEnds
<1> QED
  BY <1>2, <1>5, <1>6, <1>7 DEF Turn

\* Every step keeps every turn.
EveryTurn == \A c \in Connections : Turn(c)

LEMMA TurnStep ==
    ASSUME Sound, EveryTurn, [Next]_vars
    PROVE  EveryTurn'
<1> SUFFICES ASSUME NEW c \in Connections, Turn(c) PROVE Turn(c)'
  BY DEF EveryTurn
<1>1. Quiet(c) \/ Turning(c)
  BY TurnSteps DEF Sound
<1>2. ASSUME NEW x \in stops, x.conn = c, InterruptLands(x) PROVE Turn(c)'
  <2>1. x.leg \in {1, 2}
    BY DEF Sound, TypeOK, Stop
  <2> QED
    BY <1>2, <2>1, ProcessTurn
<1>3. ASSUME NEW x \in stops, x.conn = c, InterruptAnswered(x) PROVE Turn(c)'
  BY <1>3, AnswerTurn
<1> QED
  BY <1>1, <1>2, <1>3, QuietTurn, MessageTurn, MigrationTurn, ResultTurn, ProcessTurn
     DEF Turning

LEMMA TurnInvariant == Spec => [](Sound /\ EveryTurn)
<1>1. Init => EveryTurn
  <2> SUFFICES ASSUME Init, NEW c \in Connections PROVE Turn(c)
    BY DEF EveryTurn
  <2>1. /\ session[c].deferred = NoResult /\ session[c].migrating = "no" /\ stops = {}
    BY DEF Init, Unopened
  <2>2. Idle(c) /\ AtWork(c)
    BY DEF Init, Idle, AtWork, Processes
  <2> QED
    BY <2>1, <2>2 DEF Turn, Stopping
<1>2. Sound /\ EveryTurn /\ [Next]_vars => EveryTurn'
  BY TurnStep
<1> QED
  BY <1>1, <1>2, SoundInvariant, PTL DEF Spec

\* A result never settles a later turn than the one it came in, and an interrupt never
\* stops one: a session that has no turn has nothing under way, a result waits for an
\* interrupt that is, and the next prompt of a session that goes on in a project waits
\* for the end of its first process.
THEOREM OwnTurn == Spec => []OwnTurnOnly
<1>1. Sound /\ EveryTurn => OwnTurnOnly
  <2> SUFFICES ASSUME Sound, NEW c \in Connections, Turn(c), NEW l \in {1, 2}
               PROVE  /\ session[c].active => \A i \in DOMAIN results[<<c, l>>] :
                                                results[<<c, l>>][i].prompt = session[c].gen
                      /\ \A x \in stops : x.conn = c /\ running[<<c, l>>] # 0
                                             => x.prompt = running[<<c, l>>]
    BY DEF OwnTurnOnly, EveryTurn
  <2>1. results[<<c, l>>] \in Seq(Result)
    BY DEF Sound, TypeOK, Processes
  <2>2. \A i \in DOMAIN results[<<c, l>>] : results[<<c, l>>][i].prompt = session[c].gen
    <3>1. DOMAIN results[<<c, l>>] = 1..Len(results[<<c, l>>])
      BY <2>1
    <3>2. results[<<c, l>>] # <<>> => Len(results[<<c, l>>]) = 1
      BY DEF Turn, AtWork
    <3>3. results[<<c, l>>] = <<>> => Len(results[<<c, l>>]) = 0
      OBVIOUS
    <3> QED
      BY <3>1, <3>2, <3>3 DEF Turn, AtWork
  <2>3. \A x \in stops : x.conn = c /\ running[<<c, l>>] # 0 => x.prompt = running[<<c, l>>]
    BY DEF Turn, AtWork, Stopping
  <2> QED
    BY <2>2, <2>3
<1> QED
  BY <1>1, TurnInvariant, PTL

-----------------------------------------------------------------------------
(* The order of messages. *)

AtMostOne(s, kind) == \A i, j \in 1..Len(s) : s[i].t = kind /\ s[j].t = kind => i = j
Before(s, first, last) == \A i, j \in 1..Len(s) : s[i].t = first /\ s[j].t = last => i < j

\* The events that end a connection; nothing else follows them.
Ends == {"exit", "removed", "closed"}
AnyEnd(s) == \E i \in 1..Len(s) : s[i].t \in Ends
AllEnds(s) == \A i \in 1..Len(s) : s[i].t \in Ends
EndsLast(s) == \A i, j \in 1..Len(s) : s[i].t \in Ends /\ i < j => s[j].t \in Ends

\* The order of what is left when the first message is taken.
LEMMA TailOrder ==
    ASSUME NEW S, NEW s \in Seq(S), s # <<>>
    PROVE  /\ \A kind : AtMostOne(s, kind) =>
                 AtMostOne(Tail(s), kind) /\ (Head(s).t = kind => ~Has(Tail(s), kind))
           /\ \A first, last : Before(s, first, last) =>
                 Before(Tail(s), first, last) /\ (Head(s).t = last => ~Has(Tail(s), first))
           /\ EndsLast(s) => EndsLast(Tail(s)) /\ (Head(s).t \in Ends => AllEnds(Tail(s)))
           /\ AllEnds(s) => AllEnds(Tail(s)) /\ Head(s).t \in Ends
           /\ AnyEnd(Tail(s)) => AnyEnd(s)
           /\ AnyEnd(s) => Head(s).t \in Ends \/ AnyEnd(Tail(s))
           /\ Head(s).t \in Ends => AnyEnd(s)
<1>1. /\ Len(s) \in Nat /\ 1 \in 1..Len(s) /\ Head(s) = s[1] /\ Len(Tail(s)) = Len(s) - 1
      /\ \A i \in 1..Len(Tail(s)) : Tail(s)[i] = s[i + 1] /\ i + 1 \in 1..Len(s) /\ i + 1 > 1
  <2>1. /\ Len(s) \in Nat /\ Len(s) > 0 /\ Head(s) = s[1]
        /\ Len(Tail(s)) = Len(s) - 1 /\ \A i \in 1..Len(Tail(s)) : Tail(s)[i] = s[i + 1]
    BY HeadTailProperties, LenProperties
  <2> QED
    BY <2>1
<1>2. ASSUME NEW kind, AtMostOne(s, kind)
      PROVE  AtMostOne(Tail(s), kind) /\ (Head(s).t = kind => ~Has(Tail(s), kind))
  <2>1. ASSUME NEW i \in 1..Len(Tail(s)), NEW j \in 1..Len(Tail(s)),
               Tail(s)[i].t = kind, Tail(s)[j].t = kind
        PROVE  i = j
    <3>1. i + 1 = j + 1
      BY <1>1, <1>2, <2>1 DEF AtMostOne
    <3> QED
      BY <3>1
  <2>2. ASSUME Head(s).t = kind, NEW i \in 1..Len(Tail(s)), Tail(s)[i].t = kind PROVE FALSE
    BY <1>1, <1>2, <2>2 DEF AtMostOne
  <2> QED
    BY <2>1, <2>2 DEF AtMostOne, Has
<1>3. ASSUME NEW first, NEW last, Before(s, first, last)
      PROVE  Before(Tail(s), first, last) /\ (Head(s).t = last => ~Has(Tail(s), first))
  <2>1. ASSUME NEW i \in 1..Len(Tail(s)), NEW j \in 1..Len(Tail(s)),
               Tail(s)[i].t = first, Tail(s)[j].t = last
        PROVE  i < j
    <3>1. i + 1 < j + 1
      BY <1>1, <1>3, <2>1 DEF Before
    <3> QED
      BY <3>1
  <2>2. ASSUME Head(s).t = last, NEW i \in 1..Len(Tail(s)), Tail(s)[i].t = first PROVE FALSE
    <3>1. i + 1 < 1
      BY <1>1, <1>3, <2>2 DEF Before
    <3> QED
      BY <3>1
  <2> QED
    BY <2>1, <2>2 DEF Before, Has
<1>4. ASSUME EndsLast(s)
      PROVE  EndsLast(Tail(s)) /\ (Head(s).t \in Ends => AllEnds(Tail(s)))
  <2>1. ASSUME NEW i \in 1..Len(Tail(s)), NEW j \in 1..Len(Tail(s)), Tail(s)[i].t \in Ends, i < j
        PROVE  Tail(s)[j].t \in Ends
    <3>1. i + 1 < j + 1
      BY <2>1
    <3> QED
      BY <1>1, <1>4, <2>1, <3>1 DEF EndsLast
  <2>2. ASSUME Head(s).t \in Ends, NEW i \in 1..Len(Tail(s)) PROVE Tail(s)[i].t \in Ends
    <3>1. 1 < i + 1 /\ i + 1 \in 1..Len(s) /\ s[1].t \in Ends
      BY <1>1, <2>2
    <3>2. s[i + 1].t \in Ends
      BY <1>1, <1>4, <3>1 DEF EndsLast
    <3> QED
      BY <1>1, <3>2
  <2> QED
    BY <2>1, <2>2 DEF EndsLast, AllEnds
<1>5. AllEnds(s) => AllEnds(Tail(s)) /\ Head(s).t \in Ends
  BY <1>1 DEF AllEnds
<1>6. AnyEnd(Tail(s)) => AnyEnd(s)
  BY <1>1 DEF AnyEnd
<1>7. ASSUME NEW i \in 1..Len(s), s[i].t \in Ends, Head(s).t \notin Ends PROVE AnyEnd(Tail(s))
  <2>1. i - 1 \in 1..Len(Tail(s)) /\ Tail(s)[i - 1] = s[i]
    BY <1>1, <1>7
  <2> QED
    BY <1>7, <2>1 DEF AnyEnd
<1>8. Head(s).t \in Ends => AnyEnd(s)
  BY <1>1 DEF AnyEnd
<1>9. AnyEnd(s) => Head(s).t \in Ends \/ AnyEnd(Tail(s))
  BY <1>7 DEF AnyEnd
<1> QED
  BY <1>2, <1>3, <1>4, <1>5, <1>6, <1>8, <1>9

\* The order when one message is added.
LEMMA AppendOrder ==
    ASSUME NEW S, NEW s \in Seq(S), NEW m \in S
    PROVE  /\ \A kind : AtMostOne(s, kind) /\ (m.t = kind => ~Has(s, kind)) =>
                 AtMostOne(Append(s, m), kind)
           /\ \A first, last : Before(s, first, last) /\ first # last
                               /\ (m.t = first => ~Has(s, last)) =>
                 Before(Append(s, m), first, last)
<1>1. /\ Len(s) \in Nat /\ Len(Append(s, m)) = Len(s) + 1 /\ Append(s, m)[Len(s) + 1] = m
      /\ \A i \in 1..Len(s) : Append(s, m)[i] = s[i]
      /\ \A i \in 1..Len(s) + 1 : i \in 1..Len(s) \/ i = Len(s) + 1
  BY AppendProperties, LenProperties
<1>2. ASSUME NEW kind, AtMostOne(s, kind), m.t = kind => ~Has(s, kind)
      PROVE  AtMostOne(Append(s, m), kind)
  <2> SUFFICES ASSUME NEW i \in 1..Len(s) + 1, NEW j \in 1..Len(s) + 1,
                      Append(s, m)[i].t = kind, Append(s, m)[j].t = kind
               PROVE  i = j
    BY <1>1 DEF AtMostOne
  <2>1. CASE i \in 1..Len(s) /\ j \in 1..Len(s)
    BY <1>1, <1>2, <2>1 DEF AtMostOne
  <2>2. i \in 1..Len(s) \/ j \in 1..Len(s) => Has(s, kind)
    BY <1>1 DEF Has
  <2>3. i = Len(s) + 1 \/ j = Len(s) + 1 => m.t = kind
    BY <1>1
  <2> QED
    BY <1>1, <1>2, <2>1, <2>2, <2>3
<1>3. ASSUME NEW first, NEW last, Before(s, first, last), first # last,
             m.t = first => ~Has(s, last)
      PROVE  Before(Append(s, m), first, last)
  <2> SUFFICES ASSUME NEW i \in 1..Len(s) + 1, NEW j \in 1..Len(s) + 1,
                      Append(s, m)[i].t = first, Append(s, m)[j].t = last
               PROVE  i < j
    BY <1>1 DEF Before
  <2>1. CASE i \in 1..Len(s) /\ j \in 1..Len(s)
    BY <1>1, <1>3, <2>1 DEF Before
  <2>2. CASE i \in 1..Len(s) /\ j = Len(s) + 1
    BY <1>1, <2>2
  <2>3. CASE i = Len(s) + 1 /\ j \in 1..Len(s)
    <3>1. m.t = first /\ Has(s, last)
      BY <1>1, <2>3 DEF Has
    <3> QED
      BY <1>3, <3>1
  <2>4. CASE i = Len(s) + 1 /\ j = Len(s) + 1
    BY <1>1, <1>3, <2>4
  <2> QED
    BY <1>1, <2>1, <2>2, <2>3, <2>4
<1> QED
  BY <1>2, <1>3

\* The order when a connection without an end is told something.
LEMMA ConcatEnds ==
    ASSUME NEW S, NEW s \in Seq(S), NEW e \in Seq(S), ~AnyEnd(s)
    PROVE  /\ AllEnds(e) /\ e # <<>> => EndsLast(s \o e) /\ AnyEnd(s \o e)
           /\ ~AnyEnd(e) => ~AnyEnd(s \o e) /\ EndsLast(s \o e)
<1>1. /\ Len(s) \in Nat /\ Len(e) \in Nat /\ Len(s \o e) = Len(s) + Len(e)
      /\ \A i \in 1..Len(s) + Len(e) :
            (s \o e)[i] = IF i <= Len(s) THEN s[i] ELSE e[i - Len(s)]
  BY ConcatProperties, LenProperties
<1>2. \A i \in 1..Len(s) + Len(e) :
         /\ i <= Len(s) => i \in 1..Len(s) /\ (s \o e)[i] = s[i]
         /\ i > Len(s) => i - Len(s) \in 1..Len(e) /\ (s \o e)[i] = e[i - Len(s)]
  BY <1>1
<1>3. \A i \in 1..Len(s) : s[i].t \notin Ends
  BY DEF AnyEnd
<1>4. ASSUME AllEnds(e), e # <<>> PROVE EndsLast(s \o e) /\ AnyEnd(s \o e)
  <2>1. ASSUME NEW i \in 1..Len(s) + Len(e), NEW j \in 1..Len(s) + Len(e),
               (s \o e)[i].t \in Ends, i < j
        PROVE  (s \o e)[j].t \in Ends
    <3>1. i > Len(s)
      BY <1>1, <1>2, <1>3, <2>1
    <3>2. j > Len(s)
      BY <1>1, <2>1, <3>1
    <3> QED
      BY <1>2, <1>4, <3>2 DEF AllEnds
  <2>2. Len(e) >= 1
    BY <1>4, EmptySeq
  <2>3. /\ Len(s) + 1 \in 1..Len(s) + Len(e) /\ Len(s) + 1 > Len(s) /\ Len(s) + 1 - Len(s) = 1
        /\ 1 \in 1..Len(e)
    BY <1>1, <2>2
  <2>4. (s \o e)[Len(s) + 1].t \in Ends
    BY <1>2, <1>4, <2>3 DEF AllEnds
  <2> QED
    BY <1>1, <2>1, <2>3, <2>4 DEF EndsLast, AnyEnd
<1>5. ASSUME ~AnyEnd(e) PROVE ~AnyEnd(s \o e)
  <2>1. \A i \in 1..Len(s) + Len(e) : (s \o e)[i].t \notin Ends
    BY <1>1, <1>2, <1>3, <1>5 DEF AnyEnd
  <2> QED
    BY <1>1, <2>1 DEF AnyEnd
<1>6. ~AnyEnd(s \o e) => EndsLast(s \o e)
  BY DEF AnyEnd, EndsLast
<1> QED
  BY <1>4, <1>5, <1>6

-----------------------------------------------------------------------------
(* The connection of the tab: what a step does to its session and its sockets. *)

SameSession(c) ==
    session'[c].closed = session[c].closed /\ session'[c].active = session[c].active
Silent(c) ==
    /\ SameSession(c) /\ down'[c] = down[c]
    /\ \/ up'[c] = up[c] \/ up'[c] = Append(up[c], Say("interrupt"))
       \/ up[c] # <<>> /\ up'[c] = Tail(up[c]) /\ Head(up[c]).t # "prompt"
EndTold(c) ==
    /\ session'[c].closed /\ session'[c].active = session[c].active /\ up'[c] = up[c]
    /\ \E e \in Seq(ToTab) : AllEnds(e) /\ e # <<>> /\ down'[c] = down[c] \o e
NameTold(c) ==
    SameSession(c) /\ up'[c] = up[c] /\ down'[c] = Append(down[c], Say("session-id"))
ReadyTold(c) ==
    /\ session[c].start = "starting"
    /\ SameSession(c) /\ up'[c] = up[c] /\ down'[c] = Append(down[c], Say("ready"))
TurnBegins(c) ==
    /\ ~session[c].active /\ session'[c].active /\ session'[c].closed = session[c].closed
    /\ up[c] # <<>> /\ Head(up[c]).t = "prompt" /\ up'[c] = Tail(up[c])
    /\ down'[c] = Append(down[c], Say("turn-start"))
TurnEnds(c) ==
    /\ session[c].active /\ ~session'[c].active /\ session'[c].closed = session[c].closed
    /\ up'[c] = up[c]
    /\ \E e \in BOOLEAN : down'[c] = Append(down[c], [t |-> "turn-end", error |-> e])
ConnStep(c) ==
    \/ Silent(c) \/ EndTold(c) \/ NameTold(c) \/ ReadyTold(c) \/ TurnBegins(c) \/ TurnEnds(c)

\* What is told on an open connection of the tab is added to it; all else is silent.
LEMMA TellHere ==
    ASSUME TypeOK, ~session[tab.conn].closed, NEW events
    PROVE  /\ Tell(tab.conn, events)[tab.conn] = down[tab.conn] \o events
           /\ \A d \in Connections \ {tab.conn} : Tell(d, events) = down
BY DEF Tell, TypeOK, Tab

LEMMA TellOne ==
    ASSUME TypeOK, ~session[tab.conn].closed, NEW m \in ToTab
    PROVE  Tell(tab.conn, <<m>>)[tab.conn] = Append(down[tab.conn], m)
<1>1. down[tab.conn] \in Seq(ToTab)
  BY DEF TypeOK, Tab
<1>2. Append(down[tab.conn], m) = down[tab.conn] \o <<m>>
  BY <1>1, AppendIsConcat
<1> QED
  BY <1>2, TellHere

\* An edit of the start, the folder or the retirement changes nothing here.
LEMMA EditSame ==
    ASSUME TypeOK, NEW c \in Connections, NEW v, NEW d \in Connections,
           \/ session' = [session EXCEPT ![c].start = v]
           \/ session' = [session EXCEPT ![c].bound = v]
           \/ session' = [session EXCEPT ![c].retire = v]
    PROVE  SameSession(d)
<1>1. session[c] \in Session
  BY DEF TypeOK
<1>2. \/ session'[c] = [session[c] EXCEPT !.start = v]
      \/ session'[c] = [session[c] EXCEPT !.bound = v]
      \/ session'[c] = [session[c] EXCEPT !.retire = v]
  BY DEF TypeOK
<1>3. \A e \in Connections \ {c} : session'[e] = session[e]
  BY DEF TypeOK
<1> QED
  BY <1>1, <1>2, <1>3 DEF SameSession, Session

\* A session that is disposed of says so to its tab.
LEMMA DisposeTells ==
    ASSUME TypeOK, ~session[tab.conn].closed, NEW c \in Connections, NEW e,
           session'[tab.conn] = (IF c = tab.conn THEN Disposed(session[c]) ELSE session[tab.conn]),
           e \in {<<Say("closed")>>, <<Say("exit"), Say("closed")>>,
                  <<Say("removed"), Say("closed")>>},
           down' = Tell(c, e), up' = up
    PROVE  ConnStep(tab.conn)
<1>1. tab.conn \in Connections /\ session[tab.conn] \in Session
  BY DEF TypeOK, Tab
<1>2. CASE c # tab.conn
  <2>1. down' = down
    BY <1>2, TellHere
  <2> QED
    BY <1>2, <2>1 DEF ConnStep, Silent, SameSession
<1>3. CASE c = tab.conn
  <2>1. e \in Seq(ToTab) /\ e # <<>> /\ AllEnds(e)
    <3>1. ASSUME e = <<Say("closed")>>
          PROVE  e \in Seq(ToTab) /\ e # <<>> /\ AllEnds(e)
      <4>1. e \in Seq(ToTab)
        BY <3>1, MessageTypes
      <4> QED
        BY <3>1, <4>1 DEF AllEnds, Say, Ends
    <3>2. ASSUME NEW why \in {"exit", "removed"}, e = <<Say(why), Say("closed")>>
          PROVE  e \in Seq(ToTab) /\ e # <<>> /\ AllEnds(e)
      <4>1. Len(e) = 2 /\ e[1].t = why /\ e[2].t = "closed"
        BY <3>2 DEF Say
      <4>2. \A i \in 1..2 : i = 1 \/ i = 2
        OBVIOUS
      <4>3. e \in Seq(ToTab)
        BY <3>2, MessageTypes
      <4>4. e # <<>>
        BY <3>2
      <4> QED
        BY <4>1, <4>2, <4>3, <4>4 DEF AllEnds, Ends
    <3> QED
      BY <3>1, <3>2
  <2>2. down'[tab.conn] = down[tab.conn] \o e
    BY <1>3, TellHere
  <2>3. session'[tab.conn].closed /\ session'[tab.conn].active = session[tab.conn].active
    BY <1>1, <1>3 DEF Disposed, Session
  <2>4. EndTold(tab.conn)
    BY <2>1, <2>2, <2>3 DEF EndTold
  <2> QED
    BY <2>4 DEF ConnStep
<1> QED
  BY <1>2, <1>3

\* The steps of a session's life.
LEMMA ConnLifecycle ==
    ASSUME Sound, ~session[tab.conn].closed, NEW d \in Connections,
           Lifecycle(d) \/ ScopeRemoved(d) \/ Rebind(d) \/ PumpEnds(d)
    PROVE  tab' = tab /\ ConnStep(tab.conn)
<1> DEFINE c == tab.conn
<1>1. TypeOK /\ c \in Connections /\ session[c] \in Session
  BY DEF Sound, TypeOK, Tab
<1>2. tab' = tab /\ up' = up
  BY DEF Lifecycle, Acquire, TakeOver, Claim, Launch, Ready, RetirementEnds, ScopeRemoved,
         Rebind, PumpEnds
<1> SUFFICES ConnStep(c)
  BY <1>2
<1>3. ASSUME SameSession(c), down' = down PROVE ConnStep(c)
  BY <1>2, <1>3 DEF ConnStep, Silent
<1>4. ASSUME NEW why \in {"exit", "removed"}, Finish(d, why) PROVE ConnStep(c)
  <2>1. session'[c] = IF d = c THEN Disposed(session[d]) ELSE session[c]
    BY <1>1, <1>4 DEF Finish, TypeOK
  <2> QED
    BY <1>1, <1>2, <1>4, <2>1, DisposeTells DEF Finish
<1>5. CASE Acquire(d)
  BY <1>1, <1>3, <1>4, <1>5, EditSame DEF Acquire
<1>6. ASSUME Resolve(d) PROVE SameSession(c)
  BY <1>1, <1>6, EditSame DEF Resolve
<1>7. CASE TakeOver(d)
  <2>1. CASE session' = [session EXCEPT ![owner] = Disposed(@), ![d].start = "taking"]
             /\ owner # 0 /\ down' = Tell(owner, <<Say("closed")>>)
    <3>1. owner \in Connections /\ session[d].start = "queued" /\ session[owner].start # "queued"
      <4>1. owner \in Connections
        BY <1>1, <2>1 DEF TypeOK, Connections
      <4>2. session[owner].start # "queued"
        BY <2>1 DEF Sound, Opened
      <4> QED
        BY <1>7, <4>1, <4>2 DEF TakeOver
    <3>2. CASE c = d
      <4>1. session'[c] = [session[c] EXCEPT !.start = "taking"]
        BY <1>1, <2>1, <3>1, <3>2 DEF TypeOK
      <4>2. SameSession(c)
        BY <1>1, <4>1 DEF SameSession, Session
      <4>3. down' = down
        BY <1>1, <2>1, <3>1, <3>2, TellHere
      <4> QED
        BY <1>3, <4>2, <4>3
    <3>3. CASE c # d
      <4>1. session'[c] = IF owner = c THEN Disposed(session[owner]) ELSE session[c]
        BY <1>1, <2>1, <3>1, <3>3 DEF TypeOK
      <4> QED
        BY <1>1, <1>2, <2>1, <3>1, <4>1, DisposeTells
    <3> QED
      BY <3>2, <3>3
  <2>2. CASE session' = [session EXCEPT ![d].start = "taking"] /\ down' = down
    BY <1>1, <1>3, <2>2, EditSame
  <2> QED
    BY <1>3, <1>6, <1>7, <2>1, <2>2 DEF TakeOver
<1>8. CASE Claim(d)
  BY <1>3, <1>6, <1>8 DEF Claim
<1>9. CASE Launch(d)
  <2>1. CASE session' = [session EXCEPT ![d].start = "starting", ![d].query = 1] /\ down' = down
    <3>1. session'[c] = session[c] \/ session'[c] = [session[c] EXCEPT !.start = "starting",
                                                                      !.query = 1]
      BY <1>1, <2>1 DEF TypeOK
    <3>2. SameSession(c)
      BY <1>1, <3>1 DEF SameSession, Session
    <3> QED
      BY <1>3, <2>1, <3>2
  <2> QED
    BY <1>1, <1>3, <1>4, <1>9, <2>1, EditSame DEF Launch
<1>10. CASE Ready(d)
  <2>1. SameSession(c)
    BY <1>1, <1>10, EditSame DEF Ready
  <2>2. CASE d = c
    <3>1. Say("ready") \in ToTab
      BY MessageTypes
    <3>2. down'[c] = Append(down[c], Say("ready"))
      BY <1>1, <1>10, <2>2, <3>1, TellOne DEF Ready
    <3>3. ReadyTold(c)
      BY <1>2, <1>10, <2>1, <2>2, <3>2 DEF Ready, ReadyTold
    <3> QED
      BY <3>3 DEF ConnStep
  <2>3. CASE d # c
    BY <1>1, <1>3, <1>10, <2>1, <2>3, TellHere DEF Ready
  <2> QED
    BY <2>2, <2>3
<1>11. CASE RetirementEnds(d) \/ Rebind(d)
  BY <1>1, <1>3, <1>11, EditSame DEF RetirementEnds, Rebind
<1>12. CASE ScopeRemoved(d) \/ PumpEnds(d)
  BY <1>4, <1>12 DEF ScopeRemoved, PumpEnds
<1> QED
  BY <1>2, <1>5, <1>7, <1>8, <1>9, <1>10, <1>11, <1>12 DEF Lifecycle

\* The end of a turn is told.
LEMMA EndOfTurn ==
    ASSUME Sound, ~session[tab.conn].closed, session[tab.conn].active,
           ~session'[tab.conn].active, session'[tab.conn].closed = session[tab.conn].closed,
           up' = up, NEW e \in BOOLEAN, down' = Tell(tab.conn, <<[t |-> "turn-end", error |-> e]>>)
    PROVE  ConnStep(tab.conn)
<1>1. [t |-> "turn-end", error |-> e] \in ToTab
  BY MessageTypes
<1>2. down'[tab.conn] = Append(down[tab.conn], [t |-> "turn-end", error |-> e])
  BY <1>1, TellOne DEF Sound
<1> QED
  BY <1>2 DEF ConnStep, TurnEnds

\* The steps of a session's turn.
LEMMA ConnTurn ==
    ASSUME ~SkillsVanish, Sound, EveryTurn, ~session[tab.conn].closed,
           ~Has(up[tab.conn], "close"),
           Has(up[tab.conn], "prompt") => ~session[tab.conn].active,
           Turning(tab.conn), tab' = tab, [Next]_vars
    PROVE  ConnStep(tab.conn)
<1> DEFINE c == tab.conn
           s == session[c]
<1>1. TypeOK /\ Opened /\ c \in Connections /\ s \in Session /\ up[c] \in Seq(ToServer)
  BY DEF Sound, TypeOK, Tab
<1>2. ASSUME session' = session, up' = up, down' = down PROVE ConnStep(c)
  BY <1>2 DEF ConnStep, Silent, SameSession
<1>3. ASSUME OnMessage(c) \/ Drained(c) \/ Migrated(c) \/ \E leg \in {1, 2} : OnResult(c, leg),
             OnMessage(c) => Head(up[c]).t # "close"
      PROVE  session'[c].closed = s.closed
  <2>1. Apart({})
    BY <1>1, <1>3, TurnKeepsLife
  <2> QED
    BY <1>1, <2>1 DEF Apart, SameLife
<1>4. CASE OnMessage(c) /\ Head(up[c]).t # "close"
  <2>1. up[c] # <<>> /\ up'[c] = Tail(up[c])
    BY <1>1, <1>4 DEF OnMessage, TypeOK
  <2>2. session'[c].closed = s.closed
    BY <1>3, <1>4
  <2>3. CASE Head(up[c]).t = "prompt"
    <3>1. ~s.active
      BY <1>1, <2>1, <2>3, TailHas
    <3>2. PICK q \in Prompts : Begins(c, q)
      BY <1>1, <1>4, <2>3, <3>1, MessageEffects DEF Passes
    <3>3. Say("turn-start") \in ToTab
      BY MessageTypes
    <3>4. down'[c] = Append(down[c], Say("turn-start"))
      BY <1>1, <3>2, <3>3, TellOne DEF Begins
    <3>5. session'[c].active
      BY <3>2 DEF Begins, Turned
    <3>6. TurnBegins(c)
      BY <2>1, <2>2, <2>3, <3>1, <3>4, <3>5 DEF TurnBegins
    <3> QED
      BY <3>6 DEF ConnStep
  <2>4. CASE Head(up[c]).t # "prompt"
    <3>1. session'[c].active = s.active /\ down' = down
      BY <1>1, <1>4, <2>4, MessageEffects DEF Passes, Asks, Kept, Turned
    <3> QED
      BY <2>1, <2>2, <2>4, <3>1 DEF ConnStep, Silent, SameSession
  <2> QED
    BY <2>3, <2>4
<1>5. CASE Drained(c) \/ Migrated(c)
  <2>1. session'[c].closed = s.closed /\ up' = up
    <3>1. ~OnMessage(c) \/ Head(up[c]).t # "close"
      <4>1. OnMessage(c) => up[c] # <<>>
        BY DEF OnMessage
      <4> QED
        BY <1>1, <4>1, TailHas
    <3> QED
      BY <1>3, <1>5, <3>1 DEF Drained, Migrated
  <2>2. s.active
    <3>1. s.migrating # "no"
      BY <1>5 DEF Drained, Migrated
    <3> QED
      BY <1>1, <3>1 DEF EveryTurn, Turn
  <2>3. Leaves(c) \/ GoesOn(c) \/ Breaks(c)
    BY <1>1, <1>5, DrainEffects, MigratedEffects
  <2>4. CASE Leaves(c) \/ GoesOn(c)
    BY <2>1, <2>4 DEF Leaves, GoesOn, Kept, Turned, ConnStep, Silent, SameSession
  <2>5. CASE Breaks(c)
    BY <2>1, <2>2, <2>5, EndOfTurn DEF Breaks, Turned
  <2> QED
    BY <2>3, <2>4, <2>5
<1>6. ASSUME NEW l \in {1, 2}, OnResult(c, l) PROVE ConnStep(c)
  <2>1. session'[c].closed = s.closed /\ up' = up
    <3>1. ~OnMessage(c) \/ Head(up[c]).t # "close"
      <4>1. OnMessage(c) => up[c] # <<>>
        BY DEF OnMessage
      <4> QED
        BY <1>1, <4>1, TailHas
    <3> QED
      BY <1>3, <1>6, <3>1 DEF OnResult
  <2>2. Defers(c) \/ Settles(c) \/ Discards(c)
    BY <1>1, <1>6, ResultEffects
  <2>3. CASE Defers(c) \/ Discards(c)
    BY <2>1, <2>3 DEF Defers, Discards, Kept, Turned, ConnStep, Silent, SameSession
  <2>4. CASE Settles(c)
    BY <2>1, <2>4, EndOfTurn DEF Settles, Turned
  <2> QED
    BY <2>2, <2>3, <2>4
<1>7. ASSUME NEW x \in stops, x.conn = c, InterruptAnswered(x) PROVE ConnStep(c)
  <2> DEFINE ended == [Answered(x) EXCEPT !.active = FALSE, !.requested = FALSE]
  <2>1. /\ Answered(x) \in Session
        /\ \/ session' = [session EXCEPT ![c] = ended]
           \/ session' = [session EXCEPT ![c] = Answered(x)]
    BY <1>1, <1>7, InterruptAnsweredSteps
  <2>2. Answered(x).closed = s.closed
    BY <1>1, <1>7 DEF Answered, Session
  <2>3. ended.closed = Answered(x).closed
    BY <2>1 DEF Session
  <2> HIDE DEF ended
  <2>4. session'[c].closed = s.closed /\ up' = up
    <3>1. session'[c] = ended \/ session'[c] = Answered(x)
      BY <1>1, <2>1, OneSession
    <3> QED
      BY <1>7, <2>2, <2>3, <3>1 DEF InterruptAnswered
  <2>5. \/ /\ Deferring(s) /\ ~session'[c].active
           /\ \E e \in BOOLEAN : down' = Tell(c, <<[t |-> "turn-end", error |-> e]>>)
        \/ session'[c].active = s.active /\ down' = down
    BY <1>1, <1>7, AnswerEffects DEF Turned
  <2>6. CASE session'[c].active = s.active /\ down' = down
    BY <2>4, <2>6 DEF ConnStep, Silent, SameSession
  <2> QED
    BY <2>4, <2>5, <2>6, EndOfTurn DEF Deferring
<1>8. CASE \/ \E x \in stops : InterruptLands(x)
           \/ \E l \in {1, 2} : Answer(<<c, l>>) \/ ProcessEnds(<<c, l>>)
  BY <1>2, <1>8 DEF InterruptLands, Answer, ProcessEnds
<1> QED
  BY <1>4, <1>5, <1>6, <1>7, <1>8 DEF Turning

\* The steps of a tab whose connection is open.
LEMMA ConnSteps ==
    ASSUME ~SkillsVanish, Sound, EveryTurn, ~session[tab.conn].closed,
           ~Has(up[tab.conn], "close"),
           Has(up[tab.conn], "prompt") => ~session[tab.conn].active, [Next]_vars
    PROVE  \/ Send \/ EditAndResend \/ TryAgain \/ Composed \/ Receive
           \/ \E q \in 0..MaxPrompts : Connect(q)
           \/ tab' = tab /\ ConnStep(tab.conn)
<1> DEFINE c == tab.conn
           Step == tab' = tab /\ ConnStep(c)
<1>1. TypeOK /\ Opened /\ c \in Connections /\ up[c] \in Seq(ToServer) /\ c <= opened
  BY DEF Sound, TypeOK, Tab, Opened
<1>2. ASSUME session'[c] = session[c], up'[c] = up[c], down' = down, tab' = tab PROVE Step
  BY <1>2 DEF ConnStep, Silent, SameSession
<1>3. CASE UNCHANGED vars
  BY <1>2, <1>3 DEF vars
<1>4. CASE User
  <2>1. CASE StopTurn
    <3>1. up'[c] = Append(up[c], Say("interrupt"))
      BY <1>1, <2>1 DEF StopTurn, TypeOK
    <3> QED
      BY <2>1, <3>1 DEF StopTurn, ConnStep, Silent, SameSession
  <2>2. CASE ElsewhereResumes
    <3>1. session'[c] = session[c]
      BY <1>1, <2>2 DEF ElsewhereResumes, Open, TypeOK, Connections
    <3> QED
      BY <1>2, <2>2, <3>1 DEF ElsewhereResumes
  <2>3. ReconnectFromCard \/ ReconnectAfterFatal => \E q \in 0..MaxPrompts : Connect(q)
    <3>1. 0 \in 0..MaxPrompts /\ (typed < MaxPrompts => typed + 1 \in 0..MaxPrompts)
      BY <1>1 DEF TypeOK
    <3> QED
      BY <3>1 DEF ReconnectFromCard, ReconnectAfterFatal
  <2> QED
    BY <1>4, <2>1, <2>2, <2>3 DEF User
<1>5. CASE Process
  <2>1. ASSUME NEW d \in Connections, FirstMessage(d) PROVE Step
    <3>1. CASE d = c
      <4>1. Say("session-id") \in ToTab
        BY MessageTypes
      <4>2. down'[c] = Append(down[c], Say("session-id"))
        BY <1>1, <2>1, <3>1, <4>1, TellOne DEF FirstMessage
      <4> QED
        BY <2>1, <4>2 DEF FirstMessage, ConnStep, NameTold, SameSession
    <3>2. CASE d # c
      BY <1>1, <1>2, <2>1, <3>2, TellHere DEF FirstMessage
    <3> QED
      BY <3>1, <3>2
  <2> QED
    BY <1>2, <1>5, <2>1 DEF Process, Answer, ProcessEnds, InterruptLands
<1>6. ASSUME NEW d \in Connections, Lifecycle(d) \/ ScopeRemoved(d) \/ Rebind(d) \/ PumpEnds(d)
      PROVE  Step
  BY <1>6, ConnLifecycle
<1>7. ASSUME Turning(c), tab' = tab PROVE Step
  BY <1>7, ConnTurn
<1>8. ASSUME NEW d \in Connections, OnMessage(d) PROVE Step
  <2>1. CASE d = c
    <3>1. up[c] # <<>>
      BY <1>8, <2>1 DEF OnMessage
    <3>2. Head(up[c]).t # "close"
      BY <1>1, <3>1, TailHas
    <3> QED
      BY <1>7, <1>8, <2>1, <3>2 DEF Turning, OnMessage
  <2>2. CASE d # c
    <3>1. tab' = tab /\ up'[c] = up[c] /\ down' = down
      BY <1>1, <1>8, <2>2, TellHere DEF OnMessage, OnPrompt, TypeOK
    <3>2. session'[c] = session[c]
      BY <1>1, <1>8, <2>2 DEF OnMessage, OnPrompt, OnInterrupt, TypeOK
    <3> QED
      BY <1>2, <3>1, <3>2
  <2> QED
    BY <2>1, <2>2
<1>9. ASSUME NEW d \in Connections,
             Drained(d) \/ Migrated(d) \/ \E leg \in {1, 2} : OnResult(d, leg)
      PROVE  Step
  <2>1. CASE d = c
    BY <1>7, <1>9, <2>1 DEF Turning, Drained, Migrated, OnResult
  <2>2. CASE d # c
    <3>1. tab' = tab /\ up' = up /\ down' = down
      BY <1>1, <1>9, <2>2, TellHere DEF Drained, Migrated, OnResult, Settle
    <3>2. session'[c] = session[c]
      BY <1>1, <1>9, <2>2 DEF Drained, Migrated, OnResult, Settle, TypeOK
    <3> QED
      BY <1>2, <3>1, <3>2
  <2> QED
    BY <2>1, <2>2
<1>10. ASSUME NEW x \in stops, InterruptAnswered(x) PROVE Step
  <2>1. CASE x.conn = c
    BY <1>7, <1>10, <2>1 DEF Turning, InterruptAnswered
  <2>2. CASE x.conn # c
    <3>1. /\ x.conn \in Connections
          /\ \/ session' = [session EXCEPT ![x.conn] =
                              [Answered(x) EXCEPT !.active = FALSE, !.requested = FALSE]]
             \/ session' = [session EXCEPT ![x.conn] = Answered(x)]
          /\ (\E e \in BOOLEAN : down' = Tell(x.conn, <<[t |-> "turn-end", error |-> e]>>))
             \/ down' = down
      BY <1>1, <1>10, InterruptAnsweredSteps
    <3>2. session'[c] = session[c]
      BY <1>1, <2>2, <3>1, OneSession
    <3>3. down' = down
      BY <1>1, <2>2, <3>1, TellHere
    <3> QED
      BY <1>2, <1>10, <3>2, <3>3 DEF InterruptAnswered
  <2> QED
    BY <2>1, <2>2
<1> QED
  BY <1>3, <1>4, <1>5, <1>6, <1>8, <1>9, <1>10 DEF Next, Renderer, Turns

\* A closed connection of the tab is silent.
LEMMA ClosedConn ==
    ASSUME Sound, session[tab.conn].closed, [Next]_vars
    PROVE  \/ Receive \/ \E q \in 0..MaxPrompts : Connect(q)
           \/ down'[tab.conn] = down[tab.conn] /\ tab'.conn = tab.conn /\ tab'.phase = tab.phase
<1>1. TypeOK
  BY DEF Sound
<1>2. \A d \in Connections : \A e : Tell(d, e)[tab.conn] = down[tab.conn]
  BY <1>1 DEF Tell, TypeOK, Tab
<1> QED
  BY <1>1, <1>2, DownSteps, TabFields DEF Tells

-----------------------------------------------------------------------------
(* The tab and its connection. *)

\* Nothing passes on other connections, and nothing has passed on those to come.
Here ==
    /\ ~Has(up[tab.conn], "close")
    /\ \A c \in Connections \ {tab.conn} : down[c] = <<>>
    /\ \A c \in Connections : c > opened => up[c] = <<>>

\* A session has a turn only when it is up.
Active == \A c \in Connections : session[c].active => session[c].start = "up"

\* The tab learns that its session is closed, after everything else it was told.
Over == {"closed", "retired"}
EndKnown(closed, phase, d) ==
    /\ closed /\ phase \notin Over => AnyEnd(d)
    /\ AnyEnd(d) => closed
    /\ EndsLast(d)
    /\ phase \in Over => closed /\ AllEnds(d)

\* Before its session is ready, the tab sends no prompt and the session has no turn.
Waiting(t, u, d, active) ==
    /\ t.composing = 0 /\ ~t.busy /\ ~active
    /\ ~Has(u, "prompt") /\ ~Has(d, "turn-start") /\ ~Has(d, "turn-end")
    /\ AtMostOne(d, "ready") /\ ~Has(d, "error")

\* The turn of a live tab is at one place: its prompt is being composed or on its way,
\* the session works on it, or its end is on its way.
Balanced(t, u, d, active) ==
    /\ t.busy <=> t.composing # 0 \/ Has(u, "prompt") \/ active \/ Has(d, "turn-end")
    /\ t.composing # 0 => ~Has(u, "prompt")
    /\ t.composing # 0 \/ Has(u, "prompt") => ~active
    /\ t.composing # 0 \/ Has(u, "prompt") \/ active => ~Has(d, "turn-end")
    /\ AtMostOne(u, "prompt") /\ AtMostOne(d, "turn-start") /\ AtMostOne(d, "turn-end")
    /\ Before(d, "turn-start", "turn-end")
    /\ Has(d, "turn-start") => active \/ Has(d, "turn-end")
    /\ (active \/ Has(d, "turn-end")) /\ ~Has(d, "turn-start") => ~t.ended
    /\ ~Has(d, "ready") /\ ~Has(d, "error")

Tabbed ==
    LET c == tab.conn
    IN  /\ EndKnown(session[c].closed, tab.phase, down[c])
        /\ tab.phase = "connecting" /\ ~session[c].closed =>
              Waiting(tab, up[c], down[c], session[c].active)
        /\ tab.phase = "live" /\ ~session[c].closed =>
              Balanced(tab, up[c], down[c], session[c].active)

LEMMA HereStep ==
    ASSUME Sound, Here, [Next]_vars
    PROVE  Here'
<1>1. TypeOK /\ Opened /\ tab.conn \in Connections /\ opened \in Nat /\ tab.conn <= opened
  BY DEF Sound, TypeOK, Tab, Opened, Connections
<1>2. ASSUME NEW q \in 0..MaxPrompts, Connect(q)
      PROVE  /\ opened' = opened + 1 /\ tab'.conn = opened + 1 /\ opened + 1 \in Connections
             /\ up'[opened + 1] = up[opened + 1]
             /\ \A c \in Connections : down'[c] = IF c = tab.conn THEN <<>> ELSE down[c]
  <2>1. opened' = opened + 1 /\ opened + 1 \in Connections /\ opened + 1 # tab.conn
    <3>1. opened' = opened + 1 /\ opened + 1 \in Connections
      <4>1. opened' = opened + 1 /\ opened < MaxConnections
        BY <1>2 DEF Connect, Open
      <4> QED
        BY <1>1, <4>1, AgentSessionAssumption DEF Connections
    <3>2. tab.conn \in Nat
      BY <1>1 DEF Connections
    <3> QED
      BY <1>1, <3>1, <3>2
  <2>2. tab'.conn = opened + 1
    BY <1>1, <1>2 DEF Connect, TypeOK, Tab
  <2>3. up' = [up EXCEPT ![tab.conn] = Append(@, Say("close"))] /\ down' = [down EXCEPT ![tab.conn] = <<>>]
    BY <1>2 DEF Connect
  <2> QED
    BY <1>1, <2>1, <2>2, <2>3 DEF TypeOK
<1>3. opened' \in Nat /\ opened' >= opened
  <2>1. Send \/ EditAndResend \/ TryAgain \/ Composed \/ Receive => opened' = opened
    BY DEF Send, EditAndResend, TryAgain, Composed, Receive, counters
  <2> QED
    BY <1>1, <1>2, <2>1, TabSteps DEF Open
<1>4. \A c \in Connections : up[c] \in Seq(ToServer)
  BY <1>1 DEF TypeOK
<1>5. ~Has(up'[tab'.conn], "close")
  <2>1. ASSUME NEW q \in 0..MaxPrompts, Connect(q) PROVE ~Has(up'[tab'.conn], "close")
    <3>1. up'[tab'.conn] = <<>>
      BY <1>1, <1>2, <2>1 DEF Here
    <3> QED
      BY <3>1 DEF Has
  <2>2. ASSUME \A q \in 0..MaxPrompts : ~Connect(q) PROVE ~Has(up'[tab'.conn], "close")
    <3>1. tab'.conn = tab.conn
      BY <1>1, <2>2, TabFields
    <3>2. ASSUME NEW m \in ToServer, m.t # "close"
          PROVE  ~Has(Append(up[tab.conn], m), "close")
      BY <1>1, <1>4, <3>2, AppendHas DEF Here
    <3>3. Say("interrupt") \in ToServer /\ Say("interrupt").t # "close"
      BY MessageTypes DEF Say
    <3>4. tab.composing # 0 =>
             LET m == [t |-> "prompt", prompt |-> tab.composing]
             IN  m \in ToServer /\ m.t # "close"
      <4>1. tab.composing # 0 => tab.composing \in Prompts
        BY <1>1 DEF TypeOK, Tab, Prompts
      <4> QED
        BY <4>1, MessageTypes
    <3>5. up[tab.conn] # <<>> => ~Has(Tail(up[tab.conn]), "close")
      BY <1>1, <1>4, TailHas DEF Here
    <3>6. \/ up'[tab.conn] = up[tab.conn]
          \/ up'[tab.conn] = Append(up[tab.conn], Say("interrupt"))
          \/ /\ tab.composing # 0
             /\ up'[tab.conn] = Append(up[tab.conn], [t |-> "prompt", prompt |-> tab.composing])
          \/ up[tab.conn] # <<>> /\ up'[tab.conn] = Tail(up[tab.conn])
      BY <1>1, <2>2, UpSteps
    <3> QED
      BY <3>1, <3>2, <3>3, <3>4, <3>5, <3>6 DEF Here
  <2> QED
    BY <2>1, <2>2
<1>6. ASSUME NEW c \in Connections, c # tab'.conn PROVE down'[c] = <<>>
  <2>1. ASSUME NEW q \in 0..MaxPrompts, Connect(q) PROVE down'[c] = <<>>
    BY <1>2, <1>6, <2>1 DEF Here
  <2>2. ASSUME \A q \in 0..MaxPrompts : ~Connect(q) PROVE down'[c] = <<>>
    <3>1. c # tab.conn /\ down[c] = <<>>
      BY <1>1, <1>6, <2>2, TabFields DEF Here
    <3>2. Receive => down'[c] = down[c]
      BY <1>1, <3>1 DEF Receive, TypeOK
    <3>3. Tells => down'[c] = down[c]
      BY <1>1, <3>1 DEF Tells, Tell, TypeOK
    <3> QED
      BY <1>1, <2>2, <3>1, <3>2, <3>3, DownSteps
  <2> QED
    BY <2>1, <2>2
<1>7. ASSUME NEW c \in Connections, c > opened' PROVE up'[c] = <<>>
  <2>1. c # tab.conn /\ up[c] = <<>>
    BY <1>1, <1>3, <1>7 DEF Here, Connections
  <2> QED
    BY <1>1, <2>1, UpSteps
<1> QED
  BY <1>5, <1>6, <1>7 DEF Here

LEMMA ActiveStep ==
    ASSUME Sound, Active, [Next]_vars
    PROVE  Active'
<1> SUFFICES ASSUME NEW c \in Connections, session'[c].active
             PROVE  session'[c].start = "up"
  BY DEF Active
<1>1. TypeOK /\ Opened /\ (session[c].start = "up" => session'[c].start = "up")
  BY UpStays DEF Sound
<1>2. ASSUME session'[c].active => session[c].active PROVE session'[c].start = "up"
  BY <1>1, <1>2 DEF Active
<1>3. CASE Quiet(c)
  BY <1>2, <1>3 DEF Quiet, SameTurn
<1>4. CASE OnMessage(c) /\ Head(up[c]).t # "close"
  <2>1. CASE Head(up[c]).t = "prompt"
    <3>1. up[c] \in Seq(ToServer) /\ up[c] # <<>>
      BY <1>1, <1>4 DEF OnMessage, TypeOK
    <3>2. Has(up[c], "prompt")
      BY <2>1, <3>1, TailHas
    <3> QED
      BY <1>1, <3>2 DEF Sound, Prompted
  <2>2. CASE Head(up[c]).t # "prompt"
    <3>1. Passes(c) \/ Asks(c)
      BY <1>1, <1>4, <2>2, MessageEffects
    <3> QED
      BY <1>2, <3>1 DEF Passes, Asks, Kept, Turned
  <2> QED
    BY <2>1, <2>2
<1>5. CASE Drained(c)
  BY <1>1, <1>2, <1>5, DrainEffects DEF Leaves, GoesOn, Breaks, Kept, Turned
<1>6. CASE Migrated(c)
  BY <1>1, <1>2, <1>6, MigratedEffects DEF Leaves, Kept, Turned
<1>7. ASSUME NEW leg \in {1, 2}, OnResult(c, leg) PROVE session'[c].start = "up"
  BY <1>1, <1>2, <1>7, ResultEffects DEF Defers, Settles, Discards, Kept, Turned
<1>8. ASSUME NEW x \in stops, x.conn = c, InterruptAnswered(x) PROVE session'[c].start = "up"
  BY <1>1, <1>2, <1>8, AnswerEffects DEF Turned
<1>9. CASE session' = session
  BY <1>2, <1>9
<1> QED
  BY <1>1, <1>3, <1>4, <1>5, <1>6, <1>7, <1>8, <1>9, TurnSteps
     DEF Turning, InterruptLands, Answer, ProcessEnds

\* A new connection of the tab starts with empty sockets, a session that has no turn,
\* and no prompt.
LEMMA ConnectFields ==
    ASSUME Sound, Here, Active, NEW q \in 0..MaxPrompts, Connect(q)
    PROVE  LET c == tab'.conn
           IN  /\ c \in Connections /\ tab'.phase = "connecting" /\ ~tab'.busy
               /\ tab'.composing = 0 /\ up'[c] = <<>> /\ down'[c] = <<>>
               /\ ~session'[c].closed /\ ~session'[c].active
<1> DEFINE c == opened + 1
<1>1. TypeOK /\ Opened /\ tab.conn \in Connections /\ opened \in Nat /\ tab.conn <= opened
  <2>1. TypeOK /\ Opened
    BY DEF Sound
  <2>2. tab.conn \in Connections
    BY <2>1 DEF TypeOK, Tab
  <2>3. opened \in Nat /\ tab.conn <= opened
    BY <2>1 DEF TypeOK, Opened, Connections
  <2> QED
    BY <2>1, <2>2, <2>3
<1>2. c \in Connections /\ c > opened /\ c # tab.conn
  <2>1. opened < MaxConnections
    BY DEF Connect, Open
  <2>2. tab.conn \in Nat
    BY <1>1 DEF Connections
  <2> QED
    BY <1>1, <2>1, <2>2, AgentSessionAssumption DEF Connections
<1>3. tab'.conn = c /\ tab'.phase = "connecting" /\ ~tab'.busy /\ tab'.composing = 0
  <2>1. tab \in Tab
    BY <1>1 DEF TypeOK
  <2>2. tab' = [tab EXCEPT !.conn = c, !.phase = "connecting", !.busy = FALSE,
                           !.queue = <<>>, !.composing = 0, !.retry = q, !.card = 0]
    BY DEF Connect
  <2> QED
    BY <2>1, <2>2 DEF Tab
<1>4. up'[c] = <<>> /\ down'[c] = <<>>
  <2>1. up'[c] = up[c] /\ down'[c] = down[c]
    BY <1>1, <1>2 DEF Connect, TypeOK
  <2> QED
    BY <1>2, <2>1 DEF Here
<1>5. session'[c].closed = session[c].closed /\ session'[c].active = session[c].active
  <2>1. session[c] \in Session
    BY <1>1, <1>2 DEF TypeOK
  <2>2. PICK bound : session' = [session EXCEPT ![c].start = "checking", ![c].bound = bound]
    BY DEF Connect, Open
  <2>3. session'[c] = [session[c] EXCEPT !.start = "checking", !.bound = bound]
    BY <1>1, <1>2, <2>2 DEF TypeOK
  <2> QED
    BY <2>1, <2>3 DEF Session
<1>6. session[c].start = "none" /\ ~session[c].closed /\ ~session[c].active
  BY <1>1, <1>2 DEF Opened, Active
<1> QED
  BY <1>2, <1>3, <1>4, <1>5, <1>6

\* The end of a connection comes last.
LEMMA EndTail ==
    ASSUME NEW t \in Tab, NEW closed \in BOOLEAN, NEW d \in Seq(ToTab), d # <<>>,
           EndKnown(closed, t.phase, d)
    PROVE  EndKnown(closed, Handled(t, Head(d)).phase, Tail(d))
<1> DEFINE e == Head(d)
           phase == Handled(t, e).phase
<1>1. /\ e \in ToTab
      /\ e.t \in {"ready", "session-id", "turn-start", "turn-end", "error"} \cup Ends
  <2>1. e \in ToTab
    BY HeadTailProperties
  <2> QED
    BY <2>1 DEF ToTab, Ends
<1>2. /\ e.t = "ready" => phase = "live"
      /\ e.t \in {"session-id", "turn-start", "turn-end", "error"} => phase = t.phase
      /\ e.t \in Ends => phase \in Over
  BY <1>1, HandledFields DEF Ends, Over
<1>3. "live" \notin Over
  BY DEF Over
<1>4. /\ EndsLast(d) => EndsLast(Tail(d)) /\ (e.t \in Ends => AllEnds(Tail(d)))
      /\ AllEnds(d) => AllEnds(Tail(d)) /\ e.t \in Ends
      /\ AnyEnd(Tail(d)) => AnyEnd(d)
      /\ AnyEnd(d) => e.t \in Ends \/ AnyEnd(Tail(d))
      /\ e.t \in Ends => AnyEnd(d)
  BY TailOrder
<1> HIDE DEF phase, e
<1>5. EndKnown(closed, phase, Tail(d))
  BY <1>1, <1>2, <1>3, <1>4 DEF EndKnown
<1> QED
  BY <1>5 DEF phase, e

LEMMA EndAppend ==
    ASSUME NEW s \in Seq(ToTab), NEW m \in ToTab, ~AnyEnd(s), m.t \notin Ends
    PROVE  ~AnyEnd(Append(s, m)) /\ EndsLast(Append(s, m))
<1>1. <<m>> \in Seq(ToTab) /\ Append(s, m) = s \o <<m>>
  BY AppendIsConcat
<1>2. ~AnyEnd(<<m>>)
  BY DEF AnyEnd
<1>3. ~AnyEnd(s \o <<m>>) /\ EndsLast(s \o <<m>>)
  BY <1>1, <1>2, ConcatEnds
<1> QED
  BY <1>1, <1>3

LEMMA EndConn ==
    ASSUME TypeOK, NEW c \in Connections, NEW phase, ~session[c].closed, ConnStep(c),
           EndKnown(session[c].closed, phase, down[c])
    PROVE  EndKnown(session'[c].closed, phase, down'[c])
<1>1. down[c] \in Seq(ToTab) /\ ~AnyEnd(down[c]) /\ phase \notin Over
  BY DEF EndKnown, TypeOK
<1>2. CASE Silent(c)
  BY <1>2 DEF Silent, SameSession
<1>3. CASE EndTold(c)
  BY <1>1, <1>3, ConcatEnds DEF EndTold, EndKnown
<1>4. ASSUME NEW m \in ToTab, m.t \notin Ends, session'[c].closed = session[c].closed,
             down'[c] = Append(down[c], m)
      PROVE  EndKnown(session'[c].closed, phase, down'[c])
  BY <1>1, <1>4, EndAppend DEF EndKnown
<1>5. CASE NameTold(c) \/ ReadyTold(c) \/ TurnBegins(c)
  <2>1. \A k \in {"session-id", "ready", "turn-start"} :
           Say(k) \in ToTab /\ Say(k).t \notin Ends
    BY MessageTypes DEF Say, Ends
  <2> QED
    BY <1>4, <1>5, <2>1 DEF NameTold, ReadyTold, TurnBegins, SameSession
<1>6. CASE TurnEnds(c)
  <2>1. \A e \in BOOLEAN : LET m == [t |-> "turn-end", error |-> e]
                           IN  m \in ToTab /\ m.t \notin Ends
    BY MessageTypes DEF Ends
  <2> QED
    BY <1>4, <1>6, <2>1 DEF TurnEnds
<1> QED
  BY <1>2, <1>3, <1>5, <1>6 DEF ConnStep

\* Messages that are not about the turn make no difference to it.
Kinds == {"prompt", "ready", "turn-start", "turn-end", "error"}
Alike(s, v) ==
    /\ \A k \in Kinds : (Has(v, k) <=> Has(s, k)) /\ (AtMostOne(s, k) => AtMostOne(v, k))
    /\ Before(s, "turn-start", "turn-end") => Before(v, "turn-start", "turn-end")

LEMMA AlikeSteps ==
    ASSUME NEW S, NEW s \in Seq(S)
    PROVE  /\ Alike(s, s)
           /\ \A m \in S : m.t \notin Kinds => Alike(s, Append(s, m))
           /\ s # <<>> /\ Head(s).t \notin Kinds => Alike(s, Tail(s))
<1>1. ASSUME NEW m \in S, m.t \notin Kinds PROVE Alike(s, Append(s, m))
  <2>1. \A k \in Kinds : Has(Append(s, m), k) <=> Has(s, k)
    BY <1>1, AppendHas
  <2>2. \A k \in Kinds : AtMostOne(s, k) => AtMostOne(Append(s, m), k)
    BY <1>1, AppendOrder
  <2>3. Before(s, "turn-start", "turn-end") => Before(Append(s, m), "turn-start", "turn-end")
    <3>1. m.t # "turn-start" /\ "turn-start" # "turn-end"
      BY <1>1 DEF Kinds
    <3> QED
      BY <3>1, AppendOrder
  <2> QED
    BY <2>1, <2>2, <2>3 DEF Alike
<1>2. ASSUME s # <<>>, Head(s).t \notin Kinds PROVE Alike(s, Tail(s))
  <2>1. \A k \in Kinds : Has(Tail(s), k) <=> Has(s, k)
    BY <1>2, TailHas
  <2>2. \A k \in Kinds : AtMostOne(s, k) => AtMostOne(Tail(s), k)
    BY <1>2, TailOrder
  <2>3. Before(s, "turn-start", "turn-end") => Before(Tail(s), "turn-start", "turn-end")
    BY <1>2, TailOrder
  <2> QED
    BY <2>1, <2>2, <2>3 DEF Alike
<1> QED
  BY <1>1, <1>2 DEF Alike

LEMMA AlikeKeeps ==
    ASSUME NEW t \in Tab, NEW x \in Tab, NEW u, NEW v, NEW d, NEW e, NEW active \in BOOLEAN,
           Alike(u, v), Alike(d, e),
           x.busy <=> t.busy, x.composing = t.composing, x.ended <=> t.ended
    PROVE  /\ Balanced(t, u, d, active) => Balanced(x, v, e, active)
           /\ Waiting(t, u, d, active) => Waiting(x, v, e, active)
<1>1. /\ Has(v, "prompt") <=> Has(u, "prompt")
      /\ AtMostOne(u, "prompt") => AtMostOne(v, "prompt")
  BY DEF Alike, Kinds
<1>2. \A k \in {"ready", "turn-start", "turn-end", "error"} :
         (Has(e, k) <=> Has(d, k)) /\ (AtMostOne(d, k) => AtMostOne(e, k))
  BY DEF Alike, Kinds
<1>3. Before(d, "turn-start", "turn-end") => Before(e, "turn-start", "turn-end")
  BY DEF Alike
<1> QED
  BY <1>1, <1>2, <1>3 DEF Balanced, Waiting

\* What is not there is not there twice, and comes after nothing.
LEMMA Absent ==
    ASSUME NEW s
    PROVE  /\ \A k : ~Has(s, k) => AtMostOne(s, k)
           /\ \A k, l : ~Has(s, k) \/ ~Has(s, l) => Before(s, k, l)
BY DEF Has, AtMostOne, Before

\* A message of the user begins a turn, or joins the queue of the turn there is.
LEMMA SubmitBalanced ==
    ASSUME NEW t \in Tab, NEW q \in Prompts, NEW u, NEW d, NEW active \in BOOLEAN,
           Balanced(t, u, d, active)
    PROVE  Balanced(Submit(t, q), u, d, active)
<1> DEFINE x == Submit(t, q)
<1>1. t.busy => (x.busy <=> t.busy) /\ x.composing = t.composing /\ (x.ended <=> t.ended)
  BY DEF Submit, Tab
<1>2. ~t.busy => x.busy /\ x.composing = q
  BY DEF Submit, Compose, Tab
<1>3. q # 0
  BY DEF Prompts
<1> HIDE DEF x
<1>4. Balanced(x, u, d, active)
  BY <1>1, <1>2, <1>3 DEF Balanced
<1> QED
  BY <1>4 DEF x

\* The context is there: the prompt goes from the tab to its socket.
LEMMA ComposedBalanced ==
    ASSUME NEW t \in Tab, NEW u \in Seq(ToServer), NEW d, NEW active \in BOOLEAN,
           Balanced(t, u, d, active), t.composing # 0
    PROVE  Balanced([t EXCEPT !.composing = 0],
                    Append(u, [t |-> "prompt", prompt |-> t.composing]), d, active)
<1> DEFINE m == [t |-> "prompt", prompt |-> t.composing]
           x == [t EXCEPT !.composing = 0]
<1>1. m \in ToServer /\ m.t = "prompt"
  <2>1. t.composing \in Prompts
    BY DEF Tab, Prompts
  <2> QED
    BY <2>1, MessageTypes
<1>2. (x.busy <=> t.busy) /\ x.composing = 0 /\ (x.ended <=> t.ended)
  BY DEF Tab
<1> HIDE DEF x, m
<1>3. Has(Append(u, m), "prompt")
  BY <1>1, AppendHas
<1>4. AtMostOne(Append(u, m), "prompt")
  <2>1. AtMostOne(u, "prompt") /\ ~Has(u, "prompt")
    BY DEF Balanced
  <2> QED
    BY <1>1, <2>1, AppendOrder
<1>5. Balanced(x, Append(u, m), d, active)
  BY <1>2, <1>3, <1>4 DEF Balanced
<1> QED
  BY <1>5 DEF x, m

\* The session begins the turn of a prompt, and ends it.
LEMMA BeginsBalanced ==
    ASSUME NEW t \in Tab, NEW u \in Seq(ToServer), NEW d \in Seq(ToTab),
           Balanced(t, u, d, FALSE), u # <<>>, Head(u).t = "prompt"
    PROVE  Balanced(t, Tail(u), Append(d, Say("turn-start")), TRUE)
<1> DEFINE m == Say("turn-start")
           e == Append(d, m)
<1>1. m \in ToTab /\ m.t = "turn-start"
  BY MessageTypes DEF Say
<1> HIDE DEF m
<1>2. /\ Has(u, "prompt") /\ AtMostOne(u, "prompt") /\ t.composing = 0 /\ t.busy
      /\ ~Has(d, "turn-end") /\ ~Has(d, "turn-start") /\ ~Has(d, "ready")
      /\ ~Has(d, "error")
  <2>1. Has(u, "prompt")
    BY TailHas
  <2> QED
    BY <2>1 DEF Balanced
<1>3. ~Has(Tail(u), "prompt")
  BY <1>2, TailOrder
<1>4. Has(e, "turn-start") /\ ~Has(e, "turn-end") /\ ~Has(e, "ready") /\ ~Has(e, "error")
  BY <1>1, <1>2, AppendHas
<1>5. AtMostOne(e, "turn-start")
  BY <1>1, <1>2, AppendOrder, Absent
<1> HIDE DEF e
<1>6. Balanced(t, Tail(u), e, TRUE)
  BY <1>2, <1>3, <1>4, <1>5, Absent DEF Balanced
<1> QED
  BY <1>6 DEF e, m

LEMMA EndsBalanced ==
    ASSUME NEW t \in Tab, NEW u, NEW d \in Seq(ToTab), NEW m \in ToTab,
           Balanced(t, u, d, TRUE), m.t = "turn-end"
    PROVE  Balanced(t, u, Append(d, m), FALSE)
<1> DEFINE e == Append(d, m)
<1>1. /\ ~Has(u, "prompt") /\ AtMostOne(u, "prompt") /\ t.composing = 0 /\ t.busy
      /\ ~Has(d, "turn-end") /\ AtMostOne(d, "turn-start") /\ ~Has(d, "ready")
      /\ ~Has(d, "error") /\ Before(d, "turn-start", "turn-end")
      /\ ~Has(d, "turn-start") => ~t.ended
  BY DEF Balanced
<1>2. /\ Has(e, "turn-end") /\ ~Has(e, "ready") /\ ~Has(e, "error")
      /\ Has(e, "turn-start") <=> Has(d, "turn-start")
  BY <1>1, AppendHas
<1>3. AtMostOne(e, "turn-end") /\ AtMostOne(e, "turn-start") /\ Before(e, "turn-start", "turn-end")
  BY <1>1, AppendOrder, Absent
<1> HIDE DEF e
<1>4. Balanced(t, u, e, FALSE)
  BY <1>1, <1>2, <1>3 DEF Balanced
<1> QED
  BY <1>4 DEF e

\* The end of a turn: the next prompt of the queue, or none.
LEMMA NextBalanced ==
    ASSUME NEW t \in Tab, NEW u, NEW d, t.composing = 0, ~Has(u, "prompt"),
           ~Has(d, "turn-start"), ~Has(d, "turn-end"), ~Has(d, "ready"), ~Has(d, "error")
    PROVE  Balanced(NextQueued(t), u, d, FALSE)
<1> DEFINE x == NextQueued(t)
<1>1. (~x.busy /\ x.composing = 0) \/ (x.busy /\ x.composing # 0)
  <2>1. CASE t.queue = <<>>
    BY <2>1 DEF NextQueued, Tab
  <2>2. CASE t.queue # <<>>
    <3> DEFINE idle == [t EXCEPT !.busy = FALSE]
               rest == [idle EXCEPT !.queue = Tail(@)]
    <3>1. t.queue \in Seq(Prompts)
      BY DEF Tab
    <3>2. Head(t.queue) \in Prompts /\ Tail(t.queue) \in Seq(Prompts)
      BY <2>2, <3>1, HeadTailProperties
    <3>3. Head(t.queue) # 0
      BY <3>2 DEF Prompts
    <3>4. rest \in Tab
      BY <3>2 DEF Tab
    <3>5. x = Compose(rest, Head(t.queue))
      BY <2>2 DEF NextQueued
    <3> HIDE DEF rest
    <3>6. x.busy /\ x.composing = Head(t.queue)
      BY <3>4, <3>5 DEF Compose, Tab
    <3> QED
      BY <3>3, <3>6
  <2> QED
    BY <2>1, <2>2
<1> HIDE DEF x
<1>2. Balanced(x, u, d, FALSE)
  BY <1>1, Absent DEF Balanced
<1> QED
  BY <1>2 DEF x

\* What a live tab is told about its turn.
LEMMA ReceiveBalanced ==
    ASSUME NEW t \in Tab, NEW u, NEW d \in Seq(ToTab), NEW active \in BOOLEAN,
           d # <<>>, Head(d).t \notin Ends, Balanced(t, u, d, active)
    PROVE  Balanced(Handled(t, Head(d)), u, Tail(d), active)
<1> DEFINE m == Head(d)
           e == Tail(d)
           x == Handled(t, m)
<1>1. m \in ToTab /\ e \in Seq(ToTab) /\ x \in Tab
  BY HeadTailProperties, HandledType
<1>2. m.t \in {"ready", "session-id", "turn-start", "turn-end", "error"}
  BY <1>1 DEF ToTab, Ends
<1>3. /\ \A k : (Has(e, k) => Has(d, k)) /\ (Has(d, k) => m.t = k \/ Has(e, k))
                /\ (m.t = k => Has(d, k))
      /\ \A k : AtMostOne(d, k) => AtMostOne(e, k) /\ (m.t = k => ~Has(e, k))
      /\ Before(d, "turn-start", "turn-end") =>
            Before(e, "turn-start", "turn-end") /\ (m.t = "turn-end" => ~Has(e, "turn-start"))
  BY TailHas, TailOrder
<1>4. m.t # "ready" /\ m.t # "error" /\ ~Has(e, "error")
  BY <1>3 DEF Balanced
<1>5. CASE m.t = "session-id"
  <2>1. x = [t EXCEPT !.known = TRUE]
    BY <1>5 DEF Handled
  <2>2. x.busy = t.busy /\ x.composing = t.composing /\ x.ended = t.ended
    BY <2>1 DEF Tab
  <2>3. Alike(d, e)
    BY <1>5, AlikeSteps DEF Kinds
  <2>4. Alike(u, u)
    BY DEF Alike
  <2> QED
    BY <1>1, <2>2, <2>3, <2>4, AlikeKeeps
<1>6. CASE m.t = "turn-start"
  <2>1. x = [t EXCEPT !.busy = TRUE, !.ended = FALSE]
    BY <1>6 DEF Handled
  <2>2. x.busy /\ x.composing = t.composing /\ ~x.ended
    BY <2>1 DEF Tab
  <2>3. /\ ~Has(e, "turn-start") /\ (Has(e, "turn-end") <=> Has(d, "turn-end")) /\ ~Has(e, "ready")
        /\ Has(d, "turn-start")
    BY <1>3, <1>6 DEF Balanced
  <2>4. /\ AtMostOne(e, "turn-start") /\ AtMostOne(e, "turn-end")
        /\ Before(e, "turn-start", "turn-end")
    BY <1>3 DEF Balanced
  <2> HIDE DEF x, e, m
  <2>5. Balanced(x, u, e, active)
    BY <1>4, <2>2, <2>3, <2>4 DEF Balanced
  <2> QED
    BY <2>5 DEF x, e, m
<1>7. CASE m.t = "turn-end"
  <2> DEFINE done == [t EXCEPT !.ended = TRUE, !.card = IF m.error THEN t.latest ELSE @]
  <2>1. Has(d, "turn-end") /\ ~Has(e, "turn-end") /\ ~Has(e, "turn-start") /\ ~Has(e, "ready")
    BY <1>3, <1>7 DEF Balanced
  <2>2. ~Has(d, "turn-start")
    BY <1>3, <1>7, <2>1
  <2>3. ~t.ended /\ t.composing = 0 /\ ~Has(u, "prompt") /\ ~active
    BY <2>1, <2>2 DEF Balanced
  <2>4. x = NextQueued(done)
    BY <1>7, <2>3 DEF Handled
  <2>5. done \in Tab /\ done.composing = 0
    BY <2>3 DEF Tab
  <2> HIDE DEF done, x, e, m
  <2>6. Balanced(NextQueued(done), u, e, FALSE)
    BY <1>4, <2>1, <2>3, <2>5, NextBalanced
  <2>7. active = FALSE
    BY <2>3
  <2>8. Balanced(x, u, e, active)
    BY <2>4, <2>6, <2>7
  <2> QED
    BY <2>8 DEF x, e, m
<1> QED
  BY <1>2, <1>4, <1>5, <1>6, <1>7

\* What a tab that connects is told: its session is ready, and it may go on with the
\* prompt that it reconnected for.
LEMMA ReceiveWaiting ==
    ASSUME NEW t \in Tab, NEW u, NEW d \in Seq(ToTab), NEW active \in BOOLEAN,
           d # <<>>, Head(d).t \notin Ends, Waiting(t, u, d, active)
    PROVE  /\ Head(d).t = "ready" => Balanced(Handled(t, Head(d)), u, Tail(d), active)
           /\ Head(d).t # "ready" => /\ Handled(t, Head(d)).phase = t.phase
                                     /\ Waiting(Handled(t, Head(d)), u, Tail(d), active)
<1> DEFINE m == Head(d)
           e == Tail(d)
           x == Handled(t, m)
<1>1. m \in ToTab /\ e \in Seq(ToTab) /\ x \in Tab
  BY HeadTailProperties, HandledType
<1>2. m.t \in {"ready", "session-id", "turn-start", "turn-end", "error"}
  BY <1>1 DEF ToTab, Ends
<1>3. m.t # "turn-start" /\ m.t # "turn-end" /\ m.t # "error"
  BY TailHas DEF Waiting
<1>4. ASSUME m.t = "session-id" PROVE x.phase = t.phase /\ Waiting(x, u, e, active)
  <2>1. x = [t EXCEPT !.known = TRUE]
    BY <1>4 DEF Handled
  <2>2. /\ (x.busy <=> t.busy) /\ x.composing = t.composing /\ (x.ended <=> t.ended)
        /\ x.phase = t.phase
    BY <2>1 DEF Tab
  <2>3. Alike(d, e)
    BY <1>4, AlikeSteps DEF Kinds
  <2>4. Alike(u, u)
    BY DEF Alike
  <2> HIDE DEF x, e
  <2>5. \A b \in Tab : \A v :
           (b.busy <=> t.busy) /\ b.composing = t.composing /\ (b.ended <=> t.ended)
           /\ Alike(u, u) /\ Alike(d, v) => Waiting(b, u, v, active)
    BY AlikeKeeps
  <2>6. x \in Tab
    BY <1>1
  <2>7. Waiting(x, u, e, active)
    BY <2>2, <2>3, <2>4, <2>5, <2>6, Zenon
  <2> QED
    BY <2>2, <2>7
<1>5. ASSUME m.t = "ready" PROVE Balanced(x, u, e, active)
  <2> DEFINE live == [t EXCEPT !.phase = "live", !.retry = 0]
  <2>1. /\ ~Has(e, "ready") /\ ~Has(e, "turn-start") /\ ~Has(e, "turn-end")
        /\ ~Has(e, "error")
    <3>1. ~Has(e, "ready")
      BY <1>5, TailOrder DEF Waiting
    <3> QED
      BY <3>1, TailHas DEF Waiting
  <2>2. live \in Tab /\ ~live.busy /\ live.composing = 0
    <3>1. 0 \in 0..MaxPrompts
      OBVIOUS
    <3> QED
      BY <3>1 DEF Waiting, Tab
  <2>3. ~Has(u, "prompt") /\ ~active
    BY DEF Waiting
  <2>4. x = IF t.retry = 0 THEN live ELSE Submit(live, t.retry)
    BY <1>5 DEF Handled
  <2>5. t.retry # 0 => t.retry \in Prompts
    BY DEF Tab, Prompts
  <2> HIDE DEF live, x, e
  <2>6. Balanced(live, u, e, active)
    BY <2>1, <2>2, <2>3, Absent DEF Balanced
  <2>7. Balanced(x, u, e, active)
    BY <2>2, <2>4, <2>5, <2>6, SubmitBalanced
  <2> QED
    BY <2>7 DEF x, e
<1> QED
  BY <1>2, <1>3, <1>4, <1>5

\* What the session does is what the tab waits for.
LEMMA SilentAlike ==
    ASSUME TypeOK, NEW c \in Connections, Silent(c)
    PROVE  Alike(up[c], up'[c]) /\ Alike(down[c], down'[c])
<1>1. up[c] \in Seq(ToServer) /\ down[c] \in Seq(ToTab)
  BY DEF TypeOK
<1>2. Say("interrupt") \in ToServer /\ Say("interrupt").t \notin Kinds
  BY MessageTypes DEF Say, Kinds
<1>3. Alike(up[c], Append(up[c], Say("interrupt")))
  BY <1>1, <1>2, AlikeSteps
<1>4. up[c] # <<>> /\ Head(up[c]).t # "prompt" => Alike(up[c], Tail(up[c]))
  <2>1. up[c] # <<>> => Head(up[c]).t \in {"prompt", "interrupt", "close"}
    BY <1>1, HeadTailProperties DEF ToServer
  <2> QED
    BY <1>1, <2>1, AlikeSteps DEF Kinds
<1>5. Alike(up[c], up[c]) /\ Alike(down[c], down[c])
  BY DEF Alike
<1> QED
  BY <1>3, <1>4, <1>5 DEF Silent

LEMMA NameAlike ==
    ASSUME TypeOK, NEW c \in Connections
    PROVE  Alike(down[c], Append(down[c], Say("session-id")))
<1>1. down[c] \in Seq(ToTab)
  BY DEF TypeOK
<1>2. Say("session-id") \in ToTab /\ Say("session-id").t \notin Kinds
  BY MessageTypes DEF Say, Kinds
<1> QED
  BY <1>1, <1>2, AlikeSteps

LEMMA ConnBalanced ==
    ASSUME TypeOK, NEW c \in Connections, session[c].start = "up", ~session'[c].closed,
           TypeOK', ConnStep(c), Balanced(tab, up[c], down[c], session[c].active)
    PROVE  Balanced(tab, up'[c], down'[c], session'[c].active)
<1>1. /\ tab \in Tab /\ up[c] \in Seq(ToServer) /\ down[c] \in Seq(ToTab)
      /\ session[c].active \in BOOLEAN /\ session'[c].active \in BOOLEAN
  <2>1. session[c] \in Session /\ session'[c] \in Session
    BY DEF TypeOK, Connections
  <2> QED
    BY <2>1 DEF TypeOK, Session
<1>2. CASE Silent(c)
  <2>1. session'[c].active = session[c].active
    BY <1>2 DEF Silent, SameSession
  <2> QED
    BY <1>1, <1>2, <2>1, SilentAlike, AlikeKeeps
<1>3. CASE NameTold(c)
  <2>1. /\ session'[c].active = session[c].active /\ up'[c] = up[c]
        /\ down'[c] = Append(down[c], Say("session-id"))
    BY <1>3 DEF NameTold, SameSession
  <2>2. Alike(up[c], up[c])
    BY DEF Alike
  <2> QED
    BY <1>1, <2>1, <2>2, NameAlike, AlikeKeeps
<1>4. CASE TurnBegins(c)
  <2>1. /\ session[c].active = FALSE /\ session'[c].active = TRUE
        /\ up[c] # <<>> /\ Head(up[c]).t = "prompt" /\ up'[c] = Tail(up[c])
        /\ down'[c] = Append(down[c], Say("turn-start"))
    BY <1>1, <1>4 DEF TurnBegins
  <2>2. Balanced(tab, up[c], down[c], FALSE)
    BY <2>1
  <2>3. Balanced(tab, Tail(up[c]), Append(down[c], Say("turn-start")), TRUE)
    BY <1>1, <2>1, <2>2, BeginsBalanced
  <2> QED
    BY <2>1, <2>3
<1>5. CASE TurnEnds(c)
  <2>1. session[c].active = TRUE /\ session'[c].active = FALSE /\ up'[c] = up[c]
    BY <1>1, <1>5 DEF TurnEnds
  <2>2. PICK e \in BOOLEAN : down'[c] = Append(down[c], [t |-> "turn-end", error |-> e])
    BY <1>5 DEF TurnEnds
  <2>3. [t |-> "turn-end", error |-> e] \in ToTab /\ [t |-> "turn-end", error |-> e].t = "turn-end"
    BY MessageTypes
  <2>4. Balanced(tab, up[c], down[c], TRUE)
    BY <2>1
  <2>5. Balanced(tab, up[c], Append(down[c], [t |-> "turn-end", error |-> e]), FALSE)
    BY <1>1, <2>3, <2>4, EndsBalanced
  <2> QED
    BY <2>1, <2>2, <2>5
<1>6. ~EndTold(c) /\ ~ReadyTold(c)
  BY DEF EndTold, ReadyTold
<1> QED
  BY <1>2, <1>3, <1>4, <1>5, <1>6 DEF ConnStep

LEMMA WaitingAlike ==
    ASSUME NEW t \in Tab, NEW u, NEW v, NEW d, NEW e, NEW active \in BOOLEAN,
           Alike(u, v), Alike(d, e), Waiting(t, u, d, active)
    PROVE  Waiting(t, v, e, active)
<1>1. (t.busy <=> t.busy) /\ t.composing = t.composing /\ (t.ended <=> t.ended)
  OBVIOUS
<1> QED
  BY <1>1, AlikeKeeps

LEMMA ConnWaiting ==
    ASSUME TypeOK, Prompted, NEW c \in Connections, ~session'[c].closed, TypeOK', ConnStep(c),
           Waiting(tab, up[c], down[c], session[c].active)
    PROVE  Waiting(tab, up'[c], down'[c], session'[c].active)
<1>1. /\ tab \in Tab /\ up[c] \in Seq(ToServer) /\ down[c] \in Seq(ToTab)
      /\ session[c].active \in BOOLEAN /\ session'[c].active \in BOOLEAN
  <2>1. session[c] \in Session /\ session'[c] \in Session
    BY DEF TypeOK, Connections
  <2> QED
    BY <2>1 DEF TypeOK, Session
<1>2. CASE Silent(c)
  <2>1. session'[c].active = session[c].active
    BY <1>2 DEF Silent, SameSession
  <2>2. Alike(up[c], up'[c]) /\ Alike(down[c], down'[c])
    BY <1>2, SilentAlike
  <2>3. Waiting(tab, up'[c], down'[c], session[c].active)
    BY <1>1, <2>2, WaitingAlike
  <2> QED
    BY <2>1, <2>3
<1>3. CASE NameTold(c)
  <2>1. /\ session'[c].active = session[c].active /\ up'[c] = up[c]
        /\ down'[c] = Append(down[c], Say("session-id"))
    BY <1>3 DEF NameTold, SameSession
  <2>2. Alike(up[c], up[c])
    BY DEF Alike
  <2>3. Alike(down[c], down'[c])
    BY <2>1, NameAlike
  <2>4. Waiting(tab, up[c], down'[c], session[c].active)
    BY <1>1, <2>2, <2>3, WaitingAlike
  <2> QED
    BY <2>1, <2>4
<1>4. CASE ReadyTold(c)
  <2>1. /\ session'[c].active = session[c].active /\ up'[c] = up[c]
        /\ down'[c] = Append(down[c], Say("ready")) /\ ~Has(down[c], "ready")
    BY <1>4 DEF ReadyTold, SameSession, Prompted
  <2>2. Say("ready") \in ToTab /\ Say("ready").t = "ready"
    BY MessageTypes DEF Say
  <2>3. \A k \in {"turn-start", "turn-end", "error"} :
           Has(Append(down[c], Say("ready")), k) <=> Has(down[c], k)
    BY <1>1, <2>2, AppendHas
  <2>4. AtMostOne(Append(down[c], Say("ready")), "ready")
    BY <1>1, <2>1, <2>2, AppendOrder, Absent
  <2> QED
    BY <2>1, <2>3, <2>4 DEF Waiting
<1>5. ~TurnBegins(c)
  BY <1>1, TailHas DEF TurnBegins, Waiting
<1>6. ~EndTold(c) /\ ~TurnEnds(c)
  BY DEF EndTold, TurnEnds, Waiting
<1> QED
  BY <1>2, <1>3, <1>4, <1>5, <1>6 DEF ConnStep

\* What the user and the prompt's context do to a tab: its connection, its phase and
\* what it was told stay, and its turn stays balanced.
LEMMA UserBalanced ==
    ASSUME TypeOK, Send \/ EditAndResend \/ TryAgain \/ Composed
    PROVE  LET c == tab.conn
           IN  /\ tab'.conn = tab.conn /\ tab'.phase = tab.phase
               /\ session' = session /\ down' = down
               /\ tab.phase = "live" /\ Balanced(tab, up[c], down[c], session[c].active) =>
                     Balanced(tab', up'[c], down[c], session[c].active)
<1> DEFINE c == tab.conn
           Follows == tab.phase = "live" /\ Balanced(tab, up[c], down[c], session[c].active) =>
                      Balanced(tab', up'[c], down[c], session[c].active)
           Same == tab'.conn = tab.conn /\ tab'.phase = tab.phase
<1>1. /\ tab \in Tab /\ c \in Connections /\ up[c] \in Seq(ToServer)
      /\ down[c] \in Seq(ToTab) /\ session[c].active \in BOOLEAN
  <2>1. tab \in Tab /\ c \in Connections
    BY DEF TypeOK, Tab
  <2>2. session[c] \in Session
    BY <2>1 DEF TypeOK
  <2> QED
    BY <2>1, <2>2 DEF TypeOK, Session
<1>2. session' = session /\ down' = down
  BY DEF Send, EditAndResend, TryAgain, Composed
<1>3. typed < MaxPrompts => typed + 1 \in Prompts
  BY DEF TypeOK, Prompts
<1>4. ASSUME Send PROVE Same /\ Follows
  <2>1. tab' = Submit(tab, typed + 1) /\ up' = up /\ typed + 1 \in Prompts
    BY <1>3, <1>4 DEF Send
  <2> QED
    BY <1>1, <2>1, SubmitFields, SubmitBalanced DEF SameTab
<1>5. ASSUME TryAgain PROVE Same /\ Follows
  <2> DEFINE x == [tab EXCEPT !.card = 0]
  <2>1. tab' = Submit(x, typed + 1) /\ up' = up /\ typed + 1 \in Prompts
    BY <1>3, <1>5 DEF TryAgain
  <2>2. /\ x \in Tab /\ x.conn = tab.conn /\ x.phase = tab.phase
        /\ x.busy = tab.busy /\ x.composing = tab.composing /\ x.ended = tab.ended
    <3>1. 0 \in 0..MaxPrompts
      BY <1>1 DEF Tab
    <3> QED
      BY <1>1, <3>1 DEF Tab
  <2> HIDE DEF x
  <2>3. Alike(up[c], up[c]) /\ Alike(down[c], down[c])
    BY DEF Alike
  <2>4. Balanced(tab, up[c], down[c], session[c].active) =>
           Balanced(x, up[c], down[c], session[c].active)
    BY <1>1, <2>2, <2>3, AlikeKeeps
  <2> QED
    BY <1>1, <2>1, <2>2, <2>4, SubmitFields, SubmitBalanced DEF SameTab
<1>6. ASSUME EditAndResend PROVE Same /\ Follows
  <2>1. /\ tab' = [tab EXCEPT !.queue = <<typed + 1>> \o @] /\ typed + 1 \in Prompts
        /\ up'[c] = Append(up[c], Say("interrupt"))
    BY <1>1, <1>3, <1>6 DEF EditAndResend, TypeOK
  <2>2. <<typed + 1>> \o tab.queue \in Seq(Prompts)
    BY <1>1, <2>1 DEF Tab
  <2>3. /\ tab' \in Tab /\ tab'.conn = tab.conn /\ tab'.phase = tab.phase
        /\ tab'.busy = tab.busy /\ tab'.composing = tab.composing /\ tab'.ended = tab.ended
    BY <1>1, <2>1, <2>2 DEF Tab
  <2>4. Say("interrupt") \in ToServer /\ Say("interrupt").t \notin Kinds
    BY MessageTypes DEF Say, Kinds
  <2>5. Alike(up[c], up'[c]) /\ Alike(down[c], down[c])
    BY <1>1, <2>1, <2>4, AlikeSteps
  <2> QED
    BY <1>1, <2>3, <2>5, AlikeKeeps
<1>7. ASSUME Composed PROVE Same /\ Follows
  <2>1. tab' = [tab EXCEPT !.composing = 0] /\ tab.composing # 0
    BY <1>7 DEF Composed
  <2>2. Same
    BY <1>1, <2>1 DEF Tab
  <2>3. tab.phase = "live" =>
           up'[c] = Append(up[c], [t |-> "prompt", prompt |-> tab.composing])
    BY <1>1, <1>7 DEF Composed, TypeOK
  <2> QED
    BY <1>1, <2>1, <2>2, <2>3, ComposedBalanced
<1> QED
  BY <1>2, <1>4, <1>5, <1>6, <1>7

LEMMA TabbedStep ==
    ASSUME ~SkillsVanish, Sound, EveryTurn, Here, Active, Tabbed, TypeOK', [Next]_vars
    PROVE  Tabbed'
<1> DEFINE c == tab.conn
           Live == /\ tab.phase = "connecting" => Waiting(tab, up[c], down[c], session[c].active)
                   /\ tab.phase = "live" => Balanced(tab, up[c], down[c], session[c].active)
           Still == tab'.conn = c /\ tab'.phase = tab.phase
           EndNext == EndKnown(session'[c].closed, tab'.phase, down'[c])
           LiveNext ==
              ~session'[c].closed =>
                 /\ tab'.phase = "connecting" => Waiting(tab', up'[c], down'[c], session'[c].active)
                 /\ tab'.phase = "live" => Balanced(tab', up'[c], down'[c], session'[c].active)
           Goal == tab'.conn = c /\ EndNext /\ LiveNext
<1>1. /\ TypeOK /\ Opened /\ Prompted /\ tab \in Tab /\ c \in Connections
      /\ session[c] \in Session /\ session[c].closed \in BOOLEAN /\ session[c].active \in BOOLEAN
      /\ up[c] \in Seq(ToServer) /\ down[c] \in Seq(ToTab)
  <2>1. TypeOK /\ Opened /\ Prompted /\ tab \in Tab /\ c \in Connections
    BY DEF Sound, TypeOK, Tab
  <2>2. session[c] \in Session
    BY <2>1 DEF TypeOK
  <2> QED
    BY <2>1, <2>2 DEF TypeOK, Session
<1>2. /\ EndKnown(session[c].closed, tab.phase, down[c])
      /\ ~session[c].closed => Live /\ tab.phase \notin Over
  BY DEF Tabbed, EndKnown
<1>3. ASSUME Goal PROVE Tabbed'
  BY <1>3 DEF Tabbed
<1>4. ASSUME NEW q \in 0..MaxPrompts, Connect(q) PROVE Tabbed'
  <2> DEFINE d == tab'.conn
  <2>1. /\ d \in Connections /\ tab'.phase = "connecting" /\ ~tab'.busy
        /\ tab'.composing = 0 /\ up'[d] = <<>> /\ down'[d] = <<>>
        /\ ~session'[d].closed /\ ~session'[d].active
    BY <1>4, ConnectFields
  <2>2. /\ ~AnyEnd(<<>>) /\ EndsLast(<<>>) /\ \A k : ~Has(<<>>, k)
    BY DEF AnyEnd, EndsLast, Has
  <2>3. EndKnown(session'[d].closed, tab'.phase, down'[d])
    BY <2>1, <2>2 DEF EndKnown, Over
  <2>4. Waiting(tab', up'[d], down'[d], session'[d].active)
    BY <2>1, <2>2, Absent DEF Waiting
  <2> QED
    BY <2>1, <2>3, <2>4 DEF Tabbed
<1>5. CASE Receive
  <2> DEFINE m == Head(down[c])
  <2>1. /\ down[c] # <<>> /\ tab' = Handled(tab, m) /\ down'[c] = Tail(down[c])
        /\ session' = session /\ up' = up /\ m \in ToTab
    BY <1>1, <1>5, HeadTailProperties DEF Receive, TypeOK
  <2>2. tab'.conn = c
    BY <1>1, <2>1, HandledFields
  <2>3. EndNext
    BY <1>1, <1>2, <2>1, EndTail
  <2>4. CASE m.t \in Ends
    <3>1. tab'.phase \in Over
      BY <1>1, <2>1, <2>4, HandledFields DEF Ends, Over
    <3> QED
      BY <1>3, <2>2, <2>3, <3>1 DEF Over
  <2>5. CASE m.t \notin Ends
    <3>1. ASSUME ~session[c].closed, tab.phase = "live" PROVE LiveNext
      <4>1. Balanced(tab', up[c], Tail(down[c]), session[c].active)
        BY <1>1, <1>2, <2>1, <2>5, <3>1, ReceiveBalanced
      <4>2. m.t \in {"ready", "session-id", "turn-start", "turn-end", "error"}
        BY <2>1, <2>5 DEF ToTab, Ends
      <4>3. tab'.phase = "live"
        BY <1>1, <2>1, <3>1, <4>2, HandledFields
      <4> QED
        BY <2>1, <4>1, <4>3
    <3>2. ASSUME ~session[c].closed, tab.phase = "connecting" PROVE LiveNext
      <4>1. Waiting(tab, up[c], down[c], session[c].active)
        BY <1>2, <3>2
      <4>2. m.t = "ready" => /\ Balanced(tab', up[c], Tail(down[c]), session[c].active)
                             /\ tab'.phase = "live"
        BY <1>1, <2>1, <2>5, <4>1, ReceiveWaiting, HandledFields
      <4>3. m.t # "ready" => /\ tab'.phase = tab.phase
                             /\ Waiting(tab', up[c], Tail(down[c]), session[c].active)
        BY <1>1, <2>1, <2>5, <4>1, ReceiveWaiting
      <4> QED
        BY <2>1, <3>2, <4>2, <4>3
    <3>3. ~session[c].closed => tab.phase = "connecting" \/ tab.phase = "live"
      BY <1>1, <1>2 DEF Tab, Over
    <3> QED
      BY <1>3, <2>1, <2>2, <2>3, <3>1, <3>2, <3>3
  <2> QED
    BY <2>4, <2>5
<1>6. CASE session[c].closed /\ ~Receive /\ \A q \in 0..MaxPrompts : ~Connect(q)
  <2>1. down'[c] = down[c] /\ Still
    BY <1>6, ClosedConn
  <2>2. session'[c].closed
    BY <1>1, <1>6, UpStays DEF Sound
  <2>3. session'[c].closed = session[c].closed
    <3>1. session'[c] \in Session
      BY <1>1 DEF TypeOK, Connections
    <3> QED
      BY <1>1, <1>6, <2>2, <3>1 DEF Session
  <2> QED
    BY <1>2, <1>3, <2>1, <2>2, <2>3
<1>7. CASE ~session[c].closed /\ ~Receive /\ \A q \in 0..MaxPrompts : ~Connect(q)
  <2>1. Live /\ (tab.phase = "connecting" \/ tab.phase = "live")
    BY <1>1, <1>2, <1>7 DEF Tab, Over
  <2>2. Has(up[c], "prompt") => ~session[c].active
    BY <2>1 DEF Waiting, Balanced
  <2>3. Send \/ EditAndResend \/ TryAgain \/ Composed \/ (tab' = tab /\ ConnStep(c))
    BY <1>7, <2>2, ConnSteps DEF Here
  <2>4. CASE Send \/ EditAndResend \/ TryAgain \/ Composed
    <3>1. /\ Still /\ session' = session /\ down' = down
          /\ tab.phase = "live" => Balanced(tab', up'[c], down[c], session[c].active)
      BY <1>1, <2>1, <2>4, UserBalanced
    <3>2. tab.phase = "live"
      BY <2>1, <2>4 DEF Send, EditAndResend, TryAgain, Composed, Waiting
    <3> QED
      BY <1>2, <1>3, <3>1, <3>2
  <2>5. CASE tab' = tab /\ ConnStep(c)
    <3>1. EndNext
      BY <1>1, <1>2, <1>7, <2>5, EndConn
    <3>2. LiveNext
      <4>1. ASSUME ~session'[c].closed, tab.phase = "live"
            PROVE  Balanced(tab, up'[c], down'[c], session'[c].active)
        <5>1. session[c].start = "up"
          BY <1>1, <4>1 DEF Prompted
        <5> QED
          BY <1>1, <2>1, <2>5, <4>1, <5>1, ConnBalanced
      <4>2. ASSUME ~session'[c].closed, tab.phase = "connecting"
            PROVE  Waiting(tab, up'[c], down'[c], session'[c].active)
        BY <1>1, <2>1, <2>5, <4>2, ConnWaiting
      <4> QED
        BY <2>1, <2>5, <4>1, <4>2
    <3> QED
      BY <1>3, <2>5, <3>1, <3>2
  <2> QED
    BY <2>3, <2>4, <2>5
<1> QED
  BY <1>4, <1>5, <1>6, <1>7

\* All of it: what TabAgrees rests on.
Settled == Sound /\ EveryTurn /\ Here /\ Active /\ Tabbed

LEMMA TabInvariant == ASSUME ~SkillsVanish PROVE Spec => []Settled
<1>1. Init => Here /\ Active /\ Tabbed
  <2> SUFFICES ASSUME Init PROVE Here /\ Active /\ Tabbed
    OBVIOUS
  <2>1. /\ tab.conn = 1 /\ tab.phase = "live" /\ ~tab.busy /\ tab.composing = 0
        /\ \A c \in Connections : up[c] = <<>> /\ down[c] = <<>>
        /\ \A c \in Connections : ~session[c].closed /\ ~session[c].active
        /\ 1 \in Connections
    BY AgentSessionAssumption DEF Init, Unopened, Connections
  <2>2. /\ ~AnyEnd(<<>>) /\ EndsLast(<<>>) /\ \A k : ~Has(<<>>, k)
    BY DEF AnyEnd, EndsLast, Has
  <2>3. Here /\ Active
    BY <2>1, <2>2 DEF Here, Active
  <2>4. EndKnown(session[1].closed, tab.phase, down[1])
    BY <2>1, <2>2 DEF EndKnown, Over
  <2>5. Balanced(tab, up[1], down[1], session[1].active)
    BY <2>1, <2>2, Absent DEF Balanced
  <2> QED
    BY <2>1, <2>3, <2>4, <2>5 DEF Tabbed
<1>2. Sound /\ Sound' /\ EveryTurn /\ Here /\ Active /\ Tabbed /\ [Next]_vars
         => Here' /\ Active' /\ Tabbed'
  BY HereStep, ActiveStep, TabbedStep DEF Sound
<1>3. Spec => [](Sound /\ EveryTurn)
  BY TurnInvariant
<1>4. Spec => [](Here /\ Active /\ Tabbed)
  BY <1>1, <1>2, <1>3, PTL DEF Spec
<1> QED
  BY <1>3, <1>4, PTL DEF Settled

\* When nothing is under way between the tab and its session, they agree on whether a
\* turn is active: the end of every turn, and of every connection, reaches the tab; a
\* prompt is composed only when no turn is active, so the session drops none; and an
\* answer to an earlier turn never ends the turn of a later prompt.  The skill of a
\* prompt must be there when the prompt arrives: one that is refused (agent.ts:782)
\* leaves its tab busy beside an idle session.
THEOREM Agreement == ASSUME ~SkillsVanish PROVE Spec => []TabAgrees
<1>1. Settled => TabAgrees
  <2> SUFFICES ASSUME Settled, tab.phase = "live", tab.composing = 0,
                      up[tab.conn] = <<>>, down[tab.conn] = <<>>
               PROVE  tab.busy <=> session[tab.conn].active
    BY DEF TabAgrees
  <2>1. \A k : ~Has(<<>>, k)
    BY DEF Has
  <2>2. ~AnyEnd(<<>>)
    BY DEF AnyEnd
  <2>3. ~session[tab.conn].closed
    BY <2>2 DEF Settled, Tabbed, EndKnown, Over
  <2>4. Balanced(tab, up[tab.conn], down[tab.conn], session[tab.conn].active)
    BY <2>3 DEF Settled, Tabbed
  <2> QED
    BY <2>1, <2>4 DEF Balanced
<1> QED
  BY <1>1, TabInvariant, PTL

=============================================================================
