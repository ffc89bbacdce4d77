----------------------------- MODULE MfsDaemon ------------------------------
(***************************************************************************)
(* The manager of the Python sidecar, server/mfs-daemon.ts: one child      *)
(* process at a time holds the vector store, every call waits until the    *)
(* child is configured (its rules, then every retained folder binding),    *)
(* and the child is retired and replaced on a reset, a timeout or a        *)
(* failure.                                                                *)
(*                                                                         *)
(* A generation is one spawned child with the attempt that configures it.  *)
(* An action is one callback of Node with the microtasks that follow it:   *)
(* the continuations of a settled promise run before any other callback,   *)
(* in the order in which they began to wait.                               *)
(***************************************************************************)
EXTENDS Integers, Sequences, FiniteSets, Functions

CONSTANTS Clients,       \* concurrent callers of the manager
          Folders,       \* folder roots
          MaxFaults,     \* bound on what ends a generation
          Resets         \* callers also forget the bindings

ASSUME MfsDaemonAssumption ==
    /\ IsFiniteSet(Clients) /\ IsFiniteSet(Folders)
    /\ Folders # {}
    /\ "bootstrap" \notin Clients
    /\ MaxFaults \in Nat
    /\ Resets \in BOOLEAN

VARIABLES
    generation,  \* number of children spawned so far
    gen,         \* per generation: its state, and the calls that wait for it
    proc,        \* the current child, 0 for null
    readyP,      \* the generation whose attempt is the readiness latch, or 0
    closeP,      \* the generation that is being retired, or 0
    ladder,      \* how far its escalation has come
    held,        \* the calls that wait for closeP
    pending,     \* what was sent to the current child and is not answered
    bindings,    \* the folder roots recorded for replay
    conf,        \* what the current child has accepted
    forgetting,  \* a reset waits for closeP to forget the bindings
    outcome,     \* how the last call of each client ended
    retired,     \* history: the generations that close() has retired
    faults

vars == <<generation, gen, proc, readyP, closeP, ladder, held, pending, bindings,
          conf, forgetting, outcome, retired, faults>>

-----------------------------------------------------------------------------
Generations == 1..(MaxFaults + 1)

\* spawning until the child is ready, then rules and replay until the attempt
\* is configured; "over" is a child whose attempt has failed or was retired, and
\* "killed" one that was sent SIGKILL and is no longer waited for.
GenerationStates ==
    {"unborn", "spawning", "rules", "replay", "configured", "over", "killed", "gone"}

ClientRequest == [by : Clients, op : {"bind", "unbind", "query"}, folder : Folders]
Bootstrap(op, f) == [by |-> "bootstrap", op |-> op, folder |-> f]
AnyFolder == CHOOSE f \in Folders : TRUE
SetRules == Bootstrap("rules", AnyFolder)
BootstrapRequest == {SetRules} \cup {Bootstrap("bind", f) : f \in Folders}
AnyRequest == ClientRequest \cup BootstrapRequest

Reasons == {"reply", "error reply", "retiring", "timed out", "exited", "not running"}
Outcome == [failed : BOOLEAN, why : Reasons, gen : 0..(MaxFaults + 1)]
Answered == [failed |-> FALSE, why |-> "reply", gen |-> 0]
Failed(why, g) == [failed |-> TRUE, why |-> why, gen |-> g]

Generation == [state : GenerationStates, calls : Seq(ClientRequest)]
Unborn == [state |-> "unborn", calls |-> <<>>]
Starting(calls) == [state |-> "spawning", calls |-> calls]
Over == [state |-> "over", calls |-> <<>>]
Gone == [state |-> "gone", calls |-> <<>>]
Configuration ==
    [rules : BOOLEAN, bound : SUBSET Folders, refused : SUBSET Folders,
     replayed : SUBSET Folders]
Unconfigured == [rules |-> FALSE, bound |-> {}, refused |-> {}, replayed |-> {}]

Alive(g) == gen[g].state \notin {"unborn", "gone"}
Callers(calls) == {r.by : r \in Range(calls)}
InFlight == Callers(held) \cup Callers(pending)
              \cup UNION {Callers(gen[g].calls) : g \in Generations}

AllFail(calls, why, g) ==
    [c \in Clients |-> IF c \in Callers(calls) THEN Failed(why, g) ELSE outcome[c]]

Fault == faults < MaxFaults /\ faults' = faults + 1

Init ==
    /\ generation = 0
    /\ gen = [g \in Generations |-> Unborn]
    /\ proc = 0 /\ readyP = 0 /\ closeP = 0
    /\ ladder = "eof"
    /\ held = <<>> /\ pending = <<>>
    /\ bindings = {}
    /\ conf = Unconfigured
    /\ forgetting = FALSE
    /\ outcome = [c \in Clients |-> Answered]
    /\ retired = {}
    /\ faults = 0

-----------------------------------------------------------------------------
(* Calls. *)

\* No latch: the first of the calls spawns a child, the others join its attempt.
\* G is the generations map before.
Spawn(G, calls) ==
    /\ generation' = generation + 1
    /\ gen' = [G EXCEPT ![generation + 1] = Starting(calls)]
    /\ proc' = generation + 1
    /\ readyP' = generation + 1
    /\ conf' = Unconfigured

\* Variant with a bug (for OneStore): ensureReady does not wait for closeP.
SendWithoutWaiting(r) ==
    \/ /\ readyP # 0 /\ gen[readyP].state = "configured"
       /\ pending' = Append(pending, r)
       /\ UNCHANGED <<generation, gen, proc, readyP, held, conf>>
    \/ /\ readyP # 0 /\ gen[readyP].state # "configured"
       /\ gen' = [gen EXCEPT ![readyP].calls = Append(@, r)]
       /\ UNCHANGED <<generation, proc, readyP, held, pending, conf>>
    \/ /\ readyP = 0
       /\ generation \in 0..MaxFaults
       /\ Spawn(gen, <<r>>)
       /\ UNCHANGED <<held, pending>>

\* call(): ensureReady, then callReadyProcess.
Send(r) ==
    \/ /\ closeP # 0
       /\ held' = Append(held, r)
       /\ UNCHANGED <<generation, gen, proc, readyP, pending, conf>>
    \/ /\ closeP = 0 /\ readyP # 0 /\ gen[readyP].state = "configured"
       /\ pending' = Append(pending, r)
       /\ UNCHANGED <<generation, gen, proc, readyP, held, conf>>
    \/ /\ closeP = 0 /\ readyP # 0 /\ gen[readyP].state # "configured"
       /\ gen' = [gen EXCEPT ![readyP].calls = Append(@, r)]
       /\ UNCHANGED <<generation, proc, readyP, held, pending, conf>>
    \/ /\ closeP = 0 /\ readyP = 0
       /\ Spawn(gen, <<r>>)
       /\ UNCHANGED <<held, pending>>

Bind(c, f) ==
    /\ c \notin InFlight
    /\ bindings' = bindings \cup {f}
    /\ Send([by |-> c, op |-> "bind", folder |-> f])
    /\ UNCHANGED <<closeP, ladder, forgetting, outcome, retired, faults>>

\* Without a child there is nobody to tell.
Unbind(c, f) ==
    /\ c \notin InFlight
    /\ bindings' = bindings \ {f}
    /\ IF proc = 0
       THEN UNCHANGED <<generation, gen, proc, readyP, held, pending, conf>>
       ELSE Send([by |-> c, op |-> "unbind", folder |-> f])
    /\ UNCHANGED <<closeP, ladder, forgetting, outcome, retired, faults>>

\* Every other operation.
Query(c) ==
    /\ c \notin InFlight
    /\ Send([by |-> c, op |-> "query", folder |-> AnyFolder])
    /\ UNCHANGED <<closeP, ladder, bindings, forgetting, outcome, retired, faults>>

-----------------------------------------------------------------------------
(* The child speaks. *)

\* The "ready" event, of the current child or of one that retires and is not
\* killed yet; spawnAndConfigure then finds no child.
ChildReady(g) ==
    /\ gen[g].state = "spawning"
    /\ \/ /\ proc = g
          /\ gen' = [gen EXCEPT ![g].state = "rules"]
          /\ pending' = <<SetRules>>
          /\ outcome' = outcome
       \/ /\ closeP = g /\ ladder # "kill"
          /\ gen' = [gen EXCEPT ![g] = Over]
          /\ outcome' = AllFail(gen[g].calls, "not running", g)
          /\ pending' = pending
    /\ UNCHANGED <<generation, proc, readyP, closeP, ladder, held, bindings, conf,
                   forgetting, retired, faults>>

\* Variant with a bug (for ConfiguredBarrier): the bindings to replay are those
\* of the moment when the rules were accepted, and none is awaited.
ReplayNothing(accepted) ==
    /\ gen' = [gen EXCEPT ![proc] = [state |-> "configured", calls |-> <<>>]]
    /\ pending' = gen[proc].calls

\* The loop over the live map of bindings: the next replay, or the calls that
\* waited for the attempt are sent.
Replay(accepted) ==
    LET missing == bindings \ accepted.replayed
    IN  \/ /\ missing # {}
           /\ gen' = [gen EXCEPT ![proc].state = "replay"]
           /\ \E f \in missing : pending' = <<Bootstrap("bind", f)>>
        \/ /\ missing = {}
           /\ gen' = [gen EXCEPT ![proc] = [state |-> "configured", calls |-> <<>>]]
           /\ pending' = gen[proc].calls

\* What the child works with once it has accepted r.
Accepted(r) ==
    [conf EXCEPT
       !.rules    = @ \/ r = SetRules,
       !.bound    = IF r.op = "bind" THEN @ \cup {r.folder}
                    ELSE IF r.op = "unbind" THEN @ \ {r.folder} ELSE @,
       !.replayed = IF r.by \notin Clients /\ r.op = "bind" THEN @ \cup {r.folder} ELSE @]

\* The child serves its requests in order; this one well.
Reply ==
    /\ pending # <<>>
    /\ LET r == Head(pending)
       IN  /\ conf' = Accepted(r)
           /\ \/ /\ r.by \notin Clients
                 /\ Replay(conf')
                 /\ outcome' = outcome
              \/ /\ r.by \in Clients
                 /\ pending' = Tail(pending)
                 /\ outcome' = [outcome EXCEPT ![r.by] = Answered]
                 /\ gen' = gen
    /\ UNCHANGED <<generation, proc, readyP, closeP, ladder, held, bindings,
                   forgetting, retired, faults>>

-----------------------------------------------------------------------------
(* Retirement. *)

\* The synchronous part of close(), with a child.  Everything pending fails; the
\* victims have just failed for a reason of their own.  An attempt that still
\* spawns is not told.
Retire(victims, why) ==
    LET g == proc
        spawning == gen[g].state = "spawning"
        lost == Callers(pending) \cup (IF spawning THEN {} ELSE Callers(gen[g].calls))
    IN  /\ proc' = 0
        /\ readyP' = 0
        /\ closeP' = g
        /\ ladder' = "eof"
        /\ pending' = <<>>
        /\ outcome' = [c \in Clients |-> IF c \in victims THEN Failed(why, g)
                                         ELSE IF c \in lost THEN Failed("retiring", g)
                                         ELSE outcome[c]]
        /\ gen' = [gen EXCEPT ![g] = IF spawning THEN @ ELSE Over]
        /\ retired' = retired \cup {g}
        /\ UNCHANGED <<generation, held, conf>>

\* A folder removal, a shutdown, close_store.
Close ==
    /\ proc # 0
    /\ Fault
    /\ Retire({}, "retiring")
    /\ UNCHANGED <<bindings, forgetting>>

\* resetIndexerRuntime: close, then forget the bindings.
Reset ==
    /\ Resets
    /\ ~forgetting
    /\ \/ /\ proc # 0
          /\ Fault
          /\ Retire({}, "retiring")
          /\ forgetting' = TRUE /\ bindings' = bindings
       \/ /\ closeP # 0
          /\ forgetting' = TRUE /\ bindings' = bindings
          /\ UNCHANGED <<generation, gen, proc, readyP, closeP, ladder, held, pending,
                         conf, outcome, retired, faults>>
       \/ /\ proc = 0 /\ closeP = 0
          /\ bindings # {} /\ bindings' = {} /\ forgetting' = forgetting
          /\ UNCHANGED <<generation, gen, proc, readyP, closeP, ladder, held, pending,
                         conf, outcome, retired, faults>>

Victims(r) == IF r.by \in Clients THEN {r.by} ELSE Callers(gen[proc].calls)

\* The child answers with an error: a refused step of the bootstrap ends the
\* attempt, and ensureReady closes.
ReplyError ==
    /\ pending # <<>>
    /\ LET r == Head(pending)
       IN  \/ /\ r.by \notin Clients
              /\ Fault
              /\ Retire(Victims(r), "error reply")
           \/ /\ r.by \in Clients
              /\ pending' = Tail(pending)
              /\ outcome' = [outcome EXCEPT ![r.by] = Failed("error reply", proc)]
              /\ conf' = [conf EXCEPT
                   !.refused = IF r.op = "query" THEN @ ELSE @ \cup {r.folder}]
              /\ UNCHANGED <<generation, gen, proc, readyP, closeP, ladder, held,
                             retired, faults>>
    /\ UNCHANGED <<bindings, forgetting>>

\* No reply in ten minutes: the child is presumed wedged.
CallTimeout ==
    /\ pending # <<>>
    /\ Fault
    /\ Retire(Victims(Head(pending)), "timed out")
    /\ UNCHANGED <<bindings, forgetting>>

\* Variant with a bug (for TypeOK): the ladder has a rung after SIGKILL.
EscalateTooFar ==
    /\ closeP # 0
    /\ ladder' = CASE ladder = "eof" -> "term" [] ladder = "term" -> "kill"
                   [] OTHER -> "dead"
    /\ UNCHANGED <<generation, gen, proc, readyP, closeP, held, pending, bindings,
                   conf, forgetting, outcome, retired, faults>>

\* Variant with a bug (for CallsSettle): the ladder ends with SIGTERM, which a
\* wedged child may ignore.
EscalateWithoutKill ==
    /\ closeP # 0
    /\ ladder = "eof" /\ ladder' = "term"
    /\ UNCHANGED <<generation, gen, proc, readyP, closeP, held, pending, bindings,
                   conf, forgetting, outcome, retired, faults>>

\* After 1.5 s and 3 s.
Escalate ==
    /\ closeP # 0
    /\ \/ ladder = "eof" /\ ladder' = "term"
       \/ ladder = "term" /\ ladder' = "kill"
    /\ UNCHANGED <<generation, gen, proc, readyP, closeP, held, pending, bindings,
                   conf, forgetting, outcome, retired, faults>>

\* The retirement barrier opens: the calls it held go on, and a reset that
\* waited for it forgets the bindings.
Release(G) ==
    /\ closeP' = 0
    /\ ladder' = "eof"
    /\ held' = <<>>
    /\ bindings' = IF forgetting THEN {} ELSE bindings
    /\ forgetting' = FALSE
    /\ IF held = <<>>
       THEN gen' = G /\ UNCHANGED <<generation, proc, readyP, conf>>
       ELSE Spawn(G, held)

RetiredChildExits ==
    /\ closeP # 0
    /\ Alive(closeP)
    /\ outcome' = AllFail(gen[closeP].calls, "exited", closeP)
    /\ Release([gen EXCEPT ![closeP] = Gone])
    /\ UNCHANGED <<pending, retired, faults>>

\* The last timer, 500 ms after SIGKILL, fires although the child has not exited.
GiveUp ==
    /\ closeP # 0
    /\ ladder = "kill"
    /\ Release([gen EXCEPT ![closeP].state = "killed"])
    /\ UNCHANGED <<pending, outcome, retired, faults>>

\* The current child crashes, cannot be spawned, or is killed because it was not
\* ready in 90 s.
CurrentChildExits ==
    /\ proc # 0
    /\ Fault
    /\ outcome' = AllFail(pending \o gen[proc].calls, "exited", proc)
    /\ gen' = [gen EXCEPT ![proc] = Gone]
    /\ pending' = <<>>
    /\ proc' = 0
    /\ readyP' = 0
    /\ UNCHANGED <<generation, closeP, ladder, held, bindings, conf, forgetting, retired>>

\* A child that was given up exits at last: the identity fence of failAll keeps
\* its successor untouched.
LateExit(g) ==
    /\ gen[g].state = "killed"
    /\ gen' = [gen EXCEPT ![g] = Gone]
    /\ outcome' = AllFail(gen[g].calls, "exited", g)
    /\ UNCHANGED <<generation, proc, readyP, closeP, ladder, held, pending, bindings,
                   conf, forgetting, retired, faults>>

-----------------------------------------------------------------------------
Next ==
    \/ \E c \in Clients :
         \/ \E f \in Folders : Bind(c, f) \/ Unbind(c, f)
         \/ Query(c)
    \/ \E g \in Generations : ChildReady(g) \/ LateExit(g)
    \/ Reply \/ ReplyError \/ CallTimeout
    \/ Close \/ Reset
    \/ Escalate \/ RetiredChildExits \/ GiveUp
    \/ CurrentChildExits

Spec == Init /\ [][Next]_vars

\* A child becomes ready or is killed by the ready timer, a request is answered
\* or times out, the escalation timers fire, and SIGKILL ends a process.
Fairness ==
    /\ \A g \in Generations : WF_vars(ChildReady(g)) /\ WF_vars(LateExit(g))
    /\ WF_vars(Reply \/ ReplyError \/ CallTimeout)
    /\ WF_vars(Escalate)
    /\ WF_vars(ladder = "kill" /\ (RetiredChildExits \/ GiveUp))

FairSpec == Spec /\ Fairness

-----------------------------------------------------------------------------
(* Properties. *)

\* The types of the variables; a client has at most one call in flight.
TypeOK ==
    /\ generation \in 0..(MaxFaults + 1)
    /\ gen \in [Generations -> Generation]
    /\ {proc, readyP, closeP} \subseteq 0..generation
    /\ ladder \in {"eof", "term", "kill"}
    /\ held \in Seq(ClientRequest)
    /\ pending \in Seq(AnyRequest)
    /\ bindings \subseteq Folders
    /\ conf \in Configuration
    /\ forgetting \in BOOLEAN
    /\ outcome \in [Clients -> Outcome]
    /\ retired \subseteq Generations
    /\ faults \in 0..MaxFaults

\* The store has one owner: no child is spawned while another one may still hold
\* its lock, however calls, resets, timeouts and crashes overlap, unless the other
\* one has survived SIGKILL for 500 ms.
OneStore == Cardinality({g \in Generations : Alive(g) /\ gen[g].state # "killed"}) <= 1

\* The latch that calls trust always belongs to the child they will write to,
\* and that child is alive and not retiring; a late event of an older generation
\* does not disturb it.
LatchIsCurrent ==
    /\ readyP = proc
    /\ proc # 0 => gen[proc].state \notin {"unborn", "over", "killed", "gone"} /\ closeP = 0
    /\ proc = 0 => pending = <<>>

\* A public operation reaches only a child that has its rules and every retained
\* binding, also one recorded while the replay was going on (or one that it has
\* refused, or whose bind is in the same pipe).
ConfiguredBarrier ==
    Callers(pending) \cap Clients # {} =>
        /\ gen[proc].state = "configured"
        /\ conf.rules
        /\ \A f \in bindings :
             \/ f \in conf.bound \cup conf.refused
             \/ \E r \in Range(pending) : r.op = "bind" /\ r.folder = f

\* Every call is settled, whatever happens to the children it waits for.
CallsSettle == \A c \in Clients : c \in InFlight ~> c \notin InFlight

\* A caller whose call was interrupted by a deliberate retirement is told so by
\* the typed error, and can run again on the replacement.
RetirementIsTyped ==
    \A c \in Clients : outcome[c].why \in {"exited", "not running"} =>
                         outcome[c].gen \notin retired

\* Once all calls have settled, the child serves no folder that was unbound
\* (unless it refused to let it go).
UnboundStaysUnbound ==
    InFlight = {} /\ proc # 0 => conf.bound \subseteq bindings \cup conf.refused
=============================================================================
