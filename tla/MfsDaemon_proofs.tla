-------------------------- MODULE MfsDaemon_proofs --------------------------
(***************************************************************************)
(* Proofs about MfsDaemon for any number of callers, folders and faults:   *)
(* the type invariant, the agreement of latch, child and retirement        *)
(* barrier, the single owner of the store, and the bootstrap barrier.      *)
(***************************************************************************)
EXTENDS MfsDaemon, FiniteSetTheorems, TLAPS

USE MfsDaemonAssumption DEF MfsDaemonAssumption

-----------------------------------------------------------------------------
(* Requests and sequences of them. *)

\* The folder that stands for none in particular is a folder.
LEMMA AnyFolderType == AnyFolder \in Folders
BY DEF AnyFolder

\* The requests that the operations send, and those of the bootstrap.
LEMMA RequestTypes ==
    /\ \A c \in Clients, f \in Folders, op \in {"bind", "unbind", "query"} :
         [by |-> c, op |-> op, folder |-> f] \in ClientRequest
    /\ SetRules \in BootstrapRequest
    /\ \A f \in Folders : Bootstrap("bind", f) \in BootstrapRequest
    /\ \A r \in ClientRequest : r.by \in Clients /\ r.folder \in Folders
    /\ \A r \in BootstrapRequest : r.by \notin Clients /\ r.folder \in Folders
<1>1. \A c \in Clients, f \in Folders, op \in {"bind", "unbind", "query"} :
        [by |-> c, op |-> op, folder |-> f] \in ClientRequest
  BY DEF ClientRequest
<1>2. SetRules \in BootstrapRequest
  BY DEF BootstrapRequest
<1>3. \A f \in Folders : Bootstrap("bind", f) \in BootstrapRequest
  BY DEF BootstrapRequest
<1>4. \A r \in ClientRequest : r.by \in Clients /\ r.folder \in Folders
  BY DEF ClientRequest
<1>5. \A r \in BootstrapRequest : r.by \notin Clients /\ r.folder \in Folders
  BY AnyFolderType DEF BootstrapRequest, SetRules, Bootstrap
<1> QED
  BY <1>1, <1>2, <1>3, <1>4, <1>5

\* Requests of callers are requests.
LEMMA WidenRequests ==
    ASSUME NEW q \in Seq(ClientRequest) PROVE q \in Seq(AnyRequest)
BY DEF AnyRequest

\* An appended request is the last one; the others keep their places.
LEMMA AppendRequest ==
    ASSUME NEW S, NEW q \in Seq(S), NEW r \in S
    PROVE  /\ Append(q, r) \in Seq(S)
           /\ Len(Append(q, r)) = Len(q) + 1
           /\ \A i \in 1..Len(q) : Append(q, r)[i] = q[i]
           /\ Append(q, r)[Len(q) + 1] = r
OBVIOUS

\* The requests after the first move up by one.
LEMMA TailRequests ==
    ASSUME NEW S, NEW q \in Seq(S), q # <<>>
    PROVE  /\ Head(q) = q[1] /\ Head(q) \in S
           /\ Tail(q) \in Seq(S)
           /\ Len(q) \in Nat /\ Len(q) >= 1
           /\ Len(Tail(q)) = Len(q) - 1
           /\ \A i \in 1..(Len(q) - 1) : Tail(q)[i] = q[i + 1]
OBVIOUS

-----------------------------------------------------------------------------
(* Generations, the latch and the retirement barrier. *)

\* Every generation but the current one has ended by a fault, so that the
\* generations never run out; those not yet born are the ones above.
Counting ==
    /\ generation = IF proc = 0 THEN faults ELSE faults + 1
    /\ proc # 0 => proc = generation
    /\ \A g \in Generations : gen[g].state = "unborn" <=> g > generation

\* The latch is the child's, the barrier is that of a child not yet gone, and any
\* other child that is alive was killed.
Owner ==
    /\ LatchIsCurrent
    /\ closeP # 0 => Alive(closeP) /\ gen[closeP].state # "killed"
    /\ \A g \in Generations : Alive(g) => g \in {proc, closeP} \/ gen[g].state = "killed"

Base == TypeOK /\ Counting /\ Owner

\* The base invariant holds before the first call.
LEMMA BaseInit == Init => Base
<1> SUFFICES ASSUME Init PROVE Base
  OBVIOUS
<1>1. TypeOK
  <2>1. gen \in [Generations -> Generation]
    BY DEF Init, Generation, Unborn, GenerationStates
  <2>2. outcome \in [Clients -> Outcome]
    BY DEF Init, Outcome, Answered, Reasons
  <2>3. held \in Seq(ClientRequest) /\ pending \in Seq(AnyRequest)
    BY DEF Init
  <2>4. conf \in Configuration
    BY DEF Init, Configuration, Unconfigured
  <2>5. /\ generation \in 0..(MaxFaults + 1)
        /\ {proc, readyP, closeP} \subseteq 0..generation
        /\ faults \in 0..MaxFaults
    BY DEF Init
  <2>6. /\ ladder \in {"eof", "term", "kill"} /\ bindings \subseteq Folders
        /\ forgetting \in BOOLEAN /\ retired \subseteq Generations
    BY DEF Init
  <2> QED
    BY <2>1, <2>2, <2>3, <2>4, <2>5, <2>6, Zenon DEF TypeOK
<1>2. Counting
  BY DEF Init, Counting, Unborn, Generations
<1>3. Owner
  BY DEF Init, Owner, LatchIsCurrent, Alive, Unborn
<1> QED
  BY <1>1, <1>2, <1>3 DEF Base

\* The numbers of the children are generations.
LEMMA Numbers ==
    ASSUME Base
    PROVE  /\ generation \in Nat /\ generation <= MaxFaults + 1
           /\ proc # 0 => proc \in Generations /\ proc = generation /\ closeP = 0
           /\ closeP # 0 => closeP \in Generations /\ proc = 0
           /\ proc = 0 => generation + 1 \in Generations /\ generation = faults
<1>1. /\ generation \in 0..(MaxFaults + 1) /\ faults \in 0..MaxFaults
      /\ proc \in 0..generation /\ closeP \in 0..generation
  BY DEF Base, TypeOK
<1>2. /\ generation = IF proc = 0 THEN faults ELSE faults + 1
      /\ proc # 0 => proc = generation
      /\ proc # 0 => closeP = 0
  BY DEF Base, Counting, Owner, LatchIsCurrent
<1> QED
  BY <1>1, <1>2 DEF Generations

\* The child spawned when there is none is the only one, if the others are gone.
LEMMA SpawnBase ==
    ASSUME Base, proc = 0, closeP' = 0, NEW G \in [Generations -> Generation], NEW calls \in Seq(ClientRequest),
           \A g \in Generations : G[g].state = "unborn" <=> g > generation,
           \A g \in Generations : G[g].state \in {"unborn", "killed", "gone"},
           Spawn(G, calls), pending' = pending, faults' = faults
    PROVE  /\ generation' \in 0..(MaxFaults + 1) /\ gen' \in [Generations -> Generation]
           /\ {proc', readyP', closeP'} \subseteq 0..generation'
           /\ conf' \in Configuration
           /\ generation <= generation'
           /\ Counting' /\ Owner'
<1>1. generation + 1 \in Generations /\ generation \in Nat /\ generation = faults
  BY Numbers
<1>2. Starting(calls) \in Generation
  BY DEF Generation, Starting, GenerationStates
<1>3. gen' \in [Generations -> Generation]
  BY <1>1, <1>2 DEF Spawn
<1>4. \A g \in Generations : gen'[g] = IF g = generation + 1 THEN Starting(calls) ELSE G[g]
  BY <1>1 DEF Spawn
<1>5. Counting'
  BY <1>1, <1>4 DEF Spawn, Counting, Starting, Generations
<1>6. Owner'
  BY <1>1, <1>4 DEF Spawn, Owner, LatchIsCurrent, Alive, Starting, Base
<1> QED
  BY <1>1, <1>3, <1>5, <1>6 DEF Spawn, Configuration, Unconfigured, Generations

\* A step that leaves the generations, the child, the barrier alone.
LEMMA ChildUnmoved ==
    ASSUME Base, UNCHANGED <<generation, gen, proc, readyP, closeP, faults>>,
           proc = 0 => pending' = <<>>
    PROVE  Counting' /\ Owner'
BY DEF Base, Counting, Owner, LatchIsCurrent, Alive

\* The outcomes that a failure of some calls leaves.
LEMMA FailureType ==
    ASSUME Base, NEW calls, NEW why \in Reasons, NEW g \in 0..(MaxFaults + 1)
    PROVE  AllFail(calls, why, g) \in [Clients -> Outcome]
BY DEF Base, TypeOK, AllFail, Failed, Outcome

\* The records of a child that is over, gone or killed are records of generations.
LEMMA OverType == Over \in Generation /\ Gone \in Generation
BY DEF Over, Gone, Generation, GenerationStates

\* Sending SIGKILL leaves a record of generations.
LEMMA KilledType ==
    ASSUME TypeOK, NEW g \in Generations
    PROVE  [gen EXCEPT ![g].state = "killed"] \in [Generations -> Generation]
<1>1. "killed" \in GenerationStates /\ gen[g] \in Generation
  BY DEF GenerationStates, TypeOK
<1>2. [gen[g] EXCEPT !.state = "killed"] \in Generation
  BY <1>1 DEF Generation
<1> QED
  BY <1>2 DEF TypeOK

\* A call is sent, waits, or spawns a child.
LEMMA SendBase ==
    ASSUME Base, NEW r \in ClientRequest, Send(r), bindings' \subseteq Folders,
           UNCHANGED <<closeP, ladder, forgetting, outcome, retired, faults>>
    PROVE  Base'
<1>1. TypeOK /\ r \in AnyRequest
  BY DEF Base, AnyRequest
<1>2. CASE closeP # 0 /\ held' = Append(held, r)
           /\ UNCHANGED <<generation, gen, proc, readyP, pending, conf>>
  <2>1. held' \in Seq(ClientRequest)
    BY <1>1, <1>2, AppendRequest DEF TypeOK
  <2>2. TypeOK'
    BY <1>1, <1>2, <2>1 DEF TypeOK
  <2>3. Counting' /\ Owner'
    BY <1>2, ChildUnmoved DEF Base, Owner, LatchIsCurrent
  <2> QED
    BY <2>2, <2>3 DEF Base
<1>3. CASE closeP = 0 /\ readyP # 0 /\ pending' = Append(pending, r)
           /\ UNCHANGED <<generation, gen, proc, readyP, held, conf>>
  <2>1. pending' \in Seq(AnyRequest)
    BY <1>1, <1>3, AppendRequest DEF TypeOK
  <2>2. TypeOK'
    BY <1>1, <1>3, <2>1 DEF TypeOK
  <2>3. Counting' /\ Owner'
    BY <1>3, ChildUnmoved DEF Base, Owner, LatchIsCurrent
  <2> QED
    BY <2>2, <2>3 DEF Base
<1>4. CASE closeP = 0 /\ readyP # 0
           /\ gen' = [gen EXCEPT ![readyP].calls = Append(@, r)]
           /\ UNCHANGED <<generation, proc, readyP, held, pending, conf>>
  <2>1. readyP = proc /\ proc \in Generations /\ gen[proc] \in Generation
    BY <1>1, <1>4, Numbers DEF Base, Owner, LatchIsCurrent, TypeOK
  <2>2. Append(gen[proc].calls, r) \in Seq(ClientRequest)
    BY <2>1, AppendRequest DEF Generation
  <2>3. gen' \in [Generations -> Generation]
    BY <1>1, <1>4, <2>1, <2>2 DEF TypeOK, Generation
  <2>4. \A g \in Generations : gen'[g].state = gen[g].state
    BY <1>1, <1>4, <2>1 DEF TypeOK, Generation
  <2>5. TypeOK'
    BY <1>1, <1>4, <2>3 DEF TypeOK
  <2>6. Counting'
    BY <1>4, <2>4 DEF Base, Counting
  <2>7. Owner'
    BY <1>4, <2>1, <2>4 DEF Base, Owner, LatchIsCurrent, Alive
  <2> QED
    BY <2>5, <2>6, <2>7 DEF Base
<1>5. CASE closeP = 0 /\ readyP = 0 /\ Spawn(gen, <<r>>) /\ UNCHANGED <<held, pending>>
  <2>1. proc = 0 /\ <<r>> \in Seq(ClientRequest) /\ gen \in [Generations -> Generation]
    BY <1>1, <1>5 DEF Base, Owner, LatchIsCurrent, TypeOK
  <2>2. /\ \A g \in Generations : gen[g].state = "unborn" <=> g > generation
        /\ \A g \in Generations : gen[g].state \in {"unborn", "killed", "gone"}
    BY <1>5, <2>1 DEF Base, Counting, Owner, Alive, Generations
  <2>3. /\ generation' \in 0..(MaxFaults + 1) /\ gen' \in [Generations -> Generation]
        /\ {proc', readyP', closeP'} \subseteq 0..generation' /\ conf' \in Configuration
        /\ Counting' /\ Owner'
    BY <1>5, <2>1, <2>2, SpawnBase
  <2>4. TypeOK'
    BY <1>1, <1>5, <2>3 DEF TypeOK
  <2> QED
    BY <2>3, <2>4 DEF Base
<1> QED
  BY <1>2, <1>3, <1>4, <1>5 DEF Send

\* A retirement: the child leaves the latch and enters the barrier.
LEMMA RetireBase ==
    ASSUME Base, proc # 0, NEW victims, NEW why \in Reasons, Retire(victims, why), Fault,
           forgetting' \in BOOLEAN, bindings' = bindings
    PROVE  Base'
<1>1. TypeOK /\ proc \in Generations /\ proc = generation /\ closeP = 0
  BY Numbers DEF Base
<1>2. outcome' \in [Clients -> Outcome]
  <2>1. Failed(why, proc) \in Outcome /\ Failed("retiring", proc) \in Outcome
    <3>1. proc \in 0..(MaxFaults + 1)
      BY <1>1 DEF Generations
    <3>2. "retiring" \in Reasons
      BY DEF Reasons
    <3> QED
      BY <3>1, <3>2 DEF Failed, Outcome
  <2> QED
    BY <1>1, <2>1 DEF Retire, TypeOK
<1>3. gen' \in [Generations -> Generation]
  BY <1>1, OverType DEF Retire, TypeOK
<1>4. \A g \in Generations : /\ g # proc => gen'[g] = gen[g]
                             /\ g = proc => gen'[g].state \in {"spawning", "over"}
  BY <1>1 DEF Retire, TypeOK, Over
<1>5. TypeOK'
  BY <1>1, <1>2, <1>3 DEF TypeOK, Retire, Fault
<1>6. Counting'
  BY <1>1, <1>4 DEF Base, Counting, Retire, Fault, TypeOK, Generations
<1>7. Owner'
  BY <1>1, <1>4 DEF Base, Owner, LatchIsCurrent, Alive, Retire, Generations
<1> QED
  BY <1>5, <1>6, <1>7 DEF Base

\* The barrier opens, over the state G of the generations.
LEMMA ReleaseBase ==
    ASSUME Base, closeP # 0, NEW G, Release(G), outcome' \in [Clients -> Outcome],
           \/ G = [gen EXCEPT ![closeP] = Gone]
           \/ G = [gen EXCEPT ![closeP].state = "killed"],
           UNCHANGED <<pending, retired, faults>>
    PROVE  Base'
<1>1. TypeOK /\ closeP \in Generations /\ proc = 0 /\ readyP = 0 /\ pending = <<>>
  BY Numbers DEF Base, Owner, LatchIsCurrent
<1>2. G \in [Generations -> Generation]
  <2>1. CASE G = [gen EXCEPT ![closeP] = Gone]
    BY <1>1, <2>1, OverType DEF TypeOK
  <2>2. CASE G = [gen EXCEPT ![closeP].state = "killed"]
    BY <1>1, <2>2, KilledType
  <2> QED
    BY <2>1, <2>2
<1>3. \A g \in Generations : \/ g # closeP /\ G[g] = gen[g]
                             \/ g = closeP /\ G[g].state \in {"killed", "gone"}
  BY <1>1 DEF TypeOK, Generation, Gone
<1>4. \A g \in Generations : G[g].state = "unborn" <=> g > generation
  BY <1>1, <1>3 DEF Base, Counting, Owner, Alive
<1>5. \A g \in Generations : G[g].state \in {"unborn", "killed", "gone"}
  BY <1>1, <1>3 DEF Base, Owner, Alive, Generations
<1>6. /\ held' \in Seq(ClientRequest) /\ bindings' \subseteq Folders
      /\ forgetting' \in BOOLEAN /\ ladder' \in {"eof", "term", "kill"} /\ closeP' = 0
  <2>1. held' = <<>> /\ forgetting' = FALSE /\ ladder' = "eof" /\ closeP' = 0
    BY DEF Release
  <2>2. bindings' = {} \/ bindings' = bindings
    BY DEF Release
  <2>3. bindings \subseteq Folders
    BY <1>1 DEF TypeOK
  <2>4. <<>> \in Seq(ClientRequest)
    OBVIOUS
  <2>5. bindings' \subseteq Folders
    BY <2>2, <2>3
  <2> QED
    BY <2>1, <2>4, <2>5, Zenon
<1>7. CASE held = <<>>
  <2>1. gen' = G /\ UNCHANGED <<generation, proc, readyP, conf>> /\ closeP' = 0
    BY <1>7 DEF Release
  <2>2. TypeOK'
    BY <1>1, <1>2, <1>6, <2>1 DEF TypeOK
  <2>3. Counting'
    BY <1>4, <2>1 DEF Base, Counting
  <2>4. Owner'
    BY <1>1, <1>5, <2>1 DEF Base, Owner, LatchIsCurrent, Alive
  <2> QED
    BY <2>2, <2>3, <2>4 DEF Base
<1>8. CASE held # <<>>
  <2>1. Spawn(G, held) /\ closeP' = 0 /\ held \in Seq(ClientRequest)
    BY <1>1, <1>8 DEF Release, TypeOK
  <2>2. /\ generation' \in 0..(MaxFaults + 1) /\ gen' \in [Generations -> Generation]
        /\ {proc', readyP', closeP'} \subseteq 0..generation' /\ conf' \in Configuration
        /\ Counting' /\ Owner'
    BY <1>1, <1>2, <1>4, <1>5, <2>1, SpawnBase
  <2>3. TypeOK'
    BY <1>1, <1>6, <2>2 DEF TypeOK
  <2> QED
    BY <2>2, <2>3 DEF Base
<1> QED
  BY <1>7, <1>8

\* Every step keeps the base invariant.
LEMMA BaseStep == Base /\ [Next]_vars => Base'
<1> SUFFICES ASSUME Base, [Next]_vars PROVE Base'
  OBVIOUS
<1>0. TypeOK /\ Counting /\ Owner
  BY DEF Base
<1>1. ASSUME NEW c \in Clients, NEW f \in Folders, Bind(c, f) PROVE Base'
  <2>1. bindings' \subseteq Folders
    BY <1>0, <1>1 DEF Bind, TypeOK
  <2> QED
    BY <1>1, <2>1, RequestTypes, SendBase DEF Bind
<1>2. ASSUME NEW c \in Clients, NEW f \in Folders, Unbind(c, f) PROVE Base'
  <2>1. bindings' \subseteq Folders
    BY <1>0, <1>2 DEF Unbind, TypeOK
  <2>2. CASE proc = 0
    <3>1. UNCHANGED <<generation, gen, proc, readyP, closeP, faults, held, pending, conf>>
      BY <1>2, <2>2 DEF Unbind
    <3>2. TypeOK'
      BY <1>0, <1>2, <2>1, <3>1 DEF Unbind, TypeOK
    <3> QED
      BY <1>0, <3>1, <3>2, ChildUnmoved DEF Base, Owner, LatchIsCurrent
  <2>3. CASE proc # 0
    BY <1>2, <2>1, <2>3, RequestTypes, SendBase DEF Unbind
  <2> QED
    BY <2>2, <2>3
<1>3. ASSUME NEW c \in Clients, Query(c) PROVE Base'
  <2>1. bindings' \subseteq Folders
    BY <1>0, <1>3 DEF Query, TypeOK
  <2> QED
    BY <1>3, <2>1, AnyFolderType, RequestTypes, SendBase DEF Query
<1>4. ASSUME NEW g \in Generations, ChildReady(g) PROVE Base'
  <2>1. CASE proc = g /\ gen' = [gen EXCEPT ![g].state = "rules"]
             /\ pending' = <<SetRules>> /\ outcome' = outcome
    <3>0. <<SetRules>> \in Seq(AnyRequest)
      BY RequestTypes DEF AnyRequest
    <3>1. gen' \in [Generations -> Generation]
      BY <1>0, <2>1 DEF TypeOK, Generation, GenerationStates
    <3>2. TypeOK'
      BY <1>0, <1>4, <2>1, <3>0, <3>1 DEF TypeOK, ChildReady
    <3>3. \A h \in Generations : gen'[h].state = IF h = g THEN "rules" ELSE gen[h].state
      BY <1>0, <2>1 DEF TypeOK, Generation
    <3>4. Counting'
      BY <1>0, <1>4, <3>3 DEF Counting, ChildReady
    <3>5. Owner'
      BY <1>0, <1>4, <2>1, <3>3 DEF Owner, LatchIsCurrent, Alive, ChildReady, Generations
    <3> QED
      BY <3>2, <3>4, <3>5 DEF Base
  <2>2. CASE closeP = g /\ gen' = [gen EXCEPT ![g] = Over]
             /\ outcome' = AllFail(gen[g].calls, "not running", g) /\ pending' = pending
    <3>1. gen' \in [Generations -> Generation]
      BY <1>0, <2>2, OverType DEF TypeOK
    <3>2. g \in 0..(MaxFaults + 1)
      BY DEF Generations
    <3>3. "not running" \in Reasons
      BY DEF Reasons
    <3>4. outcome' \in [Clients -> Outcome]
      BY <2>2, <3>2, <3>3, FailureType
    <3>5. TypeOK'
      BY <1>0, <1>4, <2>2, <3>1, <3>4 DEF TypeOK, ChildReady
    <3>6. \A h \in Generations : gen'[h].state = IF h = g THEN "over" ELSE gen[h].state
      BY <1>0, <2>2 DEF TypeOK, Over
    <3>7. Counting'
      BY <1>0, <1>4, <3>6 DEF Counting, ChildReady
    <3>8. g # 0 /\ proc = 0 /\ readyP = 0 /\ pending = <<>>
      <4>1. g # 0
        BY DEF Generations
      <4>2. closeP = g
        BY <2>2
      <4>3. proc = 0
        BY <4>1, <4>2, Numbers
      <4> QED
        BY <1>0, <4>1, <4>3 DEF Owner, LatchIsCurrent
    <3>9. UNCHANGED <<proc, readyP, closeP, pending>>
      BY <1>4, <2>2 DEF ChildReady
    <3>10. Owner'
      <4>1. LatchIsCurrent'
        BY <3>8, <3>9 DEF LatchIsCurrent
      <4>2. Alive(closeP)'
        <5>1. closeP' = g /\ gen'[g].state = "over"
          BY <2>2, <3>6, <3>9
        <5> QED
          BY <5>1 DEF Alive
      <4>3. \A h \in Generations : h = closeP \/ gen'[h].state = gen[h].state
        <5>1. closeP = g
          BY <2>2
        <5> QED
          BY <5>1, <3>6
      <4>4. gen'[closeP'].state # "killed"
        <5>1. closeP' = g
          BY <2>2, <3>9
        <5>2. gen'[g].state = "over"
          BY <3>6
        <5> QED
          BY <5>1, <5>2
      <4> QED
        BY <1>0, <3>9, <4>1, <4>2, <4>3, <4>4 DEF Owner, Alive
    <3> QED
      BY <3>5, <3>7, <3>10 DEF Base
  <2> QED
    BY <1>4, <2>1, <2>2 DEF ChildReady
<1>5. ASSUME NEW g \in Generations, LateExit(g) PROVE Base'
  <2>1. gen' \in [Generations -> Generation]
    BY <1>0, <1>5, OverType DEF TypeOK, LateExit
  <2>2. g \in 0..(MaxFaults + 1)
    BY DEF Generations
  <2>3. "exited" \in Reasons
    BY DEF Reasons
  <2>4. outcome' \in [Clients -> Outcome]
    BY <1>5, <2>2, <2>3, FailureType DEF LateExit
  <2>5. TypeOK'
    BY <1>0, <1>5, <2>1, <2>4 DEF TypeOK, LateExit
  <2>6. \A h \in Generations : gen'[h] = IF h = g THEN Gone ELSE gen[h]
    BY <1>0, <1>5 DEF TypeOK, LateExit
  <2>7. Counting'
    BY <1>0, <1>5, <2>6 DEF Counting, LateExit, Alive, Gone
  <2>8. Owner'
    BY <1>0, <1>5, <2>6, Numbers DEF Owner, LatchIsCurrent, Alive, LateExit, Gone
  <2> QED
    BY <2>5, <2>7, <2>8 DEF Base
<1>6. ASSUME Reply PROVE Base'
  <2> DEFINE r == Head(pending)
  <2>1. /\ pending # <<>> /\ proc # 0 /\ proc \in Generations
        /\ UNCHANGED <<generation, proc, readyP, closeP, ladder, held, bindings,
                       forgetting, retired, faults>>
    BY <1>0, <1>6, Numbers DEF Reply, Owner, LatchIsCurrent
  <2>2. r \in AnyRequest /\ Tail(pending) \in Seq(AnyRequest)
    BY <1>0, <2>1, TailRequests DEF TypeOK
  <2>3. r.folder \in Folders
    BY <2>2, RequestTypes DEF AnyRequest
  <2>4. conf' \in Configuration
    BY <1>0, <1>6, <2>3 DEF Reply, Accepted, Configuration, TypeOK
  <2>5. CASE r.by \in Clients /\ pending' = Tail(pending) /\ gen' = gen
             /\ outcome' = [outcome EXCEPT ![r.by] = Answered]
    <3>1. Answered \in Outcome
      BY DEF Answered, Outcome, Reasons
    <3>2. TypeOK'
      BY <1>0, <2>1, <2>2, <2>4, <2>5, <3>1 DEF TypeOK
    <3> QED
      BY <2>1, <2>5, <3>2, ChildUnmoved DEF Base
  <2>6. CASE Replay(conf') /\ outcome' = outcome
    <3>1. gen[proc] \in Generation
      BY <1>0, <2>1 DEF TypeOK
    <3>2. pending' \in Seq(AnyRequest)
      <4>1. \A f \in Folders : <<Bootstrap("bind", f)>> \in Seq(AnyRequest)
        BY RequestTypes DEF AnyRequest
      <4>2. gen[proc].calls \in Seq(AnyRequest)
        BY <3>1, WidenRequests DEF Generation
      <4> QED
        BY <1>0, <2>6, <4>1, <4>2 DEF Replay, TypeOK
    <3>3. \E s \in {"replay", "configured"}, q \in Seq(ClientRequest) :
             gen' = [gen EXCEPT ![proc] = [state |-> s, calls |-> q]]
      <4>1. gen[proc].calls \in Seq(ClientRequest) /\ <<>> \in Seq(ClientRequest)
        BY <3>1 DEF Generation
      <4>2. [gen EXCEPT ![proc].state = "replay"]
              = [gen EXCEPT ![proc] = [state |-> "replay", calls |-> gen[proc].calls]]
        <5>1. [gen[proc] EXCEPT !.state = "replay"]
                = [state |-> "replay", calls |-> gen[proc].calls]
          BY <3>1 DEF Generation
        <5> QED
          BY <5>1
      <4> QED
        BY <2>6, <4>1, <4>2 DEF Replay
    <3>4. PICK s \in {"replay", "configured"}, q \in Seq(ClientRequest) :
             gen' = [gen EXCEPT ![proc] = [state |-> s, calls |-> q]]
      BY <3>3
    <3>5. [state |-> s, calls |-> q] \in Generation
      BY <3>4 DEF Generation, GenerationStates
    <3>6. TypeOK'
      BY <1>0, <2>1, <2>4, <2>6, <3>2, <3>4, <3>5 DEF TypeOK
    <3>7. \A g \in Generations : gen'[g].state = IF g = proc THEN s ELSE gen[g].state
      BY <1>0, <2>1, <3>4 DEF TypeOK
    <3>8. Counting'
      BY <1>0, <2>1, <3>4, <3>7 DEF Counting, Owner, LatchIsCurrent
    <3>9. Owner'
      BY <1>0, <2>1, <3>4, <3>7, Numbers DEF Owner, LatchIsCurrent, Alive
    <3> QED
      BY <3>6, <3>8, <3>9 DEF Base
  <2> QED
    BY <1>6, <2>5, <2>6 DEF Reply
<1>7. ASSUME ReplyError PROVE Base'
  <2> DEFINE r == Head(pending)
  <2>1. /\ pending # <<>> /\ proc # 0 /\ proc \in Generations
        /\ bindings' = bindings /\ forgetting' = forgetting /\ forgetting \in BOOLEAN
    BY <1>0, <1>7, Numbers DEF ReplyError, Owner, LatchIsCurrent, TypeOK
  <2>2. r \in AnyRequest /\ Tail(pending) \in Seq(AnyRequest)
    BY <1>0, <2>1, TailRequests DEF TypeOK
  <2>3. CASE Fault /\ Retire(Victims(r), "error reply")
    <3>1. "error reply" \in Reasons
      BY DEF Reasons
    <3> QED
      BY <2>1, <2>3, <3>1, RetireBase
  <2>4. CASE /\ r.by \in Clients /\ pending' = Tail(pending)
             /\ outcome' = [outcome EXCEPT ![r.by] = Failed("error reply", proc)]
             /\ conf' = [conf EXCEPT
                  !.refused = IF r.op = "query" THEN @ ELSE @ \cup {r.folder}]
             /\ UNCHANGED <<generation, gen, proc, readyP, closeP, ladder, held,
                            retired, faults>>
    <3>1. r.folder \in Folders
      BY <2>2, RequestTypes DEF AnyRequest
    <3>2. conf' \in Configuration
      BY <1>0, <2>4, <3>1 DEF Configuration, TypeOK
    <3>3. Failed("error reply", proc) \in Outcome
      <4>1. proc \in 0..(MaxFaults + 1)
        BY <2>1 DEF Generations
      <4>2. "error reply" \in Reasons
        BY DEF Reasons
      <4> QED
        BY <4>1, <4>2 DEF Failed, Outcome
    <3>4. TypeOK'
      BY <1>0, <2>1, <2>2, <2>4, <3>2, <3>3 DEF TypeOK
    <3> QED
      BY <2>1, <2>4, <3>4, ChildUnmoved DEF Base
  <2> QED
    BY <1>7, <2>3, <2>4 DEF ReplyError
<1>8. ASSUME CallTimeout PROVE Base'
  <2>1. proc # 0 /\ forgetting' \in BOOLEAN /\ bindings' = bindings
    BY <1>0, <1>8 DEF CallTimeout, Owner, LatchIsCurrent, TypeOK
  <2>2. "timed out" \in Reasons
    BY DEF Reasons
  <2> QED
    BY <1>8, <2>1, <2>2, RetireBase DEF CallTimeout
<1>9. "retiring" \in Reasons
  BY DEF Reasons
<1>10. ASSUME Close PROVE Base'
  <2>1. proc # 0 /\ forgetting' \in BOOLEAN /\ bindings' = bindings
    BY <1>0, <1>10 DEF Close, TypeOK
  <2> QED
    BY <1>9, <1>10, <2>1, RetireBase DEF Close
<1>11. ASSUME Reset PROVE Base'
  <2>1. CASE proc # 0 /\ Fault /\ Retire({}, "retiring")
             /\ forgetting' = TRUE /\ bindings' = bindings
    BY <1>9, <2>1, RetireBase
  <2>2. CASE /\ bindings' \subseteq Folders /\ forgetting' \in BOOLEAN
             /\ UNCHANGED <<generation, gen, proc, readyP, closeP, ladder, held, pending,
                            conf, outcome, retired, faults>>
    <3>1. TypeOK'
      BY <1>0, <2>2 DEF TypeOK
    <3> QED
      BY <1>0, <2>2, <3>1, ChildUnmoved DEF Base, Owner, LatchIsCurrent
  <2> QED
    BY <1>0, <1>11, <2>1, <2>2 DEF Reset, TypeOK
<1>12. ASSUME Escalate PROVE Base'
  <2>1. TypeOK'
    BY <1>0, <1>12 DEF TypeOK, Escalate
  <2> QED
    BY <1>0, <1>12, <2>1, ChildUnmoved DEF Base, Owner, LatchIsCurrent, Escalate
<1>13. ASSUME RetiredChildExits PROVE Base'
  <2>1. closeP \in 0..(MaxFaults + 1)
    BY <1>0 DEF TypeOK
  <2>2. "exited" \in Reasons
    BY DEF Reasons
  <2>3. outcome' \in [Clients -> Outcome]
    BY <1>13, <2>1, <2>2, FailureType DEF RetiredChildExits
  <2> QED
    BY <1>13, <2>3, ReleaseBase DEF RetiredChildExits
<1>14. ASSUME GiveUp PROVE Base'
  BY <1>0, <1>14, ReleaseBase DEF GiveUp, TypeOK
<1>15. ASSUME CurrentChildExits PROVE Base'
  <2>1. proc # 0 /\ proc \in Generations /\ proc = generation /\ closeP = 0
    BY <1>15, Numbers DEF CurrentChildExits
  <2>2. gen' \in [Generations -> Generation] /\ proc \in 0..(MaxFaults + 1)
    BY <1>0, <1>15, <2>1, OverType DEF CurrentChildExits, TypeOK
  <2>3. "exited" \in Reasons
    BY DEF Reasons
  <2>4. outcome' \in [Clients -> Outcome]
    BY <1>15, <2>2, <2>3, FailureType DEF CurrentChildExits
  <2>5. pending' \in Seq(AnyRequest)
    BY <1>15 DEF CurrentChildExits
  <2>6. TypeOK'
    BY <1>0, <1>15, <2>2, <2>4, <2>5 DEF TypeOK, CurrentChildExits, Fault
  <2>7. \A g \in Generations : gen'[g] = IF g = proc THEN Gone ELSE gen[g]
    BY <1>0, <1>15 DEF CurrentChildExits, TypeOK
  <2>8. Counting'
    BY <1>0, <1>15, <2>1, <2>7 DEF Counting, CurrentChildExits, Fault, Gone, TypeOK, Generations
  <2>9. Owner'
    BY <1>0, <1>15, <2>1, <2>7 DEF Owner, LatchIsCurrent, Alive, CurrentChildExits, Gone
  <2> QED
    BY <2>6, <2>8, <2>9 DEF Base
<1>16. CASE UNCHANGED vars
  <2>1. TypeOK'
    BY <1>0, <1>16 DEF TypeOK, vars
  <2> QED
    BY <1>0, <1>16, <2>1, ChildUnmoved DEF Base, Owner, LatchIsCurrent, vars
<1> QED
  BY <1>1, <1>2, <1>3, <1>4, <1>5, <1>6, <1>7, <1>8, <1>10, <1>11, <1>12, <1>13,
     <1>14, <1>15, <1>16 DEF Next

\* The base invariant is an invariant.
LEMMA BaseHolds == Spec => []Base
BY BaseInit, BaseStep, PTL DEF Spec

\* Every variable keeps its type, and the generations never run out.
THEOREM TypeCorrect == Spec => []TypeOK
<1>1. Base => TypeOK
  BY DEF Base
<1> QED
  BY <1>1, BaseHolds, PTL

\* Whatever exits, times out or is retired, and in whatever order the news
\* arrives, the readiness latch is that of the live current child.
THEOREM LatchStaysCurrent == Spec => []LatchIsCurrent
<1>1. Base => LatchIsCurrent
  BY DEF Base, Owner
<1> QED
  BY <1>1, BaseHolds, PTL

\* No two children that SIGKILL has not ended in time are alive together: a second
\* spawn would fight for the lock of the store.
THEOREM StoreHasOneOwner == Spec => []OneStore
<1>1. Base => OneStore
  <2> SUFFICES ASSUME Base PROVE OneStore
    OBVIOUS
  <2> DEFINE living == {g \in Generations : Alive(g) /\ gen[g].state # "killed"}
  <2>1. proc = 0 \/ closeP = 0
    BY Numbers
  <2>2. proc \notin Generations \/ closeP \notin Generations
    BY <2>1 DEF Generations
  <2>3. \A g \in living : g = proc \/ g = closeP
    BY DEF Base, Owner
  <2>4. living = {} \/ \E g \in living : living = {g}
    BY <2>2, <2>3
  <2>5. Cardinality({}) = 0 /\ \A g : Cardinality({g}) = 1
    BY FS_EmptySet, FS_Singleton
  <2>6. CASE living = {}
    <3>1. Cardinality(living) = 0
      BY <2>5, <2>6
    <3> QED
      BY <3>1 DEF OneStore
  <2>7. ASSUME NEW g \in living, living = {g} PROVE OneStore
    <3>1. Cardinality(living) = 1
      BY <2>5, <2>7
    <3> QED
      BY <3>1 DEF OneStore
  <2> QED
    BY <2>4, <2>6, <2>7
<1> QED
  BY <1>1, BaseHolds, PTL

-----------------------------------------------------------------------------
(* The bootstrap barrier. *)

Binds(q, f) == \E j \in 1..Len(q) : q[j].op = "bind" /\ q[j].folder = f
NoUnbind(q) == \A i \in 1..Len(q) : q[i].op # "unbind"

\* A folder of B that a call of q unbinds is bound again by a later one.
Rebound(q, B) ==
    \A i \in 1..Len(q) :
        q[i].op = "unbind" /\ q[i].folder \in B
          => \E j \in (i + 1)..Len(q) : q[j].op = "bind" /\ q[j].folder = q[i].folder

\* What the child is being sent while it starts, and what it has accepted.
Starts ==
    LET state == gen[proc].state
    IN  /\ state = "spawning" => pending = <<>>
        /\ state \in {"rules", "replay"} => \E r \in BootstrapRequest : pending = <<r>>
        /\ state = "rules" => pending = <<SetRules>>
        /\ state = "replay" => conf.rules
        /\ conf.replayed \subseteq conf.bound
        /\ Rebound(gen[proc].calls, bindings)

\* The child serves its callers: every binding was accepted or refused, or is on
\* its way, and so it stays when the unbinds on their way have been served.
Serves ==
    /\ conf.rules
    /\ pending \in Seq(ClientRequest)
    /\ \A f \in bindings : f \in conf.bound \cup conf.refused \/ Binds(pending, f)
    /\ Rebound(pending, bindings)

Staged ==
    /\ NoUnbind(held)
    /\ proc # 0 => IF gen[proc].state = "configured" THEN Serves ELSE Starts

\* What one more call does to the calls that wait.
LEMMA AppendRebound ==
    ASSUME NEW q \in Seq(ClientRequest), NEW r \in ClientRequest, NEW B, NEW C,
           Rebound(q, B),
           \/ r.op = "bind" /\ C = B \cup {r.folder}
           \/ r.op = "unbind" /\ C = B \ {r.folder}
           \/ r.op = "query" /\ C = B
    PROVE  Rebound(Append(q, r), C)
<1> DEFINE p == Append(q, r)
<1>1. /\ Len(q) \in Nat /\ Len(p) = Len(q) + 1
      /\ \A i \in 1..Len(q) : p[i] = q[i]
      /\ p[Len(q) + 1] = r
  BY AppendRequest
<1> HIDE DEF p
<1> SUFFICES ASSUME NEW i \in 1..Len(p), p[i].op = "unbind", p[i].folder \in C
             PROVE  \E j \in (i + 1)..Len(p) : p[j].op = "bind" /\ p[j].folder = p[i].folder
  BY DEF Rebound, p
<1>2. i \in 1..Len(q)
  BY <1>1
<1>3. CASE p[i].folder \in B
  <2>1. PICK j \in (i + 1)..Len(q) : q[j].op = "bind" /\ q[j].folder = q[i].folder
    BY <1>1, <1>2, <1>3 DEF Rebound
  <2> QED
    BY <1>1, <1>2, <2>1
<1>4. CASE p[i].folder \notin B
  <2>1. r.op = "bind" /\ r.folder = p[i].folder
    BY <1>4
  <2> QED
    BY <1>1, <1>2, <2>1
<1> QED
  BY <1>3, <1>4

\* A bind in a queue stays when another call is appended, and no unbind appears.
LEMMA AppendBinds ==
    ASSUME NEW q \in Seq(ClientRequest), NEW r \in ClientRequest, NEW f
    PROVE  /\ Binds(q, f) => Binds(Append(q, r), f)
           /\ r.op = "bind" /\ r.folder = f => Binds(Append(q, r), f)
           /\ NoUnbind(q) /\ r.op # "unbind" => NoUnbind(Append(q, r))
BY AppendRequest DEF Binds, NoUnbind

\* What is left when the first call has been served.
LEMMA TailRebound ==
    ASSUME NEW q \in Seq(ClientRequest), q # <<>>, NEW B, Rebound(q, B)
    PROVE  Rebound(Tail(q), B)
<1> DEFINE t == Tail(q)
<1>1. /\ Len(q) \in Nat /\ Len(t) = Len(q) - 1
      /\ \A i \in 1..(Len(q) - 1) : t[i] = q[i + 1]
  BY TailRequests
<1> HIDE DEF t
<1> SUFFICES ASSUME NEW i \in 1..Len(t), t[i].op = "unbind", t[i].folder \in B
             PROVE  \E j \in (i + 1)..Len(t) : t[j].op = "bind" /\ t[j].folder = t[i].folder
  BY DEF Rebound, t
<1>2. i + 1 \in 1..Len(q) /\ t[i] = q[i + 1]
  BY <1>1
<1>3. PICK j \in (i + 2)..Len(q) : q[j].op = "bind" /\ q[j].folder = q[i + 1].folder
  BY <1>2 DEF Rebound
<1>4. j - 1 \in (i + 1)..Len(t) /\ t[j - 1] = q[j]
  BY <1>1, <1>3
<1> QED
  BY <1>2, <1>3, <1>4

\* A bind that is not the first stays when the first call has been served.
LEMMA TailBinds ==
    ASSUME NEW q \in Seq(ClientRequest), q # <<>>, NEW f,
           NEW j \in 1..Len(q), q[j].op = "bind", q[j].folder = f, j # 1
    PROVE  Binds(Tail(q), f)
<1>1. /\ Len(q) \in Nat /\ Len(Tail(q)) = Len(q) - 1
      /\ \A i \in 1..(Len(q) - 1) : Tail(q)[i] = q[i + 1]
  BY TailRequests
<1>2. j - 1 \in 1..Len(Tail(q)) /\ Tail(q)[j - 1] = q[j]
  BY <1>1
<1> QED
  BY <1>2 DEF Binds

\* Calls that hold no unbind unbind nothing.
LEMMA NoUnbindRebound ==
    ASSUME NEW q, NEW B, NoUnbind(q)
    PROVE  Rebound(q, B)
BY DEF NoUnbind, Rebound

\* Nothing is held and there is no child at first.
LEMMA StagedInit == Init => Staged
BY DEF Init, Staged, NoUnbind

\* A new child starts with nothing accepted.
LEMMA SpawnStaged ==
    ASSUME Base, proc = 0, NEW G \in [Generations -> Generation],
           NEW calls \in Seq(ClientRequest), NoUnbind(calls), Spawn(G, calls),
           pending' = pending, NoUnbind(held')
    PROVE  Staged'
<1>1. pending = <<>> /\ generation + 1 \in Generations
  BY Numbers DEF Base, Owner, LatchIsCurrent
<1>2. proc' = generation + 1 /\ gen'[proc'] = Starting(calls) /\ conf' = Unconfigured
  BY <1>1 DEF Spawn
<1>3. Rebound(calls, bindings')
  BY NoUnbindRebound
<1>4. Starts'
  BY <1>1, <1>2, <1>3 DEF Starts, Starting, Unconfigured
<1> QED
  BY <1>2, <1>4 DEF Staged, Starting

\* The call r, and what its operation does to the bindings.
Recorded(r) ==
    \/ r.op = "bind" /\ bindings' = bindings \cup {r.folder}
    \/ r.op = "unbind" /\ bindings' = bindings \ {r.folder} /\ proc # 0
    \/ r.op = "query" /\ bindings' = bindings

\* A call keeps the stages, whether it is sent, waits or spawns a child.
LEMMA SendStaged ==
    ASSUME Base, Staged, NEW r \in ClientRequest, Recorded(r), Send(r)
    PROVE  Staged'
<1>1. /\ TypeOK /\ Owner /\ LatchIsCurrent
      /\ gen \in [Generations -> Generation] /\ held \in Seq(ClientRequest)
  BY DEF Base, TypeOK, Owner
<1>2. CASE closeP # 0 /\ held' = Append(held, r)
           /\ UNCHANGED <<generation, gen, proc, readyP, pending, conf>>
  <2>1. proc' = 0 /\ r.op # "unbind"
    BY <1>1, <1>2 DEF LatchIsCurrent, Recorded
  <2>2. NoUnbind(held')
    BY <1>1, <1>2, <2>1, AppendBinds DEF Staged
  <2> QED
    BY <2>1, <2>2 DEF Staged
<1>3. CASE closeP = 0 /\ readyP # 0 /\ gen[readyP].state = "configured"
           /\ pending' = Append(pending, r)
           /\ UNCHANGED <<generation, gen, proc, readyP, held, conf>>
  <2>1. proc # 0 /\ gen[proc].state = "configured" /\ gen'[proc'].state = "configured"
    BY <1>1, <1>3 DEF LatchIsCurrent
  <2>2. Serves
    BY <2>1 DEF Staged
  <2>3. pending \in Seq(ClientRequest) /\ pending' \in Seq(ClientRequest)
    BY <1>3, <2>2, AppendRequest DEF Serves
  <2>4. Rebound(pending', bindings')
    BY <1>3, <2>2, <2>3, AppendRebound DEF Serves, Recorded
  <2>5. ASSUME NEW f \in bindings'
        PROVE  f \in conf.bound \cup conf.refused \/ Binds(pending', f)
    <3>1. f \in bindings \/ (r.op = "bind" /\ r.folder = f)
      BY <2>5 DEF Recorded
    <3> QED
      BY <1>3, <2>2, <2>3, <3>1, AppendBinds DEF Serves
  <2>6. Serves'
    BY <1>3, <2>2, <2>3, <2>4, <2>5 DEF Serves
  <2>7. NoUnbind(held')
    BY <1>3 DEF Staged
  <2> QED
    BY <2>1, <2>6, <2>7 DEF Staged
<1>4. CASE closeP = 0 /\ readyP # 0 /\ gen[readyP].state # "configured"
           /\ gen' = [gen EXCEPT ![readyP].calls = Append(@, r)]
           /\ UNCHANGED <<generation, proc, readyP, held, pending, conf>>
  <2>1. proc # 0 /\ proc \in Generations /\ readyP = proc /\ gen[proc].state # "configured"
    BY <1>1, <1>4, Numbers DEF LatchIsCurrent
  <2>2. Starts
    BY <2>1 DEF Staged
  <2>3. gen[proc].calls \in Seq(ClientRequest)
    BY <1>1, <2>1 DEF Generation
  <2>4. gen'[proc].state = gen[proc].state /\ gen'[proc].calls = Append(gen[proc].calls, r)
    BY <1>1, <1>4, <2>1 DEF Generation
  <2>5. Rebound(gen'[proc].calls, bindings')
    BY <2>2, <2>3, <2>4, AppendRebound DEF Starts, Recorded
  <2>6. Starts'
    BY <1>4, <2>2, <2>4, <2>5 DEF Starts
  <2>7. NoUnbind(held')
    BY <1>4 DEF Staged
  <2> QED
    BY <1>4, <2>1, <2>4, <2>6, <2>7 DEF Staged
<1>5. CASE closeP = 0 /\ readyP = 0 /\ Spawn(gen, <<r>>) /\ UNCHANGED <<held, pending>>
  <2>1. proc = 0 /\ r.op # "unbind"
    BY <1>1, <1>5 DEF LatchIsCurrent, Recorded
  <2>2. <<r>> \in Seq(ClientRequest) /\ NoUnbind(<<r>>)
    BY <2>1 DEF NoUnbind
  <2>3. NoUnbind(held')
    BY <1>5 DEF Staged
  <2> QED
    BY <1>1, <1>5, <2>1, <2>2, <2>3, SpawnStaged
<1> QED
  BY <1>2, <1>3, <1>4, <1>5 DEF Send

\* The barrier opens over the generations G: the calls that it held hold no unbind.
LEMMA ReleaseStaged ==
    ASSUME Base, Staged, closeP # 0, NEW G \in [Generations -> Generation], Release(G),
           pending' = pending
    PROVE  Staged'
<1>1. proc = 0 /\ held \in Seq(ClientRequest) /\ NoUnbind(held)
  BY Numbers DEF Base, TypeOK, Staged
<1>2. NoUnbind(held')
  BY DEF Release, NoUnbind
<1>3. CASE held = <<>>
  BY <1>1, <1>2, <1>3 DEF Release, Staged
<1>4. CASE held # <<>>
  BY <1>1, <1>2, <1>4, SpawnStaged DEF Release
<1> QED
  BY <1>3, <1>4

\* The child and what it hears are as they were.
LEMMA StagedUnmoved ==
    ASSUME Staged, UNCHANGED <<proc, held, pending, conf, bindings>>,
           proc # 0 => gen'[proc] = gen[proc]
    PROVE  Staged'
BY DEF Staged, Starts, Serves

\* Without a child, and with no unbind held, there is nothing to say.
LEMMA StagedAlone ==
    ASSUME Staged, proc' = 0, held' = held
    PROVE  Staged'
BY DEF Staged

\* A reply moves the bootstrap on, or serves a caller.
LEMMA ReplyStaged ==
    ASSUME Base, Staged, Reply
    PROVE  Staged'
<1> DEFINE r == Head(pending)
<1>1. /\ TypeOK /\ LatchIsCurrent /\ pending # <<>> /\ proc # 0 /\ proc \in Generations
      /\ conf' = Accepted(r)
      /\ UNCHANGED <<proc, held, bindings>>
  BY Numbers DEF Base, Owner, LatchIsCurrent, Reply
<1>2. /\ gen \in [Generations -> Generation] /\ gen[proc] \in Generation
      /\ conf \in Configuration
  BY <1>1 DEF TypeOK
<1>3. CASE gen[proc].state = "configured"
  <2>1. Serves
    BY <1>1, <1>3 DEF Staged
  <2>2. pending \in Seq(ClientRequest) /\ r \in ClientRequest /\ r = pending[1]
        /\ Tail(pending) \in Seq(ClientRequest)
    BY <1>1, <2>1, TailRequests DEF Serves
  <2>3. pending' = Tail(pending) /\ gen' = gen
    BY <2>2, RequestTypes DEF Reply
  <2>4. /\ conf'.rules /\ conf'.refused = conf.refused
        /\ conf'.bound = IF r.op = "bind" THEN conf.bound \cup {r.folder}
                         ELSE IF r.op = "unbind" THEN conf.bound \ {r.folder}
                         ELSE conf.bound
    BY <1>1, <1>2, <2>1 DEF Accepted, Configuration, Serves
  <2>5. ASSUME NEW f \in bindings
        PROVE  f \in conf'.bound \cup conf'.refused \/ Binds(pending', f)
    <3>1. CASE \E j \in 1..Len(pending) : j # 1 /\ pending[j].op = "bind" /\ pending[j].folder = f
      BY <1>1, <2>2, <2>3, <3>1, TailBinds
    <3>2. CASE r.op = "bind" /\ r.folder = f
      BY <2>4, <3>2
    <3>3. CASE r.op = "unbind" /\ r.folder = f
      <4>1. \E j \in 2..Len(pending) : pending[j].op = "bind" /\ pending[j].folder = f
        BY <1>1, <2>1, <2>2, <3>3, TailRequests DEF Serves, Rebound
      <4> QED
        BY <3>1, <4>1
    <3>4. CASE ~(r.op = "unbind" /\ r.folder = f) /\ f \in conf.bound \cup conf.refused
      BY <2>4, <3>4
    <3> QED
      BY <2>1, <2>2, <3>1, <3>2, <3>3, <3>4 DEF Serves, Binds
  <2>6. Rebound(pending', bindings')
    BY <1>1, <2>1, <2>2, <2>3, TailRebound DEF Serves
  <2>7. Serves'
    BY <1>1, <2>2, <2>3, <2>4, <2>5, <2>6 DEF Serves
  <2>8. NoUnbind(held')
    BY <1>1 DEF Staged
  <2> QED
    BY <1>1, <1>3, <2>3, <2>7, <2>8 DEF Staged
<1>4. CASE gen[proc].state # "configured"
  <2>1. Starts
    BY <1>1, <1>4 DEF Staged
  <2>2. gen[proc].state \in {"rules", "replay"}
    BY <1>1, <1>2, <1>4, <2>1 DEF Starts, Generation, GenerationStates, LatchIsCurrent
  <2>3. PICK s \in BootstrapRequest : pending = <<s>>
    BY <2>1, <2>2 DEF Starts
  <2>4. r = s
    BY <2>3
  <2>5. r \in BootstrapRequest /\ r.by \notin Clients
    BY <2>4, RequestTypes
  <2>6. Replay(conf')
    BY <2>5 DEF Reply
  <2>7. r.op # "unbind"
    BY <2>5 DEF BootstrapRequest, SetRules, Bootstrap
  <2>8. conf'.replayed \subseteq conf'.bound
    BY <1>1, <1>2, <2>1, <2>5, <2>7 DEF Accepted, Configuration, Starts
  <2>9. conf'.rules
    <3>1. conf.rules \/ r = SetRules
      BY <2>1, <2>2, <2>3, <2>4 DEF Starts
    <3> QED
      BY <1>1, <1>2, <3>1 DEF Accepted, Configuration
  <2>10. NoUnbind(held')
    BY <1>1 DEF Staged
  <2>11. CASE /\ gen' = [gen EXCEPT ![proc].state = "replay"]
              /\ \E f \in bindings : pending' = <<Bootstrap("bind", f)>>
    <3>1. gen'[proc].state = "replay" /\ gen'[proc].calls = gen[proc].calls
      BY <1>1, <1>2, <2>11 DEF Generation
    <3>2. \E b \in BootstrapRequest : pending' = <<b>>
      BY <1>1, <2>11, RequestTypes DEF TypeOK
    <3>3. Starts'
      BY <1>1, <2>1, <2>8, <2>9, <3>1, <3>2 DEF Starts
    <3> QED
      BY <1>1, <2>10, <3>1, <3>3 DEF Staged
  <2>12. CASE /\ bindings \ conf'.replayed = {}
              /\ gen' = [gen EXCEPT ![proc] = [state |-> "configured", calls |-> <<>>]]
              /\ pending' = gen[proc].calls
    <3>1. gen'[proc].state = "configured"
      BY <1>1, <1>2, <2>12
    <3>2. pending' \in Seq(ClientRequest)
      BY <1>2, <2>12 DEF Generation
    <3>3. Rebound(pending', bindings')
      BY <1>1, <2>1, <2>12 DEF Starts
    <3>4. \A f \in bindings' : f \in conf'.bound
      BY <1>1, <2>8, <2>12
    <3>5. Serves'
      BY <2>9, <3>2, <3>3, <3>4 DEF Serves
    <3> QED
      BY <1>1, <2>10, <3>1, <3>5 DEF Staged
  <2> QED
    BY <2>6, <2>11, <2>12 DEF Replay
<1> QED
  BY <1>3, <1>4

\* An error to a caller: a refused bind or unbind is remembered.
LEMMA ErrorStaged ==
    ASSUME Base, Staged, pending # <<>>, Head(pending).by \in Clients,
           pending' = Tail(pending),
           conf' = [conf EXCEPT !.refused = IF Head(pending).op = "query" THEN @
                                            ELSE @ \cup {Head(pending).folder}],
           UNCHANGED <<gen, proc, held, bindings>>
    PROVE  Staged'
<1> DEFINE r == Head(pending)
<1>1. /\ TypeOK /\ LatchIsCurrent /\ proc # 0 /\ proc \in Generations
      /\ gen[proc] \in Generation /\ conf \in Configuration
  BY Numbers DEF Base, Owner, LatchIsCurrent, TypeOK
<1>2. gen[proc].state = "configured"
  <2> SUFFICES ASSUME gen[proc].state # "configured" PROVE FALSE
    OBVIOUS
  <2>1. Starts /\ gen[proc].state \in {"rules", "replay"}
    BY <1>1 DEF Staged, Starts, Generation, GenerationStates, LatchIsCurrent
  <2>2. PICK s \in BootstrapRequest : pending = <<s>>
    BY <2>1 DEF Starts
  <2> QED
    BY <2>2, RequestTypes
<1>3. Serves
  BY <1>1, <1>2 DEF Staged
<1>4. pending \in Seq(ClientRequest) /\ r = pending[1] /\ Tail(pending) \in Seq(ClientRequest)
  BY <1>3, TailRequests DEF Serves
<1>5. /\ conf'.rules /\ conf'.bound = conf.bound /\ conf.refused \subseteq conf'.refused
      /\ r.op # "query" => r.folder \in conf'.refused
  BY <1>1, <1>3 DEF Configuration, Serves
<1>6. ASSUME NEW f \in bindings
      PROVE  f \in conf'.bound \cup conf'.refused \/ Binds(pending', f)
  <2>1. CASE \E j \in 1..Len(pending) : j # 1 /\ pending[j].op = "bind" /\ pending[j].folder = f
    BY <1>4, <2>1, TailBinds
  <2>2. CASE (r.op = "bind" /\ r.folder = f) \/ f \in conf.bound \cup conf.refused
    BY <1>5, <2>2
  <2> QED
    BY <1>3, <1>4, <2>1, <2>2 DEF Serves, Binds
<1>7. Rebound(pending', bindings')
  BY <1>3, <1>4, TailRebound DEF Serves
<1>8. Serves'
  BY <1>4, <1>5, <1>6, <1>7 DEF Serves
<1> QED
  BY <1>2, <1>8 DEF Staged, NoUnbind

\* Every step keeps the stages.
LEMMA StagedStep == Base /\ Staged /\ [Next]_vars => Staged'
<1> SUFFICES ASSUME Base, Staged, [Next]_vars PROVE Staged'
  OBVIOUS
<1>0. TypeOK /\ LatchIsCurrent
  BY DEF Base, Owner
<1>1. ASSUME NEW c \in Clients, NEW f \in Folders, Bind(c, f) PROVE Staged'
  <2> DEFINE r == [by |-> c, op |-> "bind", folder |-> f]
  <2>1. r \in ClientRequest /\ Send(r) /\ Recorded(r)
    BY <1>1, RequestTypes DEF Bind, Recorded
  <2> QED
    BY <2>1, SendStaged
<1>2. ASSUME NEW c \in Clients, NEW f \in Folders, Unbind(c, f) PROVE Staged'
  <2> DEFINE r == [by |-> c, op |-> "unbind", folder |-> f]
  <2>1. CASE proc = 0
    BY <1>2, <2>1, StagedAlone DEF Unbind
  <2>2. CASE proc # 0
    <3>1. r \in ClientRequest /\ Send(r) /\ Recorded(r)
      BY <1>2, <2>2, RequestTypes DEF Unbind, Recorded
    <3> QED
      BY <3>1, SendStaged
  <2> QED
    BY <2>1, <2>2
<1>3. ASSUME NEW c \in Clients, Query(c) PROVE Staged'
  <2> DEFINE r == [by |-> c, op |-> "query", folder |-> AnyFolder]
  <2>1. r \in ClientRequest /\ Send(r) /\ Recorded(r)
    BY <1>3, AnyFolderType, RequestTypes DEF Query, Recorded
  <2> QED
    BY <2>1, SendStaged
<1>4. ASSUME NEW g \in Generations, ChildReady(g) PROVE Staged'
  <2>1. CASE closeP = g
    <3>1. g # 0
      BY DEF Generations
    <3>2. proc = 0
      BY <2>1, <3>1, Numbers
    <3> QED
      BY <1>4, <3>2, StagedAlone DEF ChildReady
  <2>2. CASE /\ proc = g /\ gen' = [gen EXCEPT ![g].state = "rules"]
             /\ pending' = <<SetRules>>
    <3>0. proc # 0
      BY <2>2 DEF Generations
    <3>1. UNCHANGED <<proc, held, conf, bindings>> /\ gen[proc].state = "spawning" /\ proc # 0
      BY <1>4, <2>2, <3>0 DEF ChildReady
    <3>2. gen'[proc].state = "rules" /\ gen'[proc].calls = gen[proc].calls
      BY <1>0, <2>2 DEF TypeOK, Generation
    <3>3. Starts
      BY <3>1 DEF Staged
    <3>4. Starts'
      BY <2>2, <3>1, <3>2, <3>3, RequestTypes DEF Starts
    <3> QED
      BY <3>1, <3>2, <3>4 DEF Staged, NoUnbind
  <2> QED
    BY <1>4, <2>1, <2>2 DEF ChildReady
<1>5. ASSUME NEW g \in Generations, LateExit(g) PROVE Staged'
  <2>1. proc # 0 => g # proc
    BY <1>0, <1>5 DEF Base, Owner, LatchIsCurrent, LateExit
  <2> QED
    BY <1>0, <1>5, <2>1, StagedUnmoved, Numbers DEF LateExit, TypeOK
<1>6. ASSUME ReplyError PROVE Staged'
  <2>1. CASE Retire(Victims(Head(pending)), "error reply")
    BY <2>1, StagedAlone DEF Retire
  <2>2. CASE /\ Head(pending).by \in Clients
             /\ pending' = Tail(pending)
             /\ conf' = [conf EXCEPT !.refused =
                           IF Head(pending).op = "query" THEN @
                           ELSE @ \cup {Head(pending).folder}]
             /\ UNCHANGED <<gen, proc, held>>
    BY <1>6, <2>2, ErrorStaged DEF ReplyError
  <2> QED
    BY <1>6, <2>1, <2>2 DEF ReplyError
<1>7. ASSUME CallTimeout \/ Close PROVE Staged'
  BY <1>7, StagedAlone DEF CallTimeout, Close, Retire
<1>8. ASSUME Reset PROVE Staged'
  <2>1. CASE Retire({}, "retiring")
    BY <2>1, StagedAlone DEF Retire
  <2>2. CASE closeP # 0 /\ bindings' = bindings
             /\ UNCHANGED <<gen, proc, held, pending, conf>>
    BY <2>2, StagedUnmoved
  <2>3. CASE proc = 0 /\ UNCHANGED <<proc, held>>
    BY <2>3, StagedAlone
  <2> QED
    BY <1>8, <2>1, <2>2, <2>3 DEF Reset
<1>9. ASSUME Escalate PROVE Staged'
  BY <1>9, StagedUnmoved DEF Escalate
<1>10. ASSUME RetiredChildExits PROVE Staged'
  <2>1. [gen EXCEPT ![closeP] = Gone] \in [Generations -> Generation]
    BY <1>0, OverType DEF TypeOK
  <2> QED
    BY <1>10, <2>1, ReleaseStaged DEF RetiredChildExits
<1>11. ASSUME GiveUp PROVE Staged'
  <2>1. closeP \in Generations
    BY <1>11, Numbers DEF GiveUp
  <2>2. [gen EXCEPT ![closeP].state = "killed"] \in [Generations -> Generation]
    BY <1>0, <2>1, KilledType
  <2> QED
    BY <1>11, <2>2, ReleaseStaged DEF GiveUp
<1>12. ASSUME CurrentChildExits PROVE Staged'
  BY <1>12, StagedAlone DEF CurrentChildExits
<1>13. CASE UNCHANGED vars
  BY <1>13, StagedUnmoved DEF vars
<1> QED
  BY <1>1, <1>2, <1>3, <1>4, <1>5, <1>6, <1>7, <1>8, <1>9, <1>10, <1>11, <1>12,
     <1>13, ReplyStaged DEF Next

\* No public call reaches a child before it has its rules and every retained
\* binding, whatever is bound or unbound while the bindings are replayed, and
\* whichever calls were held by a retirement or waited for the attempt.
THEOREM CallsFindConfiguredChild == Spec => []ConfiguredBarrier
<1>1. Base /\ Staged => ConfiguredBarrier
  <2> SUFFICES ASSUME Base, Staged, Callers(pending) \cap Clients # {}
               PROVE  /\ gen[proc].state = "configured"
                      /\ conf.rules
                      /\ \A f \in bindings :
                           \/ f \in conf.bound \cup conf.refused
                           \/ \E r \in Range(pending) : r.op = "bind" /\ r.folder = f
    BY DEF ConfiguredBarrier
  <2>1. TypeOK /\ LatchIsCurrent
    BY DEF Base, Owner
  <2>2. PICK i \in DOMAIN pending : pending[i].by \in Clients
    BY DEF Callers, Range
  <2>3. proc # 0 /\ proc \in Generations /\ gen[proc] \in Generation
    BY <2>1, <2>2, Numbers DEF LatchIsCurrent, TypeOK
  <2>4. gen[proc].state = "configured"
    <3> SUFFICES ASSUME gen[proc].state # "configured" PROVE FALSE
      OBVIOUS
    <3>1. Starts /\ gen[proc].state \in {"spawning", "rules", "replay"}
      BY <2>1, <2>3 DEF Staged, Generation, GenerationStates, LatchIsCurrent
    <3>2. gen[proc].state \in {"rules", "replay"}
      BY <2>2, <3>1 DEF Starts
    <3>3. PICK s \in BootstrapRequest : pending = <<s>>
      BY <3>1, <3>2 DEF Starts
    <3> QED
      BY <2>2, <3>3, RequestTypes
  <2>5. Serves
    BY <2>3, <2>4 DEF Staged
  <2>6. \A f : Binds(pending, f) => \E r \in Range(pending) : r.op = "bind" /\ r.folder = f
    BY <2>5 DEF Binds, Serves, Range
  <2> QED
    BY <2>4, <2>5, <2>6 DEF Serves
<1>2. Init => Base /\ Staged
  BY BaseInit, StagedInit
<1>3. Base /\ Staged /\ [Next]_vars => (Base /\ Staged)'
  BY BaseStep, StagedStep
<1> QED
  BY <1>1, <1>2, <1>3, PTL DEF Spec
=============================================================================
