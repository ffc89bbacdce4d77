-------------------------- MODULE Reconcile_proofs --------------------------
(***************************************************************************)
(* Proofs about Reconcile for any finite set of files, any contents, any   *)
(* number of edits, saves and failing calls.                               *)
(***************************************************************************)
EXTENDS Reconcile, SequenceTheorems, TLAPS

USE ReconcileAssumption DEF ReconcileAssumption

-----------------------------------------------------------------------------
(* Types. *)

Text == Contents \cup {None}
Work == [renamed : SUBSET Pair, deleted : SUBSET Paths,
         added : SUBSET Paths, modified : SUBSET Paths]

\* The calls that are sent are calls, and are what they were made.
LEMMA CallTypes ==
    /\ Diff \in Call /\ Diff.op = "diff" /\ Diff.by = "sync" /\ Diff.path = None
    /\ \A op \in {"write", "upsert", "delete"}, p \in Paths \cup {None}, c \in Text,
          by \in {"sync", "save"} :
          /\ Write(op, p, c, by) \in Call
          /\ Write(op, p, c, by).op = op /\ Write(op, p, c, by).path = p
          /\ Write(op, p, c, by).text = c /\ Write(op, p, c, by).by = by
    /\ \A p \in Paths \cup {None}, by \in {"sync", "save"} :
          /\ Delete(p, by) \in Call
          /\ Delete(p, by).op = "delete" /\ Delete(p, by).path = p /\ Delete(p, by).by = by
    /\ \A r \in Pair, c \in Text :
          /\ RenameRow(r, c) \in Call
          /\ RenameRow(r, c).op = "rename" /\ RenameRow(r, c).path = r.new
          /\ RenameRow(r, c).old = r.old /\ RenameRow(r, c).text = c
          /\ RenameRow(r, c).by = "sync"
BY DEF Diff, Write, Delete, RenameRow, Call, Text, Pair

\* A save and a reconcile send a write or an upsert of what they read.
LEMMA WriteRowTypes ==
    ASSUME NEW p \in Paths, NEW c \in Text, NEW by \in {"sync", "save"}
    PROVE  LET w == WriteRow(p, c, by)
           IN  /\ w \in Call /\ w.path = p /\ w.text = c /\ w.by = by
               /\ w.op = IF decision = "none" THEN "upsert" ELSE "write"
<1>1. (IF decision = "none" THEN "upsert" ELSE "write") \in {"write", "upsert", "delete"}
  OBVIOUS
<1>2. p \in Paths \cup {None}
  OBVIOUS
<1> QED
  BY <1>1, <1>2, CallTypes DEF WriteRow

\* The queue of the store as a set.
LEMMA Queue ==
    ASSUME NEW S, NEW s \in Seq(S)
    PROVE  /\ \A c \in S : Append(s, c) \in Seq(S) /\ Range(Append(s, c)) = Range(s) \cup {c}
           /\ s # <<>> => /\ Head(s) \in S /\ Tail(s) \in Seq(S)
                          /\ Range(s) = {Head(s)} \cup Range(Tail(s))
           /\ Range(s) \subseteq S
           /\ Range(s) = {s[k] : k \in 1..Len(s)}
<1>1. DOMAIN s = 1..Len(s) /\ Len(s) \in Nat /\ Range(s) = {s[k] : k \in 1..Len(s)}
  BY DEF Range
<1>2. ASSUME NEW c \in S PROVE Append(s, c) \in Seq(S) /\ Range(Append(s, c)) = Range(s) \cup {c}
  <2>1. /\ Append(s, c) \in Seq(S) /\ Len(Append(s, c)) = Len(s) + 1
        /\ DOMAIN Append(s, c) = 1..Len(s) + 1
        /\ Append(s, c)[Len(s) + 1] = c /\ \A k \in 1..Len(s) : Append(s, c)[k] = s[k]
    BY <1>1, AppendProperties
  <2>2. ASSUME NEW k \in 1..Len(s) + 1 PROVE Append(s, c)[k] \in Range(s) \cup {c}
    <3>1. k \in 1..Len(s) \/ k = Len(s) + 1
      BY <1>1
    <3> QED
      BY <1>1, <2>1, <3>1
  <2>3. ASSUME NEW k \in 1..Len(s) PROVE s[k] \in Range(Append(s, c))
    <3>1. k \in 1..Len(s) + 1
      BY <1>1
    <3> QED
      BY <2>1, <3>1 DEF Range
  <2>4. c \in Range(Append(s, c))
    <3>1. Len(s) + 1 \in 1..Len(s) + 1
      BY <1>1
    <3> QED
      BY <2>1, <3>1 DEF Range
  <2>5. Range(Append(s, c)) = {Append(s, c)[k] : k \in 1..Len(s) + 1}
    BY <2>1 DEF Range
  <2> QED
    BY <1>1, <2>1, <2>2, <2>3, <2>4, <2>5
<1>3. ASSUME s # <<>>
      PROVE  /\ Head(s) \in S /\ Tail(s) \in Seq(S)
             /\ Range(s) = {Head(s)} \cup Range(Tail(s))
  <2>1. /\ Head(s) \in S /\ Tail(s) \in Seq(S) /\ Head(s) = s[1] /\ 1 \in 1..Len(s)
        /\ Len(Tail(s)) = Len(s) - 1 /\ DOMAIN Tail(s) = 1..Len(s) - 1
        /\ \A k \in 1..Len(s) - 1 : Tail(s)[k] = s[k + 1] /\ k + 1 \in 1..Len(s)
    <3>1. /\ Len(s) > 0 /\ Head(s) = s[1] /\ Tail(s) \in Seq(S) /\ Len(Tail(s)) = Len(s) - 1
          /\ \A k \in 1..Len(Tail(s)) : Tail(s)[k] = s[k + 1]
      BY <1>1, <1>3, HeadTailProperties
    <3> QED
      BY <1>1, <3>1
  <2>2. Range(Tail(s)) = {Tail(s)[k] : k \in 1..Len(s) - 1}
    BY <2>1 DEF Range
  <2>3. ASSUME NEW k \in 1..Len(s) PROVE s[k] \in {Head(s)} \cup Range(Tail(s))
    <3>1. k = 1 \/ (k - 1 \in 1..Len(s) - 1 /\ k = (k - 1) + 1)
      BY <1>1
    <3> QED
      BY <2>1, <2>2, <3>1
  <2> QED
    BY <1>1, <2>1, <2>2, <2>3
<1> QED
  BY <1>1, <1>2, <1>3

\* An answered call leaves the queue, and another one may join it.
LEMMA Taken ==
    ASSUME NEW s \in Seq(Call), s # <<>>, NEW d \in Call, NEW t,
           t = Tail(s) \/ t = Append(Tail(s), d)
    PROVE  /\ Range(s) = {Head(s)} \cup Range(Tail(s)) /\ Tail(s) \in Seq(Call)
           /\ t \in Seq(Call) /\ Range(t) \subseteq Range(Tail(s)) \cup {d}
           /\ Range(Tail(s)) \subseteq Range(t)
<1>1. Range(s) = {Head(s)} \cup Range(Tail(s)) /\ Tail(s) \in Seq(Call)
  BY Queue
<1>2. Append(Tail(s), d) \in Seq(Call) /\ Range(Append(Tail(s), d)) = Range(Tail(s)) \cup {d}
  <2> DEFINE r == Tail(s)
  <2>1. r \in Seq(Call)
    BY <1>1
  <2> HIDE DEF r
  <2>2. Append(r, d) \in Seq(Call) /\ Range(Append(r, d)) = Range(r) \cup {d}
    BY <2>1, Queue
  <2> QED
    BY <2>2 DEF r
<1> QED
  BY <1>1, <1>2

\* What an answered call does to the rows.
LEMMA AppliedRows ==
    ASSUME TypeOK, NEW c \in Call
    PROVE  /\ c.op # "diff" => Applied(c) \in [Paths -> Text]
           /\ \A p \in Paths :
                /\ c.op \in {"upsert", "rename"} /\ c.path = p => Applied(c)[p] = c.text
                /\ c.op = "delete" /\ c.path = p => Applied(c)[p] = None
                /\ c.op = "rename" /\ c.old = p /\ c.path # p => Applied(c)[p] = None
                /\ c.op = "write" => Applied(c)[p] = row[p]
                /\ c.op \in {"upsert", "delete"} /\ c.path # p => Applied(c)[p] = row[p]
                /\ c.op = "rename" /\ c.path # p /\ c.old # p => Applied(c)[p] = row[p]
<1>1. c.op \in {"diff", "write", "upsert", "delete", "rename"} /\ c.text \in Text
  BY DEF Call, Text
<1>2. row \in [Paths -> Text]
  BY DEF TypeOK, Text
<1>3. CASE c.op = "upsert"
  BY <1>1, <1>2, <1>3 DEF Applied
<1>4. CASE c.op = "delete"
  BY <1>1, <1>2, <1>4 DEF Applied, Text
<1>5. CASE c.op = "rename"
  BY <1>1, <1>2, <1>5 DEF Applied, Text
<1>6. CASE c.op = "write"
  BY <1>1, <1>2, <1>6 DEF Applied
<1> QED
  BY <1>1, <1>3, <1>4, <1>5, <1>6

\* An answer takes the first call; a lookup that finds another row adds its removal.
LEMMA Answers ==
    ASSUME TypeOK, Answer
    PROVE  LET c == Head(calls)
               rest == Tail(calls)
           IN  /\ calls # <<>> /\ c \in Call /\ rest \in Seq(Call)
               /\ UNCHANGED <<disk, saves, decision, requests, faults>>
               /\ \/ c.op = "diff" /\ DiffAnswered /\ calls' = rest /\ row' = row
                  \/ /\ c.op # "diff" /\ row' = Applied(c) /\ UNCHANGED <<others, syncVars>>
                     /\ \/ /\ calls' = rest
                           /\ c.op = "write" => row[c.path] \in {None, c.text}
                        \/ /\ c.op = "write" /\ calls' = Append(rest, Delete(c.path, c.by))
                           /\ row[c.path] \notin {None, c.text}
<1> DEFINE c == Head(calls)
           rest == Tail(calls)
<1>1. calls # <<>> /\ calls \in Seq(Call)
  BY DEF Answer, TypeOK
<1>2. c \in Call /\ rest \in Seq(Call)
  BY <1>1, Queue
<1>3. c.path \in Paths \cup {None} /\ c.by \in {"sync", "save"}
  BY <1>2 DEF Call
<1>4. rest \o <<>> = rest /\ rest \o <<Delete(c.path, c.by)>> = Append(rest, Delete(c.path, c.by))
  <2>1. Delete(c.path, c.by) \in Call
    BY <1>3, CallTypes
  <2> QED
    BY <1>2, <2>1, AppendIsConcat, ConcatEmptySeq
<1>5. UNCHANGED <<disk, saves, decision, requests, faults>>
  BY DEF Answer
<1>6. CASE c.op = "diff"
  BY <1>1, <1>2, <1>5, <1>6 DEF Answer
<1>7. CASE c.op # "diff"
  <2>1. /\ calls' = rest \o AfterLookup(c) /\ row' = Applied(c)
        /\ UNCHANGED <<others, syncVars>>
    BY <1>7 DEF Answer
  <2> QED
    BY <1>1, <1>2, <1>4, <1>5, <1>7, <2>1 DEF AfterLookup
<1> QED
  BY <1>6, <1>7

\* A failed call is taken, too; the rows it was to replace may be gone.
LEMMA Errors ==
    ASSUME TypeOK, AnswerError
    PROVE  LET c == Head(calls)
               rest == Tail(calls)
           IN  /\ calls # <<>> /\ c \in Call /\ rest \in Seq(Call)
               /\ UNCHANGED <<disk, saves, decision, force, pausing, work, stale, requests>>
               /\ calls' = IF c.op = "rename" THEN Append(rest, Delete(c.old, "sync")) ELSE rest
               /\ row' \in [Paths -> Text]
               /\ \A p \in Paths : \/ row'[p] = row[p]
                                   \/ row'[p] = None /\ c.op = "upsert" /\ c.path = p
                                   \/ row'[p] = None /\ c.op = "rename" /\ p \in {c.old, c.path}
               /\ IF c.op = "diff" THEN phase' = "idle" /\ outcome' = "failed"
                                   ELSE UNCHANGED <<phase, outcome>>
               /\ failed' = (failed \/ c.by = "sync")
               /\ stuck' = (stuck \/ (c.by = "sync" /\ phase = "invalidate"))
               /\ others' = IF c.by = "save" THEN [others EXCEPT ![c.path] = "edited"] ELSE others
               /\ faults' \in 0..MaxFaults
<1> DEFINE c == Head(calls)
           rest == Tail(calls)
<1>1. calls # <<>> /\ calls \in Seq(Call) /\ row \in [Paths -> Text]
  BY DEF AnswerError, TypeOK, Text
<1>2. c \in Call /\ rest \in Seq(Call)
  BY <1>1, Queue
<1>3. /\ row' \in [Paths -> Text]
      /\ \A p \in Paths : \/ row'[p] = row[p]
                          \/ row'[p] = None /\ c.op = "upsert" /\ c.path = p
                          \/ row'[p] = None /\ c.op = "rename" /\ p \in {c.old, c.path}
  <2>1. row' \in {row} \cup
                   (CASE c.op = "upsert" -> {[row EXCEPT ![c.path] = None]}
                      [] c.op = "rename" -> {[row EXCEPT ![c.old] = None, ![c.path] = None]}
                      [] OTHER -> {})
    BY DEF AnswerError
  <2>2. CASE row' = row
    BY <1>1, <2>2
  <2>3. CASE c.op = "upsert" /\ row' = [row EXCEPT ![c.path] = None]
    BY <1>1, <2>3 DEF Text
  <2>4. CASE c.op = "rename" /\ row' = [row EXCEPT ![c.old] = None, ![c.path] = None]
    BY <1>1, <2>4 DEF Text
  <2> QED
    BY <2>1, <2>2, <2>3, <2>4
<1>4. faults' \in 0..MaxFaults
  BY DEF AnswerError, Fault, TypeOK
<1>5. /\ UNCHANGED <<disk, saves, decision, force, pausing, work, stale, requests>>
      /\ calls' = IF c.op = "rename" THEN Append(rest, Delete(c.old, "sync")) ELSE rest
      /\ IF c.op = "diff" THEN phase' = "idle" /\ outcome' = "failed"
                          ELSE UNCHANGED <<phase, outcome>>
      /\ failed' = (failed \/ c.by = "sync")
      /\ stuck' = (stuck \/ (c.by = "sync" /\ phase = "invalidate"))
      /\ others' = IF c.by = "save" THEN [others EXCEPT ![c.path] = "edited"] ELSE others
  BY DEF AnswerError, Counted, Stuck
<1> QED
  BY <1>1, <1>2, <1>3, <1>4, <1>5

\* The diff is made of files, and a rename of two of them.
LEMMA DiffTypes ==
    /\ ScanDiff \in Work
    /\ \A r \in ScanDiff.renamed : /\ disk[r.old] = None /\ row[r.old] # None
                                   /\ disk[r.new] # None /\ row[r.new] = None
    /\ \A p \in ScanDiff.deleted : disk[p] = None
    /\ \A p \in ScanDiff.added : disk[p] # None /\ row[p] = None
    /\ \A p \in ScanDiff.modified : disk[p] # None
    /\ \A p \in Paths : \/ row[p] = disk[p]
                        \/ p \in ScanDiff.deleted \cup ScanDiff.added \cup ScanDiff.modified
                        \/ \E r \in ScanDiff.renamed : p \in {r.old, r.new}
    /\ \A p \in Paths : disk[p] # None => row[p] \in {None, disk[p]} \/ p \in ScanDiff.modified
<1> DEFINE added == {p \in Paths : disk[p] # None /\ row[p] = None}
           deleted == {p \in Paths : disk[p] = None /\ row[p] # None}
           modified == {p \in Paths : disk[p] # None /\ row[p] \notin {None, disk[p]}}
           renamed == Renames(added, deleted)
<1>1. \A r \in renamed : r \in Pair /\ r.old \in deleted /\ r.new \in added
  BY DEF Renames, Pair
<1>2. /\ ScanDiff.renamed = renamed /\ ScanDiff.deleted = deleted \ {r.old : r \in renamed}
      /\ ScanDiff.added = added \ {r.new : r \in renamed} /\ ScanDiff.modified = modified
      /\ ScanDiff = [renamed |-> renamed, deleted |-> deleted \ {r.old : r \in renamed},
                     added |-> added \ {r.new : r \in renamed}, modified |-> modified]
  BY DEF ScanDiff
<1>3. ScanDiff \in Work
  BY <1>1, <1>2 DEF Work
<1>4. \A p \in Paths : row[p] = disk[p] \/ p \in added \cup deleted \cup modified
  OBVIOUS
<1>5. \A p \in added \cup deleted : \/ p \in ScanDiff.deleted \cup ScanDiff.added
                                    \/ \E r \in renamed : p \in {r.old, r.new}
  BY <1>2
<1> HIDE DEF renamed
<1> QED
  BY <1>1, <1>2, <1>3, <1>4, <1>5

-----------------------------------------------------------------------------
(* The type invariant. *)

LEMMA TypeInit == Init => TypeOK
<1> SUFFICES ASSUME Init PROVE TypeOK
  OBVIOUS
<1>1. calls \in Seq(Call) /\ work \in Work
  BY DEF Init, NoWork, Work
<1>2. others \in [Paths -> {"none", "saved", "edited"}] /\ saves \subseteq Paths \X Contents
  BY DEF Init
<1>3. requests \in 0..MaxRequests /\ faults \in 0..MaxFaults
  BY DEF Init
<1>4. /\ phase \in Phases /\ outcome \in Outcomes /\ stale \subseteq Paths
      /\ decision \in {"none", "awaiting", "paused"}
      /\ force \in BOOLEAN /\ pausing \in BOOLEAN /\ failed \in BOOLEAN /\ stuck \in BOOLEAN
  BY DEF Init, Phases, Outcomes
<1>5. disk \in [Paths -> Text] /\ row \in [Paths -> Text]
  BY DEF Init, Text
<1> QED
  BY <1>1, <1>2, <1>3, <1>4, <1>5 DEF TypeOK, Work, Text

\* The variables that a reconcile works on.
SyncTypes ==
    /\ phase \in Phases /\ work \in Work /\ stale \subseteq Paths /\ outcome \in Outcomes
    /\ force \in BOOLEAN /\ pausing \in BOOLEAN /\ failed \in BOOLEAN /\ stuck \in BOOLEAN
StoreTypes == row \in [Paths -> Text] /\ calls \in Seq(Call)
FileTypes ==
    /\ disk \in [Paths -> Text] /\ saves \subseteq Paths \X Contents
    /\ others \in [Paths -> {"none", "saved", "edited"}]
RestTypes == /\ decision \in {"none", "awaiting", "paused"}
             /\ requests \in 0..MaxRequests /\ faults \in 0..MaxFaults
LEMMA CountTypes ==
    ASSUME TypeOK
    PROVE  /\ Request => requests' \in 0..MaxRequests
           /\ Fault => faults' \in 0..MaxFaults
BY DEF TypeOK, Request, Fault

LEMMA EditTypes ==
    ASSUME TypeOK, NEW p \in Paths,
           Edit(p) \/ (\E c \in Contents : Save(p, c)) \/ (\E s \in saves : SendSave(s))
    PROVE  TypeOK'
<1>1. CASE Edit(p)
  <2>1. FileTypes'
    BY <1>1 DEF Edit, TypeOK, FileTypes, Text
  <2>2. StoreTypes' /\ SyncTypes' /\ RestTypes'
    BY <1>1, CountTypes
       DEF Edit, TypeOK, StoreTypes, SyncTypes, RestTypes, storeVars, syncVars, Text, Work
  <2> QED
    BY <2>1, <2>2
       DEF TypeOK, SyncTypes, StoreTypes, FileTypes, RestTypes, Text, Work
<1>2. ASSUME NEW c \in Contents, Save(p, c) PROVE TypeOK'
  <2>1. FileTypes'
    BY <1>2 DEF Save, TypeOK, FileTypes, Text
  <2>2. StoreTypes' /\ SyncTypes' /\ RestTypes'
    BY <1>2, CountTypes
       DEF Save, TypeOK, StoreTypes, SyncTypes, RestTypes, storeVars, syncVars, Text, Work
  <2> QED
    BY <2>1, <2>2
       DEF TypeOK, SyncTypes, StoreTypes, FileTypes, RestTypes, Text, Work
<1>3. ASSUME NEW s \in saves, SendSave(s) PROVE TypeOK'
  <2>1. s[1] \in Paths /\ s[2] \in Text
    BY DEF TypeOK, Text
  <2>2. WriteRow(s[1], s[2], "save") \in Call
    BY <2>1, WriteRowTypes
  <2>3. StoreTypes'
    BY <1>3, <2>2 DEF SendSave, TypeOK, StoreTypes, Text
  <2>4. FileTypes' /\ SyncTypes' /\ RestTypes'
    BY <1>3 DEF SendSave, TypeOK, FileTypes, SyncTypes, RestTypes, syncVars, Text, Work
  <2> QED
    BY <2>3, <2>4
       DEF TypeOK, SyncTypes, StoreTypes, FileTypes, RestTypes, Text, Work
<1> QED
  BY <1>1, <1>2, <1>3

LEMMA StartTypes ==
    ASSUME TypeOK, (\E forced \in BOOLEAN : StartSync(forced)) \/ Defer
    PROVE  TypeOK'
<1>1. ASSUME NEW forced \in BOOLEAN, StartSync(forced) PROVE TypeOK'
  <2>1. StoreTypes'
    BY <1>1, CallTypes DEF StartSync, TypeOK, StoreTypes, Text
  <2>2. FileTypes' /\ RestTypes'
    BY <1>1, CountTypes DEF StartSync, TypeOK, FileTypes, RestTypes, fileVars, Text
  <2>3. SyncTypes'
    BY <1>1 DEF StartSync, TypeOK, SyncTypes, Work, Phases
  <2> QED
    BY <2>1, <2>2, <2>3
       DEF TypeOK, SyncTypes, StoreTypes, FileTypes, RestTypes, Text, Work
<1>2. CASE Defer
  <2>1. FileTypes' /\ StoreTypes' /\ SyncTypes' /\ RestTypes'
    BY <1>2, CountTypes DEF Defer, TypeOK, FileTypes, StoreTypes, SyncTypes, RestTypes,
                            storeVars, fileVars, syncVars, Text, Work
  <2> QED
    BY <2>1
       DEF TypeOK, SyncTypes, StoreTypes, FileTypes, RestTypes, Text, Work
<1> QED
  BY <1>1, <1>2

LEMMA AnswerTypes ==
    ASSUME TypeOK, Answer \/ AnswerError
    PROVE  TypeOK'
<1> DEFINE c == Head(calls)
           rest == Tail(calls)
<1>1. CASE Answer
  <2>1. c \in Call /\ rest \in Seq(Call)
    BY <1>1, Answers
  <2>2. RestTypes'
    BY <1>1, Answers DEF TypeOK, RestTypes
  <2>3. CASE c.op = "diff" /\ DiffAnswered /\ calls' = rest /\ row' = row
    <3>1. StoreTypes'
      BY <2>1, <2>3 DEF StoreTypes, TypeOK, Text
    <3>2. FileTypes'
      BY <1>1, <2>3, Answers DEF FileTypes, TypeOK, Text, DiffAnswered
    <3>3. work' \in Work /\ stale' \subseteq Paths
      BY <2>3, DiffTypes DEF DiffAnswered, Work
    <3>4. pausing' \in BOOLEAN
      BY <2>3 DEF DiffAnswered
    <3>5. phase' \in Phases /\ outcome' \in Outcomes
      BY <2>3 DEF DiffAnswered, TypeOK, Phases, Outcomes
    <3>6. SyncTypes'
      BY <2>3, <3>3, <3>4, <3>5 DEF DiffAnswered, SyncTypes, TypeOK
    <3> QED
      BY <2>2, <3>1, <3>2, <3>6
       DEF TypeOK, SyncTypes, StoreTypes, FileTypes, RestTypes, Text, Work
  <2>4. CASE /\ c.op # "diff" /\ row' = Applied(c) /\ UNCHANGED <<others, syncVars>>
             /\ calls' = rest \/ calls' = Append(rest, Delete(c.path, c.by))
    <3>1. Delete(c.path, c.by) \in Call
      BY <2>1, CallTypes DEF Call
    <3>2. StoreTypes'
      BY <2>1, <2>4, <3>1, AppliedRows DEF StoreTypes, Text
    <3>3. FileTypes' /\ SyncTypes'
      BY <1>1, <2>4, Answers DEF FileTypes, SyncTypes, TypeOK, Text, Work, syncVars
    <3> QED
      BY <2>2, <3>2, <3>3
       DEF TypeOK, SyncTypes, StoreTypes, FileTypes, RestTypes, Text, Work
  <2> QED
    BY <1>1, <2>3, <2>4, Answers
<1>2. CASE AnswerError
  <2>1. c \in Call /\ rest \in Seq(Call) /\ row' \in [Paths -> Text]
    BY <1>2, Errors
  <2>2. Delete(c.old, "sync") \in Call
    BY <2>1, CallTypes DEF Call
  <2>3. StoreTypes'
    <3>1. calls' = IF c.op = "rename" THEN Append(rest, Delete(c.old, "sync")) ELSE rest
      BY <1>2, Errors
    <3>2. Append(rest, Delete(c.old, "sync")) \in Seq(Call)
      BY <2>1, <2>2, Queue
    <3> HIDE DEF c, rest
    <3> QED
      BY <2>1, <3>1, <3>2 DEF StoreTypes, Text
  <2>4. FileTypes' /\ RestTypes'
    BY <1>2, Errors DEF FileTypes, RestTypes, TypeOK, Text
  <2>5. SyncTypes'
    <3>1. phase' \in Phases /\ outcome' \in Outcomes
      BY <1>2, Errors DEF TypeOK, Phases, Outcomes
    <3>2. failed' \in BOOLEAN /\ stuck' \in BOOLEAN
      BY <1>2, Errors
    <3> QED
      BY <1>2, <3>1, <3>2, Errors DEF SyncTypes, TypeOK, Work
  <2> QED
    BY <2>3, <2>4, <2>5
       DEF TypeOK, SyncTypes, StoreTypes, FileTypes, RestTypes, Text, Work
<1> QED
  BY <1>1, <1>2

\* A step of the reconcile that sends a call.
LEMMA SendTypes ==
    ASSUME TypeOK, NEW c \in Call, Send(c), work' \in Work, stale' \subseteq Paths,
           failed' \in BOOLEAN
    PROVE  TypeOK'
<1>1. StoreTypes'
  BY DEF Send, TypeOK, StoreTypes, Text
<1>2. FileTypes' /\ RestTypes'
  BY DEF Send, TypeOK, FileTypes, RestTypes, fileVars, Text
<1>3. SyncTypes'
  BY DEF Send, TypeOK, SyncTypes
<1> QED
  BY <1>1, <1>2, <1>3
       DEF TypeOK, SyncTypes, StoreTypes, FileTypes, RestTypes, Text, Work

\* The work that is left.
LEMMA WorkTypes ==
    ASSUME TypeOK
    PROVE  /\ work \in Work /\ NoWork \in Work
           /\ \A R \in SUBSET Pair : [work EXCEPT !.renamed = R] \in Work
           /\ \A D \in SUBSET Paths : [work EXCEPT !.deleted = D] \in Work
           /\ \A A \in SUBSET Paths, M \in SUBSET Paths :
                 [work EXCEPT !.added = A, !.modified = M] \in Work
           /\ work.renamed \subseteq Pair /\ work.deleted \subseteq Paths
           /\ work.added \subseteq Paths /\ work.modified \subseteq Paths
BY DEF TypeOK, Work, NoWork

LEMMA PhaseTypes ==
    ASSUME TypeOK,
           \/ RenamesDone \/ DeletesDone \/ Publish \/ FallBack \/ Done \/ Stop
    PROVE  TypeOK'
<1>1. ASSUME NEW ph \in Phases, Enter(ph), decision' \in {"none", "awaiting", "paused"},
             faults' \in 0..MaxFaults
      PROVE  TypeOK'
  <2>1. FileTypes' /\ StoreTypes' /\ RestTypes' /\ SyncTypes'
    BY <1>1 DEF Enter, TypeOK, FileTypes, StoreTypes, SyncTypes, RestTypes, storeVars,
                fileVars, Text, Work
  <2> QED
    BY <2>1
       DEF TypeOK, SyncTypes, StoreTypes, FileTypes, RestTypes, Text, Work
<1>2. ASSUME NEW how \in Outcomes, Finish(how), decision' \in {"none", "awaiting", "paused"},
             faults' \in 0..MaxFaults
      PROVE  TypeOK'
  <2>1. FileTypes' /\ StoreTypes' /\ RestTypes'
    BY <1>2 DEF Finish, TypeOK, FileTypes, StoreTypes, RestTypes, storeVars, fileVars, Text
  <2>2. SyncTypes'
    BY <1>2, WorkTypes DEF Finish, TypeOK, SyncTypes, Phases
  <2> QED
    BY <2>1, <2>2
       DEF TypeOK, SyncTypes, StoreTypes, FileTypes, RestTypes, Text, Work
<1>3. {"delete", "invalidate", "upsert"} \subseteq Phases
      /\ {"paused", "stopped", "failed", "complete"} \subseteq Outcomes
  BY DEF Phases, Outcomes
<1>4. decision \in {"none", "awaiting", "paused"} /\ faults \in 0..MaxFaults
  BY DEF TypeOK
<1>5. CASE RenamesDone
  BY <1>1, <1>3, <1>4, <1>5 DEF RenamesDone
<1>6. CASE DeletesDone
  BY <1>1, <1>2, <1>3, <1>4, <1>6, CountTypes DEF DeletesDone
<1>7. CASE Publish
  BY <1>2, <1>3, <1>4, <1>7 DEF Publish
<1>8. CASE FallBack
  BY <1>1, <1>3, <1>4, <1>8, CountTypes DEF FallBack
<1>9. CASE Done
  BY <1>2, <1>3, <1>4, <1>9 DEF Done
<1>10. CASE Stop
  BY <1>2, <1>3, <1>4, <1>10, CountTypes DEF Stop
<1> QED
  BY <1>5, <1>6, <1>7, <1>8, <1>9, <1>10

LEMMA WorkSteps ==
    ASSUME TypeOK, RenameFile \/ DeleteRow \/ InvalidateRow \/ IndexOne
    PROVE  TypeOK'
<1>0. failed \in BOOLEAN /\ stale \subseteq Paths /\ disk \in [Paths -> Text] /\ work \in Work
  BY DEF TypeOK, Text, Work
<1>1. CASE RenameFile
  <2>1. PICK r \in work.renamed :
          /\ work' = [work EXCEPT !.renamed = @ \ {r}] /\ stale' = stale
          /\ failed' = (failed \/ disk[r.new] = None)
          /\ Send(IF disk[r.new] = None THEN Delete(r.old, "sync") ELSE RenameRow(r, disk[r.new]))
    BY <1>1 DEF RenameFile
  <2>2. r \in Pair /\ r.old \in Paths /\ r.new \in Paths
    BY <2>1, WorkTypes DEF Pair
  <2>3. Delete(r.old, "sync") \in Call /\ RenameRow(r, disk[r.new]) \in Call
    BY <1>0, <2>2, CallTypes
  <2>4. work.renamed \ {r} \in SUBSET Pair
    BY WorkTypes
  <2>5. work' \in Work /\ stale' \subseteq Paths /\ failed' \in BOOLEAN
    BY <1>0, <2>1, <2>4, WorkTypes
  <2> QED
    BY <2>1, <2>3, <2>5, SendTypes
<1>2. CASE DeleteRow
  <2>1. PICK p \in work.deleted :
          work' = [work EXCEPT !.deleted = @ \ {p}] /\ Send(Delete(p, "sync"))
    BY <1>2 DEF DeleteRow
  <2>2. Delete(p, "sync") \in Call /\ work.deleted \ {p} \in SUBSET Paths
    BY <2>1, WorkTypes, CallTypes
  <2>3. work' \in Work /\ stale' \subseteq Paths /\ failed' \in BOOLEAN
    BY <1>0, <1>2, <2>1, <2>2, WorkTypes DEF DeleteRow
  <2> QED
    BY <2>1, <2>2, <2>3, SendTypes
<1>3. CASE InvalidateRow
  <2>1. PICK p \in stale : stale' = stale \ {p} /\ Send(Delete(p, "sync"))
    BY <1>3 DEF InvalidateRow
  <2>2. Delete(p, "sync") \in Call
    BY <1>0, <2>1, CallTypes
  <2>3. work' \in Work /\ stale' \subseteq Paths /\ failed' \in BOOLEAN
    BY <1>0, <1>3, <2>1 DEF InvalidateRow, Work
  <2> QED
    BY <2>1, <2>2, <2>3, SendTypes
<1>4. CASE IndexOne
  <2>1. PICK p \in Turn :
         /\ work' = [work EXCEPT !.added = @ \ {p},
                                 !.modified = IF p \in work.added THEN @ ELSE @ \ {p}]
         /\ failed' = (failed \/ disk[p] = None)
         /\ Send(IF disk[p] = None THEN Delete(p, "sync") ELSE WriteRow(p, disk[p], "sync"))
    BY <1>4 DEF IndexOne
  <2>2. p \in Paths
    BY <2>1, WorkTypes DEF Turn
  <2>3. disk[p] \in Text
    BY <1>0, <2>2
  <2>4. Delete(p, "sync") \in Call /\ WriteRow(p, disk[p], "sync") \in Call
    BY <2>2, <2>3, CallTypes, WriteRowTypes
  <2>5. /\ work.added \ {p} \in SUBSET Paths
        /\ (IF p \in work.added THEN work.modified ELSE work.modified \ {p}) \in SUBSET Paths
    BY WorkTypes
  <2>6. work' \in Work
    BY <2>1, <2>5, WorkTypes
  <2>7. stale' \subseteq Paths /\ failed' \in BOOLEAN
    BY <1>0, <1>4, <2>1 DEF IndexOne
  <2> QED
    BY <2>1, <2>4, <2>6, <2>7, SendTypes
<1> QED
  BY <1>1, <1>2, <1>3, <1>4

LEMMA TypeStep == TypeOK /\ [Next]_vars => TypeOK'
<1> SUFFICES ASSUME TypeOK, [Next]_vars PROVE TypeOK'
  OBVIOUS
<1>1. CASE UNCHANGED vars
  BY <1>1 DEF TypeOK, vars, storeVars, fileVars, syncVars
<1>2. CASE \E p \in Paths : Edit(p) \/ \E c \in Contents : Save(p, c)
  BY <1>2, EditTypes
<1>3. ASSUME NEW s \in saves, SendSave(s) PROVE TypeOK'
  <2>1. s[1] \in Paths
    BY DEF TypeOK
  <2> QED
    BY <1>3, <2>1, EditTypes
<1>4. CASE (\E forced \in BOOLEAN : StartSync(forced)) \/ Defer
  BY <1>4, StartTypes
<1>5. CASE Answer \/ AnswerError
  BY <1>5, AnswerTypes
<1>6. CASE RenamesDone \/ DeletesDone \/ Publish \/ FallBack \/ Done \/ Stop
  BY <1>6, PhaseTypes
<1>7. CASE RenameFile \/ DeleteRow \/ InvalidateRow \/ IndexOne
  BY <1>7, WorkSteps
<1> QED
  BY <1>1, <1>2, <1>3, <1>4, <1>5, <1>6, <1>7 DEF Next, Sync

\* The calls of the reconcile and of the saves, the rows, the work and the counters
\* stay in the sets that their readers expect.
THEOREM TypeCorrect == Spec => []TypeOK
<1>1. Init => TypeOK
  BY TypeInit
<1>2. TypeOK /\ [Next]_vars => TypeOK'
  BY TypeStep
<1> QED
  BY <1>1, <1>2, PTL DEF Spec

-----------------------------------------------------------------------------
(* Saves and the queue. *)

\* A call that leaves a row of p with the text t, or without one, as it is.
Harmless(c, p, t) == c.path = p => c.op = "delete" \/ c.text = t
Safe(s, p, t) == \A c \in Range(s) : Harmless(c, p, t)

\* A save of p is in the queue, and it and what follows are harmless.
Settling(s, p, t) ==
    \E k \in 1..Len(s) : /\ s[k].by = "save" /\ s[k].path = p
                         /\ \A j \in k..Len(s) : Harmless(s[j], p, t)

\* The last save of p is still to be sent, or in the queue with nothing harmful behind
\* it, or has settled.
Covered(p) ==
    /\ \A s \in saves : s[1] = p => s[2] = disk[p]
    /\ \/ \E s \in saves : s[1] = p
       \/ Settling(calls, p, disk[p])
       \/ row[p] \in {None, disk[p]} /\ Safe(calls, p, disk[p])

\* Every file that only the application saved since the diff is covered.
Saved == \A p \in Paths : others[p] = "saved" => Covered(p)

\* A diff is the reconcile's.
Diffs == \A c \in Range(calls) : c.op = "diff" => c = Diff

LEMMA SafeGrows ==
    ASSUME NEW s \in Seq(Call), NEW c \in Call, NEW p \in Paths, NEW t \in Text,
           Harmless(c, p, t)
    PROVE  /\ Safe(s, p, t) => Safe(Append(s, c), p, t)
           /\ Settling(s, p, t) => Settling(Append(s, c), p, t)
           /\ c.by = "save" /\ c.path = p => Settling(Append(s, c), p, t)
<1> DEFINE a == Append(s, c)
<1>1. /\ a \in Seq(Call) /\ Len(s) \in Nat /\ Len(a) = Len(s) + 1 /\ a[Len(s) + 1] = c
      /\ \A k \in 1..Len(s) : a[k] = s[k]
      /\ Range(a) = Range(s) \cup {c}
  BY Queue, AppendProperties
<1>2. Safe(s, p, t) => Safe(a, p, t)
  BY <1>1 DEF Safe
<1>3. ASSUME Settling(s, p, t) PROVE Settling(a, p, t)
  <2>1. PICK k \in 1..Len(s) : /\ s[k].by = "save" /\ s[k].path = p
                               /\ \A j \in k..Len(s) : Harmless(s[j], p, t)
    BY <1>3 DEF Settling
  <2>2. k \in 1..Len(a) /\ a[k] = s[k]
    BY <1>1
  <2>3. ASSUME NEW j \in k..Len(a) PROVE Harmless(a[j], p, t)
    <3>1. j \in k..Len(s) \/ j = Len(s) + 1
      BY <1>1
    <3>2. CASE j \in k..Len(s)
      <4>1. j \in 1..Len(s)
        BY <1>1, <3>2
      <4> QED
        BY <1>1, <2>1, <3>2, <4>1
    <3>3. CASE j = Len(s) + 1
      BY <1>1, <3>3
    <3> QED
      BY <3>1, <3>2, <3>3
  <2> HIDE DEF a
  <2> QED
    BY <2>1, <2>2, <2>3 DEF Settling
<1>4. ASSUME c.by = "save", c.path = p PROVE Settling(a, p, t)
  <2>1. Len(a) \in 1..Len(a) /\ a[Len(a)] = c /\ Len(a)..Len(a) = {Len(a)}
    BY <1>1
  <2> HIDE DEF a
  <2> QED
    BY <1>4, <2>1 DEF Settling
<1> QED
  BY <1>2, <1>3, <1>4

\* An answer to the first call either settles the save or leaves it behind in the queue.
LEMMA SafeShrinks ==
    ASSUME NEW s \in Seq(Call), s # <<>>, NEW p \in Paths, NEW t \in Text
    PROVE  /\ Safe(s, p, t) => Harmless(Head(s), p, t) /\ Safe(Tail(s), p, t)
           /\ Settling(s, p, t) =>
                \/ Settling(Tail(s), p, t)
                \/ /\ Head(s).by = "save" /\ Head(s).path = p
                   /\ Harmless(Head(s), p, t) /\ Safe(Tail(s), p, t)
<1> DEFINE r == Tail(s)
<1>1. /\ r \in Seq(Call) /\ Len(s) \in Nat /\ Len(s) >= 1 /\ Len(r) = Len(s) - 1 /\ Head(s) = s[1]
      /\ \A k \in 1..Len(r) : r[k] = s[k + 1]
      /\ Range(s) = {Head(s)} \cup Range(r)
      /\ Range(r) = {r[k] : k \in 1..Len(r)}
  <2>1. Len(s) > 0 /\ r \in Seq(Call) /\ Len(r) = Len(s) - 1 /\ Head(s) = s[1]
        /\ \A k \in 1..Len(r) : r[k] = s[k + 1]
    BY HeadTailProperties
  <2>2. Range(s) = {Head(s)} \cup Range(r) /\ Range(r) = {r[k] : k \in 1..Len(r)}
    <3>1. Range(s) = {Head(s)} \cup Range(r)
      BY Queue
    <3>2. r \in Seq(Call)
      BY <2>1
    <3> HIDE DEF r
    <3>3. Range(r) = {r[k] : k \in 1..Len(r)}
      BY <3>2, Queue
    <3> QED
      BY <3>1, <3>3
  <2>3. Len(s) \in Nat
    OBVIOUS
  <2> HIDE DEF r
  <2> QED
    BY <2>1, <2>2, <2>3
<1>2. Safe(s, p, t) => Harmless(Head(s), p, t) /\ Safe(r, p, t)
  BY <1>1 DEF Safe
<1>3. ASSUME Settling(s, p, t)
      PROVE  \/ Settling(r, p, t)
             \/ /\ Head(s).by = "save" /\ Head(s).path = p
                /\ Harmless(Head(s), p, t) /\ Safe(r, p, t)
  <2>1. PICK k \in 1..Len(s) : /\ s[k].by = "save" /\ s[k].path = p
                               /\ \A j \in k..Len(s) : Harmless(s[j], p, t)
    BY <1>3 DEF Settling
  <2>2. ASSUME NEW i \in 1..Len(r), i + 1 >= k PROVE Harmless(r[i], p, t)
    <3>1. i + 1 \in k..Len(s) /\ r[i] = s[i + 1]
      BY <1>1, <2>2
    <3> QED
      BY <2>1, <3>1
  <2>3. CASE k = 1
    <3>1. 1 \in k..Len(s)
      BY <1>1, <2>3
    <3>2. \A i \in 1..Len(r) : i + 1 >= k
      BY <1>1, <2>3
    <3>3. Safe(r, p, t)
      BY <1>1, <2>2, <3>2 DEF Safe
    <3> QED
      BY <1>1, <2>1, <2>3, <3>1, <3>3
  <2>4. CASE k # 1
    <3>1. /\ k - 1 \in 1..Len(r) /\ r[k - 1] = s[k]
      BY <1>1, <2>4
    <3>2. \A j \in k - 1..Len(r) : j \in 1..Len(r) /\ j + 1 >= k
      BY <1>1, <2>4
    <3>3. \A j \in k - 1..Len(r) : Harmless(r[j], p, t)
      BY <2>2, <3>2
    <3> HIDE DEF r
    <3> QED
      BY <2>1, <3>1, <3>3 DEF Settling
  <2> QED
    BY <2>3, <2>4
<1> QED
  BY <1>2, <1>3

-----------------------------------------------------------------------------
(* What a step of the reconcile sends. *)

\* The diff's word on p is still to be acted on.
Left(p) == \/ p \in work.deleted \cup work.added \cup work.modified
           \/ \E r \in work.renamed : p \in {r.old, r.new}

\* The one call that a step of the reconcile sends, and what it takes off the work.
Sending(c) ==
    /\ calls' = Append(calls, c) /\ c.by = "sync"
    /\ \A d \in Range(calls) : d.by # "sync"
    /\ phase \in {"rename", "delete", "invalidate", "upsert"}
    /\ UNCHANGED <<row, disk, saves, others, decision, phase, stuck, outcome>>
    /\ failed => failed'
    /\ c.op \in {"write", "upsert", "delete", "rename"}
    /\ c.op # "delete" => c.text = disk[c.path] /\ c.text # None
    /\ c.op = "write" => phase = "upsert" /\ decision # "none"
    /\ c.op = "rename" => \E r \in work.renamed : c.path = r.new /\ c.old = r.old
    /\ c.op = "delete" => \/ disk[c.path] = None \/ c.path \in work.deleted
                          \/ phase = "invalidate" \/ failed'
    /\ work'.renamed \subseteq work.renamed /\ work'.deleted \subseteq work.deleted
    /\ work'.added \subseteq work.added /\ work'.modified \subseteq work.modified
    /\ phase # "invalidate" => \A p \in Paths :
          Left(p) => \/ Left(p)' \/ failed' \/ c.path = p
                     \/ c.op = "rename" /\ c.old = p
    /\ \A p \in stale : \/ p \in stale'
                        \/ phase = "invalidate" /\ c.op = "delete" /\ c.path = p
    /\ phase # "upsert" => work'.modified = work.modified /\ stale' \subseteq stale
    /\ phase = "invalidate" => work' = work /\ c.op = "delete" /\ c.path \in stale

LEMMA ReadySends ==
    ASSUME TypeOK, NEW ph \in Phases, Ready(ph), NEW c, Send(c)
    PROVE  /\ calls' = Append(calls, c) /\ \A d \in Range(calls) : d.by # "sync"
           /\ phase = ph
           /\ UNCHANGED <<row, disk, saves, others, decision, phase, stuck, outcome>>
BY DEF Ready, Send, fileVars, Range

LEMMA Sends ==
    ASSUME TypeOK, RenameFile \/ DeleteRow \/ InvalidateRow \/ IndexOne
    PROVE  \E c \in Call : Sending(c)
<1>0. disk \in [Paths -> Text] /\ {"rename", "delete", "invalidate", "upsert"} \subseteq Phases
  BY DEF TypeOK, Text, Phases
<1>1. CASE RenameFile
  <2>1. PICK r \in work.renamed :
          /\ work' = [work EXCEPT !.renamed = @ \ {r}] /\ stale' = stale
          /\ failed' = (failed \/ disk[r.new] = None)
          /\ Send(IF disk[r.new] = None THEN Delete(r.old, "sync") ELSE RenameRow(r, disk[r.new]))
    BY <1>1 DEF RenameFile
  <2>2. r \in Pair /\ r.old \in Paths /\ r.new \in Paths
    BY <2>1, WorkTypes DEF Pair
  <2> DEFINE c == IF disk[r.new] = None THEN Delete(r.old, "sync") ELSE RenameRow(r, disk[r.new])
  <2>3. /\ c \in Call /\ c.by = "sync"
        /\ disk[r.new] = None => c.op = "delete" /\ c.path = r.old
        /\ disk[r.new] # None => c.op = "rename" /\ c.path = r.new /\ c.old = r.old
                                 /\ c.text = disk[r.new]
    <3>1. disk[r.new] \in Text
      BY <1>0, <2>2
    <3> QED
      BY <2>2, <3>1, CallTypes
  <2>4. /\ work'.renamed = work.renamed \ {r} /\ work'.deleted = work.deleted
        /\ work'.added = work.added /\ work'.modified = work.modified
    BY <2>1, WorkTypes DEF Work
  <2>5. Send(c) /\ Ready("rename")
    BY <1>1, <2>1 DEF RenameFile
  <2> HIDE DEF c
  <2>6. /\ calls' = Append(calls, c) /\ \A d \in Range(calls) : d.by # "sync"
        /\ phase = "rename"
        /\ UNCHANGED <<row, disk, saves, others, decision, phase, stuck, outcome>>
    BY <1>0, <2>5, ReadySends
  <2>7. \A p \in Paths : Left(p) => \/ Left(p)' \/ failed' \/ c.path = p
                                    \/ c.op = "rename" /\ c.old = p
    BY <2>1, <2>3, <2>4 DEF Left
  <2> QED
    BY <2>1, <2>3, <2>4, <2>6, <2>7 DEF Sending
<1>2. CASE DeleteRow
  <2>1. PICK p \in work.deleted :
          work' = [work EXCEPT !.deleted = @ \ {p}] /\ Send(Delete(p, "sync"))
    BY <1>2 DEF DeleteRow
  <2> DEFINE c == Delete(p, "sync")
  <2>2. c \in Call /\ c.by = "sync" /\ c.op = "delete" /\ c.path = p
    BY <2>1, WorkTypes, CallTypes
  <2>3. /\ work'.renamed = work.renamed /\ work'.deleted = work.deleted \ {p}
        /\ work'.added = work.added /\ work'.modified = work.modified
    BY <2>1, WorkTypes DEF Work
  <2>4. Send(c) /\ Ready("delete") /\ stale' = stale /\ failed' = failed
    BY <1>2, <2>1 DEF DeleteRow
  <2> HIDE DEF c
  <2>5. /\ calls' = Append(calls, c) /\ \A d \in Range(calls) : d.by # "sync"
        /\ phase = "delete"
        /\ UNCHANGED <<row, disk, saves, others, decision, phase, stuck, outcome>>
    BY <1>0, <2>4, ReadySends
  <2>6. \A q \in Paths : Left(q) => Left(q)' \/ c.path = q
    BY <2>2, <2>3 DEF Left
  <2> QED
    BY <2>1, <2>2, <2>3, <2>4, <2>5, <2>6 DEF Sending
<1>3. CASE InvalidateRow
  <2>1. PICK p \in stale : stale' = stale \ {p} /\ Send(Delete(p, "sync"))
    BY <1>3 DEF InvalidateRow
  <2> DEFINE c == Delete(p, "sync")
  <2>2. c \in Call /\ c.by = "sync" /\ c.op = "delete" /\ c.path = p
    BY <2>1, CallTypes DEF TypeOK
  <2>3. Send(c) /\ Ready("invalidate") /\ work' = work /\ failed' = failed
    BY <1>3, <2>1 DEF InvalidateRow
  <2> HIDE DEF c
  <2>4. /\ calls' = Append(calls, c) /\ \A d \in Range(calls) : d.by # "sync"
        /\ phase = "invalidate"
        /\ UNCHANGED <<row, disk, saves, others, decision, phase, stuck, outcome>>
    BY <1>0, <2>3, ReadySends
  <2> QED
    BY <2>1, <2>2, <2>3, <2>4 DEF Sending
<1>4. CASE IndexOne
  <2>1. PICK p \in Turn :
         /\ work' = [work EXCEPT !.added = @ \ {p},
                                 !.modified = IF p \in work.added THEN @ ELSE @ \ {p}]
         /\ failed' = (failed \/ disk[p] = None)
         /\ Send(IF disk[p] = None THEN Delete(p, "sync") ELSE WriteRow(p, disk[p], "sync"))
    BY <1>4 DEF IndexOne
  <2>2. p \in Paths
    BY <2>1, WorkTypes DEF Turn
  <2> DEFINE c == IF disk[p] = None THEN Delete(p, "sync") ELSE WriteRow(p, disk[p], "sync")
  <2>3. /\ c \in Call /\ c.by = "sync" /\ c.path = p
        /\ disk[p] = None => c.op = "delete"
        /\ disk[p] # None => /\ c.text = disk[p]
                             /\ c.op = IF decision = "none" THEN "upsert" ELSE "write"
    <3>1. disk[p] \in Text
      BY <1>0, <2>2
    <3> QED
      BY <2>2, <3>1, CallTypes, WriteRowTypes
  <2>4. /\ work'.renamed = work.renamed /\ work'.deleted = work.deleted
        /\ work'.added = work.added \ {p}
        /\ work.modified \ {p} \subseteq work'.modified /\ work'.modified \subseteq work.modified
    BY <2>1, WorkTypes DEF Work
  <2>5. Send(c) /\ Ready("upsert") /\ stale' = stale
    BY <1>4, <2>1 DEF IndexOne
  <2> HIDE DEF c
  <2>6. /\ calls' = Append(calls, c) /\ \A d \in Range(calls) : d.by # "sync"
        /\ phase = "upsert"
        /\ UNCHANGED <<row, disk, saves, others, decision, phase, stuck, outcome>>
    BY <1>0, <2>5, ReadySends
  <2>7. \A q \in Paths : Left(q) => Left(q)' \/ c.path = q
    BY <2>3, <2>4 DEF Left
  <2> QED
    BY <2>1, <2>3, <2>4, <2>5, <2>6, <2>7 DEF Sending
<1> QED
  BY <1>1, <1>2, <1>3, <1>4

\* The steps that only move the reconcile to its next phase, or end it.
LEMMA Phased ==
    ASSUME TypeOK, RenamesDone \/ DeletesDone \/ Publish \/ FallBack \/ Done \/ Stop
    PROVE  /\ UNCHANGED <<row, calls, disk, saves, others, failed, stuck>>
           /\ \A d \in Range(calls) : d.by # "sync"
           /\ \/ /\ phase' = "idle" /\ work' = NoWork /\ outcome' # "none"
                 /\ outcome' = "complete" => phase = "upsert" /\ Turn = {} /\ ~failed
                 /\ outcome' = "paused" =>
                      phase = "delete" \/ (phase = "invalidate" /\ stale = {} /\ ~stuck)
              \/ /\ UNCHANGED <<work, stale, outcome>>
                 /\ \/ /\ phase = "rename" /\ phase' = "delete" /\ work.renamed = {}
                       /\ decision' = decision
                    \/ phase = "delete" /\ phase' = "invalidate" /\ work.deleted = {}
                    \/ /\ phase = "delete" /\ phase' = "upsert" /\ work.deleted = {}
                       /\ decision' = "none"
                    \/ /\ phase = "invalidate" /\ phase' = "upsert" /\ decision' = decision
                       /\ stuck \/ decision = "none" \/ RepublishFails
<1>1. ASSUME NEW ph \in Phases, Ready(ph) PROVE phase = ph /\ \A d \in Range(calls) : d.by # "sync"
  BY <1>1 DEF Ready, Range
<1>2. {"rename", "delete", "invalidate", "upsert"} \subseteq Phases
  BY DEF Phases
<1>3. ASSUME NEW how, Finish(how)
      PROVE  /\ UNCHANGED <<row, calls, disk, saves, others, failed, stuck>>
             /\ phase' = "idle" /\ work' = NoWork /\ outcome' = how
  BY <1>3 DEF Finish, storeVars, fileVars
<1>4. ASSUME NEW ph, Enter(ph)
      PROVE  /\ UNCHANGED <<row, calls, disk, saves, others, failed, stuck, work, stale, outcome>>
             /\ phase' = ph
  BY <1>4 DEF Enter, storeVars, fileVars
<1>5. CASE RenamesDone
  BY <1>1, <1>2, <1>4, <1>5 DEF RenamesDone
<1>6. CASE DeletesDone
  BY <1>1, <1>2, <1>3, <1>4, <1>6 DEF DeletesDone
<1>7. CASE Publish
  BY <1>1, <1>2, <1>3, <1>7 DEF Publish
<1>8. CASE FallBack
  BY <1>1, <1>2, <1>4, <1>8 DEF FallBack
<1>9. CASE Done
  BY <1>1, <1>2, <1>3, <1>9 DEF Done
<1>10. CASE Stop
  BY <1>1, <1>2, <1>3, <1>10 DEF Stop
<1> QED
  BY <1>5, <1>6, <1>7, <1>8, <1>9, <1>10

-----------------------------------------------------------------------------
(* What was saved is not left stale. *)

LEMMA DiffsInit == Init => Diffs
<1> SUFFICES ASSUME Init PROVE Diffs
  OBVIOUS
<1>1. Range(calls) = {}
  BY DEF Init, Range
<1> QED
  BY <1>1 DEF Diffs

\* The calls in the queue after a step are those before, and what the step has sent.
LEMMA NewCalls ==
    ASSUME TypeOK, [Next]_vars
    PROVE  \A c \in Range(calls') : \/ c \in Range(calls)
                                    \/ c = Diff
                                    \/ c.op \in {"write", "upsert", "delete", "rename"}
<1>0. calls \in Seq(Call)
  BY DEF TypeOK
<1>1. CASE \/ UNCHANGED vars \/ Defer
           \/ \E p \in Paths : Edit(p) \/ \E c \in Contents : Save(p, c)
  BY <1>1 DEF vars, storeVars, Defer, Edit, Save
<1>2. ASSUME NEW s \in saves, SendSave(s)
      PROVE  \E c \in Call : calls' = Append(calls, c) /\ c.op \in {"write", "upsert"}
  <2>1. s[1] \in Paths /\ s[2] \in Text
    BY DEF TypeOK, Text
  <2> QED
    BY <1>2, <2>1, WriteRowTypes DEF SendSave
<1>3. ASSUME NEW forced \in BOOLEAN, StartSync(forced) PROVE calls' = Append(calls, Diff)
  BY <1>3 DEF StartSync
<1>4. CASE Answer
  <2>1. calls # <<>> /\ Head(calls) \in Call /\ Tail(calls) \in Seq(Call)
    BY <1>4, Answers
  <2>2. Delete(Head(calls).path, Head(calls).by) \in Call
        /\ Delete(Head(calls).path, Head(calls).by).op = "delete"
    BY <2>1, CallTypes DEF Call
  <2>3. \/ calls' = Tail(calls)
        \/ calls' = Append(Tail(calls), Delete(Head(calls).path, Head(calls).by))
    BY <1>4, Answers
  <2> QED
    BY <1>0, <2>1, <2>2, <2>3, Taken
<1>5. CASE AnswerError
  <2>1. calls # <<>> /\ Head(calls) \in Call /\ Tail(calls) \in Seq(Call)
    BY <1>5, Errors
  <2>2. Delete(Head(calls).old, "sync") \in Call /\ Delete(Head(calls).old, "sync").op = "delete"
    BY <2>1, CallTypes DEF Call
  <2>3. calls' = Tail(calls) \/ calls' = Append(Tail(calls), Delete(Head(calls).old, "sync"))
    BY <1>5, Errors
  <2> QED
    BY <1>0, <2>1, <2>2, <2>3, Taken
<1>6. CASE RenamesDone \/ DeletesDone \/ Publish \/ FallBack \/ Done \/ Stop
  BY <1>6, Phased
<1>7. CASE RenameFile \/ DeleteRow \/ InvalidateRow \/ IndexOne
  <2>1. PICK c \in Call : Sending(c)
    BY <1>7, Sends
  <2> QED
    BY <1>0, <2>1, Queue DEF Sending
<1>8. Diff \in Call
  BY CallTypes
<1> QED
  BY <1>0, <1>1, <1>2, <1>3, <1>4, <1>5, <1>6, <1>7, <1>8, Queue DEF Next, Sync

LEMMA DiffsStep == TypeOK /\ Diffs /\ [Next]_vars => Diffs'
<1> SUFFICES ASSUME TypeOK, Diffs, [Next]_vars PROVE Diffs'
  OBVIOUS
<1>1. \A c \in Range(calls') : \/ c \in Range(calls)
                               \/ c = Diff
                               \/ c.op \in {"write", "upsert", "delete", "rename"}
  BY NewCalls
<1>2. Diff' = Diff
  BY DEF Diff
<1>3. \A c \in Range(calls)' : c.op = "diff" => c = Diff
  BY <1>1 DEF Diffs, Range
<1> QED
  BY <1>2, <1>3 DEF Diffs

LEMMA SavedByFiles ==
    ASSUME TypeOK, Saved, NEW q \in Paths, Edit(q) \/ \E c \in Contents : Save(q, c)
    PROVE  Saved'
<1> SUFFICES ASSUME NEW p \in Paths, others'[p] = "saved" PROVE Covered(p)'
  BY DEF Saved
<1>1. disk \in [Paths -> Text] /\ others \in [Paths -> {"none", "saved", "edited"}]
  BY DEF TypeOK, Text
<1>2. CASE Edit(q)
  <2>1. PICK c \in Text : disk' = [disk EXCEPT ![q] = c]
    BY <1>2 DEF Edit, Text
  <2>2. others' = [others EXCEPT ![q] = "edited"] /\ UNCHANGED <<row, calls, saves>>
    BY <1>2 DEF Edit, storeVars
  <2>3. p # q /\ disk'[p] = disk[p] /\ Covered(p)
    BY <1>1, <2>1, <2>2 DEF Saved
  <2> QED
    BY <2>2, <2>3 DEF Covered
<1>3. ASSUME NEW c \in Contents, Save(q, c) PROVE Covered(p)'
  <2>1. /\ disk' = [disk EXCEPT ![q] = c] /\ saves' = saves \cup {<<q, c>>}
        /\ others' = [others EXCEPT ![q] = IF @ = "edited" \/ \E s \in saves : s[1] = q
                                           THEN "edited" ELSE "saved"]
        /\ UNCHANGED <<row, calls>>
    BY <1>3 DEF Save, storeVars
  <2>2. CASE p = q
    <3>1. disk'[p] = c /\ ~\E s \in saves : s[1] = p
      BY <1>1, <2>1, <2>2
    <3>2. <<p, c>> \in saves' /\ \A s \in saves' : s[1] = p => s[2] = c
      BY <2>1, <2>2, <3>1
    <3> QED
      BY <3>1, <3>2 DEF Covered
  <2>3. CASE p # q
    <3>1. disk'[p] = disk[p] /\ Covered(p)
      BY <1>1, <2>1, <2>3 DEF Saved
    <3>2. \A s : s[1] = p => (s \in saves' <=> s \in saves)
      BY <2>1, <2>3
    <3> QED
      BY <2>1, <3>1, <3>2 DEF Covered
  <2> QED
    BY <2>2, <2>3
<1> QED
  BY <1>2, <1>3

\* A harmless call more changes nothing.
LEMMA CoveredGrows ==
    ASSUME TypeOK, NEW p \in Paths, Covered(p), NEW c \in Call, calls' = Append(calls, c),
           Harmless(c, p, disk[p]), UNCHANGED <<row, disk, saves>>
    PROVE  Covered(p)'
<1>1. calls \in Seq(Call) /\ disk[p] \in Text
  BY DEF TypeOK, Text
<1>2. /\ Safe(calls, p, disk[p]) => Safe(calls', p, disk[p])
      /\ Settling(calls, p, disk[p]) => Settling(calls', p, disk[p])
  BY <1>1, SafeGrows
<1> QED
  BY <1>2 DEF Covered

LEMMA SavedBySend ==
    ASSUME TypeOK, Saved, NEW s \in saves, SendSave(s)
    PROVE  Saved'
<1> SUFFICES ASSUME NEW p \in Paths, others'[p] = "saved" PROVE Covered(p)'
  BY DEF Saved
<1>1. s[1] \in Paths /\ s[2] \in Text /\ calls \in Seq(Call) /\ disk[p] \in Text
  BY DEF TypeOK, Text
<1> DEFINE w == WriteRow(s[1], s[2], "save")
<1>2. /\ calls' = Append(calls, w) /\ saves' = saves \ {s}
      /\ UNCHANGED <<disk, row, others>>
  BY DEF SendSave
<1>3. w \in Call /\ w.path = s[1] /\ w.text = s[2] /\ w.by = "save"
  BY <1>1, WriteRowTypes
<1> HIDE DEF w
<1>4. Covered(p)
  BY <1>2 DEF Saved
<1>5. Harmless(w, p, disk[p])
  BY <1>3, <1>4 DEF Covered, Harmless
<1>6. /\ Safe(calls, p, disk[p]) => Safe(calls', p, disk[p])
      /\ Settling(calls, p, disk[p]) => Settling(calls', p, disk[p])
      /\ s[1] = p => Settling(calls', p, disk[p])
  BY <1>1, <1>2, <1>3, <1>5, SafeGrows
<1>7. (\E t \in saves : t[1] = p) => (\E t \in saves' : t[1] = p) \/ s[1] = p
  BY <1>2
<1> QED
  BY <1>2, <1>4, <1>6, <1>7 DEF Covered

LEMMA SavedByAnswer ==
    ASSUME TypeOK, Diffs, Saved, Answer
    PROVE  Saved'
<1> SUFFICES ASSUME NEW p \in Paths, others'[p] = "saved" PROVE Covered(p)'
  BY DEF Saved
<1> DEFINE c == Head(calls)
           rest == Tail(calls)
           t == disk[p]
<1>1. /\ calls # <<>> /\ calls \in Seq(Call) /\ c \in Call /\ rest \in Seq(Call) /\ t \in Text
      /\ UNCHANGED <<disk, saves>>
  BY Answers DEF TypeOK, Text
<1>2. others[p] = "saved"
  <2>1. others' = others \/ DiffAnswered
    BY Answers
  <2> QED
    BY <2>1 DEF DiffAnswered
<1>3. Covered(p)
  BY <1>2 DEF Saved
<1>4. c \in Range(calls)
  BY <1>1, Queue
<1>5. /\ Safe(calls, p, t) => Harmless(c, p, t) /\ Safe(rest, p, t)
      /\ Settling(calls, p, t) =>
           \/ Settling(rest, p, t)
           \/ c.by = "save" /\ c.path = p /\ Harmless(c, p, t) /\ Safe(rest, p, t)
  BY <1>1, SafeShrinks
<1>6. CASE c.op = "diff" /\ calls' = rest /\ row' = row
  <2>1. c = Diff /\ c.path = None /\ c.by = "sync"
    BY <1>4, <1>6, CallTypes DEF Diffs
  <2> HIDE DEF c, rest, t
  <2> QED
    BY <1>1, <1>3, <1>5, <1>6, <2>1 DEF Covered, t
<1>7. ASSUME c.op # "diff", row' = Applied(c)
      PROVE  /\ row[p] \in {None, t} /\ Harmless(c, p, t) => row'[p] \in {None, t}
             /\ c.path = p /\ c.op # "write" /\ Harmless(c, p, t) => row'[p] \in {None, t}
  BY <1>1, <1>7, AppliedRows DEF Harmless, Call
<1>8. CASE /\ c.op # "diff" /\ row' = Applied(c) /\ calls' = rest
           /\ c.op = "write" => row[c.path] \in {None, c.text}
  <2>1. c.path = p /\ c.op = "write" /\ Harmless(c, p, t) => row[p] \in {None, t}
    BY <1>8 DEF Harmless
  <2> HIDE DEF c, rest, t
  <2> QED
    BY <1>1, <1>3, <1>5, <1>7, <1>8, <2>1 DEF Covered, t
<1>9. CASE /\ c.op = "write" /\ row' = Applied(c) /\ calls' = Append(rest, Delete(c.path, c.by))
  <2> DEFINE d == Delete(c.path, c.by)
  <2>1. d \in Call /\ d.op = "delete" /\ d.path = c.path /\ d.by = c.by
    BY <1>1, CallTypes DEF Call
  <2>2. Harmless(d, p, t)
    BY <2>1 DEF Harmless
  <2> HIDE DEF d
  <2>3. /\ Safe(rest, p, t) => Safe(calls', p, t)
        /\ Settling(rest, p, t) => Settling(calls', p, t)
        /\ d.by = "save" /\ d.path = p => Settling(calls', p, t)
    BY <1>1, <1>9, <2>1, <2>2, SafeGrows DEF d
  <2> HIDE DEF c, rest, t
  <2> QED
    BY <1>1, <1>3, <1>5, <1>7, <1>9, <2>1, <2>3 DEF Covered, t
<1> QED
  BY <1>6, <1>8, <1>9, Answers

LEMMA SavedByError ==
    ASSUME TypeOK, Diffs, Saved, AnswerError
    PROVE  Saved'
<1> SUFFICES ASSUME NEW p \in Paths, others'[p] = "saved" PROVE Covered(p)'
  BY DEF Saved
<1> DEFINE c == Head(calls)
           rest == Tail(calls)
           t == disk[p]
           d == Delete(c.old, "sync")
<1>1. /\ calls # <<>> /\ calls \in Seq(Call) /\ c \in Call /\ rest \in Seq(Call) /\ t \in Text
      /\ UNCHANGED <<disk, saves>>
      /\ calls' = IF c.op = "rename" THEN Append(rest, d) ELSE rest
      /\ row'[p] \in {row[p], None}
      /\ others' = IF c.by = "save" THEN [others EXCEPT ![c.path] = "edited"] ELSE others
  BY Errors DEF TypeOK, Text
<1>2. others \in [Paths -> {"none", "saved", "edited"}]
  BY DEF TypeOK
<1>3. others[p] = "saved" /\ ~(c.by = "save" /\ c.path = p)
  <2> HIDE DEF c
  <2> QED
    BY <1>1, <1>2
<1>4. Covered(p)
  BY <1>3 DEF Saved
<1>5. /\ Safe(calls, p, t) => Safe(rest, p, t)
      /\ Settling(calls, p, t) => Settling(rest, p, t)
  BY <1>1, <1>3, SafeShrinks
<1>6. d \in Call /\ d.op = "delete"
  BY <1>1, CallTypes DEF Call
<1>7. Harmless(d, p, t)
  BY <1>6 DEF Harmless
<1> HIDE DEF d
<1>8. /\ Safe(rest, p, t) => Safe(Append(rest, d), p, t)
      /\ Settling(rest, p, t) => Settling(Append(rest, d), p, t)
  BY <1>1, <1>6, <1>7, SafeGrows
<1> HIDE DEF c, rest, t
<1> QED
  BY <1>1, <1>4, <1>5, <1>8 DEF Covered, t

LEMMA SavedBySync ==
    ASSUME TypeOK, Saved,
           \/ \E forced \in BOOLEAN : StartSync(forced)
           \/ RenameFile \/ DeleteRow \/ InvalidateRow \/ IndexOne
    PROVE  Saved'
<1>1. PICK c \in Call : /\ calls' = Append(calls, c) /\ UNCHANGED <<row, disk, saves, others>>
                        /\ \/ c.path = None
                           \/ c.op = "delete"
                           \/ c.text = disk[c.path]
  <2>1. CASE \E forced \in BOOLEAN : StartSync(forced)
    BY <2>1, CallTypes DEF StartSync, fileVars
  <2>2. CASE RenameFile \/ DeleteRow \/ InvalidateRow \/ IndexOne
    BY <2>2, Sends DEF Sending
  <2> QED
    BY <2>1, <2>2
<1> SUFFICES ASSUME NEW p \in Paths, others'[p] = "saved" PROVE Covered(p)'
  BY DEF Saved
<1>2. Harmless(c, p, disk[p])
  BY <1>1 DEF Harmless
<1>3. Covered(p)
  BY <1>1 DEF Saved
<1> QED
  BY <1>1, <1>2, <1>3, CoveredGrows

LEMMA SavedStep == TypeOK /\ Diffs /\ Saved /\ [Next]_vars => Saved'
<1> SUFFICES ASSUME TypeOK, Diffs, Saved, [Next]_vars PROVE Saved'
  OBVIOUS
<1>1. ASSUME UNCHANGED <<row, calls, disk, saves, others>> PROVE Saved'
  BY <1>1 DEF Saved, Covered
<1>2. CASE UNCHANGED vars \/ Defer
  BY <1>1, <1>2 DEF vars, Defer, storeVars, fileVars
<1>3. CASE RenamesDone \/ DeletesDone \/ Publish \/ FallBack \/ Done \/ Stop
  BY <1>1, <1>3, Phased
<1>4. CASE \E p \in Paths : Edit(p) \/ \E c \in Contents : Save(p, c)
  BY <1>4, SavedByFiles
<1>5. CASE \E s \in saves : SendSave(s)
  BY <1>5, SavedBySend
<1>6. CASE Answer \/ AnswerError
  BY <1>6, SavedByAnswer, SavedByError
<1>7. CASE \/ \E forced \in BOOLEAN : StartSync(forced)
           \/ RenameFile \/ DeleteRow \/ InvalidateRow \/ IndexOne
  BY <1>7, SavedBySync
<1> QED
  BY <1>2, <1>3, <1>4, <1>5, <1>6, <1>7 DEF Next, Sync

LEMMA SavedMeans == TypeOK /\ Saved => SavedNeverStale
<1> SUFFICES ASSUME TypeOK, Saved, NEW p \in Paths, others[p] = "saved", ~UnderWay(p)
             PROVE  row[p] \in {None, disk[p]}
  BY DEF SavedNeverStale
<1>1. Covered(p)
  BY DEF Saved
<1>2. calls \in Seq(Call)
  BY DEF TypeOK
<1>3. ~Settling(calls, p, disk[p])
  <2> SUFFICES ASSUME Settling(calls, p, disk[p]) PROVE FALSE
    OBVIOUS
  <2>1. PICK k \in 1..Len(calls) : calls[k].by = "save" /\ calls[k].path = p
    BY DEF Settling
  <2>2. calls[k] \in Range(calls)
    BY <1>2, <2>1, Queue
  <2> QED
    BY <2>1, <2>2 DEF UnderWay
<1> QED
  BY <1>1, <1>3 DEF Covered, UnderWay

\* Whatever the reconcile had read or removed before a save of the application, once
\* the index write of the save is answered the row is the file's or is missing.
THEOREM SavesSettle == Spec => []SavedNeverStale
<1>1. Init => TypeOK /\ Diffs /\ Saved
  <2>1. Init => Saved
    BY DEF Init, Saved
  <2> QED
    BY <2>1, TypeInit, DiffsInit
<1>2. TypeOK /\ Diffs /\ Saved /\ [Next]_vars => TypeOK' /\ Diffs' /\ Saved'
  BY TypeStep, DiffsStep, SavedStep
<1>3. TypeOK /\ Saved => SavedNeverStale
  BY SavedMeans
<1> QED
  BY <1>1, <1>2, <1>3, PTL DEF Spec

-----------------------------------------------------------------------------
(* The reconcile waits for its own calls. *)

\* Of the calls in the queue one at most is the reconcile's.
OneSync(s) == \A j, k \in 1..Len(s) : s[j].by = "sync" /\ s[k].by = "sync" => j = k

\* What each call is, and when it is under way: a diff while the reconcile scans, the
\* other calls of the reconcile while it works on the diff.
Kinds ==
    \A c \in Range(calls) :
        /\ c.by = "save" => c.op \in {"write", "upsert", "delete"}
        /\ c.by = "sync" => phase # "idle" /\ (c.op = "diff" <=> phase = "scan")
        /\ c.by = "sync" /\ c.op = "write" => failed \/ RepublishFails
        /\ c.op = "rename" => c.old # c.path

\* A decision that stands is passed over only for a failure.
Decided ==
    /\ stuck => failed
    /\ phase = "upsert" /\ decision # "none" => failed \/ RepublishFails

\* The work is done in the order of the phases.
Ordered ==
    /\ phase \in {"idle", "scan"} => work = NoWork
    /\ phase \in {"delete", "invalidate", "upsert"} => work.renamed = {}
    /\ phase \in {"invalidate", "upsert"} => work.deleted = {}
    /\ \A r \in work.renamed : r.old # r.new

Lined == TypeOK /\ Diffs /\ OneSync(calls) /\ Kinds /\ Decided /\ Ordered

LEMMA OneSyncGrows ==
    ASSUME NEW s \in Seq(Call), OneSync(s), NEW c \in Call,
           c.by = "sync" => \A d \in Range(s) : d.by # "sync"
    PROVE  OneSync(Append(s, c))
<1> DEFINE a == Append(s, c)
<1>1. /\ a \in Seq(Call) /\ Len(s) \in Nat /\ Len(a) = Len(s) + 1 /\ a[Len(s) + 1] = c
      /\ \A k \in 1..Len(s) : a[k] = s[k] /\ s[k] \in Range(s)
  BY Queue, AppendProperties
<1> SUFFICES ASSUME NEW j \in 1..Len(a), NEW k \in 1..Len(a), a[j].by = "sync", a[k].by = "sync"
             PROVE  j = k
  BY DEF OneSync
<1>2. /\ j \in 1..Len(s) \/ j = Len(s) + 1
      /\ k \in 1..Len(s) \/ k = Len(s) + 1
  BY <1>1
<1> HIDE DEF a
<1>3. CASE j \in 1..Len(s) /\ k \in 1..Len(s)
  <2>1. s[j].by = "sync" /\ s[k].by = "sync"
    BY <1>1, <1>3
  <2> QED
    BY <1>3, <2>1 DEF OneSync
<1>4. CASE j = Len(s) + 1 \/ k = Len(s) + 1
  <2>1. c.by = "sync"
    BY <1>1, <1>4
  <2>2. j \notin 1..Len(s) /\ k \notin 1..Len(s)
    BY <1>1, <2>1
  <2> QED
    BY <1>2, <2>2
<1> QED
  BY <1>2, <1>3, <1>4

LEMMA OneSyncShrinks ==
    ASSUME NEW s \in Seq(Call), s # <<>>, OneSync(s)
    PROVE  /\ OneSync(Tail(s))
           /\ Head(s).by = "sync" => \A d \in Range(Tail(s)) : d.by # "sync"
<1> DEFINE r == Tail(s)
<1>1. /\ r \in Seq(Call) /\ Len(s) \in Nat /\ Len(s) >= 1 /\ Len(r) = Len(s) - 1
      /\ Head(s) = s[1] /\ \A k \in 1..Len(r) : r[k] = s[k + 1]
  <2>1. Len(s) > 0 /\ r \in Seq(Call) /\ Len(r) = Len(s) - 1 /\ Head(s) = s[1]
        /\ \A k \in 1..Len(r) : r[k] = s[k + 1]
    BY HeadTailProperties
  <2>2. Len(s) \in Nat
    OBVIOUS
  <2> HIDE DEF r
  <2> QED
    BY <2>1, <2>2
<1> HIDE DEF r
<1>2. \A k \in 1..Len(r) : k + 1 \in 1..Len(s)
  BY <1>1
<1>3. OneSync(r)
  <2> SUFFICES ASSUME NEW j \in 1..Len(r), NEW k \in 1..Len(r), r[j].by = "sync", r[k].by = "sync"
               PROVE  j = k
    BY DEF OneSync
  <2>1. j + 1 \in 1..Len(s) /\ k + 1 \in 1..Len(s) /\ s[j + 1].by = "sync" /\ s[k + 1].by = "sync"
    BY <1>1, <1>2
  <2>2. j + 1 = k + 1
    BY <2>1 DEF OneSync
  <2>3. j \in Int /\ k \in Int
    OBVIOUS
  <2> QED
    BY <2>2, <2>3
<1>4. ASSUME Head(s).by = "sync", NEW d \in Range(r) PROVE d.by # "sync"
  <2>1. PICK k \in 1..Len(r) : d = r[k]
    BY <1>1, Queue
  <2>2. 1 \in 1..Len(s) /\ k + 1 \in 1..Len(s) /\ k + 1 # 1 /\ d = s[k + 1]
    BY <1>1, <1>2, <2>1
  <2> QED
    BY <1>1, <1>4, <2>2 DEF OneSync
<1> QED
  BY <1>3, <1>4 DEF r

LEMMA LinedInit == Init => Lined
<1> SUFFICES ASSUME Init PROVE Lined
  OBVIOUS
<1>1. Range(calls) = {} /\ Len(calls) = 0 /\ 1..0 = {}
  BY DEF Init, Range
<1>2. OneSync(calls) /\ Kinds
  BY <1>1 DEF OneSync, Kinds
<1>3. Decided /\ Ordered
  BY DEF Init, Decided, Ordered, NoWork
<1> QED
  BY <1>2, <1>3, TypeInit, DiffsInit DEF Lined

LEMMA LinedByFiles ==
    ASSUME Lined, Defer \/ \E p \in Paths : Edit(p) \/ \E c \in Contents : Save(p, c)
    PROVE  OneSync(calls)' /\ Kinds' /\ Decided' /\ Ordered'
<1>1. /\ UNCHANGED <<calls, phase, failed, stuck, work>>
      /\ decision' # "none" => decision # "none"
  BY DEF Defer, Edit, Save, storeVars, syncVars
<1>2. OneSync(calls)' /\ Kinds' /\ Ordered'
  BY <1>1 DEF Lined, Kinds, Ordered, NoWork
<1>3. Decided'
  BY <1>1 DEF Lined, Decided
<1> QED
  BY <1>2, <1>3

LEMMA LinedBySave ==
    ASSUME Lined, NEW s \in saves, SendSave(s)
    PROVE  OneSync(calls)' /\ Kinds' /\ Decided' /\ Ordered'
<1>1. s[1] \in Paths /\ s[2] \in Text /\ calls \in Seq(Call)
  BY DEF Lined, TypeOK, Text
<1> DEFINE w == WriteRow(s[1], s[2], "save")
<1>2. /\ calls' = Append(calls, w) /\ UNCHANGED <<phase, failed, stuck, work, decision>>
  BY DEF SendSave, syncVars
<1>3. w \in Call /\ w.by = "save" /\ w.op \in {"write", "upsert"}
  BY <1>1, WriteRowTypes
<1> HIDE DEF w
<1>4. OneSync(calls)'
  BY <1>1, <1>2, <1>3, OneSyncGrows DEF Lined
<1>5. Range(calls') = Range(calls) \cup {w}
  BY <1>1, <1>2, <1>3, Queue
<1>6. Kinds'
  BY <1>2, <1>3, <1>5 DEF Lined, Kinds, Range
<1>7. Decided' /\ Ordered'
  BY <1>2 DEF Lined, Decided, Ordered, NoWork
<1> QED
  BY <1>4, <1>6, <1>7

LEMMA LinedByStart ==
    ASSUME Lined, NEW forced \in BOOLEAN, StartSync(forced)
    PROVE  OneSync(calls)' /\ Kinds' /\ Decided' /\ Ordered'
<1>1. /\ calls' = Append(calls, Diff) /\ phase = "idle" /\ phase' = "scan" /\ work' = work
      /\ failed' = FALSE /\ stuck' = FALSE
  BY DEF StartSync
<1>2. calls \in Seq(Call) /\ Diff \in Call /\ Diff.op = "diff" /\ Diff.by = "sync"
  BY CallTypes DEF Lined, TypeOK
<1>3. \A d \in Range(calls) : d.by # "sync"
  BY <1>1 DEF Lined, Kinds
<1>4. OneSync(calls)'
  BY <1>1, <1>2, <1>3, OneSyncGrows DEF Lined
<1>5. Range(calls') = Range(calls) \cup {Diff}
  BY <1>1, <1>2, Queue
<1>6. Kinds'
  BY <1>1, <1>2, <1>3, <1>5 DEF Lined, Kinds
<1>7. Decided' /\ Ordered'
  BY <1>1 DEF Lined, Decided, Ordered, NoWork
<1> QED
  BY <1>4, <1>6, <1>7

LEMMA LinedByAnswer ==
    ASSUME Lined, Answer
    PROVE  OneSync(calls)' /\ Kinds' /\ Decided' /\ Ordered'
<1> DEFINE c == Head(calls)
           rest == Tail(calls)
           d == Delete(c.path, c.by)
<1>1. /\ calls # <<>> /\ calls \in Seq(Call) /\ c \in Call /\ rest \in Seq(Call)
      /\ decision' = decision
  BY Answers DEF Lined, TypeOK
<1>2. /\ OneSync(rest)
      /\ c.by = "sync" => \A e \in Range(rest) : e.by # "sync"
  BY <1>1, OneSyncShrinks DEF Lined
<1>3. Range(calls) = {c} \cup Range(rest)
  BY <1>1, Queue
<1>4. CASE c.op = "diff" /\ DiffAnswered /\ calls' = rest
  <2>1. c.by = "sync"
    BY <1>3, <1>4, CallTypes DEF Lined, Diffs
  <2>2. /\ work' = ScanDiff /\ UNCHANGED <<failed, stuck>>
        /\ \/ phase' = "idle" /\ ScanDiff = NoWork
           \/ phase' = "rename"
    BY <1>4 DEF DiffAnswered
  <2>3. \A r \in ScanDiff.renamed : r.old # r.new
    BY DiffTypes DEF Lined
  <2>4. NoWork' = NoWork
    BY DEF NoWork
  <2>5. Kinds'
    BY <1>2, <1>3, <1>4, <2>1 DEF Lined, Kinds
  <2>6. Decided' /\ Ordered'
    BY <2>2, <2>3, <2>4 DEF Lined, Decided, Ordered
  <2>7. OneSync(calls)'
    BY <1>2, <1>4
  <2> QED
    BY <2>5, <2>6, <2>7
<1>5. CASE /\ c.op # "diff" /\ UNCHANGED <<others, syncVars>>
           /\ calls' = rest \/ (c.op = "write" /\ calls' = Append(rest, d))
  <2>1. UNCHANGED <<phase, failed, stuck, work>>
    BY <1>5 DEF syncVars
  <2>2. Decided' /\ Ordered'
    BY <1>1, <2>1 DEF Lined, Decided, Ordered, NoWork
  <2>3. CASE calls' = rest
    <3>1. Kinds'
      BY <1>3, <2>1, <2>3 DEF Lined, Kinds
    <3> QED
      BY <1>2, <2>2, <2>3, <3>1
  <2>4. CASE c.op = "write" /\ calls' = Append(rest, d)
    <3>1. d \in Call /\ d.op = "delete" /\ d.by = c.by
      BY <1>1, CallTypes DEF Call
    <3> HIDE DEF c, rest, d
    <3>2. Range(calls') = Range(rest) \cup {d}
      BY <1>1, <2>4, <3>1, Queue
    <3>3. c.by = "sync" => phase # "idle" /\ phase # "scan"
      BY <1>3, <2>4 DEF Lined, Kinds
    <3>4. Kinds'
      BY <1>3, <2>1, <3>1, <3>2, <3>3 DEF Lined, Kinds
    <3>5. OneSync(Append(rest, d))
      BY <1>1, <1>2, <3>1, OneSyncGrows
    <3> QED
      BY <2>2, <2>4, <3>4, <3>5
  <2> QED
    BY <1>5, <2>3, <2>4
<1> QED
  BY <1>4, <1>5, Answers DEF Lined

LEMMA LinedByError ==
    ASSUME Lined, AnswerError
    PROVE  OneSync(calls)' /\ Kinds' /\ Decided' /\ Ordered'
<1> DEFINE c == Head(calls)
           rest == Tail(calls)
           d == Delete(c.old, "sync")
<1>1. /\ calls # <<>> /\ calls \in Seq(Call) /\ c \in Call /\ rest \in Seq(Call)
      /\ decision' = decision /\ work' = work
      /\ calls' = IF c.op = "rename" THEN Append(rest, d) ELSE rest
      /\ IF c.op = "diff" THEN phase' = "idle" ELSE phase' = phase
      /\ failed' = (failed \/ c.by = "sync")
      /\ stuck' = (stuck \/ (c.by = "sync" /\ phase = "invalidate"))
  BY Errors DEF Lined, TypeOK
<1>2. /\ OneSync(rest)
      /\ c.by = "sync" => \A e \in Range(rest) : e.by # "sync"
  BY <1>1, OneSyncShrinks DEF Lined
<1>3. Range(calls) = {c} \cup Range(rest)
  BY <1>1, Queue
<1>4. d \in Call /\ d.op = "delete" /\ d.by = "sync"
  BY <1>1, CallTypes DEF Call
<1>5. /\ c.op = "diff" => c.by = "sync" /\ phase = "scan"
      /\ c.op = "rename" => c.by = "sync" /\ phase # "idle" /\ phase # "scan"
  <2>1. c \in Range(calls) /\ c.by \in {"sync", "save"}
    BY <1>1, <1>3 DEF Call
  <2>2. c.op = "diff" => c.by = "sync"
    BY <2>1, CallTypes DEF Lined, Diffs
  <2> HIDE DEF c
  <2> QED
    BY <2>1, <2>2 DEF Lined, Kinds
<1> HIDE DEF c, rest, d
<1>6. Decided' /\ Ordered'
  BY <1>1, <1>5 DEF Lined, Decided, Ordered, NoWork
<1>7. CASE c.op # "rename"
  <2>1. Kinds'
    BY <1>1, <1>2, <1>3, <1>5, <1>7 DEF Lined, Kinds
  <2> QED
    BY <1>1, <1>2, <1>6, <1>7, <2>1
<1>8. CASE c.op = "rename"
  <2>1. Range(calls') = Range(rest) \cup {d}
    BY <1>1, <1>4, <1>8, Queue
  <2>2. Kinds'
    BY <1>1, <1>2, <1>3, <1>4, <1>5, <1>8, <2>1 DEF Lined, Kinds
  <2>3. OneSync(Append(rest, d))
    BY <1>1, <1>2, <1>4, <1>5, <1>8, OneSyncGrows
  <2> QED
    BY <1>1, <1>6, <1>8, <2>2, <2>3
<1> QED
  BY <1>7, <1>8

LEMMA LinedByPhase ==
    ASSUME Lined, RenamesDone \/ DeletesDone \/ Publish \/ FallBack \/ Done \/ Stop
    PROVE  OneSync(calls)' /\ Kinds' /\ Decided' /\ Ordered'
<1>1. TypeOK
  BY DEF Lined
<1>2. /\ UNCHANGED <<calls, failed, stuck>>
      /\ \A d \in Range(calls) : d.by # "sync"
  BY <1>1, Phased
<1>3. NoWork' = NoWork
  BY DEF NoWork
<1>4. OneSync(calls)' /\ Kinds'
  BY <1>2 DEF Lined, Kinds
<1>5. Decided'
  BY <1>1, <1>2, Phased DEF Lined, Decided
<1>6. \/ phase' = "idle" /\ work' = NoWork
      \/ /\ work' = work
         /\ \/ phase' = "delete" /\ phase = "rename" /\ work.renamed = {}
            \/ phase' \in {"invalidate", "upsert"} /\ phase = "delete" /\ work.deleted = {}
            \/ phase' = "upsert" /\ phase = "invalidate"
  BY <1>1, Phased
<1>7. Ordered'
  <2>1. NoWork.renamed = {}
    BY DEF NoWork
  <2> QED
    BY <1>3, <1>6, <2>1 DEF Lined, Ordered
<1> QED
  BY <1>4, <1>5, <1>7

LEMMA LinedByWork ==
    ASSUME Lined, RenameFile \/ DeleteRow \/ InvalidateRow \/ IndexOne
    PROVE  OneSync(calls)' /\ Kinds' /\ Decided' /\ Ordered'
<1>1. PICK c \in Call : Sending(c)
  BY Sends DEF Lined
<1>2. /\ calls' = Append(calls, c) /\ c.by = "sync" /\ calls \in Seq(Call)
      /\ \A d \in Range(calls) : d.by # "sync"
      /\ phase \in {"rename", "delete", "invalidate", "upsert"}
      /\ UNCHANGED <<decision, phase, stuck>> /\ (failed => failed')
      /\ c.op \in {"write", "upsert", "delete", "rename"}
      /\ c.op = "write" => phase = "upsert" /\ decision # "none"
      /\ c.op = "rename" => \E r \in work.renamed : c.path = r.new /\ c.old = r.old
      /\ work'.renamed \subseteq work.renamed /\ work'.deleted \subseteq work.deleted
  BY <1>1 DEF Sending, Lined, TypeOK
<1>3. OneSync(calls)'
  BY <1>2, OneSyncGrows DEF Lined
<1>4. Range(calls') = Range(calls) \cup {c}
  BY <1>2, Queue
<1>5. /\ c.op = "write" => failed' \/ RepublishFails
      /\ c.op = "rename" => c.old # c.path
  BY <1>2 DEF Lined, Decided, Ordered
<1>6. Kinds'
  BY <1>2, <1>4, <1>5 DEF Lined, Kinds
<1>7. Decided' /\ Ordered'
  BY <1>2 DEF Lined, Decided, Ordered
<1> QED
  BY <1>3, <1>6, <1>7

LEMMA LinedStep == Lined /\ [Next]_vars => Lined'
<1> SUFFICES ASSUME Lined, [Next]_vars PROVE Lined'
  OBVIOUS
<1>1. TypeOK' /\ Diffs'
  BY TypeStep, DiffsStep DEF Lined
<1>2. CASE UNCHANGED vars
  BY <1>1, <1>2 DEF vars, storeVars, syncVars, Lined, Kinds, Decided, Ordered, NoWork
<1>3. CASE Defer \/ \E p \in Paths : Edit(p) \/ \E c \in Contents : Save(p, c)
  BY <1>1, <1>3, LinedByFiles DEF Lined
<1>4. CASE \E s \in saves : SendSave(s)
  BY <1>1, <1>4, LinedBySave DEF Lined
<1>5. CASE \E forced \in BOOLEAN : StartSync(forced)
  BY <1>1, <1>5, LinedByStart DEF Lined
<1>6. CASE Answer \/ AnswerError
  BY <1>1, <1>6, LinedByAnswer, LinedByError DEF Lined
<1>7. CASE RenamesDone \/ DeletesDone \/ Publish \/ FallBack \/ Done \/ Stop
  BY <1>1, <1>7, LinedByPhase DEF Lined
<1>8. CASE RenameFile \/ DeleteRow \/ InvalidateRow \/ IndexOne
  BY <1>1, <1>8, LinedByWork DEF Lined
<1> QED
  BY <1>2, <1>3, <1>4, <1>5, <1>6, <1>7, <1>8 DEF Next, Sync

-----------------------------------------------------------------------------
(* What the reconcile does is right by the files that nobody else has touched. *)

Untouched(p) == others[p] = "none"

\* A call of the reconcile is right by p: it writes the file's content, and removes
\* the row of a file that is gone, is to be invalidated or was counted as a failure, or
\* that a standing decision keeps from being indexed.
Fits(p, c) ==
    /\ c.op \in {"upsert", "write", "rename"} /\ c.path = p => c.text = disk[p] /\ disk[p] # None
    /\ c.op = "rename" /\ c.old = p => disk[p] = None
    /\ c.op = "delete" /\ c.path = p => \/ disk[p] = None \/ phase = "invalidate"
                                        \/ failed \/ RepublishFails

\* The diff's word on p is the file's.
Holds(p) ==
    /\ p \in work.deleted => disk[p] = None
    /\ p \in work.added \cup work.modified => disk[p] # None
    /\ \A r \in work.renamed : /\ r.old = p => disk[p] = None
                               /\ r.new = p => disk[p] # None

\* No save of an untouched file is under way, and the calls and the work are right by it.
RightBy(p) ==
    /\ ~UnderWay(p)
    /\ phase # "scan" => /\ \A c \in Range(calls) : c.by = "sync" => Fits(p, c)
                         /\ Holds(p)

Right == \A p \in Paths : Untouched(p) => RightBy(p)

LEMMA RightInit == Init => Right
<1> SUFFICES ASSUME Init, NEW p \in Paths PROVE RightBy(p)
  BY DEF Right
<1>1. Range(calls) = {} /\ saves = {} /\ work = NoWork
  BY DEF Init, Range
<1> QED
  BY <1>1 DEF RightBy, UnderWay, Holds, NoWork

LEMMA RightByFiles ==
    ASSUME TypeOK, Right, Defer \/ \E p \in Paths : Edit(p) \/ \E c \in Contents : Save(p, c)
    PROVE  Right'
<1> SUFFICES ASSUME NEW p \in Paths, others'[p] = "none" PROVE RightBy(p)'
  BY DEF Right, Untouched
<1>1. UNCHANGED <<calls, phase, failed, work>>
  BY DEF Defer, Edit, Save, storeVars, syncVars
<1> DEFINE Aside == /\ others[p] = "none" /\ disk'[p] = disk[p]
                    /\ \A s : s[1] = p => (s \in saves' <=> s \in saves)
<1>2. Aside
  <2>1. disk \in [Paths -> Text] /\ others \in [Paths -> {"none", "saved", "edited"}]
    BY DEF TypeOK, Text
  <2>2. CASE Defer
    BY <2>2 DEF Defer, fileVars
  <2>3. ASSUME NEW q \in Paths, Edit(q) PROVE Aside
    <3>1. PICK c \in Text : disk' = [disk EXCEPT ![q] = c]
      BY <2>3 DEF Edit, Text
    <3>2. others' = [others EXCEPT ![q] = "edited"] /\ saves' = saves
      BY <2>3 DEF Edit
    <3> QED
      BY <2>1, <3>1, <3>2
  <2>4. ASSUME NEW q \in Paths, NEW c \in Contents, Save(q, c) PROVE Aside
    <3>1. /\ disk' = [disk EXCEPT ![q] = c] /\ saves' = saves \cup {<<q, c>>}
          /\ others' = [others EXCEPT ![q] = IF @ = "edited" \/ \E s \in saves : s[1] = q
                                             THEN "edited" ELSE "saved"]
      BY <2>4 DEF Save
    <3>2. p # q
      BY <2>1, <3>1
    <3> QED
      BY <2>1, <3>1, <3>2
  <2> QED
    BY <2>2, <2>3, <2>4
<1>3. RightBy(p)
  BY <1>2 DEF Right, Untouched
<1>4. ~UnderWay(p)'
  BY <1>1, <1>2, <1>3 DEF RightBy, UnderWay, Range
<1>5. Holds(p)' <=> Holds(p)
  BY <1>1, <1>2 DEF Holds
<1>6. \A c : Fits(p, c)' <=> Fits(p, c)
  BY <1>1, <1>2 DEF Fits
<1> QED
  BY <1>1, <1>3, <1>4, <1>5, <1>6 DEF RightBy, Range

LEMMA RightBySave ==
    ASSUME TypeOK, Right, NEW s \in saves, SendSave(s)
    PROVE  Right'
<1> SUFFICES ASSUME NEW p \in Paths, others'[p] = "none" PROVE RightBy(p)'
  BY DEF Right, Untouched
<1>1. s[1] \in Paths /\ s[2] \in Text /\ calls \in Seq(Call)
  BY DEF TypeOK, Text
<1> DEFINE w == WriteRow(s[1], s[2], "save")
<1>2. /\ calls' = Append(calls, w) /\ UNCHANGED <<phase, failed, work, disk, others>>
      /\ saves' = saves \ {s}
  BY DEF SendSave, syncVars
<1>3. w \in Call /\ w.by = "save" /\ w.path = s[1]
  BY <1>1, WriteRowTypes
<1> HIDE DEF w
<1>4. Range(calls') = Range(calls) \cup {w}
  BY <1>1, <1>2, <1>3, Queue
<1>5. RightBy(p) /\ s[1] # p
  BY <1>2 DEF Right, Untouched, RightBy, UnderWay
<1>6. ~UnderWay(p)'
  BY <1>2, <1>3, <1>4, <1>5 DEF RightBy, UnderWay
<1>7. /\ Holds(p)' <=> Holds(p)
      /\ \A c : Fits(p, c)' <=> Fits(p, c)
  BY <1>2 DEF Holds, Fits
<1> QED
  BY <1>2, <1>3, <1>4, <1>5, <1>6, <1>7 DEF RightBy

LEMMA RightByAnswer ==
    ASSUME Lined, Right, Answer
    PROVE  Right'
<1> SUFFICES ASSUME NEW p \in Paths, others'[p] = "none" PROVE RightBy(p)'
  BY DEF Right, Untouched
<1> DEFINE c == Head(calls)
           rest == Tail(calls)
           d == Delete(c.path, c.by)
<1>1. /\ calls # <<>> /\ calls \in Seq(Call) /\ c \in Call /\ rest \in Seq(Call)
      /\ UNCHANGED <<disk, saves, decision>>
  BY Answers DEF Lined, TypeOK
<1>2. c.by = "sync" => \A e \in Range(rest) : e.by # "sync"
  BY <1>1, OneSyncShrinks DEF Lined
<1>3. Range(calls) = {c} \cup Range(rest)
  BY <1>1, Queue
<1>4. CASE c.op = "diff" /\ DiffAnswered /\ calls' = rest
  <2>1. c.by = "sync"
    BY <1>3, <1>4, CallTypes DEF Lined, Diffs
  <2>2. work' = ScanDiff /\ others' = [q \in Paths |-> IF UnderWay(q) THEN others[q] ELSE "none"]
    BY <1>4 DEF DiffAnswered
  <2>3. ~UnderWay(p)
    <3>1. UnderWay(p) => others[p] = "none"
      BY <2>2
    <3> QED
      BY <3>1 DEF Right, Untouched, RightBy
  <2> HIDE DEF c, rest
  <2>4. ~UnderWay(p)'
    BY <1>1, <1>3, <1>4, <2>3 DEF UnderWay
  <2>5. /\ \A r \in ScanDiff.renamed : disk[r.old] = None /\ disk[r.new] # None
        /\ \A q \in ScanDiff.deleted : disk[q] = None
        /\ \A q \in ScanDiff.added \cup ScanDiff.modified : disk[q] # None
    BY DiffTypes DEF Lined
  <2>6. Holds(p)'
    BY <1>1, <2>2, <2>5 DEF Holds
  <2> QED
    BY <1>2, <1>4, <2>1, <2>4, <2>6 DEF RightBy
<1>5. CASE /\ c.op # "diff" /\ UNCHANGED <<others, syncVars>>
           /\ calls' = rest \/ (c.op = "write" /\ calls' = Append(rest, d))
  <2>1. UNCHANGED <<others, phase, failed, work>>
    BY <1>5 DEF syncVars
  <2>2. RightBy(p)
    BY <2>1 DEF Right, Untouched
  <2>3. /\ Holds(p)' <=> Holds(p)
        /\ \A e : Fits(p, e)' <=> Fits(p, e)
    BY <1>1, <2>1 DEF Holds, Fits
  <2>4. CASE calls' = rest
    BY <1>1, <1>3, <2>1, <2>2, <2>3, <2>4 DEF RightBy, UnderWay
  <2>5. CASE c.op = "write" /\ calls' = Append(rest, d)
    <3>1. d \in Call /\ d.op = "delete" /\ d.by = c.by /\ d.path = c.path
      BY <1>1, CallTypes DEF Call
    <3> HIDE DEF c, rest, d
    <3>2. Range(calls') = Range(rest) \cup {d}
      BY <1>1, <2>5, <3>1, Queue
    <3>3. ~UnderWay(p)'
      BY <1>1, <1>3, <2>2, <3>1, <3>2 DEF RightBy, UnderWay
    <3>4. d.by = "sync" => Fits(p, d)
      BY <1>3, <2>5, <3>1 DEF Fits, Lined, Kinds
    <3> QED
      BY <1>3, <2>1, <2>2, <2>3, <3>2, <3>3, <3>4 DEF RightBy
  <2> QED
    BY <1>5, <2>4, <2>5
<1> QED
  BY <1>4, <1>5, Answers DEF Lined

LEMMA RightByError ==
    ASSUME Lined, Right, AnswerError
    PROVE  Right'
<1> SUFFICES ASSUME NEW p \in Paths, others'[p] = "none" PROVE RightBy(p)'
  BY DEF Right, Untouched
<1> DEFINE c == Head(calls)
           rest == Tail(calls)
           d == Delete(c.old, "sync")
<1>1. /\ calls # <<>> /\ calls \in Seq(Call) /\ c \in Call /\ rest \in Seq(Call)
      /\ UNCHANGED <<disk, saves, work>>
      /\ calls' = IF c.op = "rename" THEN Append(rest, d) ELSE rest
      /\ IF c.op = "diff" THEN phase' = "idle" ELSE phase' = phase
      /\ (failed => failed') /\ (c.by = "sync" => failed')
      /\ others' = IF c.by = "save" THEN [others EXCEPT ![c.path] = "edited"] ELSE others
  BY Errors DEF Lined, TypeOK
<1>2. c.by = "sync" => \A e \in Range(rest) : e.by # "sync"
  BY <1>1, OneSyncShrinks DEF Lined
<1>3. Range(calls) = {c} \cup Range(rest)
  BY <1>1, Queue
<1>4. d \in Call /\ d.op = "delete" /\ d.by = "sync" /\ d.path = c.old
  BY <1>1, CallTypes DEF Call
<1>5. /\ c.op = "diff" => c.by = "sync" /\ phase = "scan"
      /\ c.op = "rename" => c.by = "sync" /\ phase # "scan"
  <2>1. c \in Range(calls) /\ c.by \in {"sync", "save"}
    BY <1>1, <1>3 DEF Call
  <2>2. c.op = "diff" => c.by = "sync"
    BY <2>1, CallTypes DEF Lined, Diffs
  <2> HIDE DEF c
  <2> QED
    BY <2>1, <2>2 DEF Lined, Kinds
<1> HIDE DEF c, rest, d
<1>6. others[p] = "none"
  <2>1. others \in [Paths -> {"none", "saved", "edited"}]
    BY DEF Lined, TypeOK
  <2> QED
    BY <1>1, <2>1
<1>7. RightBy(p)
  BY <1>6 DEF Right, Untouched
<1>8. Range(calls') = IF c.op = "rename" THEN Range(rest) \cup {d} ELSE Range(rest)
  <2>1. Range(Append(rest, d)) = Range(rest) \cup {d}
    BY <1>1, <1>4, Queue
  <2> QED
    BY <1>1, <2>1
<1>9. ~UnderWay(p)'
  BY <1>1, <1>3, <1>4, <1>7, <1>8 DEF RightBy, UnderWay
<1>10. CASE c.op = "diff"
  <2>1. work' = NoWork
    BY <1>1, <1>5, <1>10 DEF Lined, Ordered
  <2>2. Holds(p)'
    BY <2>1 DEF Holds, NoWork
  <2> QED
    BY <1>2, <1>5, <1>8, <1>9, <1>10, <2>2 DEF RightBy
<1>11. CASE c.op # "diff"
  <2>1. UNCHANGED <<disk, work, phase>>
    BY <1>1, <1>11
  <2>2. Holds(p)' <=> Holds(p)
    BY <2>1 DEF Holds
  <2>3. \A e : Fits(p, e) => Fits(p, e)'
    BY <1>1, <2>1 DEF Fits
  <2>4. c.op = "rename" => \A e : e.op = "delete" => Fits(p, e)'
    BY <1>1, <1>5 DEF Fits
  <2> QED
    BY <1>1, <1>3, <1>4, <1>7, <1>8, <1>9, <2>1, <2>2, <2>3, <2>4 DEF RightBy
<1> QED
  BY <1>10, <1>11

LEMMA RightByStart ==
    ASSUME Lined, Right, NEW forced \in BOOLEAN, StartSync(forced)
    PROVE  Right'
<1> SUFFICES ASSUME NEW p \in Paths, others'[p] = "none" PROVE RightBy(p)'
  BY DEF Right, Untouched
<1>1. /\ calls' = Append(calls, Diff) /\ phase' = "scan" /\ UNCHANGED <<saves, others>>
  BY DEF StartSync, fileVars
<1>2. calls \in Seq(Call) /\ Diff \in Call /\ Diff.by = "sync"
  BY CallTypes DEF Lined, TypeOK
<1>3. Range(calls') = Range(calls) \cup {Diff}
  BY <1>1, <1>2, Queue
<1>4. ~UnderWay(p)
  BY <1>1 DEF Right, Untouched, RightBy
<1> QED
  BY <1>1, <1>2, <1>3, <1>4 DEF RightBy, UnderWay

LEMMA RightByPhase ==
    ASSUME Lined, Right, RenamesDone \/ DeletesDone \/ Publish \/ FallBack \/ Done \/ Stop
    PROVE  Right'
<1> SUFFICES ASSUME NEW p \in Paths, others'[p] = "none" PROVE RightBy(p)'
  BY DEF Right, Untouched
<1>1. /\ UNCHANGED <<calls, disk, saves, others, failed>>
      /\ \A d \in Range(calls) : d.by # "sync"
      /\ \/ work' = NoWork
         \/ work' = work /\ phase # "scan"
  BY Phased DEF Lined
<1>2. RightBy(p)
  BY <1>1 DEF Right, Untouched
<1>3. Holds(p)'
  BY <1>1, <1>2 DEF RightBy, Holds, NoWork
<1> QED
  BY <1>1, <1>2, <1>3 DEF RightBy, UnderWay

LEMMA RightByWork ==
    ASSUME Lined, Right, RenameFile \/ DeleteRow \/ InvalidateRow \/ IndexOne
    PROVE  Right'
<1> SUFFICES ASSUME NEW p \in Paths, others'[p] = "none" PROVE RightBy(p)'
  BY DEF Right, Untouched
<1>1. PICK c \in Call : Sending(c)
  BY Sends DEF Lined
<1>2. /\ calls' = Append(calls, c) /\ c.by = "sync" /\ calls \in Seq(Call)
      /\ UNCHANGED <<disk, saves, others, phase>> /\ phase # "scan" /\ (failed => failed')
  BY <1>1 DEF Sending, Lined, TypeOK
<1>3. RightBy(p) /\ Holds(p)
  BY <1>2 DEF Right, Untouched, RightBy
<1>4. Range(calls') = Range(calls) \cup {c}
  BY <1>2, Queue
<1>5. Holds(p)'
  BY <1>1, <1>2, <1>3 DEF Sending, Holds
<1>6. \A e : Fits(p, e) => Fits(p, e)'
  BY <1>2 DEF Fits
<1>7. Fits(p, c)'
  BY <1>1, <1>2, <1>3 DEF Sending, Fits, Holds
<1>8. ~UnderWay(p)'
  BY <1>2, <1>3, <1>4 DEF RightBy, UnderWay
<1> QED
  BY <1>2, <1>3, <1>4, <1>5, <1>6, <1>7, <1>8 DEF RightBy

LEMMA RightStep == Lined /\ Right /\ [Next]_vars => Right'
<1> SUFFICES ASSUME Lined, Right, [Next]_vars PROVE Right'
  OBVIOUS
<1>1. CASE UNCHANGED vars
  BY <1>1 DEF vars, storeVars, fileVars, syncVars, Right, Untouched, RightBy, UnderWay, Holds, Fits
<1>2. CASE Defer \/ \E p \in Paths : Edit(p) \/ \E c \in Contents : Save(p, c)
  BY <1>2, RightByFiles DEF Lined
<1>3. CASE \E s \in saves : SendSave(s)
  BY <1>3, RightBySave DEF Lined
<1>4. CASE \E forced \in BOOLEAN : StartSync(forced)
  BY <1>4, RightByStart
<1>5. CASE Answer \/ AnswerError
  BY <1>5, RightByAnswer, RightByError
<1>6. CASE RenamesDone \/ DeletesDone \/ Publish \/ FallBack \/ Done \/ Stop
  BY <1>6, RightByPhase
<1>7. CASE RenameFile \/ DeleteRow \/ InvalidateRow \/ IndexOne
  BY <1>7, RightByWork
<1> QED
  BY <1>1, <1>2, <1>3, <1>4, <1>5, <1>6, <1>7 DEF Next, Sync

-----------------------------------------------------------------------------
(* A reconcile that reports no failure has told the truth. *)

\* A call of the reconcile is under way for p.
Sent(p) == \E c \in Range(calls) : /\ c.by = "sync"
                                   /\ \/ c.op # "diff" /\ c.path = p
                                      \/ c.op = "rename" /\ c.old = p

\* While nothing has failed, every untouched file is current, to be worked on, or
\* being worked on.
Current ==
    ~failed /\ phase \in {"rename", "delete", "invalidate", "upsert"} =>
        \A p \in Paths : Untouched(p) => row[p] = disk[p] \/ Left(p) \/ Sent(p)

\* The rows that are invalidated are those of the files to be indexed again.
Marked ==
    /\ phase \in {"rename", "delete", "invalidate"} => stale \subseteq work.modified
    /\ phase = "invalidate" => \A c \in Range(calls) :
          c.by = "sync" => c.op = "delete" /\ c.path \in work.modified

LEMMA MarkedStep == Lined /\ Marked /\ [Next]_vars => Marked'
<1> SUFFICES ASSUME Lined, Marked, [Next]_vars PROVE Marked'
  OBVIOUS
<1>0. TypeOK /\ calls \in Seq(Call)
  BY DEF Lined, TypeOK
<1>1. CASE UNCHANGED vars
  BY <1>1 DEF vars, storeVars, syncVars, Marked
<1>2. CASE Defer \/ \E q \in Paths : Edit(q) \/ \E c \in Contents : Save(q, c)
  BY <1>2 DEF Defer, Edit, Save, storeVars, syncVars, Marked
<1>3. ASSUME NEW s \in saves, SendSave(s) PROVE Marked'
  <2>1. s[1] \in Paths /\ s[2] \in Text
    BY <1>0 DEF TypeOK, Text
  <2> DEFINE d == WriteRow(s[1], s[2], "save")
  <2>2. d \in Call /\ d.by = "save"
    BY <2>1, WriteRowTypes
  <2>3. calls' = Append(calls, d) /\ UNCHANGED <<phase, work, stale>>
    BY <1>3 DEF SendSave, syncVars
  <2> HIDE DEF d
  <2>4. Range(calls') = Range(calls) \cup {d}
    BY <1>0, <2>2, <2>3, Queue
  <2> QED
    BY <2>2, <2>3, <2>4 DEF Marked
<1>4. CASE \E forced \in BOOLEAN : StartSync(forced)
  BY <1>4 DEF StartSync, Marked
<1>5. CASE Answer
  <2> DEFINE c == Head(calls)
             rest == Tail(calls)
  <2>1. CASE c.op = "diff" /\ DiffAnswered
    BY <2>1 DEF DiffAnswered, Marked
  <2>2. CASE /\ c.op # "diff" /\ UNCHANGED syncVars
             /\ calls' = rest \/ (c.op = "write" /\ calls' = Append(rest, Delete(c.path, c.by)))
    <3>1. calls # <<>> /\ c \in Call /\ rest \in Seq(Call)
      BY <1>0, <1>5, Answers
    <3>2. Delete(c.path, c.by) \in Call /\ Delete(c.path, c.by).by = c.by
      BY <3>1, CallTypes DEF Call
    <3>3. Range(calls) = {c} \cup Range(rest)
      BY <1>0, <3>1, Queue
    <3> DEFINE d == Delete(c.path, c.by)
    <3> HIDE DEF c, rest, d
    <3>4. Range(Append(rest, d)) = Range(rest) \cup {d}
      BY <3>1, <3>2, Queue DEF d
    <3>5. UNCHANGED <<phase, work, stale>>
      BY <2>2 DEF syncVars
    <3>6. \A e \in Range(calls') : e \in Range(calls) \/ (c.op = "write" /\ e = d)
      BY <2>2, <3>3, <3>4 DEF d
    <3>7. phase = "invalidate" /\ c.op = "write" => c.by # "sync"
      BY <3>3 DEF Marked
    <3> QED
      BY <3>2, <3>5, <3>6, <3>7 DEF Marked, d
  <2> QED
    BY <1>0, <1>5, <2>1, <2>2, Answers
<1>6. CASE AnswerError
  <2> DEFINE c == Head(calls)
             rest == Tail(calls)
             d == Delete(c.old, "sync")
  <2>1. /\ calls # <<>> /\ c \in Call /\ rest \in Seq(Call) /\ UNCHANGED <<work, stale>>
        /\ calls' = IF c.op = "rename" THEN Append(rest, d) ELSE rest
        /\ phase' = "idle" \/ phase' = phase
    BY <1>0, <1>6, Errors
  <2>2. Range(calls) = {c} \cup Range(rest)
    BY <1>0, <2>1, Queue
  <2>3. c.by \in {"sync", "save"}
    BY <2>1 DEF Call
  <2> HIDE DEF c, rest, d
  <2>4. phase = "invalidate" => c.op # "rename"
    BY <2>2, <2>3 DEF Marked, Lined, Kinds
  <2> QED
    BY <2>1, <2>2, <2>4 DEF Marked
<1>7. CASE RenamesDone \/ DeletesDone \/ Publish \/ FallBack \/ Done \/ Stop
  <2>1. /\ \A d \in Range(calls') : d.by # "sync"
        /\ \/ phase' \in {"idle", "upsert"}
           \/ UNCHANGED <<work, stale>> /\ phase \in {"rename", "delete"}
    BY <1>0, <1>7, Phased
  <2> QED
    BY <2>1 DEF Marked
<1>8. CASE RenameFile \/ DeleteRow \/ InvalidateRow \/ IndexOne
  <2>1. PICK c \in Call : Sending(c)
    BY <1>0, <1>8, Sends
  <2>2. /\ calls' = Append(calls, c) /\ phase' = phase
        /\ \A d \in Range(calls) : d.by # "sync"
        /\ phase # "upsert" => work'.modified = work.modified /\ stale' \subseteq stale
        /\ phase = "invalidate" => c.op = "delete" /\ c.path \in stale
    BY <2>1 DEF Sending
  <2>3. Range(calls') = Range(calls) \cup {c}
    BY <1>0, <2>1, <2>2, Queue
  <2> QED
    BY <2>2, <2>3 DEF Marked
<1> QED
  BY <1>1, <1>2, <1>3, <1>4, <1>5, <1>6, <1>7, <1>8 DEF Next, Sync

\* What an answer to a right call does to the row of an untouched file.
LEMMA RightAnswer ==
    ASSUME Lined, Right, NEW p \in Paths, Untouched(p), Answer, Head(calls).op # "diff"
    PROVE  LET c == Head(calls)
           IN  /\ c.by = "save" \/ (c.path # p /\ c.old # p) => row'[p] = row[p]
               /\ c.by = "sync" /\ c.path = p =>
                    \/ c.op = "write" /\ row'[p] = row[p] /\ (failed \/ RepublishFails)
                    \/ c.op \in {"upsert", "rename"} /\ row'[p] = disk[p]
                    \/ /\ c.op = "delete" /\ row'[p] = None
                       /\ \/ disk[p] = None \/ phase = "invalidate"
                          \/ failed \/ RepublishFails
               /\ c.by = "sync" /\ c.path # p /\ c.old = p =>
                    \/ c.op = "rename" /\ row'[p] = None /\ disk[p] = None
                    \/ c.op # "rename" /\ row'[p] = row[p]
<1> DEFINE c == Head(calls)
<1>1. /\ calls # <<>> /\ c \in Call /\ c.op # "diff" /\ row' = Applied(c) /\ calls \in Seq(Call)
  BY Answers DEF Lined, TypeOK
<1>2. c \in Range(calls)
  BY <1>1, Queue
<1>3. RightBy(p) /\ (c.by = "sync" => phase # "scan")
  BY <1>1, <1>2 DEF Right, Lined, Kinds
<1>4. /\ c.by = "sync" => Fits(p, c)
      /\ c.by = "save" => c.path # p /\ c.op # "rename"
      /\ c.by = "sync" /\ c.op = "write" => failed \/ RepublishFails
      /\ c.op \in {"write", "upsert", "delete", "rename"}
  BY <1>1, <1>2, <1>3 DEF RightBy, UnderWay, Lined, Kinds, Call
<1>5. /\ c.op \in {"upsert", "rename"} /\ c.path = p => row'[p] = c.text
      /\ c.op = "delete" /\ c.path = p => row'[p] = None
      /\ c.op = "rename" /\ c.old = p /\ c.path # p => row'[p] = None
      /\ c.op = "write" => row'[p] = row[p]
      /\ c.op \in {"upsert", "delete"} /\ c.path # p => row'[p] = row[p]
      /\ c.op = "rename" /\ c.path # p /\ c.old # p => row'[p] = row[p]
  BY <1>1, AppliedRows DEF Lined
<1> HIDE DEF c
<1> QED
  BY <1>4, <1>5 DEF Fits, c

\* Steps of others leave an untouched file and the reconcile alone.
LEMMA Aside ==
    ASSUME TypeOK, NEW p \in Paths, Untouched(p)',
           \/ Defer \/ \E s \in saves : SendSave(s)
           \/ \E q \in Paths : Edit(q) \/ \E c \in Contents : Save(q, c)
    PROVE  /\ Untouched(p) /\ disk'[p] = disk[p] /\ UNCHANGED <<row, syncVars>>
           /\ Range(calls) \subseteq Range(calls')
<1>1. disk \in [Paths -> Text] /\ others \in [Paths -> {"none", "saved", "edited"}]
      /\ calls \in Seq(Call)
  BY DEF TypeOK, Text
<1>2. CASE Defer
  BY <1>2 DEF Defer, fileVars, storeVars, Untouched
<1>3. ASSUME NEW s \in saves, SendSave(s)
      PROVE  UNCHANGED <<others, disk, row, syncVars>> /\ Range(calls) \subseteq Range(calls')
  <2>1. s[1] \in Paths /\ s[2] \in Text
    BY DEF TypeOK, Text
  <2>2. WriteRow(s[1], s[2], "save") \in Call
    BY <2>1, WriteRowTypes
  <2> QED
    BY <1>1, <1>3, <2>2, Queue DEF SendSave
<1>4. ASSUME NEW q \in Paths, Edit(q)
      PROVE  others[p] = "none" /\ disk'[p] = disk[p] /\ UNCHANGED <<row, calls, syncVars>>
  <2>1. PICK c \in Text : disk' = [disk EXCEPT ![q] = c]
    BY <1>4 DEF Edit, Text
  <2>2. others' = [others EXCEPT ![q] = "edited"] /\ UNCHANGED <<row, calls, syncVars>>
    BY <1>4 DEF Edit, storeVars
  <2> QED
    BY <1>1, <2>1, <2>2 DEF Untouched
<1>5. ASSUME NEW q \in Paths, NEW c \in Contents, Save(q, c)
      PROVE  others[p] = "none" /\ disk'[p] = disk[p] /\ UNCHANGED <<row, calls, syncVars>>
  <2>1. /\ disk' = [disk EXCEPT ![q] = c] /\ UNCHANGED <<row, calls, syncVars>>
        /\ others' = [others EXCEPT ![q] = IF @ = "edited" \/ \E s \in saves : s[1] = q
                                           THEN "edited" ELSE "saved"]
    BY <1>5 DEF Save, storeVars
  <2> QED
    BY <1>1, <2>1 DEF Untouched
<1> QED
  BY <1>2, <1>3, <1>4, <1>5 DEF Untouched

LEMMA CurrentByAnswer ==
    ASSUME ~RepublishFails, Lined, Right, Marked, Current, Answer
    PROVE  Current'
<1> DEFINE c == Head(calls)
           rest == Tail(calls)
<1> SUFFICES ASSUME ~failed', phase' \in {"rename", "delete", "invalidate", "upsert"},
                    NEW p \in Paths, others'[p] = "none"
             PROVE  row'[p] = disk'[p] \/ Left(p)' \/ Sent(p)'
  BY DEF Current, Untouched
<1>1. /\ calls # <<>> /\ calls \in Seq(Call) /\ disk' = disk
      /\ c \in Call /\ rest \in Seq(Call) /\ Delete(c.path, c.by) \in Call
      /\ calls' = rest \/ calls' = Append(rest, Delete(c.path, c.by))
  <2>1. c \in Call
    BY Answers DEF Lined
  <2> QED
    BY <2>1, Answers, CallTypes DEF Lined, TypeOK, Call
<1>2. Range(calls) = {c} \cup Range(rest) /\ Range(rest) \subseteq Range(calls')
  BY <1>1, Taken
<1>3. CASE c.op = "diff" /\ DiffAnswered /\ row' = row
  <2>1. work' = ScanDiff
    BY <1>3 DEF DiffAnswered
  <2>2. \/ row[p] = disk[p]
        \/ p \in ScanDiff.deleted \cup ScanDiff.added \cup ScanDiff.modified
        \/ \E r \in ScanDiff.renamed : p \in {r.old, r.new}
    BY DiffTypes DEF Lined
  <2> QED
    BY <1>1, <1>3, <2>1, <2>2 DEF Left
<1>4. CASE c.op # "diff" /\ UNCHANGED <<others, syncVars>>
  <2>1. UNCHANGED <<others, phase, failed, work>>
    BY <1>4 DEF syncVars
  <2>2. Untouched(p) /\ ~failed /\ phase \in {"rename", "delete", "invalidate", "upsert"}
    BY <2>1 DEF Untouched
  <2>3. row[p] = disk[p] \/ Left(p) \/ Sent(p)
    BY <2>2 DEF Current
  <2>4. Left(p) => Left(p)'
    BY <2>1 DEF Left
  <2>5. CASE c.by = "sync" /\ p \in {c.path, c.old}
    <3>0. phase = "invalidate" => c.op = "delete" /\ c.path \in work.modified
      BY <1>2, <2>5 DEF Marked
    <3>1. \/ row'[p] = disk[p] \/ (c.path # p /\ c.op # "rename" /\ row'[p] = row[p])
          \/ phase = "invalidate" /\ c.path = p
      BY <1>4, <2>2, <2>5, <3>0, RightAnswer
    <3>3. phase = "invalidate" /\ c.path = p => Left(p)
      BY <3>0 DEF Left
    <3>2. c.path # p /\ c.op # "rename" /\ Sent(p) => Sent(p)'
      BY <1>2 DEF Sent
    <3> QED
      BY <1>1, <2>3, <2>4, <3>1, <3>2, <3>3
  <2>6. CASE ~(c.by = "sync" /\ p \in {c.path, c.old})
    <3>1. c.by \in {"sync", "save"}
      BY <1>1 DEF Call
    <3>2. row'[p] = row[p]
      BY <1>4, <2>2, <2>6, <3>1, RightAnswer
    <3>3. Sent(p) => Sent(p)'
      BY <1>2, <2>6 DEF Sent
    <3> QED
      BY <1>1, <2>3, <2>4, <3>2, <3>3
  <2> QED
    BY <2>5, <2>6
<1> QED
  BY <1>3, <1>4, Answers DEF Lined

LEMMA CurrentByError ==
    ASSUME Lined, Right, Current, AnswerError
    PROVE  Current'
<1> DEFINE c == Head(calls)
           rest == Tail(calls)
<1> SUFFICES ASSUME ~failed', phase' \in {"rename", "delete", "invalidate", "upsert"},
                    NEW p \in Paths, others'[p] = "none"
             PROVE  row'[p] = disk'[p] \/ Left(p)' \/ Sent(p)'
  BY DEF Current, Untouched
<1>1. /\ calls # <<>> /\ calls \in Seq(Call) /\ disk' = disk /\ work' = work
      /\ c \in Call /\ rest \in Seq(Call) /\ Delete(c.old, "sync") \in Call
      /\ calls' = rest \/ calls' = Append(rest, Delete(c.old, "sync"))
      /\ ~failed /\ c.by # "sync"
      /\ others' = IF c.by = "save" THEN [others EXCEPT ![c.path] = "edited"] ELSE others
      /\ IF c.op = "diff" THEN phase' = "idle" ELSE phase' = phase
      /\ \/ row'[p] = row[p]
         \/ c.op = "upsert" /\ c.path = p
         \/ c.op = "rename"
  <2>1. c \in Call
    BY Errors DEF Lined
  <2>2. Delete(c.old, "sync") \in Call
    BY <2>1, CallTypes DEF Call
  <2>3. ~failed /\ c.by # "sync"
    BY Errors DEF Lined
  <2> QED
    BY <2>1, <2>2, <2>3, Errors DEF Lined, TypeOK
<1>2. Range(calls) = {c} \cup Range(rest) /\ Range(rest) \subseteq Range(calls')
  BY <1>1, Taken
<1>3. c.by = "save" /\ c.op # "rename"
  <2>1. c.by = "save"
    BY <1>1 DEF Call
  <2> HIDE DEF c
  <2> QED
    BY <1>2, <2>1 DEF Lined, Kinds
<1> HIDE DEF c, rest
<1>4. others[p] = "none" /\ c.path # p
  <2>1. others \in [Paths -> {"none", "saved", "edited"}]
    BY DEF Lined, TypeOK
  <2> QED
    BY <1>1, <1>3, <2>1
<1>5. row'[p] = row[p] /\ phase' = phase
  BY <1>1, <1>3, <1>4
<1>6. row[p] = disk[p] \/ Left(p) \/ Sent(p)
  BY <1>1, <1>4, <1>5 DEF Current, Untouched
<1>7. (Left(p) => Left(p)') /\ (Sent(p) => Sent(p)')
  BY <1>1, <1>2, <1>3 DEF Left, Sent
<1> QED
  BY <1>1, <1>5, <1>6, <1>7

LEMMA CurrentByPhase ==
    ASSUME Lined, Current, RenamesDone \/ DeletesDone \/ Publish \/ FallBack \/ Done \/ Stop
    PROVE  Current'
<1> SUFFICES ASSUME ~failed', phase' \in {"rename", "delete", "invalidate", "upsert"},
                    NEW p \in Paths, others'[p] = "none"
             PROVE  row'[p] = disk'[p] \/ Left(p)' \/ Sent(p)'
  BY DEF Current, Untouched
<1>1. /\ UNCHANGED <<row, calls, disk, others, work, failed>>
      /\ phase \in {"rename", "delete", "invalidate"}
  BY Phased DEF Lined
<1>2. row[p] = disk[p] \/ Left(p) \/ Sent(p)
  BY <1>1 DEF Current, Untouched
<1> QED
  BY <1>1, <1>2 DEF Left, Sent

LEMMA CurrentByWork ==
    ASSUME Lined, Current, RenameFile \/ DeleteRow \/ InvalidateRow \/ IndexOne
    PROVE  Current'
<1> SUFFICES ASSUME ~failed', phase' \in {"rename", "delete", "invalidate", "upsert"},
                    NEW p \in Paths, others'[p] = "none"
             PROVE  row'[p] = disk'[p] \/ Left(p)' \/ Sent(p)'
  BY DEF Current, Untouched
<1>1. PICK c \in Call : Sending(c)
  BY Sends DEF Lined
<1>2. /\ calls' = Append(calls, c) /\ c.by = "sync" /\ calls \in Seq(Call)
      /\ UNCHANGED <<row, disk, others, phase>> /\ ~failed
      /\ c.op \in {"write", "upsert", "delete", "rename"}
      /\ Left(p) => Left(p)' \/ c.path = p \/ (c.op = "rename" /\ c.old = p)
  <2>1. work' = work => (Left(p) => Left(p)')
    BY DEF Left
  <2> QED
    BY <1>1, <2>1 DEF Sending, Lined, TypeOK
<1>3. Range(calls') = Range(calls) \cup {c}
  BY <1>2, Queue
<1>4. row[p] = disk[p] \/ Left(p) \/ Sent(p)
  BY <1>2 DEF Current, Untouched
<1> QED
  BY <1>2, <1>3, <1>4 DEF Sent

LEMMA CurrentStep ==
    ~RepublishFails /\ Lined /\ Right /\ Marked /\ Current /\ [Next]_vars => Current'
<1> SUFFICES ASSUME ~RepublishFails, Lined, Right, Marked, Current, [Next]_vars PROVE Current'
  OBVIOUS
<1>1. CASE UNCHANGED vars
  BY <1>1 DEF vars, storeVars, fileVars, syncVars, Current, Untouched, Left, Sent
<1>2. CASE \/ Defer \/ \E s \in saves : SendSave(s)
           \/ \E q \in Paths : Edit(q) \/ \E c \in Contents : Save(q, c)
  <2> SUFFICES ASSUME ~failed', phase' \in {"rename", "delete", "invalidate", "upsert"},
                      NEW p \in Paths, Untouched(p)'
               PROVE  row'[p] = disk'[p] \/ Left(p)' \/ Sent(p)'
    BY DEF Current
  <2>1. /\ Untouched(p) /\ disk'[p] = disk[p] /\ UNCHANGED <<row, syncVars>>
        /\ Range(calls) \subseteq Range(calls')
    BY <1>2, Aside DEF Lined
  <2>2. UNCHANGED <<failed, phase, work>>
    BY <2>1 DEF syncVars
  <2>3. row[p] = disk[p] \/ Left(p) \/ Sent(p)
    BY <2>1, <2>2 DEF Current
  <2> QED
    BY <2>1, <2>2, <2>3 DEF Left, Sent
<1>3. CASE \E forced \in BOOLEAN : StartSync(forced)
  BY <1>3 DEF StartSync, Current
<1>4. CASE Answer \/ AnswerError
  BY <1>4, CurrentByAnswer, CurrentByError
<1>5. CASE RenamesDone \/ DeletesDone \/ Publish \/ FallBack \/ Done \/ Stop
  BY <1>5, CurrentByPhase
<1>6. CASE RenameFile \/ DeleteRow \/ InvalidateRow \/ IndexOne
  BY <1>6, CurrentByWork
<1> QED
  BY <1>1, <1>2, <1>3, <1>4, <1>5, <1>6 DEF Next, Sync

LEMMA CompleteStep ==
    Lined /\ Right /\ Current /\ CompleteIsCurrent /\ [Next]_vars => CompleteIsCurrent'
<1> SUFFICES ASSUME Lined, Right, Current, CompleteIsCurrent, [Next]_vars,
                    phase' = "idle", outcome' = "complete", NEW p \in Paths, Untouched(p)'
             PROVE  row'[p] = disk'[p]
  BY DEF CompleteIsCurrent, Untouched
<1>0. ASSUME phase = "idle", outcome = "complete", Untouched(p) PROVE row[p] = disk[p]
  BY <1>0 DEF CompleteIsCurrent, Untouched
<1>1. CASE UNCHANGED vars
  BY <1>0, <1>1 DEF vars, storeVars, fileVars, syncVars, Untouched
<1>2. CASE \/ Defer \/ \E s \in saves : SendSave(s)
           \/ \E q \in Paths : Edit(q) \/ \E c \in Contents : Save(q, c)
  <2>1. Untouched(p) /\ disk'[p] = disk[p] /\ UNCHANGED <<row, syncVars>>
    BY <1>2, Aside DEF Lined
  <2>2. UNCHANGED <<phase, outcome>>
    BY <2>1 DEF syncVars
  <2> QED
    BY <1>0, <2>1, <2>2
<1>3. CASE \E forced \in BOOLEAN : StartSync(forced)
  BY <1>3 DEF StartSync
<1>4. CASE Answer
  <2> DEFINE c == Head(calls)
  <2>1. c \in Range(calls) /\ c \in Call /\ disk' = disk
    <3>1. calls # <<>> /\ calls \in Seq(Call) /\ c \in Call /\ disk' = disk
      BY <1>4, Answers DEF Lined, TypeOK
    <3> QED
      BY <3>1, Queue
  <2>2. CASE c.op = "diff" /\ DiffAnswered /\ row' = row
    <3>1. ScanDiff = NoWork
      BY <2>2 DEF DiffAnswered
    <3>2. row[p] = disk[p]
      BY <3>1, DiffTypes DEF Lined, NoWork
    <3> QED
      BY <2>1, <2>2, <3>2
  <2>3. CASE c.op # "diff" /\ UNCHANGED <<others, syncVars>>
    <3>1. Untouched(p) /\ phase = "idle" /\ outcome = "complete"
      BY <2>3 DEF syncVars, Untouched
    <3>2. c.by = "save"
      BY <2>1, <3>1 DEF Lined, Kinds, Call
    <3>3. row'[p] = row[p]
      BY <1>4, <2>3, <3>1, <3>2, RightAnswer
    <3> QED
      BY <1>0, <2>1, <3>1, <3>3
  <2> QED
    BY <1>4, <2>2, <2>3, Answers DEF Lined
<1>5. CASE AnswerError
  <2> DEFINE c == Head(calls)
  <2>1. /\ calls # <<>> /\ calls \in Seq(Call) /\ c \in Call /\ disk' = disk
        /\ others' = IF c.by = "save" THEN [others EXCEPT ![c.path] = "edited"] ELSE others
        /\ IF c.op = "diff" THEN outcome' = "failed" ELSE UNCHANGED <<phase, outcome>>
        /\ row'[p] = row[p] \/ c.path = p \/ c.op = "rename"
    BY <1>5, Errors DEF Lined, TypeOK
  <2>2. c \in Range(calls)
    BY <2>1, Queue
  <2> HIDE DEF c
  <2>3. phase = "idle" /\ outcome = "complete"
    BY <2>1
  <2>4. c.by = "save" /\ c.op # "rename"
    BY <2>1, <2>2, <2>3 DEF Lined, Kinds, Call
  <2>5. others[p] = "none" /\ c.path # p
    <3>1. others \in [Paths -> {"none", "saved", "edited"}]
      BY DEF Lined, TypeOK
    <3> QED
      BY <2>1, <2>4, <3>1 DEF Untouched
  <2> QED
    BY <1>0, <2>1, <2>3, <2>4, <2>5 DEF Untouched
<1>6. CASE RenamesDone \/ DeletesDone \/ Publish \/ FallBack \/ Done \/ Stop
  <2>1. /\ UNCHANGED <<row, disk, others>> /\ \A d \in Range(calls) : d.by # "sync"
        /\ phase = "upsert" /\ Turn = {} /\ ~failed
    BY <1>6, Phased DEF Lined
  <2>2. work.added = {} /\ work.modified = {}
    BY <2>1 DEF Turn
  <2>3. ~Left(p)
    BY <2>1, <2>2 DEF Left, Lined, Ordered
  <2>4. ~Sent(p)
    BY <2>1 DEF Sent
  <2> QED
    BY <2>1, <2>3, <2>4 DEF Current, Untouched
<1>7. CASE RenameFile \/ DeleteRow \/ InvalidateRow \/ IndexOne
  BY <1>7, Sends DEF Sending, Lined
<1> QED
  BY <1>1, <1>2, <1>3, <1>4, <1>5, <1>6, <1>7 DEF Next, Sync

LEMMA TruthInit == Init => Right /\ Marked /\ Current /\ CompleteIsCurrent
BY RightInit DEF Init, Marked, Current, CompleteIsCurrent

\* At the end of a reconcile that reports no failure and no pause, every file that
\* nobody else touched since the diff has a row of its content, and no row is left of
\* one that is gone: the reconcile does not lie, unless it falls back to indexing
\* under a decision that stands and could not be stored again.
THEOREM SyncDoesNotLie ==
    ASSUME ~RepublishFails
    PROVE  Spec => []CompleteIsCurrent
<1> DEFINE IInv == Lined /\ Right /\ Marked /\ Current /\ CompleteIsCurrent
<1>1. Init => IInv
  BY LinedInit, TruthInit
<1>2. IInv /\ [Next]_vars => IInv'
  BY LinedStep, RightStep, MarkedStep, CurrentStep, CompleteStep
<1>3. IInv => CompleteIsCurrent
  OBVIOUS
<1> HIDE DEF IInv
<1> QED
  BY <1>1, <1>2, <1>3, PTL DEF Spec

-----------------------------------------------------------------------------
(* A pause is published when the rows that are known stale are gone. *)

\* The row of p is being invalidated.
Going(p) == /\ phase = "invalidate"
            /\ \E c \in Range(calls) : c.by = "sync" /\ c.op = "delete" /\ c.path = p

\* Until the pause, a row of an untouched file that has another text is still to be
\* invalidated, or is being invalidated.
Cleared ==
    ~stuck /\ phase \in {"rename", "delete", "invalidate"} =>
        \A p \in Paths : Untouched(p) /\ disk[p] # None =>
            row[p] \in {None, disk[p]} \/ p \in stale \/ Going(p)

LEMMA ClearedByAnswer ==
    ASSUME Lined, Right, Cleared, Answer
    PROVE  Cleared'
<1> DEFINE c == Head(calls)
           rest == Tail(calls)
<1> SUFFICES ASSUME ~stuck', phase' \in {"rename", "delete", "invalidate"},
                    NEW p \in Paths, others'[p] = "none", disk'[p] # None
             PROVE  row'[p] \in {None, disk'[p]} \/ p \in stale' \/ Going(p)'
  BY DEF Cleared, Untouched
<1>1. /\ calls # <<>> /\ calls \in Seq(Call) /\ disk' = disk
      /\ c \in Call /\ rest \in Seq(Call) /\ Delete(c.path, c.by) \in Call
      /\ calls' = rest \/ calls' = Append(rest, Delete(c.path, c.by))
  <2>1. c \in Call
    BY Answers DEF Lined
  <2> QED
    BY <2>1, Answers, CallTypes DEF Lined, TypeOK, Call
<1>2. Range(calls) = {c} \cup Range(rest) /\ Range(rest) \subseteq Range(calls')
  BY <1>1, Taken
<1>3. CASE c.op = "diff" /\ DiffAnswered /\ row' = row
  <2>1. stale' = ScanDiff.modified
    BY <1>3 DEF DiffAnswered
  <2> QED
    BY <1>1, <1>3, <2>1, DiffTypes DEF Lined
<1>4. CASE c.op # "diff" /\ UNCHANGED <<others, syncVars>>
  <2>1. UNCHANGED <<others, phase, stuck, stale>>
    BY <1>4 DEF syncVars
  <2>2. Untouched(p) /\ ~stuck /\ phase \in {"rename", "delete", "invalidate"} /\ disk[p] # None
    BY <1>1, <2>1 DEF Untouched
  <2>3. row[p] \in {None, disk[p]} \/ p \in stale \/ Going(p)
    BY <2>2 DEF Cleared
  <2>4. c.by \in {"sync", "save"}
    BY <1>1 DEF Call
  <2>5. CASE c.by = "sync" /\ c.path = p /\ c.op # "write"
    <3>1. row'[p] \in {None, disk[p]}
      BY <1>4, <2>2, <2>5, RightAnswer
    <3> QED
      BY <1>1, <3>1
  <2>6. CASE ~(c.by = "sync" /\ c.path = p /\ c.op # "write")
    <3>1. row'[p] \in {row[p], None}
      BY <1>4, <2>2, <2>4, <2>6, RightAnswer
    <3>2. Going(p) => Going(p)'
      BY <1>2, <2>1, <2>6 DEF Going
    <3> QED
      BY <1>1, <2>1, <2>3, <3>1, <3>2
  <2> QED
    BY <2>5, <2>6
<1> QED
  BY <1>3, <1>4, Answers DEF Lined

LEMMA ClearedByError ==
    ASSUME Lined, Cleared, AnswerError
    PROVE  Cleared'
<1> DEFINE c == Head(calls)
           rest == Tail(calls)
<1> SUFFICES ASSUME ~stuck', phase' \in {"rename", "delete", "invalidate"},
                    NEW p \in Paths, others'[p] = "none", disk'[p] # None
             PROVE  row'[p] \in {None, disk'[p]} \/ p \in stale' \/ Going(p)'
  BY DEF Cleared, Untouched
<1>1. /\ calls # <<>> /\ calls \in Seq(Call) /\ disk' = disk /\ stale' = stale
      /\ c \in Call /\ rest \in Seq(Call) /\ Delete(c.old, "sync") \in Call
      /\ calls' = rest \/ calls' = Append(rest, Delete(c.old, "sync"))
      /\ ~stuck /\ ~(c.by = "sync" /\ phase = "invalidate")
      /\ others' = IF c.by = "save" THEN [others EXCEPT ![c.path] = "edited"] ELSE others
      /\ IF c.op = "diff" THEN phase' = "idle" ELSE phase' = phase
      /\ row'[p] \in {row[p], None}
  <2>1. c \in Call
    BY Errors DEF Lined
  <2>2. Delete(c.old, "sync") \in Call
    BY <2>1, CallTypes DEF Call
  <2>3. ~stuck /\ ~(c.by = "sync" /\ phase = "invalidate")
    BY Errors DEF Lined
  <2> QED
    BY <2>1, <2>2, <2>3, Errors DEF Lined, TypeOK
<1>2. Range(calls) = {c} \cup Range(rest) /\ Range(rest) \subseteq Range(calls')
  BY <1>1, Taken
<1> HIDE DEF c, rest
<1>3. others[p] = "none" /\ phase' = phase
  <2>1. others \in [Paths -> {"none", "saved", "edited"}]
    BY DEF Lined, TypeOK
  <2> QED
    BY <1>1, <2>1
<1>4. row[p] \in {None, disk[p]} \/ p \in stale \/ Going(p)
  BY <1>1, <1>3 DEF Cleared, Untouched
<1>5. Going(p) => Going(p)'
  BY <1>1, <1>2, <1>3 DEF Going
<1> QED
  BY <1>1, <1>4, <1>5

LEMMA ClearedByWork ==
    ASSUME Lined, Cleared, RenameFile \/ DeleteRow \/ InvalidateRow \/ IndexOne
    PROVE  Cleared'
<1> SUFFICES ASSUME ~stuck', phase' \in {"rename", "delete", "invalidate"},
                    NEW p \in Paths, others'[p] = "none", disk'[p] # None
             PROVE  row'[p] \in {None, disk'[p]} \/ p \in stale' \/ Going(p)'
  BY DEF Cleared, Untouched
<1>1. PICK c \in Call : Sending(c)
  BY Sends DEF Lined
<1>2. /\ calls' = Append(calls, c) /\ c.by = "sync" /\ calls \in Seq(Call)
      /\ UNCHANGED <<row, disk, others, phase, stuck>>
      /\ p \in stale => p \in stale' \/ (phase = "invalidate" /\ c.op = "delete" /\ c.path = p)
  BY <1>1 DEF Sending, Lined, TypeOK
<1>3. Range(calls') = Range(calls) \cup {c}
  BY <1>2, Queue
<1>4. row[p] \in {None, disk[p]} \/ p \in stale \/ Going(p)
  BY <1>2 DEF Cleared, Untouched
<1> QED
  BY <1>2, <1>3, <1>4 DEF Going

LEMMA ClearedStep == Lined /\ Right /\ Cleared /\ [Next]_vars => Cleared'
<1> SUFFICES ASSUME Lined, Right, Cleared, [Next]_vars PROVE Cleared'
  OBVIOUS
<1>1. CASE UNCHANGED vars
  BY <1>1 DEF vars, storeVars, fileVars, syncVars, Cleared, Untouched, Going
<1>2. CASE \/ Defer \/ \E s \in saves : SendSave(s)
           \/ \E q \in Paths : Edit(q) \/ \E c \in Contents : Save(q, c)
  <2> SUFFICES ASSUME ~stuck', phase' \in {"rename", "delete", "invalidate"},
                      NEW p \in Paths, Untouched(p)', disk'[p] # None
               PROVE  row'[p] \in {None, disk'[p]} \/ p \in stale' \/ Going(p)'
    BY DEF Cleared
  <2>1. /\ Untouched(p) /\ disk'[p] = disk[p] /\ UNCHANGED <<row, syncVars>>
        /\ Range(calls) \subseteq Range(calls')
    BY <1>2, Aside DEF Lined
  <2>2. UNCHANGED <<stuck, phase, stale>>
    BY <2>1 DEF syncVars
  <2>3. row[p] \in {None, disk[p]} \/ p \in stale \/ Going(p)
    BY <2>1, <2>2 DEF Cleared
  <2> QED
    BY <2>1, <2>2, <2>3 DEF Going
<1>3. CASE \E forced \in BOOLEAN : StartSync(forced)
  BY <1>3 DEF StartSync, Cleared
<1>4. CASE Answer \/ AnswerError
  BY <1>4, ClearedByAnswer, ClearedByError
<1>5. CASE RenamesDone \/ DeletesDone \/ Publish \/ FallBack \/ Done \/ Stop
  <2>1. /\ UNCHANGED <<row, disk, others, stuck>> /\ \A d \in Range(calls) : d.by # "sync"
        /\ \/ phase' \in {"idle", "upsert"}
           \/ stale' = stale /\ phase \in {"rename", "delete"}
    BY <1>5, Phased DEF Lined
  <2>2. CASE phase' \in {"idle", "upsert"}
    BY <2>2 DEF Cleared
  <2>3. CASE stale' = stale /\ phase \in {"rename", "delete"}
    BY <2>1, <2>3 DEF Cleared, Going, Untouched
  <2> QED
    BY <2>1, <2>2, <2>3
<1>6. CASE RenameFile \/ DeleteRow \/ InvalidateRow \/ IndexOne
  BY <1>6, ClearedByWork
<1> QED
  BY <1>1, <1>2, <1>3, <1>4, <1>5, <1>6 DEF Next, Sync

\* What a step that publishes the pause has to show.
LEMMA PublishedClean ==
    ASSUME Lined, Cleared, [Next]_vars, phase = "invalidate", outcome' = "paused", phase' = "idle",
           NEW p \in Paths, others[p] = "none", disk[p] # None
    PROVE  row[p] \in {None, disk[p]}
<1>1. CASE UNCHANGED vars \/ Defer \/ \E s \in saves : SendSave(s)
  BY <1>1 DEF vars, syncVars, Defer, SendSave
<1>2. CASE \E q \in Paths : Edit(q) \/ \E c \in Contents : Save(q, c)
  BY <1>2 DEF Edit, Save, syncVars
<1>3. CASE \E forced \in BOOLEAN : StartSync(forced)
  BY <1>3 DEF StartSync
<1>4. CASE Answer
  <2>1. UNCHANGED syncVars \/ (DiffAnswered /\ Head(calls).op = "diff")
    BY <1>4, Answers DEF Lined
  <2>2. phase' = phase \/ outcome' = "complete" \/ phase' = "rename"
    BY <2>1 DEF syncVars, DiffAnswered
  <2> QED
    BY <2>2
<1>5. CASE AnswerError
  <2>1. phase' = phase \/ outcome' = "failed"
    BY <1>5, Errors DEF Lined
  <2> QED
    BY <2>1
<1>6. CASE RenamesDone \/ DeletesDone \/ Publish \/ FallBack \/ Done \/ Stop
  <2>1. /\ stale = {} /\ ~stuck /\ \A d \in Range(calls) : d.by # "sync"
    BY <1>6, Phased DEF Lined
  <2> QED
    BY <2>1 DEF Cleared, Going, Untouched
<1>7. CASE RenameFile \/ DeleteRow \/ InvalidateRow \/ IndexOne
  BY <1>7, Sends DEF Sending, Lined
<1> QED
  BY <1>1, <1>2, <1>3, <1>4, <1>5, <1>6, <1>7 DEF Next, Sync

\* When the decision to pause becomes visible, no file that nobody else touched has a
\* row of a text that it no longer has.
THEOREM PauseIsClean == Spec => PausePublishedClean
<1> DEFINE IInv == Lined /\ Right /\ Cleared
<1>1. Init => IInv
  <2>1. Init => Cleared
    BY DEF Init, Cleared
  <2> QED
    BY <2>1, LinedInit, RightInit
<1>2. IInv /\ [Next]_vars => IInv'
  BY LinedStep, RightStep, ClearedStep
<1>3. IInv /\ [Next]_vars =>
        [phase = "invalidate" /\ outcome' = "paused" /\ phase' = "idle" =>
            \A p \in Paths : others[p] = "none" /\ disk[p] # None => row[p] \in {None, disk[p]}]_vars
  BY PublishedClean
<1> HIDE DEF IInv
<1> QED
  BY <1>1, <1>2, <1>3, PTL DEF Spec, PausePublishedClean

=============================================================================
