---------------------- MODULE ImportPublication_proofs ----------------------
(***************************************************************************)
(* Proofs about ImportPublication for any number of imports, edits, crashes *)
(* and failing calls: the type invariant, that nobody else's file and no    *)
(* published file loses the name, and that no partial file keeps it.       *)
(***************************************************************************)
EXTENDS ImportPublication, TLAPS

USE ImportPublicationAssumption DEF ImportPublicationAssumption

-----------------------------------------------------------------------------
(* Types. *)

\* The sets the variables range over, one conjunct for each function.
Types ==
    /\ target \in Inodes \cup {NoInode}
    /\ inode \in [Inodes -> [owner : Owners, whole : BOOLEAN]]
    /\ used \subseteq Inodes
    /\ server \in {"up", "down", "recovering"}
    /\ step \in [Imports -> Steps]
    /\ aborted \in [Imports -> BOOLEAN]
    /\ tmp \in [Imports -> Inodes \cup {NoInode}]
    /\ handle \in [Imports -> Inodes \cup {NoInode}]
    /\ reservation \in [Imports -> Inodes \cup {NoInode}]
    /\ record \in [Imports -> Record]
    /\ published \subseteq Imports
    /\ edits \in 0..MaxEdits /\ crashes \in 0..MaxCrashes /\ faults \in 0..MaxFaults

\* They are the types of the specification.
LEMMA TypesAreTypeOK == Types <=> TypeOK
BY DEF Types, TypeOK

\* The records that are written are records.
LEMMA RecordTypes ==
    /\ NoRecord \in Record
    /\ Line("torn", NoInode) \in Record /\ Line("intent", NoInode) \in Record
    /\ Line("absent", NoInode) \in Record
    /\ \A i \in Inodes \cup {NoInode} :
         Line("reserved", i) \in Record /\ Line("committed", i) \in Record
    /\ \A r \in Record : r.id \in Inodes \cup {NoInode}
BY DEF NoRecord, Line, Record

\* A new inode is one of the inodes, and its file has an owner.
LEMMA MakeTypes ==
    ASSUME Types, NEW i \in Fresh, NEW who \in Owners, NEW whole \in BOOLEAN,
           Make(i, [owner |-> who, whole |-> whole])
    PROVE  /\ i \in Inodes
           /\ inode' \in [Inodes -> [owner : Owners, whole : BOOLEAN]]
           /\ used' \subseteq Inodes
BY DEF Types, Fresh, Make

\* Nor does a completed file change its owner.
LEMMA CompleteTypes ==
    ASSUME Types, NEW i
    PROVE  [inode EXCEPT ![i].whole = TRUE] \in [Inodes -> [owner : Owners, whole : BOOLEAN]]
<1> DEFINE next == [inode EXCEPT ![i].whole = TRUE]
<1>1. ASSUME NEW j \in Inodes PROVE next[j] \in [owner : Owners, whole : BOOLEAN]
  <2>1. inode[j] \in [owner : Owners, whole : BOOLEAN]
    BY DEF Types
  <2> QED
    BY <2>1 DEF Types
<1>2. next = [j \in Inodes |-> next[j]]
  BY DEF Types
<1> QED
  BY <1>1, <1>2

\* What a crash leaves in the records.
LEMMA CrashRecords ==
    ASSUME Types, Crash
    PROVE  /\ record' \in [Imports -> Record]
           /\ reservation' \in [Imports -> Inodes \cup {NoInode}]
<1>1. PICK through \in BOOLEAN :
         record' = [p \in Imports |->
            CASE step[p] = "announcing" /\ through -> Line("torn", NoInode)
              [] step[p] = "recording" /\ through -> Line("reserved", reservation[p])
              [] step[p] = "committing" /\ through -> Line("committed", reservation[p])
              [] OTHER -> record[p]]
  BY DEF Crash
<1>2. ASSUME NEW p \in Imports PROVE record'[p] \in Record
  BY <1>1, <1>2, RecordTypes DEF Types
<1>3. record' \in [Imports -> Record]
  BY <1>1, <1>2
<1>4. reservation' = [p \in Imports |-> record'[p].id]
  BY DEF Crash
<1> QED
  BY <1>2, <1>3, <1>4, RecordTypes

\* The first state has them.
LEMMA TypesInit == Init => Types
BY RecordTypes DEF Init, Types, Partial, Owners, Steps

\* Every step keeps them.
LEMMA TypesStep == Types /\ [Next]_vars => Types'
<1> SUFFICES ASSUME Types, [Next]_vars PROVE Types'
  OBVIOUS
<1> USE DEF Types, fileVars, ownVars, otherVars, At, Goto, Fails, Write, DropRecord, Fault, Steps
<1>1. ASSUME NEW p \in Imports, Begin(p) PROVE Types'
  <2>1. p \in Owners /\ FALSE \in BOOLEAN
    BY DEF Owners
  <2>2. PICK i \in Fresh : Make(i, Partial(p)) /\ tmp' = [tmp EXCEPT ![p] = i]
    BY <1>1 DEF Begin
  <2> QED
    BY <1>1, <2>1, <2>2, MakeTypes DEF Begin, Partial
<1>2. ASSUME NEW p \in Imports, Abort(p) PROVE Types'
  BY <1>2 DEF Abort
<1>3. ASSUME NEW p \in Imports, Copy(p) PROVE Types'
  <2>1. inode' \in [Inodes -> [owner : Owners, whole : BOOLEAN]]
    BY <1>3, CompleteTypes DEF Copy
  <2>2. /\ step' \in [Imports -> Steps] /\ tmp' \in [Imports -> Inodes \cup {NoInode}]
        /\ faults' \in 0..MaxFaults
    BY <1>3 DEF Copy
  <2> QED
    BY <1>3, <2>1, <2>2 DEF Copy
<1>4. ASSUME NEW p \in Imports, Link(p) PROVE Types'
  BY <1>4 DEF Link
<1>5. ASSUME NEW p \in Imports, Finish(p) PROVE Types'
  BY <1>5 DEF Finish
<1>6. ASSUME NEW p \in Imports, Announce(p) PROVE Types'
  BY <1>6, RecordTypes DEF Announce
<1>7. ASSUME NEW p \in Imports, Reserve(p) PROVE Types'
  <2>1. CASE target = NoInode
    <3>1. p \in Owners
      BY DEF Owners
    <3>2. PICK i \in Fresh : Make(i, Partial(p)) /\ target' = i
                              /\ handle' = [handle EXCEPT ![p] = i]
      BY <1>7, <2>1 DEF Reserve
    <3> QED
      BY <1>7, <2>1, <3>1, <3>2, MakeTypes DEF Reserve, Partial
  <2>2. CASE target # NoInode
    <3>1. record' \in [Imports -> Record] /\ faults' \in 0..MaxFaults
      BY <1>7, <2>2, RecordTypes DEF Reserve
    <3>2. step' \in [Imports -> Steps] /\ tmp' \in [Imports -> Inodes \cup {NoInode}]
      BY <1>7, <2>2 DEF Reserve
    <3> QED
      BY <1>7, <2>2, <3>1, <3>2 DEF Reserve
  <2> QED
    BY <2>1, <2>2
<1>8. ASSUME NEW p \in Imports, Identify(p) PROVE Types'
  <2>1. /\ step' \in [Imports -> Steps] /\ tmp' \in [Imports -> Inodes \cup {NoInode}]
        /\ handle' \in [Imports -> Inodes \cup {NoInode}] /\ faults' \in 0..MaxFaults
    BY <1>8 DEF Identify
  <2>2. reservation' \in [Imports -> Inodes \cup {NoInode}]
    BY <1>8 DEF Identify
  <2>3. record' = record \/ record' = [record EXCEPT ![p] = NoRecord]
    BY <1>8 DEF Identify
  <2>4. record' \in [Imports -> Record]
    BY <2>3, RecordTypes
  <2> QED
    BY <1>8, <2>1, <2>2, <2>4 DEF Identify
<1>9. ASSUME NEW p \in Imports, RecordReservation(p) PROVE Types'
  <2>1. /\ step' \in [Imports -> Steps] /\ handle' \in [Imports -> Inodes \cup {NoInode}]
        /\ faults' \in 0..MaxFaults
    BY <1>9 DEF RecordReservation, CleansUp
  <2>2. record' \in [Imports -> Record]
    BY <1>9, RecordTypes DEF RecordReservation
  <2> QED
    BY <1>9, <2>1, <2>2 DEF RecordReservation
<1>10. ASSUME NEW p \in Imports, Stream(p) PROVE Types'
  <2>1. inode' \in [Inodes -> [owner : Owners, whole : BOOLEAN]]
    BY <1>10, CompleteTypes DEF Stream
  <2>2. /\ step' \in [Imports -> Steps] /\ handle' \in [Imports -> Inodes \cup {NoInode}]
        /\ faults' \in 0..MaxFaults
    BY <1>10 DEF Stream
  <2> QED
    BY <1>10, <2>1, <2>2 DEF Stream
<1>11. ASSUME NEW p \in Imports, Check(p) PROVE Types'
  BY <1>11 DEF Check
<1>12. ASSUME NEW p \in Imports, Commit(p) PROVE Types'
  BY <1>12, RecordTypes DEF Commit
<1>13. ASSUME NEW p \in Imports, RecordRemoved(p) PROVE Types'
  BY <1>13, RecordTypes DEF RecordRemoved
<1>14. ASSUME NEW p \in Imports, LookAtTarget(p) PROVE Types'
  <2>1. /\ step' \in [Imports -> Steps] /\ tmp' \in [Imports -> Inodes \cup {NoInode}]
        /\ faults' \in 0..MaxFaults
    BY <1>14 DEF LookAtTarget
  <2>2. record' \in [Imports -> Record]
    BY <1>14, RecordTypes DEF LookAtTarget
  <2> QED
    BY <1>14, <2>1, <2>2 DEF LookAtTarget
<1>15. ASSUME NEW p \in Imports, RemoveTarget(p) PROVE Types'
  <2>1. /\ step' \in [Imports -> Steps] /\ faults' \in 0..MaxFaults
        /\ target' \in Inodes \cup {NoInode}
    BY <1>15 DEF RemoveTarget
  <2>2. record' \in [Imports -> Record] /\ tmp' \in [Imports -> Inodes \cup {NoInode}]
    BY <1>15, RecordTypes DEF RemoveTarget
  <2> QED
    BY <1>15, <2>1, <2>2 DEF RemoveTarget
<1>16. ASSUME NEW p \in Imports, Recover(p) PROVE Types'
  <2>1. /\ step' \in [Imports -> Steps] /\ faults' \in 0..MaxFaults
        /\ target' \in Inodes \cup {NoInode}
    BY <1>16 DEF Recover
  <2>2. record' \in [Imports -> Record] /\ tmp' \in [Imports -> Inodes \cup {NoInode}]
    BY <1>16, RecordTypes DEF Recover
  <2> QED
    BY <1>16, <2>1, <2>2 DEF Recover
<1>17. ASSUME Crash PROVE Types'
  BY <1>17, CrashRecords DEF Crash
<1>18. ASSUME Restart PROVE Types'
  BY <1>18 DEF Restart
<1>19. ASSUME Edit PROVE Types'
  <2>1. User \in Owners
    BY DEF Owners
  <2>2. ASSUME NEW i \in Fresh, Make(i, Whole(User)), target' = i PROVE Types'
    <3>1. /\ i \in Inodes
          /\ inode' \in [Inodes -> [owner : Owners, whole : BOOLEAN]]
          /\ used' \subseteq Inodes
      BY <2>1, <2>2, MakeTypes DEF Whole
    <3> QED
      BY <1>19, <2>2, <3>1 DEF Edit
  <2>3. CASE target' = NoInode /\ UNCHANGED <<inode, used>>
    BY <1>19, <2>3 DEF Edit
  <2> QED
    BY <1>19, <2>2, <2>3 DEF Edit
<1>20. CASE UNCHANGED vars
  BY <1>20 DEF vars
<1> QED
  BY <1>1, <1>2, <1>3, <1>4, <1>5, <1>6, <1>7, <1>8, <1>9, <1>10, <1>11, <1>12,
     <1>13, <1>14, <1>15, <1>16, <1>17, <1>18, <1>19, <1>20 DEF Next

\* The variables of the publications keep their types, for any number of imports
\* and inodes, whether or not inode numbers are given out again.
THEOREM TypeCorrect == Spec => []TypeOK
BY TypesInit, TypesStep, TypesAreTypeOK, PTL DEF Spec

-----------------------------------------------------------------------------
(* What a publication knows, and what it has of the name. *)

\* A file that p made.  Its inode was given out, and is not given out again.
Made(p, i) == i \in used /\ inode[i].owner = p

\* Every inode that p remembers is of a file of its own.
Owned(p) ==
    /\ tmp[p] # NoInode => Made(p, tmp[p])
    /\ handle[p] # NoInode => Made(p, handle[p])
    /\ reservation[p] # NoInode => Made(p, reservation[p])

\* The record names the reservation that p knows of, and only a whole one is
\* committed.
Recorded(p) ==
    /\ record[p].state \in {"absent", "torn", "intent"} => record[p].id = NoInode
    /\ record[p].state \in {"reserved", "committed"} =>
         record[p].id # NoInode /\ record[p].id = reservation[p]
    /\ record[p].state = "committed" => inode[reservation[p]].whole

\* What p has when it gets to a step.
Staged(p) ==
    /\ step[p] \in Running => server = "up"
    /\ step[p] \in {"idle", "copying", "linking", "announcing"} =>
         record[p] = NoRecord /\ reservation[p] = NoInode
    /\ step[p] \in {"opening", "identifying"} =>
         record[p].state = "intent" /\ reservation[p] = NoInode
    /\ step[p] = "identifying" => handle[p] # NoInode
    /\ step[p] = "recording" => record[p].state = "intent" /\ reservation[p] # NoInode
    /\ step[p] \in {"recording", "streaming"} => handle[p] = reservation[p]
    /\ step[p] \in {"streaming", "checking", "committing"} => record[p].state = "reserved"
    /\ step[p] \in {"checking", "committing"} => inode[reservation[p]].whole
    /\ step[p] = "committed" => record[p].state = "committed"
    /\ step[p] \in {"cleaning", "removing"} =>
         /\ record[p].state \in {"intent", "reserved", "committed"}
         /\ reservation[p] # NoInode
    /\ step[p] \in {"published", "done"} =>
         /\ record[p].state \in {"absent", "committed"}
         /\ reservation[p] # NoInode => inode[reservation[p]].whole
    /\ step[p] = "dead" => reservation[p] = record[p].id

\* An import that is over without a record has given its partial file up.
GivenUp(p) ==
    step[p] \in {"failed", "recovered"} /\ record[p] = NoRecord /\ reservation[p] # NoInode
      => target # reservation[p] \/ inode[reservation[p]].whole

\* What is published is not pending any more, and no record asks for its removal.
Announced(p) ==
    p \in published => /\ step[p] \in {"committed", "published", "done", "dead", "recovered"}
                       /\ record[p].state \in {"absent", "committed"}

Inv == \A p \in Imports : Owned(p) /\ Recorded(p) /\ Staged(p) /\ GivenUp(p) /\ Announced(p)

\* Between the last look and the removal nobody else has taken the name.
Secured == \A p \in Imports : step[p] = "removing" => target = reservation[p]

PInv(p) == Owned(p) /\ Recorded(p) /\ Staged(p) /\ GivenUp(p) /\ Announced(p)

\* Files that were given out keep their owner, and stay whole.
FilesKept ==
    /\ used \subseteq used'
    /\ \A i \in used : /\ inode'[i].owner = inode[i].owner
                       /\ inode[i].whole => inode'[i].whole

\* A step of somebody else.
Unmoved(q) ==
    /\ step'[q] = step[q] /\ tmp'[q] = tmp[q] /\ handle'[q] = handle[q]
    /\ reservation'[q] = reservation[q] /\ record'[q] = record[q]
    /\ q \in published' <=> q \in published

\* It leaves q as it is, if it does not give the name back to a lost reservation.
LEMMA Bystander ==
    ASSUME Types, NEW q \in Imports, PInv(q), Unmoved(q), FilesKept,
           server' = server \/ step[q] \notin Running,
           reservation[q] # NoInode /\ target' = reservation[q] => target = reservation[q]
    PROVE  PInv(q)'
<1>1. Owned(q)'
  BY DEF PInv, Owned, Made, Unmoved, FilesKept
<1>2. reservation[q] # NoInode => reservation[q] \in used
  BY DEF PInv, Owned, Made
<1>3. Recorded(q)'
  BY <1>2 DEF PInv, Recorded, Unmoved, FilesKept
<1>4. Staged(q)'
  BY <1>2 DEF PInv, Staged, Recorded, Unmoved, FilesKept
<1>5. GivenUp(q)'
  BY <1>2 DEF PInv, GivenUp, Unmoved, FilesKept
<1>6. Announced(q)'
  BY DEF PInv, Announced, Unmoved
<1> QED
  BY <1>1, <1>3, <1>4, <1>5, <1>6 DEF PInv

\* A new file takes no inode that was given out before.
LEMMA MakeKeeps ==
    ASSUME Types, ~Reuse, NEW i \in Fresh, NEW who \in Owners, NEW whole \in BOOLEAN,
           Make(i, [owner |-> who, whole |-> whole])
    PROVE  /\ FilesKept
           /\ i \in Inodes /\ i \notin used
           /\ i \in used' /\ inode'[i].owner = who
BY DEF Types, Fresh, Make, FilesKept

\* Nor does a file that is completed.
LEMMA CompleteKeeps ==
    ASSUME Types, NEW i, inode' = [inode EXCEPT ![i].whole = TRUE], used' = used
    PROVE  FilesKept /\ (i \in Inodes => inode'[i].whole)
<1>1. \A j \in Inodes : inode[j] \in [owner : Owners, whole : BOOLEAN]
  BY DEF Types
<1>2. \A j \in Inodes : inode'[j] = IF j = i THEN [inode[j] EXCEPT !.whole = TRUE] ELSE inode[j]
  BY DEF Types
<1> QED
  BY <1>1, <1>2 DEF FilesKept, Types

\* The first publication has nothing yet.
LEMMA InvInit == Init => Inv
BY DEF Init, Inv, PInv, Owned, Recorded, Staged, GivenUp, Announced, NoRecord, Line, Running, Steps

\* A step of one publication: what it does to itself, and to the name.
LEMMA InvFromParts ==
    ASSUME Types, Inv, NEW p \in Imports, FilesKept, PInv(p)', server' = server,
           \A q \in Imports \ {p} : Unmoved(q),
           \A q \in Imports \ {p} : reservation[q] # NoInode /\ target' = reservation[q]
                                     => target = reservation[q]
    PROVE  Inv'
<1>1. ASSUME NEW q \in Imports PROVE PInv(q)'
  <2>1. CASE q = p
    BY <2>1
  <2>2. CASE q # p
    <3>1. PInv(q)
      BY DEF Inv, PInv
    <3> QED
      BY <2>2, <3>1, Bystander
  <2> QED
    BY <2>1, <2>2
<1> QED
  BY <1>1 DEF Inv, PInv

\* Every step keeps the invariant, when no inode number is given out twice.
LEMMA InvStep ==
    ASSUME ~Reuse, Types, Inv, [Next]_vars PROVE Inv'
<1> USE DEF fileVars, ownVars, otherVars, At, Goto, Fails, Write, DropRecord
<1>0. \A q \in Imports : PInv(q)
  BY DEF Inv, PInv
<1>1. ASSUME NEW p \in Imports, Begin(p) PROVE Inv'
  <2>1. PICK i \in Fresh : Make(i, Partial(p)) /\ tmp' = [tmp EXCEPT ![p] = i]
    BY <1>1 DEF Begin
  <2>2. FilesKept /\ i \in Inodes /\ i \in used' /\ inode'[i].owner = p
    BY <2>1, MakeKeeps DEF Partial, Owners
  <2>3. PInv(p)'
    BY <1>0, <1>1, <2>1, <2>2 DEF Begin, Types, PInv, Owned, Made, Recorded, Staged,
       GivenUp, Announced, Running, Steps, FilesKept, NoRecord
  <2>4. \A q \in Imports \ {p} : Unmoved(q)
    BY <1>1, <2>1 DEF Begin, Unmoved, Types
  <2> QED
    BY <1>1, <2>1, <2>2, <2>3, <2>4, InvFromParts DEF Begin
<1>2. ASSUME NEW p \in Imports, Abort(p) PROVE Inv'
  <2>1. FilesKept
    BY <1>2 DEF Abort, FilesKept
  <2>2. PInv(p)'
    BY <1>0, <1>2 DEF Abort, Types, Record, PInv, Owned, Made, Recorded, Staged, GivenUp,
       Announced, Running, Steps
  <2>3. \A q \in Imports \ {p} : Unmoved(q)
    BY <1>2 DEF Abort, Unmoved, Types
  <2> QED
    BY <1>2, <2>1, <2>2, <2>3, InvFromParts DEF Abort
<1>3. ASSUME NEW p \in Imports, Copy(p) PROVE Inv'
  <2>1. FilesKept
    BY <1>3, CompleteKeeps DEF Copy, FilesKept
  <2>2. inode' # inode /\ tmp[p] \in Inodes => inode'[tmp[p]].whole
    BY <1>3, CompleteKeeps DEF Copy
  <2>3. PInv(p)'
    BY <1>0, <1>3, <2>1, <2>2 DEF Copy, Types, PInv, Owned, Made, Recorded, Staged,
       GivenUp, Announced, Running, Steps, FilesKept, NoRecord
  <2>4. \A q \in Imports \ {p} : Unmoved(q)
    BY <1>3 DEF Copy, Unmoved, Types
  <2> QED
    BY <1>3, <2>1, <2>3, <2>4, InvFromParts DEF Copy
<1>4. ASSUME NEW p \in Imports, Link(p) PROVE Inv'
  <2>1. FilesKept
    BY <1>4 DEF Link, FilesKept
  <2> DEFINE Same == UNCHANGED <<inode, used, handle, reservation, record, server>>
  <2>a. /\ Same /\ step[p] = "linking" /\ server = "up"
        /\ record[p] = NoRecord /\ reservation[p] = NoInode /\ p \notin published
    BY <1>0, <1>4 DEF Link, PInv, Staged, Announced
  <2>b. /\ tmp'[p] \in {tmp[p], NoInode}
        /\ \/ step'[p] = "published" /\ published' = published \cup {p}
           \/ step'[p] \in {"failed", "announcing"} /\ published' = published
    BY <1>4 DEF Link, Types
  <2>2. PInv(p)'
    <3>1. Owned(p)'
      BY <1>0, <2>a, <2>b DEF PInv, Owned, Made
    <3>2. Recorded(p)' /\ GivenUp(p)'
      BY <1>0, <2>a, <2>b DEF PInv, Recorded, GivenUp
    <3>3. Staged(p)'
      BY <2>a, <2>b DEF Staged, Running, Steps, NoRecord, Line
    <3>4. Announced(p)'
      BY <1>0, <2>a, <2>b DEF PInv, Announced, NoRecord, Line
    <3> QED
      BY <3>1, <3>2, <3>3, <3>4 DEF PInv
  <2>3. \A q \in Imports \ {p} : Unmoved(q)
    BY <1>4 DEF Link, Unmoved, Types
  <2>4. ASSUME NEW q \in Imports \ {p}, reservation[q] # NoInode, target' = reservation[q]
        PROVE  target = reservation[q]
    BY <1>0, <1>4, <2>4 DEF Link, PInv, Owned, Made
  <2> QED
    BY <1>4, <2>1, <2>2, <2>3, <2>4, InvFromParts DEF Link
<1>5. ASSUME NEW p \in Imports, Finish(p) PROVE Inv'
  <2>1. FilesKept
    BY <1>5 DEF Finish, FilesKept
  <2>2. PInv(p)'
    BY <1>0, <1>5 DEF Finish, Types, Record, PInv, Owned, Made, Recorded, Staged, GivenUp,
       Announced, Running, Steps
  <2>3. \A q \in Imports \ {p} : Unmoved(q)
    BY <1>5 DEF Finish, Unmoved, Types
  <2> QED
    BY <1>5, <2>1, <2>2, <2>3, InvFromParts DEF Finish
<1>6. ASSUME NEW p \in Imports, Announce(p) PROVE Inv'
  <2>1. FilesKept
    BY <1>6 DEF Announce, FilesKept
  <2>2. PInv(p)'
    BY <1>0, <1>6 DEF Announce, Types, Record, PInv, Owned, Made, Recorded, Staged,
       GivenUp, Announced, Running, Steps, Line, NoRecord
  <2>3. \A q \in Imports \ {p} : Unmoved(q)
    BY <1>6 DEF Announce, Unmoved, Types
  <2> QED
    BY <1>6, <2>1, <2>2, <2>3, InvFromParts DEF Announce
<1>7. ASSUME NEW p \in Imports, Reserve(p) PROVE Inv'
  <2>1. CASE target = NoInode
    <3>1. PICK i \in Fresh : Make(i, Partial(p)) /\ target' = i
                              /\ handle' = [handle EXCEPT ![p] = i]
      BY <1>7, <2>1 DEF Reserve
    <3>2. FilesKept /\ i \in Inodes /\ i \notin used /\ i \in used' /\ inode'[i].owner = p
      BY <3>1, MakeKeeps DEF Partial, Owners
    <3>3. PInv(p)'
      BY <1>0, <1>7, <2>1, <3>1, <3>2 DEF Reserve, Types, PInv, Owned, Made, Recorded,
         Staged, GivenUp, Announced, Running, Steps, FilesKept
    <3>4. \A q \in Imports \ {p} : Unmoved(q)
      BY <1>7, <2>1, <3>1 DEF Reserve, Unmoved, Types
    <3>5. \A q \in Imports : reservation[q] # NoInode => reservation[q] \in used
      BY <1>0 DEF PInv, Owned, Made
    <3> QED
      BY <1>7, <3>1, <3>2, <3>3, <3>4, <3>5, InvFromParts DEF Reserve
  <2>2. CASE target # NoInode
    <3>1. FilesKept
      BY <1>7, <2>2 DEF Reserve, FilesKept
    <3>2. PInv(p)'
      BY <1>0, <1>7, <2>2 DEF Reserve, Types, PInv, Owned, Made, Recorded, Staged,
         GivenUp, Announced, Running, Steps, NoRecord, Line
    <3>3. \A q \in Imports \ {p} : Unmoved(q)
      BY <1>7, <2>2 DEF Reserve, Unmoved, Types
    <3> QED
      BY <1>7, <2>2, <3>1, <3>2, <3>3, InvFromParts DEF Reserve
  <2> QED
    BY <2>1, <2>2
<1>8. ASSUME NEW p \in Imports, Identify(p) PROVE Inv'
  <2>1. FilesKept
    BY <1>8 DEF Identify, FilesKept
  <2>2. PInv(p)'
    BY <1>0, <1>8 DEF Identify, Types, Record, PInv, Owned, Made, Recorded, Staged,
       GivenUp, Announced, Running, Steps, NoRecord, Line
  <2>3. \A q \in Imports \ {p} : Unmoved(q)
    BY <1>8 DEF Identify, Unmoved, Types
  <2> QED
    BY <1>8, <2>1, <2>2, <2>3, InvFromParts DEF Identify
<1>9. ASSUME NEW p \in Imports, RecordReservation(p) PROVE Inv'
  <2>1. FilesKept
    BY <1>9 DEF RecordReservation, FilesKept
  <2> DEFINE Same == UNCHANGED <<target, inode, used, tmp, reservation, published, server>>
  <2>a. /\ Same /\ step[p] = "recording" /\ server = "up"
        /\ record[p].state = "intent" /\ reservation[p] # NoInode /\ p \notin published
    BY <1>0, <1>9 DEF RecordReservation, PInv, Staged, Announced
  <2>b. /\ handle'[p] \in {handle[p], NoInode}
        /\ \/ step'[p] \in {"cleaning", "streaming"}
              /\ record'[p] = Line("reserved", reservation[p])
           \/ step'[p] = "cleaning" /\ record'[p] = record[p]
        /\ step'[p] = "streaming" => handle'[p] = handle[p]
    BY <1>9 DEF RecordReservation, Types, CleansUp
  <2>2. PInv(p)'
    <3>1. Owned(p)'
      BY <1>0, <2>a, <2>b DEF PInv, Owned, Made
    <3>2. Recorded(p)' /\ GivenUp(p)'
      BY <1>0, <2>a, <2>b DEF PInv, Recorded, GivenUp, Line
    <3>3. Staged(p)'
      BY <1>0, <2>a, <2>b DEF PInv, Staged, Running, Steps, Line
    <3>4. Announced(p)'
      BY <1>0, <2>a, <2>b DEF PInv, Announced, Line
    <3> QED
      BY <3>1, <3>2, <3>3, <3>4 DEF PInv
  <2>3. \A q \in Imports \ {p} : Unmoved(q)
    BY <1>9 DEF RecordReservation, Unmoved, Types, CleansUp
  <2> QED
    BY <1>9, <2>1, <2>2, <2>3, InvFromParts DEF RecordReservation
<1>10. ASSUME NEW p \in Imports, Stream(p) PROVE Inv'
  <2>1. FilesKept
    BY <1>10, CompleteKeeps DEF Stream, FilesKept
  <2>2. inode' # inode /\ handle[p] \in Inodes => inode'[handle[p]].whole
    BY <1>10, CompleteKeeps DEF Stream
  <2>3. PInv(p)'
    BY <1>0, <1>10, <2>1, <2>2 DEF Stream, Types, PInv, Owned, Made, Recorded, Staged,
       GivenUp, Announced, Running, Steps, FilesKept, NoRecord
  <2>4. \A q \in Imports \ {p} : Unmoved(q)
    BY <1>10 DEF Stream, Unmoved, Types
  <2> QED
    BY <1>10, <2>1, <2>3, <2>4, InvFromParts DEF Stream
<1>11. ASSUME NEW p \in Imports, Check(p) PROVE Inv'
  <2>1. FilesKept
    BY <1>11 DEF Check, FilesKept
  <2>2. PInv(p)'
    BY <1>0, <1>11 DEF Check, Types, Record, PInv, Owned, Made, Recorded, Staged, GivenUp,
       Announced, Running, Steps
  <2>3. \A q \in Imports \ {p} : Unmoved(q)
    BY <1>11 DEF Check, Unmoved, Types
  <2> QED
    BY <1>11, <2>1, <2>2, <2>3, InvFromParts DEF Check
<1>12. ASSUME NEW p \in Imports, Commit(p) PROVE Inv'
  <2>1. FilesKept
    BY <1>12 DEF Commit, FilesKept
  <2>2. PInv(p)'
    BY <1>0, <1>12 DEF Commit, Types, Record, PInv, Owned, Made, Recorded, Staged,
       GivenUp, Announced, Running, Steps, Line
  <2>3. \A q \in Imports \ {p} : Unmoved(q)
    BY <1>12 DEF Commit, Unmoved, Types
  <2> QED
    BY <1>12, <2>1, <2>2, <2>3, InvFromParts DEF Commit
<1>13. ASSUME NEW p \in Imports, RecordRemoved(p) PROVE Inv'
  <2>1. FilesKept
    BY <1>13 DEF RecordRemoved, FilesKept
  <2>2. PInv(p)'
    BY <1>0, <1>13 DEF RecordRemoved, Types, Record, PInv, Owned, Made, Recorded, Staged,
       GivenUp, Announced, Running, Steps, NoRecord, Line
  <2>3. \A q \in Imports \ {p} : Unmoved(q)
    BY <1>13 DEF RecordRemoved, Unmoved, Types
  <2> QED
    BY <1>13, <2>1, <2>2, <2>3, InvFromParts DEF RecordRemoved
<1>14. ASSUME NEW p \in Imports, LookAtTarget(p) PROVE Inv'
  <2>1. FilesKept
    BY <1>14 DEF LookAtTarget, FilesKept
  <2>2. PInv(p)'
    BY <1>0, <1>14 DEF LookAtTarget, Types, Record, PInv, Owned, Made, Recorded, Staged,
       GivenUp, Announced, Running, Steps, NoRecord, Line
  <2>3. \A q \in Imports \ {p} : Unmoved(q)
    BY <1>14 DEF LookAtTarget, Unmoved, Types
  <2> QED
    BY <1>14, <2>1, <2>2, <2>3, InvFromParts DEF LookAtTarget
<1>15. ASSUME NEW p \in Imports, RemoveTarget(p) PROVE Inv'
  <2>1. FilesKept
    BY <1>15 DEF RemoveTarget, FilesKept
  <2>2. PInv(p)'
    BY <1>0, <1>15 DEF RemoveTarget, Types, Record, PInv, Owned, Made, Recorded, Staged,
       GivenUp, Announced, Running, Steps, NoRecord, Line
  <2>3. \A q \in Imports \ {p} : Unmoved(q)
    BY <1>15 DEF RemoveTarget, Unmoved, Types
  <2> QED
    BY <1>15, <2>1, <2>2, <2>3, InvFromParts DEF RemoveTarget
<1>16. ASSUME NEW p \in Imports, Recover(p) PROVE Inv'
  <2>1. FilesKept
    BY <1>16 DEF Recover, FilesKept
  <2>2. PInv(p)'
    BY <1>0, <1>16 DEF Recover, Types, Record, PInv, Owned, Made, Recorded, Staged,
       GivenUp, Announced, Running, Steps, NoRecord, Line
  <2>3. \A q \in Imports \ {p} : Unmoved(q)
    BY <1>16 DEF Recover, Unmoved, Types
  <2> QED
    BY <1>16, <2>1, <2>2, <2>3, InvFromParts DEF Recover
<1>17. ASSUME Crash PROVE Inv'
  <2>1. FilesKept
    BY <1>17 DEF Crash, FilesKept
  <2>2. ASSUME NEW p \in Imports PROVE PInv(p)'
    <3> DEFINE Lost == \/ step[p] \in Running \cup {"failed", "recovered"}
                       \/ step[p] = "done" /\ record[p] # NoRecord
    <3>1. /\ UNCHANGED <<target, inode, used, tmp, published>>
          /\ handle'[p] = NoInode /\ reservation'[p] = record'[p].id
          /\ step'[p] = IF Lost THEN "dead" ELSE step[p]
      BY <1>17 DEF Crash, Types
    <3>2. \/ record'[p] = record[p]
          \/ step[p] = "announcing" /\ record'[p] = Line("torn", NoInode)
          \/ step[p] = "recording" /\ record'[p] = Line("reserved", reservation[p])
          \/ step[p] = "committing" /\ record'[p] = Line("committed", reservation[p])
      BY <1>17 DEF Crash, Types
    <3>3. step[p] \in Steps /\ PInv(p) /\ record[p] \in Record
      BY <1>0 DEF Types
    <3>4. record'[p].id \in {NoInode, reservation[p]}
      BY <3>2, <3>3 DEF Line, PInv, Recorded, Record
    <3>5. Recorded(p)'
      BY <3>1, <3>2, <3>3 DEF Line, PInv, Recorded, Staged
    <3>6. Owned(p)'
      BY <3>1, <3>3, <3>4 DEF PInv, Owned, Made
    <3>7. step'[p] \in {"idle", "published", "done", "dead"}
      BY <3>1, <3>3 DEF Running, Steps
    <3>8. Staged(p)'
      <4>1. CASE step[p] \in {"idle", "published", "done"}
        BY <3>1, <3>2, <3>3, <3>7, <4>1 DEF PInv, Staged, Running, Recorded, NoRecord,
           Line
      <4>2. CASE step'[p] = "dead"
        BY <3>1, <4>2 DEF Staged, Running
      <4> QED
        BY <3>1, <3>3, <3>7, <4>1, <4>2
    <3>9. GivenUp(p)' /\ Announced(p)'
      BY <3>1, <3>2, <3>3, <3>7 DEF PInv, GivenUp, Announced, Running
    <3> QED
      BY <3>5, <3>6, <3>8, <3>9 DEF PInv
  <2> QED
    BY <2>2 DEF Inv, PInv
<1>18. ASSUME Restart PROVE Inv'
  BY <1>18 DEF Restart, Inv, Owned, Made, Recorded, Staged, GivenUp, Announced, Running
<1>19. ASSUME Edit PROVE Inv'
  <2>1. \A q \in Imports : Unmoved(q)
    BY <1>19 DEF Edit, Unmoved
  <2>2. server' = server
    BY <1>19 DEF Edit
  <2>3. \A q \in Imports : reservation[q] # NoInode => reservation[q] \in used
    BY <1>0 DEF PInv, Owned, Made
  <2>4. FilesKept /\ (target' = NoInode \/ target' \notin used)
    <3>1. ASSUME NEW i \in Fresh, Make(i, Whole(User)), target' = i
          PROVE  FilesKept /\ target' \notin used
      BY <3>1, MakeKeeps DEF Whole, Owners
    <3>2. CASE target' = NoInode /\ UNCHANGED <<inode, used>>
      BY <3>2 DEF FilesKept
    <3> QED
      BY <1>19, <3>1, <3>2 DEF Edit
  <2>5. ASSUME NEW q \in Imports PROVE PInv(q)'
    BY <1>0, <2>1, <2>2, <2>3, <2>4, Bystander
  <2> QED
    BY <2>5 DEF Inv, PInv
<1>20. CASE UNCHANGED vars
  BY <1>20 DEF vars, Inv, Owned, Made, Recorded, Staged, GivenUp, Announced
<1> QED
  BY <1>1, <1>2, <1>3, <1>4, <1>5, <1>6, <1>7, <1>8, <1>9, <1>10, <1>11, <1>12,
     <1>13, <1>14, <1>15, <1>16, <1>17, <1>18, <1>19, <1>20 DEF Next

\* Who takes the name away from a file that has it: the user, or an import that
\* gives up its own reservation.
LEMMA WhoMovesTarget ==
    ASSUME Types, Inv, Secured, [Next]_vars, target # NoInode, target' # target
    PROVE  \/ Edit
           \/ \E p \in Imports :
                /\ target = reservation[p] /\ inode[target].owner = p
                /\ \/ RemoveTarget(p)
                   \/ Recover(p) /\ record[p].state = "reserved"
<1> USE DEF fileVars, ownVars, otherVars, At
<1>1. ASSUME NEW p \in Imports, RemoveTarget(p)
      PROVE  target = reservation[p] /\ inode[target].owner = p
  BY <1>1 DEF RemoveTarget, Secured, Inv, Owned, Made
<1>2. ASSUME NEW p \in Imports, Recover(p)
      PROVE  /\ target = reservation[p] /\ inode[target].owner = p
             /\ record[p].state = "reserved"
  BY <1>2 DEF Recover, Inv, Recorded, Owned, Made
<1>3. \/ Edit
      \/ \E p \in Imports : RemoveTarget(p) \/ Recover(p)
  BY DEF Next, vars, Begin, Abort, Copy, Link, Finish, Announce, Reserve, Identify,
         RecordReservation, Stream, Check, Commit, RecordRemoved, LookAtTarget, Crash, Restart
<1> QED
  BY <1>1, <1>2, <1>3

\* Nobody has the name when the first import begins.
LEMMA SecuredInit == Init => Secured
BY DEF Init, Secured

\* While an import is about to remove its reservation nobody else takes the name,
\* if the user does not act in between.
LEMMA SecuredStep ==
    ASSUME ~Reuse, ~Overtaken, Types, Inv, Secured, [Next]_vars PROVE Secured'
<1> USE DEF fileVars, ownVars, otherVars, At, Goto, Fails
<1> SUFFICES ASSUME NEW p \in Imports, step'[p] = "removing"
             PROVE  target' = reservation'[p]
  BY DEF Secured
<1>1. CASE LookAtTarget(p)
  BY <1>1 DEF LookAtTarget, Types
<1>2. CASE step[p] = "removing"
  <2>1. /\ target = reservation[p] /\ target # NoInode /\ server = "up"
        /\ target \in Inodes /\ inode[target].owner = p
    BY <1>2 DEF Secured, Inv, Staged, Running, Steps, Owned, Made, Types
  <2>2. reservation'[p] = reservation[p]
    <3>1. ~Crash
      BY <1>2 DEF Crash, Running, Steps, Types
    <3>2. ASSUME NEW q \in Imports, Identify(q) PROVE reservation'[p] = reservation[p]
      BY <1>2, <3>2 DEF Identify, Types
    <3> QED
      BY <3>1, <3>2 DEF Next, vars, Begin, Abort, Copy, Link, Finish, Announce, Reserve,
         RecordReservation, Stream, Check, Commit, RecordRemoved, LookAtTarget,
         RemoveTarget, Recover, Restart, Edit
  <2>3. ~Edit
    BY <1>2 DEF Edit
  <2>4. ASSUME NEW q \in Imports, inode[target].owner = q, RemoveTarget(q) \/ Recover(q)
        PROVE  FALSE
    BY <1>2, <2>1, <2>4 DEF RemoveTarget, Recover, Types
  <2> QED
    BY <2>1, <2>2, <2>3, <2>4, WhoMovesTarget
<1>3. CASE step[p] # "removing" /\ ~LookAtTarget(p)
  <2>1. ASSUME NEW q \in Imports,
               \/ Begin(q) \/ Abort(q) \/ Copy(q) \/ Link(q) \/ Finish(q)
               \/ Announce(q) \/ Reserve(q) \/ Identify(q) \/ RecordReservation(q)
        PROVE  FALSE
    BY <1>3, <2>1 DEF Types, Begin, Abort, Copy, Link, Finish, Announce, Reserve,
       Identify,
       RecordReservation, CleansUp
  <2>2. ASSUME NEW q \in Imports,
               \/ Stream(q) \/ Check(q) \/ Commit(q) \/ RecordRemoved(q)
               \/ LookAtTarget(q) \/ RemoveTarget(q) \/ Recover(q)
        PROVE  FALSE
    BY <1>3, <2>2 DEF Types, Stream, Check, Commit, RecordRemoved, LookAtTarget,
       RemoveTarget,
       Recover
  <2>3. ~(Crash \/ Restart \/ Edit \/ UNCHANGED vars)
    BY <1>3 DEF Crash, Restart, Edit, vars, Types
  <2> QED
    BY <2>1, <2>2, <2>3 DEF Next
<1> QED
  BY <1>1, <1>2, <1>3

\* An import that is over shows no part of its bytes under the name, for any number
\* of imports, edits, crashes and failing calls, when the file system does not give
\* the number of a removed inode to another file.
THEOREM NoPartialStays == ~Reuse => (Spec => []NoPartialLeft)
<1> SUFFICES ASSUME ~Reuse PROVE Spec => []NoPartialLeft
  OBVIOUS
<1>1. Types /\ Inv => NoPartialLeft
  BY DEF Inv, Staged, GivenUp, NoPartialLeft
<1>2. Types /\ Inv /\ [Next]_vars => Inv'
  BY InvStep
<1> QED
  BY <1>1, <1>2, TypesInit, TypesStep, InvInit, PTL DEF Spec

\* No import, cancellation or recovery takes the name from a file of the user,
\* under the same condition and when the user does not act between a look at the
\* name and its removal.
THEOREM OthersStayKept == ~Reuse /\ ~Overtaken => (Spec => OthersKept)
<1> SUFFICES ASSUME ~Reuse, ~Overtaken PROVE Spec => OthersKept
  OBVIOUS
<1>1. Types /\ Inv /\ [Next]_vars => Inv'
  BY InvStep
<1>2. Types /\ Inv /\ Secured /\ [Next]_vars => Secured'
  BY SecuredStep
<1>3. Types /\ Inv /\ Secured /\ [Next]_vars =>
        [target # NoInode /\ inode[target].owner = User /\ edits' = edits
           => target' = target]_vars
  <2> SUFFICES ASSUME Types, Inv, Secured, [Next]_vars, target # NoInode,
                      inode[target].owner = User, edits' = edits, target' # target
               PROVE  FALSE
    OBVIOUS
  <2>1. ~Edit
    BY DEF Edit, Types
  <2> QED
    BY <2>1, WhoMovesTarget
<1> QED
  BY <1>1, <1>2, <1>3, TypesInit, TypesStep, InvInit, SecuredInit, PTL DEF Spec,
     OthersKept

\* Nor from a file whose import was published.
THEOREM PublishedStayKept == ~Reuse /\ ~Overtaken => (Spec => PublishedKept)
<1> SUFFICES ASSUME ~Reuse, ~Overtaken PROVE Spec => PublishedKept
  OBVIOUS
<1>1. Types /\ Inv /\ [Next]_vars => Inv'
  BY InvStep
<1>2. Types /\ Inv /\ Secured /\ [Next]_vars => Secured'
  BY SecuredStep
<1>3. Types /\ Inv /\ Secured /\ [Next]_vars =>
        [target # NoInode /\ inode[target].owner \in published /\ edits' = edits
           => target' = target]_vars
  <2> SUFFICES ASSUME Types, Inv, Secured, [Next]_vars, target # NoInode,
                      inode[target].owner \in published, edits' = edits, target' # target
               PROVE  FALSE
    OBVIOUS
  <2>1. ~Edit
    BY DEF Edit, Types
  <2>2. ASSUME NEW p \in Imports, p \in published
        PROVE  ~RemoveTarget(p) /\ record[p].state # "reserved"
    BY <2>2 DEF RemoveTarget, Inv, Announced, At
  <2> QED
    BY <2>1, <2>2, WhoMovesTarget
<1> QED
  BY <1>1, <1>2, <1>3, TypesInit, TypesStep, InvInit, SecuredInit, PTL DEF Spec,
     PublishedKept
=============================================================================
