-------------------------- MODULE ImportPublication --------------------------
(***************************************************************************)
(* Publication of an import, server/import-publication.ts, and the start-up *)
(* recovery of server/routes/upload.ts: staged bytes get a name in a folder *)
(* of the user without ever replacing what already has that name.          *)
(*                                                                         *)
(* Several imports want one name, while the user may create, replace and   *)
(* delete the file of that name and the server may crash.  An action is    *)
(* what lies between two awaits.                                           *)
(***************************************************************************)
EXTENDS Integers, FiniteSets

CONSTANTS Imports,       \* publications that want the name
          User,          \* whoever else writes in the folder
          Inodes, NoInode,
          Reuse,         \* a freed inode number may be given out again
          Overtaken,     \* the user may act between a look and the removal
          MaxEdits,      \* bound on what the user does to the name
          MaxCrashes,
          MaxFaults      \* bound on the system calls that fail

ASSUME ImportPublicationAssumption ==
    /\ User \notin Imports
    /\ NoInode \notin Inodes
    /\ Reuse \in BOOLEAN /\ Overtaken \in BOOLEAN
    /\ MaxEdits \in Nat /\ MaxCrashes \in Nat /\ MaxFaults \in Nat

VARIABLES
    target,      \* the inode that has the name
    inode,       \* per inode: who made it, and whether its bytes are complete
    used,        \* history: inodes that were ever given out
    server,      \* up, down, or at its start-up recovery
    step,        \* how far each publication is
    aborted,     \* its request has been closed
    tmp,         \* its temporary file in the same directory
    handle,      \* its open reservation
    reservation, \* the identity it knows of its reservation
    record,      \* its durable recovery record
    published,   \* history: publications whose file is under the name for good
    edits, crashes, faults

vars == <<target, inode, used, server, step, aborted, tmp, handle, reservation, record,
          published, edits, crashes, faults>>

-----------------------------------------------------------------------------
Owners == Imports \cup {User}
Steps == {"idle", "copying", "linking", "announcing", "opening", "identifying",
          "recording", "streaming", "checking", "committing", "committed",
          "published", "cleaning", "removing", "done", "failed", "dead", "recovered"}
Running == Steps \ {"idle", "done", "failed", "dead", "recovered"}
Record == [state : {"absent", "torn", "intent", "reserved", "committed"},
           id : Inodes \cup {NoInode}]
Line(state, id) == [state |-> state, id |-> id]
NoRecord == Line("absent", NoInode)
Partial(who) == [owner |-> who, whole |-> FALSE]
Whole(who) == [owner |-> who, whole |-> TRUE]

\* An inode lives while a name or a handle refers to it.
Held == {target} \cup {tmp[p] : p \in Imports} \cup {handle[p] : p \in Imports}
Fresh == Inodes \ (IF Reuse THEN Held ELSE used)
Make(i, file) ==
    /\ inode' = [inode EXCEPT ![i] = file]
    /\ used' = used \cup {i}

Fault == faults < MaxFaults /\ faults' = faults + 1
At(p, s) == server = "up" /\ step[p] = s
Goto(p, s) == step' = [step EXCEPT ![p] = s]
Fails(p) == Goto(p, "failed") /\ tmp' = [tmp EXCEPT ![p] = NoInode]
Write(p, line) == record' = [record EXCEPT ![p] = line]

\* A record that cannot be removed is left to the next start-up.
DropRecord(p) ==
    \/ Write(p, NoRecord) /\ faults' = faults
    \/ Fault /\ record' = record

Init ==
    /\ target = NoInode
    /\ inode = [i \in Inodes |-> Partial(User)]
    /\ used = {}
    /\ server = "up"
    /\ step = [p \in Imports |-> "idle"]
    /\ aborted = [p \in Imports |-> FALSE]
    /\ tmp = [p \in Imports |-> NoInode]
    /\ handle = [p \in Imports |-> NoInode]
    /\ reservation = [p \in Imports |-> NoInode]
    /\ record = [p \in Imports |-> NoRecord]
    /\ published = {}
    /\ edits = 0 /\ crashes = 0 /\ faults = 0

fileVars == <<target, inode, used>>
ownVars == <<aborted, handle, reservation>>
otherVars == <<server, edits, crashes>>

-----------------------------------------------------------------------------
(* publishStagedImport *)

\* The batch has found the name free; the temporary file is created.
Begin(p) ==
    /\ At(p, "idle") /\ target = NoInode
    /\ Goto(p, "copying")
    /\ \E i \in Fresh : Make(i, Partial(p)) /\ tmp' = [tmp EXCEPT ![p] = i]
    /\ UNCHANGED <<target, ownVars, record, published, otherVars, faults>>

Abort(p) ==
    /\ server = "up" /\ step[p] \in Running
    /\ ~aborted[p]
    /\ aborted' = [aborted EXCEPT ![p] = TRUE]
    /\ UNCHANGED <<fileVars, step, tmp, handle, reservation, record, published, otherVars,
                   faults>>

\* The staged bytes are in the temporary file, or the copy ends early.
Copy(p) ==
    /\ At(p, "copying")
    /\ \/ /\ ~aborted[p]
          /\ inode' = [inode EXCEPT ![tmp[p]].whole = TRUE]
          /\ Goto(p, "linking") /\ tmp' = tmp /\ faults' = faults
       \/ /\ \/ aborted[p] /\ faults' = faults
             \/ ~aborted[p] /\ Fault
          /\ Fails(p) /\ inode' = inode
    /\ UNCHANGED <<target, used, ownVars, record, published, otherVars>>

\* Variant with a bug (for OthersKept): rename instead of link.
Rename(p) ==
    /\ At(p, "linking")
    /\ target' = tmp[p] /\ Goto(p, "published")
    /\ tmp' = [tmp EXCEPT ![p] = NoInode]
    /\ published' = published \cup {p}
    /\ UNCHANGED <<inode, used, ownVars, record, otherVars, faults>>

\* publishNoClobber: a hard link, an existing file, or no hard links here.
Link(p) ==
    /\ At(p, "linking")
    /\ \/ /\ target = NoInode
          /\ target' = tmp[p] /\ Goto(p, "published") /\ tmp' = tmp
          /\ published' = published \cup {p}
       \/ /\ target # NoInode
          /\ Fails(p) /\ UNCHANGED <<target, published>>
       \/ /\ IF aborted[p] THEN Fails(p) ELSE Goto(p, "announcing") /\ tmp' = tmp
          /\ UNCHANGED <<target, published>>
    /\ UNCHANGED <<inode, used, ownVars, record, otherVars, faults>>

\* Variant with a bug (for TypeOK): a step that nothing continues.
FinishLater(p) ==
    /\ At(p, "published")
    /\ Goto(p, "finished")
    /\ UNCHANGED <<fileVars, ownVars, tmp, record, published, otherVars, faults>>

\* Nothing after the link or the commit looks at the signal.
Finish(p) ==
    /\ At(p, "published")
    /\ Goto(p, "done")
    /\ tmp' = [tmp EXCEPT ![p] = NoInode]
    /\ UNCHANGED <<fileVars, ownVars, record, published, otherVars, faults>>

-----------------------------------------------------------------------------
(* publishWithoutHardLinks *)

\* The first line of the record; its failure is not cleaned up.
Announce(p) ==
    /\ At(p, "announcing")
    /\ \/ /\ Write(p, Line("intent", NoInode))
          /\ Goto(p, "opening") /\ tmp' = tmp /\ faults' = faults
       \/ /\ Fault
          /\ \E s \in {"absent", "torn", "intent"} : Write(p, Line(s, NoInode))
          /\ Fails(p)
    /\ UNCHANGED <<fileVars, ownVars, published, otherVars>>

\* open(target, "wx")
Reserve(p) ==
    /\ At(p, "opening")
    /\ \/ /\ target = NoInode
          /\ \E i \in Fresh :
               /\ Make(i, Partial(p))
               /\ target' = i /\ handle' = [handle EXCEPT ![p] = i]
          /\ Goto(p, "identifying")
          /\ UNCHANGED <<tmp, record, faults>>
       \/ /\ target # NoInode
          /\ DropRecord(p) /\ Fails(p)
          /\ UNCHANGED <<fileVars, handle>>
    /\ UNCHANGED <<aborted, reservation, published, otherVars>>

\* Its identity; when the handle cannot be asked, the file stays behind.
Identify(p) ==
    /\ At(p, "identifying")
    /\ \/ /\ reservation' = [reservation EXCEPT ![p] = handle[p]]
          /\ Goto(p, "recording")
          /\ UNCHANGED <<tmp, handle, record, faults>>
       \/ /\ Fault
          /\ handle' = [handle EXCEPT ![p] = NoInode]
          /\ Write(p, NoRecord) \/ record' = record
          /\ Fails(p) /\ reservation' = reservation
    /\ UNCHANGED <<fileVars, aborted, published, otherVars>>

\* The catch block: the handle is closed and the reservation removed.
CleansUp(p) == Goto(p, "cleaning") /\ handle' = [handle EXCEPT ![p] = NoInode]

\* The second line; a write that fails may have got through.
RecordReservation(p) ==
    /\ At(p, "recording")
    /\ \/ /\ Write(p, Line("reserved", reservation[p]))
          /\ IF aborted[p] THEN CleansUp(p) ELSE Goto(p, "streaming") /\ handle' = handle
          /\ faults' = faults
       \/ /\ Fault /\ CleansUp(p)
          /\ Write(p, Line("reserved", reservation[p])) \/ record' = record
    /\ UNCHANGED <<fileVars, aborted, tmp, reservation, published, otherVars>>

\* The stream closes the handle, complete or not.
Stream(p) ==
    /\ At(p, "streaming")
    /\ \/ /\ inode' = [inode EXCEPT ![handle[p]].whole = TRUE]
          /\ Goto(p, IF aborted[p] THEN "cleaning" ELSE "checking") /\ faults' = faults
       \/ /\ \/ aborted[p] /\ faults' = faults
             \/ ~aborted[p] /\ Fault
          /\ Goto(p, "cleaning") /\ inode' = inode
    /\ handle' = [handle EXCEPT ![p] = NoInode]
    /\ UNCHANGED <<target, used, aborted, tmp, reservation, record, published, otherVars>>

\* Does the name still belong to the reservation?
Check(p) ==
    /\ At(p, "checking")
    /\ Goto(p, IF target = reservation[p] THEN "committing" ELSE "cleaning")
    /\ UNCHANGED <<fileVars, ownVars, tmp, record, published, otherVars, faults>>

\* Variant with a bug (for PublishedKept): the committed line is left out.
CommitSilently(p) ==
    /\ At(p, "committing")
    /\ Goto(p, "committed") /\ published' = published \cup {p}
    /\ UNCHANGED <<fileVars, ownVars, tmp, record, otherVars, faults>>

\* The committed line, likewise.
Commit(p) ==
    /\ At(p, "committing")
    /\ \/ /\ Write(p, Line("committed", reservation[p]))
          /\ Goto(p, "committed") /\ published' = published \cup {p}
          /\ faults' = faults
       \/ /\ Fault
          /\ \/ Write(p, Line("committed", reservation[p]))
             \/ record' = record
          /\ Goto(p, "cleaning") /\ published' = published
    /\ UNCHANGED <<fileVars, ownVars, tmp, otherVars>>

RecordRemoved(p) ==
    /\ At(p, "committed")
    /\ DropRecord(p)
    /\ Goto(p, "published")
    /\ UNCHANGED <<fileVars, ownVars, tmp, published, otherVars>>

\* removeIfIdentityMatches looks first; when it cannot, the record stays for the
\* next start-up.
LookAtTarget(p) ==
    /\ At(p, "cleaning")
    /\ \/ /\ target = reservation[p]
          /\ Goto(p, "removing") /\ UNCHANGED <<tmp, record, faults>>
       \/ /\ target # reservation[p]
          /\ DropRecord(p) /\ Fails(p)
       \/ Fault /\ Fails(p) /\ record' = record
    /\ UNCHANGED <<fileVars, ownVars, published, otherVars>>

\* Then it removes by name.
RemoveTarget(p) ==
    /\ At(p, "removing")
    /\ \/ target' = NoInode /\ DropRecord(p)
       \/ Fault /\ UNCHANGED <<target, record>>
    /\ Fails(p)
    /\ UNCHANGED <<inode, used, ownVars, published, otherVars>>

-----------------------------------------------------------------------------
(* The server's process. *)

\* An append that a crash interrupts leaves the line or not; what is remembered of
\* a reservation is what the record says.
Crash ==
    /\ server # "down" /\ crashes < MaxCrashes
    /\ crashes' = crashes + 1
    /\ server' = "down"
    /\ \E through \in BOOLEAN :
         record' = [p \in Imports |->
            CASE step[p] = "announcing" /\ through -> Line("torn", NoInode)
              [] step[p] = "recording" /\ through -> Line("reserved", reservation[p])
              [] step[p] = "committing" /\ through -> Line("committed", reservation[p])
              [] OTHER -> record[p]]
    /\ step' = [p \in Imports |->
                  IF \/ step[p] \in Running \cup {"failed", "recovered"}
                     \/ step[p] = "done" /\ record[p] # NoRecord
                  THEN "dead" ELSE step[p]]
    /\ handle' = [p \in Imports |-> NoInode]
    /\ reservation' = [p \in Imports |-> record'[p].id]
    /\ UNCHANGED <<fileVars, aborted, tmp, published, edits, faults>>

\* cleanupStaleUploads begins, or has gone through every record.
Restart ==
    /\ \/ server = "down" /\ server' = "recovering"
       \/ /\ server = "recovering" /\ server' = "up"
          /\ \A p \in Imports : step[p] # "dead"
    /\ UNCHANGED <<fileVars, step, tmp, ownVars, record, published, edits, crashes, faults>>

\* Variant with a bug (for NoPartialLeft): a reservation without its bytes is kept.
RecoverKeepingTarget(p) ==
    /\ server = "recovering" /\ step[p] = "dead"
    /\ Write(p, NoRecord)
    /\ tmp' = [tmp EXCEPT ![p] = NoInode]
    /\ Goto(p, "recovered")
    /\ UNCHANGED <<fileVars, ownVars, published, otherVars, faults>>

\* recoverInterruptedPublication: without a readable record nothing is known of
\* the import, not even its temporary file.
Recover(p) ==
    /\ server = "recovering" /\ step[p] = "dead"
    /\ LET r == record[p]
       IN  \/ /\ r.state \in {"absent", "torn"}
              /\ UNCHANGED <<target, tmp, record, faults>>
           \/ /\ r.state \in {"intent", "reserved", "committed"}
              /\ target' = IF r.state = "reserved" /\ target = r.id THEN NoInode ELSE target
              /\ tmp' = [tmp EXCEPT ![p] = NoInode]
              /\ Write(p, NoRecord)
              /\ faults' = faults
           \/ /\ r.state \in {"intent", "reserved", "committed"} /\ Fault
              /\ UNCHANGED <<target, tmp, record>>
    /\ Goto(p, "recovered")
    /\ UNCHANGED <<inode, used, ownVars, published, otherVars>>

-----------------------------------------------------------------------------
(* The user, an editor, a sync tool. *)

Edit ==
    /\ edits < MaxEdits /\ edits' = edits + 1
    /\ Overtaken \/ \A p \in Imports : step[p] # "removing"
    /\ \/ /\ \E i \in Fresh : Make(i, Whole(User)) /\ target' = i
       \/ /\ target # NoInode /\ target' = NoInode
          /\ UNCHANGED <<inode, used>>
    /\ UNCHANGED <<server, step, tmp, ownVars, record, published, crashes, faults>>

-----------------------------------------------------------------------------
Next ==
    \/ \E p \in Imports :
         \/ Begin(p) \/ Abort(p) \/ Copy(p) \/ Link(p) \/ Finish(p)
         \/ Announce(p) \/ Reserve(p) \/ Identify(p) \/ RecordReservation(p)
         \/ Stream(p) \/ Check(p) \/ Commit(p) \/ RecordRemoved(p)
         \/ LookAtTarget(p) \/ RemoveTarget(p)
         \/ Recover(p)
    \/ Crash \/ Restart
    \/ Edit

Spec == Init /\ [][Next]_vars

-----------------------------------------------------------------------------
(* Properties. *)

\* The types of the variables.
TypeOK ==
    /\ target \in Inodes \cup {NoInode}
    /\ inode \in [Inodes -> [owner : Owners, whole : BOOLEAN]]
    /\ used \subseteq Inodes
    /\ server \in {"up", "down", "recovering"}
    /\ step \in [Imports -> Steps]
    /\ aborted \in [Imports -> BOOLEAN]
    /\ {tmp, handle, reservation} \subseteq [Imports -> Inodes \cup {NoInode}]
    /\ record \in [Imports -> Record]
    /\ published \subseteq Imports
    /\ edits \in 0..MaxEdits /\ crashes \in 0..MaxCrashes /\ faults \in 0..MaxFaults

\* An import never takes the name away from a file of the user, wherever the
\* import, its cancellation or the recovery of a dead server stands when the user
\* creates or replaces the file; unless the user does so between the last look at
\* the name and its removal (Overtaken), or the file system gives the file the inode
\* of an abandoned reservation (Reuse).
OthersKept ==
    [][target # NoInode /\ inode[target].owner = User /\ edits' = edits
         => target' = target]_vars

\* Nor from a file whose import was published: no later import, cancellation,
\* failure or recovery undoes it, under the same two conditions.
PublishedKept ==
    [][target # NoInode /\ inode[target].owner \in published /\ edits' = edits
         => target' = target]_vars

\* When an import is over and its record is gone, the name does not show part of
\* its bytes, unless it does not know which file it had reserved.
NoPartialLeft ==
    \A p \in Imports :
        /\ step[p] \in {"done", "failed", "recovered"}
        /\ record[p] = NoRecord
        /\ target # NoInode /\ target = reservation[p] /\ inode[target].owner = p
        => inode[target].whole
=============================================================================
