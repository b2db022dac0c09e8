----------------------------- MODULE StateLock -----------------------------
(***************************************************************************)
(* The lock file under every state file (withStateLock,                    *)
(* packages/runtime/state-lock.mjs): an exclusive create, an owner record  *)
(* inside the file, and the removal of a lock whose owner is dead.         *)
(*                                                                         *)
(* One path, several processes; every call on the file system is a step,   *)
(* and a process may be suspended before any of them.  A lock file is known *)
(* by its inode, which the file system may give to a later file as soon as *)
(* nobody has the earlier one open.                                        *)
(***************************************************************************)
EXTENDS Naturals

CONSTANTS
  Processes,     \* operating system processes; a dead one does not come back
  Inodes,        \* inodes the lock files may get
  MaxCrashes,    \* bound on process deaths
  MaxFaults,     \* bound on failed writes and removals
  None           \* no lock file; no owner record

ASSUME StateLockAssumption ==
  /\ MaxCrashes \in Nat /\ MaxFaults \in Nat
  /\ None \notin Processes /\ None \notin Inodes

VARIABLES
  file,    \* inode of the lock file
  owner,   \* the process its record names
  old,     \* is its mtime more than staleMs ago
  pc,      \* control point of each process
  mine,    \* inode of the lock file the process created
  seen,    \* inode the process took for stale
  token,   \* owner it read in the stale lock
  crashes, faults,
  windows  \* history: the windows of the protocol that were hit, see the end

disk == <<file, owner, old>>
locals == <<mine, seen, token>>
env == <<crashes, faults>>
vars == <<disk, pc, locals, env, windows>>

Labels == {"out", "open", "record", "undo", "inside", "leave", "drop", "stat",
           "probe", "verify", "reap", "wait", "dead"}

Alive(p) == pc[p] # "dead"

At(p, l) == pc[p] = l

Goto(p, l) == pc' = [pc EXCEPT ![p] = l]

(* processIsAlive of the pid in the owner record; without one, FALSE. *)
OwnerAlive == owner \in Processes /\ Alive(owner)

Init ==
  /\ file = None
  /\ owner = None
  /\ old = FALSE
  /\ pc = [p \in Processes |-> "out"]
  /\ mine = [p \in Processes |-> None]
  /\ seen = [p \in Processes |-> None]
  /\ token = [p \in Processes |-> None]
  /\ crashes = 0
  /\ faults = 0
  /\ windows = {}

-----------------------------------------------------------------------------
(* Acquisition.                                                            *)

Begin(p) ==
  /\ At(p, "out")
  /\ Goto(p, "open")
  /\ UNCHANGED <<disk, locals, env, windows>>

(* Inodes of lock files that are still open, and cannot be given again. *)
Held == {mine[p] : p \in {q \in Processes : pc[q] \in {"record", "inside"}}}

(* Inodes by which alone a process will know a file it is about to remove. *)
Watched ==
  {seen[p] : p \in {q \in Processes : At(q, "probe") \/ (At(q, "verify") /\ token[q] = None)}}
    \union {mine[p] : p \in {q \in Processes : At(q, "undo")}}

(* Somebody has checked the path and not yet unlinked it. *)
Unlinking == \E p \in Processes : pc[p] \in {"reap", "drop"}

(* The windows a lock file created with inode n hits. *)
HitByCreate(n) ==
  {w \in {"inode", "unlink"} : (w = "inode" /\ n \in Watched) \/ (w = "unlink" /\ Unlinking)}

(* openSync(lockPath, "wx"): the exclusive create. *)
Open(p) ==
  /\ At(p, "open")
  /\ file = None
  /\ \E n \in Inodes \ Held :
       /\ file' = n
       /\ mine' = [mine EXCEPT ![p] = n]
       /\ windows' = windows \union HitByCreate(n)
  /\ owner' = None
  /\ old' = FALSE
  /\ Goto(p, "record")
  /\ UNCHANGED <<seen, token, env>>

Contended(p) ==
  /\ At(p, "open")
  /\ file # None
  /\ Goto(p, "stat")
  /\ UNCHANGED <<disk, locals, env, windows>>

(* The record goes to the inode that was created, wherever the path points. *)
WriteRecord(p) ==
  IF file = mine[p]
  THEN owner' = p /\ old' = FALSE
  ELSE UNCHANGED <<owner, old>>

Record(p) ==
  /\ At(p, "record")
  /\ WriteRecord(p)
  /\ Goto(p, "inside")
  /\ UNCHANGED <<file, locals, env, windows>>

(* A failed write or fsync: the record may be there or not. *)
RecordFails(p) ==
  /\ At(p, "record")
  /\ faults < MaxFaults
  /\ faults' = faults + 1
  /\ WriteRecord(p) \/ UNCHANGED <<owner, old>>
  /\ Goto(p, "undo")
  /\ UNCHANGED <<file, locals, crashes, windows>>

(* lstat of the contended path: only a stale lock is looked into. *)
Stat(p) ==
  /\ At(p, "stat")
  /\ IF file # None /\ old
     THEN seen' = [seen EXCEPT ![p] = file] /\ Goto(p, "probe")
     ELSE UNCHANGED seen /\ Goto(p, "wait")
  /\ UNCHANGED <<disk, mine, token, env, windows>>

(* Mutant: a stale lock is reclaimed whether its owner lives or not. *)
Probe_Stale(p) ==
  /\ At(p, "probe")
  /\ Goto(p, "verify")
  /\ token' = [token EXCEPT ![p] = owner]
  /\ UNCHANGED <<disk, mine, seen, env, windows>>

(* Mutant: a lock with a record is respected, alive or not. *)
Probe_Recorded(p) ==
  /\ At(p, "probe")
  /\ Goto(p, IF owner # None THEN "wait" ELSE "verify")
  /\ token' = [token EXCEPT ![p] = owner]
  /\ UNCHANGED <<disk, mine, seen, env, windows>>

(* readLockOwner and processIsAlive.  (A path that is gone has no owner.) *)
Probe(p) ==
  /\ At(p, "probe")
  /\ Goto(p, IF OwnerAlive THEN "wait" ELSE "verify")
  /\ token' = [token EXCEPT ![p] = owner]
  /\ UNCHANGED <<disk, mine, seen, env, windows>>

(* The deadline is looked at only after a stale lock was. *)
Wait(p) ==
  /\ At(p, "wait")
  /\ \E l \in {"open", "out"} : Goto(p, l)
  /\ UNCHANGED <<disk, locals, env, windows>>

-----------------------------------------------------------------------------
(* Removal: unlinkLockIfOwned.  It compares inodes, then tokens if it has one,
   then inodes again; what changes the path between these reads is caught by
   the last of them or changes it as well after it, so they are one step. *)

(* unlinkSync removes whatever the path holds by now. *)
Unlink(p, l) ==
  /\ file' = None /\ owner' = None /\ old' = FALSE
  /\ Goto(p, l)
  /\ UNCHANGED <<locals, env, windows>>

(* Without a token only the inode identifies the stale lock. *)
Stale(p) == file # None /\ file = seen[p] /\ (token[p] # None => owner = token[p])

(* A reclaimed path is opened again at once. *)
Verify(p) ==
  /\ At(p, "verify")
  /\ Goto(p, IF Stale(p) THEN "reap" ELSE "wait")
  /\ UNCHANGED <<disk, locals, env, windows>>

Reap(p) == At(p, "reap") /\ Unlink(p, "open")

(* The critical section returned or threw, and the file was closed. *)
Finish(p) ==
  /\ At(p, "inside")
  /\ Goto(p, "leave")
  /\ UNCHANGED <<disk, locals, env, windows>>

(* The lock is removed if it is still the one this process wrote. *)
Leave(p) ==
  /\ At(p, "leave")
  /\ Goto(p, IF file = mine[p] /\ owner = p THEN "drop" ELSE "out")
  /\ mine' = [mine EXCEPT ![p] = None]
  /\ UNCHANGED <<disk, seen, token, env, windows>>

(* After a failed record the new file is removed without a token check, and
   the error is thrown. *)
Undo(p) ==
  /\ At(p, "undo")
  /\ Goto(p, IF file = mine[p] THEN "drop" ELSE "out")
  /\ mine' = [mine EXCEPT ![p] = None]
  /\ UNCHANGED <<disk, seen, token, env, windows>>

(* A failed removal is swallowed: "stale cleanup will recover". *)
LeaveFails(p) ==
  /\ pc[p] \in {"leave", "undo"}
  /\ faults < MaxFaults
  /\ faults' = faults + 1
  /\ mine' = [mine EXCEPT ![p] = None]
  /\ Goto(p, "out")
  /\ UNCHANGED <<disk, seen, token, crashes, windows>>

Drop(p) == At(p, "drop") /\ Unlink(p, "out")

-----------------------------------------------------------------------------
(* The environment.                                                        *)

Crash(p) ==
  /\ Alive(p)
  /\ crashes < MaxCrashes
  /\ crashes' = crashes + 1
  /\ Goto(p, "dead")
  /\ UNCHANGED <<disk, locals, faults, windows>>

(* Thirty seconds pass, also for a lock whose holder is still at work. *)
Age ==
  /\ file # None
  /\ ~old
  /\ old' = TRUE
  /\ windows' = windows \union {w \in {"record"} : \E p \in Processes : At(p, w)}
  /\ UNCHANGED <<file, owner, pc, locals, env>>

Run(p) ==
  \/ Open(p) \/ Contended(p) \/ Record(p) \/ RecordFails(p)
  \/ Stat(p) \/ Probe(p) \/ Wait(p) \/ Verify(p)
  \/ Finish(p) \/ Leave(p) \/ LeaveFails(p) \/ Undo(p) \/ Reap(p) \/ Drop(p)

Next == (\E p \in Processes : Begin(p) \/ Run(p) \/ Crash(p)) \/ Age

Spec == Init /\ [][Next]_vars

(* A process that is not killed goes on, the program asks for the lock again,
   and time passes. *)
Fairness == WF_vars(Age) /\ \A p \in Processes : WF_vars(Run(p)) /\ WF_vars(Begin(p))

FairSpec == Spec /\ Fairness

-----------------------------------------------------------------------------
(* Properties.                                                             *)

(* Every variable keeps its shape. *)
TypeOK ==
  /\ file \in Inodes \union {None}
  /\ owner \in Processes \union {None}
  /\ old \in BOOLEAN
  /\ pc \in [Processes -> Labels]
  /\ mine \in [Processes -> Inodes \union {None}]
  /\ seen \in [Processes -> Inodes \union {None}]
  /\ token \in [Processes -> Processes \union {None}]
  /\ crashes \in 0 .. MaxCrashes
  /\ faults \in 0 .. MaxFaults
  /\ windows \subseteq {"record", "inode", "unlink"}

(* The promise of the lock: no two processes are between its creation and its
   removal.  The code does not keep it, see OnlyWindowsBreakExclusion. *)
MutualExclusion ==
  \A p, q \in Processes :
    pc[p] \in {"inside", "leave"} /\ pc[q] \in {"inside", "leave"} => p = q

(* A process inside finds its own record at the path when it looks, so its
   removal on the way out hits its own lock or nothing. *)
InsiderOwnsPath ==
  \A p \in Processes : pc[p] = "inside" => file = mine[p] /\ owner = p

(* The promise is broken through three windows and nowhere else, whoever dies,
   waits, reclaims or fails a write: the creator takes staleMs to write its
   owner record ("record"); a new lock file gets an inode by which alone
   somebody knows the file he is about to remove ("inode"); a new lock file is
   created between somebody's last check of the path and his unlink
   ("unlink"). *)
OnlyWindowsBreakExclusion == windows = {} => MutualExclusion /\ InsiderOwnsPath

(* A lock file nobody alive stands behind: its owner died, or its creator died
   or failed before the owner record was there. *)
Abandoned ==
  file # None /\ ~OwnerAlive /\ \A p \in Processes : pc[p] \notin {"record", "undo"}

(* An abandoned lock does not stay: somebody who asks for the lock removes it. *)
DeadLockIsReclaimed == Abandoned ~> ~Abandoned

(* What a process leaves behind on its way out is cleaned up. *)
LeftLockIsRecovered ==
  \A p \in Processes : (owner = p /\ pc[p] = "out") ~> owner # p

=============================================================================
