--------------------------- MODULE TaskSettlement ---------------------------
(***************************************************************************)
(* The acceptance transaction of a task run (packages/runtime/run.mjs,     *)
(* task-approval-store.mjs, acceptance-transaction.mjs).                   *)
(*                                                                         *)
(* A workbench session (`crew run <agent> --task <id>` under the TUI)      *)
(* produces a deliverable, saves the run as delivered, writes a pending    *)
(* receipt and waits for the user.  Accepting freezes an immutable         *)
(* decision, writes the ProofPack, marks the artifact, saves the run as    *)
(* accepted, commits the staged memory and drops the receipt, one file at  *)
(* a time.  Any session may die between two writes; any later session for  *)
(* the same employee and task finds the receipt and takes over; several    *)
(* sessions may hold the same receipt at once.                             *)
(*                                                                         *)
(* All runs here belong to one employee and one requested task, the scope  *)
(* findPendingTaskApproval searches.  Every file the protocol reads or     *)
(* writes is one variable; every read or write of one file is one step.    *)
(***************************************************************************)
EXTENDS Naturals, FiniteSets

CONSTANTS
  Sessions,       \* operating system processes that may run the task
  Runs,           \* task run ids
  CliRuns,        \* the ids drawn by sessions without a workbench
  Volatile,       \* runs whose deliverable may change or be deleted
  Lessons,        \* memory candidates the Dream review may stage
  Candidates,     \* the lessons a run stages
  PromptCreator,  \* TRUE: nobody finds a receipt before its creator's next save
  MaxCrashes,     \* bound on process deaths
  MaxFaults,      \* bound on failed writes
  None, Dead      \* no session; a session that died holding a lock

ASSUME SettlementAssumption ==
  /\ CliRuns \subseteq Runs
  /\ Volatile \subseteq Runs
  /\ Candidates \in [Runs -> SUBSET Lessons]
  /\ PromptCreator \in BOOLEAN
  /\ MaxCrashes \in Nat
  /\ MaxFaults \in Nat
  /\ None \notin Sessions
  /\ Dead \notin Sessions
  /\ None # Dead

VARIABLES
  run,       \* <id>.json, the TaskRun on disk
  pending,   \* does <id>.task-pending-approval.json exist
  decision,  \* <id>.task-approval-decision.json: who accepted, the frozen run
  pack,      \* <id>.proofpack.json: the decision it was assembled from
  file,      \* the Markdown deliverable against the receipt's fingerprint
  marked,    \* is the artifact's metadata accepted
  memory,    \* the employee's memory store
  lock,      \* holder of the settlement lock of each run
  pc, cur,   \* control point and task run of each session
  own,       \* the TaskRun in the session's memory
  intent,    \* the approval result the session is settling
  todo,      \* candidates still to be added to memory
  failed,    \* did a candidate's write fail
  told,      \* terminal verdicts announced to the user, per run
  crashes, faults

files == <<run, pending, decision, pack, file, marked, memory>>
locals == <<cur, own, intent, todo, failed>>
env == <<crashes, faults>>
vars == <<files, lock, pc, locals, told, env>>

-----------------------------------------------------------------------------
(* Records.                                                                *)

Open == {"delivered"}
Closed == {"revision_needed", "rejected", "failed"}

RunRecord ==
  [status : {"absent", "accepted"} \union Open \union Closed,
   pending_approval : BOOLEAN,
   memory_commit : {"null", "staged", "committed"},
   approval_decision : Sessions \union {None}]

NoRun == [status |-> "absent", pending_approval |-> FALSE,
          memory_commit |-> "null", approval_decision |-> None]

Decision == [by : Sessions, frozen : RunRecord]

ASSUME NoDecisionAssumption == None \notin Decision

(* The run as first saved: only a valid outcome stages memory. *)
Outcome(s) ==
  [NoRun EXCEPT !.status = s,
                !.memory_commit = IF s \in {"delivered", "accepted"}
                                  THEN "staged" ELSE "null"]

(* verifyRunAgainstSettlement: a delivered run must be the frozen one, an
   accepted run the frozen one moved by the only legal transition. *)
Verifies(rec, d) ==
  \/ rec.status = "delivered" /\ rec = d.frozen
  \/ /\ rec.status = "accepted"
     /\ ~rec.pending_approval
     /\ rec.memory_commit \in {"staged", "committed"}

(* The frozen run must be delivered with uncommitted candidates. *)
Freezable(rec) == rec.status = "delivered" /\ rec.memory_commit = "staged"

AcceptedFrom(rec, d) ==
  [rec EXCEPT !.status = "accepted", !.pending_approval = FALSE,
              !.approval_decision = d.by, !.memory_commit = d.frozen.memory_commit]

ClosedAs(rec, s) ==
  [rec EXCEPT !.status = s, !.pending_approval = FALSE, !.memory_commit = "null"]

Intact(r) == file[r] = "intact"
Receipts == {r \in Runs : pending[r]}

(* A run id nobody has used: ids are random UUIDs. *)
Fresh(r) ==
  /\ run[r] = NoRun
  /\ ~pending[r]
  /\ \A q \in Sessions : pc[q] # "off" => cur[q] # r

Labels ==
  {"off", "find", "create", "final", "receipt", "note", "load", "bind",
   "decided", "verify", "await", "lock", "reload", "repending", "rebind",
   "decide", "settle", "pack", "after", "unpack", "mark", "accept", "learn",
   "commit", "remove", "verdict", "close", "closePack", "closePending",
   "unlock", "abort"}

Intents == {"none", "accept", "replay", "revise", "exit", "eof", "fail"}

-----------------------------------------------------------------------------
(* Control.                                                                *)

At(p, l) == pc[p] = l

Goto(p, l) == pc' = [pc EXCEPT ![p] = l]

Jump(p, l) == Goto(p, l) /\ UNCHANGED locals

(* The session's process ends; its memory is gone. *)
Forget(p) ==
  /\ pc' = [pc EXCEPT ![p] = "off"]
  /\ cur' = [cur EXCEPT ![p] = None]
  /\ own' = [own EXCEPT ![p] = NoRun]
  /\ intent' = [intent EXCEPT ![p] = "none"]
  /\ todo' = [todo EXCEPT ![p] = {}]
  /\ failed' = [failed EXCEPT ![p] = FALSE]

Intend(p, i, l) ==
  /\ intent' = [intent EXCEPT ![p] = i]
  /\ Goto(p, l)
  /\ UNCHANGED <<cur, own, todo, failed>>

(* A write that the file system refuses. *)
Fault == faults < MaxFaults /\ faults' = faults + 1 /\ UNCHANGED crashes

Init ==
  /\ run = [r \in Runs |-> NoRun]
  /\ pending = [r \in Runs |-> FALSE]
  /\ decision = [r \in Runs |-> None]
  /\ pack = [r \in Runs |-> None]
  /\ file = [r \in Runs |-> "none"]
  /\ marked = [r \in Runs |-> FALSE]
  /\ memory = {}
  /\ lock = [r \in Runs |-> None]
  /\ pc = [p \in Sessions |-> "off"]
  /\ cur = [p \in Sessions |-> None]
  /\ own = [p \in Sessions |-> NoRun]
  /\ intent = [p \in Sessions |-> "none"]
  /\ todo = [p \in Sessions |-> {}]
  /\ failed = [p \in Sessions |-> FALSE]
  /\ told = [r \in Runs |-> {}]
  /\ crashes = 0
  /\ faults = 0

-----------------------------------------------------------------------------
(* A new run.  The agent loop, the grading and the artifact writes are over
   when the run is first saved. *)

(* A session starts; only a workbench session looks for a receipt first. *)
Start(p) ==
  /\ At(p, "off")
  /\ Jump(p, "find")
  /\ UNCHANGED <<files, lock, told, env>>

Draw(p, r, s) ==
  /\ Fresh(r)
  /\ cur' = [cur EXCEPT ![p] = r]
  /\ own' = [own EXCEPT ![p] = Outcome(s)]
  /\ file' = [file EXCEPT ![r] = "intact"]
  /\ Goto(p, "create")
  /\ UNCHANGED <<run, pending, decision, pack, marked, memory, lock,
                 intent, todo, failed, told, env>>

(* Without a workbench the user answers on the terminal, before any save. *)
StartCli(p) ==
  /\ At(p, "off")
  /\ \E r \in CliRuns, s \in Open \union Closed \union {"accepted"} : Draw(p, r, s)

(* recoverTaskModeApproval scans the receipts of this employee and task. *)
FindNone(p) ==
  /\ At(p, "find")
  /\ Receipts = {}
  /\ \E r \in Runs \ CliRuns, s \in {"delivered", "revision_needed", "failed"} :
       Draw(p, r, s)

FindOne(p) ==
  /\ At(p, "find")
  /\ PromptCreator => \A q \in Sessions : pc[q] \notin {"note", "abort"}
  /\ \E r \in Runs :
       /\ Receipts = {r}
       /\ cur' = [cur EXCEPT ![p] = r]
  /\ Goto(p, "load")
  /\ UNCHANGED <<files, lock, own, intent, todo, failed, told, env>>

(* Two receipts are ambiguous; the bound on run ids ends the session too. *)
FindBlocked(p) ==
  /\ At(p, "find")
  /\ \/ Cardinality(Receipts) > 1
     \/ Receipts = {} /\ \A r \in Runs \ CliRuns : ~Fresh(r)
  /\ Forget(p)
  /\ UNCHANGED <<files, lock, told, env>>

SaveOwn(p) == run' = [run EXCEPT ![cur[p]] = own[p]]

(* Mutant: a terminal session commits memory whether the save worked or not. *)
Create_Unchecked(p) ==
  /\ At(p, "create")
  /\ \/ SaveOwn(p) /\ UNCHANGED env
     \/ Fault /\ UNCHANGED run
  /\ IF cur[p] \in CliRuns /\ own[p].status = "accepted"
     THEN /\ Goto(p, "learn")
          /\ todo' = [todo EXCEPT ![p] = Candidates[cur[p]]]
          /\ UNCHANGED <<cur, own, intent, failed>>
     ELSE Jump(p, "final")
  /\ UNCHANGED <<pending, decision, pack, file, marked, memory, lock, told>>

(* saveTaskRun after the completion gate.  A terminal session commits memory
   at once, but only when this save succeeded. *)
Create(p) ==
  /\ At(p, "create")
  /\ \/ /\ SaveOwn(p)
        /\ IF cur[p] \in CliRuns /\ own[p].status = "accepted"
           THEN /\ Goto(p, "learn")
                /\ todo' = [todo EXCEPT ![p] = Candidates[cur[p]]]
                /\ UNCHANGED <<cur, own, intent, failed>>
           ELSE Jump(p, "final")
        /\ UNCHANGED env
     \/ Fault /\ UNCHANGED run /\ Jump(p, "final")
  /\ UNCHANGED <<pending, decision, pack, file, marked, memory, lock, told>>

(* The snapshot saved once evidence and report are written; a failure is
   only logged. *)
Final(p) ==
  /\ At(p, "final")
  /\ \/ SaveOwn(p) /\ UNCHANGED env
     \/ Fault /\ UNCHANGED run
  /\ IF cur[p] \notin CliRuns /\ own[p].status = "delivered"
     THEN Jump(p, "receipt")
     ELSE Forget(p)
  /\ UNCHANGED <<pending, decision, pack, file, marked, memory, lock, told>>

(* The receipt binds what the deliverable holds now (an earlier edit goes
   unnoticed).  persistPendingTaskApproval may fail after its rename. *)
Receipt(p) ==
  /\ At(p, "receipt")
  /\ \/ /\ pending' = [pending EXCEPT ![cur[p]] = TRUE]
        /\ file' = [file EXCEPT ![cur[p]] = "intact"]
        /\ \/ Jump(p, "note") /\ UNCHANGED env
           \/ Fault /\ Jump(p, "abort")
     \/ /\ IF Intact(cur[p]) THEN Fault ELSE UNCHANGED env
        /\ Jump(p, "abort")
        /\ UNCHANGED <<pending, file>>
  /\ UNCHANGED <<run, decision, pack, marked, memory, lock, told>>

(* The run is failed when the receipt could not be kept. *)
Abort(p) ==
  /\ At(p, "abort")
  /\ \/ run' = [run EXCEPT ![cur[p]] = ClosedAs(own[p], "failed")] /\ UNCHANGED env
     \/ Fault /\ UNCHANGED run
  /\ Forget(p)
  /\ UNCHANGED <<pending, decision, pack, file, marked, memory, lock, told>>

(* The creator notes the receipt in the run and saves it, outside the
   settlement lock; a failure is only logged. *)
Note(p) ==
  /\ At(p, "note")
  /\ LET noted == [own[p] EXCEPT !.pending_approval = TRUE]
     IN /\ own' = [own EXCEPT ![p] = noted]
        /\ \/ run' = [run EXCEPT ![cur[p]] = noted] /\ UNCHANGED env
           \/ Fault /\ UNCHANGED run
  /\ Goto(p, "await")
  /\ UNCHANGED <<pending, decision, pack, file, marked, memory, lock,
                 cur, intent, todo, failed, told>>

-----------------------------------------------------------------------------
(* Recovery: recoverTaskModeApproval, up to the settlement.                *)

Load(p) ==
  /\ At(p, "load")
  /\ IF run[cur[p]] = NoRun
     THEN Forget(p)
     ELSE /\ own' = [own EXCEPT ![p] = run[cur[p]]]
          /\ Goto(p, "bind")
          /\ UNCHANGED <<cur, intent, todo, failed>>
  /\ UNCHANGED <<files, lock, told, env>>

(* verifyPendingTaskApprovalBinding reads the deliverable back. *)
Bind(p) ==
  /\ At(p, "bind")
  /\ IF Intact(cur[p]) THEN Jump(p, "decided") ELSE Forget(p)
  /\ UNCHANGED <<files, lock, told, env>>

(* Mutant: only a delivered run is replayed from its decision. *)
Decided_DeliveredOnly(p) ==
  /\ At(p, "decided")
  /\ IF own[p].status # "delivered"
     THEN Forget(p)
     ELSE IF decision[cur[p]] # None THEN Intend(p, "replay", "lock")
                                     ELSE Jump(p, "verify")
  /\ UNCHANGED <<files, lock, told, env>>

(* A decision on disk is replayed; without one only a delivered run waits. *)
Decided(p) ==
  /\ At(p, "decided")
  /\ LET d == decision[cur[p]]
     IN \/ d # None /\ Verifies(own[p], d) /\ Intend(p, "replay", "lock")
        \/ d # None /\ ~Verifies(own[p], d) /\ Forget(p)
        \/ d = None /\ own[p].status = "delivered" /\ Jump(p, "verify")
        \/ d = None /\ own[p].status # "delivered" /\ Forget(p)
  /\ UNCHANGED <<files, lock, told, env>>

(* verifyPendingTaskArtifact; a changed deliverable fails the run at once,
   without the settlement lock and on the copy loaded above. *)
Verify(p) ==
  /\ At(p, "verify")
  /\ IF Intact(cur[p]) THEN Jump(p, "await") ELSE Intend(p, "fail", "close")
  /\ UNCHANGED <<files, lock, told, env>>

-----------------------------------------------------------------------------
(* What ends the wait: the user, or the end of the input.                  *)

Answer(p) ==
  /\ At(p, "await")
  /\ \E i \in {"accept", "revise", "exit", "eof"} : Intend(p, i, "lock")
  /\ UNCHANGED <<files, lock, told, env>>

(* artifact.delete removes the deliverable and asks for a revision. *)
Delete(p) ==
  /\ At(p, "await")
  /\ cur[p] \in Volatile
  /\ Intact(cur[p])
  /\ file' = [file EXCEPT ![cur[p]] = "changed"]
  /\ Intend(p, "revise", "lock")
  /\ UNCHANGED <<run, pending, decision, pack, marked, memory, lock, told, env>>

(* Mutant: the lock does not exclude anybody. *)
Lock_Shared(p) ==
  /\ At(p, "lock")
  /\ lock' = [lock EXCEPT ![cur[p]] = p]
  /\ Jump(p, "reload")
  /\ UNCHANGED <<files, told, env>>

-----------------------------------------------------------------------------
(* Settlement, under the lock of the run.                                  *)

Lock(p) ==
  /\ At(p, "lock")
  /\ lock[cur[p]] = None
  /\ lock' = [lock EXCEPT ![cur[p]] = p]
  /\ Jump(p, "reload")
  /\ UNCHANGED <<files, told, env>>

(* withStateLock gives up after ten seconds; the settlement is refused. *)
LockTimeout(p) ==
  /\ At(p, "lock")
  /\ lock[cur[p]] # None
  /\ Forget(p)
  /\ UNCHANGED <<files, lock, told, env>>

(* A lock left by a dead process is removed once it is stale. *)
Reclaim(r) ==
  /\ lock[r] = Dead
  /\ \E p \in Sessions : At(p, "lock") /\ cur[p] = r
  /\ lock' = [lock EXCEPT ![r] = None]
  /\ UNCHANGED <<files, pc, locals, told, env>>

Unlock(p) ==
  /\ At(p, "unlock")
  /\ lock' = [lock EXCEPT ![cur[p]] = IF @ = p THEN None ELSE @]
  /\ Forget(p)
  /\ UNCHANGED <<files, told, env>>

Accepting(p) == intent[p] \in {"accept", "replay"}

(* Mutant: the copy from before the lock is settled. *)
Reload_Stale(p) ==
  /\ At(p, "reload")
  /\ Jump(p, IF run[cur[p]] = NoRun THEN "unlock" ELSE "repending")
  /\ UNCHANGED <<files, lock, told, env>>

Reload(p) ==
  /\ At(p, "reload")
  /\ own' = [own EXCEPT ![p] = run[cur[p]]]
  /\ Goto(p, IF run[cur[p]] = NoRun THEN "unlock" ELSE "repending")
  /\ UNCHANGED <<files, lock, cur, intent, todo, failed, told, env>>

(* An accepted run may be settled again without its receipt; a refusal or an
   interruption needs a delivered run that still has it. *)
Repending(p) ==
  /\ At(p, "repending")
  /\ LET st == own[p].status
         ok == IF Accepting(p)
               THEN pending[cur[p]] \/ st = "accepted"
               ELSE pending[cur[p]] /\ st = "delivered"
     IN Jump(p, CASE ~ok -> "unlock"
                  [] ok /\ Accepting(p) -> "rebind"
                  [] OTHER -> "verdict")
  /\ UNCHANGED <<files, lock, told, env>>

Rebind(p) ==
  /\ At(p, "rebind")
  /\ \/ Intact(cur[p]) /\ Jump(p, "decide")
     \/ ~Intact(cur[p]) /\ own[p].status = "delivered" /\ Intend(p, "fail", "close")
     \/ ~Intact(cur[p]) /\ own[p].status # "delivered" /\ Jump(p, "unlock")
  /\ UNCHANGED <<files, lock, told, env>>

(* The decision on disk, or the one persistTaskApprovalDecision writes now.
   Only a genuine approval.resolve may write it; the write may be reported
   failed although the file is in place. *)
Decide(p) ==
  /\ At(p, "decide")
  /\ LET r == cur[p]
     IN \/ decision[r] # None /\ UNCHANGED <<decision, env>> /\ Jump(p, "settle")
        \/ /\ decision[r] = None
           /\ intent[p] = "accept" /\ Freezable(own[p])
           /\ \/ /\ decision' = [decision EXCEPT ![r] = [by |-> p, frozen |-> own[p]]]
                 /\ \/ Jump(p, "settle") /\ UNCHANGED env
                    \/ Jump(p, "unlock") /\ Fault
              \/ UNCHANGED decision /\ Jump(p, "unlock") /\ Fault
        \/ /\ decision[r] = None
           /\ ~(intent[p] = "accept" /\ Freezable(own[p]))
           /\ UNCHANGED <<decision, env>> /\ Jump(p, "unlock")
  /\ UNCHANGED <<run, pending, pack, file, marked, memory, lock, told>>

(* verifyCurrentTaskSettlement, and acceptedRunBindsDecision. *)
Settle(p) ==
  /\ At(p, "settle")
  /\ LET d == decision[cur[p]]
         ok == /\ Verifies(own[p], d)
               /\ own[p].status = "accepted" => own[p].approval_decision = d.by
     IN Jump(p, IF ok THEN "pack" ELSE "unlock")
  /\ UNCHANGED <<files, lock, told, env>>

(* A failure fails the task, unless the run is already accepted. *)
GiveUp(p, l) ==
  IF own[p].status = "delivered" THEN Intend(p, "fail", l) ELSE Jump(p, "unlock")

(* persistProofPackDurably: an identical pack is kept, another is a conflict. *)
Pack(p) ==
  /\ At(p, "pack")
  /\ LET r == cur[p]
         d == decision[r].by
     IN \/ /\ pack[r] \in {None, d}
           /\ pack' = [pack EXCEPT ![r] = d]
           /\ \/ Jump(p, "after") /\ UNCHANGED env
              \/ GiveUp(p, "close") /\ pack[r] = None /\ Fault
        \/ /\ UNCHANGED pack
           /\ IF pack[r] \notin {None, d} THEN UNCHANGED env ELSE Fault
           /\ GiveUp(p, "close")
  /\ UNCHANGED <<run, pending, decision, file, marked, memory, lock, told>>

(* commitAcceptedTaskMemory: a committed batch is not committed again. *)
Remember(p) ==
  IF own[p].memory_commit = "staged"
  THEN /\ Goto(p, "learn")
       /\ todo' = [todo EXCEPT ![p] = Candidates[cur[p]]]
       /\ UNCHANGED <<cur, own, intent, failed>>
  ELSE Jump(p, "remove")

(* The binding is verified once more after the ProofPack is written. *)
After(p) ==
  /\ At(p, "after")
  /\ LET st == own[p].status
     IN \/ Intact(cur[p]) /\ st = "delivered" /\ Jump(p, "mark")
        \/ /\ Intact(cur[p]) /\ st = "accepted"
           /\ IF marked[cur[p]] THEN Remember(p) ELSE Jump(p, "unlock")
        \/ ~Intact(cur[p]) /\ GiveUp(p, "unpack")
  /\ UNCHANGED <<files, lock, told, env>>

(* Mutant: the result of markAccepted is not looked at. *)
Mark_Unchecked(p) ==
  /\ At(p, "mark")
  /\ \/ marked' = [marked EXCEPT ![cur[p]] = TRUE] /\ UNCHANGED env
     \/ UNCHANGED marked /\ Fault
  /\ Jump(p, "accept")
  /\ UNCHANGED <<run, pending, decision, pack, file, memory, lock, told>>

(* The pack of a deliverable that changed meanwhile is withdrawn, if it can. *)
Unpack(p) ==
  /\ At(p, "unpack")
  /\ \/ pack' = [pack EXCEPT ![cur[p]] = None] /\ UNCHANGED env
     \/ UNCHANGED pack /\ Fault
  /\ Jump(p, "close")
  /\ UNCHANGED <<run, pending, decision, file, marked, memory, lock, told>>

Mark(p) ==
  /\ At(p, "mark")
  /\ \/ /\ marked' = [marked EXCEPT ![cur[p]] = TRUE]
        /\ Jump(p, "accept") /\ UNCHANGED env
     \/ UNCHANGED marked /\ Jump(p, "unlock") /\ Fault
  /\ UNCHANGED <<run, pending, decision, pack, file, memory, lock, told>>

Accept(p) ==
  /\ At(p, "accept")
  /\ LET rec == AcceptedFrom(own[p], decision[cur[p]])
     IN \/ /\ run' = [run EXCEPT ![cur[p]] = rec]
           /\ own' = [own EXCEPT ![p] = rec]
           /\ Goto(p, "learn")
           /\ todo' = [todo EXCEPT ![p] = Candidates[cur[p]]]
           /\ UNCHANGED <<cur, intent, failed, env>>
        \/ UNCHANGED run /\ Jump(p, "unlock") /\ Fault
  /\ UNCHANGED <<pending, decision, pack, file, marked, memory, lock, told>>

(* addMemory of one candidate: the store is a set, duplicates are skipped.
   After a failure the remaining candidates are still tried. *)
Learn(p) ==
  /\ At(p, "learn")
  /\ \E m \in todo[p] :
       /\ todo' = [todo EXCEPT ![p] = @ \ {m}]
       /\ \/ memory' = memory \union {m} /\ UNCHANGED <<failed, env>>
          \/ UNCHANGED memory /\ failed' = [failed EXCEPT ![p] = TRUE] /\ Fault
  /\ UNCHANGED <<run, pending, decision, pack, file, marked, lock, told,
                 pc, cur, own, intent>>

(* Mutant: the batch is committed after a partial write. *)
Learned_Partial(p) ==
  /\ At(p, "learn")
  /\ todo[p] = {}
  /\ Jump(p, "commit")
  /\ UNCHANGED <<files, lock, told, env>>

(* Mutant: the receipt is dropped although the memory was not committed. *)
Resume_Anyway(p, done) == IF cur[p] \in CliRuns THEN "final" ELSE "remove"

(* Where a session goes once memory is committed, or could not be. *)
Resume(p, done) ==
  CASE cur[p] \in CliRuns -> "final"
    [] done /\ cur[p] \notin CliRuns -> "remove"
    [] OTHER -> "unlock"

Learned(p) ==
  /\ At(p, "learn")
  /\ todo[p] = {}
  /\ Jump(p, IF failed[p] THEN Resume(p, FALSE) ELSE "commit")
  /\ UNCHANGED <<files, lock, told, env>>

Commit(p) ==
  /\ At(p, "commit")
  /\ LET rec == [own[p] EXCEPT !.memory_commit = "committed"]
     IN \/ /\ run' = [run EXCEPT ![cur[p]] = rec]
           /\ own' = [own EXCEPT ![p] = rec]
           /\ Goto(p, Resume(p, TRUE))
           /\ UNCHANGED <<cur, intent, todo, failed, env>>
        \/ UNCHANGED run /\ Jump(p, Resume(p, FALSE)) /\ Fault
  /\ UNCHANGED <<pending, decision, pack, file, marked, memory, lock, told>>

Announce(p, v) == told' = [told EXCEPT ![cur[p]] = @ \union {v}]

(* A receipt that cannot be removed is only logged. *)
Remove(p) ==
  /\ At(p, "remove")
  /\ \/ pending' = [pending EXCEPT ![cur[p]] = FALSE] /\ UNCHANGED env
     \/ UNCHANGED pending /\ Fault
  /\ Announce(p, "accepted")
  /\ Jump(p, "unlock")
  /\ UNCHANGED <<run, decision, pack, file, marked, memory, lock>>

(* Mutant: the answer is stored as the status. *)
ClosingStatus_Raw(i) == i

(* Mutant: a refusal does not look for a decision on disk. *)
Verdict_Blind(p) ==
  /\ At(p, "verdict")
  /\ Jump(p, IF intent[p] = "eof" THEN "unlock" ELSE "close")
  /\ UNCHANGED <<files, lock, told, env>>

(* A refusal: an accept already decided stands; the end of the input leaves
   the receipt for the next session. *)
Verdict(p) ==
  /\ At(p, "verdict")
  /\ Jump(p, IF decision[cur[p]] # None \/ intent[p] = "eof"
             THEN "unlock" ELSE "close")
  /\ UNCHANGED <<files, lock, told, env>>

ClosingStatus(i) ==
  CASE i = "exit" -> "rejected" [] i = "fail" -> "failed" [] OTHER -> "revision_needed"

(* fail-, revise- and cancelTaskModeDelivery: the run first, then the
   ProofPack and the receipt, whose failures are ignored. *)
Close(p) ==
  /\ At(p, "close")
  /\ LET rec == ClosedAs(own[p], ClosingStatus(intent[p]))
     IN \/ /\ run' = [run EXCEPT ![cur[p]] = rec]
           /\ own' = [own EXCEPT ![p] = rec]
           /\ Goto(p, "closePack")
           /\ UNCHANGED <<cur, intent, todo, failed, env>>
        \/ UNCHANGED run /\ Jump(p, "unlock") /\ Fault
  /\ UNCHANGED <<pending, decision, pack, file, marked, memory, lock, told>>

ClosePack(p) ==
  /\ At(p, "closePack")
  /\ \/ pack' = [pack EXCEPT ![cur[p]] = None] /\ UNCHANGED env
     \/ UNCHANGED pack /\ Fault
  /\ Jump(p, "closePending")
  /\ UNCHANGED <<run, pending, decision, file, marked, memory, lock, told>>

ClosePending(p) ==
  /\ At(p, "closePending")
  /\ \/ pending' = [pending EXCEPT ![cur[p]] = FALSE] /\ UNCHANGED env
     \/ UNCHANGED pending /\ Fault
  /\ Announce(p, "rejected")
  /\ Jump(p, "unlock")
  /\ UNCHANGED <<run, decision, pack, file, marked, memory, lock>>

-----------------------------------------------------------------------------
(* The environment.                                                        *)

(* The process is killed between two steps; its lock file stays. *)
Crash(p) ==
  /\ crashes < MaxCrashes
  /\ ~At(p, "off")
  /\ crashes' = crashes + 1 /\ UNCHANGED faults
  /\ lock' = [r \in Runs |-> IF lock[r] = p THEN Dead ELSE lock[r]]
  /\ Forget(p)
  /\ UNCHANGED <<files, told>>

(* The deliverable is edited, replaced or removed on disk. *)
Change(r) ==
  /\ r \in Volatile
  /\ Intact(r)
  /\ file' = [file EXCEPT ![r] = "changed"]
  /\ UNCHANGED <<run, pending, decision, pack, marked, memory, lock,
                 pc, locals, told, env>>

(* Steps a session takes by itself; the rest waits for the user. *)
Run(p) ==
  \/ FindNone(p) \/ FindOne(p) \/ FindBlocked(p)
  \/ Create(p) \/ Final(p) \/ Receipt(p) \/ Abort(p) \/ Note(p)
  \/ Load(p) \/ Bind(p) \/ Decided(p) \/ Verify(p)
  \/ Lock(p) \/ LockTimeout(p) \/ Unlock(p)
  \/ Reload(p) \/ Repending(p) \/ Rebind(p) \/ Decide(p) \/ Settle(p)
  \/ Pack(p) \/ After(p) \/ Unpack(p) \/ Mark(p) \/ Accept(p)
  \/ Learn(p) \/ Learned(p) \/ Commit(p) \/ Remove(p)
  \/ Verdict(p) \/ Close(p) \/ ClosePack(p) \/ ClosePending(p)

User(p) == Start(p) \/ StartCli(p) \/ Answer(p) \/ Delete(p)

Next ==
  \/ \E p \in Sessions : Run(p) \/ User(p) \/ Crash(p)
  \/ \E r \in Runs : Reclaim(r) \/ Change(r)

Spec == Init /\ [][Next]_vars

(* A process keeps running unless it is killed and the user runs the task
   again.  A waiter that meets a stale lock removes it before it looks at its
   own deadline, so a dead holder's lock cannot be met for ever. *)
Fairness ==
  /\ \A p \in Sessions : WF_vars(Run(p)) /\ WF_vars(Start(p))
  /\ \A r \in Runs : SF_vars(Reclaim(r))

FairSpec == Spec /\ Fairness

-----------------------------------------------------------------------------
(* Properties.                                                             *)

FileTypes ==
  /\ run \in [Runs -> RunRecord]
  /\ pending \in [Runs -> BOOLEAN]
  /\ decision \in [Runs -> Decision \union {None}]
  /\ pack \in [Runs -> Sessions \union {None}]
  /\ file \in [Runs -> {"none", "intact", "changed"}]
  /\ marked \in [Runs -> BOOLEAN]
  /\ memory \in SUBSET Lessons
  /\ lock \in [Runs -> Sessions \union {None, Dead}]

LocalTypes ==
  /\ pc \in [Sessions -> Labels]
  /\ cur \in [Sessions -> Runs \union {None}]
  /\ own \in [Sessions -> RunRecord]
  /\ intent \in [Sessions -> Intents]
  /\ todo \in [Sessions -> SUBSET Lessons]
  /\ failed \in [Sessions -> BOOLEAN]
  /\ \A p \in Sessions : pc[p] \notin {"off", "find"} => cur[p] \in Runs

OtherTypes ==
  /\ told \in [Runs -> SUBSET {"accepted", "rejected"}]
  /\ crashes \in 0 .. MaxCrashes
  /\ faults \in 0 .. MaxFaults

(* Every variable keeps its shape, and a session past its search holds a run. *)
TypeOK == FileTypes /\ LocalTypes /\ OtherTypes

(* A run that a workbench accepted rests on a decision receipt that froze it
   as delivered, binds the run by reference, and was followed by the
   artifact's own mark: no crash, stale session or failed write leaves an
   accepted status that recovery could not justify. *)
AcceptedIsBacked ==
  \A r \in Runs \ CliRuns : run[r].status = "accepted" =>
    /\ decision[r] # None
    /\ Freezable(decision[r].frozen)
    /\ run[r].approval_decision = decision[r].by
    /\ marked[r]

(* An accepted run keeps the ProofPack assembled from its own decision, as
   long as its deliverable does not change under it. *)
AcceptedKeepsPack ==
  \A r \in Runs \ (CliRuns \union Volatile) :
    run[r].status = "accepted" => decision[r] # None /\ pack[r] = decision[r].by

(* Memory holds no lesson that some accepted run did not stage: rejection,
   the end of the input and a death before acceptance leave the store
   untouched.  (A run whose deliverable changes at the wrong moment may lose
   its accepted status afterwards, see OnlyLateSavesUndo.) *)
LearnedOnlyFromAccepted ==
  \A m \in memory : \E r \in Runs :
    /\ m \in Candidates[r]
    /\ run[r].status = "accepted" \/ (r \in Volatile /\ run[r].status = "failed")

(* A run whose memory is recorded as committed lost no candidate. *)
CommittedIsLearned ==
  \A r \in Runs : run[r].memory_commit = "committed" => Candidates[r] \subseteq memory

(* Until its memory is committed, an accepted workbench run keeps the
   receipt from which the next session completes it. *)
UnfinishedAcceptKeepsReceipt ==
  \A r \in Runs \ (CliRuns \union Volatile) :
    run[r].status = "accepted" /\ run[r].memory_commit = "staged" => pending[r]

(* Nobody is told that a run was accepted and, before or after, that it was
   rejected. *)
VerdictsAgree == \A r \in Runs \ Volatile : told[r] # {"accepted", "rejected"}

(* An accepted run stays accepted: no stale copy in another session's memory
   overwrites it.  The code does not keep this, see OnlyLateSavesUndo. *)
AcceptedIsFinal ==
  [][\A r \in Runs : run[r].status = "accepted" => run'[r].status = "accepted"]_vars

(* The three saves of a run that the code makes outside the settlement lock
   after somebody may have found its receipt: the creator's two, and that of a
   recovery which met a changed deliverable before it asked for the lock. *)
LateSave(p) ==
  \/ pc[p] \in {"note", "abort"}
  \/ At(p, "close") /\ intent[p] = "fail" /\ lock[cur[p]] # p

(* Nothing but a late save takes the accepted status from a run, however many
   sessions hold the receipt and whatever dies, fails or changes: whoever
   settles under the lock has read the run after he got it. *)
OnlyLateSavesUndo ==
  [][\A r \in Runs :
       run[r].status = "accepted" /\ run'[r].status # "accepted" =>
         \E p \in Sessions : cur[p] = r /\ LateSave(p) /\ pc'[p] # pc[p]]_vars

(* The outcome of a run, as the contract sees it. *)
OutcomeOf(r) ==
  CASE run[r].status = "accepted" -> "accepted"
    [] run[r].status = "failed" -> "failed"
    [] run[r].status \in {"revision_needed", "rejected"} -> "refused"
    [] run[r].status = "delivered" /\ decision[r] # None -> "decided"
    [] OTHER -> "open"

Contract == INSTANCE AcceptanceContract
              WITH outcome <- [r \in Runs |-> OutcomeOf(r)]

(* The files, the lock and the restarts implement the acceptance contract. *)
ImplementsContract == Contract!Spec

(* Once the user's accept is on disk, restarts finish the settlement: the run
   ends accepted with its memory committed and the receipt gone, or failed
   when its ProofPack could not be written. *)
DecidedIsCompleted ==
  \A r \in Runs : decision[r] # None ~>
    \/ run[r].memory_commit = "committed" /\ ~pending[r]
    \/ run[r].status = "failed"

(* A settled run gives the task back: its receipt does not block the
   employee's next run of it. *)
ClosedReleasesTask ==
  \A r \in Runs : run[r].status \in Closed ~> ~pending[r]

=============================================================================
