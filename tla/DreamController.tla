-------------------------- MODULE DreamController --------------------------
(***************************************************************************)
(* The life of a Dream (dream-controller.mjs), a proposed rewriting of an  *)
(* employee's memory: generated and evaluated on the memory it saw,        *)
(* approved or rejected, activated by an atomic swap of the memory file,   *)
(* rolled back to the archived memory.  Every durable write is a step of   *)
(* its own, since the process may die between two, and other processes     *)
(* write the same files: a second workbench, a task that learns, the       *)
(* certifier.                                                              *)
(*                                                                         *)
(* A memory is the set of its facts and stands for its hash, too.  A Dream *)
(* is the memory and the reflections it was assessed on: the bridge makes  *)
(* its id from the two.                                                    *)
(***************************************************************************)
EXTENDS Naturals, Sequences, SequencesExt

CONSTANTS
  Sessions,     \* bridge processes on one employee
  Lessons,      \* facts a task may add
  Insights,     \* facts a curator may write
  Inputs,       \* the pool of reflections, 1..n as it grows
  None,
  Budgets       \* who may be started and what may go wrong in a behaviour

Facts == Lessons \union Insights
Memories == SUBSET Facts
Dreams == [base : Memories, input : Inputs]

ASSUME DreamAssumption ==
  /\ 1 \in Inputs
  /\ None \notin Sessions \union Dreams \union [for : Memories, stale : BOOLEAN, late : BOOLEAN]
  /\ Budgets \subseteq [sessions : SUBSET Sessions, runs : Nat, deaths : Nat, faults : Nat,
                         learns : Nat, reflects : Nat, certs : Nat]

VARIABLES
  memory,       \* the active memory file
  owner,        \* the holder of its lock
  input,        \* the reflections there are now
  job,          \* the state of each Dream's job file
  order,        \* the Dreams in the order of their creation
  files,        \* candidate, diff and validation: how many are written, and what they say
  approval,     \* the approval receipt of each Dream
  archive,      \* archived memories
  receipts,     \* activation ("on") and rollback ("back") receipts
  cert,         \* the latest certificate
  exam,         \* the memory the running certification has read, <<>> when none runs
  origin,       \* ghost: the Dream whose swap the memory rests on
  ss,           \* the sessions
  left          \* what is left of the behaviour's budget

dreamFiles == <<job, order, files, approval>>
swapFiles == <<memory, archive, receipts, origin>>
certVars == <<cert, exam>>
vars == <<dreamFiles, swapFiles, owner, input, certVars, ss, left>>

Asleep == [pc |-> "off", dream |-> None, cand |-> {}, fit |-> FALSE, way |-> "on"]
Unwritten == [count |-> 0, cand |-> {}, fit |-> FALSE]

Init ==
  /\ memory = {} /\ owner = None /\ input = 1
  /\ job = [d \in Dreams |-> "NONE"] /\ order = <<>>
  /\ files = [d \in Dreams |-> Unwritten]
  /\ approval = [d \in Dreams |-> "none"]
  /\ archive = {} /\ receipts = {} /\ origin = None
  /\ cert \in {None, [for |-> {}, stale |-> FALSE, late |-> FALSE]} /\ exam = <<>>
  /\ ss = [s \in Sessions |-> Asleep]
  /\ left \in Budgets

At(s, pc) == ss[s].pc = pc
Goto(s, pc) == ss' = [ss EXCEPT ![s].pc = pc]
Rest(s) == ss' = [ss EXCEPT ![s] = [Asleep EXCEPT !.pc = "idle"]]
Spent(kind) == left[kind] > 0 /\ left' = [left EXCEPT ![kind] = @ - 1]

(* updateDreamJob writes the state whatever it was. *)
Set(s, state) == job' = [job EXCEPT ![ss[s].dream] = state]

-----------------------------------------------------------------------------
(* Starting: only the newest job is looked at, and only if its activation
   was interrupted (the code also names APPROVED, which it never writes). *)

Boot(s) ==
  /\ At(s, "off") /\ s \in left.sessions
  /\ ss' = [ss EXCEPT ![s] =
       IF order # <<>> /\ job[Last(order)] = "ACTIVATING"
       THEN [Asleep EXCEPT !.pc = "check", !.dream = Last(order)]
       ELSE [Asleep EXCEPT !.pc = "idle"]]
  /\ UNCHANGED <<dreamFiles, swapFiles, owner, input, certVars, left>>

-----------------------------------------------------------------------------
(* Generation. *)

Assessed == [base |-> memory, input |-> input]

(* persistDreamRecommendation: the first assessment of a Dream files its job. *)
File(d) ==
  IF job[d] = "NONE"
  THEN job' = [job EXCEPT ![d] = "RECOMMENDED"] /\ order' = Append(order, d)
  ELSE UNCHANGED <<job, order>>

Recommend(s) ==
  /\ At(s, "idle") /\ File(Assessed)
  /\ UNCHANGED <<files, approval, swapFiles, owner, input, certVars, ss, left>>

Run(s) ==
  /\ At(s, "idle") /\ File(Assessed) /\ Spent("runs")
  /\ ss' = [ss EXCEPT ![s].pc = "dreaming", ![s].dream = Assessed]
  /\ UNCHANGED <<files, approval, swapFiles, owner, input, certVars>>

Dreaming(s) ==
  /\ At(s, "dreaming") /\ Set(s, "DREAMING")
  /\ Goto(s, IF memory = ss[s].dream.base THEN "curate" ELSE "fail")
  /\ UNCHANGED <<order, files, approval, swapFiles, owner, input, certVars, left>>

(* What a curator may make of a memory: it drops some facts and writes some,
   and something changes. *)
Curated(base) ==
  {c \in Memories : c # base /\ c \intersect Lessons \subseteq base}

Curate(s) ==
  /\ At(s, "curate")
  /\ \/ /\ Set(s, "VALIDATING")
        /\ \E c \in Curated(ss[s].dream.base) :
             ss' = [ss EXCEPT ![s].pc = "evaluate", ![s].cand = c]
     \/ Goto(s, "fail") /\ UNCHANGED job
  /\ UNCHANGED <<order, files, approval, swapFiles, owner, input, certVars, left>>

(* A candidate whose evaluation is missing, failed or worse than the baseline
   is still written, for review, but is not fit for activation. *)
Evaluate(s) ==
  /\ At(s, "evaluate")
  /\ \/ \E fit \in BOOLEAN : ss' = [ss EXCEPT ![s].pc = "candidate", ![s].fit = fit]
     \/ Goto(s, "fail")
  /\ UNCHANGED <<dreamFiles, swapFiles, owner, input, certVars, left>>

(* writeArtifactIdempotent: each candidate carries the time of its run, so a
   second run of a Dream whose first run wrote one is refused. *)
WriteCandidate(s) ==
  LET d == ss[s].dream IN
  /\ At(s, "candidate")
  /\ IF files[d].count = 0
     THEN /\ files' = [files EXCEPT ![d] = [count |-> 1, cand |-> ss[s].cand, fit |-> ss[s].fit]]
          /\ Goto(s, "reports")
     ELSE Goto(s, "fail") /\ UNCHANGED files
  /\ UNCHANGED <<job, order, approval, swapFiles, owner, input, certVars, left>>

(* The diff, and then the validation. *)
WriteReports(s) ==
  LET d == ss[s].dream IN
  /\ At(s, "reports")
  /\ files' = [files EXCEPT ![d].count = @ + 1]
  /\ Goto(s, IF files[d].count = 1 THEN "reports" ELSE "review")
  /\ UNCHANGED <<job, order, approval, swapFiles, owner, input, certVars, left>>

Review(s) ==
  /\ At(s, "review") /\ Set(s, "REVIEW_REQUIRED") /\ Rest(s)
  /\ UNCHANGED <<order, files, approval, swapFiles, owner, input, certVars, left>>

Fail(s) ==
  /\ At(s, "fail") /\ Set(s, "FAILED") /\ Rest(s)
  /\ UNCHANGED <<order, files, approval, swapFiles, owner, input, certVars, left>>

-----------------------------------------------------------------------------
(* The verdict. The client names a Dream; a receipt is written once, and one
   that is there already counts whatever became of the job. *)

Complete(d) == files[d].count = 3

Approve(s, d) ==
  /\ At(s, "idle") /\ job[d] # "NONE"
  /\ \/ approval[d] = "approve" /\ ss' = [ss EXCEPT ![s].pc = "check", ![s].dream = d]
     \/ /\ approval[d] # "approve" /\ job[d] = "REVIEW_REQUIRED" /\ Complete(d)
        /\ ss' = [ss EXCEPT ![s].pc = "approve", ![s].dream = d]
  /\ UNCHANGED <<dreamFiles, swapFiles, owner, input, certVars, left>>

Reject(s, d) ==
  /\ At(s, "idle") /\ approval[d] # "reject" /\ job[d] \in {"REVIEW_REQUIRED", "RECOMMENDED"}
  /\ ss' = [ss EXCEPT ![s].pc = "reject", ![s].dream = d]
  /\ UNCHANGED <<dreamFiles, swapFiles, owner, input, certVars, left>>

WriteReceipt(s, verdict, next) ==
  LET d == ss[s].dream IN
  IF approval[d] = "none"
  THEN approval' = [approval EXCEPT ![d] = verdict] /\ Goto(s, next)
  ELSE Rest(s) /\ UNCHANGED approval

WriteApproval(s) ==
  /\ At(s, "approve") /\ WriteReceipt(s, "approve", "check")
  /\ UNCHANGED <<job, order, files, swapFiles, owner, input, certVars, left>>

WriteRejection(s) ==
  /\ At(s, "reject") /\ WriteReceipt(s, "reject", "rejected")
  /\ UNCHANGED <<job, order, files, swapFiles, owner, input, certVars, left>>

Rejected(s) ==
  /\ At(s, "rejected") /\ Set(s, "REJECTED") /\ Rest(s)
  /\ UNCHANGED <<order, files, approval, swapFiles, owner, input, certVars, left>>

-----------------------------------------------------------------------------
(* Activation and rollback: blockers, the job's state, and then, under the
   lock of the memory file, the receipt, the certificate and the swap. *)

(* invalidateCertificationForMemoryChange *)
Lapsed(target) ==
  IF cert = None \/ cert.for = target THEN cert ELSE [cert EXCEPT !.stale = TRUE]

(* Mutant: the approval makes up for the evaluation. *)
UnblockedUnfit(d) ==
  Complete(d) /\ approval[d] = "approve" /\ memory \in {d.base, files[d].cand}

(* Mutant: a memory that is swapped already is a changed one. *)
UnblockedAtBase(d) ==
  Complete(d) /\ files[d].fit /\ approval[d] = "approve" /\ memory = d.base

Unblocked(d) ==
  /\ Complete(d) /\ files[d].fit /\ approval[d] = "approve"
  /\ memory \in {d.base, files[d].cand}

(* activateDreamCandidate before its first write; an active Dream is only
   checked again. *)
Check(s) ==
  LET d == ss[s].dream IN
  /\ At(s, "check")
  /\ IF job[d] = "ACTIVE" THEN cert' = Lapsed(memory) /\ Rest(s)
     ELSE /\ IF Unblocked(d) THEN Goto(s, "mark") ELSE Rest(s)
          /\ UNCHANGED cert
  /\ UNCHANGED <<dreamFiles, swapFiles, owner, input, exam, left>>

Rollback(s, d) ==
  /\ At(s, "idle")
  /\ \/ /\ job[d] = "ROLLED_BACK" /\ cert' = Lapsed(memory) /\ UNCHANGED ss
     \/ /\ job[d] \in {"ACTIVE", "ROLLING_BACK"} /\ <<d, "on">> \in receipts
        /\ ss' = [ss EXCEPT ![s] = [Asleep EXCEPT !.pc = "mark", !.dream = d, !.way = "back"]]
        /\ UNCHANGED cert
  /\ UNCHANGED <<dreamFiles, swapFiles, owner, input, exam, left>>

(* Mutant: a rollback is recorded before it is done. *)
MarkDone(s) ==
  /\ At(s, "mark") /\ Set(s, IF ss[s].way = "on" THEN "ACTIVATING" ELSE "ROLLED_BACK")
  /\ Goto(s, "lock")
  /\ UNCHANGED <<order, files, approval, swapFiles, owner, input, certVars, left>>

Mark(s) ==
  /\ At(s, "mark") /\ Set(s, IF ss[s].way = "on" THEN "ACTIVATING" ELSE "ROLLING_BACK")
  /\ Goto(s, "lock")
  /\ UNCHANGED <<order, files, approval, swapFiles, owner, input, certVars, left>>

Source(s) == IF ss[s].way = "on" THEN ss[s].dream.base ELSE files[ss[s].dream].cand
Target(s) == IF ss[s].way = "on" THEN files[ss[s].dream].cand ELSE ss[s].dream.base
Receipt(s) == <<ss[s].dream, ss[s].way>>

(* Mutant: the memory was checked before the lock. *)
EnterUnchecked(s) ==
  /\ At(s, "lock") /\ owner = None
  /\ owner' = s /\ archive' = archive \union {ss[s].dream.base} /\ Goto(s, "receipt")
  /\ UNCHANGED <<dreamFiles, memory, receipts, origin, input, certVars, left>>

(* Under the lock the memory is read again. Anything but what it was, or what
   it is to become by a receipt, throws and leaves the job as it is. *)
Enter(s) ==
  /\ At(s, "lock") /\ owner = None
  /\ CASE memory = Target(s) /\ Receipt(s) \in receipts ->
            owner' = s /\ Goto(s, "stale") /\ UNCHANGED archive
       [] memory = Source(s) /\ memory # Target(s) ->
            /\ owner' = s /\ Goto(s, "receipt")
            /\ archive' = IF ss[s].way = "on" THEN archive \union {memory} ELSE archive
       [] OTHER -> Rest(s) /\ UNCHANGED <<owner, archive>>
  /\ UNCHANGED <<dreamFiles, memory, receipts, origin, input, certVars, left>>

WriteSwapReceipt(s) ==
  /\ At(s, "receipt") /\ receipts' = receipts \union {Receipt(s)} /\ Goto(s, "stale")
  /\ UNCHANGED <<dreamFiles, memory, archive, origin, owner, input, certVars, left>>

(* Mutant: the certificate is left for after the swap. *)
InvalidateAfterwards(s) ==
  /\ At(s, "stale") /\ UNCHANGED <<certVars, owner, left>>
  /\ Goto(s, IF memory = Target(s) THEN "finish" ELSE "swap")
  /\ UNCHANGED <<dreamFiles, swapFiles, input>>

(* The certificate lapses first; if that cannot be written nothing is swapped. *)
Invalidate(s) ==
  /\ At(s, "stale")
  /\ \/ /\ cert' = Lapsed(Target(s)) /\ UNCHANGED left
        /\ IF memory = Target(s) THEN Goto(s, "finish") /\ owner' = None
                                 ELSE Goto(s, "swap") /\ UNCHANGED owner
     \/ /\ cert # Lapsed(Target(s)) /\ Spent("faults")
        /\ Rest(s) /\ owner' = None /\ UNCHANGED cert
  /\ UNCHANGED <<dreamFiles, swapFiles, input, exam>>

Swap(s) ==
  /\ At(s, "swap") /\ memory' = Target(s) /\ owner' = None
  /\ origin' = IF ss[s].way = "on" THEN ss[s].dream ELSE None
  /\ Goto(s, "finish")
  /\ UNCHANGED <<dreamFiles, archive, receipts, input, certVars, left>>

Finish(s) ==
  /\ At(s, "finish") /\ Set(s, IF ss[s].way = "on" THEN "ACTIVE" ELSE "ROLLED_BACK") /\ Rest(s)
  /\ UNCHANGED <<order, files, approval, swapFiles, owner, input, certVars, left>>

-----------------------------------------------------------------------------
(* Everybody else. *)

(* Killed; the lock of a dead owner is reclaimed (StateLock). *)
Die(s) ==
  /\ ~At(s, "off") /\ Spent("deaths")
  /\ ss' = [ss EXCEPT ![s] = Asleep]
  /\ owner' = IF owner = s THEN None ELSE owner
  /\ UNCHANGED <<dreamFiles, swapFiles, input, certVars>>

(* A task that is accepted adds a fact under the lock (addMemory). *)
Learn(f) ==
  /\ owner = None /\ f \notin memory /\ Spent("learns")
  /\ memory' = memory \union {f}
  /\ UNCHANGED <<dreamFiles, archive, receipts, origin, owner, input, certVars, ss>>

Reflect ==
  /\ input + 1 \in Inputs /\ input' = input + 1 /\ Spent("reflects")
  /\ UNCHANGED <<dreamFiles, swapFiles, owner, certVars, ss>>

(* runCertification, a process of its own: it reads the memory, runs its cases
   on that for minutes, and makes the credential of it the latest one, whatever
   the memory is by then.  It takes no memory lock. *)
CertifyBegins ==
  /\ exam = <<>> /\ Spent("certs") /\ exam' = <<memory>>
  /\ UNCHANGED <<dreamFiles, swapFiles, owner, input, cert, ss>>

Credential(examined) == [for |-> examined, stale |-> FALSE, late |-> owner # None]

MakeLatest(credential) == cert' = credential

Certify ==
  /\ exam # <<>> /\ exam' = <<>> /\ MakeLatest(Credential(Head(exam)))
  /\ UNCHANGED <<dreamFiles, swapFiles, owner, input, ss, left>>

-----------------------------------------------------------------------------
Handler(s) ==
  \/ Dreaming(s) \/ Curate(s) \/ Evaluate(s) \/ WriteCandidate(s) \/ WriteReports(s)
  \/ Review(s) \/ Fail(s) \/ WriteApproval(s) \/ WriteRejection(s) \/ Rejected(s)
  \/ Check(s) \/ Mark(s) \/ Enter(s) \/ WriteSwapReceipt(s) \/ Invalidate(s) \/ Swap(s)
  \/ Finish(s)

Client(s) ==
  \/ Recommend(s) \/ Run(s)
  \/ \E d \in Dreams : Approve(s, d) \/ Reject(s, d) \/ Rollback(s, d)

Next ==
  \/ \E s \in Sessions : Boot(s) \/ Client(s) \/ Handler(s) \/ Die(s)
  \/ \E f \in Lessons : Learn(f)
  \/ Reflect \/ CertifyBegins \/ Certify

Spec == Init /\ [][Next]_vars

(* A handler runs to its end and the workbench is opened again. *)
Fairness == \A s \in Sessions : WF_vars(Handler(s)) /\ WF_vars(Boot(s))
FairSpec == Spec /\ Fairness

-----------------------------------------------------------------------------
JobStates ==
  {"NONE", "RECOMMENDED", "DREAMING", "VALIDATING", "REVIEW_REQUIRED", "FAILED",
   "REJECTED", "ACTIVATING", "ACTIVE", "ROLLING_BACK", "ROLLED_BACK"}

Labels ==
  {"off", "idle", "dreaming", "curate", "evaluate", "candidate", "reports", "review", "fail",
   "approve", "reject", "rejected", "check", "mark", "lock", "receipt", "stale", "swap", "finish"}

Session == [pc : Labels, dream : Dreams \union {None}, cand : Memories, fit : BOOLEAN,
            way : {"on", "back"}]

Certificate == [for : Memories, stale : BOOLEAN, late : BOOLEAN]

(* Every variable keeps its shape. *)
TypeOK ==
  /\ memory \in Memories /\ owner \in Sessions \union {None} /\ input \in Inputs
  /\ job \in [Dreams -> JobStates] /\ order \in Seq(Dreams)
  /\ files \in [Dreams -> [count : 0..3, cand : Memories, fit : BOOLEAN]]
  /\ approval \in [Dreams -> {"none", "approve", "reject"}]
  /\ archive \subseteq Memories /\ receipts \subseteq Dreams \X {"on", "back"}
  /\ cert \in Certificate \union {None}
  /\ exam \in {<<>>} \union {<<m>> : m \in Memories}
  /\ origin \in Dreams \union {None}
  /\ ss \in [Sessions -> Session]

(* good-employee-standard-v1.md:63: the memory only ever becomes that of a
   Dream that was approved and passed its evaluation, and the memory before it
   is archived with a receipt, whoever rejected it, generated it again or
   died meanwhile. *)
ActiveIsApproved ==
  origin # None =>
    /\ approval[origin] = "approve" /\ Complete(origin) /\ files[origin].fit
    /\ origin.base \in archive /\ <<origin, "on">> \in receipts

(* With one workbench at a time, the memory of a Dream can be rolled back:
   nothing takes its job out of the states rollback accepts, but a rollback at
   its end and the generation of the very same Dream once more, which the code
   allows when memory is what the Dream was made of again. *)
Revocable == {"ACTIVATING", "ACTIVE", "ROLLING_BACK"}

RollbackStaysPossible ==
  [][(\E s \in Sessions : left.sessions = {s}) /\ origin' # None
       /\ job'[origin'] \notin Revocable =>
         /\ origin' = origin
         /\ \/ job[origin] \notin Revocable
            \/ \E s \in Sessions :
                 /\ ss[s].dream = origin
                 /\ (At(s, "dreaming") \/ (At(s, "finish") /\ ss[s].way = "back"))]_vars

(* A lesson learned while a Dream was curated, reviewed or activated is never
   overwritten: memory only grows by a fact, or goes from exactly the memory a
   Dream was made of to its candidate, or back. *)
NothingLost ==
  [][\/ \E f \in Lessons : memory' = memory \union {f}
     \/ \E d \in Dreams : /\ Complete(d)
                          /\ {memory, memory'} = {d.base, files[d].cand}]_memory

(* good-employee-standard-v1.md:65: the certificate lapses before memory is
   switched, and repeating an operation on an unchanged memory does not make a
   current certificate lapse. Late is one issued while the lock was held. *)
CertificateFollowsMemory ==
  [][/\ origin' # origin /\ cert # None => cert.stale \/ cert.late \/ cert.for = memory'
     /\ (cert # None /\ cert' # cert /\ cert'.stale) =>
          (cert.for # memory \/ \E s \in Sessions : owner = s /\ Target(s) # cert.for)]_vars

(* A swap whose job does not say so yet, of the newest Dream, still in memory. *)
Interrupted ==
  /\ origin # None /\ job[origin] = "ACTIVATING" /\ memory = files[origin].cand
  /\ Last(order) = origin

(* An activation that died after its swap is finished by the next start, if it
   is still the newest Dream and its memory is still there (and unless a write
   failed in that start, too, which leaves it to the start after). *)
InterruptedActivationFinishes == Interrupted ~> ~Interrupted

=============================================================================
