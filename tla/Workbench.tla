----------------------------- MODULE Workbench -----------------------------
(***************************************************************************)
(* The workbench bridge (tui/jsonl-bridge.mjs): one process per client,    *)
(* reading lines from it while one task runs, holding at most one          *)
(* deliverable for its verdict, and keeping the receipt, the decision, the *)
(* ledgers and the growth cycle on disk through deaths and restarts.       *)
(*                                                                         *)
(* A line of the client is handled without interruption up to the next     *)
(* await; the awaits of a running task are the program counters in         *)
(* Awaiting, between which lines of any kind are handled.  The durable     *)
(* writes of a settlement are one step each, because the process may die   *)
(* between two of them.                                                    *)
(***************************************************************************)
EXTENDS Naturals, FiniteSets, GrowthCycle

CONSTANTS
  Bridges,      \* bridge processes on one workspace and one employee
  Tasks,        \* task run ids; a task is taken from the unused ones
  Dreams,       \* Dream jobs that may be decided on
  None,
  Cap,          \* booked tasks after which the monthly budget may be reached
  TrustAfter,   \* accepted tasks after which the trust policy may apply
  Faults,       \* kinds of writes that may fail
  MaxQueue,
  Budgets       \* the troubles, tasks and Dreams a behaviour may have

Cycles == Dreams \union Tasks      \* a revision is named by the task it revises

ASSUME NoneAssumption == None \notin Cycles
ASSUME BoundsAssumption ==
  /\ MaxQueue \in Nat
  /\ Budgets \subseteq [tasks : SUBSET Tasks, dreams : SUBSET Dreams,
                        faults : Nat, deaths : Nat, edits : Nat]

VARIABLES
  receipt,      \* tasks with a pending-approval file
  decision,     \* the verdict in the approval-decision file
  artifact, pack,
  kpi, spent,   \* the two ledgers, by task
  cycles,       \* the growth cycle files
  order,        \* the cycles by their time stamp
  bound, goal,  \* the cycle a task was bound to, and the one whose goal it was given
  shown,        \* terminal and approval events written to a client
  br,           \* the bridges
  left          \* what is left of the behaviour's budget

disk == <<receipt, decision, artifact, pack, kpi, spent, cycles, order>>
ghost == <<bound, goal, shown>>
vars == <<disk, ghost, br, left>>

Awaiting == {"preflight", "blocked", "overspent", "route", "drain", "failing"}
Settling == {"decide", "verify", "pack", "recheck", "kpi", "spend", "announce",
             "refuse", "settle", "evaluate", "learn", "follow", "unlink", "forget"}

Asleep ==
  [pc |-> "off", task |-> None, gen |-> FALSE, live |-> FALSE, cancelled |-> FALSE,
   wait |-> "none", over |-> FALSE, exempt |-> FALSE, result |-> "none",
   pending |-> None, queued |-> 0, growth |-> None, closing |-> FALSE,
   held |-> None, verdict |-> "none", after |-> "none", lost |-> FALSE]

Unused == {t \in left.tasks : shown[t] = {}}
Fresh == CHOOSE t \in Unused : TRUE
Busy(b) == \/ br[b].pc \in Awaiting \union {"offer"}
           \/ br[b].pc \in Settling /\ br[b].after = "task"

Spent(kind) == left[kind] > 0 /\ left' = [left EXCEPT ![kind] = @ - 1]
Fails(write) == write \in Faults /\ Spent("faults")
NoFault == UNCHANGED left

Show(t, e) == shown' = [shown EXCEPT ![t] = @ \union {e}]

Write(c, cycle) ==
  /\ cycles' = [cycles EXCEPT ![c] = cycle]
  /\ order' = IF cycle = cycles[c] THEN order ELSE Stamped(order, c)

Init ==
  /\ receipt = {} /\ pack = {} /\ spent = {} /\ order = <<>>
  /\ decision = [t \in Tasks |-> "none"]
  /\ artifact = [t \in Tasks |-> "none"]
  /\ kpi = [t \in Tasks |-> "none"]
  /\ cycles = [c \in Cycles |-> Missing]
  /\ bound = [t \in Tasks |-> None]
  /\ goal = [t \in Tasks |-> None]
  /\ shown = [t \in Tasks |-> {}]
  /\ br = [b \in Bridges |-> Asleep]
  /\ left \in Budgets

-----------------------------------------------------------------------------
(* Start: recover the latest cycle, then the receipt that is waiting. *)

Boot(b) ==
  /\ br[b].pc = "off"
  /\ br' = [br EXCEPT ![b] = [Asleep EXCEPT !.pc = "recover"]]
  /\ UNCHANGED <<disk, ghost, left>>

(* recoverGrowthCycle: the bridge saves no TaskRun, so only a cycle that was
   settled already is taken further. *)
Recover(b) ==
  LET c == Latest(order) IN
  /\ br[b].pc = "recover"
  /\ IF c \in Cycles /\ cycles[c].state \in {"DELIVERED", "REJECTED", "EVALUATED"}
     THEN /\ Write(c, IF cycles[c].state = "EVALUATED" THEN Learned(cycles[c])
                                                       ELSE Evaluated(cycles[c]))
          /\ UNCHANGED br
     ELSE /\ br' = [br EXCEPT ![b].pc = "restore"]
          /\ UNCHANGED <<cycles, order>>
  /\ UNCHANGED <<receipt, decision, artifact, pack, kpi, spent, ghost, left>>

(* Mutant: a receipt with a decision is not taken up again. *)
RestoreSkipsDecided(b) ==
  /\ br[b].pc = "restore"
  /\ br' = [br EXCEPT ![b].pc = "idle",
               ![b].pending = IF \E t \in receipt : receipt = {t} /\ decision[t] = "none"
                              THEN CHOOSE t \in receipt : TRUE ELSE None]
  /\ UNCHANGED <<disk, ghost, left>>

(* readPendingDelivery: none, several (it refuses to choose), or one, which is
   offered again or completed as it was decided. *)
Restore(b) ==
  /\ br[b].pc = "restore"
  /\ \/ /\ Cardinality(receipt) # 1
        /\ br' = [br EXCEPT ![b].pc = "idle"]
     \/ \E t \in receipt :
          /\ receipt = {t}
          /\ br' = [br EXCEPT
               ![b].held = t, ![b].after = "start",
               ![b].verdict = IF artifact[t] # "intact" THEN "fail" ELSE decision[t],
               ![b].pc = IF artifact[t] # "intact" THEN "refuse"
                         ELSE IF decision[t] = "accept" THEN "verify"
                         ELSE IF decision[t] = "reject" THEN "kpi" ELSE "idle",
               ![b].pending = IF artifact[t] = "intact" /\ decision[t] = "none"
                              THEN t ELSE None]
  /\ UNCHANGED <<disk, ghost, left>>

-----------------------------------------------------------------------------
(* A task, from its line to the delivery. *)

(* The user may raise the cap at any time, so reaching it need not block. *)
Over == IF Cardinality(spent) >= Cap THEN BOOLEAN ELSE {FALSE}

Begun(r, t, over, exempt) ==
  [r EXCEPT !.pc = "preflight", !.task = t, !.gen = TRUE, !.live = TRUE,
            !.cancelled = FALSE, !.wait = "none", !.result = "none",
            !.over = over, !.exempt = exempt,
            !.held = None, !.verdict = "none", !.after = "none", !.lost = FALSE]

Idle(b) == br[b].pc = "idle" /\ ~br[b].closing

(* A message that finds the bridge free starts a task; one that finds it busy
   is queued; one that finds a held deliverable is dropped. *)
Message(b) ==
  /\ Idle(b) /\ br[b].pending = None /\ Unused # {}
  /\ \E over \in Over : br' = [br EXCEPT ![b] = Begun(@, Fresh, over, FALSE)]
  /\ Show(Fresh, "started")
  /\ UNCHANGED <<disk, bound, goal, left>>

Queue(b) ==
  /\ br[b].pc \in Awaiting /\ br[b].wait = "none" /\ ~br[b].closing
  /\ br[b].queued < MaxQueue
  /\ br' = [br EXCEPT ![b].queued = @ + 1]
  /\ UNCHANGED <<disk, ghost, left>>

(* scheduleQueuedInput took a line: a task, or (always, when the task ids of
   the model are used up) a line that starts none. *)
Dequeue(b) ==
  /\ br[b].pc = "dequeue"
  /\ IF Unused = {}
     THEN br' = [br EXCEPT ![b].pc = "idle", ![b].queued = 0] /\ UNCHANGED shown
     ELSE /\ \E over \in Over :
               br' = [br EXCEPT ![b] = Begun([@ EXCEPT !.queued = br[b].queued - 1],
                                                Fresh, over, FALSE)]
          /\ Show(Fresh, "started")
  /\ UNCHANGED <<disk, bound, goal, left>>

(* scheduleQueuedInput. *)
Scheduled(r) ==
  IF r.closing THEN "off"
  ELSE IF r.queued > 0 /\ r.pending = None THEN "dequeue" ELSE "idle"

(* The finally block of handleLine. *)
Ended(r) ==
  LET q == [r EXCEPT !.task = None, !.gen = FALSE, !.live = FALSE, !.wait = "none",
                     !.cancelled = FALSE, !.result = "none", !.over = FALSE,
                     !.exempt = FALSE, !.held = None, !.verdict = "none",
                     !.after = "none", !.lost = FALSE]
  IN [q EXCEPT !.pc = Scheduled(q)]

(* The catch block: a task that is neither cancelled nor closed fails. *)
Thrown(r) ==
  IF r.closing \/ r.cancelled THEN Ended(r) ELSE [r EXCEPT !.pc = "failing"]

(* After the preflight: blocked, over budget, or on to the model, with the
   approved growth cycle if there is one. *)
Preflight(b) ==
  LET r == br[b] IN
  /\ r.pc = "preflight"
  /\ \/ ~r.exempt /\ br' = [br EXCEPT ![b].pc = "blocked"]
        /\ UNCHANGED <<cycles, order, bound>>
     \/ ~r.exempt /\ r.over /\ br' = [br EXCEPT ![b].pc = "overspent"]
        /\ UNCHANGED <<cycles, order, bound>>
     \/ /\ r.exempt \/ ~r.over
        /\ IF r.growth = None
           THEN br' = [br EXCEPT ![b].pc = "route"] /\ UNCHANGED <<cycles, order, bound>>
           ELSE IF Legal(cycles[r.growth], "RUNNING", StartKey(r.task))
           THEN /\ Write(r.growth, Started(cycles[r.growth], r.task))
                /\ bound' = [bound EXCEPT ![r.task] = r.growth]
                /\ br' = [br EXCEPT ![b].pc = "route", ![b].growth = None]
           ELSE br' = [br EXCEPT ![b] = Thrown(@)] /\ UNCHANGED <<cycles, order, bound>>
  /\ UNCHANGED <<receipt, decision, artifact, pack, kpi, spent, goal, shown, left>>

Outcome(t, o) == kpi' = IF kpi[t] = "none" THEN [kpi EXCEPT ![t] = o] ELSE kpi

(* A blocked preflight: task.blocked, and then the use of
   growthCycleIdForTask before its declaration throws. *)
Blocked(b) ==
  LET r == br[b] IN
  /\ r.pc = "blocked"
  /\ IF r.live THEN Show(r.task, "blocked") ELSE UNCHANGED shown
  /\ Outcome(r.task, "blocked")
  /\ br' = [br EXCEPT ![b] = Thrown([@ EXCEPT !.live = FALSE, !.gen = FALSE])]
  /\ UNCHANGED <<receipt, decision, artifact, pack, spent, cycles, order, bound, goal, left>>

Overspent(b) ==
  LET r == br[b] IN
  /\ r.pc = "overspent"
  /\ IF r.live THEN Show(r.task, "blocked") ELSE UNCHANGED shown
  /\ Outcome(r.task, "blocked")
  /\ br' = [br EXCEPT ![b] = Ended(@)]
  /\ UNCHANGED <<receipt, decision, artifact, pack, spent, cycles, order, bound, goal, left>>

(* The agent asks for an authorization or an answer; the client gives it. *)
Ask(b) ==
  /\ br[b].pc = "route" /\ br[b].gen /\ br[b].wait = "none" /\ ~br[b].closing
  /\ br' = [br EXCEPT ![b].wait = "asked"]
  /\ UNCHANGED <<disk, ghost, left>>

Reply(b) ==
  /\ br[b].wait = "asked"
  /\ br' = [br EXCEPT ![b].wait = "none"]
  /\ UNCHANGED <<disk, ghost, left>>

(* persistDeliverable: the file, its metadata and artifact.created. *)
Produced(t) == [artifact EXCEPT ![t] = "intact"]

(* routeTurn returns or throws. A search that cannot be done is reported as
   blocked by the router itself; a cancelled model call throws, so only the
   routes that call no model return after a cancel. *)
Route(b) ==
  LET r == br[b] IN
  /\ r.pc = "route" /\ r.wait = "none"
  /\ \E o \in {"deliverable", "plain", "blocked", "error"} :
       /\ o = "deliverable" => ~r.cancelled
       /\ artifact' = IF o = "deliverable" THEN Produced(r.task) ELSE artifact
       /\ IF o = "blocked" /\ ~r.closing THEN Show(r.task, "blocked") ELSE UNCHANGED shown
       /\ br' = [br EXCEPT ![b] =
            IF o = "error" THEN Thrown(r)
            ELSE IF r.closing THEN Ended(r)
            ELSE [r EXCEPT !.pc = "drain", !.result = o,
                           !.gen = r.gen /\ o # "blocked",
                           !.live = r.live /\ o # "blocked"]]
  /\ UNCHANGED <<receipt, decision, pack, kpi, spent, cycles, order, bound, goal, left>>

(* The stream has drained. A deliverable is refused when it cannot be read,
   accepted by the trust policy, or written down as pending. *)
Deliver(b) ==
  LET r == br[b]
      t == r.task
      trusted == Cardinality({u \in Tasks : kpi[u] = "accepted"}) >= TrustAfter
      Refuse == /\ br' = [br EXCEPT ![b].pc = "refuse", ![b].held = t,
                                    ![b].verdict = "fail", ![b].after = "task"]
                /\ UNCHANGED <<receipt, decision>>
  IN
  /\ r.pc = "drain" /\ r.result = "deliverable"
  /\ \/ /\ artifact[t] = "deleted" /\ Refuse /\ NoFault
     \/ /\ artifact[t] # "deleted"
        /\ \/ Fails("receipt") /\ Refuse
           \/ /\ trusted /\ Fails("decision") /\ UNCHANGED decision
              /\ receipt' = receipt \union {t}
              /\ br' = [br EXCEPT ![b].pc = "refuse", ![b].held = t,
                                  ![b].verdict = "fail", ![b].after = "task"]
           \/ /\ NoFault
              /\ receipt' = receipt \union {t}
              /\ \/ /\ br' = [br EXCEPT ![b].pc = "offer"]
                    /\ UNCHANGED decision
                 \/ /\ trusted
                    /\ decision' = [decision EXCEPT ![t] = "accept"]
                    /\ br' = [br EXCEPT ![b].pc = "verify", ![b].held = t,
                                        ![b].verdict = "accept", ![b].after = "task"]
  /\ artifact' = IF artifact[t] = "changed"      \* fingerprinted as it is now
                 THEN [artifact EXCEPT ![t] = "intact"] ELSE artifact
  /\ UNCHANGED <<pack, kpi, spent, cycles, order, ghost>>

(* pendingApproval is set, then the cycle is told, then the client is asked. *)
Offer(b) ==
  LET r == br[b]
      t == r.task
      c == bound[t]
  IN
  /\ r.pc = "offer"
  /\ IF c # None /\ ~Legal(cycles[c], "AWAITING_DELIVERY_APPROVAL", DeliveryKey(t))
     THEN /\ br' = [br EXCEPT ![b] = Thrown([@ EXCEPT !.pending = t])]
          /\ UNCHANGED <<cycles, order, shown>>
     ELSE /\ br' = [br EXCEPT ![b] = Ended([@ EXCEPT !.pending = t])]
          /\ Show(t, "requested")
          /\ IF c = None THEN UNCHANGED <<cycles, order>>
             ELSE Write(c, Moved(cycles[c], "AWAITING_DELIVERY_APPROVAL", DeliveryKey(t)))
  /\ UNCHANGED <<receipt, decision, artifact, pack, kpi, spent, bound, goal, left>>

(* settleGrowthOutcome for an outcome that is not a verdict. *)
Settle(t, outcome) ==
  IF bound[t] # None /\ MaySettle(cycles[bound[t]], t, outcome)
  THEN Write(bound[t], Settled(cycles[bound[t]], t, outcome))
  ELSE UNCHANGED <<cycles, order>>

(* A turn without a deliverable. *)
Complete(b) ==
  LET r == br[b] IN
  /\ r.pc = "drain" /\ r.result = "plain"
  /\ Show(r.task, "completed")
  /\ Outcome(r.task, "completed") \/ UNCHANGED kpi      \* an unscored turn is not booked
  /\ spent' = spent \union {r.task}
  /\ Settle(r.task, "failed")
  /\ br' = [br EXCEPT ![b] = Ended(@)]
  /\ UNCHANGED <<receipt, decision, artifact, pack, bound, goal, left>>

CorrectlyBlocked(b) ==
  /\ br[b].pc = "drain" /\ br[b].result = "blocked"
  /\ Outcome(br[b].task, "blocked")
  /\ br' = [br EXCEPT ![b] = Ended(@)]
  /\ UNCHANGED <<receipt, decision, artifact, pack, spent, cycles, order, ghost, left>>

(* The catch block after its await: task.rejected, and then the name
   growthCycleIdForTask is out of scope, so the cycle is not settled. *)
Failing(b) ==
  /\ br[b].pc = "failing"
  /\ Show(br[b].task, "failed")
  /\ br' = [br EXCEPT ![b] = Ended(@)]
  /\ UNCHANGED <<disk, bound, goal, left>>

-----------------------------------------------------------------------------
(* The verdict on the held deliverable. *)

Judge(b, verdict, after) ==
  /\ Idle(b) /\ br[b].pending # None
  /\ br' = [br EXCEPT ![b].pc = "decide", ![b].held = br[b].pending,
                      ![b].verdict = verdict, ![b].after = after]

Accept(b) == Judge(b, "accept", "line") /\ UNCHANGED <<disk, ghost, left>>
Reject(b) == Judge(b, "reject", "line") /\ UNCHANGED <<disk, ghost, left>>
Revise(b) ==
  /\ Cardinality(Unused) > br[b].queued    \* a revision is a task of its own
  /\ Judge(b, "revise", "revise") /\ UNCHANGED <<disk, ghost, left>>

Delete(b) ==
  /\ Judge(b, "reject", "line")
  /\ artifact[br[b].pending] = "intact"
  /\ artifact' = [artifact EXCEPT ![br[b].pending] = "deleted"]
  /\ UNCHANGED <<receipt, decision, pack, kpi, spent, cycles, order, ghost, left>>

(* What a settlement returns to: the line, a revision task, the running task,
   or the start of the bridge. Only a settlement that succeeded schedules the
   queued input. *)
Returned(b, ok) ==
  LET r == br[b]
      done == [r EXCEPT !.held = None, !.verdict = "none", !.after = "none",
                        !.lost = FALSE, !.pc = "idle"]
  IN CASE r.after = "task" -> br' = [br EXCEPT ![b] = Ended(r)] /\ UNCHANGED shown
       [] r.after = "revise" /\ r.pending = None /\ Unused # {} ->
            br' = [br EXCEPT ![b] = Begun(done, Fresh, FALSE, TRUE)] /\ Show(Fresh, "started")
       [] r.after = "line" /\ ok ->
            br' = [br EXCEPT ![b] = [done EXCEPT !.pc = Scheduled(done)]] /\ UNCHANGED shown
       [] OTHER -> br' = [br EXCEPT ![b] = done] /\ UNCHANGED shown

Verdict(b) == IF br[b].verdict = "revise" THEN "reject" ELSE br[b].verdict

(* Mutant: the last decision wins. *)
DecideAgain(b) ==
  LET t == br[b].held IN
  /\ br[b].pc = "decide" /\ NoFault
  /\ decision' = [decision EXCEPT ![t] = Verdict(b)]
  /\ br' = [br EXCEPT ![b].pending = None,
                      ![b].pc = IF Verdict(b) = "accept" THEN "verify" ELSE "kpi"]
  /\ UNCHANGED <<receipt, artifact, pack, kpi, spent, cycles, order, ghost>>

(* persistDeliveryDecision: the first decision stays; the opposite is refused. *)
Decide(b) ==
  LET t == br[b].held IN
  /\ br[b].pc = "decide"
  /\ \/ /\ \/ Fails("decision") /\ decision[t] = "none"
           \/ decision[t] \notin {"none", Verdict(b)} /\ NoFault
        /\ Returned(b, FALSE) /\ UNCHANGED decision
     \/ /\ decision[t] \in {"none", Verdict(b)} /\ NoFault
        /\ decision' = [decision EXCEPT ![t] = Verdict(b)]
        /\ br' = [br EXCEPT ![b].pending = None,
                            ![b].pc = IF Verdict(b) = "accept" THEN "verify" ELSE "kpi"]
        /\ UNCHANGED shown
  /\ UNCHANGED <<receipt, artifact, pack, kpi, spent, cycles, order, bound, goal>>

Fail(b) == br' = [br EXCEPT ![b].pc = "refuse", ![b].verdict = "fail"]

Verify(b) ==
  /\ br[b].pc = "verify"
  /\ IF artifact[br[b].held] = "intact" THEN br' = [br EXCEPT ![b].pc = "pack"] ELSE Fail(b)
  /\ UNCHANGED <<disk, ghost, left>>

Pack(b) ==
  /\ br[b].pc = "pack"
  /\ \/ Fails("pack") /\ Fail(b) /\ UNCHANGED <<pack>>
     \/ /\ NoFault /\ pack' = pack \union {br[b].held}
        /\ br' = [br EXCEPT ![b].pc = "recheck"]
  /\ UNCHANGED <<receipt, decision, artifact, kpi, spent, cycles, order, ghost>>

Recheck(b) ==
  /\ br[b].pc = "recheck"
  /\ IF artifact[br[b].held] = "intact"
     THEN br' = [br EXCEPT ![b].pc = "kpi"] /\ UNCHANGED pack
     ELSE Fail(b) /\ pack' = pack \ {br[b].held}
  /\ UNCHANGED <<receipt, decision, artifact, kpi, spent, cycles, order, ghost, left>>

(* Mutant: the receipt goes when the outcome is booked. *)
KpiUnlinks(b) ==
  LET v == IF Verdict(b) = "accept" THEN "accepted" ELSE "rejected" IN
  /\ br[b].pc = "kpi" /\ NoFault /\ Outcome(br[b].held, v)
  /\ receipt' = receipt \ {br[b].held}
  /\ br' = [br EXCEPT ![b].pc = "spend"]
  /\ UNCHANGED <<decision, artifact, pack, spent, cycles, order, ghost>>

(* recordTaskOutcome and recordSpend, each by task id and each once; when one
   of them cannot be written the deliverable is held again. *)
Kpi(b) ==
  LET v == IF Verdict(b) = "accept" THEN "accepted" ELSE "rejected" IN
  /\ br[b].pc = "kpi"
  /\ \/ /\ Fails("kpi") /\ UNCHANGED <<kpi>>
        /\ br' = [br EXCEPT ![b].pc = "spend", ![b].lost = TRUE]
     \/ /\ NoFault /\ Outcome(br[b].held, v)
        /\ br' = [br EXCEPT ![b].pc = "spend"]
  /\ UNCHANGED <<receipt, decision, artifact, pack, spent, cycles, order, ghost>>

Hold(b) ==   \* the deliverable is pending again; the handler returns false
  LET r == [br[b] EXCEPT !.pending = br[b].held] IN
  br' = [br EXCEPT ![b] = IF r.after = "task" THEN Ended(r)
                          ELSE [r EXCEPT !.pc = "idle", !.held = None, !.after = "none",
                                         !.verdict = "none", !.lost = FALSE]]

(* Mutant: the lost outcome is forgotten. *)
SpendIgnoresLost(b) ==
  /\ br[b].pc = "spend" /\ NoFault
  /\ spent' = spent \union {br[b].held}
  /\ br' = [br EXCEPT ![b].pc = "announce"]
  /\ UNCHANGED <<receipt, decision, artifact, pack, kpi, cycles, order, ghost>>

Spend(b) ==
  /\ br[b].pc = "spend"
  /\ \/ Fails("spend") /\ Hold(b) /\ UNCHANGED <<spent>>
     \/ /\ NoFault /\ spent' = spent \union {br[b].held}
        /\ IF br[b].lost THEN Hold(b) ELSE br' = [br EXCEPT ![b].pc = "announce"]
  /\ UNCHANGED <<receipt, decision, artifact, pack, kpi, cycles, order, ghost>>

Announce(b) ==
  /\ br[b].pc = "announce"
  /\ Show(br[b].held, IF Verdict(b) = "accept" THEN "accepted" ELSE "rejected")
  /\ br' = [br EXCEPT ![b].pc = "settle"]
  /\ UNCHANGED <<disk, bound, goal, left>>

(* failDeliverySettlement: no verdict, no KPI, the cost is still booked. *)
Refuse(b) ==
  /\ br[b].pc = "refuse"
  /\ Show(br[b].held, "failed")
  /\ spent' = spent \union {br[b].held}
  /\ br' = [br EXCEPT ![b].pc = "settle"]
  /\ UNCHANGED <<receipt, decision, artifact, pack, kpi, cycles, order, bound, goal, left>>

(* Mutant: a settlement that failed is a rejection. *)
GrowthOutcomeRejects(b) ==
  [accept |-> "accepted", reject |-> "rejected", revise |-> "revision_needed",
   fail |-> "rejected"][br[b].verdict]

GrowthOutcome(b) ==
  [accept |-> "accepted", reject |-> "rejected", revise |-> "revision_needed",
   fail |-> "failed"][br[b].verdict]

(* settleGrowthOutcome, write by write; an illegal move is caught and leaves
   the cycle where it is. *)
SettleCycle(b) ==
  LET t == br[b].held
      c == bound[t]
      legal == c # None /\ MaySettle(cycles[c], t, GrowthOutcome(b))
  IN
  /\ br[b].pc = "settle"
  /\ Settle(t, GrowthOutcome(b))
  /\ br' = [br EXCEPT ![b].pc = IF legal /\ br[b].verdict # "fail" THEN "evaluate"
                                ELSE "unlink"]
  /\ UNCHANGED <<receipt, decision, artifact, pack, kpi, spent, ghost, left>>

Evaluate(b) ==
  LET c == bound[br[b].held] IN
  /\ br[b].pc = "evaluate"
  /\ IF cycles[c].state \in {"DELIVERED", "REJECTED"}
     THEN Write(c, Evaluated(cycles[c])) ELSE UNCHANGED <<cycles, order>>
  /\ br' = [br EXCEPT ![b].pc = "learn"]
  /\ UNCHANGED <<receipt, decision, artifact, pack, kpi, spent, ghost, left>>

Learn(b) ==
  LET c == bound[br[b].held] IN
  /\ br[b].pc = "learn"
  /\ IF cycles[c].state = "EVALUATED"
     THEN Write(c, Learned(cycles[c])) ELSE UNCHANGED <<cycles, order>>
  /\ br' = [br EXCEPT ![b].pc = "follow"]
  /\ UNCHANGED <<receipt, decision, artifact, pack, kpi, spent, ghost, left>>

(* A refused cycle gets a revision; an accepted one the next Dream, when the
   assessment recommends one and a client has asked for Dream events. *)
Follow(b) ==
  LET t == br[b].held
      c == bound[t]
  IN
  /\ br[b].pc = "follow"
  /\ \/ /\ Verdict(b) = "reject" /\ cycles[t] = Missing
        /\ Write(t, Recommended("dream_revision"))
     \/ /\ Verdict(b) = "accept" /\ br[b].after # "start"
        /\ Legal(cycles[c], "NEXT_RECOMMENDED", NextKey)
        /\ Write(c, Moved(cycles[c], "NEXT_RECOMMENDED", NextKey))
     \/ /\ Verdict(b) = "accept" \/ cycles[t] # Missing
        /\ UNCHANGED <<cycles, order>>
  /\ br' = [br EXCEPT ![b].pc = "unlink"]
  /\ UNCHANGED <<receipt, decision, artifact, pack, kpi, spent, ghost, left>>

(* removePendingDelivery: the receipt, then the decision. *)
Unlink(b) ==
  /\ br[b].pc = "unlink"
  /\ \/ /\ Fails("unlink") /\ UNCHANGED <<receipt>>
        /\ Returned(b, br[b].verdict # "fail")
     \/ /\ NoFault /\ receipt' = receipt \ {br[b].held}
        /\ br' = [br EXCEPT ![b].pc = "forget"] /\ UNCHANGED shown
  /\ UNCHANGED <<decision, artifact, pack, kpi, spent, cycles, order, bound, goal>>

Forget(b) ==
  /\ br[b].pc = "forget"
  /\ decision' = [decision EXCEPT ![br[b].held] = "none"]
  /\ Returned(b, br[b].verdict # "fail")
  /\ UNCHANGED <<receipt, artifact, pack, kpi, spent, cycles, order, bound, goal, left>>

-----------------------------------------------------------------------------
(* Cancelling, leaving, dying. *)

(* Mutant: the question of the cancelled task stays open. *)
CancelLeavesQuestion(b) ==
  LET r == br[b] IN
  /\ r.pc \in Awaiting /\ r.live
  /\ br' = [br EXCEPT ![b].cancelled = TRUE, ![b].gen = FALSE, ![b].live = FALSE]
  /\ Show(r.task, "blocked")
  /\ Settle(r.task, "cancelled")
  /\ UNCHANGED <<receipt, decision, artifact, pack, kpi, spent, bound, goal, left>>

(* generation.cancel: the visible task ends at once, its handler goes on. *)
Cancel(b) ==
  LET r == br[b] IN
  /\ r.pc \in Awaiting /\ r.live
  /\ br' = [br EXCEPT ![b].cancelled = TRUE, ![b].wait = "none",
                      ![b].gen = FALSE, ![b].live = FALSE]
  /\ Show(r.task, "blocked")
  /\ Settle(r.task, "cancelled")
  /\ UNCHANGED <<receipt, decision, artifact, pack, kpi, spent, bound, goal, left>>

Closed(r) ==
  [r EXCEPT !.closing = TRUE, !.queued = 0, !.gen = FALSE, !.live = FALSE,
            !.wait = "none", !.pending = None,
            !.pc = IF r.pc = "idle" THEN "off" ELSE r.pc]

(* interruptPendingWork: the first thing that is pending is closed, and only
   a running task that waits for nobody settles its cycle. *)
Close(b) ==
  LET r == br[b]
      t == r.pending
  IN
  /\ r.pc \in Awaiting \union {"idle"} /\ ~r.closing
  /\ br' = [br EXCEPT ![b] = Closed(@)]
  /\ \/ /\ r.wait = "asked" /\ Show(r.task, "blocked") /\ NoFault
        /\ UNCHANGED <<receipt, decision, cycles, order>>
     \/ /\ r.wait = "none" /\ t # None                      \* end of input
        /\ receipt' = receipt \union {t} /\ Show(t, "interrupted") /\ NoFault
        /\ UNCHANGED <<decision, cycles, order>>
     \/ /\ r.wait = "none" /\ t # None                      \* /exit
        /\ \/ NoFault
           \/ t \notin receipt /\ Fails("receipt")
        /\ receipt' = receipt \ {t} /\ Show(t, "abandoned")
        /\ decision' = [decision EXCEPT ![t] = "none"]
        /\ UNCHANGED <<cycles, order>>
     \/ /\ r.wait = "none" /\ t = None /\ NoFault
        /\ UNCHANGED <<receipt, decision>>
        /\ IF r.live THEN Show(r.task, "blocked") /\ Settle(r.task, "cancelled")
                     ELSE UNCHANGED <<shown, cycles, order>>
  /\ UNCHANGED <<artifact, pack, kpi, spent, bound, goal>>

Die(b) ==
  /\ br[b].pc # "off" /\ Spent("deaths")
  /\ br' = [br EXCEPT ![b] = Asleep]
  /\ UNCHANGED <<disk, ghost>>

-----------------------------------------------------------------------------
(* Growth: a Dream that was decided recommends a cycle; the user approves the
   latest one, which becomes the next task. *)

DreamDecided(b) ==
  /\ br[b].pc \in Awaiting \union {"idle"} /\ ~br[b].closing
  /\ \E d \in left.dreams, kind \in {"next_task", "dream_revision"} :
       cycles[d] = Missing /\ Write(d, Recommended(kind))
  /\ UNCHANGED <<receipt, decision, artifact, pack, kpi, spent, ghost, br, left>>

ApproveNext(b) ==
  LET c == Latest(order) IN
  /\ Idle(b) /\ br[b].pending = None /\ Cardinality(Unused) > br[b].queued
  /\ c \in Cycles
  /\ cycles[c].state \in {"RECOMMENDED", "REVISION_REQUIRED", "APPROVED", "QUEUED"}
  /\ Write(c, Moved(cycles[c], "APPROVED", ApproveKey))
  /\ br' = [br EXCEPT ![b].pc = "enqueue", ![b].held = c]
  /\ UNCHANGED <<receipt, decision, artifact, pack, kpi, spent, ghost, left>>

Enqueue(b) ==
  LET c == br[b].held IN
  /\ br[b].pc = "enqueue"
  /\ Write(c, Moved(cycles[c], "QUEUED", QueueKey))
  /\ \E over \in Over :
       br' = [br EXCEPT ![b] = Begun([@ EXCEPT !.growth = c], Fresh, over, FALSE)]
  /\ goal' = [goal EXCEPT ![Fresh] = c]
  /\ Show(Fresh, "started")
  /\ UNCHANGED <<receipt, decision, artifact, pack, kpi, spent, bound, left>>

(* Somebody edits a deliverable. *)
Edit(t) ==
  /\ artifact[t] = "intact" /\ Spent("edits")
  /\ artifact' = [artifact EXCEPT ![t] = "changed"]
  /\ UNCHANGED <<receipt, decision, pack, kpi, spent, cycles, order, ghost, br>>

-----------------------------------------------------------------------------
Client(b) == \/ Message(b) \/ Queue(b) \/ Reply(b) \/ Accept(b) \/ Reject(b) \/ Revise(b)
             \/ Delete(b) \/ Cancel(b) \/ Close(b) \/ DreamDecided(b) \/ ApproveNext(b)

Handler(b) ==
  \/ Recover(b) \/ Restore(b) \/ Dequeue(b) \/ Enqueue(b)
  \/ Preflight(b) \/ Blocked(b) \/ Overspent(b) \/ Route(b) \/ Deliver(b) \/ Offer(b)
  \/ Complete(b) \/ CorrectlyBlocked(b) \/ Failing(b)
  \/ Decide(b) \/ Verify(b) \/ Pack(b) \/ Recheck(b) \/ Kpi(b) \/ Spend(b)
  \/ Announce(b) \/ Refuse(b) \/ SettleCycle(b) \/ Evaluate(b) \/ Learn(b)
  \/ Follow(b) \/ Unlink(b) \/ Forget(b)

Next ==
  \/ \E b \in Bridges : Boot(b) \/ Client(b) \/ Ask(b) \/ Handler(b) \/ Die(b)
  \/ \E t \in Tasks : Edit(t)

Spec == Init /\ [][Next]_vars

(* The event loop runs a handler to its end, and a bridge that is down is
   started again; no client is obliged to send anything. *)
Fairness == \A b \in Bridges : WF_vars(Handler(b)) /\ WF_vars(Boot(b))
FairSpec == Spec /\ Fairness

-----------------------------------------------------------------------------
Bridge ==
  [pc : Awaiting \union Settling \union
        {"off", "recover", "restore", "idle", "dequeue", "enqueue", "offer"},
   task : Tasks \union {None}, gen : BOOLEAN, live : BOOLEAN, cancelled : BOOLEAN,
   wait : {"none", "asked"}, over : BOOLEAN, exempt : BOOLEAN,
   result : {"none", "deliverable", "plain", "blocked"},
   pending : Tasks \union {None}, queued : 0..MaxQueue, growth : Cycles \union {None},
   closing : BOOLEAN, held : Tasks \union Cycles \union {None},
   verdict : {"none", "accept", "reject", "revise", "fail"},
   after : {"none", "line", "revise", "task", "start"}, lost : BOOLEAN]

(* Every variable keeps its shape. *)
TypeOK ==
  /\ receipt \subseteq Tasks /\ pack \subseteq Tasks /\ spent \subseteq Tasks
  /\ decision \in [Tasks -> {"none", "accept", "reject"}]
  /\ artifact \in [Tasks -> {"none", "intact", "changed", "deleted"}]
  /\ kpi \in [Tasks -> {"none", "accepted", "rejected", "completed", "blocked"}]
  /\ \A c \in Cycles : /\ cycles[c].state \in States \union {"NONE"}
                        /\ cycles[c].task \in Tasks \union {NoCycle}
  /\ bound \in [Tasks -> Cycles \union {None}] /\ goal \in [Tasks -> Cycles \union {None}]
  /\ br \in [Bridges -> Bridge]

(* CC-PROOF-001: a client that was told "accepted" can rely on both ledgers,
   and on a ProofPack as long as nobody has touched the deliverable since,
   whatever died or failed in between. *)
AcceptedIsBacked ==
  \A t \in Tasks : "accepted" \in shown[t] =>
    /\ kpi[t] = "accepted" /\ t \in spent
    /\ t \in pack \/ artifact[t] # "intact"

(* No client is ever told the opposite of the verdict another start of the
   bridge, or another line, has booked. *)
OneVerdict ==
  \A t \in Tasks : /\ ~({"accepted", "rejected"} \subseteq shown[t])
                   /\ kpi[t] = "accepted" => decision[t] # "reject"
                   /\ kpi[t] = "rejected" => decision[t] # "accept"

(* What the growth cycle says of its task is what the ledger says. *)
CycleAgreesWithLedger ==
  \A c \in Cycles :
    /\ cycles[c].outcome = "accepted" => kpi[cycles[c].task] = "accepted"
    /\ cycles[c].outcome \in {"rejected", "revision_needed"} =>
         kpi[cycles[c].task] = "rejected"

(* A deliverable that waits for its verdict can be recovered. *)
HeldIsRecoverable ==
  \A b \in Bridges : br[b].pending # None => br[b].pending \in receipt

(* A held deliverable is given up or judged, never replaced by another. *)
HeldIsNotReplaced ==
  [][\A b \in Bridges : br'[b].pending \in {br[b].pending, None} \/ br[b].pending = None]_br

(* A cancelled task ends, whatever it was waiting for. *)
CancelEnds == \A b \in Bridges : br[b].cancelled ~> ~Busy(b)

(* A verdict on disk is booked, or its deliverable is offered again. *)
DecidedIsSettled ==
  \A t \in Tasks :
    (t \in receipt /\ decision[t] # "none")
      ~> (t \notin receipt \/ \E b \in Bridges : br[b].pending = t)

(* The bridge's own announcement (jsonl-bridge.mjs:752): the approved goal is
   what enters the task pipeline, so a cycle only runs its own goal. *)
RunsTheApprovedGoal == \A t \in Tasks : bound[t] # None => goal[t] = bound[t]

(* jsonl-bridge.mjs:2893: a task that was reported blocked must not be
   reported completed afterwards. *)
BlockedIsNotCompleted == \A t \in Tasks : ~({"blocked", "completed"} \subseteq shown[t])

(* product-lifecycle-closure.md:43: a task that failed fails its cycle. *)
FailureFailsCycle ==
  \A c \in Cycles, t \in Tasks :
    "failed" \in shown[t] /\ bound[t] = c
    /\ (\A b \in Bridges : br[b].pc \in {"idle", "off"}) => cycles[c].state # "RUNNING"

=============================================================================
