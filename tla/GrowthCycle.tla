---------------------------- MODULE GrowthCycle ----------------------------
(***************************************************************************)
(* The persisted growth cycle of an employee (growth-cycle.mjs): the       *)
(* transition table, transitions that are replayed by their idempotency    *)
(* key, and the order of the cycles by their time stamp.  A module of      *)
(* operators: Workbench owns the files and calls them.                     *)
(*                                                                         *)
(* A cycle is [state, task, outcome, keys]; a key is <<operation, task,    *)
(* outcome>>, which is what the strings "start:<task>" and                 *)
(* "settle:<task>:<outcome>" of the code tell apart.                       *)
(***************************************************************************)
EXTENDS Sequences

CONSTANT NoCycle

Allowed ==
  [ NONE                       |-> {},
    RECOMMENDED                |-> {"APPROVED", "REVISION_REQUIRED", "CANCELLED"},
    REVISION_REQUIRED          |-> {"APPROVED", "CANCELLED"},
    APPROVED                   |-> {"QUEUED", "BLOCKED"},
    QUEUED                     |-> {"RUNNING", "BLOCKED", "CANCELLED"},
    RUNNING                    |-> {"AWAITING_DELIVERY_APPROVAL", "DELIVERED",
                                    "REJECTED", "FAILED", "CANCELLED"},
    AWAITING_DELIVERY_APPROVAL |-> {"DELIVERED", "REJECTED", "FAILED", "CANCELLED"},
    DELIVERED                  |-> {"EVALUATED"},
    REJECTED                   |-> {"EVALUATED", "REVISION_REQUIRED"},
    EVALUATED                  |-> {"LEARNED"},
    LEARNED                    |-> {"NEXT_RECOMMENDED"},
    NEXT_RECOMMENDED           |-> {},
    BLOCKED                    |-> {"QUEUED", "CANCELLED"},
    FAILED                     |-> {"REVISION_REQUIRED", "CANCELLED"},
    CANCELLED                  |-> {} ]

States == DOMAIN Allowed \ {"NONE"}

(* No file, and the record recommendGrowthCycle writes. *)
Missing == [state |-> "NONE", task |-> NoCycle, outcome |-> "none", keys |-> {}]
Recommended(kind) ==
  [Missing EXCEPT !.state = IF kind = "dream_revision" THEN "REVISION_REQUIRED"
                                                       ELSE "RECOMMENDED"]

(* transitionRecord: a used key replays, an illegal move throws. *)
Replays(cycle, key) == key \in cycle.keys
Legal(cycle, to, key) == Replays(cycle, key) \/ to \in Allowed[cycle.state]
Moved(cycle, to, key) ==
  IF Replays(cycle, key) THEN cycle
  ELSE [cycle EXCEPT !.state = to, !.keys = @ \union {key}]

ApproveKey == <<"approve">>
QueueKey == <<"queue">>
StartKey(t) == <<"start", t>>
DeliveryKey(t) == <<"delivery", t>>
SettleKey(t, outcome) == <<"settle", t, outcome>>
EvaluateKey(cycle) == <<"evaluate", cycle.task, cycle.outcome>>
LearnKey(cycle) == <<"learn", cycle.task, cycle.outcome>>
NextKey == <<"next-dream">>

Started(cycle, t) ==
  IF Replays(cycle, StartKey(t)) THEN cycle
  ELSE [Moved(cycle, "RUNNING", StartKey(t)) EXCEPT !.task = t]

(* settleGrowthCycle: the state each outcome leads to. *)
Settlement == [accepted |-> "DELIVERED", rejected |-> "REJECTED",
               revision_needed |-> "REJECTED", failed |-> "FAILED",
               cancelled |-> "CANCELLED"]
MaySettle(cycle, t, outcome) ==
  Legal(cycle, Settlement[outcome], SettleKey(t, outcome))
Settled(cycle, t, outcome) ==
  IF Replays(cycle, SettleKey(t, outcome)) THEN cycle
  ELSE [Moved(cycle, Settlement[outcome], SettleKey(t, outcome))
          EXCEPT !.outcome = outcome, !.task = t]

(* learnGrowthCycle, in its two writes. *)
Evaluated(cycle) == Moved(cycle, "EVALUATED", EvaluateKey(cycle))
Learned(cycle) == Moved(cycle, "LEARNED", LearnKey(cycle))

(* The cycles by updated_at, the latest at the end. *)
Stamped(order, c) == Append(SelectSeq(order, LAMBDA x : x # c), c)
Latest(order) == IF order = <<>> THEN NoCycle ELSE order[Len(order)]

=============================================================================
