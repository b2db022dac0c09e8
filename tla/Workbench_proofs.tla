-------------------------- MODULE Workbench_proofs --------------------------
(***************************************************************************)
(* Proofs about Workbench for one bridge, and every set of tasks and       *)
(* Dreams and every budget of failed writes, deaths and edits.             *)
(*                                                                         *)
(* One invariant carries the theorems.  It says of a task how its receipt, *)
(* its decision, its outcome and what the client was told agree (Ledger),  *)
(* of the bridge what it knows of its task while it runs it (Works), of    *)
(* the deliverable it holds (Holds) and of the one it settles (Settles),   *)
(* and of a growth cycle that a verdict in it is its task's (Agrees).      *)
(***************************************************************************)
EXTENDS Workbench, FiniteSetTheorems, TLAPS

Outcomes == {"none", "accepted", "rejected", "revision_needed", "failed", "cancelled"}
Keys ==
  {ApproveKey, QueueKey, NextKey}
  \union {StartKey(t) : t \in Tasks} \union {DeliveryKey(t) : t \in Tasks}
  \union {<<what, t, o>> : what \in {"settle", "evaluate", "learn"},
                           t \in Tasks \union {NoCycle}, o \in Outcomes}
Cycle == [state : States \union {"NONE"}, task : Tasks \union {NoCycle},
          outcome : Outcomes, keys : SUBSET Keys]
Events == {"started", "blocked", "requested", "completed", "failed", "accepted",
           "rejected", "interrupted", "abandoned"}
Budget == [tasks : SUBSET Tasks, dreams : SUBSET Dreams,
           faults : Nat, deaths : Nat, edits : Nat]

(* The types, with those of the events, of whole cycles and of the budget. *)
Typed ==
  /\ TypeOK
  /\ cycles \in [Cycles -> Cycle]
  /\ shown \in [Tasks -> SUBSET Events]
  /\ left \in Budget

(* The states of a cycle that has a verdict. *)
Final == {"DELIVERED", "REJECTED", "EVALUATED", "LEARNED", "NEXT_RECOMMENDED"}

Labels == Awaiting \union Settling \union
          {"off", "recover", "restore", "idle", "dequeue", "enqueue", "offer"}

(* A task before its delivery; a verdict, and how it is decided and booked. *)
Begins == {"preflight", "blocked", "overspent", "route", "drain"}
Ends == {"off", "idle", "dequeue"}
Judged == {"accept", "reject", "revise"}
Booked == {"announce", "settle", "evaluate", "learn", "follow", "unlink", "forget"}
DecidedAs(v) == IF v = "accept" THEN "accept" ELSE "reject"
BookedAs(v) == IF v = "accept" THEN "accepted" ELSE "rejected"

(* A task nobody was told of has left no trace; what was told is booked, and an
   outcome agrees with the decision, whose receipt outlives it. *)
Ledger(t) ==
  /\ shown[t] = {} => t \notin receipt /\ decision[t] = "none" /\ kpi[t] = "none"
  /\ "accepted" \in shown[t] => /\ kpi[t] = "accepted" /\ t \in spent
                                /\ t \in pack \/ artifact[t] # "intact"
  /\ "rejected" \in shown[t] => kpi[t] = "rejected"
  /\ kpi[t] = "accepted" => decision[t] # "reject"
  /\ kpi[t] = "rejected" => decision[t] # "accept"
  /\ t \in receipt => \/ kpi[t] = "none"
                      \/ kpi[t] = "accepted" /\ decision[t] = "accept"
                      \/ kpi[t] = "rejected" /\ decision[t] = "reject"

(* Nothing is booked or decided about the task that runs, and nothing else is
   held meanwhile; a cycle that is about to be queued has no verdict. *)
Works(b) ==
  LET r == br[b]
      t == r.task
  IN
  /\ r.pc \in Awaiting \union {"offer"} => t \in Tasks /\ shown[t] # {}
  /\ r.pc \in Begins \union {"offer"} =>
       /\ kpi[t] = "none" /\ decision[t] = "none" /\ "accepted" \notin shown[t]
       /\ r.pending = None
  /\ r.pc \in Begins => t \notin receipt
  /\ r.pc = "offer" => t \in receipt
  /\ r.pc = "enqueue" =>
       /\ r.held \in Cycles /\ cycles[r.held].state \notin Final
       /\ Unused # {} /\ r.pending = None
  /\ r.pc = "dequeue" => r.queued > 0
  /\ r.pc \in {"recover", "restore", "dequeue"} => r.pending = None

(* What is held has its receipt. *)
Holds(b) ==
  br[b].pending # None => br[b].pending \in receipt /\ shown[br[b].pending] # {}

(* What a settlement has done so far: decided, packed, booked. *)
Settles(b) ==
  LET r == br[b]
      t == r.held
  IN
  r.pc \in Settling =>
    /\ t \in Tasks /\ shown[t] # {}
    /\ r.verdict \in Judged \union {"fail"}
    /\ r.pending = IF r.pc = "decide" THEN t ELSE None
    /\ r.pc \in {"decide", "kpi", "spend", "announce", "evaluate", "learn", "follow"} =>
         r.verdict # "fail"
    /\ r.pc \in {"verify", "pack", "recheck"} => r.verdict = "accept"
    /\ r.pc = "refuse" => r.verdict = "fail"
    /\ r.pc \in {"verify", "pack", "recheck", "kpi", "spend"} =>
         t \in receipt /\ decision[t] = DecidedAs(r.verdict)
    /\ r.pc = "recheck" => t \in pack
    /\ r.pc \in {"kpi", "spend", "announce"} /\ r.verdict = "accept" =>
         t \in pack \/ artifact[t] # "intact"
    /\ r.pc = "spend" /\ ~r.lost => kpi[t] = BookedAs(r.verdict)
    /\ r.pc \in Booked /\ r.verdict # "fail" => kpi[t] = BookedAs(r.verdict) /\ t \in spent
    /\ r.pc \in {"evaluate", "learn", "follow"} => bound[t] # None
    /\ r.pc = "forget" => t \notin receipt

(* The verdict of a cycle is its task's, in the ledger k, and is there to stay. *)
Judges(x, k) ==
  x.outcome \in {"accepted", "rejected", "revision_needed"} =>
    /\ x.state \in Final
    /\ x.task \in Tasks
    /\ k[x.task] = IF x.outcome = "accepted" THEN "accepted" ELSE "rejected"
Agrees(c) == Judges(cycles[c], kpi)

Inv ==
  /\ Typed
  /\ \A t \in Tasks : Ledger(t)
  /\ \A b \in Bridges : Works(b) /\ Holds(b) /\ Settles(b)
  /\ \A c \in Cycles : Agrees(c)

-----------------------------------------------------------------------------
(* The growth cycle. *)

(* The states, one by one, *)
LEMMA StatesAre ==
  States = {"RECOMMENDED", "REVISION_REQUIRED", "APPROVED", "QUEUED", "RUNNING",
            "AWAITING_DELIVERY_APPROVAL", "DELIVERED", "REJECTED", "EVALUATED",
            "LEARNED", "NEXT_RECOMMENDED", "BLOCKED", "FAILED", "CANCELLED"}
  BY DEF States, Allowed

(* and where a cycle with a verdict may go: to no other verdict, nor back to
   work, but for a revision that nothing asks for. *)
LEMMA FinalStays ==
  ASSUME NEW s \in Final
  PROVE  Allowed[s] \subseteq {"EVALUATED", "REVISION_REQUIRED", "LEARNED", "NEXT_RECOMMENDED"}
  BY DEF Allowed, Final

(* The keys are keys. *)
LEMMA KeyTypes ==
  ASSUME NEW t \in Tasks, NEW o \in Outcomes, NEW x \in Cycle
  PROVE  {ApproveKey, QueueKey, NextKey, StartKey(t), DeliveryKey(t), SettleKey(t, o),
          EvaluateKey(x), LearnKey(x)} \subseteq Keys
<1>1. x.task \in Tasks \union {NoCycle} /\ x.outcome \in Outcomes
  BY DEF Cycle
<1> QED
  BY <1>1 DEF Keys, SettleKey, EvaluateKey, LearnKey

(* A record for a new cycle is one, without a verdict. *)
LEMMA RecommendedType ==
  ASSUME NEW kind, NEW k
  PROVE  Recommended(kind) \in Cycle /\ Judges(Recommended(kind), k)
  BY StatesAre DEF Recommended, Missing, Cycle, Outcomes, Judges

(* A transition moves a cycle to the state it names, or not at all. *)
LEMMA MovedType ==
  ASSUME NEW x \in Cycle, NEW to \in States, NEW key \in Keys
  PROVE  /\ Moved(x, to, key) \in Cycle
         /\ Moved(x, to, key).state \in {x.state, to}
         /\ Moved(x, to, key).task = x.task
         /\ Moved(x, to, key).outcome = x.outcome
  BY DEF Moved, Cycle

(* A move to a state that is no verdict's start leaves the verdict as it is, if
   the table allows it. *)
LEMMA MovedJudges ==
  ASSUME NEW x \in Cycle, NEW to \in States, NEW key \in Keys, NEW k, Judges(x, k),
         to \in Final \/ x.state \notin Final
         \/ (Legal(x, to, key) /\ to # "REVISION_REQUIRED")
  PROVE  Judges(Moved(x, to, key), k)
<1>1. CASE to \in Final \/ x.state \notin Final
  BY <1>1, MovedType DEF Judges
<1>2. CASE Legal(x, to, key) /\ to # "REVISION_REQUIRED"
  <2>1. CASE Replays(x, key)
    BY <2>1 DEF Moved
  <2>2. CASE to \in Allowed[x.state]
    BY <1>1, <1>2, <2>2, FinalStays DEF Final
  <2> QED
    BY <1>2, <2>1, <2>2 DEF Legal
<1> QED
  BY <1>1, <1>2

(* A cycle that may start its task starts it without a verdict. *)
LEMMA StartedType ==
  ASSUME NEW x \in Cycle, NEW t \in Tasks, NEW k, Judges(x, k), Legal(x, "RUNNING", StartKey(t))
  PROVE  Started(x, t) \in Cycle /\ Judges(Started(x, t), k)
<1> DEFINE y == Moved(x, "RUNNING", StartKey(t))
<1>1. CASE Replays(x, StartKey(t))
  BY <1>1 DEF Started
<1>2. CASE ~Replays(x, StartKey(t))
  <2>1. y \in Cycle /\ y.outcome = x.outcome /\ x.state \notin Final
    <3>1. x.state \notin Final
      BY <1>2, FinalStays DEF Legal
    <3>2. "none" \in Outcomes /\ "RUNNING" \in States
      BY StatesAre DEF Outcomes
    <3> QED
      BY <3>1, <3>2, MovedType, KeyTypes
  <2>2. Started(x, t) = [y EXCEPT !.task = t]
    BY <1>2 DEF Started
  <2>3. Started(x, t) \in Cycle /\ Started(x, t).outcome = x.outcome
    BY <2>1, <2>2 DEF Cycle
  <2> QED
    BY <2>1, <2>3 DEF Judges
<1> QED
  BY <1>1, <1>2

(* A settlement that is legal gives a cycle the verdict the ledger has. *)
LEMMA SettledType ==
  ASSUME NEW x \in Cycle, NEW t \in Tasks, NEW k, Judges(x, k),
         NEW o \in DOMAIN Settlement, MaySettle(x, t, o),
         o \in {"failed", "cancelled"}
           \/ k[t] = IF o = "accepted" THEN "accepted" ELSE "rejected"
  PROVE  Settled(x, t, o) \in Cycle /\ Judges(Settled(x, t, o), k)
<1> DEFINE key == SettleKey(t, o)
           y == Moved(x, Settlement[o], key)
<1>1. CASE Replays(x, key)
  BY <1>1 DEF Settled
<1>2. CASE ~Replays(x, key)
  <2>1. o \in Outcomes \ {"none"} /\ Settlement[o] \in States
        /\ (o \notin {"failed", "cancelled"} => Settlement[o] \in Final)
    BY StatesAre DEF Settlement, Outcomes, Final
  <2>2. key \in Keys
    BY <2>1, KeyTypes
  <2>3. y \in Cycle /\ y.state = Settlement[o]
    <3>1. y \in Cycle
      BY <2>1, <2>2, MovedType
    <3>2. y.state = Settlement[o]
      BY <1>2 DEF Moved, Cycle
    <3> QED
      BY <3>1, <3>2
  <2>4. Settled(x, t, o) = [y EXCEPT !.outcome = o, !.task = t]
    BY <1>2 DEF Settled
  <2>5. Settled(x, t, o) \in Cycle /\ Settled(x, t, o).outcome = o
        /\ Settled(x, t, o).task = t /\ Settled(x, t, o).state = Settlement[o]
    BY <2>1, <2>3, <2>4 DEF Cycle
  <2> QED
    BY <2>1, <2>5 DEF Judges, Outcomes
<1> QED
  BY <1>1, <1>2

(* An evaluation and a lesson leave a verdict where it is. *)
LEMMA LearnedType ==
  ASSUME NEW x \in Cycle, NEW k, Judges(x, k)
  PROVE  /\ Evaluated(x) \in Cycle /\ Judges(Evaluated(x), k)
         /\ Learned(x) \in Cycle /\ Judges(Learned(x), k)
<1>1. {"EVALUATED", "LEARNED"} \subseteq States \intersect Final
  BY StatesAre DEF Final
<1>2. EvaluateKey(x) \in Keys /\ LearnKey(x) \in Keys
  <2>1. x.task \in Tasks \union {NoCycle} /\ x.outcome \in Outcomes
    BY DEF Cycle
  <2> QED
    BY <2>1 DEF Keys, EvaluateKey, LearnKey
<1>3. Evaluated(x) \in Cycle /\ Judges(Evaluated(x), k)
  BY <1>1, <1>2, MovedType, MovedJudges DEF Evaluated
<1>4. Learned(x) \in Cycle /\ Judges(Learned(x), k)
  BY <1>1, <1>2, MovedType, MovedJudges DEF Learned
<1> QED
  BY <1>3, <1>4

-----------------------------------------------------------------------------
(* How a step treats what it is not about. *)

(* What is booked stays. *)
KpiStays == \A t \in Tasks : kpi[t] # "none" => kpi'[t] = kpi[t]

(* One cycle at most is written, with a verdict that the ledger has. *)
CycleStep ==
  \/ UNCHANGED cycles
  \/ \E c, x : x \in Cycle /\ Judges(x, kpi) /\ cycles' = [cycles EXCEPT ![c] = x]

(* A task whose records stay, and of which no verdict is told. *)
Spared(t) ==
  /\ t \in receipt' <=> t \in receipt
  /\ decision'[t] = decision[t] /\ kpi'[t] = kpi[t]
  /\ t \in spent => t \in spent'
  /\ t \in pack => t \in pack'
  /\ artifact'[t] = "intact" => artifact[t] = "intact"
  /\ shown[t] \subseteq shown'[t]
  /\ \A e \in {"accepted", "rejected"} : e \in shown'[t] => e \in shown[t]

(* The bridge at rest; the bridge that starts a task. *)
Rests(b) ==
  /\ br' \in [Bridges -> Bridge]
  /\ br'[b].pc \in Ends
  /\ br'[b].pc = "dequeue" => br'[b].queued > 0 /\ br'[b].pending = None

Starts(b, t) ==
  /\ br' \in [Bridges -> Bridge]
  /\ br'[b].pc = "preflight" /\ br'[b].task = t /\ br'[b].pending = br[b].pending

(* The bridge goes on to another label, with the same task, deliverable and
   verdict. *)
Goes(b, l) ==
  /\ br' \in [Bridges -> Bridge]
  /\ br'[b].pc = l /\ br'[b].task = br[b].task /\ br'[b].pending = br[b].pending
  /\ br'[b].held = br[b].held /\ br'[b].verdict = br[b].verdict
  /\ br'[b].queued = br[b].queued /\ br'[b].lost = br[b].lost

(* A spared task keeps its ledger. *)
LEMMA SparedLedger ==
  ASSUME NEW t \in Tasks, Ledger(t), Spared(t)
  PROVE  Ledger(t)'
  BY DEF Ledger, Spared

(* A written cycle leaves the cycles typed and their verdicts true. *)
LEMMA CyclesStay ==
  ASSUME Inv, KpiStays, CycleStep
  PROVE  /\ cycles' \in [Cycles -> Cycle]
         /\ \A c \in Cycles : Agrees(c)'
<1>1. ASSUME NEW x, Judges(x, kpi)
      PROVE  Judges(x, kpi')
  BY <1>1 DEF Judges, KpiStays
<1>2. cycles \in [Cycles -> Cycle] /\ \A c \in Cycles : Judges(cycles[c], kpi)
  BY DEF Inv, Typed, Agrees
<1>3. CASE UNCHANGED cycles
  BY <1>1, <1>2, <1>3 DEF Agrees
<1>4. ASSUME NEW d, NEW x \in Cycle, Judges(x, kpi), cycles' = [cycles EXCEPT ![d] = x]
      PROVE  /\ cycles' \in [Cycles -> Cycle]
             /\ \A c \in Cycles : Agrees(c)'
  <2>1. \A c \in Cycles : cycles'[c] = IF c = d THEN x ELSE cycles[c]
    BY <1>2, <1>4
  <2>2. \A c \in Cycles : Judges(cycles'[c], kpi')
    BY <1>1, <1>2, <1>4, <2>1
  <2> QED
    BY <1>2, <1>4, <2>2 DEF Agrees
<1> QED
  BY <1>3, <1>4 DEF CycleStep

(* The whole from its parts: the types of what a step may write, the tasks it
   does not spare, the bridge, and the cycles. *)
LEMMA Whole ==
  ASSUME Inv, NEW b \in Bridges, Bridges = {b}, KpiStays, CycleStep,
         TypeOK', shown' \in [Tasks -> SUBSET Events], left' \in Budget,
         \A t \in Tasks : Spared(t) \/ Ledger(t)',
         Works(b)', Holds(b)', Settles(b)'
  PROVE  Inv'
<1>1. cycles' \in [Cycles -> Cycle] /\ \A c \in Cycles : Agrees(c)'
  BY CyclesStay
<1>2. \A t \in Tasks : Ledger(t)'
  BY SparedLedger DEF Inv
<1>3. Typed'
  BY <1>1 DEF Typed
<1>4. \A a \in Bridges' : Works(a)' /\ Holds(a)' /\ Settles(a)'
  OBVIOUS
<1> QED
  BY <1>1, <1>2, <1>3, <1>4 DEF Inv

(* TypeOK from its parts. *)
LEMMA TypesFrom ==
  ASSUME Inv, KpiStays, CycleStep,
         receipt' \subseteq Tasks, pack' \subseteq Tasks, spent' \subseteq Tasks,
         decision' \in [Tasks -> {"none", "accept", "reject"}],
         artifact' \in [Tasks -> {"none", "intact", "changed", "deleted"}],
         kpi' \in [Tasks -> {"none", "accepted", "rejected", "completed", "blocked"}],
         bound' \in [Tasks -> Cycles \union {None}], goal' \in [Tasks -> Cycles \union {None}],
         br' \in [Bridges -> Bridge]
  PROVE  TypeOK'
<1>1. cycles' \in [Cycles -> Cycle]
  BY CyclesStay
<1>2. \A c \in Cycles : cycles'[c].state \in States \union {"NONE"}
                        /\ cycles'[c].task \in Tasks \union {NoCycle}
  BY <1>1 DEF Cycle
<1> QED
  BY <1>2 DEF TypeOK

(* A bridge at rest knows nothing but what it holds. *)
LEMMA RestStep ==
  ASSUME NEW b \in Bridges, Rests(b)
  PROVE  Works(b)' /\ Settles(b)'
  BY DEF Rests, Ends, Works, Settles, Awaiting, Begins, Settling

(* A task that starts has left no trace. *)
LEMMA StartStep ==
  ASSUME NEW b \in Bridges, NEW t \in Tasks, Starts(b, t), br[b].pending = None,
         t \notin receipt', decision'[t] = "none", kpi'[t] = "none",
         shown'[t] # {}, "accepted" \notin shown'[t]
  PROVE  Works(b)' /\ Holds(b)' /\ Settles(b)'
  BY DEF Starts, Works, Settles, Holds, Awaiting, Begins, Settling

(* A task id that is not used yet. *)
LEMMA FreshType ==
  ASSUME Inv, Unused # {}
  PROVE  /\ Fresh \in Tasks /\ shown[Fresh] = {}
         /\ Fresh \notin receipt /\ decision[Fresh] = "none" /\ kpi[Fresh] = "none"
<1>1. Fresh \in Unused
  BY DEF Fresh
<1>2. Fresh \in Tasks /\ shown[Fresh] = {}
  BY <1>1 DEF Unused, Inv, Typed, Budget
<1> QED
  BY <1>2 DEF Inv, Ledger

(* What is spent leaves a budget. *)
LEMMA SpentType ==
  ASSUME left \in Budget, NEW kind \in {"faults", "deaths", "edits"}, Spent(kind)
  PROVE  left' \in Budget /\ left'.tasks = left.tasks
  BY DEF Spent, Budget

(* Records. *)
LEMMA PutType ==
  ASSUME br \in [Bridges -> Bridge], NEW b \in Bridges, NEW x \in Bridge,
         br' = [br EXCEPT ![b] = x]
  PROVE  br' \in [Bridges -> Bridge] /\ br'[b] = x
  OBVIOUS

(* Pc: a bridge with another value of this field. *)
LEMMA SetPc ==
  ASSUME NEW r \in Bridge, NEW l \in Labels
  PROVE  [r EXCEPT !.pc = l] \in Bridge
  BY DEF Bridge, Labels

(* Task: a bridge with another value of this field. *)
LEMMA SetTask ==
  ASSUME NEW r \in Bridge, NEW t \in Tasks \union {None}
  PROVE  [r EXCEPT !.task = t] \in Bridge
  BY DEF Bridge

(* Gen: a bridge with another value of this field. *)
LEMMA SetGen ==
  ASSUME NEW r \in Bridge, NEW v \in BOOLEAN
  PROVE  [r EXCEPT !.gen = v] \in Bridge
  BY DEF Bridge

(* Live: a bridge with another value of this field. *)
LEMMA SetLive ==
  ASSUME NEW r \in Bridge, NEW v \in BOOLEAN
  PROVE  [r EXCEPT !.live = v] \in Bridge
  BY DEF Bridge

(* Cancelled: a bridge with another value of this field. *)
LEMMA SetCancelled ==
  ASSUME NEW r \in Bridge, NEW v \in BOOLEAN
  PROVE  [r EXCEPT !.cancelled = v] \in Bridge
  BY DEF Bridge

(* Wait: a bridge with another value of this field. *)
LEMMA SetWait ==
  ASSUME NEW r \in Bridge, NEW v \in {"none", "asked"}
  PROVE  [r EXCEPT !.wait = v] \in Bridge
  BY DEF Bridge

(* Over: a bridge with another value of this field. *)
LEMMA SetOver ==
  ASSUME NEW r \in Bridge, NEW v \in BOOLEAN
  PROVE  [r EXCEPT !.over = v] \in Bridge
  BY DEF Bridge

(* Exempt: a bridge with another value of this field. *)
LEMMA SetExempt ==
  ASSUME NEW r \in Bridge, NEW v \in BOOLEAN
  PROVE  [r EXCEPT !.exempt = v] \in Bridge
  BY DEF Bridge

(* Result: a bridge with another value of this field. *)
LEMMA SetResult ==
  ASSUME NEW r \in Bridge, NEW v \in {"none", "deliverable", "plain", "blocked"}
  PROVE  [r EXCEPT !.result = v] \in Bridge
  BY DEF Bridge

(* Pending: a bridge with another value of this field. *)
LEMMA SetPending ==
  ASSUME NEW r \in Bridge, NEW t \in Tasks \union {None}
  PROVE  [r EXCEPT !.pending = t] \in Bridge
  BY DEF Bridge

(* Queued: a bridge with another value of this field. *)
LEMMA SetQueued ==
  ASSUME NEW r \in Bridge, NEW n \in 0..MaxQueue
  PROVE  [r EXCEPT !.queued = n] \in Bridge
  BY DEF Bridge

(* Growth: a bridge with another value of this field. *)
LEMMA SetGrowth ==
  ASSUME NEW r \in Bridge, NEW c \in Cycles \union {None}
  PROVE  [r EXCEPT !.growth = c] \in Bridge
  BY DEF Bridge

(* Closing: a bridge with another value of this field. *)
LEMMA SetClosing ==
  ASSUME NEW r \in Bridge, NEW v \in BOOLEAN
  PROVE  [r EXCEPT !.closing = v] \in Bridge
  BY DEF Bridge

(* Held: a bridge with another value of this field. *)
LEMMA SetHeld ==
  ASSUME NEW r \in Bridge, NEW t \in Tasks \union Cycles \union {None}
  PROVE  [r EXCEPT !.held = t] \in Bridge
  BY DEF Bridge

(* Verdict: a bridge with another value of this field. *)
LEMMA SetVerdict ==
  ASSUME NEW r \in Bridge, NEW v \in {"none", "accept", "reject", "revise", "fail"}
  PROVE  [r EXCEPT !.verdict = v] \in Bridge
  BY DEF Bridge

(* After: a bridge with another value of this field. *)
LEMMA SetAfter ==
  ASSUME NEW r \in Bridge, NEW v \in {"none", "line", "revise", "task", "start"}
  PROVE  [r EXCEPT !.after = v] \in Bridge
  BY DEF Bridge

(* Lost: a bridge with another value of this field. *)
LEMMA SetLost ==
  ASSUME NEW r \in Bridge, NEW v \in BOOLEAN
  PROVE  [r EXCEPT !.lost = v] \in Bridge
  BY DEF Bridge

(* A record without a task, *)
LEMMA NoTask ==
  ASSUME NEW r \in Bridge
  PROVE  LET u == [r EXCEPT !.task = None, !.gen = FALSE, !.live = FALSE, !.wait = "none"]
         IN u \in Bridge /\ u.pending = r.pending
<1>1. [r EXCEPT !.task = None, !.gen = FALSE, !.live = FALSE, !.wait = "none"] \in Bridge
  BY SetTask, SetGen, SetLive, SetWait, Zenon
<1> QED
  BY <1>1 DEF Bridge

(* without marks, *)
LEMMA NoMarks ==
  ASSUME NEW r \in Bridge
  PROVE  LET u == [r EXCEPT !.cancelled = FALSE, !.result = "none", !.over = FALSE, !.exempt = FALSE]
         IN u \in Bridge /\ u.pending = r.pending
<1>1. [r EXCEPT !.cancelled = FALSE, !.result = "none", !.over = FALSE, !.exempt = FALSE] \in Bridge
  BY SetCancelled, SetResult, SetOver, SetExempt, Zenon
<1> QED
  BY <1>1 DEF Bridge

(* with nothing to settle, *)
LEMMA NoVerdict ==
  ASSUME NEW r \in Bridge
  PROVE  LET u == [r EXCEPT !.held = None, !.verdict = "none", !.after = "none", !.lost = FALSE]
         IN u \in Bridge /\ u.pending = r.pending /\ u.pc = r.pc /\ u.task = r.task
<1>1. [r EXCEPT !.held = None, !.verdict = "none", !.after = "none", !.lost = FALSE] \in Bridge
  BY SetHeld, SetVerdict, SetAfter, SetLost, Zenon
<1> QED
  BY <1>1 DEF Bridge

(* with a task, *)
LEMMA WithTask ==
  ASSUME NEW r \in Bridge, NEW t \in Tasks
  PROVE  LET u == [r EXCEPT !.pc = "preflight", !.task = t, !.gen = TRUE, !.live = TRUE]
         IN u \in Bridge /\ u.pending = r.pending /\ u.pc = "preflight" /\ u.task = t
<1>1. [r EXCEPT !.pc = "preflight", !.task = t, !.gen = TRUE, !.live = TRUE] \in Bridge
  BY SetPc, SetTask, SetGen, SetLive, Zenon DEF Labels, Awaiting
<1> QED
  BY <1>1 DEF Bridge

(* and with its marks. *)
LEMMA WithMarks ==
  ASSUME NEW r \in Bridge, NEW over \in BOOLEAN, NEW exempt \in BOOLEAN
  PROVE  LET u == [r EXCEPT !.cancelled = FALSE, !.wait = "none", !.result = "none",
                            !.over = over, !.exempt = exempt]
         IN u \in Bridge /\ u.pending = r.pending /\ u.pc = r.pc /\ u.task = r.task
<1>1. [r EXCEPT !.cancelled = FALSE, !.wait = "none", !.result = "none",
                !.over = over, !.exempt = exempt] \in Bridge
  BY SetCancelled, SetWait, SetResult, SetOver, SetExempt, Zenon
<1> QED
  BY <1>1 DEF Bridge

(* A handler that ends. *)
LEMMA EndedType ==
  ASSUME NEW r \in Bridge
  PROVE  /\ Ended(r) \in Bridge /\ Ended(r).pc \in Ends /\ Ended(r).pending = r.pending
         /\ Ended(r).pc = "dequeue" => Ended(r).queued > 0 /\ Ended(r).pending = None
<1> DEFINE u == [r EXCEPT !.task = None, !.gen = FALSE, !.live = FALSE, !.wait = "none"]
           v == [u EXCEPT !.cancelled = FALSE, !.result = "none", !.over = FALSE,
                          !.exempt = FALSE]
           q == [v EXCEPT !.held = None, !.verdict = "none", !.after = "none", !.lost = FALSE]
<1>1. u \in Bridge /\ u.pending = r.pending
  BY NoTask
<1>2. Ended(r) = [q EXCEPT !.pc = Scheduled(q)]
  BY DEF Ended
<1> HIDE DEF u
<1>3. v \in Bridge /\ v.pending = u.pending
  BY <1>1, NoMarks
<1> HIDE DEF v
<1>4. q \in Bridge /\ q.pending = v.pending
  BY <1>3, NoVerdict
<1> HIDE DEF q
<1>5. /\ Scheduled(q) \in Ends
      /\ Scheduled(q) = "dequeue" => q.queued > 0 /\ q.pending = None
  BY DEF Scheduled, Ends
<1>6. Ended(r) \in Bridge
  BY <1>2, <1>4, <1>5 DEF Bridge, Ends
<1> QED
  BY <1>1, <1>2, <1>3, <1>4, <1>5, <1>6 DEF Bridge

(* One that throws. *)
LEMMA ThrownType ==
  ASSUME NEW r \in Bridge
  PROVE  /\ Thrown(r) \in Bridge /\ Thrown(r).pending = r.pending
         /\ \/ Thrown(r).pc = "failing" /\ Thrown(r).task = r.task
            \/ /\ Thrown(r).pc \in Ends
               /\ Thrown(r).pc = "dequeue" => Thrown(r).queued > 0 /\ Thrown(r).pending = None
  BY EndedType DEF Thrown, Bridge, Awaiting

(* One that begins. *)
LEMMA BegunType ==
  ASSUME NEW r \in Bridge, NEW t \in Tasks, NEW over \in BOOLEAN, NEW exempt \in BOOLEAN
  PROVE  /\ Begun(r, t, over, exempt) \in Bridge
         /\ Begun(r, t, over, exempt).pc = "preflight" /\ Begun(r, t, over, exempt).task = t
         /\ Begun(r, t, over, exempt).pending = r.pending
<1> DEFINE u == [r EXCEPT !.pc = "preflight", !.task = t, !.gen = TRUE, !.live = TRUE]
           v == [u EXCEPT !.cancelled = FALSE, !.wait = "none", !.result = "none",
                          !.over = over, !.exempt = exempt]
           w == [v EXCEPT !.held = None, !.verdict = "none", !.after = "none", !.lost = FALSE]
<1>1. u \in Bridge /\ u.pc = "preflight" /\ u.task = t /\ u.pending = r.pending
  BY WithTask
<1>2. Begun(r, t, over, exempt) = w
  BY DEF Begun
<1> HIDE DEF u
<1>3. v \in Bridge /\ v.pc = u.pc /\ v.task = u.task /\ v.pending = u.pending
  BY <1>1, WithMarks
<1> HIDE DEF v
<1>4. w \in Bridge /\ w.pc = v.pc /\ w.task = v.task /\ w.pending = v.pending
  BY <1>3, NoVerdict
<1> HIDE DEF w
<1> QED
  BY <1>1, <1>2, <1>3, <1>4

(* One that goes to another label, *)
LEMMA GoesTo ==
  ASSUME br \in [Bridges -> Bridge], NEW b \in Bridges, NEW l \in Labels,
         br' = [br EXCEPT ![b].pc = l]
  PROVE  Goes(b, l)
<1> DEFINE x == [br[b] EXCEPT !.pc = l]
<1>1. br[b] \in Bridge
  OBVIOUS
<1>2. x \in Bridge
  BY <1>1, SetPc
<1>3. br'[b] = x /\ br' \in [Bridges -> Bridge]
  BY <1>2, PutType
<1>4. /\ x.pc = l /\ x.task = br[b].task /\ x.pending = br[b].pending
      /\ x.held = br[b].held /\ x.verdict = br[b].verdict
      /\ x.queued = br[b].queued /\ x.lost = br[b].lost
  BY <1>1 DEF Bridge
<1> QED
  BY <1>3, <1>4 DEF Goes

(* that ends, *)
LEMMA EndedRests ==
  ASSUME NEW b \in Bridges, br \in [Bridges -> Bridge], NEW r \in Bridge,
         br' = [br EXCEPT ![b] = Ended(r)]
  PROVE  Rests(b) /\ br'[b].pending = r.pending
<1>1. br' \in [Bridges -> Bridge] /\ br'[b] = Ended(r)
  BY EndedType, PutType
<1> QED
  BY <1>1, EndedType DEF Rests

(* that throws, *)
LEMMA ThrownGoes ==
  ASSUME NEW b \in Bridges, br \in [Bridges -> Bridge], NEW r \in Bridge,
         br' = [br EXCEPT ![b] = Thrown(r)]
  PROVE  /\ br' \in [Bridges -> Bridge] /\ br'[b].pending = r.pending
         /\ Rests(b) \/ (br'[b].pc = "failing" /\ br'[b].task = r.task)
<1>1. br' \in [Bridges -> Bridge] /\ br'[b] = Thrown(r)
  BY ThrownType, PutType
<1> QED
  BY <1>1, ThrownType DEF Rests

(* and that begins. *)
LEMMA BegunStarts ==
  ASSUME NEW b \in Bridges, br \in [Bridges -> Bridge], NEW r \in Bridge,
         NEW t \in Tasks, NEW over \in BOOLEAN, NEW exempt \in BOOLEAN,
         r.pending = br[b].pending,
         br' = [br EXCEPT ![b] = Begun(r, t, over, exempt)]
  PROVE  Starts(b, t)
<1>1. br' \in [Bridges -> Bridge] /\ br'[b] = Begun(r, t, over, exempt)
  BY BegunType, PutType
<1> QED
  BY <1>1, BegunType DEF Starts

-----------------------------------------------------------------------------
(* Steps that book nothing. *)

(* The client is told nothing, or no verdict. *)
Mute ==
  /\ shown' \in [Tasks -> SUBSET Events]
  /\ \A t \in Tasks : /\ shown[t] \subseteq shown'[t]
                      /\ \A e \in {"accepted", "rejected"} : e \in shown'[t] => e \in shown[t]

Records == <<receipt, decision, artifact, pack, kpi, spent>>

(* An event that is no verdict is told. *)
LEMMA Telling ==
  ASSUME Inv, NEW t \in Tasks, NEW e \in Events \ {"accepted", "rejected"}, Show(t, e)
  PROVE  Mute /\ e \in shown'[t] /\ \A u \in Tasks \ {t} : shown'[u] = shown[u]
<1>1. shown \in [Tasks -> SUBSET Events]
  BY DEF Inv, Typed
<1> QED
  BY <1>1 DEF Show, Mute

(* Nothing is told. *)
LEMMA Silence ==
  ASSUME Inv, UNCHANGED shown
  PROVE  Mute
  BY DEF Inv, Typed, Mute

(* A step that leaves the records, when the bridge and the cycles are right. *)
LEMMA QuietStep ==
  ASSUME Inv, NEW b \in Bridges, Bridges = {b}, UNCHANGED Records, CycleStep, Mute,
         bound' \in [Tasks -> Cycles \union {None}], goal' \in [Tasks -> Cycles \union {None}],
         left' \in Budget, br' \in [Bridges -> Bridge],
         Works(b)', Holds(b)', Settles(b)'
  PROVE  Inv'
<1>1. KpiStays
  BY DEF KpiStays, Records
<1>2. TypeOK'
  <2>1. TypeOK
    BY DEF Inv, Typed
  <2> QED
    BY <2>1, <1>1, TypesFrom DEF TypeOK, Records
<1>3. \A t \in Tasks : Spared(t)
  BY DEF Spared, Records, Mute
<1> QED
  BY <1>1, <1>2, <1>3, Whole DEF Mute

(* One that leaves the cycles, the budget and the events as well. *)
LEMMA SilentStep ==
  ASSUME Inv, NEW b \in Bridges, Bridges = {b}, UNCHANGED <<disk, ghost, left>>,
         br' \in [Bridges -> Bridge], Works(b)', Holds(b)', Settles(b)'
  PROVE  Inv'
<1>1. UNCHANGED Records /\ CycleStep /\ Mute
  BY Silence DEF disk, ghost, Records, CycleStep
<1>2. /\ bound' \in [Tasks -> Cycles \union {None}] /\ goal' \in [Tasks -> Cycles \union {None}]
      /\ left' \in Budget
  BY DEF Inv, Typed, TypeOK, ghost
<1> QED
  BY <1>1, <1>2, QuietStep

(* A bridge that sleeps. *)
LEMMA AsleepType ==
  Asleep \in Bridge /\ Asleep.pc = "off" /\ Asleep.pending = None
<1>1. 0 \in 0..MaxQueue
  BY BoundsAssumption
<1>2. Asleep \in Bridge
  BY <1>1, Zenon DEF Asleep, Bridge
<1> QED
  BY <1>2 DEF Asleep

(* A bridge that starts to recover, *)
LEMMA BootStep ==
  ASSUME Inv, NEW b \in Bridges, Bridges = {b}, Boot(b)
  PROVE  Inv'
<1> DEFINE x == [Asleep EXCEPT !.pc = "recover"]
<1>1. x \in Bridge /\ x.pc = "recover" /\ x.pending = None
  BY AsleepType, SetPc DEF Asleep, Labels
<1>2. br' \in [Bridges -> Bridge] /\ br'[b] = x
  BY <1>1, PutType DEF Boot, Inv, Typed, TypeOK
<1>3. Works(b)' /\ Holds(b)' /\ Settles(b)'
  BY <1>1, <1>2 DEF Works, Holds, Settles, Awaiting, Begins, Settling
<1> QED
  BY <1>2, <1>3, SilentStep DEF Boot

(* or that died. *)
LEMMA DieStep ==
  ASSUME Inv, NEW b \in Bridges, Bridges = {b}, Die(b)
  PROVE  Inv'
<1>1. br' \in [Bridges -> Bridge] /\ br'[b] = Asleep
  BY AsleepType, PutType DEF Die, Inv, Typed, TypeOK
<1>2. Works(b)' /\ Holds(b)' /\ Settles(b)'
  BY <1>1, AsleepType DEF Works, Holds, Settles, Awaiting, Begins, Settling
<1>3. UNCHANGED Records /\ CycleStep /\ Mute
  BY Silence DEF Die, disk, ghost, Records, CycleStep
<1>4. /\ bound' \in [Tasks -> Cycles \union {None}] /\ goal' \in [Tasks -> Cycles \union {None}]
      /\ left' \in Budget
  BY SpentType DEF Die, Inv, Typed, TypeOK, ghost
<1> QED
  BY <1>1, <1>2, <1>3, <1>4, QuietStep

(* What the invariant says of the bridge and of the types. *)
LEMMA Facts ==
  ASSUME Inv, NEW b \in Bridges
  PROVE  /\ br \in [Bridges -> Bridge] /\ br[b] \in Bridge
         /\ Works(b) /\ Holds(b) /\ Settles(b)
         /\ cycles \in [Cycles -> Cycle] /\ \A c \in Cycles : Judges(cycles[c], kpi)
         /\ bound \in [Tasks -> Cycles \union {None}] /\ goal \in [Tasks -> Cycles \union {None}]
         /\ left \in Budget
  BY DEF Inv, Typed, TypeOK, Agrees

(* A cycle that is written. *)
LEMMA WriteStep ==
  ASSUME NEW c, NEW x \in Cycle, Judges(x, kpi), Write(c, x)
  PROVE  CycleStep
  BY DEF Write, CycleStep

(* A bridge that goes on to work keeps what it knows of its task, *)
LEMMA BeginsStay ==
  ASSUME Inv, NEW b \in Bridges, br[b].pc \in Begins, UNCHANGED Records, Mute,
         br'[b].pc \in Begins, br'[b].task = br[b].task, br'[b].pending = br[b].pending
  PROVE  Works(b)' /\ Holds(b)' /\ Settles(b)'
<1>1. Works(b) /\ br[b].task \in Tasks
  BY Facts DEF Works, Begins, Awaiting
<1> QED
  BY <1>1 DEF Works, Holds, Settles, Begins, Awaiting, Settling, Records, Mute

(* also when it throws, *)
LEMMA ThrownStays ==
  ASSUME Inv, NEW b \in Bridges, br[b].pc \in Awaiting \union {"offer"}, Mute,
         Rests(b) \/ (br'[b].pc = "failing" /\ br'[b].task = br[b].task)
  PROVE  Works(b)' /\ Settles(b)'
<1>1. br[b].task \in Tasks /\ shown[br[b].task] # {}
  BY Facts DEF Works
<1>2. CASE Rests(b)
  BY <1>2, RestStep
<1>3. CASE br'[b].pc = "failing" /\ br'[b].task = br[b].task
  BY <1>1, <1>3 DEF Works, Settles, Awaiting, Begins, Settling, Mute
<1> QED
  BY <1>2, <1>3

(* and what it holds, unless that is gone. *)
LEMMA HoldsStay ==
  ASSUME Inv, NEW b \in Bridges, receipt \subseteq receipt', Mute,
         br'[b].pending \in {br[b].pending, None}
  PROVE  Holds(b)'
<1>1. Holds(b) /\ br[b].pending \in Tasks \union {None}
  BY Facts DEF Bridge
<1> QED
  BY <1>1 DEF Holds, Mute

(* A cycle is taken further at the start, or the receipts are read next. *)
LEMMA RecoverStep ==
  ASSUME Inv, NEW b \in Bridges, Bridges = {b}, Recover(b)
  PROVE  Inv'
<1> DEFINE c == Latest(order)
<1>1. br[b].pc = "recover" /\ br[b].pending = None
  BY Facts DEF Recover, Works
<1>2. CycleStep
  BY Facts, LearnedType, WriteStep DEF Recover, CycleStep
<1>3. Goes(b, "restore") \/ UNCHANGED br
  BY Facts, GoesTo DEF Recover, Labels
<1>4. /\ br' \in [Bridges -> Bridge] /\ br'[b].pc \in {"recover", "restore"}
      /\ br'[b].pending = None
  BY <1>1, <1>3, Facts DEF Goes
<1>5. Works(b)' /\ Holds(b)' /\ Settles(b)'
  BY <1>4 DEF Works, Holds, Settles, Awaiting, Begins, Settling
<1>6. UNCHANGED <<Records, ghost, left>> /\ Mute
  BY Silence DEF Recover, Records, ghost
<1> QED
  BY <1>2, <1>4, <1>5, <1>6, QuietStep, Facts DEF ghost

(* The receipt that waits is offered again, or settled as it was decided. *)
LEMMA RestoreStep ==
  ASSUME Inv, NEW b \in Bridges, Bridges = {b}, Restore(b)
  PROVE  Inv'
<1>1. br[b].pc = "restore" /\ br[b].pending = None
  BY Facts DEF Restore, Works
<1>2. CASE br' = [br EXCEPT ![b].pc = "idle"]
  <2>1. Goes(b, "idle")
    BY <1>2, Facts, GoesTo DEF Labels
  <2>2. Works(b)' /\ Holds(b)' /\ Settles(b)'
    BY <1>1, <2>1 DEF Goes, Works, Holds, Settles, Awaiting, Begins, Settling
  <2> QED
    BY <2>1, <2>2, SilentStep DEF Restore, Goes
<1>3. ASSUME NEW t \in receipt,
             NEW v \in {"none", "accept", "reject", "fail"}, NEW l \in Labels,
             NEW q \in Tasks \union {None},
             br' = [br EXCEPT ![b].held = t, ![b].after = "start", ![b].verdict = v,
                              ![b].pc = l, ![b].pending = q],
             \/ v = "fail" /\ l = "refuse" /\ q = None
             \/ v = decision[t] /\ \/ v = "accept" /\ l = "verify" /\ q = None
                                   \/ v = "reject" /\ l = "kpi" /\ q = None
                                   \/ v = "none" /\ l = "idle" /\ q = t
      PROVE  Inv'
  <2> DEFINE x == [br[b] EXCEPT !.held = t, !.after = "start", !.verdict = v, !.pc = l,
                                !.pending = q]
  <2>1. t \in Tasks /\ shown[t] # {}
    BY DEF Inv, Typed, TypeOK, Ledger
  <2>2. x \in Bridge
    BY <2>1, Facts, SetHeld, SetAfter, SetVerdict, SetPc, SetPending, Zenon
  <2>3. x.held = t /\ x.verdict = v /\ x.pc = l /\ x.pending = q
    BY Facts DEF Bridge
  <2>4. br' = [br EXCEPT ![b] = x]
    BY <1>3
  <2> HIDE DEF x
  <2>5. br' \in [Bridges -> Bridge] /\ br'[b] = x
    BY <2>2, <2>4, PutType, Facts
  <2>6. UNCHANGED <<disk, ghost, left>>
    BY DEF Restore
  <2>7. Works(b)' /\ Holds(b)'
    BY <1>3, <2>1, <2>3, <2>5, <2>6 DEF Works, Holds, Awaiting, Begins, disk, ghost
  <2>8. Settles(b)'
    BY <1>3, <2>1, <2>3, <2>5, <2>6 DEF Settles, Settling, Judged, Booked, DecidedAs, disk, ghost
  <2> QED
    BY <2>5, <2>6, <2>7, <2>8, SilentStep
<1>4. ASSUME NEW t \in receipt,
             br' = [br EXCEPT
               ![b].held = t, ![b].after = "start",
               ![b].verdict = IF artifact[t] # "intact" THEN "fail" ELSE decision[t],
               ![b].pc = IF artifact[t] # "intact" THEN "refuse"
                         ELSE IF decision[t] = "accept" THEN "verify"
                         ELSE IF decision[t] = "reject" THEN "kpi" ELSE "idle",
               ![b].pending = IF artifact[t] = "intact" /\ decision[t] = "none"
                              THEN t ELSE None]
      PROVE  Inv'
  <2> DEFINE v == IF artifact[t] # "intact" THEN "fail" ELSE decision[t]
             l == IF artifact[t] # "intact" THEN "refuse"
                  ELSE IF decision[t] = "accept" THEN "verify"
                  ELSE IF decision[t] = "reject" THEN "kpi" ELSE "idle"
             q == IF artifact[t] = "intact" /\ decision[t] = "none" THEN t ELSE None
  <2>1. t \in Tasks /\ decision[t] \in {"none", "accept", "reject"}
    BY DEF Inv, Typed, TypeOK
  <2>2. /\ v \in {"none", "accept", "reject", "fail"} /\ l \in Labels
        /\ q \in Tasks \union {None}
    BY <2>1 DEF Labels, Settling
  <2>3. \/ v = "fail" /\ l = "refuse" /\ q = None
        \/ v = decision[t] /\ \/ v = "accept" /\ l = "verify" /\ q = None
                              \/ v = "reject" /\ l = "kpi" /\ q = None
                              \/ v = "none" /\ l = "idle" /\ q = t
    BY <2>1
  <2>4. br' = [br EXCEPT ![b].held = t, ![b].after = "start", ![b].verdict = v,
                         ![b].pc = l, ![b].pending = q]
    BY <1>4
  <2> HIDE DEF v, l, q
  <2> QED
    BY <1>3, <2>2, <2>3, <2>4
<1> QED
  BY <1>2, <1>4 DEF Restore

-----------------------------------------------------------------------------
(* A task, from its line to the delivery. *)

(* A step that starts a fresh task. *)
LEMMA FreshStep ==
  ASSUME Inv, NEW b \in Bridges, Bridges = {b}, Unused # {}, br[b].pending = None,
         Starts(b, Fresh), Show(Fresh, "started"), UNCHANGED <<Records, bound, left>>,
         CycleStep, goal' \in [Tasks -> Cycles \union {None}]
  PROVE  Inv'
<1>1. Fresh \in Tasks /\ shown[Fresh] = {} /\ Fresh \notin receipt
      /\ decision[Fresh] = "none" /\ kpi[Fresh] = "none"
  BY FreshType
<1>2. Mute /\ shown'[Fresh] = {"started"}
  BY <1>1, Telling DEF Events, Inv, Typed, Show
<1>3. Works(b)' /\ Holds(b)' /\ Settles(b)'
  BY <1>1, <1>2, StartStep DEF Records
<1> QED
  BY <1>2, <1>3, QuietStep, Facts DEF Starts

(* Over budget or not. *)
LEMMA OverType == Over \subseteq BOOLEAN
  BY DEF Over

(* A message starts one. *)
LEMMA MessageStep ==
  ASSUME Inv, NEW b \in Bridges, Bridges = {b}, Message(b)
  PROVE  Inv'
<1>1. PICK over \in Over : br' = [br EXCEPT ![b] = Begun(br[b], Fresh, over, FALSE)]
  BY DEF Message
<1>2. Fresh \in Tasks /\ over \in BOOLEAN
  BY FreshType, OverType DEF Message
<1>3. Starts(b, Fresh)
  BY <1>1, <1>2, BegunStarts, Facts
<1>4. CycleStep /\ UNCHANGED <<Records, bound, left>> /\ goal' \in [Tasks -> Cycles \union {None}]
  BY Facts DEF Message, CycleStep, Records, disk
<1> QED
  BY <1>3, <1>4, FreshStep DEF Message

(* A busy bridge queues it, *)
LEMMA QueueStep ==
  ASSUME Inv, NEW b \in Bridges, Bridges = {b}, Queue(b)
  PROVE  Inv'
<1> DEFINE x == [br[b] EXCEPT !.queued = br[b].queued + 1]
<1>1. br[b].queued + 1 \in 0..MaxQueue
  BY Facts, BoundsAssumption DEF Queue, Bridge
<1>2. x \in Bridge
  BY <1>1, Facts, SetQueued
<1>3. br' \in [Bridges -> Bridge] /\ br'[b] = x
  BY <1>2, PutType, Facts DEF Queue
<1>4. x.pc = br[b].pc /\ x.task = br[b].task /\ x.pending = br[b].pending
  BY Facts DEF Bridge
<1>5. UNCHANGED <<Records, ghost, left>> /\ Mute /\ br[b].pc \in Awaiting
  BY Silence DEF Queue, Records, disk, ghost
<1>6. Works(b)' /\ Holds(b)' /\ Settles(b)'
  BY <1>3, <1>4, <1>5, Facts
     DEF Works, Holds, Settles, Awaiting, Begins, Settling, Records, ghost
<1> QED
  BY <1>3, <1>6, SilentStep DEF Queue

(* and takes it up. *)
LEMMA DequeueStep ==
  ASSUME Inv, NEW b \in Bridges, Bridges = {b}, Dequeue(b)
  PROVE  Inv'
<1>1. br[b].queued > 0 /\ br[b].pending = None /\ br[b] \in Bridge
  BY Facts DEF Dequeue, Works
<1>2. CASE Unused = {}
  <2> DEFINE x == [br[b] EXCEPT !.pc = "idle", !.queued = 0]
  <2>1. 0 \in 0..MaxQueue /\ "idle" \in Labels
    BY BoundsAssumption DEF Labels
  <2>2. x \in Bridge
    BY <1>1, <2>1, SetPc, SetQueued, Zenon
  <2>3. x.pc = "idle" /\ x.pending = None
    BY <1>1 DEF Bridge
  <2>4. br' = [br EXCEPT ![b] = x]
    BY <1>2 DEF Dequeue
  <2> HIDE DEF x
  <2>5. br' \in [Bridges -> Bridge] /\ br'[b] = x
    BY <2>2, <2>4, PutType, Facts
  <2>6. Works(b)' /\ Holds(b)' /\ Settles(b)'
    BY <2>3, <2>5 DEF Works, Holds, Settles, Awaiting, Begins, Settling
  <2> QED
    BY <1>2, <2>5, <2>6, SilentStep DEF Dequeue, ghost
<1>3. CASE Unused # {}
  <2> DEFINE r == [br[b] EXCEPT !.queued = br[b].queued - 1]
  <2>1. PICK over \in Over : br' = [br EXCEPT ![b] = Begun(r, Fresh, over, FALSE)]
    BY <1>3, Zenon DEF Dequeue
  <2>2. br[b].queued - 1 \in 0..MaxQueue
    BY <1>1, BoundsAssumption DEF Bridge
  <2>3. r \in Bridge /\ r.pending = br[b].pending
    BY <1>1, <2>2, SetQueued DEF Bridge
  <2>4. Fresh \in Tasks /\ over \in BOOLEAN
    BY <1>3, FreshType, OverType
  <2> HIDE DEF r
  <2>5. Starts(b, Fresh)
    BY <2>1, <2>3, <2>4, BegunStarts, Facts
  <2>6. CycleStep /\ UNCHANGED <<Records, bound, left>>
        /\ goal' \in [Tasks -> Cycles \union {None}]
    BY Facts DEF Dequeue, CycleStep, Records, disk
  <2> QED
    BY <1>1, <1>3, <2>5, <2>6, FreshStep DEF Dequeue
<1> QED
  BY <1>2, <1>3

(* The preflight blocks a task, or lets it go on, with the cycle it starts. *)
LEMMA PreflightStep ==
  ASSUME Inv, NEW b \in Bridges, Bridges = {b}, Preflight(b)
  PROVE  Inv'
<1> DEFINE c == br[b].growth
           t == br[b].task
<1>1. br[b].pc = "preflight" /\ UNCHANGED <<Records, goal, shown, left>> /\ Mute
  BY Silence DEF Preflight, Records
<1>2. t \in Tasks /\ br[b] \in Bridge /\ br[b].pending = None
  BY <1>1, Facts DEF Works, Awaiting, Begins
<1>3. ASSUME NEW l \in {"blocked", "overspent", "route"}, br' = [br EXCEPT ![b].pc = l],
             UNCHANGED <<cycles, order, bound>>
      PROVE  Inv'
  <2>1. Goes(b, l)
    BY <1>3, Facts, GoesTo DEF Labels, Awaiting
  <2>2. Works(b)' /\ Holds(b)' /\ Settles(b)'
    BY <1>1, <2>1, BeginsStay DEF Goes, Begins
  <2> QED
    BY <1>1, <1>3, <2>1, <2>2, QuietStep, Facts DEF Goes, CycleStep
<1>4. CASE /\ c # None /\ Legal(cycles[c], "RUNNING", StartKey(t))
           /\ Write(c, Started(cycles[c], t))
           /\ bound' = [bound EXCEPT ![t] = c]
           /\ br' = [br EXCEPT ![b].pc = "route", ![b].growth = None]
  <2> DEFINE x == [br[b] EXCEPT !.pc = "route", !.growth = None]
  <2>1. x \in Bridge
    <3>1. "route" \in Labels
      BY DEF Labels, Awaiting
    <3> QED
      BY <1>2, <3>1, SetPc, SetGrowth, Zenon
  <2>2. x.pc = "route" /\ x.task = t /\ x.pending = br[b].pending
    BY <1>2 DEF Bridge
  <2>3. br' = [br EXCEPT ![b] = x]
    BY <1>4
  <2> HIDE DEF x
  <2>4. br' \in [Bridges -> Bridge] /\ br'[b] = x
    BY <2>1, <2>3, PutType, Facts
  <2>5. c \in Cycles
    BY <1>2, <1>4 DEF Bridge
  <2>6. CycleStep
    BY <1>2, <1>4, <2>5, StartedType, WriteStep, Facts
  <2>7. bound' \in [Tasks -> Cycles \union {None}]
    BY <1>2, <1>4, <2>5, Facts
  <2>8. Works(b)' /\ Holds(b)' /\ Settles(b)'
    BY <1>1, <2>2, <2>4, BeginsStay DEF Begins
  <2> QED
    BY <1>1, <2>4, <2>6, <2>7, <2>8, QuietStep, Facts
<1>5. CASE br' = [br EXCEPT ![b] = Thrown(br[b])] /\ UNCHANGED <<cycles, order, bound>>
  <2>1. /\ br' \in [Bridges -> Bridge] /\ br'[b].pending = br[b].pending
        /\ Rests(b) \/ (br'[b].pc = "failing" /\ br'[b].task = br[b].task)
    BY <1>2, <1>5, ThrownGoes, Facts
  <2>2. Works(b)' /\ Holds(b)' /\ Settles(b)'
    BY <1>1, <2>1, ThrownStays, HoldsStay DEF Awaiting, Records
  <2> QED
    BY <1>1, <1>5, <2>1, <2>2, QuietStep, Facts DEF CycleStep
<1> QED
  BY <1>3, <1>4, <1>5 DEF Preflight

(* An outcome is booked once. *)
LEMMA OutcomeStep ==
  ASSUME Inv, NEW t \in Tasks, NEW o \in {"accepted", "rejected", "completed", "blocked"},
         Outcome(t, o) \/ UNCHANGED kpi
  PROVE  /\ KpiStays
         /\ kpi' \in [Tasks -> {"none", "accepted", "rejected", "completed", "blocked"}]
         /\ \A u \in Tasks \ {t} : kpi'[u] = kpi[u]
         /\ kpi'[t] # kpi[t] => kpi[t] = "none" /\ kpi'[t] = o
         /\ Outcome(t, o) => kpi'[t] = IF kpi[t] = "none" THEN o ELSE kpi[t]
  BY DEF Outcome, KpiStays, Inv, Typed, TypeOK

(* A settlement writes a cycle that has the verdict of the ledger, or none. *)
LEMMA SettleStep ==
  ASSUME Inv, NEW t \in Tasks, NEW o \in DOMAIN Settlement, Settle(t, o),
         o \in {"failed", "cancelled"}
           \/ kpi[t] = IF o = "accepted" THEN "accepted" ELSE "rejected"
  PROVE  CycleStep
<1>1. CASE bound[t] # None /\ MaySettle(cycles[bound[t]], t, o)
  <2> DEFINE c == bound[t]
  <2>1. c \in Cycles /\ cycles[c] \in Cycle /\ Judges(cycles[c], kpi)
    BY <1>1 DEF Inv, Typed, TypeOK, Agrees
  <2>2. Settled(cycles[c], t, o) \in Cycle /\ Judges(Settled(cycles[c], t, o), kpi)
    BY <1>1, <2>1, SettledType
  <2> QED
    BY <1>1, <2>2, WriteStep DEF Settle
<1>2. CASE ~(bound[t] # None /\ MaySettle(cycles[bound[t]], t, o))
  BY <1>2 DEF Settle, CycleStep
<1> QED
  BY <1>1, <1>2

(* A turn that ends without a verdict may be booked as completed or blocked, and
   what it cost. *)
LEMMA TurnStep ==
  ASSUME Inv, NEW b \in Bridges, Bridges = {b}, br[b].pc \in Begins,
         NEW o \in {"completed", "blocked"}, Outcome(br[b].task, o) \/ UNCHANGED kpi,
         spent' \in {spent, spent \union {br[b].task}}, CycleStep, Mute,
         UNCHANGED <<receipt, decision, artifact, pack, bound, goal, left>>,
         br' \in [Bridges -> Bridge], Works(b)', Holds(b)', Settles(b)'
  PROVE  Inv'
<1>1. PICK t \in Tasks :
        /\ t = br[b].task /\ t \notin receipt /\ kpi[t] = "none" /\ decision[t] = "none"
        /\ shown[t] # {} /\ "accepted" \notin shown[t]
  BY Facts DEF Works, Awaiting, Begins
<1>2. /\ KpiStays
      /\ kpi' \in [Tasks -> {"none", "accepted", "rejected", "completed", "blocked"}]
      /\ \A u \in Tasks \ {t} : kpi'[u] = kpi[u]
      /\ kpi'[t] \in {"none", o}
  BY <1>1, OutcomeStep
<1>3. TypeOK'
  <2>1. TypeOK
    BY DEF Inv, Typed
  <2> QED
    BY <1>1, <1>2, <2>1, TypesFrom DEF TypeOK
<1>4. \A u \in Tasks \ {t} : Spared(u)
  BY <1>2 DEF Spared, Mute
<1>5. Ledger(t)'
  <2>1. shown'[t] # {} /\ "accepted" \notin shown'[t] /\ "rejected" \notin shown'[t]
    <3>1. "rejected" \notin shown[t]
      BY <1>1 DEF Inv, Ledger
    <3> QED
      BY <1>1, <3>1 DEF Mute
  <2>2. t \notin receipt' /\ decision'[t] = "none" /\ kpi'[t] \notin {"accepted", "rejected"}
    BY <1>1, <1>2
  <2> QED
    BY <2>1, <2>2 DEF Ledger
<1>6. \A u \in Tasks : Spared(u) \/ Ledger(u)'
  BY <1>4, <1>5
<1>7. shown' \in [Tasks -> SUBSET Events] /\ left' \in Budget
  BY Facts DEF Mute
<1> QED
  BY <1>2, <1>3, <1>6, <1>7, Whole

(* A blocked preflight is told and booked, and throws. *)
LEMMA BlockedStep ==
  ASSUME Inv, NEW b \in Bridges, Bridges = {b}, Blocked(b)
  PROVE  Inv'
<1> DEFINE r == [br[b] EXCEPT !.live = FALSE, !.gen = FALSE]
<1>1. br[b].pc \in Begins /\ br[b].task \in Tasks /\ br[b] \in Bridge
  BY Facts DEF Blocked, Works, Begins, Awaiting
<1>2. Mute
  BY <1>1, Telling, Silence DEF Blocked, Events
<1>3. r \in Bridge
  BY <1>1, SetLive, SetGen, Zenon
<1>4. r.task = br[b].task /\ r.pending = br[b].pending
  BY <1>1 DEF Bridge
<1>5. br' = [br EXCEPT ![b] = Thrown(r)]
  BY DEF Blocked
<1> HIDE DEF r
<1>6. /\ br' \in [Bridges -> Bridge] /\ br'[b].pending = br[b].pending
      /\ Rests(b) \/ (br'[b].pc = "failing" /\ br'[b].task = br[b].task)
  BY <1>3, <1>4, <1>5, ThrownGoes, Facts
<1>7. Works(b)' /\ Holds(b)' /\ Settles(b)'
  BY <1>1, <1>2, <1>6, ThrownStays, HoldsStay DEF Begins, Awaiting, Blocked
<1> QED
  BY <1>1, <1>2, <1>6, <1>7, TurnStep DEF Blocked, CycleStep

(* A task over budget is told and booked, and ends. *)
LEMMA OverspentStep ==
  ASSUME Inv, NEW b \in Bridges, Bridges = {b}, Overspent(b)
  PROVE  Inv'
<1>1. br[b].pc \in Begins /\ br[b].task \in Tasks /\ br[b] \in Bridge
  BY Facts DEF Overspent, Works, Begins, Awaiting
<1>2. Mute
  BY <1>1, Telling, Silence DEF Overspent, Events
<1>3. Rests(b) /\ br'[b].pending = br[b].pending
  BY <1>1, EndedRests, Facts DEF Overspent
<1>4. Works(b)' /\ Holds(b)' /\ Settles(b)'
  BY <1>2, <1>3, RestStep, HoldsStay DEF Overspent
<1> QED
  BY <1>1, <1>2, <1>3, <1>4, TurnStep DEF Overspent, CycleStep, Rests

(* A question and its answer. *)
LEMMA AskStep ==
  ASSUME Inv, NEW b \in Bridges, Bridges = {b}, Ask(b) \/ Reply(b)
  PROVE  Inv'
<1>1. PICK w \in {"asked", "none"} : br' = [br EXCEPT ![b].wait = w]
  BY DEF Ask, Reply
<1> DEFINE x == [br[b] EXCEPT !.wait = w]
<1>2. x \in Bridge
  BY Facts, SetWait
<1>3. br' \in [Bridges -> Bridge] /\ br'[b] = x
  BY <1>1, <1>2, PutType, Facts
<1>4. /\ x.pc = br[b].pc /\ x.task = br[b].task /\ x.pending = br[b].pending
      /\ x.held = br[b].held /\ x.verdict = br[b].verdict /\ x.queued = br[b].queued
      /\ x.lost = br[b].lost
  BY Facts DEF Bridge
<1>5. UNCHANGED <<disk, ghost, left>>
  BY DEF Ask, Reply
<1> HIDE DEF x
<1>6. Works(b)' /\ Holds(b)'
  BY <1>3, <1>4, <1>5, Facts DEF Works, Holds, disk, ghost, Unused
<1>7. Settles(b)'
  BY <1>3, <1>4, <1>5, Facts DEF Settles, disk, ghost
<1> QED
  BY <1>3, <1>5, <1>6, <1>7, SilentStep

(* A turn without a deliverable completes, or was blocked. *)
LEMMA CompleteStep ==
  ASSUME Inv, NEW b \in Bridges, Bridges = {b}, Complete(b) \/ CorrectlyBlocked(b)
  PROVE  Inv'
<1>1. br[b].pc \in Begins /\ br[b].task \in Tasks /\ br[b] \in Bridge
  BY Facts DEF Complete, CorrectlyBlocked, Works, Begins, Awaiting
<1>2. Mute
  BY <1>1, Telling, Silence DEF Complete, CorrectlyBlocked, Events, ghost
<1>3. Rests(b) /\ br'[b].pending = br[b].pending
  BY <1>1, EndedRests, Facts DEF Complete, CorrectlyBlocked
<1>4. Works(b)' /\ Holds(b)' /\ Settles(b)'
  BY <1>2, <1>3, RestStep, HoldsStay DEF Complete, CorrectlyBlocked
<1>5. CASE Complete(b)
  <2>1. CycleStep
    BY <1>1, <1>5, SettleStep DEF Complete, Settlement
  <2> QED
    BY <1>1, <1>2, <1>3, <1>4, <1>5, <2>1, TurnStep DEF Complete, Rests
<1>6. CASE CorrectlyBlocked(b)
  BY <1>1, <1>2, <1>3, <1>4, <1>6, TurnStep DEF CorrectlyBlocked, CycleStep, Rests, ghost
<1> QED
  BY <1>5, <1>6

(* A task that failed is reported. *)
LEMMA FailingStep ==
  ASSUME Inv, NEW b \in Bridges, Bridges = {b}, Failing(b)
  PROVE  Inv'
<1>1. br[b].task \in Tasks /\ br[b] \in Bridge
  BY Facts DEF Failing, Works, Awaiting
<1>2. Mute
  BY <1>1, Telling DEF Failing, Events
<1>3. Rests(b) /\ br'[b].pending = br[b].pending
  BY <1>1, EndedRests, Facts DEF Failing
<1>4. Works(b)' /\ Holds(b)' /\ Settles(b)'
  BY <1>2, <1>3, RestStep, HoldsStay DEF Failing, disk
<1> QED
  BY <1>2, <1>3, <1>4, QuietStep, Facts DEF Failing, disk, Records, CycleStep, Rests

(* A step of a task that changes its deliverable, its receipt or its decision. *)
LEMMA DeliveryStep ==
  ASSUME Inv, NEW b \in Bridges, Bridges = {b}, br[b].pc \in Begins,
         NEW t \in Tasks, t = br[b].task, receipt' \in {receipt, receipt \union {t}},
         NEW d \in {"none", "accept", "reject"}, decision' \in {decision, [decision EXCEPT ![t] = d]},
         NEW a \in {"none", "intact", "changed", "deleted"},
         artifact' \in {artifact, [artifact EXCEPT ![t] = a]},
         UNCHANGED <<pack, kpi, spent, cycles, bound, goal>>, Mute, left' \in Budget,
         br' \in [Bridges -> Bridge], Works(b)', Holds(b)', Settles(b)'
  PROVE  Inv'
<1>1. kpi[t] = "none" /\ shown[t] # {} /\ "accepted" \notin shown[t]
  BY Facts DEF Works, Awaiting, Begins
<1>2. KpiStays /\ CycleStep
  BY DEF KpiStays, CycleStep
<1>3. /\ decision' \in [Tasks -> {"none", "accept", "reject"}]
      /\ artifact' \in [Tasks -> {"none", "intact", "changed", "deleted"}]
      /\ \A u \in Tasks \ {t} : decision'[u] = decision[u] /\ artifact'[u] = artifact[u]
  BY DEF Inv, Typed, TypeOK
<1>4. TypeOK'
  <2>1. TypeOK
    BY DEF Inv, Typed
  <2> QED
    BY <1>2, <1>3, <2>1, TypesFrom DEF TypeOK
<1>5. \A u \in Tasks \ {t} : Spared(u)
  BY <1>3 DEF Spared, Mute
<1>6. Ledger(t)'
  <2>1. shown'[t] # {} /\ "accepted" \notin shown'[t] /\ "rejected" \notin shown'[t]
    <3>1. "rejected" \notin shown[t]
      BY <1>1 DEF Inv, Ledger
    <3> QED
      BY <1>1, <3>1 DEF Mute
  <2>2. kpi'[t] = "none"
    BY <1>1
  <2> QED
    BY <2>1, <2>2 DEF Ledger
<1>7. \A u \in Tasks : Spared(u) \/ Ledger(u)'
  BY <1>5, <1>6
<1>8. shown' \in [Tasks -> SUBSET Events]
  BY DEF Mute
<1> QED
  BY <1>2, <1>4, <1>7, <1>8, Whole

(* The router returns or throws. *)
LEMMA RouteStep ==
  ASSUME Inv, NEW b \in Bridges, Bridges = {b}, Route(b)
  PROVE  Inv'
<1>1. br[b].pc = "route" /\ br[b].pc \in Begins /\ br[b] \in Bridge
  BY Facts DEF Route, Begins
<1>2. PICK t \in Tasks : t = br[b].task
  BY <1>1, Facts DEF Works, Awaiting
<1>3. PICK o \in {"deliverable", "plain", "blocked", "error"} :
        /\ artifact' = IF o = "deliverable" THEN Produced(t) ELSE artifact
        /\ IF o = "blocked" /\ ~br[b].closing THEN Show(t, "blocked") ELSE UNCHANGED shown
        /\ br' = [br EXCEPT ![b] =
             IF o = "error" THEN Thrown(br[b])
             ELSE IF br[b].closing THEN Ended(br[b])
             ELSE [br[b] EXCEPT !.pc = "drain", !.result = o,
                                !.gen = br[b].gen /\ o # "blocked",
                                !.live = br[b].live /\ o # "blocked"]]
  BY <1>2 DEF Route
<1>4. Mute
  BY <1>2, <1>3, Telling, Silence DEF Events
<1>5. artifact' \in {artifact, [artifact EXCEPT ![t] = "intact"]}
  BY <1>3 DEF Produced
<1>6. UNCHANGED <<receipt, decision, pack, kpi, spent, cycles, order, bound, goal, left>>
  BY DEF Route
<1>7. br' \in [Bridges -> Bridge] /\ Works(b)' /\ Holds(b)' /\ Settles(b)'
  <2>1. CASE o = "error"
    <3>1. /\ br' \in [Bridges -> Bridge] /\ br'[b].pending = br[b].pending
          /\ Rests(b) \/ (br'[b].pc = "failing" /\ br'[b].task = br[b].task)
      BY <1>1, <1>3, <2>1, ThrownGoes, Facts
    <3> QED
      BY <1>1, <1>4, <1>6, <3>1, ThrownStays, HoldsStay DEF Awaiting
  <2>2. CASE o # "error" /\ br[b].closing
    <3>1. Rests(b) /\ br'[b].pending = br[b].pending
      BY <1>1, <1>3, <2>2, EndedRests, Facts
    <3> QED
      BY <1>4, <1>6, <3>1, RestStep, HoldsStay DEF Rests
  <2>3. CASE o # "error" /\ ~br[b].closing
    <3> DEFINE g == br[b].gen /\ o # "blocked"
               v == br[b].live /\ o # "blocked"
               x == [br[b] EXCEPT !.pc = "drain", !.result = o, !.gen = g, !.live = v]
    <3>1. g \in BOOLEAN /\ v \in BOOLEAN
      <4>1. br[b].gen \in BOOLEAN /\ br[b].live \in BOOLEAN
        BY <1>1 DEF Bridge
      <4> QED
        BY <4>1, Zenon
    <3>2. br' = [br EXCEPT ![b] = x]
      BY <1>3, <2>3
    <3> HIDE DEF g, v
    <3>3. "drain" \in Labels /\ o \in {"none", "deliverable", "plain", "blocked"}
      BY <2>3 DEF Labels, Awaiting
    <3>4. x \in Bridge
      BY <1>1, <3>1, <3>3, SetPc, SetResult, SetGen, SetLive, Zenon
    <3>5. x.pc = "drain" /\ x.task = br[b].task /\ x.pending = br[b].pending
      BY <1>1 DEF Bridge
    <3> HIDE DEF x
    <3>6. br' \in [Bridges -> Bridge] /\ br'[b] = x
      BY <3>2, <3>4, PutType, Facts
    <3>7. Works(b) /\ br[b].pending = None
      BY <1>1, Facts DEF Works
    <3>8. Works(b)'
      BY <1>1, <1>2, <1>4, <1>6, <3>5, <3>6, <3>7 DEF Works, Awaiting, Begins, Mute
    <3> QED
      BY <3>5, <3>6, <3>7, <3>8 DEF Holds, Settles, Settling
  <2> QED
    BY <2>1, <2>2, <2>3
<1> QED
  BY <1>1, <1>2, <1>4, <1>5, <1>6, <1>7, DeliveryStep, Facts

(* The deliverable is refused, offered, or accepted by the trust policy. *)
LEMMA DeliverStep ==
  ASSUME Inv, NEW b \in Bridges, Bridges = {b}, Deliver(b)
  PROVE  Inv'
<1>1. br[b].pc \in Begins /\ br[b] \in Bridge /\ br[b].pending = None
  BY Facts DEF Deliver, Begins, Works
<1>2. PICK t \in Tasks : t = br[b].task
  BY <1>1, Facts DEF Works, Awaiting, Begins
<1>3. /\ t \notin receipt /\ decision[t] = "none" /\ kpi[t] = "none"
      /\ shown[t] # {} /\ "accepted" \notin shown[t]
  BY <1>1, <1>2, Facts DEF Works, Awaiting, Begins
<1>4. UNCHANGED <<pack, kpi, spent, cycles, bound, goal, shown>> /\ Mute
  BY Silence DEF Deliver, ghost
<1>5. artifact' \in {artifact, [artifact EXCEPT ![t] = "intact"]}
  BY <1>2 DEF Deliver
<1>6. left' \in Budget
  BY SpentType, Facts DEF Deliver, Fails, NoFault
<1>7. decision \in [Tasks -> {"none", "accept", "reject"}]
  BY DEF Inv, Typed, TypeOK
<1>8. ASSUME NEW l \in {"refuse", "verify"}, NEW v \in {"fail", "accept"},
             br' = [br EXCEPT ![b].pc = l, ![b].held = t, ![b].verdict = v, ![b].after = "task"],
             receipt' \in {receipt, receipt \union {t}},
             decision' \in {decision, [decision EXCEPT ![t] = "accept"]},
             \/ l = "refuse" /\ v = "fail"
             \/ l = "verify" /\ v = "accept" /\ t \in receipt' /\ decision'[t] = "accept"
      PROVE  Inv'
  <2> DEFINE x == [br[b] EXCEPT !.pc = l, !.held = t, !.verdict = v, !.after = "task"]
  <2>1. l \in Labels
    BY DEF Labels, Settling
  <2>2. x \in Bridge
    BY <1>1, <2>1, SetPc, SetHeld, SetVerdict, SetAfter, Zenon
  <2>3. x.pc = l /\ x.held = t /\ x.verdict = v /\ x.pending = None
    BY <1>1 DEF Bridge
  <2>4. br' = [br EXCEPT ![b] = x]
    BY <1>8
  <2> HIDE DEF x
  <2>5. br' \in [Bridges -> Bridge] /\ br'[b] = x
    BY <2>2, <2>4, PutType, Facts
  <2>6. Works(b)' /\ Holds(b)'
    BY <2>3, <2>5 DEF Works, Holds, Awaiting, Begins
  <2>7. Settles(b)'
    <3>1. CASE l = "refuse" /\ v = "fail"
      BY <1>3, <1>4, <2>3, <2>5, <3>1 DEF Settles, Booked
    <3>2. CASE l = "verify" /\ v = "accept" /\ t \in receipt' /\ decision'[t] = "accept"
      BY <1>3, <1>4, <2>3, <2>5, <3>2 DEF Settles, Judged, Booked, DecidedAs
    <3> QED
      BY <1>8, <3>1, <3>2
  <2> QED
    BY <1>1, <1>2, <1>4, <1>5, <1>6, <1>8, <2>5, <2>6, <2>7, DeliveryStep
<1>9. CASE /\ br' = [br EXCEPT ![b].pc = "offer"] /\ receipt' = receipt \union {t}
           /\ UNCHANGED decision
  <2>1. Goes(b, "offer")
    BY <1>9, GoesTo, Facts DEF Labels
  <2>2. Works(b)' /\ Holds(b)' /\ Settles(b)'
    BY <1>1, <1>2, <1>3, <1>4, <1>9, <2>1
       DEF Goes, Works, Holds, Settles, Awaiting, Begins, Settling
  <2> QED
    BY <1>1, <1>2, <1>4, <1>5, <1>6, <1>7, <1>9, <2>1, <2>2, DeliveryStep DEF Goes
<1> QED
  <2>1. CASE /\ br' = [br EXCEPT ![b].pc = "refuse", ![b].held = t,
                                 ![b].verdict = "fail", ![b].after = "task"]
             /\ receipt' \in {receipt, receipt \union {t}} /\ UNCHANGED decision
    BY <1>8, <2>1
  <2>2. CASE /\ br' = [br EXCEPT ![b].pc = "verify", ![b].held = t,
                                 ![b].verdict = "accept", ![b].after = "task"]
             /\ receipt' = receipt \union {t}
             /\ decision' = [decision EXCEPT ![t] = "accept"]
    <3>1. t \in receipt' /\ decision'[t] = "accept"
      BY <1>7, <2>2
    <3> QED
      BY <1>8, <2>2, <3>1
  <2> QED
    BY <1>2, <1>9, <2>1, <2>2 DEF Deliver

(* The deliverable is held, its cycle told, and the client asked. *)
LEMMA OfferStep ==
  ASSUME Inv, NEW b \in Bridges, Bridges = {b}, Offer(b)
  PROVE  Inv'
<1>1. br[b].pc = "offer" /\ br[b] \in Bridge /\ br[b].pending = None
  BY Facts DEF Offer, Works
<1>2. PICK t \in Tasks : t = br[b].task /\ t \in receipt /\ shown[t] # {}
  BY <1>1, Facts DEF Works
<1> DEFINE r == [br[b] EXCEPT !.pending = t]
           c == bound[t]
<1>3. r \in Bridge
  BY <1>1, SetPending
<1>4. r.pending = t /\ r.task = br[b].task
  BY <1>1 DEF Bridge
<1>5. UNCHANGED <<Records, bound, goal, left>>
  BY DEF Offer, Records
<1>6. CASE /\ br' = [br EXCEPT ![b] = Thrown(r)]
           /\ UNCHANGED <<cycles, order, shown>>
  <2> HIDE DEF r
  <2>1. /\ br' \in [Bridges -> Bridge] /\ br'[b].pending = t
        /\ Rests(b) \/ (br'[b].pc = "failing" /\ br'[b].task = br[b].task)
    BY <1>3, <1>4, <1>6, ThrownGoes, Facts
  <2>2. Mute /\ CycleStep
    BY <1>6, Silence DEF CycleStep
  <2>3. Works(b)' /\ Holds(b)' /\ Settles(b)'
    BY <1>1, <1>2, <1>5, <1>6, <2>1, <2>2, ThrownStays DEF Holds, Records
  <2> QED
    BY <1>5, <2>1, <2>2, <2>3, QuietStep, Facts
<1>7. CASE /\ br' = [br EXCEPT ![b] = Ended(r)]
           /\ Show(t, "requested")
           /\ IF c = None THEN UNCHANGED <<cycles, order>>
              ELSE /\ Legal(cycles[c], "AWAITING_DELIVERY_APPROVAL", DeliveryKey(t))
                   /\ Write(c, Moved(cycles[c], "AWAITING_DELIVERY_APPROVAL", DeliveryKey(t)))
  <2> HIDE DEF r
  <2>1. Rests(b) /\ br'[b].pending = t
    BY <1>3, <1>4, <1>7, EndedRests, Facts
  <2>2. Mute
    BY <1>7, Telling DEF Events
  <2>3. CycleStep
    <3>1. CASE c # None
      <4>1. c \in Cycles /\ cycles[c] \in Cycle /\ Judges(cycles[c], kpi)
        BY <3>1, Facts
      <4>2. "AWAITING_DELIVERY_APPROVAL" \in States /\ DeliveryKey(t) \in Keys
        BY StatesAre DEF Keys
      <4> QED
        BY <1>7, <3>1, <4>1, <4>2, MovedType, MovedJudges, WriteStep
    <3> QED
      BY <1>7, <3>1 DEF CycleStep
  <2>4. Works(b)' /\ Holds(b)' /\ Settles(b)'
    BY <1>2, <1>5, <2>1, <2>2, RestStep DEF Holds, Records, Mute
  <2> QED
    BY <1>5, <2>1, <2>2, <2>3, <2>4, QuietStep, Facts DEF Rests
<1> QED
  BY <1>2, <1>6, <1>7 DEF Offer

-----------------------------------------------------------------------------
(* The verdict on the held deliverable. *)

(* No verdict is told of task u. *)
MuteOn(u) ==
  /\ shown[u] \subseteq shown'[u]
  /\ \A e \in {"accepted", "rejected"} : e \in shown'[u] => e \in shown[u]

(* A step of a settlement is about one task. *)
LEMMA BookStep ==
  ASSUME Inv, NEW b \in Bridges, Bridges = {b}, NEW t \in Tasks,
         receipt' \in {receipt, receipt \union {t}, receipt \ {t}},
         NEW d \in {"none", "accept", "reject"},
         decision' \in {decision, [decision EXCEPT ![t] = d]},
         artifact' \in {artifact, [artifact EXCEPT ![t] = "deleted"]},
         pack' \in {pack, pack \union {t}, pack \ {t}},
         NEW o \in {"accepted", "rejected"}, Outcome(t, o) \/ UNCHANGED kpi,
         spent' \in {spent, spent \union {t}},
         CycleStep, UNCHANGED <<bound, goal>>, left' \in Budget,
         shown' \in [Tasks -> SUBSET Events], \A u \in Tasks \ {t} : MuteOn(u),
         Ledger(t)', br' \in [Bridges -> Bridge], Works(b)', Holds(b)', Settles(b)'
  PROVE  Inv'
<1>1. /\ KpiStays
      /\ kpi' \in [Tasks -> {"none", "accepted", "rejected", "completed", "blocked"}]
      /\ \A u \in Tasks \ {t} : kpi'[u] = kpi[u]
  BY OutcomeStep
<1>2. /\ decision' \in [Tasks -> {"none", "accept", "reject"}]
      /\ artifact' \in [Tasks -> {"none", "intact", "changed", "deleted"}]
      /\ \A u \in Tasks \ {t} : decision'[u] = decision[u] /\ artifact'[u] = artifact[u]
  BY DEF Inv, Typed, TypeOK
<1>3. TypeOK'
  <2>1. TypeOK
    BY DEF Inv, Typed
  <2>2. receipt' \subseteq Tasks /\ pack' \subseteq Tasks /\ spent' \subseteq Tasks
    BY <2>1 DEF TypeOK
  <2>3. /\ bound' \in [Tasks -> Cycles \union {None}]
        /\ goal' \in [Tasks -> Cycles \union {None}]
    BY Facts
  <2> QED
    BY <1>1, <1>2, <2>2, <2>3, TypesFrom
<1>4. ASSUME NEW u \in Tasks \ {t}
      PROVE  Spared(u)
  <2>1. (u \in receipt' <=> u \in receipt) /\ (u \in pack => u \in pack') /\ (u \in spent => u \in spent')
    OBVIOUS
  <2> QED
    BY <1>1, <1>2, <2>1 DEF Spared, MuteOn
<1>5. \A u \in Tasks : Spared(u) \/ Ledger(u)'
  BY <1>4
<1> QED
  BY <1>1, <1>3, <1>5, Whole

(* What a settlement knows. *)
LEMMA HeldFacts ==
  ASSUME Inv, NEW b \in Bridges, br[b].pc \in Settling
  PROVE  /\ br[b] \in Bridge /\ br[b].verdict \in Judged \union {"fail"}
         /\ \E t \in Tasks : t = br[b].held /\ shown[t] # {} /\ Ledger(t)
  BY Facts DEF Settles, Inv

(* A settlement holds nothing, and works on nothing. *)
LEMMA SettlingStays ==
  ASSUME NEW b \in Bridges, br'[b].pc \in Settling, br'[b].pending = None
  PROVE  Works(b)' /\ Holds(b)'
  BY DEF Works, Holds, Settling, Awaiting, Begins

(* The user gives a verdict, *)
LEMMA JudgeType ==
  ASSUME Inv, NEW b \in Bridges, NEW v \in Judged, NEW a \in {"line", "revise"}, Judge(b, v, a)
  PROVE  /\ br' \in [Bridges -> Bridge] /\ br'[b].pc = "decide" /\ br'[b].verdict = v
         /\ br'[b].held = br[b].pending /\ br'[b].pending = br[b].pending
         /\ br[b].pending \in Tasks
<1> DEFINE x == [br[b] EXCEPT !.pc = "decide", !.held = br[b].pending, !.verdict = v, !.after = a]
<1>1. br[b] \in Bridge /\ br[b].pending \in Tasks
  BY Facts DEF Judge, Bridge
<1>2. x \in Bridge
  <2>1. "decide" \in Labels /\ v \in {"none", "accept", "reject", "revise", "fail"}
        /\ a \in {"none", "line", "revise", "task", "start"}
        /\ br[b].pending \in Tasks \union Cycles \union {None}
    BY <1>1 DEF Labels, Settling, Judged
  <2> QED
    BY <1>1, <2>1, SetPc, SetHeld, SetVerdict, SetAfter, Zenon
<1>3. x.pc = "decide" /\ x.verdict = v /\ x.held = br[b].pending /\ x.pending = br[b].pending
  BY <1>1 DEF Bridge
<1>4. br' = [br EXCEPT ![b] = x]
  BY DEF Judge
<1> HIDE DEF x
<1>5. br' \in [Bridges -> Bridge] /\ br'[b] = x
  BY <1>2, <1>4, PutType, Facts
<1> QED
  BY <1>1, <1>3, <1>5

(* which is then decided, *)
LEMMA JudgeStays ==
  ASSUME Inv, NEW b \in Bridges, NEW v \in Judged, NEW a \in {"line", "revise"}, Judge(b, v, a),
         UNCHANGED <<receipt, shown>>
  PROVE  Works(b)' /\ Holds(b)' /\ Settles(b)'
<1>1. /\ br'[b].pc = "decide" /\ br'[b].verdict \in Judged
      /\ br'[b].held = br[b].pending /\ br'[b].pending = br[b].pending
      /\ br[b].pending \in Tasks
  BY JudgeType
<1>2. br[b].pending \in receipt /\ shown[br[b].pending] # {} /\ br[b].pending # None
  BY <1>1, Facts DEF Holds, Judge
<1>3. Works(b)' /\ Holds(b)'
  BY <1>1, <1>2 DEF Works, Holds, Awaiting, Begins
<1>4. Settles(b)'
  BY <1>1, <1>2 DEF Settles, Judged, Booked
<1> QED
  BY <1>3, <1>4

(* also when the deliverable is deleted. *)
LEMMA JudgeStep ==
  ASSUME Inv, NEW b \in Bridges, Bridges = {b}, Accept(b) \/ Reject(b) \/ Revise(b) \/ Delete(b)
  PROVE  Inv'
<1>1. CASE Accept(b) \/ Reject(b) \/ Revise(b)
  <2>1. PICK v \in Judged, a \in {"line", "revise"} : Judge(b, v, a)
    BY <1>1 DEF Accept, Reject, Revise, Judged
  <2>2. UNCHANGED <<disk, ghost, left>>
    BY <1>1 DEF Accept, Reject, Revise
  <2> QED
    BY <2>1, <2>2, JudgeType, JudgeStays, SilentStep DEF disk, ghost
<1>2. CASE Delete(b)
  <2>1. Judge(b, "reject", "line") /\ "reject" \in Judged
    BY <1>2 DEF Delete, Judged
  <2>2. PICK t \in Tasks : t = br[b].pending
    BY <2>1, JudgeType
  <2>3. UNCHANGED <<receipt, decision, pack, kpi, spent, cycles, order, ghost, left>>
        /\ artifact' = [artifact EXCEPT ![t] = "deleted"]
    BY <1>2, <2>2 DEF Delete
  <2>4. artifact'[t] = "deleted"
    BY <2>3 DEF Inv, Typed, TypeOK
  <2>5. Ledger(t)'
    <3>1. Ledger(t)
      BY DEF Inv
    <3> QED
      BY <2>3, <2>4, <3>1 DEF Ledger, ghost
  <2>6. shown' \in [Tasks -> SUBSET Events] /\ (\A u \in Tasks : MuteOn(u)) /\ CycleStep
    BY <2>3 DEF MuteOn, Inv, Typed, ghost, CycleStep
  <2>7. br' \in [Bridges -> Bridge] /\ Works(b)' /\ Holds(b)' /\ Settles(b)'
    BY <2>1, <2>3, JudgeType, JudgeStays DEF ghost
  <2> QED
    BY <2>3, <2>5, <2>6, <2>7, BookStep, Facts DEF ghost
<1> QED
  BY <1>1, <1>2

(* A settlement returns to rest, or to the revision it was asked for. *)
LEMMA ReturnedType ==
  ASSUME Inv, NEW b \in Bridges, NEW ok, Returned(b, ok)
  PROVE  \/ Rests(b) /\ br'[b].pending = br[b].pending /\ UNCHANGED shown
         \/ /\ Unused # {} /\ br[b].pending = None
            /\ Starts(b, Fresh) /\ Show(Fresh, "started")
<1> DEFINE r == br[b]
           done == [r EXCEPT !.held = None, !.verdict = "none", !.after = "none",
                             !.lost = FALSE, !.pc = "idle"]
<1>1. r \in Bridge
  BY Facts
<1>2. done \in Bridge
  <2>1. "idle" \in Labels
    BY DEF Labels
  <2> QED
    BY <1>1, <2>1, SetHeld, SetVerdict, SetAfter, SetLost, SetPc, Zenon
<1>3. done.pending = r.pending /\ done.pc = "idle"
  BY <1>1 DEF Bridge
<1>4. CASE br' = [br EXCEPT ![b] = Ended(r)] /\ UNCHANGED shown
  BY <1>1, <1>4, EndedRests, Facts
<1>5. CASE /\ r.pending = None /\ Unused # {}
           /\ br' = [br EXCEPT ![b] = Begun(done, Fresh, FALSE, TRUE)] /\ Show(Fresh, "started")
  <2> HIDE DEF done
  <2>1. Fresh \in Tasks
    BY <1>5, FreshType
  <2>2. Starts(b, Fresh)
    BY <1>2, <1>3, <1>5, <2>1, BegunStarts, Facts
  <2> QED
    BY <1>5, <2>2
<1>6. CASE br' = [br EXCEPT ![b] = [done EXCEPT !.pc = Scheduled(done)]] /\ UNCHANGED shown
  <2> HIDE DEF done
  <2> DEFINE x == [done EXCEPT !.pc = Scheduled(done)]
  <2>1. /\ Scheduled(done) \in Ends
        /\ Scheduled(done) = "dequeue" => done.queued > 0 /\ done.pending = None
    BY DEF Scheduled, Ends
  <2>2. x \in Bridge
    BY <1>2, <2>1, SetPc DEF Labels, Ends
  <2>3. x.pc = Scheduled(done) /\ x.pending = done.pending /\ x.queued = done.queued
    BY <1>2 DEF Bridge
  <2>4. br' \in [Bridges -> Bridge] /\ br'[b] = x
    BY <1>6, <2>2, PutType, Facts
  <2> QED
    BY <1>3, <1>6, <2>1, <2>3, <2>4 DEF Rests
<1>7. CASE br' = [br EXCEPT ![b] = done] /\ UNCHANGED shown
  <2> HIDE DEF done
  <2>1. br' \in [Bridges -> Bridge] /\ br'[b] = done
    BY <1>2, <1>7, PutType, Facts
  <2> QED
    BY <1>3, <1>7, <2>1 DEF Rests, Ends
<1> QED
  BY <1>4, <1>5, <1>6, <1>7, Zenon DEF Returned

(* Its task keeps what was told of it, and a fresh one has left no trace. *)
LEMMA ReturnedStays ==
  ASSUME Inv, NEW b \in Bridges, br[b].pc \in Settling, NEW ok, Returned(b, ok),
         NEW t \in Tasks, t = br[b].held, UNCHANGED kpi,
         receipt' \subseteq receipt, \A u \in Tasks \ {t} : decision'[u] = decision[u],
         br[b].pending = None \/ UNCHANGED receipt
  PROVE  /\ br' \in [Bridges -> Bridge] /\ Works(b)' /\ Holds(b)' /\ Settles(b)'
         /\ shown' \in [Tasks -> SUBSET Events] /\ (\A u \in Tasks : MuteOn(u))
         /\ shown'[t] = shown[t]
<1>1. CASE Rests(b) /\ br'[b].pending = br[b].pending /\ UNCHANGED shown
  <2>1. Mute
    BY <1>1, Silence
  <2>2. Holds(b)'
    BY <1>1, Facts DEF Holds
  <2> QED
    BY <1>1, <2>1, <2>2, RestStep DEF Rests, Mute, MuteOn
<1>2. CASE /\ Unused # {} /\ br[b].pending = None
           /\ Starts(b, Fresh) /\ Show(Fresh, "started")
  <2>1. PICK f \in Tasks : f = Fresh /\ shown[f] = {} /\ f \notin receipt
                          /\ decision[f] = "none" /\ kpi[f] = "none"
    BY <1>2, FreshType
  <2>2. shown[t] # {}
    BY Facts DEF Settles
  <2>3. Mute /\ "started" \in shown'[f] /\ \A u \in Tasks \ {f} : shown'[u] = shown[u]
    BY <1>2, <2>1, Telling DEF Events
  <2>4. "accepted" \notin shown'[f]
    BY <2>1, <2>3 DEF Mute
  <2>5. Works(b)' /\ Holds(b)' /\ Settles(b)'
    BY <1>2, <2>1, <2>2, <2>3, <2>4, StartStep
  <2> QED
    BY <1>2, <2>1, <2>2, <2>3, <2>5 DEF Starts, Mute, MuteOn
<1> QED
  BY <1>1, <1>2, ReturnedType

(* A decision is written, if there is no other. *)
LEMMA DecideStep ==
  ASSUME Inv, NEW b \in Bridges, Bridges = {b}, Decide(b)
  PROVE  Inv'
<1>1. br[b].pc = "decide" /\ br[b].pc \in Settling /\ br[b] \in Bridge
  BY Facts DEF Decide, Settling
<1>2. PICK t \in Tasks : t = br[b].held /\ shown[t] # {} /\ Ledger(t)
  BY <1>1, HeldFacts
<1>3. t = br[b].pending /\ t \in receipt /\ br[b].verdict \in Judged
  BY <1>1, <1>2, Facts, NoneAssumption DEF Settles, Holds, Cycles
<1>4. UNCHANGED <<receipt, artifact, pack, kpi, spent, cycles, bound, goal>> /\ CycleStep
  BY DEF Decide, CycleStep
<1>5. left' \in Budget
  BY SpentType, Facts DEF Decide, Fails, NoFault
<1>6. CASE Returned(b, FALSE) /\ UNCHANGED decision
  <2>1. /\ br' \in [Bridges -> Bridge] /\ Works(b)' /\ Holds(b)' /\ Settles(b)'
        /\ shown' \in [Tasks -> SUBSET Events] /\ (\A u \in Tasks : MuteOn(u))
        /\ shown'[t] = shown[t]
    BY <1>1, <1>2, <1>4, <1>6, ReturnedStays
  <2>2. Ledger(t)'
    BY <1>2, <1>4, <1>6, <2>1 DEF Ledger
  <2> QED
    BY <1>4, <1>5, <1>6, <2>1, <2>2, BookStep
<1>7. CASE /\ decision[t] \in {"none", Verdict(b)}
           /\ decision' = [decision EXCEPT ![t] = Verdict(b)]
           /\ br' = [br EXCEPT ![b].pending = None,
                               ![b].pc = IF Verdict(b) = "accept" THEN "verify" ELSE "kpi"]
           /\ UNCHANGED shown
  <2>1. PICK v \in {"accept", "reject"} : v = Verdict(b) /\ v = DecidedAs(br[b].verdict)
    BY <1>3 DEF Verdict, DecidedAs, Judged
  <2>2. PICK l \in {"verify", "kpi"} : l = IF v = "accept" THEN "verify" ELSE "kpi"
    OBVIOUS
  <2> DEFINE x == [br[b] EXCEPT !.pending = None, !.pc = l]
  <2>3. br' = [br EXCEPT ![b] = x]
    BY <1>7, <2>1, <2>2
  <2>4. l \in Labels
    BY DEF Labels, Settling
  <2>5. x \in Bridge
    BY <1>1, <2>4, SetPending, SetPc, Zenon
  <2>6. x.pending = None /\ x.pc = l /\ x.held = t /\ x.verdict = br[b].verdict
    BY <1>1, <1>2 DEF Bridge
  <2> HIDE DEF x
  <2>7. br' \in [Bridges -> Bridge] /\ br'[b] = x
    BY <2>3, <2>5, PutType, Facts
  <2>8. decision' = [decision EXCEPT ![t] = v] /\ decision'[t] = v
    BY <1>7, <2>1 DEF Inv, Typed, TypeOK
  <2>9. Ledger(t)'
    BY <1>2, <1>3, <1>4, <1>7, <2>1, <2>8 DEF Ledger
  <2>10. Works(b)' /\ Holds(b)'
    BY <2>6, <2>7, SettlingStays DEF Settling
  <2>11. Settles(b)'
    <3>1. v = "accept" <=> br[b].verdict = "accept"
      BY <1>3, <2>1 DEF DecidedAs, Judged
    <3>2. br'[b].verdict # "fail" /\ br'[b].verdict \in Judged
      BY <1>3, <2>6, <2>7 DEF Judged
    <3>3. t \in receipt' /\ shown'[t] # {} /\ decision'[t] = DecidedAs(br'[b].verdict)
      BY <1>2, <1>3, <1>4, <1>7, <2>1, <2>6, <2>7, <2>8
    <3> QED
      BY <2>2, <2>6, <2>7, <3>1, <3>2, <3>3 DEF Settles, Booked
  <2>12. shown' \in [Tasks -> SUBSET Events] /\ \A u \in Tasks : MuteOn(u)
    BY <1>7 DEF MuteOn, Inv, Typed
  <2> QED
    BY <1>4, <1>5, <2>7, <2>8, <2>9, <2>10, <2>11, <2>12, BookStep
<1> QED
  BY <1>2, <1>6, <1>7 DEF Decide

(* A settlement that fails, whatever it has packed. *)
LEMMA FailStep ==
  ASSUME Inv, NEW b \in Bridges, Bridges = {b}, br[b].pc \in {"verify", "pack", "recheck"},
         NEW t \in Tasks, t = br[b].held, Fail(b), left' \in Budget,
         pack' = pack \/ (pack' = pack \ {t} /\ artifact[t] # "intact"),
         UNCHANGED <<receipt, decision, artifact, kpi, spent, cycles, order, ghost>>
  PROVE  Inv'
<1> DEFINE x == [br[b] EXCEPT !.pc = "refuse", !.verdict = "fail"]
<1>1. br[b].pc \in Settling /\ br[b] \in Bridge
  BY Facts DEF Settling
<1>2. Ledger(t) /\ shown[t] # {} /\ br[b].pending = None
  BY <1>1, HeldFacts, Facts DEF Settles
<1>3. x \in Bridge
  <2>1. "refuse" \in Labels
    BY DEF Labels, Settling
  <2> QED
    BY <1>1, <2>1, SetPc, SetVerdict, Zenon
<1>4. x.pc = "refuse" /\ x.verdict = "fail" /\ x.held = t /\ x.pending = None
  BY <1>1, <1>2 DEF Bridge
<1>5. br' = [br EXCEPT ![b] = x]
  BY DEF Fail
<1> HIDE DEF x
<1>6. br' \in [Bridges -> Bridge] /\ br'[b] = x
  BY <1>3, <1>5, PutType, Facts
<1>7. Works(b)' /\ Holds(b)'
  BY <1>4, <1>6, SettlingStays DEF Settling
<1>8. Settles(b)'
  BY <1>2, <1>4, <1>6 DEF Settles, Booked, ghost
<1>9. Ledger(t)'
  BY <1>2 DEF Ledger, ghost
<1>10. shown' \in [Tasks -> SUBSET Events] /\ (\A u \in Tasks : MuteOn(u)) /\ CycleStep
  BY DEF MuteOn, Inv, Typed, ghost, CycleStep
<1> QED
  BY <1>6, <1>7, <1>8, <1>9, <1>10, BookStep DEF ghost

(* A settlement that goes on, step by step: it books for its task what the next
   step relies on. *)
LEMMA GoesOnStep ==
  ASSUME Inv, NEW b \in Bridges, Bridges = {b}, br[b].pc \in Settling \ {"decide"},
         NEW l \in Settling \ {"decide"}, Goes(b, l), NEW t \in Tasks, t = br[b].held,
         UNCHANGED <<decision, artifact, bound, goal>>,
         receipt' \in {receipt, receipt \ {t}}, pack' \in {pack, pack \union {t}},
         spent' \in {spent, spent \union {t}},
         NEW o \in {"accepted", "rejected"}, Outcome(t, o) \/ UNCHANGED kpi,
         CycleStep, left' \in Budget,
         shown' \in [Tasks -> SUBSET Events], \A u \in Tasks \ {t} : shown'[u] = shown[u],
         Ledger(t)', Settles(b)'
  PROVE  Inv'
<1>1. br[b].pending = None
  BY Facts DEF Settles
<1>2. Works(b)' /\ Holds(b)'
  BY <1>1, SettlingStays DEF Goes
<1>3. \A u \in Tasks \ {t} : MuteOn(u)
  BY DEF MuteOn
<1> QED
  BY <1>2, <1>3, BookStep DEF Goes

(* The deliverable is checked, *)
LEMMA VerifyStep ==
  ASSUME Inv, NEW b \in Bridges, Bridges = {b}, Verify(b)
  PROVE  Inv'
<1>1. br[b].pc = "verify" /\ br[b].pc \in Settling \ {"decide"}
  BY DEF Verify, Settling
<1>2. PICK t \in Tasks : t = br[b].held /\ shown[t] # {} /\ Ledger(t)
  BY <1>1, HeldFacts
<1>3. br[b].verdict = "accept" /\ t \in receipt /\ decision[t] = "accept" /\ br[b].pending = None
  BY <1>1, <1>2, Facts DEF Settles, Settling, DecidedAs
<1>4. UNCHANGED <<receipt, decision, artifact, pack, kpi, spent, cycles, order, ghost, left>>
  BY DEF Verify, disk
<1>5. CASE br' = [br EXCEPT ![b].pc = "pack"]
  <2>1. Goes(b, "pack")
    BY <1>5, GoesTo, Facts DEF Labels, Settling
  <2>2. Settles(b)'
    BY <1>2, <1>3, <1>4, <2>1 DEF Goes, Settles, Judged, Booked, DecidedAs, ghost
  <2>3. Ledger(t)'
    BY <1>2, <1>4 DEF Ledger, ghost
  <2>4. shown' \in [Tasks -> SUBSET Events] /\ CycleStep
    BY <1>4 DEF Inv, Typed, ghost, CycleStep
  <2> QED
    BY <1>1, <1>2, <1>4, <2>1, <2>2, <2>3, <2>4, GoesOnStep, Facts DEF Settling, ghost
<1>6. CASE Fail(b)
  BY <1>1, <1>2, <1>4, <1>6, FailStep, Facts
<1> QED
  BY <1>5, <1>6 DEF Verify

(* packed, *)
LEMMA PackStep ==
  ASSUME Inv, NEW b \in Bridges, Bridges = {b}, Pack(b)
  PROVE  Inv'
<1>1. br[b].pc = "pack" /\ br[b].pc \in Settling \ {"decide"}
  BY DEF Pack, Settling
<1>2. PICK t \in Tasks : t = br[b].held /\ shown[t] # {} /\ Ledger(t)
  BY <1>1, HeldFacts
<1>3. br[b].verdict = "accept" /\ t \in receipt /\ decision[t] = "accept" /\ br[b].pending = None
  BY <1>1, <1>2, Facts DEF Settles, Settling, DecidedAs
<1>4. UNCHANGED <<receipt, decision, artifact, kpi, spent, cycles, order, ghost>>
  BY DEF Pack
<1>5. left' \in Budget
  BY SpentType, Facts DEF Pack, Fails, NoFault
<1>6. CASE pack' = pack \union {t} /\ br' = [br EXCEPT ![b].pc = "recheck"]
  <2>1. Goes(b, "recheck")
    BY <1>6, GoesTo, Facts DEF Labels, Settling
  <2>2. Settles(b)'
    BY <1>2, <1>3, <1>4, <1>6, <2>1 DEF Goes, Settles, Judged, Booked, DecidedAs, ghost
  <2>3. Ledger(t)'
    BY <1>2, <1>4, <1>6 DEF Ledger, ghost
  <2>4. shown' \in [Tasks -> SUBSET Events] /\ CycleStep
    BY <1>4 DEF Inv, Typed, ghost, CycleStep
  <2> QED
    BY <1>1, <1>2, <1>4, <1>5, <1>6, <2>1, <2>2, <2>3, <2>4, GoesOnStep DEF Settling, ghost
<1>7. CASE Fail(b) /\ UNCHANGED pack
  BY <1>1, <1>2, <1>4, <1>5, <1>7, FailStep
<1> QED
  BY <1>2, <1>6, <1>7 DEF Pack

(* and checked again; *)
LEMMA RecheckStep ==
  ASSUME Inv, NEW b \in Bridges, Bridges = {b}, Recheck(b)
  PROVE  Inv'
<1>1. br[b].pc = "recheck" /\ br[b].pc \in Settling \ {"decide"}
  BY DEF Recheck, Settling
<1>2. PICK t \in Tasks : t = br[b].held /\ shown[t] # {} /\ Ledger(t)
  BY <1>1, HeldFacts
<1>3. /\ br[b].verdict = "accept" /\ t \in receipt /\ decision[t] = "accept" /\ t \in pack
      /\ br[b].pending = None
  BY <1>1, <1>2, Facts DEF Settles, Settling, DecidedAs
<1>4. UNCHANGED <<receipt, decision, artifact, kpi, spent, cycles, order, ghost, left>>
  BY DEF Recheck
<1>5. CASE br' = [br EXCEPT ![b].pc = "kpi"] /\ UNCHANGED pack
  <2>1. Goes(b, "kpi")
    BY <1>5, GoesTo, Facts DEF Labels, Settling
  <2>2. Settles(b)'
    BY <1>2, <1>3, <1>4, <1>5, <2>1 DEF Goes, Settles, Judged, Booked, DecidedAs, ghost
  <2>3. Ledger(t)'
    BY <1>2, <1>4, <1>5 DEF Ledger, ghost
  <2>4. shown' \in [Tasks -> SUBSET Events] /\ CycleStep
    BY <1>4 DEF Inv, Typed, ghost, CycleStep
  <2> QED
    BY <1>1, <1>2, <1>4, <1>5, <2>1, <2>2, <2>3, <2>4, GoesOnStep, Facts DEF Settling, ghost
<1>6. CASE artifact[t] # "intact" /\ Fail(b) /\ pack' = pack \ {t}
  BY <1>1, <1>2, <1>4, <1>6, FailStep, Facts
<1> QED
  BY <1>2, <1>5, <1>6 DEF Recheck

(* the outcome is booked, or known to be lost; *)
LEMMA KpiStep ==
  ASSUME Inv, NEW b \in Bridges, Bridges = {b}, Kpi(b)
  PROVE  Inv'
<1>1. br[b].pc = "kpi" /\ br[b].pc \in Settling \ {"decide"} /\ br[b] \in Bridge
  BY Facts DEF Kpi, Settling
<1>2. PICK t \in Tasks : t = br[b].held /\ shown[t] # {} /\ Ledger(t)
  BY <1>1, HeldFacts
<1> DEFINE v == IF Verdict(b) = "accept" THEN "accepted" ELSE "rejected"
<1>3. /\ br[b].verdict \in Judged /\ t \in receipt /\ decision[t] = DecidedAs(br[b].verdict)
      /\ br[b].verdict = "accept" => t \in pack \/ artifact[t] # "intact"
      /\ br[b].pending = None
  BY <1>1, <1>2, Facts DEF Settles
<1>4. v = BookedAs(br[b].verdict) /\ v \in {"accepted", "rejected"}
  BY <1>3 DEF Verdict, BookedAs, Judged
<1>5. UNCHANGED <<receipt, decision, artifact, pack, spent, cycles, order, ghost>>
  BY DEF Kpi
<1>6. left' \in Budget
  BY SpentType, Facts DEF Kpi, Fails, NoFault
<1>7. shown' \in [Tasks -> SUBSET Events] /\ (\A u \in Tasks : MuteOn(u)) /\ CycleStep
  BY <1>5 DEF MuteOn, Inv, Typed, ghost, CycleStep
<1>8. CASE UNCHANGED kpi /\ br' = [br EXCEPT ![b].pc = "spend", ![b].lost = TRUE]
  <2> DEFINE x == [br[b] EXCEPT !.pc = "spend", !.lost = TRUE]
  <2>1. x \in Bridge
    <3>1. "spend" \in Labels
      BY DEF Labels, Settling
    <3> QED
      BY <1>1, <3>1, SetPc, SetLost, Zenon
  <2>2. /\ x.pc = "spend" /\ x.lost /\ x.held = t /\ x.verdict = br[b].verdict
        /\ x.pending = None
    BY <1>1, <1>2, <1>3 DEF Bridge
  <2>3. br' = [br EXCEPT ![b] = x]
    BY <1>8
  <2> HIDE DEF x
  <2>4. br' \in [Bridges -> Bridge] /\ br'[b] = x
    BY <2>1, <2>3, PutType, Facts
  <2>5. Works(b)' /\ Holds(b)'
    BY <2>2, <2>4, SettlingStays DEF Settling
  <2>6. Settles(b)'
    BY <1>2, <1>3, <1>5, <2>2, <2>4 DEF Settles, Judged, Booked, ghost
  <2>7. Ledger(t)'
    BY <1>2, <1>5, <1>8 DEF Ledger, ghost
  <2> QED
    BY <1>5, <1>6, <1>7, <1>8, <2>4, <2>5, <2>6, <2>7, BookStep DEF ghost
<1>9. CASE Outcome(t, v) /\ br' = [br EXCEPT ![b].pc = "spend"]
  <2>1. Goes(b, "spend")
    BY <1>9, GoesTo, Facts DEF Labels, Settling
  <2>2. kpi[t] \in {"none", v}
    BY <1>2, <1>3, <1>4 DEF Ledger, DecidedAs, BookedAs
  <2>3. kpi'[t] = v
    BY <1>4, <1>9, <2>2, OutcomeStep
  <2>4. Settles(b)'
    BY <1>2, <1>3, <1>4, <1>5, <2>1, <2>3 DEF Goes, Settles, Judged, Booked, ghost
  <2>5. Ledger(t)'
    BY <1>2, <1>3, <1>4, <1>5, <2>2, <2>3 DEF Ledger, ghost, DecidedAs, BookedAs, Judged
  <2> QED
    BY <1>1, <1>2, <1>4, <1>5, <1>6, <1>7, <1>9, <2>1, <2>4, <2>5, GoesOnStep DEF Settling, ghost
<1> QED
  BY <1>2, <1>8, <1>9 DEF Kpi

(* what could not be booked is held again, *)
LEMMA HoldRests ==
  ASSUME Inv, NEW b \in Bridges, Hold(b), NEW t \in Tasks, t = br[b].held, t \in receipt,
         shown[t] # {}, UNCHANGED <<receipt, shown>>
  PROVE  br' \in [Bridges -> Bridge] /\ Works(b)' /\ Holds(b)' /\ Settles(b)'
<1> DEFINE r == [br[b] EXCEPT !.pending = t]
           x == [r EXCEPT !.pc = "idle", !.held = None, !.after = "none",
                          !.verdict = "none", !.lost = FALSE]
<1>1. r \in Bridge /\ r.pending = t
  <2>1. br[b] \in Bridge
    BY Facts
  <2> QED
    BY <2>1, SetPending DEF Bridge
<1>2. br' = [br EXCEPT ![b] = IF r.after = "task" THEN Ended(r) ELSE x]
  BY DEF Hold
<1> HIDE DEF r
<1>3. x \in Bridge
  <2>1. "idle" \in Labels
    BY DEF Labels
  <2> QED
    BY <1>1, <2>1, SetPc, SetHeld, SetAfter, SetVerdict, SetLost, Zenon
<1>4. x.pc = "idle" /\ x.pending = t
  BY <1>1 DEF Bridge
<1> HIDE DEF x
<1>5. Rests(b) /\ br'[b].pending = t
  <2>1. CASE r.after = "task"
    BY <1>1, <1>2, <2>1, EndedRests, Facts
  <2>2. CASE r.after # "task"
    <3>1. br' \in [Bridges -> Bridge] /\ br'[b] = x
      BY <1>2, <1>3, <2>2, PutType, Facts
    <3> QED
      BY <1>4, <3>1 DEF Rests, Ends
  <2> QED
    BY <2>1, <2>2
<1> QED
  BY <1>5, RestStep DEF Rests, Holds

(* and so it is when the cost cannot be booked. *)
LEMMA SpendStep ==
  ASSUME Inv, NEW b \in Bridges, Bridges = {b}, Spend(b)
  PROVE  Inv'
<1>1. br[b].pc = "spend" /\ br[b].pc \in Settling \ {"decide"} /\ br[b] \in Bridge
  BY Facts DEF Spend, Settling
<1>2. PICK t \in Tasks : t = br[b].held /\ shown[t] # {} /\ Ledger(t)
  BY <1>1, HeldFacts
<1>3. /\ br[b].verdict \in Judged /\ t \in receipt /\ br[b].pending = None
      /\ br[b].verdict = "accept" => t \in pack \/ artifact[t] # "intact"
      /\ ~br[b].lost => kpi[t] = BookedAs(br[b].verdict)
  BY <1>1, <1>2, Facts DEF Settles
<1>4. /\ UNCHANGED <<receipt, decision, artifact, pack, kpi, cycles, order, ghost>>
      /\ spent' \in {spent, spent \union {t}}
  BY <1>2 DEF Spend
<1>5. left' \in Budget
  BY SpentType, Facts DEF Spend, Fails, NoFault
<1>6. shown' \in [Tasks -> SUBSET Events] /\ (\A u \in Tasks : MuteOn(u)) /\ CycleStep
  BY <1>4 DEF MuteOn, Inv, Typed, ghost, CycleStep
<1>7. Ledger(t)'
  BY <1>2, <1>4 DEF Ledger, ghost
<1>8. CASE Hold(b)
  <2>1. br' \in [Bridges -> Bridge] /\ Works(b)' /\ Holds(b)' /\ Settles(b)'
    BY <1>2, <1>3, <1>4, <1>8, HoldRests DEF ghost
  <2> QED
    BY <1>4, <1>5, <1>6, <1>7, <2>1, BookStep DEF ghost
<1>9. CASE /\ spent' = spent \union {t} /\ ~br[b].lost
           /\ br' = [br EXCEPT ![b].pc = "announce"]
  <2>1. Goes(b, "announce")
    BY <1>9, GoesTo, Facts DEF Labels, Settling
  <2>2. Settles(b)'
    BY <1>2, <1>3, <1>4, <1>9, <2>1 DEF Goes, Settles, Judged, Booked, ghost
  <2> QED
    BY <1>1, <1>2, <1>4, <1>5, <1>6, <1>7, <2>1, <2>2, GoesOnStep DEF Settling, ghost
<1> QED
  BY <1>2, <1>8, <1>9 DEF Spend

(* The client is told, *)
LEMMA AnnounceStep ==
  ASSUME Inv, NEW b \in Bridges, Bridges = {b}, Announce(b)
  PROVE  Inv'
<1>1. br[b].pc = "announce" /\ br[b].pc \in Settling \ {"decide"}
  BY DEF Announce, Settling
<1>2. PICK t \in Tasks : t = br[b].held /\ shown[t] # {} /\ Ledger(t)
  BY <1>1, HeldFacts
<1> DEFINE e == IF Verdict(b) = "accept" THEN "accepted" ELSE "rejected"
<1>3. /\ br[b].verdict \in Judged /\ br[b].pending = None
      /\ kpi[t] = BookedAs(br[b].verdict) /\ t \in spent
      /\ br[b].verdict = "accept" => t \in pack \/ artifact[t] # "intact"
  BY <1>1, <1>2, Facts DEF Settles, Booked
<1>4. e = BookedAs(br[b].verdict) /\ e \in {"accepted", "rejected"}
  BY <1>3 DEF Verdict, BookedAs, Judged
<1>5. UNCHANGED <<receipt, decision, artifact, pack, kpi, spent, cycles, bound, goal, left>>
  BY DEF Announce, disk
<1>6. /\ shown' \in [Tasks -> SUBSET Events] /\ shown'[t] = shown[t] \union {e}
      /\ \A u \in Tasks \ {t} : shown'[u] = shown[u]
  BY <1>2, <1>4 DEF Announce, Show, Events, Inv, Typed
<1>7. Goes(b, "settle")
  BY GoesTo, Facts DEF Announce, Labels, Settling
<1>8. Settles(b)'
  BY <1>2, <1>3, <1>5, <1>6, <1>7 DEF Goes, Settles, Judged, Booked
<1>9. Ledger(t)'
  BY <1>2, <1>3, <1>4, <1>5, <1>6 DEF Ledger, BookedAs, Judged
<1> QED
  BY <1>1, <1>2, <1>5, <1>6, <1>7, <1>8, <1>9, GoesOnStep, Facts DEF Settling, CycleStep

(* or told of a failure, which books the cost alone. *)
LEMMA RefuseStep ==
  ASSUME Inv, NEW b \in Bridges, Bridges = {b}, Refuse(b)
  PROVE  Inv'
<1>1. br[b].pc = "refuse" /\ br[b].pc \in Settling \ {"decide"}
  BY DEF Refuse, Settling
<1>2. PICK t \in Tasks : t = br[b].held /\ shown[t] # {} /\ Ledger(t)
  BY <1>1, HeldFacts
<1>3. br[b].verdict = "fail" /\ br[b].pending = None
  BY <1>1, Facts DEF Settles
<1>4. /\ UNCHANGED <<receipt, decision, artifact, pack, kpi, cycles, bound, goal, left>>
      /\ spent' = spent \union {t}
  BY <1>2 DEF Refuse
<1>5. /\ shown' \in [Tasks -> SUBSET Events] /\ shown'[t] = shown[t] \union {"failed"}
      /\ \A u \in Tasks \ {t} : shown'[u] = shown[u]
  BY <1>2 DEF Refuse, Show, Events, Inv, Typed
<1>6. Goes(b, "settle")
  BY GoesTo, Facts DEF Refuse, Labels, Settling
<1>7. Settles(b)'
  BY <1>2, <1>3, <1>4, <1>5, <1>6 DEF Goes, Settles, Judged, Booked
<1>8. Ledger(t)'
  BY <1>2, <1>4, <1>5 DEF Ledger
<1> QED
  BY <1>1, <1>2, <1>4, <1>5, <1>6, <1>7, <1>8, GoesOnStep, Facts DEF Settling, CycleStep

-----------------------------------------------------------------------------
(* What follows a settlement. *)

(* A step of a settlement that books nothing more. *)
LEMMA GrowthStep ==
  ASSUME Inv, NEW b \in Bridges, Bridges = {b},
         br[b].pc \in {"settle", "evaluate", "learn", "follow"},
         NEW l \in {"evaluate", "learn", "follow", "unlink"},
         br' = [br EXCEPT ![b].pc = l],
         l # "unlink" => br[b].verdict # "fail" /\ bound[br[b].held] # None,
         CycleStep,
         UNCHANGED <<receipt, decision, artifact, pack, kpi, spent, ghost, left>>
  PROVE  Inv'
<1>1. br[b].pc \in Settling \ {"decide"}
  BY DEF Settling
<1>2. PICK t \in Tasks : t = br[b].held /\ shown[t] # {} /\ Ledger(t)
  BY <1>1, HeldFacts
<1>3. /\ br[b].verdict \in Judged \union {"fail"} /\ br[b].pending = None
      /\ br[b].verdict # "fail" => kpi[t] = BookedAs(br[b].verdict) /\ t \in spent
  BY <1>1, <1>2, Facts DEF Settles, Booked
<1>4. Goes(b, l)
  BY GoesTo, Facts DEF Labels, Settling
<1>5. Settles(b)'
  BY <1>2, <1>3, <1>4 DEF Goes, Settles, Judged, Booked, ghost
<1>6. Ledger(t)'
  BY <1>2 DEF Ledger, ghost
<1>7. shown' \in [Tasks -> SUBSET Events]
  BY DEF Inv, Typed, ghost
<1> QED
  BY <1>1, <1>2, <1>4, <1>5, <1>6, <1>7, GoesOnStep, Facts DEF Settling, ghost

(* The cycle gets the verdict, *)
LEMMA SettleCycleStep ==
  ASSUME Inv, NEW b \in Bridges, Bridges = {b}, SettleCycle(b)
  PROVE  Inv'
<1>1. br[b].pc = "settle" /\ br[b].pc \in Settling
  BY DEF SettleCycle, Settling
<1>2. PICK t \in Tasks : t = br[b].held /\ br[b].verdict \in Judged \union {"fail"}
  BY <1>1, HeldFacts
<1>3. br[b].verdict # "fail" => kpi[t] = BookedAs(br[b].verdict)
  BY <1>1, <1>2, Facts DEF Settles, Booked
<1> DEFINE o == GrowthOutcome(b)
<1>4. /\ o \in DOMAIN Settlement
      /\ o \in {"failed", "cancelled"}
           \/ kpi[t] = IF o = "accepted" THEN "accepted" ELSE "rejected"
  BY <1>2, <1>3 DEF GrowthOutcome, Settlement, Judged, BookedAs
<1>5. Settle(t, o)
  BY <1>2 DEF SettleCycle
<1> HIDE DEF o
<1>6. CycleStep
  BY <1>4, <1>5, SettleStep
<1>7. PICK l \in {"evaluate", "unlink"} :
        /\ br' = [br EXCEPT ![b].pc = l]
        /\ l = "evaluate" => br[b].verdict # "fail" /\ bound[t] # None
  <2> DEFINE legal == bound[t] # None /\ MaySettle(cycles[bound[t]], t, o)
             m == IF legal /\ br[b].verdict # "fail" THEN "evaluate" ELSE "unlink"
  <2>1. br' = [br EXCEPT ![b].pc = m]
    BY <1>2 DEF SettleCycle, o
  <2>2. m \in {"evaluate", "unlink"}
        /\ (m = "evaluate" => br[b].verdict # "fail" /\ bound[t] # None)
    OBVIOUS
  <2> QED
    BY <2>1, <2>2
<1> QED
  BY <1>1, <1>2, <1>6, <1>7, GrowthStep DEF SettleCycle

(* is evaluated *)
LEMMA EvaluateStep ==
  ASSUME Inv, NEW b \in Bridges, Bridges = {b}, Evaluate(b)
  PROVE  Inv'
<1>1. br[b].pc = "evaluate" /\ br[b].pc \in Settling
  BY DEF Evaluate, Settling
<1>2. PICK t \in Tasks : t = br[b].held /\ bound[t] # None /\ br[b].verdict # "fail"
  BY <1>1, HeldFacts, Facts DEF Settles
<1>3. bound[t] \in Cycles
  BY <1>2, Facts
<1>4. CycleStep
  <2>1. cycles[bound[t]] \in Cycle /\ Judges(cycles[bound[t]], kpi)
    BY <1>3, Facts
  <2>2. Evaluated(cycles[bound[t]]) \in Cycle /\ Judges(Evaluated(cycles[bound[t]]), kpi)
    BY <2>1, LearnedType
  <2> QED
    BY <1>2, <2>2, WriteStep DEF Evaluate, CycleStep
<1> QED
  BY <1>1, <1>2, <1>4, GrowthStep DEF Evaluate

(* and learned from; *)
LEMMA LearnStep ==
  ASSUME Inv, NEW b \in Bridges, Bridges = {b}, Learn(b)
  PROVE  Inv'
<1>1. br[b].pc = "learn" /\ br[b].pc \in Settling
  BY DEF Learn, Settling
<1>2. PICK t \in Tasks : t = br[b].held /\ bound[t] # None /\ br[b].verdict # "fail"
  BY <1>1, HeldFacts, Facts DEF Settles
<1>3. bound[t] \in Cycles
  BY <1>2, Facts
<1>4. CycleStep
  <2>1. cycles[bound[t]] \in Cycle /\ Judges(cycles[bound[t]], kpi)
    BY <1>3, Facts
  <2>2. Learned(cycles[bound[t]]) \in Cycle /\ Judges(Learned(cycles[bound[t]]), kpi)
    BY <2>1, LearnedType
  <2> QED
    BY <1>2, <2>2, WriteStep DEF Learn, CycleStep
<1> QED
  BY <1>1, <1>2, <1>4, GrowthStep DEF Learn

(* a revision or the next Dream is recommended, *)
LEMMA FollowStep ==
  ASSUME Inv, NEW b \in Bridges, Bridges = {b}, Follow(b)
  PROVE  Inv'
<1>1. br[b].pc = "follow" /\ br[b].pc \in Settling
  BY DEF Follow, Settling
<1>2. PICK t \in Tasks : t = br[b].held /\ bound[t] # None
  BY <1>1, HeldFacts, Facts DEF Settles
<1> DEFINE c == bound[t]
<1>3. c \in Cycles /\ cycles[c] \in Cycle /\ Judges(cycles[c], kpi)
  BY <1>2, Facts
<1>4. "NEXT_RECOMMENDED" \in States \intersect Final /\ NextKey \in Keys
  BY StatesAre DEF Final, Keys
<1>5. /\ Moved(cycles[c], "NEXT_RECOMMENDED", NextKey) \in Cycle
      /\ Judges(Moved(cycles[c], "NEXT_RECOMMENDED", NextKey), kpi)
  BY <1>3, <1>4, MovedType, MovedJudges
<1>6. CycleStep
  BY <1>2, <1>5, RecommendedType, WriteStep DEF Follow, CycleStep
<1> QED
  BY <1>1, <1>2, <1>6, GrowthStep DEF Follow

(* and the receipt goes, *)
LEMMA UnlinkStep ==
  ASSUME Inv, NEW b \in Bridges, Bridges = {b}, Unlink(b)
  PROVE  Inv'
<1>1. br[b].pc = "unlink" /\ br[b].pc \in Settling \ {"decide"}
  BY DEF Unlink, Settling
<1>2. PICK t \in Tasks : t = br[b].held /\ shown[t] # {} /\ Ledger(t)
  BY <1>1, HeldFacts
<1>3. /\ br[b].verdict \in Judged \union {"fail"} /\ br[b].pending = None
      /\ br[b].verdict # "fail" => kpi[t] = BookedAs(br[b].verdict) /\ t \in spent
  BY <1>1, <1>2, Facts DEF Settles, Booked
<1>4. UNCHANGED <<decision, artifact, pack, kpi, spent, cycles, bound, goal>> /\ CycleStep
  BY DEF Unlink, CycleStep
<1>5. left' \in Budget
  BY SpentType, Facts DEF Unlink, Fails, NoFault
<1>6. CASE UNCHANGED receipt /\ Returned(b, br[b].verdict # "fail")
  <2>1. /\ br' \in [Bridges -> Bridge] /\ Works(b)' /\ Holds(b)' /\ Settles(b)'
        /\ shown' \in [Tasks -> SUBSET Events] /\ (\A u \in Tasks : MuteOn(u))
        /\ shown'[t] = shown[t]
    BY <1>1, <1>2, <1>4, <1>6, ReturnedStays
  <2>2. Ledger(t)'
    BY <1>2, <1>4, <1>6, <2>1 DEF Ledger
  <2> QED
    BY <1>4, <1>5, <1>6, <2>1, <2>2, BookStep
<1>7. CASE receipt' = receipt \ {t} /\ br' = [br EXCEPT ![b].pc = "forget"] /\ UNCHANGED shown
  <2>1. Goes(b, "forget")
    BY <1>7, GoesTo, Facts DEF Labels, Settling
  <2>2. Settles(b)'
    BY <1>2, <1>3, <1>4, <1>7, <2>1 DEF Goes, Settles, Judged, Booked
  <2>3. Ledger(t)'
    BY <1>2, <1>4, <1>7 DEF Ledger
  <2>4. shown' \in [Tasks -> SUBSET Events]
    BY <1>7 DEF Inv, Typed
  <2> QED
    BY <1>1, <1>2, <1>4, <1>5, <1>7, <2>1, <2>2, <2>3, <2>4, GoesOnStep DEF Settling
<1> QED
  BY <1>2, <1>6, <1>7 DEF Unlink

(* and its decision. *)
LEMMA ForgetStep ==
  ASSUME Inv, NEW b \in Bridges, Bridges = {b}, Forget(b)
  PROVE  Inv'
<1>1. br[b].pc = "forget" /\ br[b].pc \in Settling
  BY DEF Forget, Settling
<1>2. PICK t \in Tasks : t = br[b].held /\ shown[t] # {} /\ Ledger(t)
  BY <1>1, HeldFacts
<1>3. br[b].pending = None /\ t \notin receipt
  BY <1>1, <1>2, Facts DEF Settles
<1>4. /\ UNCHANGED <<receipt, artifact, pack, kpi, spent, cycles, bound, goal, left>>
      /\ decision' = [decision EXCEPT ![t] = "none"] /\ CycleStep
      /\ Returned(b, br[b].verdict # "fail")
  BY <1>2 DEF Forget, CycleStep
<1>5. decision'[t] = "none" /\ \A u \in Tasks \ {t} : decision'[u] = decision[u]
  BY <1>4 DEF Inv, Typed, TypeOK
<1>6. /\ br' \in [Bridges -> Bridge] /\ Works(b)' /\ Holds(b)' /\ Settles(b)'
      /\ shown' \in [Tasks -> SUBSET Events] /\ (\A u \in Tasks : MuteOn(u))
      /\ shown'[t] = shown[t]
  BY <1>1, <1>2, <1>4, <1>5, ReturnedStays
<1>7. Ledger(t)'
  BY <1>2, <1>3, <1>4, <1>5, <1>6 DEF Ledger
<1> QED
  BY <1>4, <1>6, <1>7, BookStep, Facts

-----------------------------------------------------------------------------
(* Cancelling, leaving; growth. *)

(* A task that is cancelled is told to be blocked, and its cycle cancelled. *)
LEMMA CancelStep ==
  ASSUME Inv, NEW b \in Bridges, Bridges = {b}, Cancel(b)
  PROVE  Inv'
<1> DEFINE x == [br[b] EXCEPT !.cancelled = TRUE, !.wait = "none", !.gen = FALSE, !.live = FALSE]
<1>1. br[b].pc \in Awaiting /\ br[b] \in Bridge /\ br[b].task \in Tasks
  BY Facts DEF Cancel, Works
<1>2. x \in Bridge
  BY <1>1, SetCancelled, SetWait, SetGen, SetLive, Zenon
<1>3. x.pc = br[b].pc /\ x.task = br[b].task /\ x.pending = br[b].pending
  BY <1>1 DEF Bridge
<1>4. br' = [br EXCEPT ![b] = x]
  BY DEF Cancel
<1> HIDE DEF x
<1>5. br' \in [Bridges -> Bridge] /\ br'[b] = x
  BY <1>2, <1>4, PutType, Facts
<1>6. Mute
  BY <1>1, Telling DEF Cancel, Events
<1>7. UNCHANGED <<receipt, decision, artifact, pack, kpi, spent, bound, goal, left>>
  BY DEF Cancel
<1>8. CycleStep
  BY <1>1, SettleStep DEF Cancel, Settlement
<1>9. Holds(b)'
  BY <1>3, <1>5, <1>6, <1>7, HoldsStay
<1>10. Works(b)' /\ Settles(b)'
  BY <1>1, <1>3, <1>5, <1>6, <1>7, Facts
     DEF Works, Settles, Awaiting, Begins, Settling, Mute
<1> QED
  BY <1>5, <1>6, <1>7, <1>8, <1>9, <1>10, QuietStep, Facts DEF Records

(* A bridge that closes holds nothing. *)
LEMMA ClosedType ==
  ASSUME NEW r \in Bridge, r.pc \in Awaiting \union {"idle"}
  PROVE  /\ Closed(r) \in Bridge /\ Closed(r).pending = None /\ Closed(r).task = r.task
         /\ Closed(r).pc = IF r.pc = "idle" THEN "off" ELSE r.pc
<1> DEFINE l == IF r.pc = "idle" THEN "off" ELSE r.pc
           u == [r EXCEPT !.closing = TRUE, !.queued = 0, !.gen = FALSE, !.live = FALSE]
           v == [u EXCEPT !.wait = "none", !.pending = None, !.pc = l]
<1>1. l \in Labels /\ 0 \in 0..MaxQueue
  BY BoundsAssumption DEF Labels, Bridge
<1>2. Closed(r) = v
  BY DEF Closed
<1> HIDE DEF l
<1>3. u \in Bridge
  BY <1>1, SetClosing, SetQueued, SetGen, SetLive, Zenon
<1>4. u.task = r.task
  BY DEF Bridge
<1> HIDE DEF u
<1>5. v \in Bridge
  BY <1>1, <1>3, SetWait, SetPending, SetPc, Zenon
<1>6. v.pending = None /\ v.task = u.task /\ v.pc = l
  BY <1>3 DEF Bridge
<1> HIDE DEF v
<1> QED
  BY <1>2, <1>4, <1>5, <1>6 DEF l

(* What is visible to the client is a task. *)
Visible == \A b \in Bridges : br[b].live => br[b].task \in Tasks

(* The user leaves, or the input ends. *)
LEMMA CloseStep ==
  ASSUME Inv, Visible, NEW b \in Bridges, Bridges = {b}, Close(b)
  PROVE  Inv'
<1>1. br[b].pc \in Awaiting \union {"idle"} /\ br[b] \in Bridge
  BY Facts DEF Close
<1>2. /\ br' \in [Bridges -> Bridge] /\ br'[b].pending = None /\ br'[b].task = br[b].task
      /\ br'[b].pc = IF br[b].pc = "idle" THEN "off" ELSE br[b].pc
  <2>1. br' \in [Bridges -> Bridge] /\ br'[b] = Closed(br[b])
    BY <1>1, ClosedType, PutType, Facts DEF Close
  <2> QED
    BY <1>1, <2>1, ClosedType
<1>3. UNCHANGED <<artifact, pack, kpi, spent, bound, goal>>
  BY DEF Close
<1>4. br[b].pc \in Awaiting => br[b].task \in Tasks /\ shown[br[b].task] # {}
  BY Facts DEF Works
<1>5. Holds(b)' /\ Settles(b)'
  BY <1>1, <1>2 DEF Holds, Settles, Settling, Awaiting
<1>6. CASE /\ UNCHANGED <<receipt, decision>> /\ CycleStep /\ Mute /\ NoFault
  <2>1. Works(b)'
    BY <1>1, <1>2, <1>3, <1>6, Facts DEF Works, Awaiting, Begins, Mute
  <2> QED
    BY <1>2, <1>3, <1>5, <1>6, <2>1, QuietStep, Facts DEF Records, NoFault
<1>7. ASSUME NEW t \in Tasks, t = br[b].pending, t # None,
             NEW e \in {"interrupted", "abandoned"}, Show(t, e),
             \/ receipt' = receipt \union {t} /\ UNCHANGED decision
             \/ receipt' = receipt \ {t} /\ decision' = [decision EXCEPT ![t] = "none"],
             left' \in Budget, UNCHANGED <<cycles, order>>
      PROVE  Inv'
  <2>1. br[b].pc \notin Begins
    BY <1>7, Facts DEF Works
  <2>2. t \in receipt /\ Ledger(t)
    BY <1>7, Facts DEF Holds, Inv
  <2>3. Mute
    BY <1>7, Telling DEF Events
  <2>4. Works(b)'
    BY <1>1, <1>2, <1>4, <2>1, <2>3 DEF Works, Awaiting, Begins, Mute
  <2>5. Ledger(t)'
    <3>1. decision'[t] \in {decision[t], "none"}
      BY <1>7 DEF Inv, Typed, TypeOK
    <3>2. t \in receipt' => decision'[t] = decision[t]
      BY <1>7
    <3> QED
      BY <1>3, <2>2, <2>3, <3>1, <3>2 DEF Ledger, Mute
  <2>6. \A u \in Tasks : MuteOn(u)
    BY <2>3 DEF Mute, MuteOn
  <2> QED
    BY <1>2, <1>3, <1>5, <1>7, <2>3, <2>4, <2>5, <2>6, BookStep DEF Mute, CycleStep
<1>8. \/ /\ UNCHANGED <<receipt, decision, cycles, order>> /\ NoFault
         /\ Show(br[b].task, "blocked") \/ UNCHANGED shown
      \/ /\ UNCHANGED <<receipt, decision>> /\ NoFault
         /\ br[b].live /\ Show(br[b].task, "blocked") /\ Settle(br[b].task, "cancelled")
      \/ /\ br[b].pending # None /\ left' \in Budget /\ UNCHANGED <<cycles, order>>
         /\ \E e \in {"interrupted", "abandoned"} : Show(br[b].pending, e)
         /\ \/ receipt' = receipt \union {br[b].pending} /\ UNCHANGED decision
            \/ /\ receipt' = receipt \ {br[b].pending}
               /\ decision' = [decision EXCEPT ![br[b].pending] = "none"]
  BY SpentType, Facts DEF Close, Fails, NoFault
<1>9. CASE /\ UNCHANGED <<receipt, decision, cycles, order>> /\ NoFault
           /\ Show(br[b].task, "blocked") \/ UNCHANGED shown
  <2>1. br[b].task \in Tasks \union {None}
    BY <1>1 DEF Bridge
  <2>2. Show(None, "blocked") => UNCHANGED shown
    BY NoneAssumption DEF Show, Cycles, Inv, Typed
  <2>3. Mute
    BY <1>9, <2>1, <2>2, Telling, Silence DEF Events
  <2>4. CycleStep
    BY <1>9 DEF CycleStep
  <2> QED
    BY <1>6, <1>9, <2>3, <2>4
<1>10. CASE /\ UNCHANGED <<receipt, decision>> /\ NoFault
            /\ br[b].live /\ Show(br[b].task, "blocked") /\ Settle(br[b].task, "cancelled")
  <2>1. br[b].task \in Tasks
    BY <1>10 DEF Visible
  <2>2. Mute
    BY <1>10, <2>1, Telling DEF Events
  <2>3. CycleStep
    BY <1>10, <2>1, SettleStep DEF Settlement
  <2> QED
    BY <1>6, <1>10, <2>2, <2>3
<1>11. br[b].pending \in Tasks \union {None}
  BY <1>1 DEF Bridge
<1> QED
  BY <1>7, <1>8, <1>9, <1>10, <1>11

(* A Dream that was decided recommends a cycle; *)
LEMMA DreamStep ==
  ASSUME Inv, NEW b \in Bridges, Bridges = {b}, DreamDecided(b)
  PROVE  Inv'
<1>1. CycleStep
  BY RecommendedType, WriteStep DEF DreamDecided
<1>2. UNCHANGED <<Records, ghost, br, left>> /\ Mute
  BY Silence DEF DreamDecided, Records, ghost
<1>3. br[b].pc \in Awaiting \union {"idle"}
  BY DEF DreamDecided
<1>4. Works(b)' /\ Holds(b)' /\ Settles(b)'
  BY <1>2, <1>3, Facts DEF Works, Holds, Settles, Awaiting, Settling, Records, ghost
<1> QED
  BY <1>1, <1>2, <1>4, QuietStep, Facts DEF ghost

(* the user approves it, *)
LEMMA ApproveStep ==
  ASSUME Inv, NEW b \in Bridges, Bridges = {b}, ApproveNext(b)
  PROVE  Inv'
<1> DEFINE c == Latest(order)
           y == Moved(cycles[c], "APPROVED", ApproveKey)
<1>1. c \in Cycles /\ cycles[c] \in Cycle /\ Judges(cycles[c], kpi) /\ cycles[c].state \notin Final
  BY Facts DEF ApproveNext, Final
<1>2. "APPROVED" \in States \ Final /\ ApproveKey \in Keys
  BY StatesAre DEF Final, Keys
<1>3. y \in Cycle /\ Judges(y, kpi) /\ y.state \notin Final
  BY <1>1, <1>2, MovedType, MovedJudges
<1>4. Write(c, y)
  BY DEF ApproveNext
<1> HIDE DEF c, y
<1>5. CycleStep
  BY <1>3, <1>4, WriteStep
<1>6. cycles'[c] = y
  BY <1>1, <1>4, Facts DEF Write
<1>7. Unused # {} /\ br[b].pending = None
  <2>1. Cardinality(Unused) > br[b].queued /\ br[b].queued \in 0..MaxQueue
    BY Facts DEF ApproveNext, Bridge
  <2>2. 0 \notin {n \in Nat : n > br[b].queued}
    BY <2>1, BoundsAssumption
  <2>3. Unused # {}
    BY <2>1, <2>2, FS_EmptySet
  <2> QED
    BY <2>3 DEF ApproveNext
<1> DEFINE x == [br[b] EXCEPT !.pc = "enqueue", !.held = c]
<1>8. x \in Bridge
  <2>1. br[b] \in Bridge /\ "enqueue" \in Labels
    BY Facts DEF Labels
  <2> QED
    BY <1>1, <2>1, SetPc, SetHeld, Zenon
<1>9. x.pc = "enqueue" /\ x.held = c /\ x.pending = None
  BY <1>7, Facts DEF Bridge
<1>10. br' = [br EXCEPT ![b] = x]
  BY DEF ApproveNext, c
<1> HIDE DEF x
<1>11. br' \in [Bridges -> Bridge] /\ br'[b] = x
  BY <1>8, <1>10, PutType, Facts
<1>12. UNCHANGED <<Records, ghost, left>> /\ Mute
  BY Silence DEF ApproveNext, Records, ghost
<1>13. Unused' # {}
  BY <1>7, <1>12 DEF Unused, ghost
<1>14. Works(b)' /\ Holds(b)' /\ Settles(b)'
  BY <1>1, <1>3, <1>6, <1>9, <1>11, <1>13 DEF Works, Holds, Settles, Awaiting, Begins, Settling
<1> QED
  BY <1>5, <1>11, <1>12, <1>14, QuietStep, Facts DEF ghost

(* and it becomes a task. *)
LEMMA EnqueueStep ==
  ASSUME Inv, NEW b \in Bridges, Bridges = {b}, Enqueue(b)
  PROVE  Inv'
<1>1. PICK c \in Cycles : c = br[b].held /\ cycles[c].state \notin Final
  BY Facts DEF Enqueue, Works
<1>2. Unused # {} /\ br[b].pending = None /\ br[b] \in Bridge
  BY Facts DEF Enqueue, Works
<1> DEFINE y == Moved(cycles[c], "QUEUED", QueueKey)
<1>3. y \in Cycle /\ Judges(y, kpi)
  <2>1. cycles[c] \in Cycle /\ Judges(cycles[c], kpi)
    BY Facts
  <2>2. "QUEUED" \in States /\ QueueKey \in Keys
    BY StatesAre DEF Keys
  <2> QED
    BY <1>1, <2>1, <2>2, MovedType, MovedJudges
<1>4. CycleStep
  BY <1>1, <1>3, WriteStep DEF Enqueue
<1> HIDE DEF y
<1> DEFINE r == [br[b] EXCEPT !.growth = c]
<1>5. PICK over \in Over : br' = [br EXCEPT ![b] = Begun(r, Fresh, over, FALSE)]
  BY <1>1, Zenon DEF Enqueue
<1>6. r \in Bridge /\ r.pending = br[b].pending
  BY <1>2, SetGrowth DEF Bridge
<1>7. Fresh \in Tasks /\ over \in BOOLEAN
  BY <1>2, FreshType, OverType
<1> HIDE DEF r
<1>8. Starts(b, Fresh)
  BY <1>5, <1>6, <1>7, BegunStarts, Facts
<1>9. goal' \in [Tasks -> Cycles \union {None}]
  BY <1>1, <1>7, Facts DEF Enqueue
<1>10. UNCHANGED <<Records, bound, left>> /\ Show(Fresh, "started")
  BY DEF Enqueue, Records
<1> QED
  BY <1>2, <1>4, <1>8, <1>9, <1>10, FreshStep

(* Somebody edits a deliverable. *)
LEMMA EditStep ==
  ASSUME Inv, NEW b \in Bridges, Bridges = {b}, NEW t \in Tasks, Edit(t)
  PROVE  Inv'
<1>1. /\ artifact[t] = "intact" /\ artifact' = [artifact EXCEPT ![t] = "changed"]
      /\ UNCHANGED <<receipt, decision, pack, kpi, spent, cycles, order, ghost, br>>
  BY DEF Edit
<1>2. left' \in Budget /\ left'.tasks = left.tasks
  BY SpentType, Facts DEF Edit
<1>3. /\ artifact' \in [Tasks -> {"none", "intact", "changed", "deleted"}]
      /\ \A u \in Tasks : artifact'[u] = "intact" => artifact[u] = "intact"
  BY <1>1 DEF Inv, Typed, TypeOK
<1>4. KpiStays /\ CycleStep /\ \A u \in Tasks : Spared(u)
  BY <1>1, <1>3 DEF KpiStays, CycleStep, Spared, ghost
<1>5. TypeOK'
  <2>1. TypeOK
    BY DEF Inv, Typed
  <2> QED
    BY <1>1, <1>3, <1>4, <2>1, TypesFrom DEF TypeOK, ghost
<1>6. Works(b)' /\ Holds(b)'
  BY <1>1, <1>2, Facts DEF Works, Holds, Unused, ghost
<1>7. Settles(b)'
  BY <1>1, <1>3, Facts DEF Settles, ghost
<1>8. shown' \in [Tasks -> SUBSET Events]
  BY <1>1 DEF Inv, Typed, ghost
<1> QED
  BY <1>2, <1>4, <1>5, <1>6, <1>7, <1>8, Whole

-----------------------------------------------------------------------------
(* What is visible to the client is a task. *)

Dims(b) ==
  \/ ~br'[b].live
  \/ br'[b].live = br[b].live /\ br'[b].task = br[b].task

(* A handler that ends or throws shows nothing new. *)
LEMMA EndedDims ==
  ASSUME NEW r \in Bridge
  PROVE  /\ ~Ended(r).live
         /\ Thrown(r).live => Thrown(r).live = r.live /\ Thrown(r).task = r.task
<1>1. ~Ended(r).live
  BY DEF Ended, Bridge
<1> QED
  BY <1>1 DEF Thrown, Bridge

(* A step that starts no task shows none. *)
LEMMA DimStep ==
  ASSUME Inv, NEW b \in Bridges,
         \/ Boot(b) \/ Die(b) \/ Recover(b) \/ Restore(b) \/ Queue(b) \/ Ask(b) \/ Reply(b)
         \/ Preflight(b) \/ Blocked(b) \/ Overspent(b) \/ Route(b) \/ Deliver(b) \/ Offer(b)
         \/ Complete(b) \/ CorrectlyBlocked(b) \/ Failing(b)
         \/ Accept(b) \/ Reject(b) \/ Revise(b) \/ Delete(b)
         \/ Verify(b) \/ Pack(b) \/ Recheck(b) \/ Kpi(b) \/ Spend(b) \/ Announce(b)
         \/ Refuse(b) \/ SettleCycle(b) \/ Evaluate(b) \/ Learn(b) \/ Follow(b)
         \/ Cancel(b) \/ Close(b) \/ DreamDecided(b) \/ ApproveNext(b)
  PROVE  Dims(b)
<1>1. br \in [Bridges -> Bridge] /\ br[b] \in Bridge
  BY Facts
<1>2. CASE Boot(b) \/ Die(b)
  BY <1>1, <1>2 DEF Boot, Die, Asleep, Dims
<1>3. CASE Recover(b) \/ Queue(b) \/ Ask(b) \/ Reply(b) \/ DreamDecided(b)
  BY <1>1, <1>3 DEF Recover, Queue, Ask, Reply, DreamDecided, Dims, Bridge
<1>4. CASE Restore(b)
  <2>1. CASE br' = [br EXCEPT ![b].pc = "idle"]
    BY <1>1, <2>1 DEF Dims, Bridge
  <2>2. ASSUME NEW t, NEW v, NEW l, NEW q,
               br' = [br EXCEPT ![b].held = t, ![b].after = "start", ![b].verdict = v,
                                ![b].pc = l, ![b].pending = q]
        PROVE  Dims(b)
    BY <1>1, <2>2 DEF Dims, Bridge
  <2>3. ASSUME NEW t,
               br' = [br EXCEPT
                 ![b].held = t, ![b].after = "start",
                 ![b].verdict = IF artifact[t] # "intact" THEN "fail" ELSE decision[t],
                 ![b].pc = IF artifact[t] # "intact" THEN "refuse"
                           ELSE IF decision[t] = "accept" THEN "verify"
                           ELSE IF decision[t] = "reject" THEN "kpi" ELSE "idle",
                 ![b].pending = IF artifact[t] = "intact" /\ decision[t] = "none"
                                THEN t ELSE None]
        PROVE  Dims(b)
    <3> DEFINE v == IF artifact[t] # "intact" THEN "fail" ELSE decision[t]
               l == IF artifact[t] # "intact" THEN "refuse"
                    ELSE IF decision[t] = "accept" THEN "verify"
                    ELSE IF decision[t] = "reject" THEN "kpi" ELSE "idle"
               q == IF artifact[t] = "intact" /\ decision[t] = "none" THEN t ELSE None
    <3>1. br' = [br EXCEPT ![b].held = t, ![b].after = "start", ![b].verdict = v,
                           ![b].pc = l, ![b].pending = q]
      BY <2>3
    <3> HIDE DEF v, l, q
    <3> QED
      BY <2>2, <3>1
  <2> QED
    BY <1>4, <2>1, <2>3 DEF Restore
<1>5. CASE Preflight(b)
  BY <1>1, <1>5, EndedDims DEF Preflight, Dims, Bridge
<1>6. CASE Blocked(b)
  <2> DEFINE r == [br[b] EXCEPT !.live = FALSE, !.gen = FALSE]
  <2>1. r \in Bridge
    BY <1>1, SetLive, SetGen, Zenon
  <2>2. ~r.live
    BY <1>1 DEF Bridge
  <2>3. br' = [br EXCEPT ![b] = Thrown(r)]
    BY <1>6 DEF Blocked
  <2> HIDE DEF r
  <2>4. ~Thrown(r).live
    BY <2>1, <2>2, EndedDims, ThrownType DEF Bridge
  <2> QED
    BY <1>1, <2>3, <2>4 DEF Dims
<1>7. CASE Overspent(b) \/ Complete(b) \/ CorrectlyBlocked(b) \/ Failing(b)
  BY <1>1, <1>7, EndedDims DEF Overspent, Complete, CorrectlyBlocked, Failing, Dims
<1>8. CASE Route(b)
  BY <1>1, <1>8, EndedDims DEF Route, Dims, Bridge
<1>9. CASE Deliver(b)
  BY <1>1, <1>9, SMTT(30) DEF Deliver, Dims, Bridge
<1>10. CASE Offer(b)
  BY <1>1, <1>10, EndedDims DEF Offer, Dims, Bridge
<1>11. CASE Accept(b) \/ Reject(b) \/ Revise(b) \/ Delete(b)
  BY <1>1, <1>11 DEF Accept, Reject, Revise, Delete, Judge, Dims, Bridge
<1>12. CASE Verify(b) \/ Pack(b) \/ Recheck(b) \/ Kpi(b)
  BY <1>1, <1>12 DEF Verify, Pack, Recheck, Kpi, Fail, Dims, Bridge
<1>13. CASE Spend(b)
  <2> DEFINE r == [br[b] EXCEPT !.pending = br[b].held]
             x == [r EXCEPT !.pc = "idle", !.held = None, !.after = "none",
                            !.verdict = "none", !.lost = FALSE]
  <2>1. CASE br' = [br EXCEPT ![b].pc = "announce"]
    BY <1>1, <2>1 DEF Dims, Bridge
  <2>2. CASE br' = [br EXCEPT ![b] = x]
    <3>1. x.live = br[b].live /\ x.task = br[b].task
      BY <1>1 DEF Bridge
    <3> HIDE DEF x
    <3> QED
      BY <1>1, <2>2, <3>1 DEF Dims
  <2>3. CASE br' = [br EXCEPT ![b] = Ended(r)] /\ br[b].held \in Tasks
    <3>1. r \in Bridge
      BY <1>1, <2>3, SetPending
    <3> HIDE DEF r
    <3> QED
      BY <1>1, <2>3, <3>1, EndedDims DEF Dims
  <2>4. br[b].held \in Tasks
    BY <1>13, Facts DEF Spend, Settles, Settling
  <2> QED
    BY <1>13, <2>1, <2>2, <2>3, <2>4, Zenon DEF Spend, Hold
<1>14. CASE Announce(b) \/ Refuse(b) \/ SettleCycle(b) \/ Evaluate(b) \/ Learn(b) \/ Follow(b)
  BY <1>1, <1>14 DEF Announce, Refuse, SettleCycle, Evaluate, Learn, Follow, Dims, Bridge
<1>15. CASE Cancel(b) \/ Close(b) \/ ApproveNext(b)
  <2>1. CASE Cancel(b) \/ ApproveNext(b)
    BY <1>1, <2>1 DEF Cancel, ApproveNext, Dims, Bridge
  <2>2. CASE Close(b)
    <3>1. ~Closed(br[b]).live
      BY <1>1 DEF Closed, Bridge
    <3> QED
      BY <1>1, <2>2, <3>1 DEF Close, Dims
  <2> QED
    BY <1>15, <2>1, <2>2
<1> QED
  BY <1>2, <1>3, <1>4, <1>5, <1>6, <1>7, <1>8, <1>9, <1>10, <1>11, <1>12, <1>13, <1>14, <1>15

(* One that starts a task shows it, and a settlement that returns shows no
   other. *)
LEMMA StartDims ==
  ASSUME Inv, NEW b \in Bridges,
         \/ Message(b) \/ Dequeue(b) \/ Enqueue(b)
         \/ \E ok \in BOOLEAN : Returned(b, ok)
  PROVE  Dims(b) \/ br'[b].task \in Tasks
<1>1. br \in [Bridges -> Bridge] /\ br[b] \in Bridge
  BY Facts
<1>2. ASSUME NEW r, NEW over, NEW exempt, br' = [br EXCEPT ![b] = Begun(r, Fresh, over, exempt)],
             r \in Bridge, Unused # {}
      PROVE  br'[b].task \in Tasks
  <2>1. Begun(r, Fresh, over, exempt).task = Fresh
    BY <1>2 DEF Begun, Bridge
  <2> QED
    BY <1>1, <1>2, <2>1, FreshType
<1>3. CASE Message(b)
  BY <1>1, <1>2, <1>3, Zenon DEF Message
<1>4. CASE Dequeue(b)
  <2> DEFINE r == [br[b] EXCEPT !.queued = br[b].queued - 1]
  <2>1. r \in Bridge
    <3>1. br[b].queued > 0
      BY <1>4, Facts DEF Dequeue, Works
    <3>2. br[b].queued - 1 \in 0..MaxQueue
      BY <1>1, <3>1, BoundsAssumption DEF Bridge
    <3> QED
      BY <1>1, <3>2, SetQueued
  <2>2. CASE br' = [br EXCEPT ![b].pc = "idle", ![b].queued = 0]
    BY <1>1, <2>2 DEF Dims, Bridge
  <2>3. CASE Unused # {} /\ \E over \in Over : br' = [br EXCEPT ![b] = Begun(r, Fresh, over, FALSE)]
    <3> HIDE DEF r
    <3> QED
      BY <1>2, <2>1, <2>3
  <2> QED
    BY <1>4, <2>2, <2>3, Zenon DEF Dequeue
<1>5. CASE Enqueue(b)
  <2> DEFINE r == [br[b] EXCEPT !.growth = br[b].held]
  <2>1. r \in Bridge /\ Unused # {}
    BY <1>1, <1>5, Facts, SetGrowth DEF Enqueue, Works
  <2>2. \E over \in Over : br' = [br EXCEPT ![b] = Begun(r, Fresh, over, FALSE)]
    BY <1>5, Zenon DEF Enqueue
  <2> HIDE DEF r
  <2> QED
    BY <1>2, <2>1, <2>2
<1>6. ASSUME NEW ok \in BOOLEAN, Returned(b, ok)
      PROVE  Dims(b) \/ br'[b].task \in Tasks
  <2> DEFINE done == [br[b] EXCEPT !.held = None, !.verdict = "none", !.after = "none",
                                   !.lost = FALSE, !.pc = "idle"]
             x == [done EXCEPT !.pc = Scheduled(done)]
  <2>1. done \in Bridge
    <3>1. "idle" \in Labels
      BY DEF Labels
    <3> QED
      BY <1>1, <3>1, SetHeld, SetVerdict, SetAfter, SetLost, SetPc, Zenon
  <2>2. done.live = br[b].live /\ done.task = br[b].task
    BY <1>1 DEF Bridge
  <2>3. \/ br' = [br EXCEPT ![b] = Ended(br[b])]
        \/ Unused # {} /\ br' = [br EXCEPT ![b] = Begun(done, Fresh, FALSE, TRUE)]
        \/ br' = [br EXCEPT ![b] = x]
        \/ br' = [br EXCEPT ![b] = done]
    BY <1>6, Zenon DEF Returned
  <2> HIDE DEF done
  <2>4. x.live = br[b].live /\ x.task = br[b].task
    BY <2>1, <2>2 DEF Bridge
  <2> HIDE DEF x
  <2>5. CASE br' = [br EXCEPT ![b] = Ended(br[b])]
    BY <1>1, <2>5, EndedDims DEF Dims
  <2>6. CASE Unused # {} /\ br' = [br EXCEPT ![b] = Begun(done, Fresh, FALSE, TRUE)]
    BY <1>2, <2>1, <2>6
  <2>7. CASE br' = [br EXCEPT ![b] = x]
    BY <1>1, <2>4, <2>7 DEF Dims
  <2>8. CASE br' = [br EXCEPT ![b] = done]
    BY <1>1, <2>2, <2>8 DEF Dims
  <2> QED
    BY <2>3, <2>5, <2>6, <2>7, <2>8
<1> QED
  BY <1>3, <1>4, <1>5, <1>6

(* Every step. *)
LEMMA VisibleStep ==
  ASSUME Inv, Visible, NEW b \in Bridges, Bridges = {b}, [Next]_vars
  PROVE  Visible'
<1>1. ASSUME Dims(b) \/ br'[b].task \in Tasks \/ UNCHANGED br
      PROVE  Visible'
  BY <1>1 DEF Visible, Dims
<1>2. CASE UNCHANGED vars
  BY <1>1, <1>2 DEF vars
<1>3. CASE \E t \in Tasks : Edit(t)
  BY <1>1, <1>3 DEF Edit
<1>4. CASE Unlink(b) \/ Forget(b) \/ Decide(b)
  <2>1. Dims(b) \/ \E ok \in BOOLEAN : Returned(b, ok)
    <3>1. br \in [Bridges -> Bridge] /\ br[b] \in Bridge
      BY Facts
    <3> DEFINE ok == br[b].verdict # "fail"
    <3>2. ok \in BOOLEAN
      OBVIOUS
    <3>3. \/ Returned(b, ok) \/ Returned(b, FALSE)
          \/ br' = [br EXCEPT ![b].pc = "forget"]
          \/ \E l : br' = [br EXCEPT ![b].pending = None, ![b].pc = l]
      BY <1>4, Zenon DEF Unlink, Forget, Decide
    <3> HIDE DEF ok
    <3>4. ASSUME br' = [br EXCEPT ![b].pc = "forget"]
          PROVE  Dims(b)
      BY <3>1, <3>4 DEF Dims, Bridge
    <3>5. ASSUME NEW l, br' = [br EXCEPT ![b].pending = None, ![b].pc = l]
          PROVE  Dims(b)
      BY <3>1, <3>5 DEF Dims, Bridge
    <3> QED
      BY <3>2, <3>3, <3>4, <3>5
  <2> QED
    BY <1>1, <2>1, StartDims
<1>5. CASE Message(b) \/ Dequeue(b) \/ Enqueue(b)
  BY <1>1, <1>5, StartDims
<1>6. CASE Boot(b) \/ Client(b) \/ Ask(b) \/ Handler(b) \/ Die(b)
  BY <1>1, <1>4, <1>5, <1>6, DimStep DEF Client, Handler
<1> QED
  BY <1>2, <1>3, <1>6 DEF Next

-----------------------------------------------------------------------------
(* At the start nothing is written, and every bridge sleeps. *)
LEMMA Initially ==
  ASSUME Init
  PROVE  Inv /\ Visible
<1>1. Missing \in Cycle /\ \A k : Judges(Missing, k)
  BY DEF Missing, Cycle, Outcomes, Judges
<1>2. cycles \in [Cycles -> Cycle] /\ \A c \in Cycles : Agrees(c)
  BY <1>1 DEF Init, Agrees
<1>3. br \in [Bridges -> Bridge] /\ \A b \in Bridges : br[b] = Asleep
  BY AsleepType DEF Init
<1>4. TypeOK
  <2>1. \A c \in Cycles : /\ cycles[c].state \in States \union {"NONE"}
                          /\ cycles[c].task \in Tasks \union {NoCycle}
    BY <1>2 DEF Cycle
  <2> QED
    BY <1>3, <2>1 DEF Init, TypeOK
<1>5. shown \in [Tasks -> SUBSET Events] /\ left \in Budget
  BY BoundsAssumption DEF Init, Budget
<1>6. \A t \in Tasks : Ledger(t)
  BY DEF Init, Ledger
<1>7. \A b \in Bridges : Works(b) /\ Holds(b) /\ Settles(b)
  BY <1>3, AsleepType DEF Works, Holds, Settles, Awaiting, Begins, Settling
<1>8. Visible
  BY <1>3 DEF Visible, Asleep
<1> QED
  BY <1>2, <1>4, <1>5, <1>6, <1>7, <1>8 DEF Inv, Typed

(* Every step of the one bridge, and every edit, keeps the invariant. *)
LEMMA Inductive ==
  ASSUME Inv, Visible, NEW b \in Bridges, Bridges = {b}, [Next]_vars
  PROVE  Inv' /\ Visible'
<1>1. CASE UNCHANGED vars
  <2>1. UNCHANGED <<disk, ghost, left, br>>
    BY <1>1 DEF vars
  <2>2. Works(b)' /\ Holds(b)'
    BY <2>1, Facts DEF Works, Holds, Unused, disk, ghost
  <2>3. Settles(b)'
    BY <2>1, Facts DEF Settles, disk, ghost
  <2> QED
    BY <2>1, <2>2, <2>3, SilentStep, VisibleStep, Facts
<1>2. CASE \E t \in Tasks : Edit(t)
  BY <1>2, EditStep, VisibleStep
<1>3. CASE Client(b)
  BY <1>3, MessageStep, QueueStep, AskStep, JudgeStep, CancelStep, CloseStep, DreamStep,
     ApproveStep, VisibleStep DEF Client
<1>4. CASE Handler(b)
  BY <1>4, RecoverStep, RestoreStep, DequeueStep, EnqueueStep, PreflightStep, BlockedStep,
     OverspentStep, RouteStep, DeliverStep, OfferStep, CompleteStep, FailingStep,
     DecideStep, VerifyStep, PackStep, RecheckStep, KpiStep, SpendStep, AnnounceStep,
     RefuseStep, SettleCycleStep, EvaluateStep, LearnStep, FollowStep, UnlinkStep,
     ForgetStep, VisibleStep DEF Handler
<1>5. CASE Boot(b) \/ Ask(b) \/ Die(b)
  BY <1>5, BootStep, AskStep, DieStep, VisibleStep
<1> QED
  BY <1>1, <1>2, <1>3, <1>4, <1>5 DEF Next

(* The invariant holds of every behaviour of one bridge. *)
LEMMA Invariance ==
  ASSUME NEW CONSTANT b \in Bridges, Bridges = {b}
  PROVE  Spec => [](Inv /\ Visible)
<1>1. Init => Inv /\ Visible
  BY Initially
<1>2. Inv /\ Visible /\ [Next]_vars => (Inv /\ Visible)'
  BY Inductive
<1> QED
  BY <1>1, <1>2, PTL DEF Spec

-----------------------------------------------------------------------------
(* Every variable keeps its shape, whatever dies, fails or is edited. *)
THEOREM TypesHold ==
  ASSUME NEW CONSTANT b \in Bridges, Bridges = {b}
  PROVE  Spec => []TypeOK
<1>1. Inv => TypeOK
  BY DEF Inv, Typed
<1> QED
  BY <1>1, Invariance, PTL

(* CC-PROOF-001 (Announce, Kpi, Spend and Pack): a client that was told
   "accepted" can rely on both ledgers, and on the ProofPack of a deliverable
   nobody has touched, whatever write failed and whenever the bridge died. *)
THEOREM AcceptedHasBacking ==
  ASSUME NEW CONSTANT b \in Bridges, Bridges = {b}
  PROVE  Spec => []AcceptedIsBacked
<1>1. Inv => AcceptedIsBacked
  BY DEF Inv, Ledger, AcceptedIsBacked
<1> QED
  BY <1>1, Invariance, PTL

(* The verdict that was decided, the one that was booked and the one the client
   was told are the same (Decide, Kpi and Announce), over every restart. *)
THEOREM VerdictsAreOne ==
  ASSUME NEW CONSTANT b \in Bridges, Bridges = {b}
  PROVE  Spec => []OneVerdict
<1>1. Inv => OneVerdict
  BY DEF Inv, Ledger, OneVerdict
<1> QED
  BY <1>1, Invariance, PTL

(* The outcome in a growth cycle (SettleCycle, and the recovery that takes a
   settled cycle further) is the one the ledger has for its task. *)
THEOREM CyclesAgree ==
  ASSUME NEW CONSTANT b \in Bridges, Bridges = {b}
  PROVE  Spec => []CycleAgreesWithLedger
<1>1. Inv => CycleAgreesWithLedger
  BY DEF Inv, Agrees, Judges, CycleAgreesWithLedger
<1> QED
  BY <1>1, Invariance, PTL

(* A deliverable that waits for its verdict has a receipt on disk, from which
   the next start of the bridge offers it again. *)
THEOREM HeldHasReceipt ==
  ASSUME NEW CONSTANT b \in Bridges, Bridges = {b}
  PROVE  Spec => []HeldIsRecoverable
<1>1. Inv => HeldIsRecoverable
  BY DEF Inv, Holds, HeldIsRecoverable
<1> QED
  BY <1>1, Invariance, PTL

=============================================================================
