------------------------- MODULE AcceptanceContract -------------------------
(***************************************************************************)
(* What the acceptance of task runs promises, whatever files, locks and    *)
(* restarts implement it: a run is decided at most once, an accept that    *)
(* was decided is never turned into a refusal, a terminal outcome stays,   *)
(* and only accepted runs teach the employee anything.                     *)
(***************************************************************************)
CONSTANTS
  Runs,         \* task runs
  CliRuns,      \* runs accepted on the terminal, without a decision receipt
  Candidates    \* the lessons each run stages

VARIABLES
  outcome,      \* what has become of each run
  memory        \* the lessons the employee keeps

Outcomes == {"open", "decided", "accepted", "refused", "failed"}

Init ==
  /\ outcome = [r \in Runs |-> "open"]
  /\ memory = {}

Becomes(r, from, to) ==
  /\ outcome[r] \in from
  /\ outcome' = [outcome EXCEPT ![r] = to]
  /\ UNCHANGED memory

Decide(r) == r \notin CliRuns /\ Becomes(r, {"open"}, "decided")

Accept(r) == Becomes(r, IF r \in CliRuns THEN {"open"} ELSE {"decided"}, "accepted")

Refuse(r) == Becomes(r, {"open"}, "refused")

Fail(r) == Becomes(r, {"open", "decided"}, "failed")

Learn(r) ==
  /\ outcome[r] = "accepted"
  /\ \E m \in Candidates[r] : memory' = memory \union {m}
  /\ UNCHANGED outcome

Next == \E r \in Runs : Decide(r) \/ Accept(r) \/ Refuse(r) \/ Fail(r) \/ Learn(r)

Spec == Init /\ [][Next]_<<outcome, memory>>
=============================================================================
