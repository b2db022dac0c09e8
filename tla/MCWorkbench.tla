---------------------------- MODULE MCWorkbench ----------------------------
(* Instances of Workbench for TLC. *)
EXTENDS Workbench, TLC

CONSTANTS b1, t1, t2, d1

Budget(tasks, dreams, faults, deaths, edits) ==
  [tasks |-> tasks, dreams |-> dreams, faults |-> faults, deaths |-> deaths, edits |-> edits]

(* A growth cycle, its revision and the queue without trouble; two tasks
   through one trouble; one growth task, and one task, through several. *)
Troubles ==
  { Budget({t1, t2}, {d1}, 0, 0, 0), Budget({t1, t2}, {}, 0, 1, 0),
    Budget({t1}, {d1}, 1, 1, 0), Budget({t1}, {}, 1, 1, 1) }

(* No trouble at all. *)
Calm == { Budget({t1, t2}, {d1}, 0, 0, 0) }

=============================================================================
