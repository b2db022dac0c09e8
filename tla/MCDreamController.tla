------------------------- MODULE MCDreamController -------------------------
(* Instances of DreamController for TLC. *)
EXTENDS DreamController, TLC

CONSTANTS s1, s2, f1, g1

Budget(sessions, runs, deaths, faults, learns, reflects, certs) ==
  [sessions |-> sessions, runs |-> runs, deaths |-> deaths, faults |-> faults,
   learns |-> learns, reflects |-> reflects, certs |-> certs]

(* One workbench with a death and a lesson; with a death, a certificate and a
   second run; with a failed write, a certificate and a second run; with a
   second Dream of the same memory; two workbenches with two runs. *)
Lives ==
  { Budget({s1}, 1, 1, 0, 1, 0, 0), Budget({s1}, 2, 1, 0, 0, 0, 1),
    Budget({s1}, 2, 0, 1, 0, 0, 1), Budget({s1}, 1, 0, 0, 0, 1, 0),
    Budget({s1, s2}, 2, 0, 0, 0, 0, 0) }

=============================================================================
