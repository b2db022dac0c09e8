-------------------------- MODULE MCTaskSettlement --------------------------
(* Small instances of TaskSettlement. *)
EXTENDS TaskSettlement, FiniteSets, TLC

CONSTANTS s1, s2, r1, r2, c1, m1, m2

(* Every run stages the same lessons: dedup is across runs. *)
SharedCandidates == [r \in Runs |-> Lessons]

(* The runs share m1 only. *)
OverlappingCandidates == [r \in Runs |-> IF r = r1 THEN {m1, m2} ELSE {m1}]

(* Any two of the runs exist in one behaviour. *)
TwoRuns == Cardinality({r \in Runs : run[r] # NoRun}) <= 2

(* Sessions are interchangeable; used where only invariants are checked. *)
SessionSymmetry == Permutations(Sessions)

=============================================================================
