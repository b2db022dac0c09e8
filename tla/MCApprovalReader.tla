-------------------------- MODULE MCApprovalReader --------------------------
(* Instances of ApprovalReader for TLC. *)
EXTENDS ApprovalReader

(* The first call has a time limit, as every tool of the catalog; a second one
   has none, as the tools outside it. *)
FirstCall == {1}

=============================================================================
