----------------------- MODULE TaskSettlement_proofs -----------------------
(***************************************************************************)
(* Proofs about TaskSettlement, for every set of sessions and runs and     *)
(* every bound on deaths and failed writes.                                *)
(***************************************************************************)
EXTENDS TaskSettlement, TLAPS

(* The control points that use the decision receipt. *)
Deciding == {"settle", "pack", "after", "unpack", "mark", "accept"}

(* A session that settles an accept holds a decision that is on disk. *)
DecisionHeld == \A p \in Sessions : pc[p] \in Deciding => decision[cur[p]] # None

Typed == TypeOK /\ DecisionHeld

-----------------------------------------------------------------------------
(* The records a session computes.                                         *)

(* An absent run is a run record. *)
LEMMA NoRunType == NoRun \in RunRecord
  BY DEF NoRun, RunRecord

(* A run as first saved is a run record. *)
LEMMA OutcomeType ==
  ASSUME NEW s \in Open \union Closed \union {"accepted"}
  PROVE  Outcome(s) \in RunRecord
  BY DEF Outcome, NoRun, RunRecord, Open, Closed

(* So is a closed one, *)
LEMMA ClosedType ==
  ASSUME NEW rec \in RunRecord, NEW s \in Closed
  PROVE  ClosedAs(rec, s) \in RunRecord
  BY DEF ClosedAs, RunRecord

(* an accepted one, *)
LEMMA AcceptedType ==
  ASSUME NEW rec \in RunRecord, NEW d \in Decision
  PROVE  AcceptedFrom(rec, d) \in RunRecord
  BY DEF AcceptedFrom, RunRecord, Decision

(* and one that notes its receipt or its committed memory. *)
LEMMA PatchType ==
  ASSUME NEW rec \in RunRecord
  PROVE  /\ [rec EXCEPT !.pending_approval = TRUE] \in RunRecord
         /\ [rec EXCEPT !.memory_commit = "committed"] \in RunRecord
  BY DEF RunRecord

-----------------------------------------------------------------------------
(* The ways a session moves on.                                            *)

(* A session that ends keeps the local variables well typed; *)
LEMMA ForgetTypes ==
  ASSUME LocalTypes, NEW p \in Sessions, Forget(p)
  PROVE  LocalTypes'
  BY NoRunType DEF LocalTypes, Forget, Labels, Intents

(* so does one that moves to another control point, *)
LEMMA JumpTypes ==
  ASSUME LocalTypes, NEW p \in Sessions, NEW l \in Labels, Jump(p, l),
         cur[p] \in Runs \/ l \in {"off", "find"}
  PROVE  LocalTypes'
  BY DEF LocalTypes, Jump, Goto, locals

(* one that takes up an intent, *)
LEMMA IntendTypes ==
  ASSUME LocalTypes, NEW p \in Sessions, NEW l \in Labels, NEW i \in Intents,
         Intend(p, i, l), cur[p] \in Runs
  PROVE  LocalTypes'
  BY DEF LocalTypes, Intend, Goto

(* and one that meets a failed write. *)
LEMMA FaultTypes ==
  ASSUME OtherTypes, Fault
  PROVE  crashes' \in 0 .. MaxCrashes /\ faults' \in 0 .. MaxFaults
  BY SettlementAssumption DEF OtherTypes, Fault

-----------------------------------------------------------------------------
(* Type correctness, with the one fact about control it needs: every
   variable keeps its shape in every reachable state. *)
THEOREM Typing == Spec => []Typed
<1>1. Init => Typed
  BY SettlementAssumption, NoRunType
     DEF Init, Typed, TypeOK, FileTypes, LocalTypes, OtherTypes, DecisionHeld,
         Deciding, Labels, Intents
<1>2. Typed /\ [Next]_vars => Typed'
  <2> SUFFICES ASSUME Typed, [Next]_vars PROVE Typed'
    OBVIOUS
  <2>0. FileTypes /\ LocalTypes /\ OtherTypes /\ DecisionHeld
    BY DEF Typed, TypeOK

  <2>1. ASSUME NEW p \in Sessions, Start(p) PROVE Typed'
    <3>1. cur[p] \in Runs \/ pc[p] \in {"off", "find"}
      BY <2>0 DEF LocalTypes
    <3>3. LocalTypes'
      BY <2>0, <2>1, <3>1, JumpTypes
         DEF Start, At, Labels, LocalTypes
    <3>4. FileTypes'
      BY <2>0, <2>1, <3>1
         DEF Start, At, FileTypes, files
    <3>5. OtherTypes'
      BY <2>0, <2>1, <3>1
         DEF Start, At, OtherTypes, env
    <3>6. DecisionHeld'
      BY <2>0, <2>1, <3>1
         DEF Start, At, Goto, Jump, DecisionHeld, Deciding, LocalTypes, FileTypes, files, locals
    <3> QED
      BY <3>3, <3>4, <3>5, <3>6 DEF Typed, TypeOK

  <2>2. ASSUME NEW p \in Sessions, StartCli(p) PROVE Typed'
    <3>1. cur[p] \in Runs \/ pc[p] \in {"off", "find"}
      BY <2>0 DEF LocalTypes
    <3>3. LocalTypes'
      BY <2>0, <2>2, <3>1, OutcomeType, SettlementAssumption
         DEF StartCli, Draw, Fresh, At, Goto, Labels, Open, Closed, LocalTypes
    <3>4. FileTypes'
      BY <2>0, <2>2, <3>1
         DEF StartCli, Draw, Fresh, At, FileTypes, LocalTypes
    <3>5. OtherTypes'
      BY <2>0, <2>2, <3>1
         DEF StartCli, Draw, At, OtherTypes, env
    <3>6. DecisionHeld'
      BY <2>0, <2>2, <3>1
         DEF StartCli, Draw, At, Goto, DecisionHeld, Deciding, LocalTypes, FileTypes, files, locals
    <3> QED
      BY <3>3, <3>4, <3>5, <3>6 DEF Typed, TypeOK

  <2>3. ASSUME NEW p \in Sessions, FindNone(p) PROVE Typed'
    <3>1. cur[p] \in Runs \/ pc[p] \in {"off", "find"}
      BY <2>0 DEF LocalTypes
    <3>3. LocalTypes'
      BY <2>0, <2>3, <3>1, OutcomeType, SettlementAssumption
         DEF FindNone, Draw, Fresh, At, Goto, Labels, Open, Closed, LocalTypes
    <3>4. FileTypes'
      BY <2>0, <2>3, <3>1, SettlementAssumption
         DEF FindNone, Draw, Fresh, At, FileTypes, LocalTypes
    <3>5. OtherTypes'
      BY <2>0, <2>3, <3>1
         DEF FindNone, Draw, At, OtherTypes, env
    <3>6. DecisionHeld'
      BY <2>0, <2>3, <3>1
         DEF FindNone, Draw, At, Goto, DecisionHeld, Deciding, LocalTypes, FileTypes, files, locals
    <3> QED
      BY <3>3, <3>4, <3>5, <3>6 DEF Typed, TypeOK

  <2>4. ASSUME NEW p \in Sessions, FindOne(p) PROVE Typed'
    <3>1. cur[p] \in Runs \/ pc[p] \in {"off", "find"}
      BY <2>0 DEF LocalTypes
    <3>3. LocalTypes'
      BY <2>0, <2>4, <3>1
         DEF FindOne, At, Goto, Labels, LocalTypes
    <3>4. FileTypes'
      BY <2>0, <2>4, <3>1
         DEF FindOne, At, FileTypes, files, LocalTypes
    <3>5. OtherTypes'
      BY <2>0, <2>4, <3>1
         DEF FindOne, At, OtherTypes, env
    <3>6. DecisionHeld'
      BY <2>0, <2>4, <3>1
         DEF FindOne, At, Goto, DecisionHeld, Deciding, LocalTypes, FileTypes, files, locals
    <3> QED
      BY <3>3, <3>4, <3>5, <3>6 DEF Typed, TypeOK

  <2>5. ASSUME NEW p \in Sessions, FindBlocked(p) PROVE Typed'
    <3>1. cur[p] \in Runs \/ pc[p] \in {"off", "find"}
      BY <2>0 DEF LocalTypes
    <3>3. LocalTypes'
      BY <2>0, <2>5, <3>1, ForgetTypes, SettlementAssumption
         DEF FindBlocked, Fresh, At, Labels, LocalTypes
    <3>4. FileTypes'
      BY <2>0, <2>5, <3>1
         DEF FindBlocked, Fresh, At, FileTypes, files
    <3>5. OtherTypes'
      BY <2>0, <2>5, <3>1
         DEF FindBlocked, At, OtherTypes, env
    <3>6. DecisionHeld'
      BY <2>0, <2>5, <3>1
         DEF FindBlocked, At, Forget, DecisionHeld, Deciding, LocalTypes, FileTypes, files, locals
    <3> QED
      BY <3>3, <3>4, <3>5, <3>6 DEF Typed, TypeOK

  <2>6. ASSUME NEW p \in Sessions, Create(p) PROVE Typed'
    <3>1. cur[p] \in Runs \/ pc[p] \in {"off", "find"}
      BY <2>0 DEF LocalTypes
    <3>3. LocalTypes'
      BY <2>0, <2>6, <3>1, JumpTypes, SettlementAssumption
         DEF Create, At, Goto, Labels, LocalTypes
    <3>4. FileTypes'
      BY <2>0, <2>6, <3>1
         DEF Create, SaveOwn, At, FileTypes, LocalTypes
    <3>5. OtherTypes'
      BY <2>0, <2>6, <3>1, FaultTypes
         DEF Create, At, OtherTypes, env
    <3>6. DecisionHeld'
      BY <2>0, <2>6, <3>1
         DEF Create, At, Goto, Jump, DecisionHeld, Deciding, LocalTypes, FileTypes, files, locals
    <3> QED
      BY <3>3, <3>4, <3>5, <3>6 DEF Typed, TypeOK

  <2>7. ASSUME NEW p \in Sessions, Final(p) PROVE Typed'
    <3>1. cur[p] \in Runs \/ pc[p] \in {"off", "find"}
      BY <2>0 DEF LocalTypes
    <3>3. LocalTypes'
      BY <2>0, <2>7, <3>1, ForgetTypes, JumpTypes, SettlementAssumption
         DEF Final, At, Labels, LocalTypes
    <3>4. FileTypes'
      BY <2>0, <2>7, <3>1
         DEF Final, SaveOwn, At, FileTypes, LocalTypes
    <3>5. OtherTypes'
      BY <2>0, <2>7, <3>1, FaultTypes
         DEF Final, At, OtherTypes, env
    <3>6. DecisionHeld'
      BY <2>0, <2>7, <3>1
         DEF Final, At, Goto, Jump, Forget, DecisionHeld, Deciding, LocalTypes, FileTypes, files, locals
    <3> QED
      BY <3>3, <3>4, <3>5, <3>6 DEF Typed, TypeOK

  <2>8. ASSUME NEW p \in Sessions, Receipt(p) PROVE Typed'
    <3>1. cur[p] \in Runs \/ pc[p] \in {"off", "find"}
      BY <2>0 DEF LocalTypes
    <3>3. LocalTypes'
      BY <2>0, <2>8, <3>1, JumpTypes
         DEF Receipt, At, Labels, LocalTypes
    <3>4. FileTypes'
      BY <2>0, <2>8, <3>1
         DEF Receipt, At, FileTypes
    <3>5. OtherTypes'
      BY <2>0, <2>8, <3>1, FaultTypes
         DEF Receipt, At, OtherTypes, env
    <3>6. DecisionHeld'
      BY <2>0, <2>8, <3>1
         DEF Receipt, At, Goto, Jump, DecisionHeld, Deciding, LocalTypes, FileTypes, files, locals
    <3> QED
      BY <3>3, <3>4, <3>5, <3>6 DEF Typed, TypeOK

  <2>9. ASSUME NEW p \in Sessions, Abort(p) PROVE Typed'
    <3>1. cur[p] \in Runs \/ pc[p] \in {"off", "find"}
      BY <2>0 DEF LocalTypes
    <3>2. ClosedAs(own[p], "failed") \in RunRecord
      BY <2>0, ClosedType DEF LocalTypes, Closed
    <3>3. LocalTypes'
      BY <2>0, <2>9, <3>1, <3>2, ForgetTypes
         DEF Abort, At, Labels, LocalTypes
    <3>4. FileTypes'
      BY <2>0, <2>9, <3>1, <3>2
         DEF Abort, At, FileTypes, LocalTypes
    <3>5. OtherTypes'
      BY <2>0, <2>9, <3>1, FaultTypes
         DEF Abort, At, OtherTypes, env
    <3>6. DecisionHeld'
      BY <2>0, <2>9, <3>1
         DEF Abort, At, Forget, DecisionHeld, Deciding, LocalTypes, FileTypes, files, locals
    <3> QED
      BY <3>3, <3>4, <3>5, <3>6 DEF Typed, TypeOK

  <2>10. ASSUME NEW p \in Sessions, Note(p) PROVE Typed'
    <3>1. cur[p] \in Runs \/ pc[p] \in {"off", "find"}
      BY <2>0 DEF LocalTypes
    <3>2. [own[p] EXCEPT !.pending_approval = TRUE] \in RunRecord
      BY <2>0, PatchType DEF LocalTypes
    <3>3. LocalTypes'
      BY <2>0, <2>10, <3>1, <3>2
         DEF Note, At, Goto, Labels, LocalTypes
    <3>4. FileTypes'
      BY <2>0, <2>10, <3>1, <3>2
         DEF Note, At, FileTypes, LocalTypes
    <3>5. OtherTypes'
      BY <2>0, <2>10, <3>1, FaultTypes
         DEF Note, At, OtherTypes, env
    <3>6. DecisionHeld'
      BY <2>0, <2>10, <3>1
         DEF Note, At, Goto, DecisionHeld, Deciding, LocalTypes, FileTypes, files, locals
    <3> QED
      BY <3>3, <3>4, <3>5, <3>6 DEF Typed, TypeOK

  <2>11. ASSUME NEW p \in Sessions, Load(p) PROVE Typed'
    <3>1. cur[p] \in Runs \/ pc[p] \in {"off", "find"}
      BY <2>0 DEF LocalTypes
    <3>3. LocalTypes'
      BY <2>0, <2>11, <3>1, ForgetTypes
         DEF Load, At, Goto, Labels, LocalTypes, FileTypes
    <3>4. FileTypes'
      BY <2>0, <2>11, <3>1
         DEF Load, At, FileTypes, files, LocalTypes
    <3>5. OtherTypes'
      BY <2>0, <2>11, <3>1
         DEF Load, At, OtherTypes, env
    <3>6. DecisionHeld'
      BY <2>0, <2>11, <3>1
         DEF Load, At, Goto, Forget, DecisionHeld, Deciding, LocalTypes, FileTypes, files, locals
    <3> QED
      BY <3>3, <3>4, <3>5, <3>6 DEF Typed, TypeOK

  <2>12. ASSUME NEW p \in Sessions, Bind(p) PROVE Typed'
    <3>1. cur[p] \in Runs \/ pc[p] \in {"off", "find"}
      BY <2>0 DEF LocalTypes
    <3>3. LocalTypes'
      BY <2>0, <2>12, <3>1, ForgetTypes, JumpTypes
         DEF Bind, At, Labels, LocalTypes
    <3>4. FileTypes'
      BY <2>0, <2>12, <3>1
         DEF Bind, At, FileTypes, files
    <3>5. OtherTypes'
      BY <2>0, <2>12, <3>1
         DEF Bind, At, OtherTypes, env
    <3>6. DecisionHeld'
      BY <2>0, <2>12, <3>1
         DEF Bind, At, Goto, Jump, Forget, DecisionHeld, Deciding, LocalTypes, FileTypes, files, locals
    <3> QED
      BY <3>3, <3>4, <3>5, <3>6 DEF Typed, TypeOK

  <2>13. ASSUME NEW p \in Sessions, Decided(p) PROVE Typed'
    <3>1. cur[p] \in Runs \/ pc[p] \in {"off", "find"}
      BY <2>0 DEF LocalTypes
    <3>3. LocalTypes'
      BY <2>0, <2>13, <3>1, ForgetTypes, JumpTypes, IntendTypes
         DEF Decided, At, Labels, Intents, LocalTypes
    <3>4. FileTypes'
      BY <2>0, <2>13, <3>1
         DEF Decided, At, FileTypes, files, LocalTypes
    <3>5. OtherTypes'
      BY <2>0, <2>13, <3>1
         DEF Decided, At, OtherTypes, env
    <3>6. DecisionHeld'
      BY <2>0, <2>13, <3>1
         DEF Decided, At, Goto, Jump, Forget, Intend, DecisionHeld, Deciding, LocalTypes, FileTypes, files, locals
    <3> QED
      BY <3>3, <3>4, <3>5, <3>6 DEF Typed, TypeOK

  <2>14. ASSUME NEW p \in Sessions, Verify(p) PROVE Typed'
    <3>1. cur[p] \in Runs \/ pc[p] \in {"off", "find"}
      BY <2>0 DEF LocalTypes
    <3>3. LocalTypes'
      BY <2>0, <2>14, <3>1, JumpTypes, IntendTypes
         DEF Verify, At, Labels, Intents, LocalTypes
    <3>4. FileTypes'
      BY <2>0, <2>14, <3>1
         DEF Verify, At, FileTypes, files
    <3>5. OtherTypes'
      BY <2>0, <2>14, <3>1
         DEF Verify, At, OtherTypes, env
    <3>6. DecisionHeld'
      BY <2>0, <2>14, <3>1
         DEF Verify, At, Goto, Jump, Intend, DecisionHeld, Deciding, LocalTypes, FileTypes, files, locals
    <3> QED
      BY <3>3, <3>4, <3>5, <3>6 DEF Typed, TypeOK

  <2>15. ASSUME NEW p \in Sessions, Answer(p) PROVE Typed'
    <3>1. cur[p] \in Runs \/ pc[p] \in {"off", "find"}
      BY <2>0 DEF LocalTypes
    <3>3. LocalTypes'
      <4>1. cur[p] \in Runs
        BY <2>15, <3>1 DEF Answer, At
      <4>2. PICK i \in {"accept", "revise", "exit", "eof"} : Intend(p, i, "lock")
        BY <2>15 DEF Answer
      <4>3. i \in Intents /\ "lock" \in Labels
        BY DEF Intents, Labels
      <4> QED
        BY <2>0, <4>1, <4>2, <4>3, IntendTypes
    <3>4. FileTypes'
      BY <2>0, <2>15, <3>1
         DEF Answer, At, FileTypes, files
    <3>5. OtherTypes'
      BY <2>0, <2>15, <3>1
         DEF Answer, At, OtherTypes, env
    <3>6. DecisionHeld'
      BY <2>0, <2>15, <3>1
         DEF Answer, At, Goto, Intend, DecisionHeld, Deciding, LocalTypes, FileTypes, files, locals
    <3> QED
      BY <3>3, <3>4, <3>5, <3>6 DEF Typed, TypeOK

  <2>16. ASSUME NEW p \in Sessions, Delete(p) PROVE Typed'
    <3>1. cur[p] \in Runs \/ pc[p] \in {"off", "find"}
      BY <2>0 DEF LocalTypes
    <3>3. LocalTypes'
      BY <2>0, <2>16, <3>1, IntendTypes
         DEF Delete, At, Labels, Intents, LocalTypes
    <3>4. FileTypes'
      BY <2>0, <2>16, <3>1
         DEF Delete, At, FileTypes
    <3>5. OtherTypes'
      BY <2>0, <2>16, <3>1
         DEF Delete, At, OtherTypes, env
    <3>6. DecisionHeld'
      BY <2>0, <2>16, <3>1
         DEF Delete, At, Goto, Intend, DecisionHeld, Deciding, LocalTypes, FileTypes, files, locals
    <3> QED
      BY <3>3, <3>4, <3>5, <3>6 DEF Typed, TypeOK

  <2>17. ASSUME NEW p \in Sessions, Lock(p) PROVE Typed'
    <3>1. cur[p] \in Runs \/ pc[p] \in {"off", "find"}
      BY <2>0 DEF LocalTypes
    <3>3. LocalTypes'
      BY <2>0, <2>17, <3>1, JumpTypes
         DEF Lock, At, Labels, LocalTypes
    <3>4. FileTypes'
      BY <2>0, <2>17, <3>1
         DEF Lock, At, FileTypes, files
    <3>5. OtherTypes'
      BY <2>0, <2>17, <3>1
         DEF Lock, At, OtherTypes, env
    <3>6. DecisionHeld'
      BY <2>0, <2>17, <3>1
         DEF Lock, At, Goto, Jump, DecisionHeld, Deciding, LocalTypes, FileTypes, files, locals
    <3> QED
      BY <3>3, <3>4, <3>5, <3>6 DEF Typed, TypeOK

  <2>18. ASSUME NEW p \in Sessions, LockTimeout(p) PROVE Typed'
    <3>1. cur[p] \in Runs \/ pc[p] \in {"off", "find"}
      BY <2>0 DEF LocalTypes
    <3>3. LocalTypes'
      BY <2>0, <2>18, <3>1, ForgetTypes
         DEF LockTimeout, At, Labels, LocalTypes
    <3>4. FileTypes'
      BY <2>0, <2>18, <3>1
         DEF LockTimeout, At, FileTypes, files
    <3>5. OtherTypes'
      BY <2>0, <2>18, <3>1
         DEF LockTimeout, At, OtherTypes, env
    <3>6. DecisionHeld'
      BY <2>0, <2>18, <3>1
         DEF LockTimeout, At, Forget, DecisionHeld, Deciding, LocalTypes, FileTypes, files, locals
    <3> QED
      BY <3>3, <3>4, <3>5, <3>6 DEF Typed, TypeOK

  <2>19. ASSUME NEW p \in Sessions, Unlock(p) PROVE Typed'
    <3>1. cur[p] \in Runs \/ pc[p] \in {"off", "find"}
      BY <2>0 DEF LocalTypes
    <3>3. LocalTypes'
      BY <2>0, <2>19, <3>1, ForgetTypes
         DEF Unlock, At, Labels, LocalTypes
    <3>4. FileTypes'
      BY <2>0, <2>19, <3>1
         DEF Unlock, At, FileTypes, files
    <3>5. OtherTypes'
      BY <2>0, <2>19, <3>1
         DEF Unlock, At, OtherTypes, env
    <3>6. DecisionHeld'
      BY <2>0, <2>19, <3>1
         DEF Unlock, At, Forget, DecisionHeld, Deciding, LocalTypes, FileTypes, files, locals
    <3> QED
      BY <3>3, <3>4, <3>5, <3>6 DEF Typed, TypeOK

  <2>20. ASSUME NEW p \in Sessions, Reload(p) PROVE Typed'
    <3>1. cur[p] \in Runs \/ pc[p] \in {"off", "find"}
      BY <2>0 DEF LocalTypes
    <3>3. LocalTypes'
      BY <2>0, <2>20, <3>1
         DEF Reload, At, Goto, Labels, LocalTypes, FileTypes
    <3>4. FileTypes'
      BY <2>0, <2>20, <3>1
         DEF Reload, At, FileTypes, files, LocalTypes
    <3>5. OtherTypes'
      BY <2>0, <2>20, <3>1
         DEF Reload, At, OtherTypes, env
    <3>6. DecisionHeld'
      BY <2>0, <2>20, <3>1
         DEF Reload, At, Goto, DecisionHeld, Deciding, LocalTypes, FileTypes, files, locals
    <3> QED
      BY <3>3, <3>4, <3>5, <3>6 DEF Typed, TypeOK

  <2>21. ASSUME NEW p \in Sessions, Repending(p) PROVE Typed'
    <3>1. cur[p] \in Runs \/ pc[p] \in {"off", "find"}
      BY <2>0 DEF LocalTypes
    <3>3. LocalTypes'
      BY <2>0, <2>21, <3>1, JumpTypes
         DEF Repending, Accepting, At, Labels, LocalTypes
    <3>4. FileTypes'
      BY <2>0, <2>21, <3>1
         DEF Repending, At, FileTypes, files, LocalTypes
    <3>5. OtherTypes'
      BY <2>0, <2>21, <3>1
         DEF Repending, At, OtherTypes, env
    <3>6. DecisionHeld'
      BY <2>0, <2>21, <3>1
         DEF Repending, Accepting, At, Goto, Jump, DecisionHeld, Deciding, LocalTypes, FileTypes, files, locals
    <3> QED
      BY <3>3, <3>4, <3>5, <3>6 DEF Typed, TypeOK

  <2>22. ASSUME NEW p \in Sessions, Rebind(p) PROVE Typed'
    <3>1. cur[p] \in Runs \/ pc[p] \in {"off", "find"}
      BY <2>0 DEF LocalTypes
    <3>3. LocalTypes'
      BY <2>0, <2>22, <3>1, JumpTypes, IntendTypes
         DEF Rebind, At, Labels, Intents, LocalTypes
    <3>4. FileTypes'
      BY <2>0, <2>22, <3>1
         DEF Rebind, At, FileTypes, files, LocalTypes
    <3>5. OtherTypes'
      BY <2>0, <2>22, <3>1
         DEF Rebind, At, OtherTypes, env
    <3>6. DecisionHeld'
      BY <2>0, <2>22, <3>1
         DEF Rebind, At, Goto, Jump, Intend, DecisionHeld, Deciding, LocalTypes, FileTypes, files, locals
    <3> QED
      BY <3>3, <3>4, <3>5, <3>6 DEF Typed, TypeOK

  <2>23. ASSUME NEW p \in Sessions, Decide(p) PROVE Typed'
    <3>1. cur[p] \in Runs \/ pc[p] \in {"off", "find"}
      BY <2>0 DEF LocalTypes
    <3>3. LocalTypes'
      BY <2>0, <2>23, <3>1, JumpTypes
         DEF Decide, At, Labels, LocalTypes
    <3>4. FileTypes'
      BY <2>0, <2>23, <3>1
         DEF Decide, At, FileTypes, LocalTypes, Decision
    <3>5. OtherTypes'
      BY <2>0, <2>23, <3>1, FaultTypes
         DEF Decide, At, OtherTypes, env
    <3>6. DecisionHeld'
      <4>1. cur[p] \in Runs /\ cur' = cur
        BY <2>0, <2>23 DEF Decide, At, Jump, LocalTypes, locals
      <4>2. \A q \in Sessions : q # p => pc'[q] = pc[q]
        BY <2>0, <2>23 DEF Decide, Jump, Goto, LocalTypes
      <4>3. \A r \in Runs : decision[r] # None => decision'[r] # None
        BY <2>0, <2>23, <4>1 DEF Decide, FileTypes
      <4>4. pc'[p] \in Deciding => decision'[cur[p]] # None
        <5>1. CASE decision[cur[p]] # None
          BY <5>1, <4>1, <4>3
        <5>2. CASE decision[cur[p]] = None /\ pc'[p] = "settle"
          <6>1. decision' = [decision EXCEPT ![cur[p]] = [by |-> p, frozen |-> own[p]]]
            BY <2>0, <2>23, <5>2 DEF Decide, Jump, Goto, LocalTypes
          <6>2. [by |-> p, frozen |-> own[p]] \in Decision
            BY <2>0 DEF LocalTypes, Decision
          <6> QED
            BY <2>0, <4>1, <6>1, <6>2, NoDecisionAssumption DEF FileTypes
        <5>3. CASE pc'[p] = "unlock"
          BY <5>3 DEF Deciding
        <5> QED
          BY <2>0, <2>23, <5>1, <5>2, <5>3 DEF Decide, Jump, Goto, LocalTypes
      <4>5. \A q \in Sessions : q # p /\ pc[q] \in Deciding => cur[q] \in Runs
        BY <2>0 DEF LocalTypes, Deciding
      <4> QED
        BY <2>0, <4>1, <4>2, <4>3, <4>4, <4>5 DEF DecisionHeld
    <3> QED
      BY <3>3, <3>4, <3>5, <3>6 DEF Typed, TypeOK

  <2>24. ASSUME NEW p \in Sessions, Settle(p) PROVE Typed'
    <3>1. cur[p] \in Runs \/ pc[p] \in {"off", "find"}
      BY <2>0 DEF LocalTypes
    <3>3. LocalTypes'
      BY <2>0, <2>24, <3>1, JumpTypes
         DEF Settle, At, Labels, LocalTypes
    <3>4. FileTypes'
      BY <2>0, <2>24, <3>1
         DEF Settle, At, FileTypes, files, LocalTypes
    <3>5. OtherTypes'
      BY <2>0, <2>24, <3>1
         DEF Settle, At, OtherTypes, env
    <3>6. DecisionHeld'
      BY <2>0, <2>24, <3>1
         DEF Settle, At, Goto, Jump, DecisionHeld, Deciding, LocalTypes, FileTypes, files, locals
    <3> QED
      BY <3>3, <3>4, <3>5, <3>6 DEF Typed, TypeOK

  <2>25. ASSUME NEW p \in Sessions, Pack(p) PROVE Typed'
    <3>1. cur[p] \in Runs \/ pc[p] \in {"off", "find"}
      BY <2>0 DEF LocalTypes
    <3>2. decision[cur[p]].by \in Sessions
      BY <2>0, <2>25 DEF Pack, At, LocalTypes, FileTypes, DecisionHeld, Deciding, Decision
    <3>3. LocalTypes'
      BY <2>0, <2>25, <3>1, <3>2, JumpTypes, IntendTypes
         DEF Pack, GiveUp, At, Labels, Intents, LocalTypes
    <3>4. FileTypes'
      BY <2>0, <2>25, <3>1, <3>2
         DEF Pack, At, FileTypes
    <3>5. OtherTypes'
      BY <2>0, <2>25, <3>1, FaultTypes
         DEF Pack, At, OtherTypes, env
    <3>6. DecisionHeld'
      BY <2>0, <2>25, <3>1
         DEF Pack, GiveUp, At, Goto, Jump, Intend, DecisionHeld, Deciding, LocalTypes, FileTypes, files, locals
    <3> QED
      BY <3>3, <3>4, <3>5, <3>6 DEF Typed, TypeOK

  <2>26. ASSUME NEW p \in Sessions, After(p) PROVE Typed'
    <3>1. cur[p] \in Runs \/ pc[p] \in {"off", "find"}
      BY <2>0 DEF LocalTypes
    <3>3. LocalTypes'
      <4>1. cur[p] \in Runs /\ Candidates[cur[p]] \in SUBSET Lessons
        BY <2>0, <2>26, SettlementAssumption DEF After, At, LocalTypes
      <4>2. CASE \E l \in Labels : Jump(p, l)
        BY <2>0, <4>1, <4>2, JumpTypes
      <4>3. CASE \E l \in Labels : GiveUp(p, l)
        BY <2>0, <4>1, <4>3, JumpTypes, IntendTypes DEF GiveUp, Labels, Intents
      <4>4. CASE Remember(p)
        <5>1. CASE own[p].memory_commit = "staged"
          BY <2>0, <4>1, <4>4, <5>1 DEF Remember, Goto, Labels, LocalTypes
        <5>2. CASE own[p].memory_commit # "staged"
          BY <2>0, <4>1, <4>4, <5>2, JumpTypes DEF Remember, Labels
        <5> QED
          BY <5>1, <5>2
      <4> QED
        BY <2>26, <4>2, <4>3, <4>4 DEF After, Labels
    <3>4. FileTypes'
      BY <2>0, <2>26, <3>1
         DEF After, At, FileTypes, files, LocalTypes
    <3>5. OtherTypes'
      BY <2>0, <2>26, <3>1
         DEF After, At, OtherTypes, env
    <3>6. DecisionHeld'
      BY <2>0, <2>26, <3>1
         DEF After, Remember, GiveUp, At, Goto, Jump, Intend, DecisionHeld, Deciding, LocalTypes, FileTypes, files, locals
    <3> QED
      BY <3>3, <3>4, <3>5, <3>6 DEF Typed, TypeOK

  <2>27. ASSUME NEW p \in Sessions, Unpack(p) PROVE Typed'
    <3>1. cur[p] \in Runs \/ pc[p] \in {"off", "find"}
      BY <2>0 DEF LocalTypes
    <3>3. LocalTypes'
      BY <2>0, <2>27, <3>1, JumpTypes
         DEF Unpack, At, Labels, LocalTypes
    <3>4. FileTypes'
      BY <2>0, <2>27, <3>1
         DEF Unpack, At, FileTypes
    <3>5. OtherTypes'
      BY <2>0, <2>27, <3>1, FaultTypes
         DEF Unpack, At, OtherTypes, env
    <3>6. DecisionHeld'
      BY <2>0, <2>27, <3>1
         DEF Unpack, At, Goto, Jump, DecisionHeld, Deciding, LocalTypes, FileTypes, files, locals
    <3> QED
      BY <3>3, <3>4, <3>5, <3>6 DEF Typed, TypeOK

  <2>28. ASSUME NEW p \in Sessions, Mark(p) PROVE Typed'
    <3>1. cur[p] \in Runs \/ pc[p] \in {"off", "find"}
      BY <2>0 DEF LocalTypes
    <3>3. LocalTypes'
      BY <2>0, <2>28, <3>1, JumpTypes
         DEF Mark, At, Labels, LocalTypes
    <3>4. FileTypes'
      BY <2>0, <2>28, <3>1
         DEF Mark, At, FileTypes
    <3>5. OtherTypes'
      BY <2>0, <2>28, <3>1, FaultTypes
         DEF Mark, At, OtherTypes, env
    <3>6. DecisionHeld'
      BY <2>0, <2>28, <3>1
         DEF Mark, At, Goto, Jump, DecisionHeld, Deciding, LocalTypes, FileTypes, files, locals
    <3> QED
      BY <3>3, <3>4, <3>5, <3>6 DEF Typed, TypeOK

  <2>29. ASSUME NEW p \in Sessions, Accept(p) PROVE Typed'
    <3>1. cur[p] \in Runs \/ pc[p] \in {"off", "find"}
      BY <2>0 DEF LocalTypes
    <3>2. AcceptedFrom(own[p], decision[cur[p]]) \in RunRecord
      BY <2>0, <2>29, AcceptedType DEF Accept, At, LocalTypes, FileTypes, DecisionHeld, Deciding
    <3>3. LocalTypes'
      BY <2>0, <2>29, <3>1, <3>2, JumpTypes, SettlementAssumption
         DEF Accept, At, Goto, Labels, LocalTypes
    <3>4. FileTypes'
      BY <2>0, <2>29, <3>1, <3>2
         DEF Accept, At, FileTypes, LocalTypes
    <3>5. OtherTypes'
      BY <2>0, <2>29, <3>1, FaultTypes
         DEF Accept, At, OtherTypes, env
    <3>6. DecisionHeld'
      BY <2>0, <2>29, <3>1
         DEF Accept, At, Goto, Jump, DecisionHeld, Deciding, LocalTypes, FileTypes, files, locals
    <3> QED
      BY <3>3, <3>4, <3>5, <3>6 DEF Typed, TypeOK

  <2>30. ASSUME NEW p \in Sessions, Learn(p) PROVE Typed'
    <3>1. cur[p] \in Runs \/ pc[p] \in {"off", "find"}
      BY <2>0 DEF LocalTypes
    <3>3. LocalTypes'
      <4>1. /\ UNCHANGED <<pc, cur, own, intent>>
            /\ todo' \in [Sessions -> SUBSET Lessons]
        BY <2>0, <2>30 DEF Learn, LocalTypes
      <4>2. failed' \in [Sessions -> BOOLEAN]
        BY <2>0, <2>30 DEF Learn, LocalTypes
      <4> QED
        BY <2>0, <4>1, <4>2 DEF LocalTypes
    <3>4. FileTypes'
      BY <2>0, <2>30, <3>1
         DEF Learn, At, FileTypes, LocalTypes
    <3>5. OtherTypes'
      BY <2>0, <2>30, <3>1, FaultTypes
         DEF Learn, At, OtherTypes, env
    <3>6. DecisionHeld'
      BY <2>0, <2>30, <3>1
         DEF Learn, At, DecisionHeld, Deciding, LocalTypes, FileTypes, files, locals
    <3> QED
      BY <3>3, <3>4, <3>5, <3>6 DEF Typed, TypeOK

  <2>31. ASSUME NEW p \in Sessions, Learned(p) PROVE Typed'
    <3>1. cur[p] \in Runs \/ pc[p] \in {"off", "find"}
      BY <2>0 DEF LocalTypes
    <3>3. LocalTypes'
      BY <2>0, <2>31, <3>1, JumpTypes, SettlementAssumption
         DEF Learned, Resume, At, Labels, LocalTypes
    <3>4. FileTypes'
      BY <2>0, <2>31, <3>1
         DEF Learned, At, FileTypes, files, LocalTypes
    <3>5. OtherTypes'
      BY <2>0, <2>31, <3>1
         DEF Learned, At, OtherTypes, env
    <3>6. DecisionHeld'
      BY <2>0, <2>31, <3>1
         DEF Learned, Resume, At, Goto, Jump, DecisionHeld, Deciding, LocalTypes, FileTypes, files, locals
    <3> QED
      BY <3>3, <3>4, <3>5, <3>6 DEF Typed, TypeOK

  <2>32. ASSUME NEW p \in Sessions, Commit(p) PROVE Typed'
    <3>1. cur[p] \in Runs \/ pc[p] \in {"off", "find"}
      BY <2>0 DEF LocalTypes
    <3>2. [own[p] EXCEPT !.memory_commit = "committed"] \in RunRecord
      BY <2>0, PatchType DEF LocalTypes
    <3>3. LocalTypes'
      BY <2>0, <2>32, <3>1, <3>2, JumpTypes, SettlementAssumption
         DEF Commit, Resume, At, Goto, Labels, LocalTypes
    <3>4. FileTypes'
      <4>1. run' \in [Runs -> RunRecord]
        BY <2>0, <2>32, <3>2 DEF Commit, FileTypes
      <4> QED
        BY <2>0, <2>32, <4>1 DEF Commit, FileTypes
    <3>5. OtherTypes'
      BY <2>0, <2>32, <3>1, FaultTypes
         DEF Commit, At, OtherTypes, env
    <3>6. DecisionHeld'
      BY <2>0, <2>32, <3>1
         DEF Commit, Resume, At, Goto, Jump, DecisionHeld, Deciding, LocalTypes, FileTypes, files, locals
    <3> QED
      BY <3>3, <3>4, <3>5, <3>6 DEF Typed, TypeOK

  <2>33. ASSUME NEW p \in Sessions, Remove(p) PROVE Typed'
    <3>1. cur[p] \in Runs \/ pc[p] \in {"off", "find"}
      BY <2>0 DEF LocalTypes
    <3>3. LocalTypes'
      BY <2>0, <2>33, <3>1, JumpTypes
         DEF Remove, At, Labels, LocalTypes
    <3>4. FileTypes'
      BY <2>0, <2>33, <3>1
         DEF Remove, At, FileTypes
    <3>5. OtherTypes'
      BY <2>0, <2>33, <3>1, FaultTypes
         DEF Remove, Announce, At, OtherTypes, env
    <3>6. DecisionHeld'
      BY <2>0, <2>33, <3>1
         DEF Remove, At, Goto, Jump, DecisionHeld, Deciding, LocalTypes, FileTypes, files, locals
    <3> QED
      BY <3>3, <3>4, <3>5, <3>6 DEF Typed, TypeOK

  <2>34. ASSUME NEW p \in Sessions, Verdict(p) PROVE Typed'
    <3>1. cur[p] \in Runs \/ pc[p] \in {"off", "find"}
      BY <2>0 DEF LocalTypes
    <3>3. LocalTypes'
      BY <2>0, <2>34, <3>1, JumpTypes
         DEF Verdict, At, Labels, LocalTypes
    <3>4. FileTypes'
      BY <2>0, <2>34, <3>1
         DEF Verdict, At, FileTypes, files
    <3>5. OtherTypes'
      BY <2>0, <2>34, <3>1
         DEF Verdict, At, OtherTypes, env
    <3>6. DecisionHeld'
      BY <2>0, <2>34, <3>1
         DEF Verdict, At, Goto, Jump, DecisionHeld, Deciding, LocalTypes, FileTypes, files, locals
    <3> QED
      BY <3>3, <3>4, <3>5, <3>6 DEF Typed, TypeOK

  <2>35. ASSUME NEW p \in Sessions, Close(p) PROVE Typed'
    <3>1. cur[p] \in Runs \/ pc[p] \in {"off", "find"}
      BY <2>0 DEF LocalTypes
    <3>2. ClosedAs(own[p], ClosingStatus(intent[p])) \in RunRecord
      BY <2>0, ClosedType DEF LocalTypes, ClosingStatus, Closed
    <3>3. LocalTypes'
      BY <2>0, <2>35, <3>1, <3>2, JumpTypes
         DEF Close, ClosingStatus, At, Goto, Labels, LocalTypes
    <3>4. FileTypes'
      BY <2>0, <2>35, <3>1, <3>2
         DEF Close, At, FileTypes, LocalTypes
    <3>5. OtherTypes'
      BY <2>0, <2>35, <3>1, FaultTypes
         DEF Close, At, OtherTypes, env
    <3>6. DecisionHeld'
      BY <2>0, <2>35, <3>1
         DEF Close, At, Goto, Jump, DecisionHeld, Deciding, LocalTypes, FileTypes, files, locals
    <3> QED
      BY <3>3, <3>4, <3>5, <3>6 DEF Typed, TypeOK

  <2>36. ASSUME NEW p \in Sessions, ClosePack(p) PROVE Typed'
    <3>1. cur[p] \in Runs \/ pc[p] \in {"off", "find"}
      BY <2>0 DEF LocalTypes
    <3>3. LocalTypes'
      BY <2>0, <2>36, <3>1, JumpTypes
         DEF ClosePack, At, Labels, LocalTypes
    <3>4. FileTypes'
      BY <2>0, <2>36, <3>1
         DEF ClosePack, At, FileTypes
    <3>5. OtherTypes'
      BY <2>0, <2>36, <3>1, FaultTypes
         DEF ClosePack, At, OtherTypes, env
    <3>6. DecisionHeld'
      BY <2>0, <2>36, <3>1
         DEF ClosePack, At, Goto, Jump, DecisionHeld, Deciding, LocalTypes, FileTypes, files, locals
    <3> QED
      BY <3>3, <3>4, <3>5, <3>6 DEF Typed, TypeOK

  <2>37. ASSUME NEW p \in Sessions, ClosePending(p) PROVE Typed'
    <3>1. cur[p] \in Runs \/ pc[p] \in {"off", "find"}
      BY <2>0 DEF LocalTypes
    <3>3. LocalTypes'
      BY <2>0, <2>37, <3>1, JumpTypes
         DEF ClosePending, At, Labels, LocalTypes
    <3>4. FileTypes'
      BY <2>0, <2>37, <3>1
         DEF ClosePending, At, FileTypes
    <3>5. OtherTypes'
      BY <2>0, <2>37, <3>1, FaultTypes
         DEF ClosePending, Announce, At, OtherTypes, env
    <3>6. DecisionHeld'
      BY <2>0, <2>37, <3>1
         DEF ClosePending, At, Goto, Jump, DecisionHeld, Deciding, LocalTypes, FileTypes, files, locals
    <3> QED
      BY <3>3, <3>4, <3>5, <3>6 DEF Typed, TypeOK

  <2>38. ASSUME NEW p \in Sessions, Crash(p) PROVE Typed'
    <3>1. cur[p] \in Runs \/ pc[p] \in {"off", "find"}
      BY <2>0 DEF LocalTypes
    <3>3. LocalTypes'
      BY <2>0, <2>38, <3>1, ForgetTypes
         DEF Crash, At, Labels, LocalTypes
    <3>4. FileTypes'
      BY <2>0, <2>38, <3>1
         DEF Crash, At, FileTypes, files
    <3>5. OtherTypes'
      BY <2>0, <2>38, <3>1, SettlementAssumption
         DEF Crash, At, OtherTypes, env
    <3>6. DecisionHeld'
      BY <2>0, <2>38, <3>1
         DEF Crash, At, Forget, DecisionHeld, Deciding, LocalTypes, FileTypes, files, locals
    <3> QED
      BY <3>3, <3>4, <3>5, <3>6 DEF Typed, TypeOK

  <2>39. ASSUME NEW r \in Runs, Reclaim(r) PROVE Typed'
    BY <2>0, <2>39
       DEF Typed, TypeOK, FileTypes, LocalTypes, OtherTypes, DecisionHeld, Reclaim,
           files, locals, env

  <2>40. ASSUME NEW r \in Runs, Change(r) PROVE Typed'
    BY <2>0, <2>40
       DEF Typed, TypeOK, FileTypes, LocalTypes, OtherTypes, DecisionHeld, Change,
           files, locals, env

  <2>41. CASE UNCHANGED vars
    BY <2>0, <2>41
       DEF Typed, TypeOK, FileTypes, LocalTypes, OtherTypes, DecisionHeld, vars,
           files, locals, env

  <2> QED
    BY <2>1, <2>2, <2>3, <2>4, <2>5, <2>6, <2>7, <2>8, <2>9, <2>10, <2>11, <2>12, <2>13, <2>14, <2>15, <2>16, <2>17, <2>18, <2>19, <2>20, <2>21, <2>22, <2>23, <2>24, <2>25, <2>26, <2>27, <2>28, <2>29, <2>30, <2>31, <2>32, <2>33, <2>34, <2>35, <2>36, <2>37, <2>38, <2>39, <2>40, <2>41 DEF Next, Run, User
<1> QED
  BY <1>1, <1>2, PTL DEF Spec
-----------------------------------------------------------------------------
(* Accepted runs.  A run record, on disk or in a session's memory, is backed
   when an accepted status rests on the decision receipt and on the mark of
   the artifact. *)
Backed(rec, r) ==
  rec.status = "accepted" =>
    /\ decision[r] # None
    /\ rec.approval_decision = decision[r].by
    /\ marked[r]

Workbench == Runs \ CliRuns

RunsBacked == \A r \in Workbench : Backed(run[r], r)

OwnBacked == \A p \in Sessions : cur[p] \in Workbench => Backed(own[p], cur[p])

FrozenDelivered == \A r \in Runs : decision[r] # None => Freezable(decision[r].frozen)

MarkedFirst == \A p \in Sessions : pc[p] = "accept" => marked[cur[p]]

EmptyHanded == \A p \in Sessions : pc[p] \in {"off", "find", "load"} => own[p] = NoRun

BackedInv == RunsBacked /\ OwnBacked /\ FrozenDelivered /\ MarkedFirst /\ EmptyHanded

(* Receipts and marks only accumulate. *)
Accumulates ==
  /\ \A r \in Runs : decision[r] # None => decision'[r] = decision[r]
  /\ \A r \in Runs : marked[r] => marked'[r]

(* A step of session p keeps the invariant if the receipts accumulate and
   what p itself wrote, in its memory and on disk, is backed. *)
LEMMA BackedStep ==
  ASSUME Typed, BackedInv, Typed', NEW p \in Sessions,
         Accumulates, FrozenDelivered',
         \A q \in Sessions : q # p => pc'[q] = pc[q] /\ cur'[q] = cur[q] /\ own'[q] = own[q],
         \A r \in Workbench : run'[r] = run[r] \/ Backed(run[r], r)',
         cur'[p] \in Workbench => Backed(own[p], cur[p])',
         pc'[p] = "accept" => marked'[cur'[p]],
         pc'[p] \in {"off", "find", "load"} => own'[p] = NoRun
  PROVE  BackedInv'
<1>1. RunsBacked'
  BY DEF BackedInv, RunsBacked, Backed, Accumulates, Workbench
<1>2. OwnBacked'
  BY DEF BackedInv, OwnBacked, Backed, Accumulates, Workbench
<1>3. MarkedFirst'
  <2> SUFFICES ASSUME NEW q \in Sessions, pc'[q] = "accept", q # p
               PROVE  marked'[cur'[q]]
    BY DEF MarkedFirst
  <2> QED
    BY DEF BackedInv, MarkedFirst, Accumulates, Typed, TypeOK, LocalTypes
<1>4. EmptyHanded'
  BY DEF BackedInv, EmptyHanded
<1> QED
  BY <1>1, <1>2, <1>3, <1>4 DEF BackedInv

(* A step that writes no run, receipt or mark, and either ends the session or
   moves it past its search. *)
Quiet(p) ==
  /\ UNCHANGED <<run, decision, marked>>
  /\ \/ Forget(p)
     \/ /\ UNCHANGED <<own, cur>>
        /\ \E l \in Labels \ {"off", "find", "load", "accept"} : Goto(p, l)

(* A step of p that only moves on keeps the invariant. *)
LEMMA QuietStep ==
  ASSUME Typed, BackedInv, Typed', NEW p \in Sessions, Quiet(p)
  PROVE  BackedInv'
<1>1. Accumulates /\ FrozenDelivered'
  BY DEF Quiet, Accumulates, BackedInv, FrozenDelivered
<1>2. \A q \in Sessions : q # p => pc'[q] = pc[q] /\ cur'[q] = cur[q] /\ own'[q] = own[q]
  BY DEF Quiet, Forget, Goto, Typed, TypeOK, LocalTypes
<1>3. \A r \in Workbench : run'[r] = run[r]
  BY DEF Quiet
<1>4. CASE Forget(p)
  <2>1. pc'[p] = "off" /\ own'[p] = NoRun
    BY <1>4 DEF Forget, Typed, TypeOK, LocalTypes
  <2>2. Backed(own[p], cur[p])'
    BY <2>1 DEF Backed, NoRun
  <2> QED
    BY <1>1, <1>2, <1>3, <2>1, <2>2, BackedStep
<1>5. CASE UNCHANGED <<own, cur>> /\ \E l \in Labels \ {"off", "find", "load", "accept"} : Goto(p, l)
  <2>1. pc'[p] \notin {"off", "find", "load", "accept"}
    BY <1>5 DEF Goto, Typed, TypeOK, LocalTypes
  <2>2. cur'[p] \in Workbench => Backed(own[p], cur[p])'
    BY <1>5 DEF Quiet, Backed, BackedInv, OwnBacked
  <2> QED
    BY <1>1, <1>2, <1>3, <2>1, <2>2, BackedStep
<1> QED
  BY <1>4, <1>5 DEF Quiet

(* The two invariants together hold in every reachable state. *)
THEOREM Backing == Spec => [](Typed /\ BackedInv)
<1>1. Init => BackedInv
  BY DEF Init, BackedInv, RunsBacked, OwnBacked, FrozenDelivered, MarkedFirst, EmptyHanded,
         Backed, NoRun, Workbench
<1>2. Typed /\ BackedInv /\ [Next]_vars /\ Typed' => BackedInv'
  <2> SUFFICES ASSUME Typed, BackedInv, [Next]_vars, Typed' PROVE BackedInv'
    OBVIOUS

  <2>1. ASSUME NEW p \in Sessions, FindBlocked(p) PROVE BackedInv'
    <3>1. Quiet(p)
      BY <2>1 DEF Quiet, Labels, FindBlocked, files
    <3> QED
      BY <2>1, <3>1, QuietStep

  <2>2. ASSUME NEW p \in Sessions, Receipt(p) PROVE BackedInv'
    <3>1. Quiet(p)
      BY <2>2 DEF Quiet, Labels, Receipt, Jump, locals
    <3> QED
      BY <2>2, <3>1, QuietStep

  <2>3. ASSUME NEW p \in Sessions, Bind(p) PROVE BackedInv'
    <3>1. Quiet(p)
      BY <2>3 DEF Quiet, Labels, Bind, Jump, locals, files
    <3> QED
      BY <2>3, <3>1, QuietStep

  <2>4. ASSUME NEW p \in Sessions, Decided(p) PROVE BackedInv'
    <3>1. Quiet(p)
      BY <2>4 DEF Quiet, Labels, Decided, Jump, Intend, locals, files
    <3> QED
      BY <2>4, <3>1, QuietStep

  <2>5. ASSUME NEW p \in Sessions, Verify(p) PROVE BackedInv'
    <3>1. Quiet(p)
      BY <2>5 DEF Quiet, Labels, Verify, Jump, Intend, locals, files
    <3> QED
      BY <2>5, <3>1, QuietStep

  <2>6. ASSUME NEW p \in Sessions, Answer(p) PROVE BackedInv'
    <3>1. Quiet(p)
      BY <2>6 DEF Quiet, Labels, Answer, Intend, files
    <3> QED
      BY <2>6, <3>1, QuietStep

  <2>7. ASSUME NEW p \in Sessions, Delete(p) PROVE BackedInv'
    <3>1. Quiet(p)
      BY <2>7 DEF Quiet, Labels, Delete, Intend
    <3> QED
      BY <2>7, <3>1, QuietStep

  <2>8. ASSUME NEW p \in Sessions, Lock(p) PROVE BackedInv'
    <3>1. Quiet(p)
      BY <2>8 DEF Quiet, Labels, Lock, Jump, locals, files
    <3> QED
      BY <2>8, <3>1, QuietStep

  <2>9. ASSUME NEW p \in Sessions, LockTimeout(p) PROVE BackedInv'
    <3>1. Quiet(p)
      BY <2>9 DEF Quiet, Labels, LockTimeout, files
    <3> QED
      BY <2>9, <3>1, QuietStep

  <2>10. ASSUME NEW p \in Sessions, Unlock(p) PROVE BackedInv'
    <3>1. Quiet(p)
      BY <2>10 DEF Quiet, Labels, Unlock, files
    <3> QED
      BY <2>10, <3>1, QuietStep

  <2>11. ASSUME NEW p \in Sessions, Repending(p) PROVE BackedInv'
    <3>1. Quiet(p)
      BY <2>11 DEF Quiet, Labels, Repending, Jump, locals, files
    <3> QED
      BY <2>11, <3>1, QuietStep

  <2>12. ASSUME NEW p \in Sessions, Rebind(p) PROVE BackedInv'
    <3>1. Quiet(p)
      BY <2>12 DEF Quiet, Labels, Rebind, Jump, Intend, locals, files
    <3> QED
      BY <2>12, <3>1, QuietStep

  <2>13. ASSUME NEW p \in Sessions, Settle(p) PROVE BackedInv'
    <3>1. Quiet(p)
      BY <2>13 DEF Quiet, Labels, Settle, Jump, locals, files
    <3> QED
      BY <2>13, <3>1, QuietStep

  <2>14. ASSUME NEW p \in Sessions, Pack(p) PROVE BackedInv'
    <3>1. Quiet(p)
      BY <2>14 DEF Quiet, Labels, Pack, GiveUp, Jump, Intend, locals
    <3> QED
      BY <2>14, <3>1, QuietStep

  <2>15. ASSUME NEW p \in Sessions, After(p) PROVE BackedInv'
    <3>1. Quiet(p)
      BY <2>15 DEF Quiet, Labels, After, Remember, GiveUp, Jump, Intend, locals, files
    <3> QED
      BY <2>15, <3>1, QuietStep

  <2>16. ASSUME NEW p \in Sessions, Unpack(p) PROVE BackedInv'
    <3>1. Quiet(p)
      BY <2>16 DEF Quiet, Labels, Unpack, Jump, locals
    <3> QED
      BY <2>16, <3>1, QuietStep

  <2>17. ASSUME NEW p \in Sessions, Learned(p) PROVE BackedInv'
    <3>1. Quiet(p)
      BY <2>17 DEF Quiet, Labels, Learned, Resume, Jump, locals, files
    <3> QED
      BY <2>17, <3>1, QuietStep

  <2>18. ASSUME NEW p \in Sessions, Remove(p) PROVE BackedInv'
    <3>1. Quiet(p)
      BY <2>18 DEF Quiet, Labels, Remove, Jump, locals
    <3> QED
      BY <2>18, <3>1, QuietStep

  <2>19. ASSUME NEW p \in Sessions, Verdict(p) PROVE BackedInv'
    <3>1. Quiet(p)
      BY <2>19 DEF Quiet, Labels, Verdict, Jump, locals, files
    <3> QED
      BY <2>19, <3>1, QuietStep

  <2>20. ASSUME NEW p \in Sessions, ClosePack(p) PROVE BackedInv'
    <3>1. Quiet(p)
      BY <2>20 DEF Quiet, Labels, ClosePack, Jump, locals
    <3> QED
      BY <2>20, <3>1, QuietStep

  <2>21. ASSUME NEW p \in Sessions, ClosePending(p) PROVE BackedInv'
    <3>1. Quiet(p)
      BY <2>21 DEF Quiet, Labels, ClosePending, Jump, locals
    <3> QED
      BY <2>21, <3>1, QuietStep

  <2>22. ASSUME NEW p \in Sessions, Crash(p) PROVE BackedInv'
    <3>1. Quiet(p)
      BY <2>22 DEF Quiet, Labels, Crash, files
    <3> QED
      BY <2>22, <3>1, QuietStep

  <2>23. ASSUME NEW p \in Sessions, Start(p) PROVE BackedInv'
    <3>1. Accumulates /\ FrozenDelivered'
      BY <2>23 DEF Start, At, Jump, Goto, files, Accumulates, BackedInv, FrozenDelivered
    <3>2. \A q \in Sessions : q # p => pc'[q] = pc[q] /\ cur'[q] = cur[q] /\ own'[q] = own[q]
      BY <2>23 DEF Start, At, Jump, Goto, locals, Typed, TypeOK, LocalTypes, FileTypes
    <3>3. \A r \in Workbench : run'[r] = run[r] \/ Backed(run[r], r)'
      BY <2>23 DEF Start, At, Jump, Goto, files
    <3>4. cur'[p] \in Workbench => Backed(own[p], cur[p])'
      BY <2>23 DEF Start, At, Jump, Goto, files, locals, Workbench, Backed, NoRun, BackedInv, OwnBacked, RunsBacked, EmptyHanded, Typed, TypeOK, LocalTypes, FileTypes
    <3>5. pc'[p] = "accept" => marked'[cur'[p]]
      BY <2>23 DEF Start, At, Jump, Goto, files, locals, Typed, TypeOK, LocalTypes, FileTypes
    <3>6. pc'[p] \in {"off", "find", "load"} => own'[p] = NoRun
      BY <2>23 DEF Start, At, Jump, Goto, locals, BackedInv, EmptyHanded, Typed, TypeOK, LocalTypes, FileTypes
    <3> QED
      BY <2>23, <3>1, <3>2, <3>3, <3>4, <3>5, <3>6, BackedStep


  <2>24. ASSUME NEW p \in Sessions, StartCli(p) PROVE BackedInv'
    <3>1. Accumulates /\ FrozenDelivered'
      BY <2>24 DEF StartCli, Draw, Goto, At, files, Accumulates, BackedInv, FrozenDelivered
    <3>2. \A q \in Sessions : q # p => pc'[q] = pc[q] /\ cur'[q] = cur[q] /\ own'[q] = own[q]
      BY <2>24 DEF StartCli, Draw, Goto, At, locals, Typed, TypeOK, LocalTypes, FileTypes
    <3>3. \A r \in Workbench : run'[r] = run[r] \/ Backed(run[r], r)'
      BY <2>24 DEF StartCli, Draw, Goto, At, files
    <3>4. cur'[p] \in Workbench => Backed(own[p], cur[p])'
      BY <2>24 DEF StartCli, Draw, Workbench, Typed, TypeOK, LocalTypes, FileTypes
    <3>5. pc'[p] = "accept" => marked'[cur'[p]]
      BY <2>24 DEF StartCli, Draw, Goto, At, files, locals, Typed, TypeOK, LocalTypes, FileTypes
    <3>6. pc'[p] \in {"off", "find", "load"} => own'[p] = NoRun
      BY <2>24 DEF StartCli, Draw, Goto, At, locals, BackedInv, EmptyHanded, Typed, TypeOK, LocalTypes, FileTypes
    <3> QED
      BY <2>24, <3>1, <3>2, <3>3, <3>4, <3>5, <3>6, BackedStep


  <2>25. ASSUME NEW p \in Sessions, FindNone(p) PROVE BackedInv'
    <3>1. Accumulates /\ FrozenDelivered'
      BY <2>25 DEF FindNone, Draw, Goto, At, files, Accumulates, BackedInv, FrozenDelivered
    <3>2. \A q \in Sessions : q # p => pc'[q] = pc[q] /\ cur'[q] = cur[q] /\ own'[q] = own[q]
      BY <2>25 DEF FindNone, Draw, Goto, At, locals, Typed, TypeOK, LocalTypes, FileTypes
    <3>3. \A r \in Workbench : run'[r] = run[r] \/ Backed(run[r], r)'
      BY <2>25 DEF FindNone, Draw, Goto, At, files
    <3>4. cur'[p] \in Workbench => Backed(own[p], cur[p])'
      BY <2>25 DEF FindNone, Draw, Outcome, NoRun, Backed, Typed, TypeOK, LocalTypes, FileTypes
    <3>5. pc'[p] = "accept" => marked'[cur'[p]]
      BY <2>25 DEF FindNone, Draw, Goto, At, files, locals, Typed, TypeOK, LocalTypes, FileTypes
    <3>6. pc'[p] \in {"off", "find", "load"} => own'[p] = NoRun
      BY <2>25 DEF FindNone, Draw, Goto, At, locals, BackedInv, EmptyHanded, Typed, TypeOK, LocalTypes, FileTypes
    <3> QED
      BY <2>25, <3>1, <3>2, <3>3, <3>4, <3>5, <3>6, BackedStep


  <2>26. ASSUME NEW p \in Sessions, FindOne(p) PROVE BackedInv'
    <3>1. Accumulates /\ FrozenDelivered'
      BY <2>26 DEF FindOne, Goto, At, files, Accumulates, BackedInv, FrozenDelivered
    <3>2. \A q \in Sessions : q # p => pc'[q] = pc[q] /\ cur'[q] = cur[q] /\ own'[q] = own[q]
      BY <2>26 DEF FindOne, Goto, At, locals, Typed, TypeOK, LocalTypes, FileTypes
    <3>3. \A r \in Workbench : run'[r] = run[r] \/ Backed(run[r], r)'
      BY <2>26 DEF FindOne, Goto, At, files
    <3>4. cur'[p] \in Workbench => Backed(own[p], cur[p])'
      BY <2>26 DEF FindOne, At, Backed, NoRun, BackedInv, EmptyHanded, Typed, TypeOK, LocalTypes, FileTypes
    <3>5. pc'[p] = "accept" => marked'[cur'[p]]
      BY <2>26 DEF FindOne, Goto, At, files, locals, Typed, TypeOK, LocalTypes, FileTypes
    <3>6. pc'[p] \in {"off", "find", "load"} => own'[p] = NoRun
      BY <2>26 DEF FindOne, Goto, At, locals, BackedInv, EmptyHanded, Typed, TypeOK, LocalTypes, FileTypes
    <3> QED
      BY <2>26, <3>1, <3>2, <3>3, <3>4, <3>5, <3>6, BackedStep


  <2>27. ASSUME NEW p \in Sessions, Create(p) PROVE BackedInv'
    <3>0. cur[p] \in Runs
      BY <2>27 DEF Create, At, Typed, TypeOK, LocalTypes
    <3>1. Accumulates /\ FrozenDelivered'
      BY <2>27, <3>0 DEF Create, At, Jump, Goto, files, Accumulates, BackedInv, FrozenDelivered
    <3>2. \A q \in Sessions : q # p => pc'[q] = pc[q] /\ cur'[q] = cur[q] /\ own'[q] = own[q]
      BY <2>27, <3>0 DEF Create, At, Jump, Goto, locals, Typed, TypeOK, LocalTypes, FileTypes
    <3>3. \A r \in Workbench : run'[r] = run[r] \/ Backed(run[r], r)'
      BY <2>27, <3>0 DEF Create, SaveOwn, Workbench, Backed, BackedInv, OwnBacked, Open, Closed, At, env, Typed, TypeOK, LocalTypes, FileTypes
    <3>4. cur'[p] \in Workbench => Backed(own[p], cur[p])'
      BY <2>27, <3>0 DEF Create, At, Jump, Goto, files, locals, Workbench, Backed, NoRun, BackedInv, OwnBacked, RunsBacked, EmptyHanded, Typed, TypeOK, LocalTypes, FileTypes
    <3>5. pc'[p] = "accept" => marked'[cur'[p]]
      BY <2>27, <3>0 DEF Create, At, Jump, Goto, files, locals, Typed, TypeOK, LocalTypes, FileTypes
    <3>6. pc'[p] \in {"off", "find", "load"} => own'[p] = NoRun
      BY <2>27, <3>0 DEF Create, At, Jump, Goto, locals, BackedInv, EmptyHanded, Typed, TypeOK, LocalTypes, FileTypes
    <3> QED
      BY <2>27, <3>1, <3>2, <3>3, <3>4, <3>5, <3>6, BackedStep


  <2>28. ASSUME NEW p \in Sessions, Final(p) PROVE BackedInv'
    <3>0. cur[p] \in Runs
      BY <2>28 DEF Final, At, Typed, TypeOK, LocalTypes
    <3>1. Accumulates /\ FrozenDelivered'
      BY <2>28, <3>0 DEF Final, At, Jump, Goto, Forget, files, Accumulates, BackedInv, FrozenDelivered
    <3>2. \A q \in Sessions : q # p => pc'[q] = pc[q] /\ cur'[q] = cur[q] /\ own'[q] = own[q]
      BY <2>28, <3>0 DEF Final, At, Jump, Goto, Forget, locals, Typed, TypeOK, LocalTypes, FileTypes
    <3>3. \A r \in Workbench : run'[r] = run[r] \/ Backed(run[r], r)'
      BY <2>28, <3>0 DEF Final, SaveOwn, Workbench, Backed, BackedInv, OwnBacked, Open, Closed, At, env, Typed, TypeOK, LocalTypes, FileTypes
    <3>4. cur'[p] \in Workbench => Backed(own[p], cur[p])'
      BY <2>28, <3>0 DEF Final, At, Jump, Goto, Forget, files, locals, Workbench, Backed, NoRun, BackedInv, OwnBacked, RunsBacked, EmptyHanded, Typed, TypeOK, LocalTypes, FileTypes
    <3>5. pc'[p] = "accept" => marked'[cur'[p]]
      BY <2>28, <3>0 DEF Final, At, Jump, Goto, Forget, files, locals, Typed, TypeOK, LocalTypes, FileTypes
    <3>6. pc'[p] \in {"off", "find", "load"} => own'[p] = NoRun
      BY <2>28, <3>0 DEF Final, At, Jump, Goto, Forget, locals, BackedInv, EmptyHanded, Typed, TypeOK, LocalTypes, FileTypes
    <3> QED
      BY <2>28, <3>1, <3>2, <3>3, <3>4, <3>5, <3>6, BackedStep


  <2>29. ASSUME NEW p \in Sessions, Abort(p) PROVE BackedInv'
    <3>0. cur[p] \in Runs
      BY <2>29 DEF Abort, At, Typed, TypeOK, LocalTypes
    <3>a. \A rec \in RunRecord : \A s \in Closed : ~ (ClosedAs(rec, s).status = "accepted")
      BY DEF ClosedAs, RunRecord, Closed
    <3>b. own[p] \in RunRecord /\ "failed" \in Closed
      BY DEF Closed, Typed, TypeOK, LocalTypes
    <3>c. ClosedAs(own[p], "failed").status # "accepted"
      BY <3>a, <3>b
    <3>1. Accumulates /\ FrozenDelivered'
      BY <2>29, <3>0 DEF Abort, At, Forget, files, Accumulates, BackedInv, FrozenDelivered
    <3>2. \A q \in Sessions : q # p => pc'[q] = pc[q] /\ cur'[q] = cur[q] /\ own'[q] = own[q]
      BY <2>29, <3>0 DEF Abort, At, Forget, locals, Typed, TypeOK, LocalTypes, FileTypes
    <3>3. \A r \in Workbench : run'[r] = run[r] \/ Backed(run[r], r)'
      <4>1. \A r \in Runs : run'[r] = run[r] \/ (r = cur[p] /\ run'[r] = ClosedAs(own[p], "failed"))
        BY <2>29, <3>0 DEF Abort, Typed, TypeOK, FileTypes
      <4> QED
        BY <3>c, <4>1 DEF Backed, Workbench
    <3>4. cur'[p] \in Workbench => Backed(own[p], cur[p])'
      BY <2>29, <3>0 DEF Abort, At, Forget, files, locals, Workbench, Backed, NoRun, BackedInv, OwnBacked, RunsBacked, EmptyHanded, Typed, TypeOK, LocalTypes, FileTypes
    <3>5. pc'[p] = "accept" => marked'[cur'[p]]
      BY <2>29, <3>0 DEF Abort, At, Forget, files, locals, Typed, TypeOK, LocalTypes, FileTypes
    <3>6. pc'[p] \in {"off", "find", "load"} => own'[p] = NoRun
      BY <2>29, <3>0 DEF Abort, At, Forget, locals, BackedInv, EmptyHanded, Typed, TypeOK, LocalTypes, FileTypes
    <3> QED
      BY <2>29, <3>1, <3>2, <3>3, <3>4, <3>5, <3>6, BackedStep


  <2>30. ASSUME NEW p \in Sessions, Note(p) PROVE BackedInv'
    <3>0. cur[p] \in Runs
      BY <2>30 DEF Note, At, Typed, TypeOK, LocalTypes
    <3>1. Accumulates /\ FrozenDelivered'
      BY <2>30, <3>0 DEF Note, At, Goto, files, Accumulates, BackedInv, FrozenDelivered
    <3>2. \A q \in Sessions : q # p => pc'[q] = pc[q] /\ cur'[q] = cur[q] /\ own'[q] = own[q]
      BY <2>30, <3>0 DEF Note, At, Goto, locals, Typed, TypeOK, LocalTypes, FileTypes
    <3>3. \A r \in Workbench : run'[r] = run[r] \/ Backed(run[r], r)'
      BY <2>30, <3>0 DEF Note, SaveOwn, Workbench, Backed, BackedInv, OwnBacked, Open, Closed, At, env, RunRecord, Typed, TypeOK, LocalTypes, FileTypes
    <3>4. cur'[p] \in Workbench => Backed(own[p], cur[p])'
      BY <2>30, <3>0 DEF Note, At, Goto, files, locals, Workbench, Backed, NoRun, BackedInv, OwnBacked, RunsBacked, EmptyHanded, Typed, TypeOK, LocalTypes, FileTypes
    <3>5. pc'[p] = "accept" => marked'[cur'[p]]
      BY <2>30, <3>0 DEF Note, At, Goto, files, locals, Typed, TypeOK, LocalTypes, FileTypes
    <3>6. pc'[p] \in {"off", "find", "load"} => own'[p] = NoRun
      BY <2>30, <3>0 DEF Note, At, Goto, locals, BackedInv, EmptyHanded, Typed, TypeOK, LocalTypes, FileTypes
    <3> QED
      BY <2>30, <3>1, <3>2, <3>3, <3>4, <3>5, <3>6, BackedStep


  <2>31. ASSUME NEW p \in Sessions, Load(p) PROVE BackedInv'
    <3>0. cur[p] \in Runs
      BY <2>31 DEF Load, At, Typed, TypeOK, LocalTypes
    <3>1. Accumulates /\ FrozenDelivered'
      BY <2>31, <3>0 DEF Load, At, Goto, Forget, files, Accumulates, BackedInv, FrozenDelivered
    <3>2. \A q \in Sessions : q # p => pc'[q] = pc[q] /\ cur'[q] = cur[q] /\ own'[q] = own[q]
      BY <2>31, <3>0 DEF Load, At, Goto, Forget, locals, Typed, TypeOK, LocalTypes, FileTypes
    <3>3. \A r \in Workbench : run'[r] = run[r] \/ Backed(run[r], r)'
      BY <2>31 DEF Load, files
    <3>4. cur'[p] \in Workbench => Backed(own[p], cur[p])'
      BY <2>31, <3>0 DEF Load, At, Goto, Forget, files, locals, Workbench, Backed, NoRun, BackedInv, OwnBacked, RunsBacked, EmptyHanded, Typed, TypeOK, LocalTypes, FileTypes
    <3>5. pc'[p] = "accept" => marked'[cur'[p]]
      BY <2>31, <3>0 DEF Load, At, Goto, Forget, files, locals, Typed, TypeOK, LocalTypes, FileTypes
    <3>6. pc'[p] \in {"off", "find", "load"} => own'[p] = NoRun
      BY <2>31, <3>0 DEF Load, At, Goto, Forget, locals, BackedInv, EmptyHanded, Typed, TypeOK, LocalTypes, FileTypes
    <3> QED
      BY <2>31, <3>1, <3>2, <3>3, <3>4, <3>5, <3>6, BackedStep


  <2>32. ASSUME NEW p \in Sessions, Reload(p) PROVE BackedInv'
    <3>0. cur[p] \in Runs
      BY <2>32 DEF Reload, At, Typed, TypeOK, LocalTypes
    <3>1. Accumulates /\ FrozenDelivered'
      BY <2>32, <3>0 DEF Reload, At, Goto, files, Accumulates, BackedInv, FrozenDelivered
    <3>2. \A q \in Sessions : q # p => pc'[q] = pc[q] /\ cur'[q] = cur[q] /\ own'[q] = own[q]
      BY <2>32, <3>0 DEF Reload, At, Goto, locals, Typed, TypeOK, LocalTypes, FileTypes
    <3>3. \A r \in Workbench : run'[r] = run[r] \/ Backed(run[r], r)'
      BY <2>32 DEF Reload, files
    <3>4. cur'[p] \in Workbench => Backed(own[p], cur[p])'
      BY <2>32, <3>0 DEF Reload, At, Goto, files, locals, Workbench, Backed, NoRun, BackedInv, OwnBacked, RunsBacked, EmptyHanded, Typed, TypeOK, LocalTypes, FileTypes
    <3>5. pc'[p] = "accept" => marked'[cur'[p]]
      BY <2>32, <3>0 DEF Reload, At, Goto, files, locals, Typed, TypeOK, LocalTypes, FileTypes
    <3>6. pc'[p] \in {"off", "find", "load"} => own'[p] = NoRun
      BY <2>32, <3>0 DEF Reload, At, Goto, locals, BackedInv, EmptyHanded, Typed, TypeOK, LocalTypes, FileTypes
    <3> QED
      BY <2>32, <3>1, <3>2, <3>3, <3>4, <3>5, <3>6, BackedStep


  <2>33. ASSUME NEW p \in Sessions, Decide(p) PROVE BackedInv'
    <3>0. cur[p] \in Runs
      BY <2>33 DEF Decide, At, Typed, TypeOK, LocalTypes
    <3>1. Accumulates /\ FrozenDelivered'
      <4>1. \A r \in Runs : decision[r] # None => decision'[r] = decision[r]
        BY <2>33, <3>0 DEF Decide, Typed, TypeOK, FileTypes
      <4>2. FrozenDelivered'
        <5>1. CASE decision' = decision
          BY <5>1 DEF FrozenDelivered, BackedInv
        <5>2. CASE decision' # decision
          <6>1. Freezable(own[p]) /\ decision' = [decision EXCEPT ![cur[p]] = [by |-> p, frozen |-> own[p]]]
            BY <2>33, <5>2 DEF Decide
          <6>2. \A r \in Runs : decision'[r] = decision[r] \/ decision'[r] = [by |-> p, frozen |-> own[p]]
            BY <3>0, <6>1 DEF Typed, TypeOK, FileTypes
          <6>3. [by |-> p, frozen |-> own[p]].frozen = own[p]
            OBVIOUS
          <6> QED
            BY <6>1, <6>2, <6>3 DEF FrozenDelivered, BackedInv
        <5> QED
          BY <5>1, <5>2
      <4>3. marked' = marked
        BY <2>33 DEF Decide
      <4> QED
        BY <4>1, <4>2, <4>3 DEF Accumulates
    <3>2. \A q \in Sessions : q # p => pc'[q] = pc[q] /\ cur'[q] = cur[q] /\ own'[q] = own[q]
      BY <2>33, <3>0 DEF Decide, At, Jump, Goto, locals, Typed, TypeOK, LocalTypes, FileTypes
    <3>3. \A r \in Workbench : run'[r] = run[r] \/ Backed(run[r], r)'
      BY <2>33, <3>0 DEF Decide, SaveOwn, Workbench, Backed, BackedInv, OwnBacked, Open, Closed, At, env, Typed, TypeOK, LocalTypes, FileTypes
    <3>4. cur'[p] \in Workbench => Backed(own[p], cur[p])'
      BY <2>33, <3>0 DEF Decide, At, Jump, Goto, files, locals, Workbench, Backed, NoRun, BackedInv, OwnBacked, RunsBacked, EmptyHanded, Typed, TypeOK, LocalTypes, FileTypes
    <3>5. pc'[p] = "accept" => marked'[cur'[p]]
      BY <2>33, <3>0 DEF Decide, At, Jump, Goto, files, locals, Typed, TypeOK, LocalTypes, FileTypes
    <3>6. pc'[p] \in {"off", "find", "load"} => own'[p] = NoRun
      BY <2>33, <3>0 DEF Decide, At, Jump, Goto, locals, BackedInv, EmptyHanded, Typed, TypeOK, LocalTypes, FileTypes
    <3> QED
      BY <2>33, <3>1, <3>2, <3>3, <3>4, <3>5, <3>6, BackedStep


  <2>34. ASSUME NEW p \in Sessions, Mark(p) PROVE BackedInv'
    <3>0. cur[p] \in Runs
      BY <2>34 DEF Mark, At, Typed, TypeOK, LocalTypes
    <3>1. Accumulates /\ FrozenDelivered'
      <4>1. decision' = decision /\ (marked' = marked \/ marked' = [marked EXCEPT ![cur[p]] = TRUE])
        BY <2>34 DEF Mark
      <4>2. \A r \in Runs : marked[r] => marked'[r]
        BY <3>0, <4>1 DEF Typed, TypeOK, FileTypes
      <4> QED
        BY <4>1, <4>2 DEF Accumulates, FrozenDelivered, BackedInv
    <3>2. \A q \in Sessions : q # p => pc'[q] = pc[q] /\ cur'[q] = cur[q] /\ own'[q] = own[q]
      BY <2>34, <3>0 DEF Mark, At, Jump, Goto, locals, Typed, TypeOK, LocalTypes, FileTypes
    <3>3. \A r \in Workbench : run'[r] = run[r] \/ Backed(run[r], r)'
      BY <2>34, <3>0 DEF Mark, SaveOwn, Workbench, Backed, BackedInv, OwnBacked, Open, Closed, At, env, Typed, TypeOK, LocalTypes, FileTypes
    <3>4. cur'[p] \in Workbench => Backed(own[p], cur[p])'
      BY <2>34, <3>0 DEF Mark, At, Jump, Goto, files, locals, Workbench, Backed, NoRun, BackedInv, OwnBacked, RunsBacked, EmptyHanded, Typed, TypeOK, LocalTypes, FileTypes
    <3>5. pc'[p] = "accept" => marked'[cur'[p]]
      BY <2>34, <3>0 DEF Mark, At, Jump, Goto, files, locals, Typed, TypeOK, LocalTypes, FileTypes
    <3>6. pc'[p] \in {"off", "find", "load"} => own'[p] = NoRun
      BY <2>34, <3>0 DEF Mark, At, Jump, Goto, locals, BackedInv, EmptyHanded, Typed, TypeOK, LocalTypes, FileTypes
    <3> QED
      BY <2>34, <3>1, <3>2, <3>3, <3>4, <3>5, <3>6, BackedStep


  <2>35. ASSUME NEW p \in Sessions, Accept(p) PROVE BackedInv'
    <3>0. cur[p] \in Runs
      BY <2>35 DEF Accept, At, Typed, TypeOK, LocalTypes
    <3> DEFINE rec == AcceptedFrom(own[p], decision[cur[p]])
    <3>a. rec.approval_decision = decision[cur[p]].by
      BY DEF AcceptedFrom, RunRecord, Typed, TypeOK, LocalTypes
    <3>b. decision[cur[p]] # None /\ marked[cur[p]]
      BY <2>35 DEF Accept, At, BackedInv, MarkedFirst, DecisionHeld, Deciding, Typed
    <3>c. decision' = decision /\ marked' = marked
      BY <2>35 DEF Accept
    <3> HIDE DEF rec
    <3>1. Accumulates /\ FrozenDelivered'
      BY <2>35, <3>0 DEF Accept, At, Jump, Goto, files, Accumulates, BackedInv, FrozenDelivered
    <3>2. \A q \in Sessions : q # p => pc'[q] = pc[q] /\ cur'[q] = cur[q] /\ own'[q] = own[q]
      BY <2>35, <3>0 DEF Accept, At, Jump, Goto, locals, Typed, TypeOK, LocalTypes, FileTypes
    <3>3. \A r \in Workbench : run'[r] = run[r] \/ Backed(run[r], r)'
      <4>1. \A r \in Runs : run'[r] = run[r] \/ (r = cur[p] /\ run'[r] = rec)
        BY <2>35, <3>0 DEF Accept, rec, Typed, TypeOK, FileTypes
      <4> QED
        BY <3>a, <3>b, <3>c, <4>1 DEF Backed, Workbench
    <3>4. cur'[p] \in Workbench => Backed(own[p], cur[p])'
      <4>1. cur' = cur
        BY <2>35 DEF Accept, Jump, locals
      <4>2. own'[p] = own[p] \/ own'[p] = rec
        BY <2>35 DEF Accept, rec, Jump, locals, Typed, TypeOK, LocalTypes
      <4> QED
        BY <3>0, <3>a, <3>b, <3>c, <4>1, <4>2 DEF Backed, BackedInv, OwnBacked
    <3>5. pc'[p] = "accept" => marked'[cur'[p]]
      BY <2>35, <3>0 DEF Accept, At, Jump, Goto, files, locals, Typed, TypeOK, LocalTypes, FileTypes
    <3>6. pc'[p] \in {"off", "find", "load"} => own'[p] = NoRun
      BY <2>35, <3>0 DEF Accept, At, Jump, Goto, locals, BackedInv, EmptyHanded, Typed, TypeOK, LocalTypes, FileTypes
    <3> QED
      BY <2>35, <3>1, <3>2, <3>3, <3>4, <3>5, <3>6, BackedStep


  <2>36. ASSUME NEW p \in Sessions, Learn(p) PROVE BackedInv'
    <3>0. cur[p] \in Runs
      BY <2>36 DEF Learn, At, Typed, TypeOK, LocalTypes
    <3>1. Accumulates /\ FrozenDelivered'
      BY <2>36, <3>0 DEF Learn, At, files, Accumulates, BackedInv, FrozenDelivered
    <3>2. \A q \in Sessions : q # p => pc'[q] = pc[q] /\ cur'[q] = cur[q] /\ own'[q] = own[q]
      BY <2>36, <3>0 DEF Learn, At, locals, Typed, TypeOK, LocalTypes, FileTypes
    <3>3. \A r \in Workbench : run'[r] = run[r] \/ Backed(run[r], r)'
      BY <2>36, <3>0 DEF Learn, SaveOwn, Workbench, Backed, BackedInv, OwnBacked, Open, Closed, At, env, Typed, TypeOK, LocalTypes, FileTypes
    <3>4. cur'[p] \in Workbench => Backed(own[p], cur[p])'
      BY <2>36, <3>0 DEF Learn, At, files, locals, Workbench, Backed, NoRun, BackedInv, OwnBacked, RunsBacked, EmptyHanded, Typed, TypeOK, LocalTypes, FileTypes
    <3>5. pc'[p] = "accept" => marked'[cur'[p]]
      BY <2>36, <3>0 DEF Learn, At, files, locals, Typed, TypeOK, LocalTypes, FileTypes
    <3>6. pc'[p] \in {"off", "find", "load"} => own'[p] = NoRun
      BY <2>36, <3>0 DEF Learn, At, locals, BackedInv, EmptyHanded, Typed, TypeOK, LocalTypes, FileTypes
    <3> QED
      BY <2>36, <3>1, <3>2, <3>3, <3>4, <3>5, <3>6, BackedStep


  <2>37. ASSUME NEW p \in Sessions, Commit(p) PROVE BackedInv'
    <3>0. cur[p] \in Runs
      BY <2>37 DEF Commit, At, Typed, TypeOK, LocalTypes
    <3> DEFINE rec == [own[p] EXCEPT !.memory_commit = "committed"]
    <3>a. rec.status = own[p].status /\ rec.approval_decision = own[p].approval_decision
      BY DEF RunRecord, Typed, TypeOK, LocalTypes
    <3>c. decision' = decision /\ marked' = marked
      BY <2>37 DEF Commit
    <3> HIDE DEF rec
    <3>1. Accumulates /\ FrozenDelivered'
      BY <2>37, <3>0 DEF Commit, At, Jump, Goto, Resume, files, Accumulates, BackedInv, FrozenDelivered
    <3>2. \A q \in Sessions : q # p => pc'[q] = pc[q] /\ cur'[q] = cur[q] /\ own'[q] = own[q]
      BY <2>37, <3>0 DEF Commit, At, Jump, Goto, Resume, locals, Typed, TypeOK, LocalTypes, FileTypes
    <3>3. \A r \in Workbench : run'[r] = run[r] \/ Backed(run[r], r)'
      <4>1. \A r \in Runs : run'[r] = run[r] \/ (r = cur[p] /\ run'[r] = rec)
        BY <2>37, <3>0 DEF Commit, rec, Typed, TypeOK, FileTypes
      <4> QED
        BY <3>0, <3>a, <3>c, <4>1 DEF Backed, Workbench, BackedInv, OwnBacked
    <3>4. cur'[p] \in Workbench => Backed(own[p], cur[p])'
      <4>1. cur' = cur
        BY <2>37 DEF Commit, Jump, locals
      <4>2. own'[p] = own[p] \/ own'[p] = rec
        BY <2>37 DEF Commit, rec, Jump, locals, Typed, TypeOK, LocalTypes
      <4> QED
        BY <3>0, <3>a, <3>c, <4>1, <4>2 DEF Backed, BackedInv, OwnBacked
    <3>5. pc'[p] = "accept" => marked'[cur'[p]]
      BY <2>37, <3>0 DEF Commit, At, Jump, Goto, Resume, files, locals, Typed, TypeOK, LocalTypes, FileTypes
    <3>6. pc'[p] \in {"off", "find", "load"} => own'[p] = NoRun
      BY <2>37, <3>0 DEF Commit, At, Jump, Goto, Resume, locals, BackedInv, EmptyHanded, Typed, TypeOK, LocalTypes, FileTypes
    <3> QED
      BY <2>37, <3>1, <3>2, <3>3, <3>4, <3>5, <3>6, BackedStep


  <2>38. ASSUME NEW p \in Sessions, Close(p) PROVE BackedInv'
    <3>0. cur[p] \in Runs
      BY <2>38 DEF Close, At, Typed, TypeOK, LocalTypes
    <3>a. \A rec \in RunRecord : \A s \in Closed : ~ (ClosedAs(rec, s).status = "accepted")
      BY DEF ClosedAs, RunRecord, Closed
    <3>b. own[p] \in RunRecord /\ ClosingStatus(intent[p]) \in Closed
      BY DEF ClosingStatus, Closed, Typed, TypeOK, LocalTypes
    <3>c. ClosedAs(own[p], ClosingStatus(intent[p])).status # "accepted"
      BY <3>a, <3>b
    <3>1. Accumulates /\ FrozenDelivered'
      BY <2>38, <3>0 DEF Close, At, Jump, Goto, files, Accumulates, BackedInv, FrozenDelivered
    <3>2. \A q \in Sessions : q # p => pc'[q] = pc[q] /\ cur'[q] = cur[q] /\ own'[q] = own[q]
      BY <2>38, <3>0 DEF Close, At, Jump, Goto, locals, Typed, TypeOK, LocalTypes, FileTypes
    <3>3. \A r \in Workbench : run'[r] = run[r] \/ Backed(run[r], r)'
      <4>1. \A r \in Runs : run'[r] = run[r] \/ (r = cur[p] /\ run'[r] = ClosedAs(own[p], ClosingStatus(intent[p])))
        BY <2>38, <3>0 DEF Close, Typed, TypeOK, FileTypes
      <4> QED
        BY <3>c, <4>1 DEF Backed, Workbench
    <3>4. cur'[p] \in Workbench => Backed(own[p], cur[p])'
      <4>1. cur' = cur /\ decision' = decision /\ marked' = marked
        BY <2>38 DEF Close, Jump, locals
      <4>2. own'[p] = own[p] \/ own'[p] = ClosedAs(own[p], ClosingStatus(intent[p]))
        BY <2>38 DEF Close, Jump, locals, Typed, TypeOK, LocalTypes
      <4> QED
        BY <3>0, <3>c, <4>1, <4>2 DEF Backed, BackedInv, OwnBacked
    <3>5. pc'[p] = "accept" => marked'[cur'[p]]
      BY <2>38, <3>0 DEF Close, At, Jump, Goto, files, locals, Typed, TypeOK, LocalTypes, FileTypes
    <3>6. pc'[p] \in {"off", "find", "load"} => own'[p] = NoRun
      BY <2>38, <3>0 DEF Close, At, Jump, Goto, locals, BackedInv, EmptyHanded, Typed, TypeOK, LocalTypes, FileTypes
    <3> QED
      BY <2>38, <3>1, <3>2, <3>3, <3>4, <3>5, <3>6, BackedStep


  <2>39. ASSUME NEW r \in Runs, Reclaim(r) PROVE BackedInv'
    BY <2>39 DEF Reclaim, BackedInv, RunsBacked, OwnBacked, FrozenDelivered, MarkedFirst, EmptyHanded, Backed, files, locals

  <2>40. ASSUME NEW r \in Runs, Change(r) PROVE BackedInv'
    BY <2>40 DEF Change, BackedInv, RunsBacked, OwnBacked, FrozenDelivered, MarkedFirst, EmptyHanded, Backed, files, locals

  <2>41. CASE UNCHANGED vars
    BY <2>41 DEF vars, BackedInv, RunsBacked, OwnBacked, FrozenDelivered, MarkedFirst, EmptyHanded, Backed, files, locals

  <2> QED
    BY <2>1, <2>2, <2>3, <2>4, <2>5, <2>6, <2>7, <2>8, <2>9, <2>10, <2>11, <2>12, <2>13, <2>14, <2>15, <2>16, <2>17, <2>18, <2>19, <2>20, <2>21, <2>22, <2>23, <2>24, <2>25, <2>26, <2>27, <2>28, <2>29, <2>30, <2>31, <2>32, <2>33, <2>34, <2>35, <2>36, <2>37, <2>38, <2>39, <2>40, <2>41 DEF Next, Run, User
<1> QED
  BY <1>1, <1>2, Typing, PTL DEF Spec

(* Every workbench acceptance rests on an immutable decision receipt and on a
   marked artifact, whatever crashes, failed writes, edits of the deliverable
   and racing sessions there are: completeAcceptedTaskModeDelivery. *)
THEOREM AcceptanceBacked == Spec => []AcceptedIsBacked
<1>1. BackedInv => AcceptedIsBacked
  BY DEF BackedInv, RunsBacked, FrozenDelivered, Backed, Workbench, AcceptedIsBacked
<1> QED
  BY <1>1, Backing, PTL
-----------------------------------------------------------------------------
(* Type correctness by itself. *)
THEOREM TypeCorrect == Spec => []TypeOK
<1>1. Typed => TypeOK
  BY DEF Typed
<1> QED
  BY <1>1, Typing, PTL

-----------------------------------------------------------------------------
(* Memory.  A session that adds lessons has added all that are not left to do,
   unless one of them failed. *)
Known(r) == Candidates[r] \subseteq memory

RunsKnown == \A r \in Runs : run[r].memory_commit = "committed" => Known(r)

OwnKnown ==
  \A p \in Sessions : cur[p] \in Runs /\ own[p].memory_commit = "committed" => Known(cur[p])

LearnProgress ==
  \A p \in Sessions :
    /\ pc[p] = "learn" /\ ~failed[p] => Candidates[cur[p]] \ todo[p] \subseteq memory
    /\ pc[p] = "commit" => Known(cur[p])

MemoryInv == RunsKnown /\ OwnKnown /\ LearnProgress

(* A step of session p keeps the invariant if memory only grows and what p
   recorded as committed is known. *)
LEMMA MemoryStep ==
  ASSUME Typed, MemoryInv, Typed', NEW p \in Sessions,
         memory \subseteq memory',
         \A q \in Sessions : q # p =>
           /\ pc'[q] = pc[q] /\ cur'[q] = cur[q] /\ own'[q] = own[q]
           /\ todo'[q] = todo[q] /\ failed'[q] = failed[q],
         \A r \in Runs : run'[r] = run[r] \/ (run'[r].memory_commit = "committed" => Known(r)'),
         cur'[p] \in Runs /\ own'[p].memory_commit = "committed" => Known(cur[p])',
         pc'[p] = "learn" /\ ~failed'[p] => Candidates[cur'[p]] \ todo'[p] \subseteq memory',
         pc'[p] = "commit" => Known(cur[p])'
  PROVE  MemoryInv'
<1>1. RunsKnown'
  BY DEF MemoryInv, RunsKnown, Known
<1>2. OwnKnown'
  BY DEF MemoryInv, OwnKnown, Known
<1>3. LearnProgress'
  BY DEF MemoryInv, LearnProgress, Known
<1> QED
  BY <1>1, <1>2, <1>3 DEF MemoryInv

(* A step that touches neither runs nor memory, and either ends the session
   or moves it to a control point other than the two that add lessons. *)
Idle(p) ==
  /\ UNCHANGED <<run, memory>>
  /\ \/ Forget(p)
     \/ /\ UNCHANGED <<own, cur, todo, failed>>
        /\ \E l \in Labels \ {"learn", "commit"} : Goto(p, l)

(* An idle step of a session keeps the memory invariant. *)
LEMMA IdleStep ==
  ASSUME Typed, MemoryInv, Typed', NEW p \in Sessions, Idle(p)
  PROVE  MemoryInv'
<1>1. memory \subseteq memory' /\ \A r \in Runs : run'[r] = run[r]
  BY DEF Idle
<1>2. \A q \in Sessions : q # p =>
        /\ pc'[q] = pc[q] /\ cur'[q] = cur[q] /\ own'[q] = own[q]
        /\ todo'[q] = todo[q] /\ failed'[q] = failed[q]
  BY DEF Idle, Forget, Goto, Typed, TypeOK, LocalTypes
<1>3. pc'[p] \notin {"learn", "commit"}
  BY DEF Idle, Forget, Goto, Typed, TypeOK, LocalTypes
<1>4. cur'[p] \in Runs /\ own'[p].memory_commit = "committed" => Known(cur[p])'
  <2>1. CASE Forget(p)
    BY <2>1 DEF Forget, NoRun, Typed, TypeOK, LocalTypes
  <2>2. CASE UNCHANGED <<own, cur>>
    BY <2>2 DEF Idle, MemoryInv, OwnKnown, Known
  <2> QED
    BY <2>1, <2>2 DEF Idle
<1> QED
  BY <1>1, <1>2, <1>3, <1>4, MemoryStep

(* A run recorded as committed lost no lesson, whatever dies or fails:
   commitAcceptedTaskMemory marks the batch only after all of it is stored. *)
THEOREM CommitsAreComplete == Spec => []CommittedIsLearned
<1>1. Init => MemoryInv
  BY DEF Init, MemoryInv, RunsKnown, OwnKnown, LearnProgress, NoRun
<1>2. Typed /\ BackedInv /\ MemoryInv /\ [Next]_vars /\ Typed' => MemoryInv'
  <2> SUFFICES ASSUME Typed, BackedInv, MemoryInv, [Next]_vars, Typed' PROVE MemoryInv'
    OBVIOUS

  <2>1. ASSUME NEW p \in Sessions, Start(p) PROVE MemoryInv'
    <3>1. Idle(p)
      BY <2>1 DEF Idle, Labels, Start, Jump, locals, files
    <3> QED
      BY <2>1, <3>1, IdleStep

  <2>2. ASSUME NEW p \in Sessions, FindBlocked(p) PROVE MemoryInv'
    <3>1. Idle(p)
      BY <2>2 DEF Idle, Labels, FindBlocked, files
    <3> QED
      BY <2>2, <3>1, IdleStep

  <2>3. ASSUME NEW p \in Sessions, Receipt(p) PROVE MemoryInv'
    <3>1. Idle(p)
      BY <2>3 DEF Idle, Labels, Receipt, Jump, locals
    <3> QED
      BY <2>3, <3>1, IdleStep

  <2>4. ASSUME NEW p \in Sessions, Bind(p) PROVE MemoryInv'
    <3>1. Idle(p)
      BY <2>4 DEF Idle, Labels, Bind, Jump, locals, files
    <3> QED
      BY <2>4, <3>1, IdleStep

  <2>5. ASSUME NEW p \in Sessions, Decided(p) PROVE MemoryInv'
    <3>1. Idle(p)
      BY <2>5 DEF Idle, Labels, Decided, Jump, Intend, locals, files
    <3> QED
      BY <2>5, <3>1, IdleStep

  <2>6. ASSUME NEW p \in Sessions, Verify(p) PROVE MemoryInv'
    <3>1. Idle(p)
      BY <2>6 DEF Idle, Labels, Verify, Jump, Intend, locals, files
    <3> QED
      BY <2>6, <3>1, IdleStep

  <2>7. ASSUME NEW p \in Sessions, Answer(p) PROVE MemoryInv'
    <3>1. Idle(p)
      BY <2>7 DEF Idle, Labels, Answer, Intend, files
    <3> QED
      BY <2>7, <3>1, IdleStep

  <2>8. ASSUME NEW p \in Sessions, Delete(p) PROVE MemoryInv'
    <3>1. Idle(p)
      BY <2>8 DEF Idle, Labels, Delete, Intend
    <3> QED
      BY <2>8, <3>1, IdleStep

  <2>9. ASSUME NEW p \in Sessions, Lock(p) PROVE MemoryInv'
    <3>1. Idle(p)
      BY <2>9 DEF Idle, Labels, Lock, Jump, locals, files
    <3> QED
      BY <2>9, <3>1, IdleStep

  <2>10. ASSUME NEW p \in Sessions, LockTimeout(p) PROVE MemoryInv'
    <3>1. Idle(p)
      BY <2>10 DEF Idle, Labels, LockTimeout, files
    <3> QED
      BY <2>10, <3>1, IdleStep

  <2>11. ASSUME NEW p \in Sessions, Unlock(p) PROVE MemoryInv'
    <3>1. Idle(p)
      BY <2>11 DEF Idle, Labels, Unlock, files
    <3> QED
      BY <2>11, <3>1, IdleStep

  <2>12. ASSUME NEW p \in Sessions, Repending(p) PROVE MemoryInv'
    <3>1. Idle(p)
      BY <2>12 DEF Idle, Labels, Repending, Jump, locals, files
    <3> QED
      BY <2>12, <3>1, IdleStep

  <2>13. ASSUME NEW p \in Sessions, Rebind(p) PROVE MemoryInv'
    <3>1. Idle(p)
      BY <2>13 DEF Idle, Labels, Rebind, Jump, Intend, locals, files
    <3> QED
      BY <2>13, <3>1, IdleStep

  <2>14. ASSUME NEW p \in Sessions, Decide(p) PROVE MemoryInv'
    <3>1. Idle(p)
      BY <2>14 DEF Idle, Labels, Decide, Jump, locals
    <3> QED
      BY <2>14, <3>1, IdleStep

  <2>15. ASSUME NEW p \in Sessions, Settle(p) PROVE MemoryInv'
    <3>1. Idle(p)
      BY <2>15 DEF Idle, Labels, Settle, Jump, locals, files
    <3> QED
      BY <2>15, <3>1, IdleStep

  <2>16. ASSUME NEW p \in Sessions, Pack(p) PROVE MemoryInv'
    <3>1. Idle(p)
      BY <2>16 DEF Idle, Labels, Pack, GiveUp, Jump, Intend, locals
    <3> QED
      BY <2>16, <3>1, IdleStep

  <2>17. ASSUME NEW p \in Sessions, Unpack(p) PROVE MemoryInv'
    <3>1. Idle(p)
      BY <2>17 DEF Idle, Labels, Unpack, Jump, locals
    <3> QED
      BY <2>17, <3>1, IdleStep

  <2>18. ASSUME NEW p \in Sessions, Mark(p) PROVE MemoryInv'
    <3>1. Idle(p)
      BY <2>18 DEF Idle, Labels, Mark, Jump, locals
    <3> QED
      BY <2>18, <3>1, IdleStep

  <2>19. ASSUME NEW p \in Sessions, Remove(p) PROVE MemoryInv'
    <3>1. Idle(p)
      BY <2>19 DEF Idle, Labels, Remove, Jump, locals
    <3> QED
      BY <2>19, <3>1, IdleStep

  <2>20. ASSUME NEW p \in Sessions, Verdict(p) PROVE MemoryInv'
    <3>1. Idle(p)
      BY <2>20 DEF Idle, Labels, Verdict, Jump, locals, files
    <3> QED
      BY <2>20, <3>1, IdleStep

  <2>21. ASSUME NEW p \in Sessions, ClosePack(p) PROVE MemoryInv'
    <3>1. Idle(p)
      BY <2>21 DEF Idle, Labels, ClosePack, Jump, locals
    <3> QED
      BY <2>21, <3>1, IdleStep

  <2>22. ASSUME NEW p \in Sessions, ClosePending(p) PROVE MemoryInv'
    <3>1. Idle(p)
      BY <2>22 DEF Idle, Labels, ClosePending, Jump, locals
    <3> QED
      BY <2>22, <3>1, IdleStep

  <2>23. ASSUME NEW p \in Sessions, Crash(p) PROVE MemoryInv'
    <3>1. Idle(p)
      BY <2>23 DEF Idle, Labels, Crash, files
    <3> QED
      BY <2>23, <3>1, IdleStep

  <2>24. ASSUME NEW p \in Sessions, StartCli(p) PROVE MemoryInv'
    <3>0. cur[p] \in Runs \/ pc[p] \in {"off", "find"}
      BY DEF Typed, TypeOK, LocalTypes
    <3>1. memory \subseteq memory'
      BY <2>24 DEF StartCli, Draw, Goto, Outcome, files
    <3>2. \A q \in Sessions : q # p =>
            /\ pc'[q] = pc[q] /\ cur'[q] = cur[q] /\ own'[q] = own[q]
            /\ todo'[q] = todo[q] /\ failed'[q] = failed[q]
      BY <2>24 DEF StartCli, Draw, Goto, Outcome, files, locals, Typed, TypeOK, LocalTypes, FileTypes
    <3>3. \A r \in Runs : run'[r] = run[r] \/ (run'[r].memory_commit = "committed" => Known(r)')
      BY <2>24, <3>0 DEF StartCli, Draw, Goto, Outcome, files, At, Known, MemoryInv, RunsKnown, OwnKnown, Typed, TypeOK, LocalTypes, FileTypes
    <3>4. cur'[p] \in Runs /\ own'[p].memory_commit = "committed" => Known(cur[p])'
      BY <2>24, <3>0 DEF StartCli, Draw, Goto, Outcome, files, locals, At, Known, NoRun, BackedInv, EmptyHanded, MemoryInv, RunsKnown, OwnKnown, Typed, TypeOK, LocalTypes, FileTypes
    <3>5. pc'[p] = "learn" /\ ~failed'[p] => Candidates[cur'[p]] \ todo'[p] \subseteq memory'
      BY <2>24, <3>0 DEF StartCli, Draw, Goto, Outcome, files, locals, At, Known, MemoryInv, LearnProgress, Typed, TypeOK, LocalTypes, FileTypes
    <3>6. pc'[p] = "commit" => Known(cur[p])'
      BY <2>24, <3>0 DEF StartCli, Draw, Goto, Outcome, files, locals, At, Known, MemoryInv, LearnProgress, Typed, TypeOK, LocalTypes, FileTypes
    <3> QED
      BY <2>24, <3>1, <3>2, <3>3, <3>4, <3>5, <3>6, MemoryStep

  <2>25. ASSUME NEW p \in Sessions, FindNone(p) PROVE MemoryInv'
    <3>0. cur[p] \in Runs \/ pc[p] \in {"off", "find"}
      BY DEF Typed, TypeOK, LocalTypes
    <3>1. memory \subseteq memory'
      BY <2>25 DEF FindNone, Draw, Goto, Outcome, files
    <3>2. \A q \in Sessions : q # p =>
            /\ pc'[q] = pc[q] /\ cur'[q] = cur[q] /\ own'[q] = own[q]
            /\ todo'[q] = todo[q] /\ failed'[q] = failed[q]
      BY <2>25 DEF FindNone, Draw, Goto, Outcome, files, locals, Typed, TypeOK, LocalTypes, FileTypes
    <3>3. \A r \in Runs : run'[r] = run[r] \/ (run'[r].memory_commit = "committed" => Known(r)')
      BY <2>25, <3>0 DEF FindNone, Draw, Goto, Outcome, files, At, Known, MemoryInv, RunsKnown, OwnKnown, Typed, TypeOK, LocalTypes, FileTypes
    <3>4. cur'[p] \in Runs /\ own'[p].memory_commit = "committed" => Known(cur[p])'
      BY <2>25, <3>0 DEF FindNone, Draw, Goto, Outcome, files, locals, At, Known, NoRun, BackedInv, EmptyHanded, MemoryInv, RunsKnown, OwnKnown, Typed, TypeOK, LocalTypes, FileTypes
    <3>5. pc'[p] = "learn" /\ ~failed'[p] => Candidates[cur'[p]] \ todo'[p] \subseteq memory'
      BY <2>25, <3>0 DEF FindNone, Draw, Goto, Outcome, files, locals, At, Known, MemoryInv, LearnProgress, Typed, TypeOK, LocalTypes, FileTypes
    <3>6. pc'[p] = "commit" => Known(cur[p])'
      BY <2>25, <3>0 DEF FindNone, Draw, Goto, Outcome, files, locals, At, Known, MemoryInv, LearnProgress, Typed, TypeOK, LocalTypes, FileTypes
    <3> QED
      BY <2>25, <3>1, <3>2, <3>3, <3>4, <3>5, <3>6, MemoryStep

  <2>26. ASSUME NEW p \in Sessions, FindOne(p) PROVE MemoryInv'
    <3>0. cur[p] \in Runs \/ pc[p] \in {"off", "find"}
      BY DEF Typed, TypeOK, LocalTypes
    <3>1. memory \subseteq memory'
      BY <2>26 DEF FindOne, Goto, files
    <3>2. \A q \in Sessions : q # p =>
            /\ pc'[q] = pc[q] /\ cur'[q] = cur[q] /\ own'[q] = own[q]
            /\ todo'[q] = todo[q] /\ failed'[q] = failed[q]
      BY <2>26 DEF FindOne, Goto, files, locals, Typed, TypeOK, LocalTypes, FileTypes
    <3>3. \A r \in Runs : run'[r] = run[r] \/ (run'[r].memory_commit = "committed" => Known(r)')
      BY <2>26, <3>0 DEF FindOne, Goto, files, At, Known, MemoryInv, RunsKnown, OwnKnown, Typed, TypeOK, LocalTypes, FileTypes
    <3>4. cur'[p] \in Runs /\ own'[p].memory_commit = "committed" => Known(cur[p])'
      BY <2>26, <3>0 DEF FindOne, Goto, files, locals, At, Known, NoRun, BackedInv, EmptyHanded, MemoryInv, RunsKnown, OwnKnown, Typed, TypeOK, LocalTypes, FileTypes
    <3>5. pc'[p] = "learn" /\ ~failed'[p] => Candidates[cur'[p]] \ todo'[p] \subseteq memory'
      BY <2>26, <3>0 DEF FindOne, Goto, files, locals, At, Known, MemoryInv, LearnProgress, Typed, TypeOK, LocalTypes, FileTypes
    <3>6. pc'[p] = "commit" => Known(cur[p])'
      BY <2>26, <3>0 DEF FindOne, Goto, files, locals, At, Known, MemoryInv, LearnProgress, Typed, TypeOK, LocalTypes, FileTypes
    <3> QED
      BY <2>26, <3>1, <3>2, <3>3, <3>4, <3>5, <3>6, MemoryStep

  <2>27. ASSUME NEW p \in Sessions, Create(p) PROVE MemoryInv'
    <3>0. cur[p] \in Runs \/ pc[p] \in {"off", "find"}
      BY DEF Typed, TypeOK, LocalTypes
    <3>1. memory \subseteq memory'
      BY <2>27 DEF Create, SaveOwn, Jump, Goto, files
    <3>2. \A q \in Sessions : q # p =>
            /\ pc'[q] = pc[q] /\ cur'[q] = cur[q] /\ own'[q] = own[q]
            /\ todo'[q] = todo[q] /\ failed'[q] = failed[q]
      BY <2>27 DEF Create, SaveOwn, Jump, Goto, files, locals, Typed, TypeOK, LocalTypes, FileTypes
    <3>3. \A r \in Runs : run'[r] = run[r] \/ (run'[r].memory_commit = "committed" => Known(r)')
      BY <2>27, <3>0 DEF Create, SaveOwn, Jump, Goto, files, At, Known, MemoryInv, RunsKnown, OwnKnown, Typed, TypeOK, LocalTypes, FileTypes
    <3>4. cur'[p] \in Runs /\ own'[p].memory_commit = "committed" => Known(cur[p])'
      BY <2>27, <3>0 DEF Create, SaveOwn, Jump, Goto, files, locals, At, Known, NoRun, BackedInv, EmptyHanded, MemoryInv, RunsKnown, OwnKnown, Typed, TypeOK, LocalTypes, FileTypes
    <3>5. pc'[p] = "learn" /\ ~failed'[p] => Candidates[cur'[p]] \ todo'[p] \subseteq memory'
      BY <2>27, <3>0 DEF Create, SaveOwn, Jump, Goto, files, locals, At, Known, MemoryInv, LearnProgress, Typed, TypeOK, LocalTypes, FileTypes
    <3>6. pc'[p] = "commit" => Known(cur[p])'
      BY <2>27, <3>0 DEF Create, SaveOwn, Jump, Goto, files, locals, At, Known, MemoryInv, LearnProgress, Typed, TypeOK, LocalTypes, FileTypes
    <3> QED
      BY <2>27, <3>1, <3>2, <3>3, <3>4, <3>5, <3>6, MemoryStep

  <2>28. ASSUME NEW p \in Sessions, Final(p) PROVE MemoryInv'
    <3>0. cur[p] \in Runs \/ pc[p] \in {"off", "find"}
      BY DEF Typed, TypeOK, LocalTypes
    <3>1. memory \subseteq memory'
      BY <2>28 DEF Final, SaveOwn, Jump, Goto, Forget, files
    <3>2. \A q \in Sessions : q # p =>
            /\ pc'[q] = pc[q] /\ cur'[q] = cur[q] /\ own'[q] = own[q]
            /\ todo'[q] = todo[q] /\ failed'[q] = failed[q]
      BY <2>28 DEF Final, SaveOwn, Jump, Goto, Forget, files, locals, Typed, TypeOK, LocalTypes, FileTypes
    <3>3. \A r \in Runs : run'[r] = run[r] \/ (run'[r].memory_commit = "committed" => Known(r)')
      BY <2>28, <3>0 DEF Final, SaveOwn, Jump, Goto, Forget, files, At, Known, MemoryInv, RunsKnown, OwnKnown, Typed, TypeOK, LocalTypes, FileTypes
    <3>4. cur'[p] \in Runs /\ own'[p].memory_commit = "committed" => Known(cur[p])'
      BY <2>28, <3>0 DEF Final, SaveOwn, Jump, Goto, Forget, files, locals, At, Known, NoRun, BackedInv, EmptyHanded, MemoryInv, RunsKnown, OwnKnown, Typed, TypeOK, LocalTypes, FileTypes
    <3>5. pc'[p] = "learn" /\ ~failed'[p] => Candidates[cur'[p]] \ todo'[p] \subseteq memory'
      BY <2>28, <3>0 DEF Final, SaveOwn, Jump, Goto, Forget, files, locals, At, Known, MemoryInv, LearnProgress, Typed, TypeOK, LocalTypes, FileTypes
    <3>6. pc'[p] = "commit" => Known(cur[p])'
      BY <2>28, <3>0 DEF Final, SaveOwn, Jump, Goto, Forget, files, locals, At, Known, MemoryInv, LearnProgress, Typed, TypeOK, LocalTypes, FileTypes
    <3> QED
      BY <2>28, <3>1, <3>2, <3>3, <3>4, <3>5, <3>6, MemoryStep

  <2>29. ASSUME NEW p \in Sessions, Abort(p) PROVE MemoryInv'
    <3>0. cur[p] \in Runs \/ pc[p] \in {"off", "find"}
      BY DEF Typed, TypeOK, LocalTypes
    <3> DEFINE rec == ClosedAs(own[p], "failed")
    <3>a. rec.memory_commit # "committed"
      BY DEF ClosedAs, RunRecord, Typed, TypeOK, LocalTypes
    <3> HIDE DEF rec
    <3>1. memory \subseteq memory'
      BY <2>29 DEF Abort, Forget, files
    <3>2. \A q \in Sessions : q # p =>
            /\ pc'[q] = pc[q] /\ cur'[q] = cur[q] /\ own'[q] = own[q]
            /\ todo'[q] = todo[q] /\ failed'[q] = failed[q]
      BY <2>29 DEF Abort, Forget, files, locals, Typed, TypeOK, LocalTypes, FileTypes
    <3>3. \A r \in Runs : run'[r] = run[r] \/ (run'[r].memory_commit = "committed" => Known(r)')
      <4>1. \A r \in Runs : run'[r] = run[r] \/ (r = cur[p] /\ run'[r] = rec)
        BY <2>29, <3>0 DEF Abort, rec, At, Typed, TypeOK, FileTypes
      <4>2. memory' = memory
        BY <2>29 DEF Abort, files
      <4> QED
        BY <2>29, <3>0, <3>a, <4>1, <4>2 DEF Abort, At, Known, MemoryInv, RunsKnown, OwnKnown, LearnProgress
    <3>4. cur'[p] \in Runs /\ own'[p].memory_commit = "committed" => Known(cur[p])'
      BY <2>29, <3>0 DEF Abort, Forget, files, locals, At, Known, NoRun, BackedInv, EmptyHanded, MemoryInv, RunsKnown, OwnKnown, Typed, TypeOK, LocalTypes, FileTypes
    <3>5. pc'[p] = "learn" /\ ~failed'[p] => Candidates[cur'[p]] \ todo'[p] \subseteq memory'
      BY <2>29, <3>0 DEF Abort, Forget, files, locals, At, Known, MemoryInv, LearnProgress, Typed, TypeOK, LocalTypes, FileTypes
    <3>6. pc'[p] = "commit" => Known(cur[p])'
      BY <2>29, <3>0 DEF Abort, Forget, files, locals, At, Known, MemoryInv, LearnProgress, Typed, TypeOK, LocalTypes, FileTypes
    <3> QED
      BY <2>29, <3>1, <3>2, <3>3, <3>4, <3>5, <3>6, MemoryStep

  <2>30. ASSUME NEW p \in Sessions, Note(p) PROVE MemoryInv'
    <3>0. cur[p] \in Runs \/ pc[p] \in {"off", "find"}
      BY DEF Typed, TypeOK, LocalTypes
    <3> DEFINE rec == [own[p] EXCEPT !.pending_approval = TRUE]
    <3>a. rec.memory_commit = own[p].memory_commit
      BY DEF RunRecord, Typed, TypeOK, LocalTypes
    <3> HIDE DEF rec
    <3>1. memory \subseteq memory'
      BY <2>30 DEF Note, Goto, files
    <3>2. \A q \in Sessions : q # p =>
            /\ pc'[q] = pc[q] /\ cur'[q] = cur[q] /\ own'[q] = own[q]
            /\ todo'[q] = todo[q] /\ failed'[q] = failed[q]
      BY <2>30 DEF Note, Goto, files, locals, Typed, TypeOK, LocalTypes, FileTypes
    <3>3. \A r \in Runs : run'[r] = run[r] \/ (run'[r].memory_commit = "committed" => Known(r)')
      <4>1. \A r \in Runs : run'[r] = run[r] \/ (r = cur[p] /\ run'[r] = rec)
        BY <2>30, <3>0 DEF Note, rec, At, Typed, TypeOK, FileTypes
      <4>2. memory' = memory
        BY <2>30 DEF Note, files
      <4> QED
        BY <2>30, <3>0, <3>a, <4>1, <4>2 DEF Note, At, Known, MemoryInv, RunsKnown, OwnKnown, LearnProgress
    <3>4. cur'[p] \in Runs /\ own'[p].memory_commit = "committed" => Known(cur[p])'
      <4>1. cur' = cur
        BY <2>30 DEF Note, Jump, locals
      <4>2. own'[p] = own[p] \/ own'[p] = rec
        BY <2>30 DEF Note, rec, Jump, locals, Typed, TypeOK, LocalTypes
      <4>3. memory' = memory
        BY <2>30 DEF Note, files
      <4> QED
        BY <3>a, <4>1, <4>2, <4>3 DEF Known, MemoryInv, OwnKnown
    <3>5. pc'[p] = "learn" /\ ~failed'[p] => Candidates[cur'[p]] \ todo'[p] \subseteq memory'
      BY <2>30, <3>0 DEF Note, Goto, files, locals, At, Known, MemoryInv, LearnProgress, Typed, TypeOK, LocalTypes, FileTypes
    <3>6. pc'[p] = "commit" => Known(cur[p])'
      BY <2>30, <3>0 DEF Note, Goto, files, locals, At, Known, MemoryInv, LearnProgress, Typed, TypeOK, LocalTypes, FileTypes
    <3> QED
      BY <2>30, <3>1, <3>2, <3>3, <3>4, <3>5, <3>6, MemoryStep

  <2>31. ASSUME NEW p \in Sessions, Load(p) PROVE MemoryInv'
    <3>0. cur[p] \in Runs \/ pc[p] \in {"off", "find"}
      BY DEF Typed, TypeOK, LocalTypes
    <3>1. memory \subseteq memory'
      BY <2>31 DEF Load, Goto, Forget, files
    <3>2. \A q \in Sessions : q # p =>
            /\ pc'[q] = pc[q] /\ cur'[q] = cur[q] /\ own'[q] = own[q]
            /\ todo'[q] = todo[q] /\ failed'[q] = failed[q]
      BY <2>31 DEF Load, Goto, Forget, files, locals, Typed, TypeOK, LocalTypes, FileTypes
    <3>3. \A r \in Runs : run'[r] = run[r] \/ (run'[r].memory_commit = "committed" => Known(r)')
      BY <2>31, <3>0 DEF Load, Goto, Forget, files, At, Known, MemoryInv, RunsKnown, OwnKnown, Typed, TypeOK, LocalTypes, FileTypes
    <3>4. cur'[p] \in Runs /\ own'[p].memory_commit = "committed" => Known(cur[p])'
      BY <2>31, <3>0 DEF Load, Goto, Forget, files, locals, At, Known, NoRun, BackedInv, EmptyHanded, MemoryInv, RunsKnown, OwnKnown, Typed, TypeOK, LocalTypes, FileTypes
    <3>5. pc'[p] = "learn" /\ ~failed'[p] => Candidates[cur'[p]] \ todo'[p] \subseteq memory'
      BY <2>31, <3>0 DEF Load, Goto, Forget, files, locals, At, Known, MemoryInv, LearnProgress, Typed, TypeOK, LocalTypes, FileTypes
    <3>6. pc'[p] = "commit" => Known(cur[p])'
      BY <2>31, <3>0 DEF Load, Goto, Forget, files, locals, At, Known, MemoryInv, LearnProgress, Typed, TypeOK, LocalTypes, FileTypes
    <3> QED
      BY <2>31, <3>1, <3>2, <3>3, <3>4, <3>5, <3>6, MemoryStep

  <2>32. ASSUME NEW p \in Sessions, Reload(p) PROVE MemoryInv'
    <3>0. cur[p] \in Runs \/ pc[p] \in {"off", "find"}
      BY DEF Typed, TypeOK, LocalTypes
    <3>1. memory \subseteq memory'
      BY <2>32 DEF Reload, Goto, files
    <3>2. \A q \in Sessions : q # p =>
            /\ pc'[q] = pc[q] /\ cur'[q] = cur[q] /\ own'[q] = own[q]
            /\ todo'[q] = todo[q] /\ failed'[q] = failed[q]
      BY <2>32 DEF Reload, Goto, files, locals, Typed, TypeOK, LocalTypes, FileTypes
    <3>3. \A r \in Runs : run'[r] = run[r] \/ (run'[r].memory_commit = "committed" => Known(r)')
      BY <2>32, <3>0 DEF Reload, Goto, files, At, Known, MemoryInv, RunsKnown, OwnKnown, Typed, TypeOK, LocalTypes, FileTypes
    <3>4. cur'[p] \in Runs /\ own'[p].memory_commit = "committed" => Known(cur[p])'
      BY <2>32, <3>0 DEF Reload, Goto, files, locals, At, Known, NoRun, BackedInv, EmptyHanded, MemoryInv, RunsKnown, OwnKnown, Typed, TypeOK, LocalTypes, FileTypes
    <3>5. pc'[p] = "learn" /\ ~failed'[p] => Candidates[cur'[p]] \ todo'[p] \subseteq memory'
      BY <2>32, <3>0 DEF Reload, Goto, files, locals, At, Known, MemoryInv, LearnProgress, Typed, TypeOK, LocalTypes, FileTypes
    <3>6. pc'[p] = "commit" => Known(cur[p])'
      BY <2>32, <3>0 DEF Reload, Goto, files, locals, At, Known, MemoryInv, LearnProgress, Typed, TypeOK, LocalTypes, FileTypes
    <3> QED
      BY <2>32, <3>1, <3>2, <3>3, <3>4, <3>5, <3>6, MemoryStep

  <2>33. ASSUME NEW p \in Sessions, After(p) PROVE MemoryInv'
    <3>0. cur[p] \in Runs \/ pc[p] \in {"off", "find"}
      BY DEF Typed, TypeOK, LocalTypes
    <3>1. memory \subseteq memory'
      BY <2>33 DEF After, Remember, GiveUp, Jump, Intend, Goto, files
    <3>2. \A q \in Sessions : q # p =>
            /\ pc'[q] = pc[q] /\ cur'[q] = cur[q] /\ own'[q] = own[q]
            /\ todo'[q] = todo[q] /\ failed'[q] = failed[q]
      BY <2>33 DEF After, Remember, GiveUp, Jump, Intend, Goto, files, locals, Typed, TypeOK, LocalTypes, FileTypes
    <3>3. \A r \in Runs : run'[r] = run[r] \/ (run'[r].memory_commit = "committed" => Known(r)')
      BY <2>33, <3>0 DEF After, Remember, GiveUp, Jump, Intend, Goto, files, At, Known, MemoryInv, RunsKnown, OwnKnown, Typed, TypeOK, LocalTypes, FileTypes
    <3>4. cur'[p] \in Runs /\ own'[p].memory_commit = "committed" => Known(cur[p])'
      BY <2>33, <3>0 DEF After, Remember, GiveUp, Jump, Intend, Goto, files, locals, At, Known, NoRun, BackedInv, EmptyHanded, MemoryInv, RunsKnown, OwnKnown, Typed, TypeOK, LocalTypes, FileTypes
    <3>5. pc'[p] = "learn" /\ ~failed'[p] => Candidates[cur'[p]] \ todo'[p] \subseteq memory'
      BY <2>33, <3>0 DEF After, Remember, GiveUp, Jump, Intend, Goto, files, locals, At, Known, MemoryInv, LearnProgress, Typed, TypeOK, LocalTypes, FileTypes
    <3>6. pc'[p] = "commit" => Known(cur[p])'
      BY <2>33, <3>0 DEF After, Remember, GiveUp, Jump, Intend, Goto, files, locals, At, Known, MemoryInv, LearnProgress, Typed, TypeOK, LocalTypes, FileTypes
    <3> QED
      BY <2>33, <3>1, <3>2, <3>3, <3>4, <3>5, <3>6, MemoryStep

  <2>34. ASSUME NEW p \in Sessions, Accept(p) PROVE MemoryInv'
    <3>0. cur[p] \in Runs \/ pc[p] \in {"off", "find"}
      BY DEF Typed, TypeOK, LocalTypes
    <3> DEFINE rec == AcceptedFrom(own[p], decision[cur[p]])
    <3>a. rec.memory_commit # "committed"
      <4>1. cur[p] \in Runs /\ decision[cur[p]] # None
        BY <2>34, <3>0 DEF Accept, At, DecisionHeld, Deciding, Typed
      <4>2. decision[cur[p]].frozen.memory_commit = "staged"
        BY <4>1 DEF BackedInv, FrozenDelivered, Freezable
      <4>3. rec.memory_commit = decision[cur[p]].frozen.memory_commit
        BY DEF AcceptedFrom, RunRecord, Typed, TypeOK, LocalTypes
      <4> QED
        BY <4>2, <4>3
    <3> HIDE DEF rec
    <3>1. memory \subseteq memory'
      BY <2>34 DEF Accept, Jump, Goto, files
    <3>2. \A q \in Sessions : q # p =>
            /\ pc'[q] = pc[q] /\ cur'[q] = cur[q] /\ own'[q] = own[q]
            /\ todo'[q] = todo[q] /\ failed'[q] = failed[q]
      BY <2>34 DEF Accept, Jump, Goto, files, locals, Typed, TypeOK, LocalTypes, FileTypes
    <3>3. \A r \in Runs : run'[r] = run[r] \/ (run'[r].memory_commit = "committed" => Known(r)')
      <4>1. \A r \in Runs : run'[r] = run[r] \/ (r = cur[p] /\ run'[r] = rec)
        BY <2>34, <3>0 DEF Accept, rec, At, Typed, TypeOK, FileTypes
      <4>2. memory' = memory
        BY <2>34 DEF Accept, files
      <4> QED
        BY <2>34, <3>0, <3>a, <4>1, <4>2 DEF Accept, At, Known, MemoryInv, RunsKnown, OwnKnown, LearnProgress
    <3>4. cur'[p] \in Runs /\ own'[p].memory_commit = "committed" => Known(cur[p])'
      <4>1. cur' = cur
        BY <2>34 DEF Accept, Jump, locals
      <4>2. own'[p] = own[p] \/ own'[p] = rec
        BY <2>34 DEF Accept, rec, Jump, locals, Typed, TypeOK, LocalTypes
      <4>3. memory' = memory
        BY <2>34 DEF Accept, files
      <4> QED
        BY <3>a, <4>1, <4>2, <4>3 DEF Known, MemoryInv, OwnKnown
    <3>5. pc'[p] = "learn" /\ ~failed'[p] => Candidates[cur'[p]] \ todo'[p] \subseteq memory'
      BY <2>34, <3>0 DEF Accept, Jump, Goto, files, locals, At, Known, MemoryInv, LearnProgress, Typed, TypeOK, LocalTypes, FileTypes
    <3>6. pc'[p] = "commit" => Known(cur[p])'
      BY <2>34, <3>0 DEF Accept, Jump, Goto, files, locals, At, Known, MemoryInv, LearnProgress, Typed, TypeOK, LocalTypes, FileTypes
    <3> QED
      BY <2>34, <3>1, <3>2, <3>3, <3>4, <3>5, <3>6, MemoryStep

  <2>35. ASSUME NEW p \in Sessions, Learn(p) PROVE MemoryInv'
    <3>0. cur[p] \in Runs \/ pc[p] \in {"off", "find"}
      BY DEF Typed, TypeOK, LocalTypes
    <3>1. memory \subseteq memory'
      BY <2>35 DEF Learn, files
    <3>2. \A q \in Sessions : q # p =>
            /\ pc'[q] = pc[q] /\ cur'[q] = cur[q] /\ own'[q] = own[q]
            /\ todo'[q] = todo[q] /\ failed'[q] = failed[q]
      BY <2>35 DEF Learn, files, locals, Typed, TypeOK, LocalTypes, FileTypes
    <3>3. \A r \in Runs : run'[r] = run[r] \/ (run'[r].memory_commit = "committed" => Known(r)')
      BY <2>35, <3>0 DEF Learn, files, At, Known, MemoryInv, RunsKnown, OwnKnown, Typed, TypeOK, LocalTypes, FileTypes
    <3>4. cur'[p] \in Runs /\ own'[p].memory_commit = "committed" => Known(cur[p])'
      BY <2>35, <3>0 DEF Learn, files, locals, At, Known, NoRun, BackedInv, EmptyHanded, MemoryInv, RunsKnown, OwnKnown, Typed, TypeOK, LocalTypes, FileTypes
    <3>5. pc'[p] = "learn" /\ ~failed'[p] => Candidates[cur'[p]] \ todo'[p] \subseteq memory'
      BY <2>35, <3>0 DEF Learn, files, locals, At, Known, MemoryInv, LearnProgress, Typed, TypeOK, LocalTypes, FileTypes
    <3>6. pc'[p] = "commit" => Known(cur[p])'
      BY <2>35, <3>0 DEF Learn, files, locals, At, Known, MemoryInv, LearnProgress, Typed, TypeOK, LocalTypes, FileTypes
    <3> QED
      BY <2>35, <3>1, <3>2, <3>3, <3>4, <3>5, <3>6, MemoryStep

  <2>36. ASSUME NEW p \in Sessions, Learned(p) PROVE MemoryInv'
    <3>0. cur[p] \in Runs \/ pc[p] \in {"off", "find"}
      BY DEF Typed, TypeOK, LocalTypes
    <3>1. memory \subseteq memory'
      BY <2>36 DEF Learned, Jump, Goto, Resume, files
    <3>2. \A q \in Sessions : q # p =>
            /\ pc'[q] = pc[q] /\ cur'[q] = cur[q] /\ own'[q] = own[q]
            /\ todo'[q] = todo[q] /\ failed'[q] = failed[q]
      BY <2>36 DEF Learned, Jump, Goto, Resume, files, locals, Typed, TypeOK, LocalTypes, FileTypes
    <3>3. \A r \in Runs : run'[r] = run[r] \/ (run'[r].memory_commit = "committed" => Known(r)')
      BY <2>36, <3>0 DEF Learned, Jump, Goto, Resume, files, At, Known, MemoryInv, RunsKnown, OwnKnown, Typed, TypeOK, LocalTypes, FileTypes
    <3>4. cur'[p] \in Runs /\ own'[p].memory_commit = "committed" => Known(cur[p])'
      BY <2>36, <3>0 DEF Learned, Jump, Goto, Resume, files, locals, At, Known, NoRun, BackedInv, EmptyHanded, MemoryInv, RunsKnown, OwnKnown, Typed, TypeOK, LocalTypes, FileTypes
    <3>5. pc'[p] = "learn" /\ ~failed'[p] => Candidates[cur'[p]] \ todo'[p] \subseteq memory'
      BY <2>36, <3>0 DEF Learned, Jump, Goto, Resume, files, locals, At, Known, MemoryInv, LearnProgress, Typed, TypeOK, LocalTypes, FileTypes
    <3>6. pc'[p] = "commit" => Known(cur[p])'
      BY <2>36, <3>0 DEF Learned, Jump, Goto, Resume, files, locals, At, Known, MemoryInv, LearnProgress, Typed, TypeOK, LocalTypes, FileTypes
    <3> QED
      BY <2>36, <3>1, <3>2, <3>3, <3>4, <3>5, <3>6, MemoryStep

  <2>37. ASSUME NEW p \in Sessions, Commit(p) PROVE MemoryInv'
    <3>0. cur[p] \in Runs \/ pc[p] \in {"off", "find"}
      BY DEF Typed, TypeOK, LocalTypes
    <3> DEFINE rec == [own[p] EXCEPT !.memory_commit = "committed"]
    <3>a. Known(cur[p])
      BY <2>37 DEF Commit, At, MemoryInv, LearnProgress
    <3> HIDE DEF rec
    <3>1. memory \subseteq memory'
      BY <2>37 DEF Commit, Jump, Goto, Resume, files
    <3>2. \A q \in Sessions : q # p =>
            /\ pc'[q] = pc[q] /\ cur'[q] = cur[q] /\ own'[q] = own[q]
            /\ todo'[q] = todo[q] /\ failed'[q] = failed[q]
      BY <2>37 DEF Commit, Jump, Goto, Resume, files, locals, Typed, TypeOK, LocalTypes, FileTypes
    <3>3. \A r \in Runs : run'[r] = run[r] \/ (run'[r].memory_commit = "committed" => Known(r)')
      <4>1. \A r \in Runs : run'[r] = run[r] \/ (r = cur[p] /\ run'[r] = rec)
        BY <2>37, <3>0 DEF Commit, rec, At, Typed, TypeOK, FileTypes
      <4>2. memory' = memory
        BY <2>37 DEF Commit, files
      <4> QED
        BY <2>37, <3>0, <3>a, <4>1, <4>2 DEF Commit, At, Known, MemoryInv, RunsKnown, OwnKnown, LearnProgress
    <3>4. cur'[p] \in Runs /\ own'[p].memory_commit = "committed" => Known(cur[p])'
      <4>1. cur' = cur
        BY <2>37 DEF Commit, Jump, locals
      <4>2. own'[p] = own[p] \/ own'[p] = rec
        BY <2>37 DEF Commit, rec, Jump, locals, Typed, TypeOK, LocalTypes
      <4>3. memory' = memory
        BY <2>37 DEF Commit, files
      <4> QED
        BY <3>a, <4>1, <4>2, <4>3 DEF Known, MemoryInv, OwnKnown
    <3>5. pc'[p] = "learn" /\ ~failed'[p] => Candidates[cur'[p]] \ todo'[p] \subseteq memory'
      BY <2>37, <3>0 DEF Commit, Jump, Goto, Resume, files, locals, At, Known, MemoryInv, LearnProgress, Typed, TypeOK, LocalTypes, FileTypes
    <3>6. pc'[p] = "commit" => Known(cur[p])'
      BY <2>37, <3>0 DEF Commit, Jump, Goto, Resume, files, locals, At, Known, MemoryInv, LearnProgress, Typed, TypeOK, LocalTypes, FileTypes
    <3> QED
      BY <2>37, <3>1, <3>2, <3>3, <3>4, <3>5, <3>6, MemoryStep

  <2>38. ASSUME NEW p \in Sessions, Close(p) PROVE MemoryInv'
    <3>0. cur[p] \in Runs \/ pc[p] \in {"off", "find"}
      BY DEF Typed, TypeOK, LocalTypes
    <3> DEFINE rec == ClosedAs(own[p], ClosingStatus(intent[p]))
    <3>a. rec.memory_commit # "committed"
      BY DEF ClosedAs, RunRecord, Typed, TypeOK, LocalTypes
    <3> HIDE DEF rec
    <3>1. memory \subseteq memory'
      BY <2>38 DEF Close, Jump, Goto, files
    <3>2. \A q \in Sessions : q # p =>
            /\ pc'[q] = pc[q] /\ cur'[q] = cur[q] /\ own'[q] = own[q]
            /\ todo'[q] = todo[q] /\ failed'[q] = failed[q]
      BY <2>38 DEF Close, Jump, Goto, files, locals, Typed, TypeOK, LocalTypes, FileTypes
    <3>3. \A r \in Runs : run'[r] = run[r] \/ (run'[r].memory_commit = "committed" => Known(r)')
      <4>1. \A r \in Runs : run'[r] = run[r] \/ (r = cur[p] /\ run'[r] = rec)
        BY <2>38, <3>0 DEF Close, rec, At, Typed, TypeOK, FileTypes
      <4>2. memory' = memory
        BY <2>38 DEF Close, files
      <4> QED
        BY <2>38, <3>0, <3>a, <4>1, <4>2 DEF Close, At, Known, MemoryInv, RunsKnown, OwnKnown, LearnProgress
    <3>4. cur'[p] \in Runs /\ own'[p].memory_commit = "committed" => Known(cur[p])'
      <4>1. cur' = cur
        BY <2>38 DEF Close, Jump, locals
      <4>2. own'[p] = own[p] \/ own'[p] = rec
        BY <2>38 DEF Close, rec, Jump, locals, Typed, TypeOK, LocalTypes
      <4>3. memory' = memory
        BY <2>38 DEF Close, files
      <4> QED
        BY <3>a, <4>1, <4>2, <4>3 DEF Known, MemoryInv, OwnKnown
    <3>5. pc'[p] = "learn" /\ ~failed'[p] => Candidates[cur'[p]] \ todo'[p] \subseteq memory'
      BY <2>38, <3>0 DEF Close, Jump, Goto, files, locals, At, Known, MemoryInv, LearnProgress, Typed, TypeOK, LocalTypes, FileTypes
    <3>6. pc'[p] = "commit" => Known(cur[p])'
      BY <2>38, <3>0 DEF Close, Jump, Goto, files, locals, At, Known, MemoryInv, LearnProgress, Typed, TypeOK, LocalTypes, FileTypes
    <3> QED
      BY <2>38, <3>1, <3>2, <3>3, <3>4, <3>5, <3>6, MemoryStep

  <2>39. ASSUME NEW r \in Runs, Reclaim(r) PROVE MemoryInv'
    BY <2>39 DEF Reclaim, MemoryInv, RunsKnown, OwnKnown, LearnProgress, Known, files, locals

  <2>40. ASSUME NEW r \in Runs, Change(r) PROVE MemoryInv'
    BY <2>40 DEF Change, MemoryInv, RunsKnown, OwnKnown, LearnProgress, Known, files, locals

  <2>41. CASE UNCHANGED vars
    BY <2>41 DEF vars, MemoryInv, RunsKnown, OwnKnown, LearnProgress, Known, files, locals

  <2> QED
    BY <2>1, <2>2, <2>3, <2>4, <2>5, <2>6, <2>7, <2>8, <2>9, <2>10, <2>11, <2>12, <2>13, <2>14, <2>15, <2>16, <2>17, <2>18, <2>19, <2>20, <2>21, <2>22, <2>23, <2>24, <2>25, <2>26, <2>27, <2>28, <2>29, <2>30, <2>31, <2>32, <2>33, <2>34, <2>35, <2>36, <2>37, <2>38, <2>39, <2>40, <2>41 DEF Next, Run, User
<1>3. MemoryInv => CommittedIsLearned
  BY DEF MemoryInv, RunsKnown, Known, CommittedIsLearned
<1> QED
  BY <1>1, <1>2, <1>3, Backing, PTL DEF Spec

-----------------------------------------------------------------------------
(* Verdicts.  A run has one writer at a time: its creator, until the receipt
   is noted, then the holder of the lock, whose copy is the one on disk.  The
   only other writer is a session that found the deliverable changed, and it
   fails the run. *)

Away == {"off", "find"}

(* The control points of a run's creator, before anybody else can find it. *)
Making == {"create", "final", "receipt", "note", "abort"}

(* Those under the lock, once the run has been read again, *)
Working ==
  {"repending", "rebind", "decide", "settle", "pack", "after", "unpack", "mark",
   "accept", "learn", "commit", "remove", "verdict"}

(* and those that a session reaches with the lock, or from a changed
   deliverable without it. *)
Ending == {"close", "closePack", "closePending", "unlock"}

Maker(p) == pc[p] \in Making \/ (cur[p] \in CliRuns /\ pc[p] \in {"learn", "commit"})

Holds(p) == lock[cur[p]] = p

Same(p) ==
  \/ own[p] = run[cur[p]]
  \/ cur[p] \in Volatile /\ run[cur[p]].status = "failed"

Rogue(p) == cur[p] \in Volatile /\ intent[p] = "fail"

(* A creator is alone with its run. *)
Sole ==
  \A p, q \in Sessions :
    p # q /\ Maker(p) /\ pc[q] \notin Away => cur[q] # cur[p]

(* What a creator knows of its run. *)
Makes(p) ==
  Maker(p) =>
    /\ run[cur[p]] \in {NoRun, own[p]}
    /\ own[p].status # "absent"
    /\ decision[cur[p]] = None
    /\ cur[p] \notin Volatile => told[cur[p]] = {}
    /\ pending[cur[p]] => pc[p] \in {"note", "abort"}
    /\ pc[p] \in {"learn", "commit"} => run[cur[p]] = own[p]

(* What a session that settles knows: it holds the lock and the copy on disk,
   and a refusal met no decision. *)
Locks(p) ==
  /\ pc[p] = "reload" => Holds(p)
  /\ pc[p] \in Working /\ cur[p] \notin CliRuns => Holds(p) /\ Same(p)
  /\ pc[p] \in Ending => (Holds(p) /\ Same(p)) \/ Rogue(p)
  /\ pc[p] = "close" => intent[p] = "fail" \/ decision[cur[p]] = None

(* What its control point says of its copy. *)
Stands(p) ==
  /\ pc[p] \in {"receipt", "note", "abort", "verify", "verdict", "close", "unpack",
                "mark", "accept"} => own[p].status = "delivered"
  /\ pc[p] \in {"learn", "commit", "remove"} => own[p].status = "accepted"
  /\ pc[p] \in {"closePack", "closePending"} => own[p].status \in Closed
  /\ pc[p] = "unpack" => intent[p] = "fail"
  /\ pc[p] = "learn" => todo[p] \subseteq Candidates[cur[p]]
  /\ pc[p] \notin Away => file[cur[p]] # "none"
  /\ pc[p] \notin Away /\ cur[p] \in CliRuns => pc[p] \in {"create", "final", "learn", "commit"}

(* What the files say of each other and of what was told. *)
Keeps(r) ==
  /\ run[r].status = "absent" => decision[r] = None /\ (r \notin Volatile => told[r] = {})
  /\ pending[r] => file[r] # "none" /\ r \notin CliRuns
  /\ r \notin Volatile => file[r] # "changed"

Tells(r) ==
  r \notin Volatile =>
    /\ "accepted" \in told[r] => run[r].status = "accepted"
    /\ "rejected" \in told[r] => run[r].status \in Closed

VerdictInv ==
  /\ Sole
  /\ \A p \in Sessions : Makes(p) /\ Locks(p) /\ Stands(p)
  /\ \A r \in Runs : Keeps(r) /\ Tells(r)

(* A run that taught the employee something: it is accepted, or was failed for
   a changed deliverable, and no session is about to write an older copy. *)
Sound(r) ==
  /\ run[r].status = "accepted" \/ (r \in Volatile /\ run[r].status = "failed")
  /\ \A p \in Sessions :
       /\ cur[p] = r
       /\ pc[p] \in Working \/ (pc[p] = "close" /\ intent[p] # "fail")
       => own[p].status \in {"accepted", "failed"}

Taught == \A m \in memory : \E r \in Runs : m \in Candidates[r] /\ Sound(r)

(* The other sessions keep their local variables; *)
Others(p) ==
  \A q \in Sessions : q # p =>
    /\ pc'[q] = pc[q] /\ cur'[q] = cur[q] /\ own'[q] = own[q]
    /\ intent'[q] = intent[q] /\ todo'[q] = todo[q]

(* a lock that another session holds stays, and a deliverable stays there. *)
Leaves(p) ==
  /\ \A r \in Runs : lock[r] \in Sessions \ {p} => lock'[r] = lock[r]
  /\ \A r \in Runs : file[r] # "none" => file'[r] # "none"

(* The step leaves everything written about run r. *)
Untouched(r) ==
  run'[r] = run[r] /\ pending'[r] = pending[r] /\ decision'[r] = decision[r] /\ told'[r] = told[r]

(* A run that p writes has no creator but p, and whoever settles it without
   being p sees it failed. *)
Spares(p) ==
  \A q \in Sessions : q # p /\ pc[q] \notin Away =>
    /\ Maker(q) => Untouched(cur[q])
    /\ \/ Untouched(cur[q])
       \/ Holds(p) /\ cur[q] = cur[p]
       \/ /\ decision'[cur[q]] = decision[cur[q]]
          /\ \/ run'[cur[q]] = run[cur[q]]
             \/ cur[q] \in Volatile /\ run'[cur[q]].status = "failed"

(* A session goes on with its run, goes away, takes a run that nobody has, or
   joins a run that has no creator. *)
Joins(p) ==
  \/ pc'[p] \in Away
  \/ pc[p] \notin Away /\ cur'[p] = cur[p] /\ (Maker(p)' => Maker(p))
  \/ \A q \in Sessions : q # p /\ pc[q] \notin Away => cur[q] # cur'[p]
  \/ ~Maker(p)' /\ \A q \in Sessions : q # p /\ Maker(q) => cur[q] # cur'[p]

(* A creator stays alone with its run through a step of p that leaves the others. *)
LEMMA SoleStep ==
  ASSUME Sole, NEW p \in Sessions, Others(p), Joins(p)
  PROVE  Sole'
<1> SUFFICES ASSUME NEW a \in Sessions, NEW b \in Sessions,
                    a # b, Maker(a)', pc'[b] \notin Away
             PROVE  cur'[b] # cur'[a]
  BY DEF Sole
<1>0. Maker(a)' => pc'[a] \notin Away
  BY DEF Maker, Making, Away
<1>1. CASE a # p /\ b # p
  BY <1>1 DEF Sole, Others, Maker
<1>2. CASE a = p
  BY <1>0, <1>2 DEF Sole, Others, Joins
<1>3. CASE b = p
  <2>1. Maker(a) /\ pc[a] \notin Away /\ cur'[a] = cur[a]
    BY <1>0, <1>3 DEF Others, Maker
  <2> QED
    BY <1>3, <2>1 DEF Sole, Joins
<1> QED
  BY <1>1, <1>2, <1>3

(* What the other sessions know stays true. *)
LEMMA OthersKnow ==
  ASSUME Typed, VerdictInv, NEW p \in Sessions, Others(p), Leaves(p), Spares(p),
         NEW q \in Sessions, q # p
  PROVE  Makes(q)' /\ Locks(q)' /\ Stands(q)'
<1>0. /\ Makes(q) /\ Locks(q) /\ Stands(q)
      /\ pc'[q] = pc[q] /\ cur'[q] = cur[q] /\ own'[q] = own[q]
      /\ intent'[q] = intent[q] /\ todo'[q] = todo[q]
      /\ pc[q] \notin Away => cur[q] \in Runs
  BY DEF VerdictInv, Others, Typed, TypeOK, LocalTypes, Away
<1>1. Makes(q)'
  <2>1. Maker(q)' => Maker(q) /\ pc[q] \notin Away
    BY <1>0 DEF Maker, Making, Away
  <2>2. Maker(q)' => Untouched(cur[q])
    BY <2>1 DEF Spares
  <2> QED
    BY <1>0, <2>1, <2>2 DEF Makes, Untouched
<1>2. Locks(q)'
  <2>1. Holds(q) /\ pc[q] \notin Away => Holds(q)'
    BY <1>0 DEF Holds, Leaves
  <2>2. Holds(q) /\ Same(q) /\ pc[q] \notin Away => Same(q)'
    <3>1. Holds(q) => ~(Holds(p) /\ cur[q] = cur[p])
      BY DEF Holds
    <3> QED
      BY <1>0, <3>1 DEF Same, Spares, Untouched
  <2>3. pc'[q] = "close" => intent'[q] = "fail" \/ decision'[cur'[q]] = None
    <3>1. Holds(q) => ~(Holds(p) /\ cur[q] = cur[p])
      BY DEF Holds
    <3> QED
      BY <1>0, <3>1 DEF Locks, Ending, Away, Rogue, Spares, Untouched
  <2> QED
    BY <1>0, <2>1, <2>2, <2>3 DEF Locks, Working, Ending, Away, Rogue
<1>3. Stands(q)'
  BY <1>0 DEF Stands, Leaves
<1> QED
  BY <1>1, <1>2, <1>3

(* A step of p keeps the verdict invariant when it spares the others' runs and
   p itself and the runs stand as the invariant wants them. *)
LEMMA VerdictStep ==
  ASSUME Typed, VerdictInv, NEW p \in Sessions,
         Others(p), Leaves(p), Spares(p), Joins(p),
         Makes(p)', Locks(p)', Stands(p)',
         \A r \in Runs : Keeps(r)' /\ Tells(r)'
  PROVE  VerdictInv'
<1>1. Sole'
  BY SoleStep DEF VerdictInv
<1>2. \A q \in Sessions : Makes(q)' /\ Locks(q)' /\ Stands(q)'
  BY OthersKnow
<1> QED
  BY <1>1, <1>2 DEF VerdictInv

(* A session that goes away knows nothing. *)
LEMMA Gone ==
  ASSUME NEW p \in Sessions, pc'[p] \in Away
  PROVE  Makes(p)' /\ Locks(p)' /\ Stands(p)' /\ Joins(p)
  BY DEF Away, Makes, Maker, Making, Locks, Working, Ending, Stands, Joins

(* A step that writes no run, receipt or decision and tells nothing. *)
Silent == UNCHANGED <<run, pending, decision, told>>

(* A silent step keeps the verdict invariant when it spoils no kept deliverable. *)
LEMMA SilentStep ==
  ASSUME Typed, VerdictInv, Typed', NEW p \in Sessions, Silent, Others(p), Leaves(p), Joins(p),
         \A r \in Runs \ Volatile : file'[r] = "changed" => file[r] = "changed",
         Makes(p)', Locks(p)', Stands(p)'
  PROVE  VerdictInv'
<1>1. Spares(p)
  BY DEF Spares, Silent, Untouched
<1>2. \A r \in Runs : Keeps(r)' /\ Tells(r)'
  BY DEF VerdictInv, Silent, Keeps, Tells, Leaves
<1> QED
  BY <1>1, <1>2, VerdictStep

(* A session past its search that writes its own run. *)
LEMMA OwnRun ==
  ASSUME Typed, VerdictInv, NEW p \in Sessions, pc[p] \notin Away,
         \A r \in Runs : r # cur[p] => Untouched(r),
         \/ Maker(p)
         \/ Holds(p)
         \/ /\ decision' = decision
            /\ run' = run \/ (cur[p] \in Volatile /\ run'[cur[p]].status = "failed")
  PROVE  Spares(p)
<1> SUFFICES ASSUME NEW q \in Sessions, q # p, pc[q] \notin Away
             PROVE  /\ Maker(q) => Untouched(cur[q])
                    /\ \/ Untouched(cur[q])
                       \/ Holds(p) /\ cur[q] = cur[p]
                       \/ /\ decision'[cur[q]] = decision[cur[q]]
                          /\ \/ run'[cur[q]] = run[cur[q]]
                             \/ cur[q] \in Volatile /\ run'[cur[q]].status = "failed"
  BY DEF Spares
<1>0. cur[q] \in Runs
  BY DEF Typed, TypeOK, LocalTypes, Away
<1>1. CASE cur[q] # cur[p]
  BY <1>0, <1>1
<1>2. CASE cur[q] = cur[p]
  <2>1. ~Maker(q) /\ ~Maker(p)
    BY <1>2 DEF VerdictInv, Sole
  <2> QED
    BY <1>2, <2>1
<1> QED
  BY <1>1, <1>2

(* A run as first saved has the status the completion gate gave it. *)
LEMMA OutcomeStatus ==
  ASSUME NEW s
  PROVE  Outcome(s).status = s
  BY DEF Outcome

(* So has a run that is accepted or closed, and a note leaves it. *)
LEMMA Statuses ==
  ASSUME NEW rec \in RunRecord, NEW d, NEW s
  PROVE  /\ AcceptedFrom(rec, d).status = "accepted"
         /\ ClosedAs(rec, s).status = s
         /\ [rec EXCEPT !.memory_commit = "committed"].status = rec.status
         /\ [rec EXCEPT !.pending_approval = TRUE].status = rec.status
  BY DEF RunRecord, AcceptedFrom, ClosedAs

(* A refusal is stored as what it means for the run. *)
LEMMA Closes ==
  /\ ClosingStatus("fail") = "failed"
  /\ \A i : ClosingStatus(i) \in Closed
  BY DEF ClosingStatus, Closed

(* Every step keeps what the sessions know of their runs. *)
LEMMA VerdictsStay ==
  ASSUME PromptCreator, Typed, Typed', VerdictInv, [Next]_vars
  PROVE  VerdictInv'
<1>1. ASSUME NEW p \in Sessions, Start(p) PROVE VerdictInv'
  <2>0. /\ Makes(p) /\ Locks(p) /\ Stands(p)
        /\ cur[p] \in Runs \/ pc[p] \in Away
    BY DEF VerdictInv, Typed, TypeOK, LocalTypes, Away
  <2>1. Silent /\ Others(p)
    BY <1>1 DEF Start, Jump, Goto, files, locals, Silent, Others
  <2>2. Leaves(p) /\ \A r \in Runs \ Volatile : file'[r] = "changed" => file[r] = "changed"
    BY <1>1 DEF Start, files, Leaves
  <2>3. Joins(p)
    BY <1>1 DEF Start, At, Jump, Goto, Joins, Away
  <2>4. Makes(p)'
    BY <1>1 DEF Start, At, Jump, Goto, Makes, Maker, Making
  <2>5. Locks(p)'
    BY <1>1 DEF Start, At, Jump, Goto, Locks, Working, Ending
  <2>6. Stands(p)'
    BY <1>1 DEF Start, At, Jump, Goto, Stands, Away
  <2> QED
    BY <2>1, <2>2, <2>3, <2>4, <2>5, <2>6, SilentStep

<1>2. ASSUME NEW p \in Sessions, StartCli(p) PROVE VerdictInv'
  <2>0. /\ Makes(p) /\ Locks(p) /\ Stands(p)
        /\ cur[p] \in Runs \/ pc[p] \in Away
    BY DEF VerdictInv, Typed, TypeOK, LocalTypes, Away
  <2>1. Silent /\ Others(p)
    BY <1>2 DEF StartCli, Draw, Goto, Silent, Others
  <2>2. Leaves(p) /\ \A r \in Runs \ Volatile : file'[r] = "changed" => file[r] = "changed"
    BY <1>2 DEF StartCli, Draw, Leaves
  <2>3. Joins(p)
    BY <1>2 DEF StartCli, Draw, Fresh, Joins, Stands, VerdictInv, Typed, TypeOK, LocalTypes
  <2>4. Makes(p)'
    BY <1>2, OutcomeStatus
       DEF StartCli, Draw, Fresh, Goto, Makes, Typed, TypeOK, LocalTypes, VerdictInv, Keeps,
           NoRun, Open, Closed
  <2>5. Locks(p)'
    BY <1>2 DEF StartCli, Draw, Goto, Locks, Ending, Typed, TypeOK, LocalTypes
  <2>6. Stands(p)'
    BY <1>2 DEF StartCli, Draw, Goto, Stands, Typed, TypeOK, LocalTypes, FileTypes
  <2> QED
    BY <2>1, <2>2, <2>3, <2>4, <2>5, <2>6, SilentStep

<1>3. ASSUME NEW p \in Sessions, FindNone(p) PROVE VerdictInv'
  <2>0. /\ Makes(p) /\ Locks(p) /\ Stands(p)
        /\ cur[p] \in Runs \/ pc[p] \in Away
    BY DEF VerdictInv, Typed, TypeOK, LocalTypes, Away
  <2>1. Silent /\ Others(p)
    BY <1>3 DEF FindNone, Draw, Goto, Silent, Others
  <2>2. Leaves(p) /\ \A r \in Runs \ Volatile : file'[r] = "changed" => file[r] = "changed"
    BY <1>3 DEF FindNone, Draw, Leaves
  <2>3. Joins(p)
    BY <1>3 DEF FindNone, Draw, Fresh, Joins, Away, Typed, TypeOK, LocalTypes
  <2>4. Makes(p)'
    BY <1>3, OutcomeStatus
       DEF FindNone, Draw, Fresh, Goto, Makes, Typed, TypeOK, LocalTypes, VerdictInv, Keeps,
           NoRun, Open
  <2>5. Locks(p)'
    BY <1>3 DEF FindNone, At, Draw, Goto, Locks, Working, Ending
  <2>6. Stands(p)'
    BY <1>3 DEF FindNone, Draw, Goto, Stands, Typed, TypeOK, LocalTypes, FileTypes
  <2> QED
    BY <2>1, <2>2, <2>3, <2>4, <2>5, <2>6, SilentStep

<1>4. ASSUME NEW p \in Sessions, FindOne(p) PROVE VerdictInv'
  <2>0. /\ Makes(p) /\ Locks(p) /\ Stands(p)
        /\ cur[p] \in Runs \/ pc[p] \in Away
    BY DEF VerdictInv, Typed, TypeOK, LocalTypes, Away
  <2>1. Silent /\ Others(p)
    BY <1>4 DEF FindOne, Goto, files, Silent, Others
  <2>2. Leaves(p) /\ \A r \in Runs \ Volatile : file'[r] = "changed" => file[r] = "changed"
    BY <1>4 DEF FindOne, files, Leaves
  <2>3. Joins(p)
    BY <1>4
       DEF FindOne, Goto, Receipts, Joins, Maker, Making, VerdictInv, Typed, TypeOK,
           LocalTypes, Makes
  <2>4. Makes(p)'
    BY <1>4 DEF FindOne, At, Goto, Makes, Maker, Making
  <2>5. Locks(p)'
    BY <1>4 DEF FindOne, At, Goto, Locks, Working, Ending
  <2>6. Stands(p)'
    BY <1>4
       DEF FindOne, Goto, Receipts, files, Stands, Typed, TypeOK, LocalTypes, VerdictInv,
           Keeps
  <2> QED
    BY <2>1, <2>2, <2>3, <2>4, <2>5, <2>6, SilentStep

<1>5. ASSUME NEW p \in Sessions, FindBlocked(p) PROVE VerdictInv'
  <2>0. /\ Makes(p) /\ Locks(p) /\ Stands(p)
        /\ cur[p] \in Runs \/ pc[p] \in Away
    BY DEF VerdictInv, Typed, TypeOK, LocalTypes, Away
  <2>1. Silent /\ Others(p)
    BY <1>5 DEF FindBlocked, Forget, files, Silent, Others
  <2>2. Leaves(p) /\ \A r \in Runs \ Volatile : file'[r] = "changed" => file[r] = "changed"
    BY <1>5 DEF FindBlocked, files, Leaves
  <2>3. Joins(p)
    BY <1>5 DEF FindBlocked, At, Forget, Joins, Away
  <2>4. Makes(p)'
    BY <1>5 DEF FindBlocked, At, Forget, Makes, Maker, Making
  <2>5. Locks(p)'
    BY <1>5 DEF FindBlocked, At, Forget, Locks, Working, Ending
  <2>6. Stands(p)'
    BY <1>5 DEF FindBlocked, At, Forget, Stands, Away
  <2> QED
    BY <2>1, <2>2, <2>3, <2>4, <2>5, <2>6, SilentStep

<1>6. ASSUME NEW p \in Sessions, Load(p) PROVE VerdictInv'
  <2>0. /\ Makes(p) /\ Locks(p) /\ Stands(p)
        /\ cur[p] \in Runs \/ pc[p] \in Away
    BY DEF VerdictInv, Typed, TypeOK, LocalTypes, Away
  <2>1. Silent /\ Others(p)
    BY <1>6 DEF Load, Forget, Goto, files, Silent, Others, Typed, TypeOK, LocalTypes
  <2>2. Leaves(p) /\ \A r \in Runs \ Volatile : file'[r] = "changed" => file[r] = "changed"
    BY <1>6 DEF Load, files, Leaves
  <2>3. Joins(p)
    BY <1>6 DEF Load, At, Forget, Goto, Joins, Away, Maker, Making, Typed, TypeOK, LocalTypes
  <2>4. Makes(p)'
    BY <1>6 DEF Load, Forget, Goto, Makes, Maker, Making, Typed, TypeOK, LocalTypes
  <2>5. Locks(p)'
    BY <1>6 DEF Load, Forget, Goto, Locks, Working, Ending, Typed, TypeOK, LocalTypes
  <2>6. Stands(p)'
    BY <1>6, <2>0 DEF Load, At, Forget, Goto, files, Stands, Away, Typed, TypeOK, LocalTypes
  <2> QED
    BY <2>1, <2>2, <2>3, <2>4, <2>5, <2>6, SilentStep

<1>7. ASSUME NEW p \in Sessions, Bind(p) PROVE VerdictInv'
  <2>0. /\ Makes(p) /\ Locks(p) /\ Stands(p)
        /\ cur[p] \in Runs \/ pc[p] \in Away
    BY DEF VerdictInv, Typed, TypeOK, LocalTypes, Away
  <2>1. Silent /\ Others(p)
    BY <1>7
       DEF Bind, Jump, Goto, Forget, files, locals, Silent, Others, Typed, TypeOK,
           LocalTypes
  <2>2. Leaves(p) /\ \A r \in Runs \ Volatile : file'[r] = "changed" => file[r] = "changed"
    BY <1>7 DEF Bind, files, Leaves
  <2>3. Joins(p)
    BY <1>7
       DEF Bind, At, Jump, Goto, Forget, locals, Joins, Away, Maker, Making, Typed, TypeOK,
           LocalTypes
  <2>4. Makes(p)'
    BY <1>7 DEF Bind, Jump, Goto, Forget, Makes, Maker, Making, Typed, TypeOK, LocalTypes
  <2>5. Locks(p)'
    BY <1>7 DEF Bind, Jump, Goto, Forget, Locks, Working, Ending, Typed, TypeOK, LocalTypes
  <2>6. Stands(p)'
    BY <1>7, <2>0
       DEF Bind, At, Jump, Goto, Forget, files, locals, Stands, Away, Typed, TypeOK,
           LocalTypes
  <2> QED
    BY <2>1, <2>2, <2>3, <2>4, <2>5, <2>6, SilentStep

<1>8. ASSUME NEW p \in Sessions, Decided(p) PROVE VerdictInv'
  <2>0. /\ Makes(p) /\ Locks(p) /\ Stands(p)
        /\ cur[p] \in Runs \/ pc[p] \in Away
    BY DEF VerdictInv, Typed, TypeOK, LocalTypes, Away
  <2>1. Silent /\ Others(p)
    BY <1>8
       DEF Decided, Jump, Goto, Forget, Intend, files, locals, Silent, Others, Typed,
           TypeOK, LocalTypes
  <2>2. Leaves(p) /\ \A r \in Runs \ Volatile : file'[r] = "changed" => file[r] = "changed"
    BY <1>8 DEF Decided, files, Leaves
  <2>3. Joins(p)
    BY <1>8
       DEF Decided, At, Jump, Goto, Forget, Intend, locals, Joins, Away, Maker, Making,
           Typed, TypeOK, LocalTypes
  <2>4. Makes(p)'
    BY <1>8
       DEF Decided, Jump, Goto, Forget, Intend, Makes, Maker, Making, Typed, TypeOK,
           LocalTypes
  <2>5. Locks(p)'
    BY <1>8
       DEF Decided, Jump, Goto, Forget, Intend, Locks, Working, Ending, Typed, TypeOK,
           LocalTypes
  <2>6. Stands(p)'
    BY <1>8, <2>0
       DEF Decided, At, Jump, Goto, Forget, Intend, files, locals, Stands, Away, Typed,
           TypeOK, LocalTypes
  <2> QED
    BY <2>1, <2>2, <2>3, <2>4, <2>5, <2>6, SilentStep

<1>9. ASSUME NEW p \in Sessions, Verify(p) PROVE VerdictInv'
  <2>0. /\ Makes(p) /\ Locks(p) /\ Stands(p)
        /\ cur[p] \in Runs \/ pc[p] \in Away
    BY DEF VerdictInv, Typed, TypeOK, LocalTypes, Away
  <2>1. Silent /\ Others(p)
    BY <1>9
       DEF Verify, Jump, Goto, Intend, files, locals, Silent, Others, Typed, TypeOK,
           LocalTypes
  <2>2. Leaves(p) /\ \A r \in Runs \ Volatile : file'[r] = "changed" => file[r] = "changed"
    BY <1>9 DEF Verify, files, Leaves
  <2>3. Joins(p)
    BY <1>9
       DEF Verify, At, Jump, Goto, Intend, locals, Joins, Away, Maker, Making, Typed,
           TypeOK, LocalTypes
  <2>4. Makes(p)'
    BY <1>9 DEF Verify, Jump, Goto, Intend, Makes, Maker, Making, Typed, TypeOK, LocalTypes
  <2>5. Locks(p)'
    BY <1>9
       DEF Verify, At, Jump, Goto, Intend, Intact, Locks, Rogue, Working, Ending, Away,
           Stands, Typed, TypeOK, LocalTypes, FileTypes, VerdictInv, Keeps
  <2>6. Stands(p)'
    BY <1>9, <2>0
       DEF Verify, At, Jump, Goto, Intend, files, locals, Stands, Away, Typed, TypeOK,
           LocalTypes
  <2> QED
    BY <2>1, <2>2, <2>3, <2>4, <2>5, <2>6, SilentStep

<1>10. ASSUME NEW p \in Sessions, Answer(p) PROVE VerdictInv'
  <2>0. /\ Makes(p) /\ Locks(p) /\ Stands(p)
        /\ cur[p] \in Runs \/ pc[p] \in Away
    BY DEF VerdictInv, Typed, TypeOK, LocalTypes, Away
  <2>1. Silent /\ Others(p)
    BY <1>10 DEF Answer, Intend, Goto, files, Silent, Others
  <2>2. Leaves(p) /\ \A r \in Runs \ Volatile : file'[r] = "changed" => file[r] = "changed"
    BY <1>10 DEF Answer, files, Leaves
  <2>3. Joins(p)
    BY <1>10 DEF Answer, At, Intend, Goto, Joins, Away, Maker, Making
  <2>4. Makes(p)'
    BY <1>10 DEF Answer, At, Intend, Goto, Makes, Maker, Making
  <2>5. Locks(p)'
    BY <1>10 DEF Answer, At, Intend, Goto, Locks, Working, Ending
  <2>6. Stands(p)'
    BY <1>10, <2>0 DEF Answer, At, Intend, Goto, files, Stands, Away
  <2> QED
    BY <2>1, <2>2, <2>3, <2>4, <2>5, <2>6, SilentStep

<1>11. ASSUME NEW p \in Sessions, Delete(p) PROVE VerdictInv'
  <2>0. /\ Makes(p) /\ Locks(p) /\ Stands(p)
        /\ cur[p] \in Runs \/ pc[p] \in Away
    BY DEF VerdictInv, Typed, TypeOK, LocalTypes, Away
  <2>1. Silent /\ Others(p)
    BY <1>11 DEF Delete, Intend, Goto, Silent, Others
  <2>2. Leaves(p) /\ \A r \in Runs \ Volatile : file'[r] = "changed" => file[r] = "changed"
    BY <1>11 DEF Delete, Leaves
  <2>3. Joins(p)
    BY <1>11 DEF Delete, At, Intend, Goto, Joins, Away, Maker, Making
  <2>4. Makes(p)'
    BY <1>11 DEF Delete, At, Intend, Goto, Makes, Maker, Making
  <2>5. Locks(p)'
    BY <1>11 DEF Delete, At, Intend, Goto, Locks, Working, Ending
  <2>6. Stands(p)'
    BY <1>11, <2>0 DEF Delete, At, Intend, Goto, Stands, Away
  <2> QED
    BY <2>1, <2>2, <2>3, <2>4, <2>5, <2>6, SilentStep

<1>12. ASSUME NEW p \in Sessions, Lock(p) PROVE VerdictInv'
  <2>0. /\ Makes(p) /\ Locks(p) /\ Stands(p)
        /\ cur[p] \in Runs \/ pc[p] \in Away
    BY DEF VerdictInv, Typed, TypeOK, LocalTypes, Away
  <2>1. Silent /\ Others(p)
    BY <1>12 DEF Lock, Jump, Goto, files, locals, Silent, Others
  <2>2. Leaves(p) /\ \A r \in Runs \ Volatile : file'[r] = "changed" => file[r] = "changed"
    BY <1>12, SettlementAssumption DEF Lock, files, Leaves
  <2>3. Joins(p)
    BY <1>12 DEF Lock, At, Jump, Goto, locals, Joins, Away, Maker, Making
  <2>4. Makes(p)'
    BY <1>12 DEF Lock, At, Jump, Goto, Makes, Maker, Making
  <2>5. Locks(p)'
    BY <1>12
       DEF Lock, At, Jump, Goto, locals, Locks, Holds, Working, Ending, Typed, TypeOK,
           FileTypes
  <2>6. Stands(p)'
    BY <1>12, <2>0 DEF Lock, At, Jump, Goto, files, locals, Stands, Away
  <2> QED
    BY <2>1, <2>2, <2>3, <2>4, <2>5, <2>6, SilentStep

<1>13. ASSUME NEW p \in Sessions, LockTimeout(p) PROVE VerdictInv'
  <2>0. /\ Makes(p) /\ Locks(p) /\ Stands(p)
        /\ cur[p] \in Runs \/ pc[p] \in Away
    BY DEF VerdictInv, Typed, TypeOK, LocalTypes, Away
  <2>1. Silent /\ Others(p)
    BY <1>13 DEF LockTimeout, Forget, files, Silent, Others
  <2>2. Leaves(p) /\ \A r \in Runs \ Volatile : file'[r] = "changed" => file[r] = "changed"
    BY <1>13 DEF LockTimeout, files, Leaves
  <2>3. Joins(p)
    BY <1>13 DEF LockTimeout, Forget, Joins, Away, Typed, TypeOK, LocalTypes
  <2>4. Makes(p)'
    BY <1>13 DEF LockTimeout, At, Forget, Makes, Maker, Making
  <2>5. Locks(p)'
    BY <1>13 DEF LockTimeout, At, Forget, Locks, Working, Ending
  <2>6. Stands(p)'
    BY <1>13 DEF LockTimeout, Forget, Stands, Away, Typed, TypeOK, LocalTypes
  <2> QED
    BY <2>1, <2>2, <2>3, <2>4, <2>5, <2>6, SilentStep

<1>14. ASSUME NEW p \in Sessions, Unlock(p) PROVE VerdictInv'
  <2>0. /\ Makes(p) /\ Locks(p) /\ Stands(p)
        /\ cur[p] \in Runs \/ pc[p] \in Away
    BY DEF VerdictInv, Typed, TypeOK, LocalTypes, Away
  <2>1. Silent /\ Others(p)
    BY <1>14 DEF Unlock, Forget, files, Silent, Others
  <2>2. Leaves(p) /\ \A r \in Runs \ Volatile : file'[r] = "changed" => file[r] = "changed"
    BY <1>14 DEF Unlock, files, Leaves
  <2>3. Joins(p)
    BY <1>14 DEF Unlock, Forget, Joins, Away, Typed, TypeOK, LocalTypes
  <2>4. Makes(p)'
    BY <1>14 DEF Unlock, At, Forget, Makes, Maker, Making
  <2>5. Locks(p)'
    BY <1>14 DEF Unlock, Forget, Locks, Working, Ending, Typed, TypeOK, LocalTypes
  <2>6. Stands(p)'
    BY <1>14 DEF Unlock, Forget, Stands, Away, Typed, TypeOK, LocalTypes
  <2> QED
    BY <2>1, <2>2, <2>3, <2>4, <2>5, <2>6, SilentStep

<1>15. ASSUME NEW p \in Sessions, Reload(p) PROVE VerdictInv'
  <2>0. /\ Makes(p) /\ Locks(p) /\ Stands(p)
        /\ cur[p] \in Runs \/ pc[p] \in Away
    BY DEF VerdictInv, Typed, TypeOK, LocalTypes, Away
  <2>1. Silent /\ Others(p)
    BY <1>15 DEF Reload, Goto, files, Silent, Others
  <2>2. Leaves(p) /\ \A r \in Runs \ Volatile : file'[r] = "changed" => file[r] = "changed"
    BY <1>15 DEF Reload, files, Leaves
  <2>3. Joins(p)
    BY <1>15 DEF Reload, At, Goto, Joins, Away, Maker, Making
  <2>4. Makes(p)'
    BY <1>15 DEF Reload, At, Goto, Makes, Maker, Making
  <2>5. Locks(p)'
    BY <1>15, <2>0 DEF Reload, At, Goto, files, Locks, Holds, Same, Typed, TypeOK, LocalTypes
  <2>6. Stands(p)'
    BY <1>15, <2>0 DEF Reload, At, Goto, files, Stands, Away
  <2> QED
    BY <2>1, <2>2, <2>3, <2>4, <2>5, <2>6, SilentStep

<1>16. ASSUME NEW p \in Sessions, Repending(p) PROVE VerdictInv'
  <2>0. /\ Makes(p) /\ Locks(p) /\ Stands(p)
        /\ cur[p] \in Runs \/ pc[p] \in Away
    BY DEF VerdictInv, Typed, TypeOK, LocalTypes, Away
  <2>1. Silent /\ Others(p)
    BY <1>16 DEF Repending, Jump, Goto, files, locals, Silent, Others
  <2>2. Leaves(p) /\ \A r \in Runs \ Volatile : file'[r] = "changed" => file[r] = "changed"
    BY <1>16 DEF Repending, files, Leaves
  <2>3. Joins(p)
    BY <1>16 DEF Repending, At, Jump, Goto, locals, Joins, Away, Maker, Making
  <2>4. Makes(p)'
    BY <1>16 DEF Repending, At, Jump, Goto, Makes, Maker, Making
  <2>5. Locks(p)'
    BY <1>16, <2>0
       DEF Repending, At, Jump, Goto, files, locals, Locks, Holds, Same, Working, Away,
           Stands
  <2>6. Stands(p)'
    BY <1>16, <2>0 DEF Repending, At, Jump, Goto, files, locals, Stands, Away
  <2> QED
    BY <2>1, <2>2, <2>3, <2>4, <2>5, <2>6, SilentStep

<1>17. ASSUME NEW p \in Sessions, Rebind(p) PROVE VerdictInv'
  <2>0. /\ Makes(p) /\ Locks(p) /\ Stands(p)
        /\ cur[p] \in Runs \/ pc[p] \in Away
    BY DEF VerdictInv, Typed, TypeOK, LocalTypes, Away
  <2>1. Silent /\ Others(p)
    BY <1>17
       DEF Rebind, Jump, Goto, Intend, files, locals, Silent, Others, Typed, TypeOK,
           LocalTypes
  <2>2. Leaves(p) /\ \A r \in Runs \ Volatile : file'[r] = "changed" => file[r] = "changed"
    BY <1>17 DEF Rebind, files, Leaves
  <2>3. Joins(p)
    BY <1>17
       DEF Rebind, At, Jump, Goto, Intend, locals, Joins, Away, Maker, Making, Typed,
           TypeOK, LocalTypes
  <2>4. Makes(p)'
    BY <1>17 DEF Rebind, Jump, Goto, Intend, Makes, Maker, Making, Typed, TypeOK, LocalTypes
  <2>5. Locks(p)'
    BY <1>17, <2>0
       DEF Rebind, At, Jump, Goto, Intend, files, locals, Locks, Holds, Same, Working, Away,
           Stands, Typed, TypeOK, LocalTypes
  <2>6. Stands(p)'
    BY <1>17, <2>0
       DEF Rebind, At, Jump, Goto, Intend, files, locals, Stands, Away, Typed, TypeOK,
           LocalTypes
  <2> QED
    BY <2>1, <2>2, <2>3, <2>4, <2>5, <2>6, SilentStep

<1>18. ASSUME NEW p \in Sessions, Settle(p) PROVE VerdictInv'
  <2>0. /\ Makes(p) /\ Locks(p) /\ Stands(p)
        /\ cur[p] \in Runs \/ pc[p] \in Away
    BY DEF VerdictInv, Typed, TypeOK, LocalTypes, Away
  <2>1. Silent /\ Others(p)
    BY <1>18 DEF Settle, Jump, Goto, files, locals, Silent, Others
  <2>2. Leaves(p) /\ \A r \in Runs \ Volatile : file'[r] = "changed" => file[r] = "changed"
    BY <1>18 DEF Settle, files, Leaves
  <2>3. Joins(p)
    BY <1>18 DEF Settle, At, Jump, Goto, locals, Joins, Away, Maker, Making
  <2>4. Makes(p)'
    BY <1>18 DEF Settle, At, Jump, Goto, Makes, Maker, Making
  <2>5. Locks(p)'
    BY <1>18, <2>0
       DEF Settle, At, Jump, Goto, files, locals, Locks, Holds, Same, Working, Away, Stands
  <2>6. Stands(p)'
    BY <1>18, <2>0 DEF Settle, At, Jump, Goto, files, locals, Stands, Away
  <2> QED
    BY <2>1, <2>2, <2>3, <2>4, <2>5, <2>6, SilentStep

<1>19. ASSUME NEW p \in Sessions, Pack(p) PROVE VerdictInv'
  <2>0. /\ Makes(p) /\ Locks(p) /\ Stands(p)
        /\ cur[p] \in Runs \/ pc[p] \in Away
    BY DEF VerdictInv, Typed, TypeOK, LocalTypes, Away
  <2>1. Silent /\ Others(p)
    BY <1>19
       DEF Pack, Jump, Goto, GiveUp, Intend, locals, Silent, Others, Typed, TypeOK,
           LocalTypes
  <2>2. Leaves(p) /\ \A r \in Runs \ Volatile : file'[r] = "changed" => file[r] = "changed"
    BY <1>19 DEF Pack, Leaves
  <2>3. Joins(p)
    BY <1>19
       DEF Pack, At, Jump, Goto, GiveUp, Intend, locals, Joins, Away, Maker, Making, Typed,
           TypeOK, LocalTypes
  <2>4. Makes(p)'
    BY <1>19
       DEF Pack, Jump, Goto, GiveUp, Intend, Makes, Maker, Making, Typed, TypeOK, LocalTypes
  <2>5. Locks(p)'
    BY <1>19, <2>0
       DEF Pack, At, Jump, Goto, GiveUp, Intend, locals, Locks, Holds, Same, Working, Away,
           Stands, Typed, TypeOK, LocalTypes
  <2>6. Stands(p)'
    BY <1>19, <2>0
       DEF Pack, At, Jump, Goto, GiveUp, Intend, locals, Stands, Away, Typed, TypeOK,
           LocalTypes
  <2> QED
    BY <2>1, <2>2, <2>3, <2>4, <2>5, <2>6, SilentStep

<1>20. ASSUME NEW p \in Sessions, After(p) PROVE VerdictInv'
  <2>0. /\ Makes(p) /\ Locks(p) /\ Stands(p)
        /\ cur[p] \in Runs \/ pc[p] \in Away
    BY DEF VerdictInv, Typed, TypeOK, LocalTypes, Away
  <2>1. Silent /\ Others(p)
    BY <1>20
       DEF After, Jump, Goto, GiveUp, Intend, Remember, files, locals, Silent, Others,
           Typed, TypeOK, LocalTypes
  <2>2. Leaves(p) /\ \A r \in Runs \ Volatile : file'[r] = "changed" => file[r] = "changed"
    BY <1>20 DEF After, files, Leaves
  <2>3. Joins(p)
    BY <1>20, <2>0
       DEF After, At, Jump, Goto, GiveUp, Intend, Remember, locals, Joins, Away, Maker,
           Making, Stands, Typed, TypeOK, LocalTypes
  <2>4. Makes(p)'
    BY <1>20, <2>0
       DEF After, At, Jump, Goto, GiveUp, Intend, Remember, Makes, Maker, Making, Away,
           Stands, Typed, TypeOK, LocalTypes
  <2>5. Locks(p)'
    BY <1>20, <2>0
       DEF After, At, Jump, Goto, GiveUp, Intend, Remember, files, locals, Locks, Holds,
           Same, Working, Away, Stands, Typed, TypeOK, LocalTypes
  <2>6. Stands(p)'
    BY <1>20, <2>0
       DEF After, At, Jump, Goto, GiveUp, Intend, Remember, files, locals, Stands, Away,
           Typed, TypeOK, LocalTypes
  <2> QED
    BY <2>1, <2>2, <2>3, <2>4, <2>5, <2>6, SilentStep

<1>21. ASSUME NEW p \in Sessions, Unpack(p) PROVE VerdictInv'
  <2>0. /\ Makes(p) /\ Locks(p) /\ Stands(p)
        /\ cur[p] \in Runs \/ pc[p] \in Away
    BY DEF VerdictInv, Typed, TypeOK, LocalTypes, Away
  <2>1. Silent /\ Others(p)
    BY <1>21 DEF Unpack, Jump, Goto, locals, Silent, Others
  <2>2. Leaves(p) /\ \A r \in Runs \ Volatile : file'[r] = "changed" => file[r] = "changed"
    BY <1>21 DEF Unpack, Leaves
  <2>3. Joins(p)
    BY <1>21 DEF Unpack, At, Jump, Goto, locals, Joins, Away, Maker, Making
  <2>4. Makes(p)'
    BY <1>21 DEF Unpack, At, Jump, Goto, Makes, Maker, Making
  <2>5. Locks(p)'
    BY <1>21, <2>0 DEF Unpack, At, Jump, locals, Locks, Holds, Same, Working, Away, Stands
  <2>6. Stands(p)'
    BY <1>21, <2>0 DEF Unpack, At, Jump, Goto, locals, Stands, Away
  <2> QED
    BY <2>1, <2>2, <2>3, <2>4, <2>5, <2>6, SilentStep

<1>22. ASSUME NEW p \in Sessions, Mark(p) PROVE VerdictInv'
  <2>0. /\ Makes(p) /\ Locks(p) /\ Stands(p)
        /\ cur[p] \in Runs \/ pc[p] \in Away
    BY DEF VerdictInv, Typed, TypeOK, LocalTypes, Away
  <2>1. Silent /\ Others(p)
    BY <1>22 DEF Mark, Jump, Goto, locals, Silent, Others, Typed, TypeOK, LocalTypes
  <2>2. Leaves(p) /\ \A r \in Runs \ Volatile : file'[r] = "changed" => file[r] = "changed"
    BY <1>22 DEF Mark, Leaves
  <2>3. Joins(p)
    BY <1>22
       DEF Mark, At, Jump, Goto, locals, Joins, Away, Maker, Making, Typed, TypeOK,
           LocalTypes
  <2>4. Makes(p)'
    BY <1>22 DEF Mark, Jump, Goto, Makes, Maker, Making, Typed, TypeOK, LocalTypes
  <2>5. Locks(p)'
    BY <1>22, <2>0
       DEF Mark, At, Jump, Goto, locals, Locks, Holds, Same, Working, Away, Stands, Typed,
           TypeOK, LocalTypes
  <2>6. Stands(p)'
    BY <1>22, <2>0 DEF Mark, At, Jump, Goto, locals, Stands, Away, Typed, TypeOK, LocalTypes
  <2> QED
    BY <2>1, <2>2, <2>3, <2>4, <2>5, <2>6, SilentStep

<1>23. ASSUME NEW p \in Sessions, Learn(p) PROVE VerdictInv'
  <2>0. /\ Makes(p) /\ Locks(p) /\ Stands(p)
        /\ cur[p] \in Runs \/ pc[p] \in Away
    BY DEF VerdictInv, Typed, TypeOK, LocalTypes, Away
  <2>1. Silent /\ Others(p)
    BY <1>23 DEF Learn, Silent, Others
  <2>2. Leaves(p) /\ \A r \in Runs \ Volatile : file'[r] = "changed" => file[r] = "changed"
    BY <1>23 DEF Learn, Leaves
  <2>3. Joins(p)
    BY <1>23 DEF Learn, Joins, Maker
  <2>4. Makes(p)'
    BY <1>23, <2>0 DEF Learn, Makes, Maker
  <2>5. Locks(p)'
    BY <1>23, <2>0 DEF Learn, Locks, Holds, Same, Rogue
  <2>6. Stands(p)'
    BY <1>23, <2>0 DEF Learn, Stands
  <2> QED
    BY <2>1, <2>2, <2>3, <2>4, <2>5, <2>6, SilentStep

<1>24. ASSUME NEW p \in Sessions, Learned(p) PROVE VerdictInv'
  <2>0. /\ Makes(p) /\ Locks(p) /\ Stands(p)
        /\ cur[p] \in Runs \/ pc[p] \in Away
    BY DEF VerdictInv, Typed, TypeOK, LocalTypes, Away
  <2>1. Silent /\ Others(p)
    BY <1>24 DEF Learned, Jump, Goto, files, locals, Silent, Others
  <2>2. Leaves(p) /\ \A r \in Runs \ Volatile : file'[r] = "changed" => file[r] = "changed"
    BY <1>24 DEF Learned, files, Leaves
  <2>3. Joins(p)
    BY <1>24 DEF Learned, At, Jump, Goto, Resume, locals, Joins, Away, Maker, Making
  <2>4. Makes(p)'
    BY <1>24, <2>0 DEF Learned, At, Jump, Goto, Resume, files, locals, Makes, Maker, Making
  <2>5. Locks(p)'
    BY <1>24, <2>0
       DEF Learned, At, Jump, Goto, Resume, files, locals, Locks, Holds, Same, Working,
           Ending
  <2>6. Stands(p)'
    BY <1>24, <2>0 DEF Learned, At, Jump, Goto, Resume, files, locals, Stands, Away
  <2> QED
    BY <2>1, <2>2, <2>3, <2>4, <2>5, <2>6, SilentStep

<1>25. ASSUME NEW p \in Sessions, Verdict(p) PROVE VerdictInv'
  <2>0. /\ Makes(p) /\ Locks(p) /\ Stands(p)
        /\ cur[p] \in Runs \/ pc[p] \in Away
    BY DEF VerdictInv, Typed, TypeOK, LocalTypes, Away
  <2>1. Silent /\ Others(p)
    BY <1>25 DEF Verdict, Jump, Goto, files, locals, Silent, Others
  <2>2. Leaves(p) /\ \A r \in Runs \ Volatile : file'[r] = "changed" => file[r] = "changed"
    BY <1>25 DEF Verdict, files, Leaves
  <2>3. Joins(p)
    BY <1>25 DEF Verdict, At, Jump, Goto, locals, Joins, Away, Maker, Making
  <2>4. Makes(p)'
    BY <1>25 DEF Verdict, At, Jump, Goto, Makes, Maker, Making
  <2>5. Locks(p)'
    BY <1>25, <2>0
       DEF Verdict, At, Jump, Goto, files, locals, Locks, Holds, Same, Working, Away, Stands
  <2>6. Stands(p)'
    BY <1>25, <2>0 DEF Verdict, At, Jump, Goto, files, locals, Stands, Away
  <2> QED
    BY <2>1, <2>2, <2>3, <2>4, <2>5, <2>6, SilentStep

<1>26. ASSUME NEW p \in Sessions, ClosePack(p) PROVE VerdictInv'
  <2>0. /\ Makes(p) /\ Locks(p) /\ Stands(p)
        /\ cur[p] \in Runs \/ pc[p] \in Away
    BY DEF VerdictInv, Typed, TypeOK, LocalTypes, Away
  <2>1. Silent /\ Others(p)
    BY <1>26 DEF ClosePack, Jump, Goto, locals, Silent, Others
  <2>2. Leaves(p) /\ \A r \in Runs \ Volatile : file'[r] = "changed" => file[r] = "changed"
    BY <1>26 DEF ClosePack, Leaves
  <2>3. Joins(p)
    BY <1>26 DEF ClosePack, At, Jump, Goto, locals, Joins, Away, Maker, Making
  <2>4. Makes(p)'
    BY <1>26 DEF ClosePack, At, Jump, Goto, Makes, Maker, Making
  <2>5. Locks(p)'
    BY <1>26, <2>0
       DEF ClosePack, At, Jump, Goto, locals, Locks, Holds, Same, Rogue, Working, Ending
  <2>6. Stands(p)'
    BY <1>26, <2>0 DEF ClosePack, At, Jump, Goto, locals, Stands, Away
  <2> QED
    BY <2>1, <2>2, <2>3, <2>4, <2>5, <2>6, SilentStep

<1>27. ASSUME NEW p \in Sessions, Crash(p) PROVE VerdictInv'
  <2>0. /\ Makes(p) /\ Locks(p) /\ Stands(p)
        /\ cur[p] \in Runs \/ pc[p] \in Away
    BY DEF VerdictInv, Typed, TypeOK, LocalTypes, Away
  <2>1. Silent /\ Others(p)
    BY <1>27 DEF Crash, Forget, files, locals, env, Silent, Others
  <2>2. Leaves(p) /\ \A r \in Runs \ Volatile : file'[r] = "changed" => file[r] = "changed"
    BY <1>27 DEF Crash, files, locals, env, Leaves
  <2>3. Joins(p)
    BY <1>27 DEF Crash, Forget, env, Joins, Away, Typed, TypeOK, LocalTypes
  <2>4. Makes(p)'
    BY <1>27 DEF Crash, Forget, env, Makes, Maker, Making, Typed, TypeOK, LocalTypes
  <2>5. Locks(p)'
    BY <1>27 DEF Crash, Forget, env, Locks, Working, Ending, Typed, TypeOK, LocalTypes
  <2>6. Stands(p)'
    BY <1>27 DEF Crash, Forget, env, Stands, Away, Typed, TypeOK, LocalTypes
  <2> QED
    BY <2>1, <2>2, <2>3, <2>4, <2>5, <2>6, SilentStep

<1>28. ASSUME NEW p \in Sessions, Create(p) PROVE VerdictInv'
  <2>0. /\ Makes(p) /\ Locks(p) /\ Stands(p)
        /\ cur[p] \in Runs /\ pc[p] \notin Away /\ own[p] \in RunRecord
    BY <1>28 DEF Create, At, VerdictInv, Typed, TypeOK, LocalTypes, Away
  <2>1. Others(p) /\ Leaves(p)
    BY <1>28 DEF Create, Jump, Goto, locals, Others, Leaves, Typed, TypeOK, LocalTypes
  <2>2. \A r \in Runs : r # cur[p] => Untouched(r)
    BY <1>28 DEF Create, SaveOwn, Untouched, Typed, TypeOK, FileTypes
  <2>3. \/ Maker(p) \/ Holds(p)
        \/ /\ decision' = decision
           /\ run' = run \/ (cur[p] \in Volatile /\ run'[cur[p]].status = "failed")
    BY <1>28 DEF Create, At, Maker, Making
  <2>4. Spares(p)
    BY <2>0, <2>2, <2>3, OwnRun
  <2>5. Joins(p)
    BY <1>28, <2>0 DEF Create, At, Jump, locals, Joins, Maker, Making
  <2>6. Makes(p)'
    BY <1>28, <2>0
       DEF Create, At, Jump, Goto, SaveOwn, locals, Makes, Maker, Making, Typed, TypeOK,
           LocalTypes, FileTypes
  <2>7. Locks(p)'
    BY <1>28 DEF Create, Jump, Goto, Locks, Working, Ending, Typed, TypeOK, LocalTypes
  <2>8. Stands(p)'
    BY <1>28, <2>0 DEF Create, Jump, Goto, locals, Stands, Typed, TypeOK, LocalTypes
  <2>9. ASSUME NEW r \in Runs PROVE Keeps(r)' /\ Tells(r)'
    <3>1. CASE r # cur[p]
      BY <1>28, <2>1, <2>2, <3>1 DEF Create, VerdictInv, Keeps, Tells, Untouched
    <3>2. CASE r = cur[p]
      <4>1. Keeps(r)'
        BY <1>28, <3>2 DEF Create, At, VerdictInv, Keeps, Makes, Maker, Making
      <4>2. Tells(r)'
        BY <1>28, <2>0, <3>2 DEF Create, At, Tells, Makes, Maker, Making
      <4> QED
        BY <4>1, <4>2
    <3> QED
      BY <3>1, <3>2
  <2> QED
    BY <2>1, <2>4, <2>5, <2>6, <2>7, <2>8, <2>9, VerdictStep

<1>29. ASSUME NEW p \in Sessions, Final(p) PROVE VerdictInv'
  <2>0. /\ Makes(p) /\ Locks(p) /\ Stands(p)
        /\ cur[p] \in Runs /\ pc[p] \notin Away /\ own[p] \in RunRecord
    BY <1>29 DEF Final, At, VerdictInv, Typed, TypeOK, LocalTypes, Away
  <2>1. Others(p) /\ Leaves(p)
    BY <1>29 DEF Final, Jump, Goto, Forget, locals, Others, Leaves, Typed, TypeOK, LocalTypes
  <2>2. \A r \in Runs : r # cur[p] => Untouched(r)
    BY <1>29 DEF Final, SaveOwn, Untouched, Typed, TypeOK, FileTypes
  <2>3. \/ Maker(p) \/ Holds(p)
        \/ /\ decision' = decision
           /\ run' = run \/ (cur[p] \in Volatile /\ run'[cur[p]].status = "failed")
    BY <1>29 DEF Final, At, Maker, Making
  <2>4. Spares(p)
    BY <2>0, <2>2, <2>3, OwnRun
  <2>5. Joins(p)
    BY <1>29
       DEF Final, At, Jump, Forget, locals, Joins, Away, Maker, Making, Typed, TypeOK,
           LocalTypes
  <2>6. Makes(p)'
    BY <1>29, <2>0
       DEF Final, At, Jump, Forget, SaveOwn, locals, Makes, Maker, Making, Typed, TypeOK,
           LocalTypes, FileTypes
  <2>7. Locks(p)'
    BY <1>29 DEF Final, Jump, Goto, Forget, Locks, Working, Ending, Typed, TypeOK, LocalTypes
  <2>8. Stands(p)'
    BY <1>29, <2>0
       DEF Final, Jump, Goto, Forget, locals, Stands, Away, Typed, TypeOK, LocalTypes
  <2>9. ASSUME NEW r \in Runs PROVE Keeps(r)' /\ Tells(r)'
    <3>1. CASE r # cur[p]
      BY <1>29, <2>1, <2>2, <3>1 DEF Final, VerdictInv, Keeps, Tells, Untouched
    <3>2. CASE r = cur[p]
      <4>1. Keeps(r)'
        BY <1>29, <3>2 DEF Final, At, VerdictInv, Keeps, Makes, Maker, Making
      <4>2. Tells(r)'
        BY <1>29, <2>0, <3>2 DEF Final, At, Tells, Makes, Maker, Making
      <4> QED
        BY <4>1, <4>2
    <3> QED
      BY <3>1, <3>2
  <2> QED
    BY <2>1, <2>4, <2>5, <2>6, <2>7, <2>8, <2>9, VerdictStep

<1>30. ASSUME NEW p \in Sessions, Receipt(p) PROVE VerdictInv'
  <2>0. /\ Makes(p) /\ Locks(p) /\ Stands(p)
        /\ cur[p] \in Runs /\ pc[p] \notin Away /\ own[p] \in RunRecord
    BY <1>30 DEF Receipt, At, VerdictInv, Typed, TypeOK, LocalTypes, Away
  <2>1. Others(p) /\ Leaves(p)
    BY <1>30
       DEF Receipt, Jump, Goto, locals, Others, Leaves, Typed, TypeOK, LocalTypes, FileTypes
  <2>2. \A r \in Runs : r # cur[p] => Untouched(r)
    BY <1>30 DEF Receipt, Untouched, Typed, TypeOK, FileTypes
  <2>3. \/ Maker(p) \/ Holds(p)
        \/ /\ decision' = decision
           /\ run' = run \/ (cur[p] \in Volatile /\ run'[cur[p]].status = "failed")
    BY <1>30 DEF Receipt
  <2>4. Spares(p)
    BY <2>0, <2>2, <2>3, OwnRun
  <2>5. Joins(p)
    BY <1>30, <2>0 DEF Receipt, At, Jump, locals, Joins, Maker, Making
  <2>6. Makes(p)'
    BY <1>30, <2>0
       DEF Receipt, At, Jump, Goto, locals, Makes, Maker, Making, Typed, TypeOK, LocalTypes
  <2>7. Locks(p)'
    BY <1>30 DEF Receipt, Jump, Goto, Locks, Working, Ending, Typed, TypeOK, LocalTypes
  <2>8. Stands(p)'
    BY <1>30, <2>0
       DEF Receipt, At, Jump, Goto, locals, Stands, Typed, TypeOK, LocalTypes, FileTypes
  <2>9. ASSUME NEW r \in Runs PROVE Keeps(r)' /\ Tells(r)'
    <3>1. CASE r # cur[p]
      BY <1>30, <2>1, <2>2, <3>1 DEF Receipt, VerdictInv, Keeps, Tells, Typed, TypeOK, FileTypes
    <3>2. CASE r = cur[p]
      <4>1. Keeps(r)'
        BY <1>30, <2>0, <3>2
           DEF Receipt, At, VerdictInv, Keeps, Stands, Typed, TypeOK, FileTypes
      <4>2. Tells(r)'
        BY <1>30, <3>2 DEF Receipt, VerdictInv, Tells
      <4> QED
        BY <4>1, <4>2
    <3> QED
      BY <3>1, <3>2
  <2> QED
    BY <2>1, <2>4, <2>5, <2>6, <2>7, <2>8, <2>9, VerdictStep

<1>31. ASSUME NEW p \in Sessions, Abort(p) PROVE VerdictInv'
  <2>0. /\ Makes(p) /\ Locks(p) /\ Stands(p)
        /\ cur[p] \in Runs /\ pc[p] \notin Away /\ own[p] \in RunRecord
    BY <1>31 DEF Abort, At, VerdictInv, Typed, TypeOK, LocalTypes, Away
  <2>1. Others(p) /\ Leaves(p)
    BY <1>31 DEF Abort, Forget, Others, Leaves
  <2>2. \A r \in Runs : r # cur[p] => Untouched(r)
    BY <1>31 DEF Abort, Untouched, Typed, TypeOK, FileTypes
  <2>3. \/ Maker(p) \/ Holds(p)
        \/ /\ decision' = decision
           /\ run' = run \/ (cur[p] \in Volatile /\ run'[cur[p]].status = "failed")
    BY <1>31 DEF Abort, At, Maker, Making
  <2>4. Spares(p)
    BY <2>0, <2>2, <2>3, OwnRun
  <2>5. Joins(p)
    BY <1>31 DEF Abort, Forget, Joins, Away, Typed, TypeOK, LocalTypes
  <2>6. Makes(p)'
    BY <1>31 DEF Abort, Forget, Makes, Maker, Making, Typed, TypeOK, LocalTypes
  <2>7. Locks(p)'
    BY <1>31 DEF Abort, At, Forget, Locks, Working, Ending
  <2>8. Stands(p)'
    BY <1>31 DEF Abort, Forget, Stands, Away, Typed, TypeOK, LocalTypes
  <2>9. ASSUME NEW r \in Runs PROVE Keeps(r)' /\ Tells(r)'
    <3>1. CASE r # cur[p]
      BY <1>31, <2>1, <2>2, <3>1 DEF Abort, VerdictInv, Keeps, Tells, Untouched
    <3>2. CASE r = cur[p]
      <4>1. Keeps(r)'
        BY <1>31, <3>2 DEF Abort, At, VerdictInv, Keeps, Makes, Maker, Making
      <4>2. Tells(r)'
        BY <1>31, <2>0, <3>2 DEF Abort, At, Tells, Makes, Maker, Making
      <4> QED
        BY <4>1, <4>2
    <3> QED
      BY <3>1, <3>2
  <2> QED
    BY <2>1, <2>4, <2>5, <2>6, <2>7, <2>8, <2>9, VerdictStep

<1>32. ASSUME NEW p \in Sessions, Note(p) PROVE VerdictInv'
  <2>0. /\ Makes(p) /\ Locks(p) /\ Stands(p)
        /\ cur[p] \in Runs /\ pc[p] \notin Away /\ own[p] \in RunRecord
    BY <1>32 DEF Note, At, VerdictInv, Typed, TypeOK, LocalTypes, Away
  <2>1. Others(p) /\ Leaves(p)
    BY <1>32 DEF Note, Goto, Others, Leaves
  <2>2. \A r \in Runs : r # cur[p] => Untouched(r)
    BY <1>32 DEF Note, Untouched, Typed, TypeOK, FileTypes
  <2>3. \/ Maker(p) \/ Holds(p)
        \/ /\ decision' = decision
           /\ run' = run \/ (cur[p] \in Volatile /\ run'[cur[p]].status = "failed")
    BY <1>32 DEF Note, At, Maker, Making
  <2>4. Spares(p)
    BY <2>0, <2>2, <2>3, OwnRun
  <2>5. Joins(p)
    BY <1>32, <2>0 DEF Note, At, Joins, Maker, Making
  <2>6. Makes(p)'
    BY <1>32 DEF Note, Goto, Makes, Maker, Making, Typed, TypeOK, LocalTypes
  <2>7. Locks(p)'
    BY <1>32 DEF Note, At, Goto, Locks, Working, Ending
  <2>8. Stands(p)'
    BY <1>32, <2>0 DEF Note, At, Goto, Stands
  <2>9. ASSUME NEW r \in Runs PROVE Keeps(r)' /\ Tells(r)'
    <3>1. CASE r # cur[p]
      BY <1>32, <2>1, <2>2, <3>1 DEF Note, VerdictInv, Keeps, Tells, Untouched
    <3>2. CASE r = cur[p]
      <4>1. Keeps(r)'
        BY <1>32, <3>2 DEF Note, At, VerdictInv, Keeps, Makes, Maker, Making
      <4>2. Tells(r)'
        BY <1>32, <2>0, <3>2 DEF Note, At, Tells, Makes, Maker, Making
      <4> QED
        BY <4>1, <4>2
    <3> QED
      BY <3>1, <3>2
  <2> QED
    BY <2>1, <2>4, <2>5, <2>6, <2>7, <2>8, <2>9, VerdictStep

<1>33. ASSUME NEW p \in Sessions, Decide(p) PROVE VerdictInv'
  <2>0. /\ Makes(p) /\ Locks(p) /\ Stands(p)
        /\ cur[p] \in Runs /\ pc[p] \notin Away /\ own[p] \in RunRecord
    BY <1>33 DEF Decide, At, VerdictInv, Typed, TypeOK, LocalTypes, Away
  <2>1. Others(p) /\ Leaves(p)
    BY <1>33 DEF Decide, Jump, Goto, locals, Others, Leaves, Typed, TypeOK, LocalTypes
  <2>2. \A r \in Runs : r # cur[p] => Untouched(r)
    BY <1>33 DEF Decide, Untouched, Typed, TypeOK, FileTypes
  <2>3. \/ Maker(p) \/ Holds(p)
        \/ /\ decision' = decision
           /\ run' = run \/ (cur[p] \in Volatile /\ run'[cur[p]].status = "failed")
    BY <1>33, <2>0 DEF Decide, At, Locks, Working, Stands
  <2>4. Spares(p)
    BY <2>0, <2>2, <2>3, OwnRun
  <2>5. Joins(p)
    BY <1>33, <2>0
       DEF Decide, Jump, Goto, locals, Joins, Maker, Making, Typed, TypeOK, LocalTypes
  <2>6. Makes(p)'
    BY <1>33 DEF Decide, Jump, Goto, Makes, Maker, Making, Typed, TypeOK, LocalTypes
  <2>7. Locks(p)'
    BY <1>33, <2>0
       DEF Decide, At, Jump, Goto, locals, Locks, Holds, Same, Working, Stands, Typed,
           TypeOK, LocalTypes
  <2>8. Stands(p)'
    BY <1>33, <2>0 DEF Decide, At, Jump, Goto, locals, Stands, Typed, TypeOK, LocalTypes
  <2>9. ASSUME NEW r \in Runs PROVE Keeps(r)' /\ Tells(r)'
    <3>1. CASE r # cur[p]
      BY <1>33, <2>1, <2>2, <3>1 DEF Decide, VerdictInv, Keeps, Tells, Untouched
    <3>2. CASE r = cur[p]
      <4>1. Keeps(r)'
        BY <1>33, <2>0, <3>2
           DEF Decide, At, Freezable, VerdictInv, Keeps, Locks, Same, Working, Stands
      <4>2. Tells(r)'
        BY <1>33, <3>2 DEF Decide, VerdictInv, Tells
      <4> QED
        BY <4>1, <4>2
    <3> QED
      BY <3>1, <3>2
  <2> QED
    BY <2>1, <2>4, <2>5, <2>6, <2>7, <2>8, <2>9, VerdictStep

<1>34. ASSUME NEW p \in Sessions, Accept(p) PROVE VerdictInv'
  <2>0. /\ Makes(p) /\ Locks(p) /\ Stands(p)
        /\ cur[p] \in Runs /\ pc[p] = "accept" /\ own[p] \in RunRecord
    BY <1>34 DEF Accept, At, VerdictInv, Typed, TypeOK, LocalTypes
  <2> DEFINE rec == AcceptedFrom(own[p], decision[cur[p]])
  <2>a. rec.status = "accepted"
    BY <2>0, Statuses
  <2> HIDE DEF rec
  <2>1. /\ Others(p) /\ Leaves(p) /\ \A r \in Runs : r # cur[p] => Untouched(r)
        /\ UNCHANGED <<pending, decision, told, file, lock, cur, intent>>
    BY <1>34
       DEF Accept, Jump, Goto, locals, rec, Others, Leaves, Untouched, Typed, TypeOK,
           LocalTypes, FileTypes
  <2>2. \/ /\ run'[cur[p]] = rec /\ own'[p] = rec
           /\ pc'[p] = "learn" /\ todo'[p] = Candidates[cur[p]]
        \/ run' = run /\ own' = own /\ pc'[p] = "unlock"
    <3>1. CASE /\ run' = [run EXCEPT ![cur[p]] = rec] /\ own' = [own EXCEPT ![p] = rec]
               /\ Goto(p, "learn") /\ todo' = [todo EXCEPT ![p] = Candidates[cur[p]]]
      BY <3>1 DEF Goto, Typed, TypeOK, LocalTypes, FileTypes
    <3>2. CASE UNCHANGED run /\ Jump(p, "unlock")
      BY <3>2 DEF Goto, Jump, locals, Typed, TypeOK, LocalTypes
    <3> QED
      BY <1>34, <3>1, <3>2 DEF Accept, rec
  <2>3. \/ Maker(p) \/ Holds(p)
        \/ /\ decision' = decision
           /\ run' = run \/ (cur[p] \in Volatile /\ run'[cur[p]].status = "failed")
    BY <2>0, <2>a, <2>1, <2>2 DEF Locks, Working, Stands, Away
  <2>4. Spares(p)
    BY <2>0, <2>1, <2>3, OwnRun DEF Away
  <2>5. Joins(p)
    BY <2>0, <2>a, <2>1, <2>2 DEF Joins, Away, Maker, Making, Stands
  <2>6. Makes(p)'
    BY <2>0, <2>a, <2>1, <2>2 DEF Makes, Maker, Making, Stands, Away
  <2>7. Locks(p)'
    BY <2>0, <2>a, <2>1, <2>2 DEF Locks, Holds, Same, Working, Stands, Away
  <2>8. Stands(p)'
    BY <2>0, <2>a, <2>1, <2>2 DEF Stands, Away
  <2>9. ASSUME NEW r \in Runs PROVE Keeps(r)' /\ Tells(r)'
    <3>1. CASE r # cur[p]
      BY <2>1, <3>1 DEF VerdictInv, Keeps, Tells, Untouched
    <3>2. CASE r = cur[p]
      BY <2>0, <2>a, <2>1, <2>2, <3>2
         DEF VerdictInv, Keeps, Tells, Locks, Same, Working, Stands, Closed, Away
    <3> QED
      BY <3>1, <3>2
  <2> QED
    BY <2>1, <2>4, <2>5, <2>6, <2>7, <2>8, <2>9, VerdictStep

<1>35. ASSUME NEW p \in Sessions, Commit(p) PROVE VerdictInv'
  <2>0. /\ Makes(p) /\ Locks(p) /\ Stands(p)
        /\ cur[p] \in Runs /\ pc[p] = "commit" /\ own[p] \in RunRecord
    BY <1>35 DEF Commit, At, VerdictInv, Typed, TypeOK, LocalTypes
  <2> DEFINE rec == [own[p] EXCEPT !.memory_commit = "committed"]
  <2>a. rec.status = own[p].status
    BY <2>0
  <2> HIDE DEF rec
  <2>1. /\ Others(p) /\ Leaves(p) /\ \A r \in Runs : r # cur[p] => Untouched(r)
        /\ UNCHANGED <<pending, decision, told, file, lock, cur, intent>>
    BY <1>35
       DEF Commit, At, Jump, Goto, locals, rec, Others, Leaves, Untouched, Typed, TypeOK,
           LocalTypes, FileTypes
  <2>2. /\ \/ /\ run'[cur[p]] = rec /\ own'[p] = rec
           \/ run' = run /\ own' = own
        /\ IF cur[p] \in CliRuns THEN pc'[p] = "final" ELSE pc'[p] \in {"remove", "unlock"}
    BY <1>35 DEF Commit, Jump, Goto, Resume, locals, rec, Typed, TypeOK, LocalTypes, FileTypes
  <2>3. \/ Maker(p) \/ Holds(p)
        \/ /\ decision' = decision
           /\ run' = run \/ (cur[p] \in Volatile /\ run'[cur[p]].status = "failed")
    BY <2>0, <2>a, <2>1, <2>2 DEF Maker, Locks, Working
  <2>4. Spares(p)
    BY <2>0, <2>1, <2>3, OwnRun DEF Away
  <2>5. Joins(p)
    BY <2>0, <2>a, <2>1, <2>2 DEF Joins, Away, Maker, Making
  <2>6. Makes(p)'
    BY <2>0, <2>a, <2>1, <2>2 DEF Makes, Maker, Making
  <2>7. Locks(p)'
    BY <2>0, <2>a, <2>1, <2>2 DEF Locks, Holds, Same, Working, Ending
  <2>8. Stands(p)'
    BY <2>0, <2>a, <2>1, <2>2 DEF Stands, Away
  <2>9. ASSUME NEW r \in Runs PROVE Keeps(r)' /\ Tells(r)'
    <3>1. CASE r # cur[p]
      BY <2>1, <3>1 DEF VerdictInv, Keeps, Tells, Untouched
    <3>2. CASE r = cur[p]
      BY <2>0, <2>a, <2>1, <2>2, <3>2
         DEF VerdictInv, Keeps, Tells, Makes, Maker, Locks, Same, Working, Stands
    <3> QED
      BY <3>1, <3>2
  <2> QED
    BY <2>1, <2>4, <2>5, <2>6, <2>7, <2>8, <2>9, VerdictStep

<1>36. ASSUME NEW p \in Sessions, Remove(p) PROVE VerdictInv'
  <2>0. /\ Makes(p) /\ Locks(p) /\ Stands(p)
        /\ cur[p] \in Runs /\ pc[p] \notin Away /\ own[p] \in RunRecord
    BY <1>36 DEF Remove, At, VerdictInv, Typed, TypeOK, LocalTypes, Away
  <2>1. Others(p) /\ Leaves(p)
    BY <1>36 DEF Remove, Jump, Goto, locals, Others, Leaves
  <2>2. \A r \in Runs : r # cur[p] => Untouched(r)
    BY <1>36 DEF Remove, Announce, Untouched, Typed, TypeOK, FileTypes
  <2>3. \/ Maker(p) \/ Holds(p)
        \/ /\ decision' = decision
           /\ run' = run \/ (cur[p] \in Volatile /\ run'[cur[p]].status = "failed")
    BY <1>36 DEF Remove
  <2>4. Spares(p)
    BY <2>0, <2>2, <2>3, OwnRun
  <2>5. Joins(p)
    BY <1>36, <2>0 DEF Remove, Jump, Goto, locals, Joins, Maker, Making
  <2>6. Makes(p)'
    BY <1>36 DEF Remove, At, Jump, Goto, Makes, Maker, Making
  <2>7. Locks(p)'
    BY <1>36, <2>0 DEF Remove, At, Jump, Goto, locals, Locks, Holds, Same, Working, Stands
  <2>8. Stands(p)'
    BY <1>36, <2>0 DEF Remove, At, Jump, Goto, locals, Stands
  <2>9. ASSUME NEW r \in Runs PROVE Keeps(r)' /\ Tells(r)'
    <3>1. CASE r # cur[p]
      BY <1>36, <2>1, <2>2, <3>1 DEF Remove, VerdictInv, Keeps, Tells, Untouched
    <3>2. CASE r = cur[p]
      <4>1. Keeps(r)'
        BY <1>36, <2>0, <3>2 DEF Remove, At, VerdictInv, Keeps, Locks, Same, Working, Stands
      <4>2. Tells(r)'
        BY <1>36, <2>0, <3>2
           DEF Remove, At, Announce, VerdictInv, Tells, Locks, Same, Working, Stands
      <4> QED
        BY <4>1, <4>2
    <3> QED
      BY <3>1, <3>2
  <2> QED
    BY <2>1, <2>4, <2>5, <2>6, <2>7, <2>8, <2>9, VerdictStep

<1>37. ASSUME NEW p \in Sessions, Close(p) PROVE VerdictInv'
  <2>0. /\ Makes(p) /\ Locks(p) /\ Stands(p)
        /\ cur[p] \in Runs /\ pc[p] = "close" /\ own[p] \in RunRecord
    BY <1>37 DEF Close, At, VerdictInv, Typed, TypeOK, LocalTypes
  <2> DEFINE rec == ClosedAs(own[p], ClosingStatus(intent[p]))
  <2>a. rec.status \in Closed /\ (Rogue(p) => rec.status = "failed")
    BY <2>0, Statuses, Closes DEF Rogue
  <2> HIDE DEF rec
  <2>1. /\ Others(p) /\ Leaves(p) /\ \A r \in Runs : r # cur[p] => Untouched(r)
        /\ UNCHANGED <<pending, decision, told, file, lock, cur, intent>>
    BY <1>37
       DEF Close, Jump, Goto, locals, rec, Others, Leaves, Untouched, Typed, TypeOK,
           LocalTypes, FileTypes
  <2>2. /\ \/ /\ run'[cur[p]] = rec /\ own'[p] = rec
              /\ pc'[p] = "closePack"
           \/ run' = run /\ own' = own /\ pc'[p] = "unlock"
    BY <1>37 DEF Close, Jump, Goto, locals, rec, Typed, TypeOK, LocalTypes, FileTypes
  <2>3. \/ Maker(p) \/ Holds(p)
        \/ /\ decision' = decision
           /\ run' = run \/ (cur[p] \in Volatile /\ run'[cur[p]].status = "failed")
    BY <2>0, <2>a, <2>1, <2>2 DEF Locks, Ending, Rogue
  <2>4. Spares(p)
    BY <2>0, <2>1, <2>3, OwnRun DEF Away
  <2>5. Joins(p)
    BY <2>0, <2>a, <2>1, <2>2 DEF Joins, Away, Maker, Making
  <2>6. Makes(p)'
    BY <2>a, <2>1, <2>2 DEF Makes, Maker, Making
  <2>7. Locks(p)'
    BY <2>0, <2>a, <2>1, <2>2 DEF Locks, Holds, Same, Rogue, Working, Ending
  <2>8. Stands(p)'
    BY <2>0, <2>a, <2>1, <2>2 DEF Stands, Away
  <2>9. ASSUME NEW r \in Runs PROVE Keeps(r)' /\ Tells(r)'
    <3>1. CASE r # cur[p]
      BY <2>1, <3>1 DEF VerdictInv, Keeps, Tells, Untouched
    <3>2. CASE r = cur[p]
      BY <2>0, <2>a, <2>1, <2>2, <3>2
         DEF VerdictInv, Keeps, Tells, Locks, Same, Rogue, Ending, Stands, Closed
    <3> QED
      BY <3>1, <3>2
  <2> QED
    BY <2>1, <2>4, <2>5, <2>6, <2>7, <2>8, <2>9, VerdictStep

<1>38. ASSUME NEW p \in Sessions, ClosePending(p) PROVE VerdictInv'
  <2>0. /\ Makes(p) /\ Locks(p) /\ Stands(p)
        /\ cur[p] \in Runs /\ pc[p] \notin Away /\ own[p] \in RunRecord
    BY <1>38 DEF ClosePending, At, VerdictInv, Typed, TypeOK, LocalTypes, Away
  <2>1. Others(p) /\ Leaves(p)
    BY <1>38 DEF ClosePending, Jump, Goto, locals, Others, Leaves
  <2>2. \A r \in Runs : r # cur[p] => Untouched(r)
    BY <1>38 DEF ClosePending, Announce, Untouched, Typed, TypeOK, FileTypes
  <2>3. \/ Maker(p) \/ Holds(p)
        \/ /\ decision' = decision
           /\ run' = run \/ (cur[p] \in Volatile /\ run'[cur[p]].status = "failed")
    BY <1>38 DEF ClosePending
  <2>4. Spares(p)
    BY <2>0, <2>2, <2>3, OwnRun
  <2>5. Joins(p)
    BY <1>38, <2>0 DEF ClosePending, Jump, Goto, locals, Joins, Maker, Making
  <2>6. Makes(p)'
    BY <1>38 DEF ClosePending, At, Jump, Goto, Makes, Maker, Making
  <2>7. Locks(p)'
    BY <1>38, <2>0
       DEF ClosePending, At, Jump, Goto, locals, Locks, Holds, Same, Rogue, Working, Ending
  <2>8. Stands(p)'
    BY <1>38, <2>0 DEF ClosePending, At, Jump, Goto, locals, Stands
  <2>9. ASSUME NEW r \in Runs PROVE Keeps(r)' /\ Tells(r)'
    <3>1. CASE r # cur[p]
      BY <1>38, <2>1, <2>2, <3>1 DEF ClosePending, VerdictInv, Keeps, Tells, Untouched
    <3>2. CASE r = cur[p]
      <4>1. Keeps(r)'
        BY <1>38, <2>0, <3>2
           DEF ClosePending, At, VerdictInv, Keeps, Locks, Same, Rogue, Ending, Stands,
               Closed
      <4>2. Tells(r)'
        BY <1>38, <3>2
           DEF ClosePending, At, Announce, VerdictInv, Tells, Locks, Same, Rogue,
               Ending, Stands
      <4> QED
        BY <4>1, <4>2
    <3> QED
      BY <3>1, <3>2
  <2> QED
    BY <2>1, <2>4, <2>5, <2>6, <2>7, <2>8, <2>9, VerdictStep

<1>39. ASSUME NEW r \in Runs, Reclaim(r) PROVE VerdictInv'
  <2>1. UNCHANGED <<files, pc, locals, told>> /\ \A q \in Runs : lock[q] \in Sessions => lock'[q] = lock[q]
    BY <1>39, SettlementAssumption DEF Reclaim
  <2>2. ASSUME NEW p \in Sessions, pc[p] \notin Away, Holds(p) PROVE Holds(p)'
    BY <2>1, <2>2 DEF Holds, Away, locals, Typed, TypeOK, LocalTypes
  <2>3. ASSUME NEW p \in Sessions PROVE Makes(p)' /\ Locks(p)' /\ Stands(p)'
    BY <2>1, <2>2
       DEF VerdictInv, Makes, Maker, Locks, Same, Rogue, Stands, Working, Ending, Away,
           files, locals
  <2>4. Sole' /\ \A q \in Runs : Keeps(q)' /\ Tells(q)'
    BY <2>1 DEF VerdictInv, Sole, Maker, Keeps, Tells, files, locals
  <2> QED
    BY <2>3, <2>4 DEF VerdictInv

<1>40. ASSUME NEW r \in Runs, Change(r) PROVE VerdictInv'
  <2>1. /\ UNCHANGED <<run, pending, decision, lock, pc, locals, told>>
        /\ r \in Volatile /\ file[r] = "intact" /\ file' = [file EXCEPT ![r] = "changed"]
    BY <1>40 DEF Change, Intact
  <2>2. ASSUME NEW p \in Sessions PROVE Makes(p)' /\ Locks(p)' /\ Stands(p)'
    BY <2>1 DEF VerdictInv, Makes, Maker, Locks, Holds, Same, Rogue, Stands, locals
  <2>3. Sole' /\ \A q \in Runs : Keeps(q)' /\ Tells(q)'
    BY <2>1 DEF VerdictInv, Sole, Maker, Keeps, Tells, locals
  <2> QED
    BY <2>2, <2>3 DEF VerdictInv

<1>41. CASE UNCHANGED vars
  BY <1>41
     DEF vars, files, locals, VerdictInv, Sole, Makes, Maker, Locks, Holds, Same, Rogue,
         Stands, Keeps, Tells

<1> QED
  BY <1>1, <1>2, <1>3, <1>4, <1>5, <1>6, <1>7, <1>8, <1>9, <1>10, <1>11, <1>12, <1>13, <1>14,
     <1>15, <1>16, <1>17, <1>18, <1>19, <1>20, <1>21, <1>22, <1>23, <1>24, <1>25, <1>26,
     <1>27, <1>28, <1>29, <1>30, <1>31, <1>32, <1>33, <1>34, <1>35, <1>36, <1>37, <1>38,
     <1>39, <1>40, <1>41
     DEF Next, Run, User

-----------------------------------------------------------------------------
(* Lessons. *)

(* What a step of p leaves of a run that taught something. *)
LEMMA SoundStep ==
  ASSUME NEW p \in Sessions, NEW r \in Runs, Others(p), Sound(r),
         \/ run'[r].status \in {run[r].status, "accepted"}
         \/ r \in Volatile /\ run'[r].status = "failed",
         cur'[p] = r /\ (pc'[p] \in Working \/ (pc'[p] = "close" /\ intent'[p] # "fail"))
           => own'[p].status \in {"accepted", "failed"}
  PROVE  Sound(r)'
  BY DEF Sound, Others

(* What a step may teach. *)
Teaches ==
  /\ \A r \in Runs : Sound(r) => Sound(r)'
  /\ \A m \in memory' \ memory : \E r \in Runs : m \in Candidates[r] /\ Sound(r)'

(* Every step leaves it sound, and teaches only what a sound run staged. *)
LEMMA LessonsStay ==
  ASSUME Typed, Typed', VerdictInv, Taught, [Next]_vars
  PROVE  Taught'
<1>0. SUFFICES Teaches
  BY DEF Taught, Teaches
<1>1. ASSUME NEW p \in Sessions, Start(p) PROVE Teaches
  <2>0. /\ Makes(p) /\ Locks(p) /\ Stands(p)
        /\ cur[p] \in Runs \/ pc[p] \in Away
    BY DEF VerdictInv, Typed, TypeOK, LocalTypes, Away
  <2>1. Others(p)
    BY <1>1 DEF Start, Jump, Goto, locals, Others
  <2>2. memory' = memory
    BY <1>1 DEF Start, files
  <2>3. ASSUME NEW r \in Runs, Sound(r) PROVE Sound(r)'
    <3>1. \/ run'[r].status \in {run[r].status, "accepted"}
          \/ r \in Volatile /\ run'[r].status = "failed"
      BY <1>1, <2>3 DEF Start, files
    <3>2. cur'[p] = r /\ (pc'[p] \in Working \/ (pc'[p] = "close" /\ intent'[p] # "fail"))
            => own'[p].status \in {"accepted", "failed"}
      BY <1>1, <2>3 DEF Start, At, Jump, Goto, Working
    <3> QED
      BY <2>1, <2>3, <3>1, <3>2, SoundStep
  <2> QED
    BY <2>2, <2>3 DEF Teaches

<1>2. ASSUME NEW p \in Sessions, StartCli(p) PROVE Teaches
  <2>0. /\ Makes(p) /\ Locks(p) /\ Stands(p)
        /\ cur[p] \in Runs \/ pc[p] \in Away
    BY DEF VerdictInv, Typed, TypeOK, LocalTypes, Away
  <2>1. Others(p)
    BY <1>2 DEF StartCli, Draw, Goto, Others
  <2>2. memory' = memory
    BY <1>2 DEF StartCli, Draw
  <2>3. ASSUME NEW r \in Runs, Sound(r) PROVE Sound(r)'
    <3>1. \/ run'[r].status \in {run[r].status, "accepted"}
          \/ r \in Volatile /\ run'[r].status = "failed"
      BY <1>2, <2>3 DEF StartCli, Draw
    <3>2. cur'[p] = r /\ (pc'[p] \in Working \/ (pc'[p] = "close" /\ intent'[p] # "fail"))
            => own'[p].status \in {"accepted", "failed"}
      BY <1>2, <2>3 DEF StartCli, At, Draw, Goto, Working
    <3> QED
      BY <2>1, <2>3, <3>1, <3>2, SoundStep
  <2> QED
    BY <2>2, <2>3 DEF Teaches

<1>3. ASSUME NEW p \in Sessions, FindNone(p) PROVE Teaches
  <2>0. /\ Makes(p) /\ Locks(p) /\ Stands(p)
        /\ cur[p] \in Runs \/ pc[p] \in Away
    BY DEF VerdictInv, Typed, TypeOK, LocalTypes, Away
  <2>1. Others(p)
    BY <1>3 DEF FindNone, Draw, Goto, Others
  <2>2. memory' = memory
    BY <1>3 DEF FindNone, Draw
  <2>3. ASSUME NEW r \in Runs, Sound(r) PROVE Sound(r)'
    <3>1. \/ run'[r].status \in {run[r].status, "accepted"}
          \/ r \in Volatile /\ run'[r].status = "failed"
      BY <1>3, <2>3 DEF FindNone, Draw
    <3>2. cur'[p] = r /\ (pc'[p] \in Working \/ (pc'[p] = "close" /\ intent'[p] # "fail"))
            => own'[p].status \in {"accepted", "failed"}
      BY <1>3, <2>3 DEF FindNone, At, Draw, Goto, Working
    <3> QED
      BY <2>1, <2>3, <3>1, <3>2, SoundStep
  <2> QED
    BY <2>2, <2>3 DEF Teaches

<1>4. ASSUME NEW p \in Sessions, FindOne(p) PROVE Teaches
  <2>0. /\ Makes(p) /\ Locks(p) /\ Stands(p)
        /\ cur[p] \in Runs \/ pc[p] \in Away
    BY DEF VerdictInv, Typed, TypeOK, LocalTypes, Away
  <2>1. Others(p)
    BY <1>4 DEF FindOne, Goto, Others
  <2>2. memory' = memory
    BY <1>4 DEF FindOne, files
  <2>3. ASSUME NEW r \in Runs, Sound(r) PROVE Sound(r)'
    <3>1. \/ run'[r].status \in {run[r].status, "accepted"}
          \/ r \in Volatile /\ run'[r].status = "failed"
      BY <1>4, <2>3 DEF FindOne, files
    <3>2. cur'[p] = r /\ (pc'[p] \in Working \/ (pc'[p] = "close" /\ intent'[p] # "fail"))
            => own'[p].status \in {"accepted", "failed"}
      BY <1>4, <2>3 DEF FindOne, At, Goto, Working
    <3> QED
      BY <2>1, <2>3, <3>1, <3>2, SoundStep
  <2> QED
    BY <2>2, <2>3 DEF Teaches

<1>5. ASSUME NEW p \in Sessions, FindBlocked(p) PROVE Teaches
  <2>0. /\ Makes(p) /\ Locks(p) /\ Stands(p)
        /\ cur[p] \in Runs \/ pc[p] \in Away
    BY DEF VerdictInv, Typed, TypeOK, LocalTypes, Away
  <2>1. Others(p)
    BY <1>5 DEF FindBlocked, Forget, Others
  <2>2. memory' = memory
    BY <1>5 DEF FindBlocked, files
  <2>3. ASSUME NEW r \in Runs, Sound(r) PROVE Sound(r)'
    <3>1. \/ run'[r].status \in {run[r].status, "accepted"}
          \/ r \in Volatile /\ run'[r].status = "failed"
      BY <1>5, <2>3 DEF FindBlocked, files
    <3>2. cur'[p] = r /\ (pc'[p] \in Working \/ (pc'[p] = "close" /\ intent'[p] # "fail"))
            => own'[p].status \in {"accepted", "failed"}
      BY <1>5, <2>3 DEF FindBlocked, At, Forget, Working
    <3> QED
      BY <2>1, <2>3, <3>1, <3>2, SoundStep
  <2> QED
    BY <2>2, <2>3 DEF Teaches

<1>6. ASSUME NEW p \in Sessions, Load(p) PROVE Teaches
  <2>0. /\ Makes(p) /\ Locks(p) /\ Stands(p)
        /\ cur[p] \in Runs \/ pc[p] \in Away
    BY DEF VerdictInv, Typed, TypeOK, LocalTypes, Away
  <2>1. Others(p)
    BY <1>6 DEF Load, Forget, Goto, Others, Typed, TypeOK, LocalTypes
  <2>2. memory' = memory
    BY <1>6 DEF Load, files
  <2>3. ASSUME NEW r \in Runs, Sound(r) PROVE Sound(r)'
    <3>1. \/ run'[r].status \in {run[r].status, "accepted"}
          \/ r \in Volatile /\ run'[r].status = "failed"
      BY <1>6, <2>3 DEF Load, files
    <3>2. cur'[p] = r /\ (pc'[p] \in Working \/ (pc'[p] = "close" /\ intent'[p] # "fail"))
            => own'[p].status \in {"accepted", "failed"}
      BY <1>6, <2>3 DEF Load, Forget, Sound, Working, Typed, TypeOK, LocalTypes
    <3> QED
      BY <2>1, <2>3, <3>1, <3>2, SoundStep
  <2> QED
    BY <2>2, <2>3 DEF Teaches

<1>7. ASSUME NEW p \in Sessions, Bind(p) PROVE Teaches
  <2>0. /\ Makes(p) /\ Locks(p) /\ Stands(p)
        /\ cur[p] \in Runs \/ pc[p] \in Away
    BY DEF VerdictInv, Typed, TypeOK, LocalTypes, Away
  <2>1. Others(p)
    BY <1>7 DEF Bind, Jump, Goto, Forget, locals, Others, Typed, TypeOK, LocalTypes
  <2>2. memory' = memory
    BY <1>7 DEF Bind, files
  <2>3. ASSUME NEW r \in Runs, Sound(r) PROVE Sound(r)'
    <3>1. \/ run'[r].status \in {run[r].status, "accepted"}
          \/ r \in Volatile /\ run'[r].status = "failed"
      BY <1>7, <2>3 DEF Bind, files
    <3>2. cur'[p] = r /\ (pc'[p] \in Working \/ (pc'[p] = "close" /\ intent'[p] # "fail"))
            => own'[p].status \in {"accepted", "failed"}
      BY <1>7, <2>3 DEF Bind, Jump, Goto, Forget, Working, Typed, TypeOK, LocalTypes
    <3> QED
      BY <2>1, <2>3, <3>1, <3>2, SoundStep
  <2> QED
    BY <2>2, <2>3 DEF Teaches

<1>8. ASSUME NEW p \in Sessions, Decided(p) PROVE Teaches
  <2>0. /\ Makes(p) /\ Locks(p) /\ Stands(p)
        /\ cur[p] \in Runs \/ pc[p] \in Away
    BY DEF VerdictInv, Typed, TypeOK, LocalTypes, Away
  <2>1. Others(p)
    BY <1>8 DEF Decided, Jump, Goto, Forget, Intend, locals, Others, Typed, TypeOK, LocalTypes
  <2>2. memory' = memory
    BY <1>8 DEF Decided, files
  <2>3. ASSUME NEW r \in Runs, Sound(r) PROVE Sound(r)'
    <3>1. \/ run'[r].status \in {run[r].status, "accepted"}
          \/ r \in Volatile /\ run'[r].status = "failed"
      BY <1>8, <2>3 DEF Decided, files
    <3>2. cur'[p] = r /\ (pc'[p] \in Working \/ (pc'[p] = "close" /\ intent'[p] # "fail"))
            => own'[p].status \in {"accepted", "failed"}
      BY <1>8, <2>3 DEF Decided, Jump, Goto, Forget, Intend, Working, Typed, TypeOK, LocalTypes
    <3> QED
      BY <2>1, <2>3, <3>1, <3>2, SoundStep
  <2> QED
    BY <2>2, <2>3 DEF Teaches

<1>9. ASSUME NEW p \in Sessions, Verify(p) PROVE Teaches
  <2>0. /\ Makes(p) /\ Locks(p) /\ Stands(p)
        /\ cur[p] \in Runs \/ pc[p] \in Away
    BY DEF VerdictInv, Typed, TypeOK, LocalTypes, Away
  <2>1. Others(p)
    BY <1>9 DEF Verify, Jump, Goto, Intend, locals, Others, Typed, TypeOK, LocalTypes
  <2>2. memory' = memory
    BY <1>9 DEF Verify, files
  <2>3. ASSUME NEW r \in Runs, Sound(r) PROVE Sound(r)'
    <3>1. \/ run'[r].status \in {run[r].status, "accepted"}
          \/ r \in Volatile /\ run'[r].status = "failed"
      BY <1>9, <2>3 DEF Verify, files
    <3>2. cur'[p] = r /\ (pc'[p] \in Working \/ (pc'[p] = "close" /\ intent'[p] # "fail"))
            => own'[p].status \in {"accepted", "failed"}
      BY <1>9, <2>3 DEF Verify, Jump, Goto, Intend, Working, Typed, TypeOK, LocalTypes
    <3> QED
      BY <2>1, <2>3, <3>1, <3>2, SoundStep
  <2> QED
    BY <2>2, <2>3 DEF Teaches

<1>10. ASSUME NEW p \in Sessions, Answer(p) PROVE Teaches
  <2>0. /\ Makes(p) /\ Locks(p) /\ Stands(p)
        /\ cur[p] \in Runs \/ pc[p] \in Away
    BY DEF VerdictInv, Typed, TypeOK, LocalTypes, Away
  <2>1. Others(p)
    BY <1>10 DEF Answer, Intend, Goto, Others
  <2>2. memory' = memory
    BY <1>10 DEF Answer, files
  <2>3. ASSUME NEW r \in Runs, Sound(r) PROVE Sound(r)'
    <3>1. \/ run'[r].status \in {run[r].status, "accepted"}
          \/ r \in Volatile /\ run'[r].status = "failed"
      BY <1>10, <2>3 DEF Answer, files
    <3>2. cur'[p] = r /\ (pc'[p] \in Working \/ (pc'[p] = "close" /\ intent'[p] # "fail"))
            => own'[p].status \in {"accepted", "failed"}
      BY <1>10, <2>3 DEF Answer, At, Intend, Goto, Working
    <3> QED
      BY <2>1, <2>3, <3>1, <3>2, SoundStep
  <2> QED
    BY <2>2, <2>3 DEF Teaches

<1>11. ASSUME NEW p \in Sessions, Delete(p) PROVE Teaches
  <2>0. /\ Makes(p) /\ Locks(p) /\ Stands(p)
        /\ cur[p] \in Runs \/ pc[p] \in Away
    BY DEF VerdictInv, Typed, TypeOK, LocalTypes, Away
  <2>1. Others(p)
    BY <1>11 DEF Delete, Intend, Goto, Others
  <2>2. memory' = memory
    BY <1>11 DEF Delete
  <2>3. ASSUME NEW r \in Runs, Sound(r) PROVE Sound(r)'
    <3>1. \/ run'[r].status \in {run[r].status, "accepted"}
          \/ r \in Volatile /\ run'[r].status = "failed"
      BY <1>11, <2>3 DEF Delete
    <3>2. cur'[p] = r /\ (pc'[p] \in Working \/ (pc'[p] = "close" /\ intent'[p] # "fail"))
            => own'[p].status \in {"accepted", "failed"}
      BY <1>11, <2>3 DEF Delete, At, Intend, Goto, Working
    <3> QED
      BY <2>1, <2>3, <3>1, <3>2, SoundStep
  <2> QED
    BY <2>2, <2>3 DEF Teaches

<1>12. ASSUME NEW p \in Sessions, Lock(p) PROVE Teaches
  <2>0. /\ Makes(p) /\ Locks(p) /\ Stands(p)
        /\ cur[p] \in Runs \/ pc[p] \in Away
    BY DEF VerdictInv, Typed, TypeOK, LocalTypes, Away
  <2>1. Others(p)
    BY <1>12 DEF Lock, Jump, Goto, locals, Others
  <2>2. memory' = memory
    BY <1>12 DEF Lock, files
  <2>3. ASSUME NEW r \in Runs, Sound(r) PROVE Sound(r)'
    <3>1. \/ run'[r].status \in {run[r].status, "accepted"}
          \/ r \in Volatile /\ run'[r].status = "failed"
      BY <1>12, <2>3 DEF Lock, files
    <3>2. cur'[p] = r /\ (pc'[p] \in Working \/ (pc'[p] = "close" /\ intent'[p] # "fail"))
            => own'[p].status \in {"accepted", "failed"}
      BY <1>12, <2>3 DEF Lock, At, Jump, Goto, Working
    <3> QED
      BY <2>1, <2>3, <3>1, <3>2, SoundStep
  <2> QED
    BY <2>2, <2>3 DEF Teaches

<1>13. ASSUME NEW p \in Sessions, LockTimeout(p) PROVE Teaches
  <2>0. /\ Makes(p) /\ Locks(p) /\ Stands(p)
        /\ cur[p] \in Runs \/ pc[p] \in Away
    BY DEF VerdictInv, Typed, TypeOK, LocalTypes, Away
  <2>1. Others(p)
    BY <1>13 DEF LockTimeout, Forget, Others
  <2>2. memory' = memory
    BY <1>13 DEF LockTimeout, files
  <2>3. ASSUME NEW r \in Runs, Sound(r) PROVE Sound(r)'
    <3>1. \/ run'[r].status \in {run[r].status, "accepted"}
          \/ r \in Volatile /\ run'[r].status = "failed"
      BY <1>13, <2>3 DEF LockTimeout, files
    <3>2. cur'[p] = r /\ (pc'[p] \in Working \/ (pc'[p] = "close" /\ intent'[p] # "fail"))
            => own'[p].status \in {"accepted", "failed"}
      BY <1>13, <2>3 DEF LockTimeout, At, Forget, Working
    <3> QED
      BY <2>1, <2>3, <3>1, <3>2, SoundStep
  <2> QED
    BY <2>2, <2>3 DEF Teaches

<1>14. ASSUME NEW p \in Sessions, Unlock(p) PROVE Teaches
  <2>0. /\ Makes(p) /\ Locks(p) /\ Stands(p)
        /\ cur[p] \in Runs \/ pc[p] \in Away
    BY DEF VerdictInv, Typed, TypeOK, LocalTypes, Away
  <2>1. Others(p)
    BY <1>14 DEF Unlock, Forget, Others
  <2>2. memory' = memory
    BY <1>14 DEF Unlock, files
  <2>3. ASSUME NEW r \in Runs, Sound(r) PROVE Sound(r)'
    <3>1. \/ run'[r].status \in {run[r].status, "accepted"}
          \/ r \in Volatile /\ run'[r].status = "failed"
      BY <1>14, <2>3 DEF Unlock, files
    <3>2. cur'[p] = r /\ (pc'[p] \in Working \/ (pc'[p] = "close" /\ intent'[p] # "fail"))
            => own'[p].status \in {"accepted", "failed"}
      BY <1>14, <2>3 DEF Unlock, At, Forget, Working
    <3> QED
      BY <2>1, <2>3, <3>1, <3>2, SoundStep
  <2> QED
    BY <2>2, <2>3 DEF Teaches

<1>15. ASSUME NEW p \in Sessions, Reload(p) PROVE Teaches
  <2>0. /\ Makes(p) /\ Locks(p) /\ Stands(p)
        /\ cur[p] \in Runs \/ pc[p] \in Away
    BY DEF VerdictInv, Typed, TypeOK, LocalTypes, Away
  <2>1. Others(p)
    BY <1>15 DEF Reload, Goto, Others
  <2>2. memory' = memory
    BY <1>15 DEF Reload, files
  <2>3. ASSUME NEW r \in Runs, Sound(r) PROVE Sound(r)'
    <3>1. \/ run'[r].status \in {run[r].status, "accepted"}
          \/ r \in Volatile /\ run'[r].status = "failed"
      BY <1>15, <2>3 DEF Reload, files
    <3>2. cur'[p] = r /\ (pc'[p] \in Working \/ (pc'[p] = "close" /\ intent'[p] # "fail"))
            => own'[p].status \in {"accepted", "failed"}
      BY <1>15, <2>3 DEF Reload, Sound, Typed, TypeOK, LocalTypes
    <3> QED
      BY <2>1, <2>3, <3>1, <3>2, SoundStep
  <2> QED
    BY <2>2, <2>3 DEF Teaches

<1>16. ASSUME NEW p \in Sessions, Repending(p) PROVE Teaches
  <2>0. /\ Makes(p) /\ Locks(p) /\ Stands(p)
        /\ cur[p] \in Runs \/ pc[p] \in Away
    BY DEF VerdictInv, Typed, TypeOK, LocalTypes, Away
  <2>1. Others(p)
    BY <1>16 DEF Repending, Jump, Goto, locals, Others
  <2>2. memory' = memory
    BY <1>16 DEF Repending, files
  <2>3. ASSUME NEW r \in Runs, Sound(r) PROVE Sound(r)'
    <3>1. \/ run'[r].status \in {run[r].status, "accepted"}
          \/ r \in Volatile /\ run'[r].status = "failed"
      BY <1>16, <2>3 DEF Repending, files
    <3>2. cur'[p] = r /\ (pc'[p] \in Working \/ (pc'[p] = "close" /\ intent'[p] # "fail"))
            => own'[p].status \in {"accepted", "failed"}
      BY <1>16, <2>3 DEF Repending, At, Jump, locals, Sound, Working
    <3> QED
      BY <2>1, <2>3, <3>1, <3>2, SoundStep
  <2> QED
    BY <2>2, <2>3 DEF Teaches

<1>17. ASSUME NEW p \in Sessions, Rebind(p) PROVE Teaches
  <2>0. /\ Makes(p) /\ Locks(p) /\ Stands(p)
        /\ cur[p] \in Runs \/ pc[p] \in Away
    BY DEF VerdictInv, Typed, TypeOK, LocalTypes, Away
  <2>1. Others(p)
    BY <1>17 DEF Rebind, Jump, Goto, Intend, locals, Others, Typed, TypeOK, LocalTypes
  <2>2. memory' = memory
    BY <1>17 DEF Rebind, files
  <2>3. ASSUME NEW r \in Runs, Sound(r) PROVE Sound(r)'
    <3>1. \/ run'[r].status \in {run[r].status, "accepted"}
          \/ r \in Volatile /\ run'[r].status = "failed"
      BY <1>17, <2>3 DEF Rebind, files
    <3>2. cur'[p] = r /\ (pc'[p] \in Working \/ (pc'[p] = "close" /\ intent'[p] # "fail"))
            => own'[p].status \in {"accepted", "failed"}
      BY <1>17, <2>3 DEF Rebind, At, Jump, Intend, locals, Sound, Working
    <3> QED
      BY <2>1, <2>3, <3>1, <3>2, SoundStep
  <2> QED
    BY <2>2, <2>3 DEF Teaches

<1>18. ASSUME NEW p \in Sessions, Settle(p) PROVE Teaches
  <2>0. /\ Makes(p) /\ Locks(p) /\ Stands(p)
        /\ cur[p] \in Runs \/ pc[p] \in Away
    BY DEF VerdictInv, Typed, TypeOK, LocalTypes, Away
  <2>1. Others(p)
    BY <1>18 DEF Settle, Jump, Goto, locals, Others
  <2>2. memory' = memory
    BY <1>18 DEF Settle, files
  <2>3. ASSUME NEW r \in Runs, Sound(r) PROVE Sound(r)'
    <3>1. \/ run'[r].status \in {run[r].status, "accepted"}
          \/ r \in Volatile /\ run'[r].status = "failed"
      BY <1>18, <2>3 DEF Settle, files
    <3>2. cur'[p] = r /\ (pc'[p] \in Working \/ (pc'[p] = "close" /\ intent'[p] # "fail"))
            => own'[p].status \in {"accepted", "failed"}
      BY <1>18, <2>3 DEF Settle, At, Jump, locals, Sound, Working
    <3> QED
      BY <2>1, <2>3, <3>1, <3>2, SoundStep
  <2> QED
    BY <2>2, <2>3 DEF Teaches

<1>19. ASSUME NEW p \in Sessions, Pack(p) PROVE Teaches
  <2>0. /\ Makes(p) /\ Locks(p) /\ Stands(p)
        /\ cur[p] \in Runs \/ pc[p] \in Away
    BY DEF VerdictInv, Typed, TypeOK, LocalTypes, Away
  <2>1. Others(p)
    BY <1>19 DEF Pack, Jump, Goto, GiveUp, Intend, locals, Others, Typed, TypeOK, LocalTypes
  <2>2. memory' = memory
    BY <1>19 DEF Pack
  <2>3. ASSUME NEW r \in Runs, Sound(r) PROVE Sound(r)'
    <3>1. \/ run'[r].status \in {run[r].status, "accepted"}
          \/ r \in Volatile /\ run'[r].status = "failed"
      BY <1>19, <2>3 DEF Pack
    <3>2. cur'[p] = r /\ (pc'[p] \in Working \/ (pc'[p] = "close" /\ intent'[p] # "fail"))
            => own'[p].status \in {"accepted", "failed"}
      BY <1>19, <2>3 DEF Pack, At, Jump, GiveUp, Intend, locals, Sound, Working
    <3> QED
      BY <2>1, <2>3, <3>1, <3>2, SoundStep
  <2> QED
    BY <2>2, <2>3 DEF Teaches

<1>20. ASSUME NEW p \in Sessions, After(p) PROVE Teaches
  <2>0. /\ Makes(p) /\ Locks(p) /\ Stands(p)
        /\ cur[p] \in Runs \/ pc[p] \in Away
    BY DEF VerdictInv, Typed, TypeOK, LocalTypes, Away
  <2>1. Others(p)
    BY <1>20
       DEF After, Jump, Goto, GiveUp, Intend, Remember, locals, Others, Typed, TypeOK,
           LocalTypes
  <2>2. memory' = memory
    BY <1>20 DEF After, files
  <2>3. ASSUME NEW r \in Runs, Sound(r) PROVE Sound(r)'
    <3>1. \/ run'[r].status \in {run[r].status, "accepted"}
          \/ r \in Volatile /\ run'[r].status = "failed"
      BY <1>20, <2>3 DEF After, files
    <3>2. cur'[p] = r /\ (pc'[p] \in Working \/ (pc'[p] = "close" /\ intent'[p] # "fail"))
            => own'[p].status \in {"accepted", "failed"}
      BY <1>20, <2>3 DEF After, At, Jump, GiveUp, Intend, Remember, locals, Sound, Working
    <3> QED
      BY <2>1, <2>3, <3>1, <3>2, SoundStep
  <2> QED
    BY <2>2, <2>3 DEF Teaches

<1>21. ASSUME NEW p \in Sessions, Unpack(p) PROVE Teaches
  <2>0. /\ Makes(p) /\ Locks(p) /\ Stands(p)
        /\ cur[p] \in Runs \/ pc[p] \in Away
    BY DEF VerdictInv, Typed, TypeOK, LocalTypes, Away
  <2>1. Others(p)
    BY <1>21 DEF Unpack, Jump, Goto, locals, Others
  <2>2. memory' = memory
    BY <1>21 DEF Unpack
  <2>3. ASSUME NEW r \in Runs, Sound(r) PROVE Sound(r)'
    <3>1. \/ run'[r].status \in {run[r].status, "accepted"}
          \/ r \in Volatile /\ run'[r].status = "failed"
      BY <1>21, <2>3 DEF Unpack
    <3>2. cur'[p] = r /\ (pc'[p] \in Working \/ (pc'[p] = "close" /\ intent'[p] # "fail"))
            => own'[p].status \in {"accepted", "failed"}
      BY <1>21, <2>3 DEF Unpack, At, Jump, locals, Sound, Working
    <3> QED
      BY <2>1, <2>3, <3>1, <3>2, SoundStep
  <2> QED
    BY <2>2, <2>3 DEF Teaches

<1>22. ASSUME NEW p \in Sessions, Mark(p) PROVE Teaches
  <2>0. /\ Makes(p) /\ Locks(p) /\ Stands(p)
        /\ cur[p] \in Runs \/ pc[p] \in Away
    BY DEF VerdictInv, Typed, TypeOK, LocalTypes, Away
  <2>1. Others(p)
    BY <1>22 DEF Mark, Jump, Goto, locals, Others, Typed, TypeOK, LocalTypes
  <2>2. memory' = memory
    BY <1>22 DEF Mark
  <2>3. ASSUME NEW r \in Runs, Sound(r) PROVE Sound(r)'
    <3>1. \/ run'[r].status \in {run[r].status, "accepted"}
          \/ r \in Volatile /\ run'[r].status = "failed"
      BY <1>22, <2>3 DEF Mark
    <3>2. cur'[p] = r /\ (pc'[p] \in Working \/ (pc'[p] = "close" /\ intent'[p] # "fail"))
            => own'[p].status \in {"accepted", "failed"}
      BY <1>22, <2>3 DEF Mark, At, Jump, locals, Sound, Working
    <3> QED
      BY <2>1, <2>3, <3>1, <3>2, SoundStep
  <2> QED
    BY <2>2, <2>3 DEF Teaches

<1>23. ASSUME NEW p \in Sessions, Learn(p) PROVE Teaches
  <2>0. /\ Makes(p) /\ Locks(p) /\ Stands(p)
        /\ cur[p] \in Runs \/ pc[p] \in Away
    BY DEF VerdictInv, Typed, TypeOK, LocalTypes, Away
  <2>1. Others(p)
    BY <1>23 DEF Learn, Others
  <2>3. ASSUME NEW r \in Runs, Sound(r) PROVE Sound(r)'
    <3>1. \/ run'[r].status \in {run[r].status, "accepted"}
          \/ r \in Volatile /\ run'[r].status = "failed"
      BY <1>23, <2>3 DEF Learn
    <3>2. cur'[p] = r /\ (pc'[p] \in Working \/ (pc'[p] = "close" /\ intent'[p] # "fail"))
            => own'[p].status \in {"accepted", "failed"}
      BY <1>23, <2>3 DEF Learn, Sound
    <3> QED
      BY <2>1, <2>3, <3>1, <3>2, SoundStep
  <2>4. Sound(cur[p])
    <3>1. /\ own[p].status = "accepted" /\ cur[p] \in Runs
          /\ run[cur[p]].status = "accepted" \/ (cur[p] \in Volatile /\ run[cur[p]].status = "failed")
      BY <1>23, <2>0 DEF Learn, At, Stands, Makes, Maker, Locks, Same, Working, Away
    <3>2. ASSUME NEW q \in Sessions, cur[q] = cur[p],
                 pc[q] \in Working \/ (pc[q] = "close" /\ intent[q] # "fail")
          PROVE  q = p
      <4>1. pc[q] \notin Away /\ (cur[p] \in CliRuns => Maker(p))
        BY <1>23, <3>2 DEF Learn, At, Maker, Working, Away
      <4>2. CASE cur[p] \in CliRuns
        BY <3>2, <4>1, <4>2 DEF VerdictInv, Sole
      <4>3. CASE cur[p] \notin CliRuns
        <5>1. Holds(q) /\ Holds(p)
          BY <1>23, <3>2, <4>3 DEF Learn, At, VerdictInv, Locks, Working, Ending, Rogue
        <5> QED
          BY <3>2, <5>1 DEF Holds
      <4> QED
        BY <4>2, <4>3
    <3> QED
      BY <3>1, <3>2 DEF Sound
  <2>5. ASSUME NEW m \in memory' \ memory PROVE m \in Candidates[cur[p]]
    BY <1>23, <2>0, <2>5 DEF Learn, At, Stands
  <2>6. cur[p] \in Runs
    BY <1>23, <2>0 DEF Learn, At, Away
  <2> QED
    BY <2>3, <2>4, <2>5, <2>6 DEF Teaches

<1>24. ASSUME NEW p \in Sessions, Learned(p) PROVE Teaches
  <2>0. /\ Makes(p) /\ Locks(p) /\ Stands(p)
        /\ cur[p] \in Runs \/ pc[p] \in Away
    BY DEF VerdictInv, Typed, TypeOK, LocalTypes, Away
  <2>1. Others(p)
    BY <1>24 DEF Learned, Jump, Goto, locals, Others
  <2>2. memory' = memory
    BY <1>24 DEF Learned, files
  <2>3. ASSUME NEW r \in Runs, Sound(r) PROVE Sound(r)'
    <3>1. \/ run'[r].status \in {run[r].status, "accepted"}
          \/ r \in Volatile /\ run'[r].status = "failed"
      BY <1>24, <2>3 DEF Learned, files
    <3>2. cur'[p] = r /\ (pc'[p] \in Working \/ (pc'[p] = "close" /\ intent'[p] # "fail"))
            => own'[p].status \in {"accepted", "failed"}
      BY <1>24, <2>3 DEF Learned, At, Jump, locals, Sound, Working
    <3> QED
      BY <2>1, <2>3, <3>1, <3>2, SoundStep
  <2> QED
    BY <2>2, <2>3 DEF Teaches

<1>25. ASSUME NEW p \in Sessions, Verdict(p) PROVE Teaches
  <2>0. /\ Makes(p) /\ Locks(p) /\ Stands(p)
        /\ cur[p] \in Runs \/ pc[p] \in Away
    BY DEF VerdictInv, Typed, TypeOK, LocalTypes, Away
  <2>1. Others(p)
    BY <1>25 DEF Verdict, Jump, Goto, locals, Others
  <2>2. memory' = memory
    BY <1>25 DEF Verdict, files
  <2>3. ASSUME NEW r \in Runs, Sound(r) PROVE Sound(r)'
    <3>1. \/ run'[r].status \in {run[r].status, "accepted"}
          \/ r \in Volatile /\ run'[r].status = "failed"
      BY <1>25, <2>3 DEF Verdict, files
    <3>2. cur'[p] = r /\ (pc'[p] \in Working \/ (pc'[p] = "close" /\ intent'[p] # "fail"))
            => own'[p].status \in {"accepted", "failed"}
      BY <1>25, <2>3 DEF Verdict, At, Jump, locals, Sound, Working
    <3> QED
      BY <2>1, <2>3, <3>1, <3>2, SoundStep
  <2> QED
    BY <2>2, <2>3 DEF Teaches

<1>26. ASSUME NEW p \in Sessions, ClosePack(p) PROVE Teaches
  <2>0. /\ Makes(p) /\ Locks(p) /\ Stands(p)
        /\ cur[p] \in Runs \/ pc[p] \in Away
    BY DEF VerdictInv, Typed, TypeOK, LocalTypes, Away
  <2>1. Others(p)
    BY <1>26 DEF ClosePack, Jump, Goto, locals, Others
  <2>2. memory' = memory
    BY <1>26 DEF ClosePack
  <2>3. ASSUME NEW r \in Runs, Sound(r) PROVE Sound(r)'
    <3>1. \/ run'[r].status \in {run[r].status, "accepted"}
          \/ r \in Volatile /\ run'[r].status = "failed"
      BY <1>26, <2>3 DEF ClosePack
    <3>2. cur'[p] = r /\ (pc'[p] \in Working \/ (pc'[p] = "close" /\ intent'[p] # "fail"))
            => own'[p].status \in {"accepted", "failed"}
      BY <1>26, <2>3 DEF ClosePack, At, Jump, Goto, Working
    <3> QED
      BY <2>1, <2>3, <3>1, <3>2, SoundStep
  <2> QED
    BY <2>2, <2>3 DEF Teaches

<1>27. ASSUME NEW p \in Sessions, Crash(p) PROVE Teaches
  <2>0. /\ Makes(p) /\ Locks(p) /\ Stands(p)
        /\ cur[p] \in Runs \/ pc[p] \in Away
    BY DEF VerdictInv, Typed, TypeOK, LocalTypes, Away
  <2>1. Others(p)
    BY <1>27 DEF Crash, Forget, env, Others
  <2>2. memory' = memory
    BY <1>27 DEF Crash, files, locals, env
  <2>3. ASSUME NEW r \in Runs, Sound(r) PROVE Sound(r)'
    <3>1. \/ run'[r].status \in {run[r].status, "accepted"}
          \/ r \in Volatile /\ run'[r].status = "failed"
      BY <1>27, <2>3 DEF Crash, files, locals, env
    <3>2. cur'[p] = r /\ (pc'[p] \in Working \/ (pc'[p] = "close" /\ intent'[p] # "fail"))
            => own'[p].status \in {"accepted", "failed"}
      BY <1>27, <2>3 DEF Crash, Forget, env, Working, Typed, TypeOK, LocalTypes
    <3> QED
      BY <2>1, <2>3, <3>1, <3>2, SoundStep
  <2> QED
    BY <2>2, <2>3 DEF Teaches

<1>28. ASSUME NEW p \in Sessions, Create(p) PROVE Teaches
  <2>0. /\ Makes(p) /\ Locks(p) /\ Stands(p)
        /\ cur[p] \in Runs \/ pc[p] \in Away
    BY DEF VerdictInv, Typed, TypeOK, LocalTypes, Away
  <2>1. Others(p)
    BY <1>28 DEF Create, Jump, Goto, locals, Others, Typed, TypeOK, LocalTypes
  <2>2. memory' = memory
    BY <1>28 DEF Create
  <2>3. ASSUME NEW r \in Runs, Sound(r) PROVE Sound(r)'
    <3>1. \/ run'[r].status \in {run[r].status, "accepted"}
          \/ r \in Volatile /\ run'[r].status = "failed"
      BY <1>28, <2>0, <2>3
         DEF Create, At, SaveOwn, Sound, Makes, Maker, Making, NoRun, Typed, TypeOK,
             FileTypes
    <3>2. cur'[p] = r /\ (pc'[p] \in Working \/ (pc'[p] = "close" /\ intent'[p] # "fail"))
            => own'[p].status \in {"accepted", "failed"}
      BY <1>28, <2>3 DEF Create, Jump, Goto, Working, Typed, TypeOK, LocalTypes
    <3> QED
      BY <2>1, <2>3, <3>1, <3>2, SoundStep
  <2> QED
    BY <2>2, <2>3 DEF Teaches

<1>29. ASSUME NEW p \in Sessions, Final(p) PROVE Teaches
  <2>0. /\ Makes(p) /\ Locks(p) /\ Stands(p)
        /\ cur[p] \in Runs \/ pc[p] \in Away
    BY DEF VerdictInv, Typed, TypeOK, LocalTypes, Away
  <2>1. Others(p)
    BY <1>29 DEF Final, Jump, Goto, Forget, locals, Others, Typed, TypeOK, LocalTypes
  <2>2. memory' = memory
    BY <1>29 DEF Final
  <2>3. ASSUME NEW r \in Runs, Sound(r) PROVE Sound(r)'
    <3>1. \/ run'[r].status \in {run[r].status, "accepted"}
          \/ r \in Volatile /\ run'[r].status = "failed"
      BY <1>29, <2>0, <2>3
         DEF Final, At, SaveOwn, Sound, Makes, Maker, Making, NoRun, Typed, TypeOK,
             FileTypes
    <3>2. cur'[p] = r /\ (pc'[p] \in Working \/ (pc'[p] = "close" /\ intent'[p] # "fail"))
            => own'[p].status \in {"accepted", "failed"}
      BY <1>29, <2>3 DEF Final, Jump, Goto, Forget, Working, Typed, TypeOK, LocalTypes
    <3> QED
      BY <2>1, <2>3, <3>1, <3>2, SoundStep
  <2> QED
    BY <2>2, <2>3 DEF Teaches

<1>30. ASSUME NEW p \in Sessions, Receipt(p) PROVE Teaches
  <2>0. /\ Makes(p) /\ Locks(p) /\ Stands(p)
        /\ cur[p] \in Runs \/ pc[p] \in Away
    BY DEF VerdictInv, Typed, TypeOK, LocalTypes, Away
  <2>1. Others(p)
    BY <1>30 DEF Receipt, Jump, Goto, locals, Others, Typed, TypeOK, LocalTypes
  <2>2. memory' = memory
    BY <1>30 DEF Receipt
  <2>3. ASSUME NEW r \in Runs, Sound(r) PROVE Sound(r)'
    <3>1. \/ run'[r].status \in {run[r].status, "accepted"}
          \/ r \in Volatile /\ run'[r].status = "failed"
      BY <1>30, <2>3 DEF Receipt
    <3>2. cur'[p] = r /\ (pc'[p] \in Working \/ (pc'[p] = "close" /\ intent'[p] # "fail"))
            => own'[p].status \in {"accepted", "failed"}
      BY <1>30, <2>3 DEF Receipt, Jump, Goto, Working, Typed, TypeOK, LocalTypes
    <3> QED
      BY <2>1, <2>3, <3>1, <3>2, SoundStep
  <2> QED
    BY <2>2, <2>3 DEF Teaches

<1>31. ASSUME NEW p \in Sessions, Abort(p) PROVE Teaches
  <2>0. /\ Makes(p) /\ Locks(p) /\ Stands(p)
        /\ own[p] \in RunRecord /\ (cur[p] \in Runs \/ pc[p] \in Away)
    BY DEF VerdictInv, Typed, TypeOK, LocalTypes, Away
  <2>1. Others(p)
    BY <1>31 DEF Abort, Forget, Others
  <2>2. memory' = memory
    BY <1>31 DEF Abort
  <2>3. ASSUME NEW r \in Runs, Sound(r) PROVE Sound(r)'
    <3>1. \/ run'[r].status \in {run[r].status, "accepted"}
          \/ r \in Volatile /\ run'[r].status = "failed"
      BY <1>31, <2>0, <2>3
         DEF Abort, At, Sound, Makes, Maker, Making, Stands, NoRun, Typed, TypeOK,
             FileTypes
    <3>2. cur'[p] = r /\ (pc'[p] \in Working \/ (pc'[p] = "close" /\ intent'[p] # "fail"))
            => own'[p].status \in {"accepted", "failed"}
      BY <1>31, <2>3 DEF Abort, At, Forget, Working
    <3> QED
      BY <2>1, <2>3, <3>1, <3>2, SoundStep
  <2> QED
    BY <2>2, <2>3 DEF Teaches

<1>32. ASSUME NEW p \in Sessions, Note(p) PROVE Teaches
  <2>0. /\ Makes(p) /\ Locks(p) /\ Stands(p)
        /\ own[p] \in RunRecord /\ (cur[p] \in Runs \/ pc[p] \in Away)
    BY DEF VerdictInv, Typed, TypeOK, LocalTypes, Away
  <2>1. Others(p)
    BY <1>32 DEF Note, Goto, Others
  <2>2. memory' = memory
    BY <1>32 DEF Note
  <2>3. ASSUME NEW r \in Runs, Sound(r) PROVE Sound(r)'
    <3>1. \/ run'[r].status \in {run[r].status, "accepted"}
          \/ r \in Volatile /\ run'[r].status = "failed"
      BY <1>32, <2>0, <2>3
         DEF Note, At, Sound, Makes, Maker, Making, Stands, NoRun, Typed, TypeOK,
             FileTypes
    <3>2. cur'[p] = r /\ (pc'[p] \in Working \/ (pc'[p] = "close" /\ intent'[p] # "fail"))
            => own'[p].status \in {"accepted", "failed"}
      BY <1>32, <2>3 DEF Note, Goto, Sound, Working
    <3> QED
      BY <2>1, <2>3, <3>1, <3>2, SoundStep
  <2> QED
    BY <2>2, <2>3 DEF Teaches

<1>33. ASSUME NEW p \in Sessions, Decide(p) PROVE Teaches
  <2>0. /\ Makes(p) /\ Locks(p) /\ Stands(p)
        /\ cur[p] \in Runs \/ pc[p] \in Away
    BY DEF VerdictInv, Typed, TypeOK, LocalTypes, Away
  <2>1. Others(p)
    BY <1>33 DEF Decide, Jump, Goto, locals, Others, Typed, TypeOK, LocalTypes
  <2>2. memory' = memory
    BY <1>33 DEF Decide
  <2>3. ASSUME NEW r \in Runs, Sound(r) PROVE Sound(r)'
    <3>1. \/ run'[r].status \in {run[r].status, "accepted"}
          \/ r \in Volatile /\ run'[r].status = "failed"
      BY <1>33, <2>3 DEF Decide
    <3>2. cur'[p] = r /\ (pc'[p] \in Working \/ (pc'[p] = "close" /\ intent'[p] # "fail"))
            => own'[p].status \in {"accepted", "failed"}
      BY <1>33, <2>3 DEF Decide, At, Jump, locals, Sound, Working
    <3> QED
      BY <2>1, <2>3, <3>1, <3>2, SoundStep
  <2> QED
    BY <2>2, <2>3 DEF Teaches

<1>34. ASSUME NEW p \in Sessions, Accept(p) PROVE Teaches
  <2>0. /\ Makes(p) /\ Locks(p) /\ Stands(p)
        /\ own[p] \in RunRecord /\ (cur[p] \in Runs \/ pc[p] \in Away)
    BY DEF VerdictInv, Typed, TypeOK, LocalTypes, Away
  <2>1. Others(p)
    BY <1>34 DEF Accept, Jump, Goto, locals, Others, Typed, TypeOK, LocalTypes
  <2>2. memory' = memory
    BY <1>34 DEF Accept
  <2>3. ASSUME NEW r \in Runs, Sound(r) PROVE Sound(r)'
    <3>1. \/ run'[r].status \in {run[r].status, "accepted"}
          \/ r \in Volatile /\ run'[r].status = "failed"
      BY <1>34, <2>0, <2>3 DEF Accept, At, Sound, Stands, Working, Typed, TypeOK, FileTypes
    <3>2. cur'[p] = r /\ (pc'[p] \in Working \/ (pc'[p] = "close" /\ intent'[p] # "fail"))
            => own'[p].status \in {"accepted", "failed"}
      BY <1>34, <2>0, <2>3
         DEF Accept, At, Jump, Goto, Sound, Stands, Working, Typed, TypeOK, LocalTypes
    <3> QED
      BY <2>1, <2>3, <3>1, <3>2, SoundStep
  <2> QED
    BY <2>2, <2>3 DEF Teaches

<1>35. ASSUME NEW p \in Sessions, Commit(p) PROVE Teaches
  <2>0. /\ Makes(p) /\ Locks(p) /\ Stands(p)
        /\ own[p] \in RunRecord /\ (cur[p] \in Runs \/ pc[p] \in Away)
    BY DEF VerdictInv, Typed, TypeOK, LocalTypes, Away
  <2>1. Others(p)
    BY <1>35 DEF Commit, Jump, Goto, locals, Others, Typed, TypeOK, LocalTypes
  <2>2. memory' = memory
    BY <1>35 DEF Commit
  <2>3. ASSUME NEW r \in Runs, Sound(r) PROVE Sound(r)'
    <3> DEFINE rec == [own[p] EXCEPT !.memory_commit = "committed"]
    <3>a. rec.status = own[p].status
      BY <2>0
    <3> HIDE DEF rec
    <3>b. /\ (run'[cur[p]] = rec /\ own'[p] = rec) \/ (run' = run /\ own' = own)
          /\ cur' = cur /\ pc'[p] \in {"final", "remove", "unlock"}
          /\ \A q \in Runs : q # cur[p] => run'[q] = run[q]
      BY <1>35 DEF Commit, Jump, Goto, Resume, locals, rec, Typed, TypeOK, LocalTypes, FileTypes
    <3>1. \/ run'[r].status \in {run[r].status, "accepted"}
          \/ r \in Volatile /\ run'[r].status = "failed"
      BY <1>35, <2>0, <2>3, <3>a, <3>b DEF Commit, At, Stands
    <3>2. cur'[p] = r /\ (pc'[p] \in Working \/ (pc'[p] = "close" /\ intent'[p] # "fail"))
            => own'[p].status \in {"accepted", "failed"}
      BY <1>35, <2>0, <3>a, <3>b DEF Commit, At, Stands
    <3> QED
      BY <2>1, <2>3, <3>1, <3>2, SoundStep
  <2> QED
    BY <2>2, <2>3 DEF Teaches

<1>36. ASSUME NEW p \in Sessions, Remove(p) PROVE Teaches
  <2>0. /\ Makes(p) /\ Locks(p) /\ Stands(p)
        /\ cur[p] \in Runs \/ pc[p] \in Away
    BY DEF VerdictInv, Typed, TypeOK, LocalTypes, Away
  <2>1. Others(p)
    BY <1>36 DEF Remove, Jump, Goto, locals, Others
  <2>2. memory' = memory
    BY <1>36 DEF Remove
  <2>3. ASSUME NEW r \in Runs, Sound(r) PROVE Sound(r)'
    <3>1. \/ run'[r].status \in {run[r].status, "accepted"}
          \/ r \in Volatile /\ run'[r].status = "failed"
      BY <1>36, <2>3 DEF Remove
    <3>2. cur'[p] = r /\ (pc'[p] \in Working \/ (pc'[p] = "close" /\ intent'[p] # "fail"))
            => own'[p].status \in {"accepted", "failed"}
      BY <1>36, <2>3 DEF Remove, Jump, Goto, Working, Typed, TypeOK, LocalTypes
    <3> QED
      BY <2>1, <2>3, <3>1, <3>2, SoundStep
  <2> QED
    BY <2>2, <2>3 DEF Teaches

<1>37. ASSUME NEW p \in Sessions, Close(p) PROVE Teaches
  <2>0. /\ Makes(p) /\ Locks(p) /\ Stands(p)
        /\ own[p] \in RunRecord /\ (cur[p] \in Runs \/ pc[p] \in Away)
    BY DEF VerdictInv, Typed, TypeOK, LocalTypes, Away
  <2>1. Others(p)
    BY <1>37 DEF Close, Jump, Goto, locals, Others, Typed, TypeOK, LocalTypes
  <2>2. memory' = memory
    BY <1>37 DEF Close
  <2>3. ASSUME NEW r \in Runs, Sound(r) PROVE Sound(r)'
    <3> DEFINE rec == ClosedAs(own[p], ClosingStatus(intent[p]))
    <3>a. rec.status \in Closed /\ (intent[p] = "fail" => rec.status = "failed")
      BY <2>0, Statuses, Closes
    <3> HIDE DEF rec
    <3>b. /\ (run'[cur[p]] = rec /\ own'[p] = rec) \/ (run' = run /\ own' = own)
          /\ cur' = cur /\ pc'[p] \in {"closePack", "unlock"}
          /\ \A q \in Runs : q # cur[p] => run'[q] = run[q]
      BY <1>37 DEF Close, Jump, Goto, locals, rec, Typed, TypeOK, LocalTypes, FileTypes
    <3>1. \/ run'[r].status \in {run[r].status, "accepted"}
          \/ r \in Volatile /\ run'[r].status = "failed"
      BY <1>37, <2>0, <2>3, <3>a, <3>b DEF Close, At, Sound, Locks, Same, Rogue, Stands, Ending
    <3>2. cur'[p] = r /\ (pc'[p] \in Working \/ (pc'[p] = "close" /\ intent'[p] # "fail"))
            => own'[p].status \in {"accepted", "failed"}
      BY <1>37, <3>a, <3>b DEF Close, Working
    <3> QED
      BY <2>1, <2>3, <3>1, <3>2, SoundStep
  <2> QED
    BY <2>2, <2>3 DEF Teaches

<1>38. ASSUME NEW p \in Sessions, ClosePending(p) PROVE Teaches
  <2>0. /\ Makes(p) /\ Locks(p) /\ Stands(p)
        /\ cur[p] \in Runs \/ pc[p] \in Away
    BY DEF VerdictInv, Typed, TypeOK, LocalTypes, Away
  <2>1. Others(p)
    BY <1>38 DEF ClosePending, Jump, Goto, locals, Others
  <2>2. memory' = memory
    BY <1>38 DEF ClosePending
  <2>3. ASSUME NEW r \in Runs, Sound(r) PROVE Sound(r)'
    <3>1. \/ run'[r].status \in {run[r].status, "accepted"}
          \/ r \in Volatile /\ run'[r].status = "failed"
      BY <1>38, <2>3 DEF ClosePending
    <3>2. cur'[p] = r /\ (pc'[p] \in Working \/ (pc'[p] = "close" /\ intent'[p] # "fail"))
            => own'[p].status \in {"accepted", "failed"}
      BY <1>38, <2>3 DEF ClosePending, At, Jump, Goto, Working
    <3> QED
      BY <2>1, <2>3, <3>1, <3>2, SoundStep
  <2> QED
    BY <2>2, <2>3 DEF Teaches

<1>39. ASSUME NEW r \in Runs, Reclaim(r) \/ Change(r) PROVE Teaches
  BY <1>39 DEF Reclaim, Change, Teaches, Sound, files, locals
<1>40. CASE UNCHANGED vars
  BY <1>40 DEF vars, files, locals, Teaches, Sound
<1> QED
  BY <1>0, <1>1, <1>2, <1>3, <1>4, <1>5, <1>6, <1>7, <1>8, <1>9, <1>10, <1>11, <1>12, <1>13,
     <1>14, <1>15, <1>16, <1>17, <1>18, <1>19, <1>20, <1>21, <1>22, <1>23, <1>24, <1>25,
     <1>26, <1>27, <1>28, <1>29, <1>30, <1>31, <1>32, <1>33, <1>34, <1>35, <1>36, <1>37,
     <1>38, <1>39, <1>40
     DEF Next, Run, User

-----------------------------------------------------------------------------
(* The verdict invariant and the lessons, in every reachable state. *)
LEMMA Settlement ==
  ASSUME PromptCreator
  PROVE  Spec => [](Typed /\ BackedInv /\ VerdictInv /\ Taught)
<1>1. Init => VerdictInv /\ Taught
  BY DEF Init, VerdictInv, Taught, Sole, Makes, Maker, Making, Locks, Working, Ending, Stands,
     Away,
         Keeps, Tells
<1>2. PromptCreator /\ Typed /\ VerdictInv /\ Taught /\ [Next]_vars /\ Typed' => VerdictInv' /\ Taught'
  BY VerdictsStay, LessonsStay
<1>3. PromptCreator
  OBVIOUS
<1> QED
  BY <1>1, <1>2, <1>3, Backing, PTL DEF Spec

(* Nobody is told that a run was accepted and, before or after, that it was
   rejected (settlePendingTaskApproval reads the run again under the lock), if
   nobody finds a receipt before its creator has noted it. *)
THEOREM VerdictsHold == ASSUME PromptCreator PROVE Spec => []VerdictsAgree
<1>1. VerdictInv /\ Typed => VerdictsAgree
  <2> SUFFICES ASSUME VerdictInv, NEW r \in Runs \ Volatile, told[r] = {"accepted", "rejected"}
               PROVE  FALSE
    BY DEF VerdictsAgree
  <2>1. run[r].status = "accepted" /\ run[r].status \in Closed
    BY DEF VerdictInv, Tells
  <2> QED
    BY <2>1 DEF Closed
<1> QED
  BY <1>1, Settlement, PTL

(* Memory holds no lesson that some accepted run did not stage
   (commitAcceptedTaskMemory, and the commit of a terminal session). *)
THEOREM LessonsAreAccepted == ASSUME PromptCreator PROVE Spec => []LearnedOnlyFromAccepted
<1>1. Taught => LearnedOnlyFromAccepted
  BY DEF Taught, Sound, LearnedOnlyFromAccepted
<1> QED
  BY <1>1, Settlement, PTL

-----------------------------------------------------------------------------
(* Receipts and ProofPacks.  Whoever settles a run not accepted yet found its
   receipt under the lock, and nobody else removes it meanwhile; the receipt
   goes once memory is committed, and a ProofPack only with a run that is not
   accepted. *)

(* The control points of a settlement that has found its receipt, *)
Accounted == {"rebind", "decide", "settle", "pack", "after", "mark", "accept"}

(* and those at which the ProofPack of the decision is in place. *)
Packed == {"after", "mark", "accept"}

(* The runs that a workbench settles and whose deliverable nobody changes. *)
Steady == Runs \ (CliRuns \union Volatile)

(* What an accepted run keeps beside it. *)
Furnished(r) ==
  r \in Steady /\ run[r].status = "accepted" =>
    /\ run[r].memory_commit = "staged" => pending[r]
    /\ decision[r] # None /\ pack[r] = decision[r].by

(* What a settling session relies on: a run not accepted yet has its receipt,
   the ProofPack is the decision's, and the receipt goes last. *)
Relies(p) ==
  cur[p] \in Steady =>
    /\ pc[p] \in {"create", "final"} => own[p].status # "accepted"
    /\ pc[p] \in Accounted /\ own[p].status = "delivered" => pending[cur[p]]
    /\ pc[p] \in Packed => pack[cur[p]] = decision[cur[p]].by
    /\ pc[p] = "remove" => own[p].memory_commit # "staged"

ReceiptInv ==
  /\ \A r \in Runs : Furnished(r)
  /\ \A p \in Sessions : Relies(p)

(* The step writes nothing that the invariant is about. *)
Plain == UNCHANGED <<run, pending, decision, pack>>

(* A step writes about its own run only, as its creator or under its lock. *)
OwnOnly(p) ==
  /\ pc[p] \notin Away
  /\ \A r \in Runs : r # cur[p] =>
       /\ run'[r] = run[r] /\ pending'[r] = pending[r]
       /\ decision'[r] = decision[r] /\ pack'[r] = pack[r]
  /\ cur[p] \in Steady => Holds(p) \/ Maker(p)

(* What the other sessions rely on stays true: they hold the lock, or are the
   creator, and nobody else is. *)
LEMMA OthersRely ==
  ASSUME Typed, VerdictInv, ReceiptInv, NEW p \in Sessions, Others(p),
         Plain \/ OwnOnly(p), NEW q \in Sessions, q # p
  PROVE  Relies(q)'
<1>0. /\ Relies(q) /\ Locks(q)
      /\ pc'[q] = pc[q] /\ cur'[q] = cur[q] /\ own'[q] = own[q]
  BY DEF ReceiptInv, VerdictInv, Others
<1>1. SUFFICES ASSUME cur[q] \in Steady, pc[q] \in Accounted
               PROVE  /\ pending'[cur[q]] = pending[cur[q]]
                      /\ decision'[cur[q]] = decision[cur[q]]
                      /\ pack'[cur[q]] = pack[cur[q]]
  BY <1>0 DEF Relies, Accounted, Packed
<1>2. Holds(q) /\ cur[q] \in Runs /\ pc[q] \notin Away
  BY <1>0, <1>1 DEF Locks, Accounted, Working, Steady, Away
<1>3. CASE Plain
  BY <1>3 DEF Plain
<1>4. CASE OwnOnly(p)
  <2>1. cur[q] # cur[p]
    BY <1>1, <1>2, <1>4 DEF OwnOnly, Holds, VerdictInv, Sole
  <2> QED
    BY <1>2, <1>4, <2>1 DEF OwnOnly
<1> QED
  BY <1>3, <1>4

(* A step that writes no record keeps the invariant when p still may rely on
   its own. *)
LEMMA PlainStep ==
  ASSUME Typed, VerdictInv, ReceiptInv, NEW p \in Sessions, Others(p), Plain, Relies(p)'
  PROVE  ReceiptInv'
<1>1. \A q \in Sessions : Relies(q)'
  BY OthersRely
<1>2. \A r \in Runs : Furnished(r)'
  BY DEF ReceiptInv, Plain, Furnished
<1> QED
  BY <1>1, <1>2 DEF ReceiptInv

(* A step that writes about its own run keeps it when that run has what it
   needs. *)
LEMMA OwnStep ==
  ASSUME Typed, VerdictInv, ReceiptInv, NEW p \in Sessions, Others(p), OwnOnly(p),
         Relies(p)', \A r \in Steady : r = cur[p] => Furnished(r)'
  PROVE  ReceiptInv'
<1>1. \A q \in Sessions : Relies(q)'
  BY OthersRely
<1>2. \A r \in Runs : Furnished(r)'
  BY DEF ReceiptInv, OwnOnly, Furnished
<1> QED
  BY <1>1, <1>2 DEF ReceiptInv

(* Who settles a steady run holds its lock and has read what is on disk. *)
LEMMA HolderReads ==
  ASSUME VerdictInv, NEW p \in Sessions, cur[p] \in Steady, pc[p] \in Working \union Ending
  PROVE  Holds(p) /\ own[p] = run[cur[p]]
  BY DEF VerdictInv, Locks, Same, Rogue, Steady

(* Every step keeps receipts and ProofPacks where they are needed. *)
LEMMA ReceiptsStay ==
  ASSUME Typed, VerdictInv, ReceiptInv, [Next]_vars
  PROVE  ReceiptInv'

<1>1. ASSUME NEW p \in Sessions, Start(p) PROVE ReceiptInv'
  <2>0. Relies(p) /\ (cur[p] \in Runs \/ pc[p] \in Away)
    BY DEF ReceiptInv, Typed, TypeOK, LocalTypes, Away
  <2>1. Plain
    BY <1>1 DEF Start, Jump, Goto, files, locals, Plain
  <2>2. Others(p)
    BY <1>1
       DEF Start, Jump, Goto, files, locals, Others, Typed, TypeOK, LocalTypes, FileTypes
  <2>3. Relies(p)'
    BY <1>1, <2>0, <2>1
       DEF Start, Jump, Goto, files, locals, At, Plain, Relies, Steady, Accounted, Packed,
           Typed, TypeOK, LocalTypes, FileTypes
  <2> QED
    BY <2>1, <2>2, <2>3, PlainStep

<1>2. ASSUME NEW p \in Sessions, StartCli(p) PROVE ReceiptInv'
  <2>0. Relies(p) /\ (cur[p] \in Runs \/ pc[p] \in Away)
    BY DEF ReceiptInv, Typed, TypeOK, LocalTypes, Away
  <2>1. Plain
    BY <1>2 DEF StartCli, Draw, Jump, Goto, files, locals, Plain
  <2>2. Others(p)
    BY <1>2
       DEF StartCli, Draw, Jump, Goto, files, locals, Others, Typed, TypeOK, LocalTypes,
           FileTypes
  <2>3. Relies(p)'
    BY <1>2 DEF StartCli, Draw, Relies, Steady, Typed, TypeOK, LocalTypes, FileTypes
  <2> QED
    BY <2>1, <2>2, <2>3, PlainStep

<1>3. ASSUME NEW p \in Sessions, FindNone(p) PROVE ReceiptInv'
  <2>0. Relies(p) /\ (cur[p] \in Runs \/ pc[p] \in Away)
    BY DEF ReceiptInv, Typed, TypeOK, LocalTypes, Away
  <2>1. Plain
    BY <1>3 DEF FindNone, Draw, Goto, Plain
  <2>2. Others(p)
    BY <1>3 DEF FindNone, Draw, Goto, Others, Typed, TypeOK, LocalTypes, FileTypes
  <2>3. Relies(p)'
    BY <1>3, OutcomeStatus
       DEF FindNone, Draw, Goto, Relies, Accounted, Packed, Typed, TypeOK, LocalTypes,
           FileTypes
  <2> QED
    BY <2>1, <2>2, <2>3, PlainStep

<1>4. ASSUME NEW p \in Sessions, FindOne(p) PROVE ReceiptInv'
  <2>0. Relies(p) /\ (cur[p] \in Runs \/ pc[p] \in Away)
    BY DEF ReceiptInv, Typed, TypeOK, LocalTypes, Away
  <2>1. Plain
    BY <1>4 DEF FindOne, Jump, Goto, files, locals, Plain
  <2>2. Others(p)
    BY <1>4
       DEF FindOne, Jump, Goto, files, locals, Others, Typed, TypeOK, LocalTypes, FileTypes
  <2>3. Relies(p)'
    BY <1>4, <2>0, <2>1
       DEF FindOne, Jump, Goto, files, locals, At, Plain, Relies, Steady, Accounted, Packed,
           Typed, TypeOK, LocalTypes, FileTypes
  <2> QED
    BY <2>1, <2>2, <2>3, PlainStep

<1>5. ASSUME NEW p \in Sessions, FindBlocked(p) PROVE ReceiptInv'
  <2>0. Relies(p) /\ (cur[p] \in Runs \/ pc[p] \in Away)
    BY DEF ReceiptInv, Typed, TypeOK, LocalTypes, Away
  <2>1. Plain
    BY <1>5 DEF FindBlocked, Forget, Jump, Goto, files, locals, Plain
  <2>2. Others(p)
    BY <1>5
       DEF FindBlocked, Forget, Jump, Goto, files, locals, Others, Typed, TypeOK,
           LocalTypes, FileTypes
  <2>3. Relies(p)'
    BY <1>5, <2>0, <2>1
       DEF FindBlocked, Forget, Jump, Goto, files, locals, At, Plain, Relies, Steady,
           Accounted, Packed, Typed, TypeOK, LocalTypes, FileTypes
  <2> QED
    BY <2>1, <2>2, <2>3, PlainStep

<1>6. ASSUME NEW p \in Sessions, Load(p) PROVE ReceiptInv'
  <2>0. Relies(p) /\ (cur[p] \in Runs \/ pc[p] \in Away)
    BY DEF ReceiptInv, Typed, TypeOK, LocalTypes, Away
  <2>1. Plain
    BY <1>6 DEF Load, Forget, Jump, Goto, files, locals, Plain
  <2>2. Others(p)
    BY <1>6
       DEF Load, Forget, Jump, Goto, files, locals, Others, Typed, TypeOK, LocalTypes,
           FileTypes
  <2>3. Relies(p)'
    BY <1>6, <2>0, <2>1
       DEF Load, Forget, Jump, Goto, files, locals, At, Plain, Relies, Steady, Accounted,
           Packed, Typed, TypeOK, LocalTypes, FileTypes
  <2> QED
    BY <2>1, <2>2, <2>3, PlainStep

<1>7. ASSUME NEW p \in Sessions, Bind(p) PROVE ReceiptInv'
  <2>0. Relies(p) /\ (cur[p] \in Runs \/ pc[p] \in Away)
    BY DEF ReceiptInv, Typed, TypeOK, LocalTypes, Away
  <2>1. Plain
    BY <1>7 DEF Bind, Forget, Jump, Goto, files, locals, Plain
  <2>2. Others(p)
    BY <1>7
       DEF Bind, Forget, Jump, Goto, files, locals, Others, Typed, TypeOK, LocalTypes,
           FileTypes
  <2>3. Relies(p)'
    BY <1>7, <2>0, <2>1
       DEF Bind, Forget, Jump, Goto, files, locals, At, Plain, Relies, Steady, Accounted,
           Packed, Typed, TypeOK, LocalTypes, FileTypes
  <2> QED
    BY <2>1, <2>2, <2>3, PlainStep

<1>8. ASSUME NEW p \in Sessions, Decided(p) PROVE ReceiptInv'
  <2>0. Relies(p) /\ (cur[p] \in Runs \/ pc[p] \in Away)
    BY DEF ReceiptInv, Typed, TypeOK, LocalTypes, Away
  <2>1. Plain
    BY <1>8 DEF Decided, Intend, Forget, Jump, Goto, files, locals, Plain
  <2>2. Others(p)
    BY <1>8
       DEF Decided, Intend, Forget, Jump, Goto, files, locals, Others, Typed, TypeOK,
           LocalTypes, FileTypes
  <2>3. Relies(p)'
    BY <1>8, <2>0, <2>1
       DEF Decided, Intend, Forget, Jump, Goto, files, locals, At, Plain, Relies, Steady,
           Accounted, Packed, Typed, TypeOK, LocalTypes, FileTypes
  <2> QED
    BY <2>1, <2>2, <2>3, PlainStep

<1>9. ASSUME NEW p \in Sessions, Verify(p) PROVE ReceiptInv'
  <2>0. Relies(p) /\ (cur[p] \in Runs \/ pc[p] \in Away)
    BY DEF ReceiptInv, Typed, TypeOK, LocalTypes, Away
  <2>1. Plain
    BY <1>9 DEF Verify, Intend, Jump, Goto, files, locals, Plain
  <2>2. Others(p)
    BY <1>9
       DEF Verify, Intend, Jump, Goto, files, locals, Others, Typed, TypeOK, LocalTypes,
           FileTypes
  <2>3. Relies(p)'
    BY <1>9, <2>0, <2>1
       DEF Verify, Intend, Jump, Goto, files, locals, At, Plain, Relies, Steady, Accounted,
           Packed, Typed, TypeOK, LocalTypes, FileTypes
  <2> QED
    BY <2>1, <2>2, <2>3, PlainStep

<1>10. ASSUME NEW p \in Sessions, Answer(p) PROVE ReceiptInv'
  <2>0. Relies(p) /\ (cur[p] \in Runs \/ pc[p] \in Away)
    BY DEF ReceiptInv, Typed, TypeOK, LocalTypes, Away
  <2>1. Plain
    BY <1>10 DEF Answer, Intend, Jump, Goto, files, locals, Plain
  <2>2. Others(p)
    BY <1>10
       DEF Answer, Intend, Jump, Goto, files, locals, Others, Typed, TypeOK, LocalTypes,
           FileTypes
  <2>3. Relies(p)'
    BY <1>10, <2>0, <2>1
       DEF Answer, Intend, Jump, Goto, files, locals, At, Plain, Relies, Steady, Accounted,
           Packed, Typed, TypeOK, LocalTypes, FileTypes
  <2> QED
    BY <2>1, <2>2, <2>3, PlainStep

<1>11. ASSUME NEW p \in Sessions, Delete(p) PROVE ReceiptInv'
  <2>0. Relies(p) /\ (cur[p] \in Runs \/ pc[p] \in Away)
    BY DEF ReceiptInv, Typed, TypeOK, LocalTypes, Away
  <2>1. Plain
    BY <1>11 DEF Delete, Intend, Jump, Goto, files, locals, Plain
  <2>2. Others(p)
    BY <1>11
       DEF Delete, Intend, Jump, Goto, files, locals, Others, Typed, TypeOK, LocalTypes,
           FileTypes
  <2>3. Relies(p)'
    BY <1>11, <2>0, <2>1
       DEF Delete, Intend, Jump, Goto, files, locals, At, Plain, Relies, Steady, Accounted,
           Packed, Typed, TypeOK, LocalTypes, FileTypes
  <2> QED
    BY <2>1, <2>2, <2>3, PlainStep

<1>12. ASSUME NEW p \in Sessions, Lock(p) PROVE ReceiptInv'
  <2>0. Relies(p) /\ (cur[p] \in Runs \/ pc[p] \in Away)
    BY DEF ReceiptInv, Typed, TypeOK, LocalTypes, Away
  <2>1. Plain
    BY <1>12 DEF Lock, Jump, Goto, files, locals, Plain
  <2>2. Others(p)
    BY <1>12
       DEF Lock, Jump, Goto, files, locals, Others, Typed, TypeOK, LocalTypes, FileTypes
  <2>3. Relies(p)'
    BY <1>12, <2>0, <2>1
       DEF Lock, Jump, Goto, files, locals, At, Plain, Relies, Steady, Accounted, Packed,
           Typed, TypeOK, LocalTypes, FileTypes
  <2> QED
    BY <2>1, <2>2, <2>3, PlainStep

<1>13. ASSUME NEW p \in Sessions, LockTimeout(p) PROVE ReceiptInv'
  <2>0. Relies(p) /\ (cur[p] \in Runs \/ pc[p] \in Away)
    BY DEF ReceiptInv, Typed, TypeOK, LocalTypes, Away
  <2>1. Plain
    BY <1>13 DEF LockTimeout, Forget, Jump, Goto, files, locals, Plain
  <2>2. Others(p)
    BY <1>13
       DEF LockTimeout, Forget, Jump, Goto, files, locals, Others, Typed, TypeOK,
           LocalTypes, FileTypes
  <2>3. Relies(p)'
    BY <1>13, <2>0, <2>1
       DEF LockTimeout, Forget, Jump, Goto, files, locals, At, Plain, Relies, Steady,
           Accounted, Packed, Typed, TypeOK, LocalTypes, FileTypes
  <2> QED
    BY <2>1, <2>2, <2>3, PlainStep

<1>14. ASSUME NEW p \in Sessions, Unlock(p) PROVE ReceiptInv'
  <2>0. Relies(p) /\ (cur[p] \in Runs \/ pc[p] \in Away)
    BY DEF ReceiptInv, Typed, TypeOK, LocalTypes, Away
  <2>1. Plain
    BY <1>14 DEF Unlock, Forget, Jump, Goto, files, locals, Plain
  <2>2. Others(p)
    BY <1>14
       DEF Unlock, Forget, Jump, Goto, files, locals, Others, Typed, TypeOK, LocalTypes,
           FileTypes
  <2>3. Relies(p)'
    BY <1>14, <2>0, <2>1
       DEF Unlock, Forget, Jump, Goto, files, locals, At, Plain, Relies, Steady, Accounted,
           Packed, Typed, TypeOK, LocalTypes, FileTypes
  <2> QED
    BY <2>1, <2>2, <2>3, PlainStep

<1>15. ASSUME NEW p \in Sessions, Reload(p) PROVE ReceiptInv'
  <2>0. Relies(p) /\ (cur[p] \in Runs \/ pc[p] \in Away)
    BY DEF ReceiptInv, Typed, TypeOK, LocalTypes, Away
  <2>1. Plain
    BY <1>15 DEF Reload, Jump, Goto, files, locals, Plain
  <2>2. Others(p)
    BY <1>15
       DEF Reload, Jump, Goto, files, locals, Others, Typed, TypeOK, LocalTypes, FileTypes
  <2>3. Relies(p)'
    BY <1>15, <2>0, <2>1
       DEF Reload, Jump, Goto, files, locals, At, Plain, Relies, Steady, Accounted, Packed,
           Typed, TypeOK, LocalTypes, FileTypes
  <2> QED
    BY <2>1, <2>2, <2>3, PlainStep

<1>16. ASSUME NEW p \in Sessions, Repending(p) PROVE ReceiptInv'
  <2>0. Relies(p) /\ (cur[p] \in Runs \/ pc[p] \in Away)
    BY DEF ReceiptInv, Typed, TypeOK, LocalTypes, Away
  <2>1. Plain
    BY <1>16 DEF Repending, Jump, Goto, files, locals, Plain
  <2>2. Others(p)
    BY <1>16
       DEF Repending, Jump, Goto, files, locals, Others, Typed, TypeOK, LocalTypes,
           FileTypes
  <2>3. Relies(p)'
    <3>1. pc'[p] = "rebind" => pending[cur[p]] \/ own[p].status = "accepted"
      BY <1>16 DEF Repending, Jump, Goto, Typed, TypeOK, LocalTypes, FileTypes
    <3>2. pc'[p] \in {"rebind", "verdict", "unlock"} /\ cur' = cur /\ own' = own
      BY <1>16 DEF Repending, Jump, Goto, locals, Typed, TypeOK, LocalTypes, FileTypes
    <3> QED
      BY <2>1, <3>1, <3>2 DEF Plain, Relies, Accounted, Packed
  <2> QED
    BY <2>1, <2>2, <2>3, PlainStep

<1>17. ASSUME NEW p \in Sessions, Rebind(p) PROVE ReceiptInv'
  <2>0. Relies(p) /\ (cur[p] \in Runs \/ pc[p] \in Away)
    BY DEF ReceiptInv, Typed, TypeOK, LocalTypes, Away
  <2>1. Plain
    BY <1>17 DEF Rebind, Intend, Jump, Goto, files, locals, Plain
  <2>2. Others(p)
    BY <1>17
       DEF Rebind, Intend, Jump, Goto, files, locals, Others, Typed, TypeOK, LocalTypes,
           FileTypes
  <2>3. Relies(p)'
    BY <1>17, <2>0, <2>1
       DEF Rebind, Intend, Jump, Goto, files, locals, At, Plain, Relies, Steady, Accounted,
           Packed, Typed, TypeOK, LocalTypes, FileTypes
  <2> QED
    BY <2>1, <2>2, <2>3, PlainStep

<1>18. ASSUME NEW p \in Sessions, Settle(p) PROVE ReceiptInv'
  <2>0. Relies(p) /\ (cur[p] \in Runs \/ pc[p] \in Away)
    BY DEF ReceiptInv, Typed, TypeOK, LocalTypes, Away
  <2>1. Plain
    BY <1>18 DEF Settle, Jump, Goto, files, locals, Plain
  <2>2. Others(p)
    BY <1>18
       DEF Settle, Jump, Goto, files, locals, Others, Typed, TypeOK, LocalTypes, FileTypes
  <2>3. Relies(p)'
    BY <1>18, <2>0, <2>1
       DEF Settle, Jump, Goto, files, locals, At, Plain, Relies, Steady, Accounted, Packed,
           Typed, TypeOK, LocalTypes, FileTypes
  <2> QED
    BY <2>1, <2>2, <2>3, PlainStep

<1>19. ASSUME NEW p \in Sessions, After(p) PROVE ReceiptInv'
  <2>0. Relies(p) /\ (cur[p] \in Runs \/ pc[p] \in Away)
    BY DEF ReceiptInv, Typed, TypeOK, LocalTypes, Away
  <2>1. Plain
    BY <1>19 DEF After, GiveUp, Intend, Remember, Jump, Goto, files, locals, Plain
  <2>2. Others(p)
    BY <1>19
       DEF After, GiveUp, Intend, Remember, Jump, Goto, files, locals, Others, Typed,
           TypeOK, LocalTypes, FileTypes
  <2>3. Relies(p)'
    BY <1>19, <2>0, <2>1
       DEF After, GiveUp, Intend, Remember, Jump, Goto, files, locals, At, Plain, Relies,
           Steady, Accounted, Packed, Typed, TypeOK, LocalTypes, FileTypes
  <2> QED
    BY <2>1, <2>2, <2>3, PlainStep

<1>20. ASSUME NEW p \in Sessions, Mark(p) PROVE ReceiptInv'
  <2>0. Relies(p) /\ (cur[p] \in Runs \/ pc[p] \in Away)
    BY DEF ReceiptInv, Typed, TypeOK, LocalTypes, Away
  <2>1. Plain
    BY <1>20 DEF Mark, Jump, Goto, files, locals, Plain
  <2>2. Others(p)
    BY <1>20
       DEF Mark, Jump, Goto, files, locals, Others, Typed, TypeOK, LocalTypes, FileTypes
  <2>3. Relies(p)'
    BY <1>20, <2>0, <2>1
       DEF Mark, Jump, Goto, files, locals, At, Plain, Relies, Steady, Accounted, Packed,
           Typed, TypeOK, LocalTypes, FileTypes
  <2> QED
    BY <2>1, <2>2, <2>3, PlainStep

<1>21. ASSUME NEW p \in Sessions, Learn(p) PROVE ReceiptInv'
  <2>0. Relies(p) /\ (cur[p] \in Runs \/ pc[p] \in Away)
    BY DEF ReceiptInv, Typed, TypeOK, LocalTypes, Away
  <2>1. Plain
    BY <1>21 DEF Learn, Goto, Jump, Goto, files, locals, Plain
  <2>2. Others(p)
    BY <1>21
       DEF Learn, Goto, Jump, Goto, files, locals, Others, Typed, TypeOK, LocalTypes,
           FileTypes
  <2>3. Relies(p)'
    BY <1>21, <2>0, <2>1
       DEF Learn, Goto, Jump, Goto, files, locals, At, Plain, Relies, Steady, Accounted,
           Packed, Typed, TypeOK, LocalTypes, FileTypes
  <2> QED
    BY <2>1, <2>2, <2>3, PlainStep

<1>22. ASSUME NEW p \in Sessions, Learned(p) PROVE ReceiptInv'
  <2>0. Relies(p) /\ (cur[p] \in Runs \/ pc[p] \in Away)
    BY DEF ReceiptInv, Typed, TypeOK, LocalTypes, Away
  <2>1. Plain
    BY <1>22 DEF Learned, Resume, Jump, Goto, files, locals, Plain
  <2>2. Others(p)
    BY <1>22
       DEF Learned, Resume, Jump, Goto, files, locals, Others, Typed, TypeOK, LocalTypes,
           FileTypes
  <2>3. Relies(p)'
    BY <1>22, <2>0, <2>1
       DEF Learned, Resume, Jump, Goto, files, locals, At, Plain, Relies, Steady, Accounted,
           Packed, Typed, TypeOK, LocalTypes, FileTypes
  <2> QED
    BY <2>1, <2>2, <2>3, PlainStep

<1>23. ASSUME NEW p \in Sessions, Verdict(p) PROVE ReceiptInv'
  <2>0. Relies(p) /\ (cur[p] \in Runs \/ pc[p] \in Away)
    BY DEF ReceiptInv, Typed, TypeOK, LocalTypes, Away
  <2>1. Plain
    BY <1>23 DEF Verdict, Jump, Goto, files, locals, Plain
  <2>2. Others(p)
    BY <1>23
       DEF Verdict, Jump, Goto, files, locals, Others, Typed, TypeOK, LocalTypes, FileTypes
  <2>3. Relies(p)'
    BY <1>23, <2>0, <2>1
       DEF Verdict, Jump, Goto, files, locals, At, Plain, Relies, Steady, Accounted, Packed,
           Typed, TypeOK, LocalTypes, FileTypes
  <2> QED
    BY <2>1, <2>2, <2>3, PlainStep

<1>24. ASSUME NEW p \in Sessions, Crash(p) PROVE ReceiptInv'
  <2>0. Relies(p) /\ (cur[p] \in Runs \/ pc[p] \in Away)
    BY DEF ReceiptInv, Typed, TypeOK, LocalTypes, Away
  <2>1. Plain
    BY <1>24 DEF Crash, Forget, Jump, Goto, files, locals, Plain
  <2>2. Others(p)
    BY <1>24
       DEF Crash, Forget, Jump, Goto, files, locals, Others, Typed, TypeOK, LocalTypes,
           FileTypes
  <2>3. Relies(p)'
    BY <1>24, <2>0, <2>1
       DEF Crash, Forget, Jump, Goto, files, locals, At, Plain, Relies, Steady, Accounted,
           Packed, Typed, TypeOK, LocalTypes, FileTypes
  <2> QED
    BY <2>1, <2>2, <2>3, PlainStep

<1>25. ASSUME NEW p \in Sessions, Create(p) PROVE ReceiptInv'
  <2>0. Relies(p) /\ Stands(p) /\ Makes(p) /\ cur[p] \in Runs /\ pc[p] \notin Away
    BY <1>25 DEF Create, At, ReceiptInv, VerdictInv, Typed, TypeOK, LocalTypes, Away
  <2>1. cur[p] \in Steady => Furnished(cur[p]) /\ Maker(p)
    BY <1>25 DEF Create, At, ReceiptInv, Steady, Maker, Making
  <2>2. OwnOnly(p)
    BY <1>25, <2>0, <2>1
       DEF Create, SaveOwn, Jump, Goto, OwnOnly, Typed, TypeOK, LocalTypes, FileTypes
  <2>3. Others(p)
    BY <1>25
       DEF Create, SaveOwn, Jump, Goto, locals, Others, Typed, TypeOK, LocalTypes, FileTypes
  <2>4. Relies(p)'
    BY <1>25, <2>0
       DEF Create, SaveOwn, Jump, Goto, locals, At, Relies, Steady, Accounted, Packed,
           Typed, TypeOK, LocalTypes, FileTypes
  <2>5. \A r \in Steady : r = cur[p] => Furnished(r)'
    BY <1>25, <2>0, <2>1
       DEF Create, SaveOwn, Jump, Goto, At, Relies, Furnished, Steady, Accounted, Packed,
           Typed, TypeOK, LocalTypes, FileTypes
  <2> QED
    BY <2>2, <2>3, <2>4, <2>5, OwnStep

<1>26. ASSUME NEW p \in Sessions, Final(p) PROVE ReceiptInv'
  <2>0. Relies(p) /\ Stands(p) /\ Makes(p) /\ cur[p] \in Runs /\ pc[p] \notin Away
    BY <1>26 DEF Final, At, ReceiptInv, VerdictInv, Typed, TypeOK, LocalTypes, Away
  <2>1. cur[p] \in Steady => Furnished(cur[p]) /\ Maker(p)
    BY <1>26 DEF Final, At, ReceiptInv, Steady, Maker, Making
  <2>2. OwnOnly(p)
    BY <1>26, <2>0, <2>1
       DEF Final, SaveOwn, Jump, Goto, Forget, OwnOnly, Typed, TypeOK, LocalTypes, FileTypes
  <2>3. Others(p)
    BY <1>26
       DEF Final, SaveOwn, Jump, Goto, Forget, locals, Others, Typed, TypeOK, LocalTypes,
           FileTypes
  <2>4. Relies(p)'
    BY <1>26, <2>0
       DEF Final, SaveOwn, Jump, Goto, Forget, locals, At, Relies, Steady, Accounted,
           Packed, Typed, TypeOK, LocalTypes, FileTypes
  <2>5. \A r \in Steady : r = cur[p] => Furnished(r)'
    BY <1>26, <2>0, <2>1
       DEF Final, SaveOwn, Jump, Goto, Forget, At, Relies, Furnished, Steady, Accounted,
           Packed, Typed, TypeOK, LocalTypes, FileTypes
  <2> QED
    BY <2>2, <2>3, <2>4, <2>5, OwnStep

<1>27. ASSUME NEW p \in Sessions, Receipt(p) PROVE ReceiptInv'
  <2>0. Relies(p) /\ Stands(p) /\ Makes(p) /\ cur[p] \in Runs /\ pc[p] \notin Away
    BY <1>27 DEF Receipt, At, ReceiptInv, VerdictInv, Typed, TypeOK, LocalTypes, Away
  <2>1. cur[p] \in Steady => Furnished(cur[p]) /\ Maker(p)
    BY <1>27 DEF Receipt, At, ReceiptInv, Steady, Maker, Making
  <2>2. OwnOnly(p)
    BY <1>27, <2>0, <2>1
       DEF Receipt, Jump, Goto, OwnOnly, Typed, TypeOK, LocalTypes, FileTypes
  <2>3. Others(p)
    BY <1>27 DEF Receipt, Jump, Goto, locals, Others, Typed, TypeOK, LocalTypes, FileTypes
  <2>4. Relies(p)'
    BY <1>27, <2>0
       DEF Receipt, Jump, Goto, locals, At, Relies, Steady, Accounted, Packed, Typed,
           TypeOK, LocalTypes, FileTypes
  <2>5. \A r \in Steady : r = cur[p] => Furnished(r)'
    BY <1>27, <2>0, <2>1
       DEF Receipt, Jump, Goto, At, Relies, Furnished, Steady, Accounted, Packed, Typed,
           TypeOK, LocalTypes, FileTypes
  <2> QED
    BY <2>2, <2>3, <2>4, <2>5, OwnStep

<1>28. ASSUME NEW p \in Sessions, Abort(p) PROVE ReceiptInv'
  <2>0. Relies(p) /\ Stands(p) /\ Makes(p) /\ cur[p] \in Runs /\ pc[p] \notin Away
    BY <1>28 DEF Abort, At, ReceiptInv, VerdictInv, Typed, TypeOK, LocalTypes, Away
  <2>1. cur[p] \in Steady => Furnished(cur[p]) /\ Maker(p)
    BY <1>28 DEF Abort, At, ReceiptInv, Steady, Maker, Making
  <2>2. OwnOnly(p)
    BY <1>28, <2>0, <2>1 DEF Abort, Forget, OwnOnly, Typed, TypeOK, LocalTypes, FileTypes
  <2>3. Others(p)
    BY <1>28 DEF Abort, Forget, locals, Others, Typed, TypeOK, LocalTypes, FileTypes
  <2>4. Relies(p)'
    BY <1>28, <2>0
       DEF Abort, Forget, locals, At, Relies, Steady, Accounted, Packed, Typed, TypeOK,
           LocalTypes, FileTypes
  <2>5. \A r \in Steady : r = cur[p] => Furnished(r)'
    <3>1. ClosedAs(own[p], "failed").status # "accepted"
      BY DEF ClosedAs, RunRecord, Typed, TypeOK, LocalTypes, FileTypes
    <3> QED
      BY <1>28, <2>0, <2>1, <3>1 DEF Abort, Furnished, Typed, TypeOK, LocalTypes, FileTypes
  <2> QED
    BY <2>2, <2>3, <2>4, <2>5, OwnStep

<1>29. ASSUME NEW p \in Sessions, Note(p) PROVE ReceiptInv'
  <2>0. Relies(p) /\ Stands(p) /\ Makes(p) /\ cur[p] \in Runs /\ pc[p] \notin Away
    BY <1>29 DEF Note, At, ReceiptInv, VerdictInv, Typed, TypeOK, LocalTypes, Away
  <2>1. cur[p] \in Steady => Furnished(cur[p]) /\ Maker(p)
    BY <1>29 DEF Note, At, ReceiptInv, Steady, Maker, Making
  <2>2. OwnOnly(p)
    BY <1>29, <2>0, <2>1 DEF Note, Goto, OwnOnly, Typed, TypeOK, LocalTypes, FileTypes
  <2>3. Others(p)
    BY <1>29 DEF Note, Goto, locals, Others, Typed, TypeOK, LocalTypes, FileTypes
  <2>4. Relies(p)'
    BY <1>29, <2>0
       DEF Note, Goto, locals, At, Relies, Steady, Accounted, Packed, Typed, TypeOK,
           LocalTypes, FileTypes
  <2>5. \A r \in Steady : r = cur[p] => Furnished(r)'
    <3> DEFINE noted == [own[p] EXCEPT !.pending_approval = TRUE]
    <3>1. noted.status # "accepted"
      BY <1>29, <2>0 DEF Note, At, Stands, RunRecord, Typed, TypeOK, LocalTypes, FileTypes
    <3> HIDE DEF noted
    <3>2. run'[cur[p]] \in {run[cur[p]], noted}
      BY <1>29, <2>0 DEF Note, noted, Typed, TypeOK, LocalTypes, FileTypes
    <3>3. UNCHANGED <<pending, decision, pack>>
      BY <1>29 DEF Note
    <3> QED
      BY <2>1, <3>1, <3>2, <3>3 DEF Furnished
  <2> QED
    BY <2>2, <2>3, <2>4, <2>5, OwnStep

<1>30. ASSUME NEW p \in Sessions, Decide(p) PROVE ReceiptInv'
  <2>0. Relies(p) /\ Stands(p) /\ Makes(p) /\ cur[p] \in Runs /\ pc[p] \notin Away
    BY <1>30 DEF Decide, At, ReceiptInv, VerdictInv, Typed, TypeOK, LocalTypes, Away
  <2>1. cur[p] \in Steady => Holds(p) /\ own[p] = run[cur[p]] /\ Furnished(cur[p])
    BY <1>30, HolderReads DEF Decide, At, Working, Ending, ReceiptInv, Steady
  <2>2. OwnOnly(p)
    BY <1>30, <2>0, <2>1
       DEF Decide, Jump, Goto, OwnOnly, Typed, TypeOK, LocalTypes, FileTypes
  <2>3. Others(p)
    BY <1>30 DEF Decide, Jump, Goto, locals, Others, Typed, TypeOK, LocalTypes, FileTypes
  <2>4. Relies(p)'
    BY <1>30, <2>0
       DEF Decide, Jump, Goto, locals, At, Relies, Steady, Accounted, Packed, Typed, TypeOK,
           LocalTypes, FileTypes
  <2>5. \A r \in Steady : r = cur[p] => Furnished(r)'
    BY <1>30, <2>0, <2>1
       DEF Decide, Jump, Goto, At, Relies, Furnished, Steady, Accounted, Packed, Typed,
           TypeOK, LocalTypes, FileTypes
  <2> QED
    BY <2>2, <2>3, <2>4, <2>5, OwnStep

<1>31. ASSUME NEW p \in Sessions, Pack(p) PROVE ReceiptInv'
  <2>0. Relies(p) /\ Stands(p) /\ Makes(p) /\ cur[p] \in Runs /\ pc[p] \notin Away
    BY <1>31 DEF Pack, At, ReceiptInv, VerdictInv, Typed, TypeOK, LocalTypes, Away
  <2>1. cur[p] \in Steady => Holds(p) /\ own[p] = run[cur[p]] /\ Furnished(cur[p])
    BY <1>31, HolderReads DEF Pack, At, Working, Ending, ReceiptInv, Steady
  <2>2. OwnOnly(p)
    BY <1>31, <2>0, <2>1
       DEF Pack, GiveUp, Intend, Jump, Goto, OwnOnly, Typed, TypeOK, LocalTypes, FileTypes
  <2>3. Others(p)
    BY <1>31
       DEF Pack, GiveUp, Intend, Jump, Goto, locals, Others, Typed, TypeOK, LocalTypes,
           FileTypes
  <2>4. Relies(p)'
    BY <1>31, <2>0
       DEF Pack, GiveUp, Intend, Jump, Goto, locals, At, Relies, Steady, Accounted, Packed,
           Typed, TypeOK, LocalTypes, FileTypes
  <2>5. \A r \in Steady : r = cur[p] => Furnished(r)'
    BY <1>31, <2>0, <2>1
       DEF Pack, GiveUp, Intend, Jump, Goto, At, Relies, Furnished, Steady, Accounted,
           Packed, Typed, TypeOK, LocalTypes, FileTypes
  <2> QED
    BY <2>2, <2>3, <2>4, <2>5, OwnStep

<1>32. ASSUME NEW p \in Sessions, Unpack(p) PROVE ReceiptInv'
  <2>0. Relies(p) /\ Stands(p) /\ Makes(p) /\ cur[p] \in Runs /\ pc[p] \notin Away
    BY <1>32 DEF Unpack, At, ReceiptInv, VerdictInv, Typed, TypeOK, LocalTypes, Away
  <2>1. cur[p] \in Steady => Holds(p) /\ own[p] = run[cur[p]] /\ Furnished(cur[p])
    BY <1>32, HolderReads DEF Unpack, At, Working, Ending, ReceiptInv, Steady
  <2>2. OwnOnly(p)
    BY <1>32, <2>0, <2>1
       DEF Unpack, Jump, Goto, OwnOnly, Typed, TypeOK, LocalTypes, FileTypes
  <2>3. Others(p)
    BY <1>32 DEF Unpack, Jump, Goto, locals, Others, Typed, TypeOK, LocalTypes, FileTypes
  <2>4. Relies(p)'
    BY <1>32, <2>0
       DEF Unpack, Jump, Goto, locals, At, Relies, Steady, Accounted, Packed, Typed, TypeOK,
           LocalTypes, FileTypes
  <2>5. \A r \in Steady : r = cur[p] => Furnished(r)'
    BY <1>32, <2>0, <2>1 DEF Unpack, At, Stands, Furnished
  <2> QED
    BY <2>2, <2>3, <2>4, <2>5, OwnStep

<1>33. ASSUME NEW p \in Sessions, Accept(p) PROVE ReceiptInv'
  <2>0. Relies(p) /\ Stands(p) /\ Makes(p) /\ cur[p] \in Runs /\ pc[p] \notin Away
    BY <1>33 DEF Accept, At, ReceiptInv, VerdictInv, Typed, TypeOK, LocalTypes, Away
  <2>1. cur[p] \in Steady => Holds(p) /\ own[p] = run[cur[p]] /\ Furnished(cur[p])
    BY <1>33, HolderReads DEF Accept, At, Working, Ending, ReceiptInv, Steady
  <2>2. OwnOnly(p)
    BY <1>33, <2>0, <2>1
       DEF Accept, Jump, Goto, OwnOnly, Typed, TypeOK, LocalTypes, FileTypes
  <2>3. Others(p)
    BY <1>33 DEF Accept, Jump, Goto, locals, Others, Typed, TypeOK, LocalTypes, FileTypes
  <2>4. Relies(p)'
    BY <1>33, <2>0
       DEF Accept, Jump, Goto, locals, At, Relies, Steady, Accounted, Packed, Typed, TypeOK,
           LocalTypes, FileTypes
  <2>5. \A r \in Steady : r = cur[p] => Furnished(r)'
    <3>1. SUFFICES ASSUME cur[p] \in Steady, run' # run
                 PROVE  \A r \in Steady : r = cur[p] => Furnished(r)'
      BY <1>33, <2>1 DEF Accept, Furnished
    <3>2. pending[cur[p]] /\ pack[cur[p]] = decision[cur[p]].by
      BY <1>33, <2>0, <3>1 DEF Accept, At, Stands, Relies, Accounted, Packed
    <3>3. decision[cur[p]] # None
      BY <1>33 DEF Accept, At, Typed, DecisionHeld, Deciding
    <3> QED
      BY <1>33, <3>2, <3>3 DEF Accept, Furnished
  <2> QED
    BY <2>2, <2>3, <2>4, <2>5, OwnStep

<1>34. ASSUME NEW p \in Sessions, Commit(p) PROVE ReceiptInv'
  <2>0. Relies(p) /\ Stands(p) /\ Makes(p) /\ cur[p] \in Runs /\ pc[p] \notin Away
    BY <1>34 DEF Commit, At, ReceiptInv, VerdictInv, Typed, TypeOK, LocalTypes, Away
  <2>1. cur[p] \in Steady => Holds(p) /\ own[p] = run[cur[p]] /\ Furnished(cur[p])
    BY <1>34, HolderReads DEF Commit, At, Working, Ending, ReceiptInv, Steady
  <2>2. OwnOnly(p)
    BY <1>34, <2>0, <2>1
       DEF Commit, Jump, Goto, Resume, OwnOnly, Typed, TypeOK, LocalTypes, FileTypes
  <2>3. Others(p)
    BY <1>34
       DEF Commit, Jump, Goto, Resume, locals, Others, Typed, TypeOK, LocalTypes, FileTypes
  <2>4. Relies(p)'
    <3> DEFINE rec == [own[p] EXCEPT !.memory_commit = "committed"]
    <3>1. rec.memory_commit = "committed"
      BY DEF RunRecord, Typed, TypeOK, LocalTypes, FileTypes
    <3> HIDE DEF rec
    <3>2. cur' = cur /\ pc'[p] \in {"final", "remove", "unlock"}
      BY <1>34 DEF Commit, Jump, Goto, Resume, locals, Typed, TypeOK, LocalTypes, FileTypes
    <3>3. pc'[p] = "final" => cur[p] \in CliRuns
      BY <1>34 DEF Commit, Jump, Goto, Resume, Typed, TypeOK, LocalTypes, FileTypes
    <3>4. pc'[p] = "remove" => own'[p] = rec
      BY <1>34 DEF Commit, rec, Jump, Goto, Resume, Typed, TypeOK, LocalTypes, FileTypes
    <3> QED
      BY <3>1, <3>2, <3>3, <3>4 DEF Relies, Steady, Accounted, Packed
  <2>5. \A r \in Steady : r = cur[p] => Furnished(r)'
    <3> DEFINE rec == [own[p] EXCEPT !.memory_commit = "committed"]
    <3>1. rec.status = own[p].status /\ rec.memory_commit = "committed"
      BY DEF RunRecord, Typed, TypeOK, LocalTypes, FileTypes
    <3> HIDE DEF rec
    <3>2. run'[cur[p]] \in {run[cur[p]], rec}
      BY <1>34, <2>0 DEF Commit, rec, Typed, TypeOK, LocalTypes, FileTypes
    <3>3. UNCHANGED <<pending, decision, pack>>
      BY <1>34 DEF Commit
    <3> QED
      BY <2>1, <3>1, <3>2, <3>3 DEF Furnished
  <2> QED
    BY <2>2, <2>3, <2>4, <2>5, OwnStep

<1>35. ASSUME NEW p \in Sessions, Remove(p) PROVE ReceiptInv'
  <2>0. Relies(p) /\ Stands(p) /\ Makes(p) /\ cur[p] \in Runs /\ pc[p] \notin Away
    BY <1>35 DEF Remove, At, ReceiptInv, VerdictInv, Typed, TypeOK, LocalTypes, Away
  <2>1. cur[p] \in Steady => Holds(p) /\ own[p] = run[cur[p]] /\ Furnished(cur[p])
    BY <1>35, HolderReads DEF Remove, At, Working, Ending, ReceiptInv, Steady
  <2>2. OwnOnly(p)
    BY <1>35, <2>0, <2>1
       DEF Remove, Jump, Goto, OwnOnly, Typed, TypeOK, LocalTypes, FileTypes
  <2>3. Others(p)
    BY <1>35 DEF Remove, Jump, Goto, locals, Others, Typed, TypeOK, LocalTypes, FileTypes
  <2>4. Relies(p)'
    BY <1>35, <2>0
       DEF Remove, Jump, Goto, locals, At, Relies, Steady, Accounted, Packed, Typed, TypeOK,
           LocalTypes, FileTypes
  <2>5. \A r \in Steady : r = cur[p] => Furnished(r)'
    BY <1>35, <2>0, <2>1
       DEF Remove, At, Relies, Furnished, Typed, TypeOK, LocalTypes, FileTypes
  <2> QED
    BY <2>2, <2>3, <2>4, <2>5, OwnStep

<1>36. ASSUME NEW p \in Sessions, Close(p) PROVE ReceiptInv'
  <2>0. Relies(p) /\ Stands(p) /\ Makes(p) /\ cur[p] \in Runs /\ pc[p] \notin Away
    BY <1>36 DEF Close, At, ReceiptInv, VerdictInv, Typed, TypeOK, LocalTypes, Away
  <2>1. cur[p] \in Steady => Holds(p) /\ own[p] = run[cur[p]] /\ Furnished(cur[p])
    BY <1>36, HolderReads DEF Close, At, Working, Ending, ReceiptInv, Steady
  <2>2. OwnOnly(p)
    BY <1>36, <2>0, <2>1
       DEF Close, Jump, Goto, OwnOnly, Typed, TypeOK, LocalTypes, FileTypes
  <2>3. Others(p)
    BY <1>36 DEF Close, Jump, Goto, locals, Others, Typed, TypeOK, LocalTypes, FileTypes
  <2>4. Relies(p)'
    <3>1. cur' = cur /\ pc'[p] \in {"closePack", "unlock"}
      BY <1>36 DEF Close, Jump, Goto, locals, Typed, TypeOK, LocalTypes, FileTypes
    <3> QED
      BY <3>1 DEF Relies, Accounted, Packed
  <2>5. \A r \in Steady : r = cur[p] => Furnished(r)'
    <3> DEFINE rec == ClosedAs(own[p], ClosingStatus(intent[p]))
    <3>1. rec.status # "accepted"
      <4>1. ClosingStatus(intent[p]) # "accepted"
        BY Closes DEF Closed
      <4> QED
        BY <4>1 DEF ClosedAs, RunRecord, Typed, TypeOK, LocalTypes, FileTypes
    <3> HIDE DEF rec
    <3>2. run'[cur[p]] \in {run[cur[p]], rec}
      BY <1>36, <2>0 DEF Close, rec, Typed, TypeOK, LocalTypes, FileTypes
    <3>3. UNCHANGED <<pending, decision, pack>>
      BY <1>36 DEF Close
    <3> QED
      BY <2>1, <3>1, <3>2, <3>3 DEF Furnished
  <2> QED
    BY <2>2, <2>3, <2>4, <2>5, OwnStep

<1>37. ASSUME NEW p \in Sessions, ClosePack(p) PROVE ReceiptInv'
  <2>0. Relies(p) /\ Stands(p) /\ Makes(p) /\ cur[p] \in Runs /\ pc[p] \notin Away
    BY <1>37 DEF ClosePack, At, ReceiptInv, VerdictInv, Typed, TypeOK, LocalTypes, Away
  <2>1. cur[p] \in Steady => Holds(p) /\ own[p] = run[cur[p]] /\ Furnished(cur[p])
    BY <1>37, HolderReads DEF ClosePack, At, Working, Ending, ReceiptInv, Steady
  <2>2. OwnOnly(p)
    BY <1>37, <2>0, <2>1
       DEF ClosePack, Jump, Goto, OwnOnly, Typed, TypeOK, LocalTypes, FileTypes
  <2>3. Others(p)
    BY <1>37 DEF ClosePack, Jump, Goto, locals, Others, Typed, TypeOK, LocalTypes, FileTypes
  <2>4. Relies(p)'
    BY <1>37, <2>0
       DEF ClosePack, Jump, Goto, locals, At, Relies, Steady, Accounted, Packed, Typed,
           TypeOK, LocalTypes, FileTypes
  <2>5. \A r \in Steady : r = cur[p] => Furnished(r)'
    BY <1>37, <2>0, <2>1 DEF ClosePack, At, Stands, Closed, Furnished
  <2> QED
    BY <2>2, <2>3, <2>4, <2>5, OwnStep

<1>38. ASSUME NEW p \in Sessions, ClosePending(p) PROVE ReceiptInv'
  <2>0. Relies(p) /\ Stands(p) /\ Makes(p) /\ cur[p] \in Runs /\ pc[p] \notin Away
    BY <1>38 DEF ClosePending, At, ReceiptInv, VerdictInv, Typed, TypeOK, LocalTypes, Away
  <2>1. cur[p] \in Steady => Holds(p) /\ own[p] = run[cur[p]] /\ Furnished(cur[p])
    BY <1>38, HolderReads DEF ClosePending, At, Working, Ending, ReceiptInv, Steady
  <2>2. OwnOnly(p)
    BY <1>38, <2>0, <2>1
       DEF ClosePending, Jump, Goto, OwnOnly, Typed, TypeOK, LocalTypes, FileTypes
  <2>3. Others(p)
    BY <1>38
       DEF ClosePending, Jump, Goto, locals, Others, Typed, TypeOK, LocalTypes, FileTypes
  <2>4. Relies(p)'
    BY <1>38, <2>0
       DEF ClosePending, Jump, Goto, locals, At, Relies, Steady, Accounted, Packed, Typed,
           TypeOK, LocalTypes, FileTypes
  <2>5. \A r \in Steady : r = cur[p] => Furnished(r)'
    BY <1>38, <2>0, <2>1 DEF ClosePending, At, Stands, Closed, Furnished
  <2> QED
    BY <2>2, <2>3, <2>4, <2>5, OwnStep

<1>39. ASSUME NEW r \in Runs, Reclaim(r) PROVE ReceiptInv'
  BY <1>39 DEF Reclaim, files, locals, ReceiptInv, Furnished, Relies

<1>40. ASSUME NEW r \in Runs, Change(r) PROVE ReceiptInv'
  BY <1>40 DEF Change, files, locals, ReceiptInv, Furnished, Relies

<1>41. CASE UNCHANGED vars
  BY <1>41 DEF vars, files, locals, ReceiptInv, Furnished, Relies

<1> QED
  BY <1>1, <1>2, <1>3, <1>4, <1>5, <1>6, <1>7, <1>8, <1>9, <1>10, <1>11, <1>12, <1>13,
     <1>14, <1>15, <1>16, <1>17, <1>18, <1>19, <1>20, <1>21, <1>22, <1>23, <1>24, <1>25,
     <1>26, <1>27, <1>28, <1>29, <1>30, <1>31, <1>32, <1>33, <1>34, <1>35, <1>36, <1>37,
     <1>38, <1>39, <1>40, <1>41
     DEF Next, Run, User

(* The receipts, in every reachable state. *)
LEMMA Receipting ==
  ASSUME PromptCreator
  PROVE  Spec => []ReceiptInv
<1>1. Init => ReceiptInv
  BY DEF Init, ReceiptInv, Furnished, Relies, NoRun, Accounted, Packed
<1>2. Typed /\ VerdictInv /\ ReceiptInv /\ [Next]_vars => ReceiptInv'
  BY ReceiptsStay
<1> QED
  BY <1>1, <1>2, Settlement, PTL DEF Spec

(* Until its memory is committed, an accepted workbench run keeps the receipt
   from which the next session completes it (settlePendingTaskApproval removes
   the receipt last, recoverTaskModeApproval starts from it). *)
THEOREM AcceptsAreResumable == ASSUME PromptCreator PROVE Spec => []UnfinishedAcceptKeepsReceipt
<1>1. ReceiptInv => UnfinishedAcceptKeepsReceipt
  BY DEF ReceiptInv, Furnished, Steady, UnfinishedAcceptKeepsReceipt
<1> QED
  BY <1>1, Receipting, PTL

(* An accepted run keeps the ProofPack assembled from its own decision: a
   session that fails, revises or gives up never withdraws it
   (persistProofPackDurably, failTaskModeDelivery). *)
THEOREM PacksAreKept == ASSUME PromptCreator PROVE Spec => []AcceptedKeepsPack
<1>1. ReceiptInv => AcceptedKeepsPack
  BY DEF ReceiptInv, Furnished, Steady, AcceptedKeepsPack
<1> QED
  BY <1>1, Receipting, PTL

-----------------------------------------------------------------------------
(* The acceptance contract. *)

Outcomes == [r \in Runs |-> OutcomeOf(r)]

(* What the contract lets become of one run. *)
Turns(r) ==
  \/ OutcomeOf(r)' = OutcomeOf(r)
  \/ r \notin CliRuns /\ OutcomeOf(r) = "open" /\ OutcomeOf(r)' = "decided"
  \/ r \notin CliRuns /\ OutcomeOf(r) = "decided" /\ OutcomeOf(r)' = "accepted"
  \/ r \in CliRuns /\ OutcomeOf(r) = "open" /\ OutcomeOf(r)' = "accepted"
  \/ OutcomeOf(r) = "open" /\ OutcomeOf(r)' = "refused"
  \/ OutcomeOf(r) \in {"open", "decided"} /\ OutcomeOf(r)' = "failed"

(* A step that turns one run is a step of the contract. *)
LEMMA Turning ==
  ASSUME NEW w \in Runs, Turns(w), memory' = memory,
         \A r \in Runs : r # w => OutcomeOf(r)' = OutcomeOf(r)
  PROVE  [Contract!Next]_<<Outcomes, memory>>
<1> DEFINE to == OutcomeOf(w)'
<1>1. Outcomes' = [Outcomes EXCEPT ![w] = to] /\ Outcomes[w] = OutcomeOf(w)
  BY DEF Outcomes
<1>2. CASE to = OutcomeOf(w)
  <2>1. Outcomes' = Outcomes
    BY <1>2 DEF Outcomes
  <2> QED
    BY <2>1
<1>3. CASE to # OutcomeOf(w)
  <2>1. Contract!Decide(w) \/ Contract!Accept(w) \/ Contract!Refuse(w) \/ Contract!Fail(w)
    BY <1>1, <1>3
       DEF Turns, Outcomes, Contract!Decide, Contract!Accept, Contract!Refuse,
           Contract!Fail,
       Contract!Becomes
  <2> QED
    BY <2>1 DEF Contract!Next
<1> QED
  BY <1>2, <1>3

(* A step that writes neither a run nor a decision turns nothing. *)
LEMMA StandingStill ==
  ASSUME UNCHANGED <<run, decision, memory>>
  PROVE  [Contract!Next]_<<Outcomes, memory>>
BY DEF Outcomes, OutcomeOf

(* Every step of the files, the locks and the restarts is a step of the
   contract, or none. *)
LEMMA StepsOfContract ==
  ASSUME Typed, Typed', BackedInv, VerdictInv, Volatile = {}, [Next]_vars
  PROVE  [Contract!Next]_<<Outcomes, memory>>
<1>1. ASSUME NEW p \in Sessions, Start(p) PROVE [Contract!Next]_<<Outcomes, memory>>
  BY <1>1, StandingStill DEF Start, files
<1>2. ASSUME NEW p \in Sessions, StartCli(p) PROVE [Contract!Next]_<<Outcomes, memory>>
  BY <1>2, StandingStill DEF StartCli, Draw, files
<1>3. ASSUME NEW p \in Sessions, FindNone(p) PROVE [Contract!Next]_<<Outcomes, memory>>
  BY <1>3, StandingStill DEF FindNone, Draw, files
<1>4. ASSUME NEW p \in Sessions, FindOne(p) PROVE [Contract!Next]_<<Outcomes, memory>>
  BY <1>4, StandingStill DEF FindOne, files
<1>5. ASSUME NEW p \in Sessions, FindBlocked(p) PROVE [Contract!Next]_<<Outcomes, memory>>
  BY <1>5, StandingStill DEF FindBlocked, files
<1>6. ASSUME NEW p \in Sessions, Load(p) PROVE [Contract!Next]_<<Outcomes, memory>>
  BY <1>6, StandingStill DEF Load, files
<1>7. ASSUME NEW p \in Sessions, Bind(p) PROVE [Contract!Next]_<<Outcomes, memory>>
  BY <1>7, StandingStill DEF Bind, files
<1>8. ASSUME NEW p \in Sessions, Decided(p) PROVE [Contract!Next]_<<Outcomes, memory>>
  BY <1>8, StandingStill DEF Decided, files
<1>9. ASSUME NEW p \in Sessions, Verify(p) PROVE [Contract!Next]_<<Outcomes, memory>>
  BY <1>9, StandingStill DEF Verify, files
<1>10. ASSUME NEW p \in Sessions, Answer(p) PROVE [Contract!Next]_<<Outcomes, memory>>
  BY <1>10, StandingStill DEF Answer, files
<1>11. ASSUME NEW p \in Sessions, Delete(p) PROVE [Contract!Next]_<<Outcomes, memory>>
  BY <1>11, StandingStill DEF Delete, files
<1>12. ASSUME NEW p \in Sessions, Lock(p) PROVE [Contract!Next]_<<Outcomes, memory>>
  BY <1>12, StandingStill DEF Lock, files
<1>13. ASSUME NEW p \in Sessions, LockTimeout(p) PROVE [Contract!Next]_<<Outcomes, memory>>
  BY <1>13, StandingStill DEF LockTimeout, files
<1>14. ASSUME NEW p \in Sessions, Unlock(p) PROVE [Contract!Next]_<<Outcomes, memory>>
  BY <1>14, StandingStill DEF Unlock, files
<1>15. ASSUME NEW p \in Sessions, Reload(p) PROVE [Contract!Next]_<<Outcomes, memory>>
  BY <1>15, StandingStill DEF Reload, files
<1>16. ASSUME NEW p \in Sessions, Repending(p) PROVE [Contract!Next]_<<Outcomes, memory>>
  BY <1>16, StandingStill DEF Repending, files
<1>17. ASSUME NEW p \in Sessions, Rebind(p) PROVE [Contract!Next]_<<Outcomes, memory>>
  BY <1>17, StandingStill DEF Rebind, files
<1>18. ASSUME NEW p \in Sessions, Settle(p) PROVE [Contract!Next]_<<Outcomes, memory>>
  BY <1>18, StandingStill DEF Settle, files
<1>19. ASSUME NEW p \in Sessions, Pack(p) PROVE [Contract!Next]_<<Outcomes, memory>>
  BY <1>19, StandingStill DEF Pack, files
<1>20. ASSUME NEW p \in Sessions, After(p) PROVE [Contract!Next]_<<Outcomes, memory>>
  BY <1>20, StandingStill DEF After, files
<1>21. ASSUME NEW p \in Sessions, Unpack(p) PROVE [Contract!Next]_<<Outcomes, memory>>
  BY <1>21, StandingStill DEF Unpack, files
<1>22. ASSUME NEW p \in Sessions, Mark(p) PROVE [Contract!Next]_<<Outcomes, memory>>
  BY <1>22, StandingStill DEF Mark, files
<1>23. ASSUME NEW p \in Sessions, Learned(p) PROVE [Contract!Next]_<<Outcomes, memory>>
  BY <1>23, StandingStill DEF Learned, files
<1>24. ASSUME NEW p \in Sessions, Verdict(p) PROVE [Contract!Next]_<<Outcomes, memory>>
  BY <1>24, StandingStill DEF Verdict, files
<1>25. ASSUME NEW p \in Sessions, ClosePack(p) PROVE [Contract!Next]_<<Outcomes, memory>>
  BY <1>25, StandingStill DEF ClosePack, files
<1>26. ASSUME NEW p \in Sessions, Crash(p) PROVE [Contract!Next]_<<Outcomes, memory>>
  BY <1>26, StandingStill DEF Crash, files
<1>27. ASSUME NEW p \in Sessions, Receipt(p) PROVE [Contract!Next]_<<Outcomes, memory>>
  BY <1>27, StandingStill DEF Receipt, files
<1>28. ASSUME NEW p \in Sessions, Remove(p) PROVE [Contract!Next]_<<Outcomes, memory>>
  BY <1>28, StandingStill DEF Remove, files
<1>29. ASSUME NEW p \in Sessions, ClosePending(p) PROVE [Contract!Next]_<<Outcomes, memory>>
  BY <1>29, StandingStill DEF ClosePending, files
<1>30. ASSUME NEW p \in Sessions, Learn(p) PROVE [Contract!Next]_<<Outcomes, memory>>
  <2>0. /\ Makes(p) /\ Locks(p) /\ Stands(p)
        /\ cur[p] \in Runs /\ pc[p] = "learn" /\ UNCHANGED <<run, decision>>
    BY <1>30 DEF Learn, At, VerdictInv, Typed, TypeOK, LocalTypes
  <2>1. OutcomeOf(cur[p]) = "accepted"
    BY <2>0 DEF OutcomeOf, Makes, Maker, Locks, Same, Stands, Working
  <2>2. Outcomes' = Outcomes /\ Outcomes[cur[p]] = "accepted"
    BY <2>0, <2>1 DEF Outcomes, OutcomeOf
  <2>3. memory' = memory \/ \E m \in Candidates[cur[p]] : memory' = memory \union {m}
    BY <1>30, <2>0 DEF Learn, Stands
  <2>4. CASE memory' = memory
    BY <2>2, <2>4
  <2>5. CASE \E m \in Candidates[cur[p]] : memory' = memory \union {m}
    <3>1. Contract!Learn(cur[p])
      BY <2>2, <2>5 DEF Contract!Learn, Outcomes
    <3> QED
      BY <2>0, <3>1 DEF Contract!Next
  <2> QED
    BY <2>3, <2>4, <2>5
<1>31. ASSUME NEW p \in Sessions, Create(p) PROVE [Contract!Next]_<<Outcomes, memory>>
  <2>0. /\ Makes(p) /\ Locks(p) /\ Stands(p) /\ own[p] \in RunRecord
        /\ cur[p] \in Runs /\ pc[p] = "create" /\ memory' = memory
    BY <1>31 DEF Create, At, VerdictInv, Typed, TypeOK, LocalTypes, files
  <2>1. \A r \in Runs : r # cur[p] => run'[r] = run[r] /\ decision'[r] = decision[r]
    BY <1>31 DEF Create, SaveOwn, Typed, TypeOK, FileTypes
  <2>2. ASSUME NEW w \in Runs, w = cur[p] PROVE Turns(w)
    BY <1>31, <2>0, <2>2, SMTT(30)
       DEF Create, SaveOwn, Turns, OutcomeOf, Makes, Maker, Making, Locks, NoRun, BackedInv,
           OwnBacked, Backed, Workbench, Typed, TypeOK, FileTypes, RunRecord
  <2> QED
    BY <2>0, <2>1, <2>2, Turning DEF OutcomeOf
<1>32. ASSUME NEW p \in Sessions, Final(p) PROVE [Contract!Next]_<<Outcomes, memory>>
  <2>0. /\ Makes(p) /\ Locks(p) /\ Stands(p) /\ own[p] \in RunRecord
        /\ cur[p] \in Runs /\ pc[p] = "final" /\ memory' = memory
    BY <1>32 DEF Final, At, VerdictInv, Typed, TypeOK, LocalTypes, files
  <2>1. \A r \in Runs : r # cur[p] => run'[r] = run[r] /\ decision'[r] = decision[r]
    BY <1>32 DEF Final, SaveOwn, Typed, TypeOK, FileTypes
  <2>2. ASSUME NEW w \in Runs, w = cur[p] PROVE Turns(w)
    BY <1>32, <2>0, <2>2, SMTT(30)
       DEF Final, SaveOwn, Turns, OutcomeOf, Makes, Maker, Making, Locks, NoRun, BackedInv,
           OwnBacked, Backed, Workbench, Typed, TypeOK, FileTypes, RunRecord
  <2> QED
    BY <2>0, <2>1, <2>2, Turning DEF OutcomeOf
<1>33. ASSUME NEW p \in Sessions, Abort(p) PROVE [Contract!Next]_<<Outcomes, memory>>
  <2>0. /\ Makes(p) /\ Locks(p) /\ Stands(p) /\ own[p] \in RunRecord
        /\ cur[p] \in Runs /\ pc[p] = "abort" /\ memory' = memory
    BY <1>33 DEF Abort, At, VerdictInv, Typed, TypeOK, LocalTypes, files
  <2>1. \A r \in Runs : r # cur[p] => run'[r] = run[r] /\ decision'[r] = decision[r]
    BY <1>33 DEF Abort, Typed, TypeOK, FileTypes
  <2>2. ASSUME NEW w \in Runs, w = cur[p] PROVE Turns(w)
    <3> DEFINE rec == ClosedAs(own[p], "failed")
    <3>1. rec.status = "failed"
      BY <2>0, Statuses
    <3> HIDE DEF rec
    <3>2. decision' = decision /\ (run'[w] = rec \/ run' = run)
      BY <1>33, <2>2 DEF Abort, rec, Typed, TypeOK, FileTypes
    <3>3. OutcomeOf(w) = "open"
      BY <2>0, <2>2 DEF OutcomeOf, Makes, Maker, Making, Stands, NoRun
    <3>4. OutcomeOf(w)' \in {"open", "failed"}
      BY <3>1, <3>2, <3>3 DEF OutcomeOf
    <3> QED
      BY <3>3, <3>4 DEF Turns
  <2> QED
    BY <2>0, <2>1, <2>2, Turning DEF OutcomeOf
<1>34. ASSUME NEW p \in Sessions, Note(p) PROVE [Contract!Next]_<<Outcomes, memory>>
  <2>0. /\ Makes(p) /\ Locks(p) /\ Stands(p) /\ own[p] \in RunRecord
        /\ cur[p] \in Runs /\ pc[p] = "note" /\ memory' = memory
    BY <1>34 DEF Note, At, VerdictInv, Typed, TypeOK, LocalTypes, files
  <2>1. \A r \in Runs : r # cur[p] => run'[r] = run[r] /\ decision'[r] = decision[r]
    BY <1>34 DEF Note, Typed, TypeOK, FileTypes
  <2>2. ASSUME NEW w \in Runs, w = cur[p] PROVE Turns(w)
    BY <1>34, <2>0, <2>2, SMTT(30)
       DEF Note, At, Turns, OutcomeOf, Makes, Maker, Making, Locks, NoRun, BackedInv,
           OwnBacked, Backed, Workbench, Typed, TypeOK, FileTypes, Decision, RunRecord
  <2> QED
    BY <2>0, <2>1, <2>2, Turning DEF OutcomeOf
<1>35. ASSUME NEW p \in Sessions, Decide(p) PROVE [Contract!Next]_<<Outcomes, memory>>
  <2>0. /\ Makes(p) /\ Locks(p) /\ Stands(p) /\ own[p] \in RunRecord
        /\ cur[p] \in Runs /\ pc[p] = "decide" /\ memory' = memory
    BY <1>35 DEF Decide, At, VerdictInv, Typed, TypeOK, LocalTypes, files
  <2>1. \A r \in Runs : r # cur[p] => run'[r] = run[r] /\ decision'[r] = decision[r]
    BY <1>35 DEF Decide, Typed, TypeOK, FileTypes
  <2>2. ASSUME NEW w \in Runs, w = cur[p] PROVE Turns(w)
    BY <1>35, <2>2 DEF Decide, Turns, OutcomeOf
  <2> QED
    BY <2>0, <2>1, <2>2, Turning DEF OutcomeOf
<1>36. ASSUME NEW p \in Sessions, Accept(p) PROVE [Contract!Next]_<<Outcomes, memory>>
  <2>0. /\ Makes(p) /\ Locks(p) /\ Stands(p) /\ own[p] \in RunRecord
        /\ cur[p] \in Runs /\ pc[p] = "accept" /\ memory' = memory
    BY <1>36 DEF Accept, At, VerdictInv, Typed, TypeOK, LocalTypes, files
  <2>1. \A r \in Runs : r # cur[p] => run'[r] = run[r] /\ decision'[r] = decision[r]
    BY <1>36 DEF Accept, Typed, TypeOK, FileTypes
  <2>2. ASSUME NEW w \in Runs, w = cur[p] PROVE Turns(w)
    <3> DEFINE rec == AcceptedFrom(own[p], decision[cur[p]])
    <3>1. rec.status = "accepted"
      BY <2>0, Statuses
    <3> HIDE DEF rec
    <3>2. decision' = decision /\ (run'[w] = rec \/ run' = run)
      <4>1. \/ run' = [run EXCEPT ![cur[p]] = rec]
            \/ UNCHANGED run
        BY <1>36 DEF Accept, rec
      <4> QED
        BY <1>36, <2>2, <4>1 DEF Accept, Typed, TypeOK, FileTypes
    <3>3. OutcomeOf(w) = "decided" /\ w \notin CliRuns
      BY <2>0, <2>2
         DEF OutcomeOf, Locks, Same, Stands, Working, Away, Typed, DecisionHeld, Deciding
    <3>4. OutcomeOf(w)' \in {"decided", "accepted"}
      BY <3>1, <3>2, <3>3 DEF OutcomeOf
    <3> QED
      BY <3>3, <3>4 DEF Turns
  <2> QED
    BY <2>0, <2>1, <2>2, Turning DEF OutcomeOf
<1>37. ASSUME NEW p \in Sessions, Commit(p) PROVE [Contract!Next]_<<Outcomes, memory>>
  <2>0. /\ Makes(p) /\ Locks(p) /\ Stands(p) /\ own[p] \in RunRecord
        /\ cur[p] \in Runs /\ pc[p] = "commit" /\ memory' = memory
    BY <1>37 DEF Commit, At, VerdictInv, Typed, TypeOK, LocalTypes, files
  <2>1. \A r \in Runs : r # cur[p] => run'[r] = run[r] /\ decision'[r] = decision[r]
    BY <1>37 DEF Commit, Typed, TypeOK, FileTypes
  <2>2. ASSUME NEW w \in Runs, w = cur[p] PROVE Turns(w)
    BY <1>37, <2>0, <2>2, SMTT(30)
       DEF Commit, Resume, locals, Turns, OutcomeOf, Makes, Maker, Locks, Same, Working,
           OwnBacked, Typed, TypeOK, FileTypes, Decision, RunRecord
  <2> QED
    BY <2>0, <2>1, <2>2, Turning DEF OutcomeOf
<1>38. ASSUME NEW p \in Sessions, Close(p) PROVE [Contract!Next]_<<Outcomes, memory>>
  <2>0. /\ Makes(p) /\ Locks(p) /\ Stands(p) /\ own[p] \in RunRecord
        /\ cur[p] \in Runs /\ pc[p] = "close" /\ memory' = memory
    BY <1>38 DEF Close, At, VerdictInv, Typed, TypeOK, LocalTypes, files
  <2>1. \A r \in Runs : r # cur[p] => run'[r] = run[r] /\ decision'[r] = decision[r]
    BY <1>38 DEF Close, Typed, TypeOK, FileTypes
  <2>2. ASSUME NEW w \in Runs, w = cur[p] PROVE Turns(w)
    <3> DEFINE rec == ClosedAs(own[p], ClosingStatus(intent[p]))
    <3>1. rec.status \in Closed /\ (intent[p] = "fail" => rec.status = "failed")
      BY <2>0, Statuses, Closes
    <3> HIDE DEF rec
    <3>2. decision' = decision /\ (run'[w] = rec \/ run' = run)
      BY <1>38, <2>2 DEF Close, rec, Typed, TypeOK, FileTypes
    <3>3. run[w].status = "delivered" /\ (intent[p] = "fail" \/ decision[w] = None)
      BY <2>0, <2>2 DEF Locks, Same, Rogue, Stands, Ending
    <3>4. OutcomeOf(w) \in {"open", "decided"} /\ (intent[p] # "fail" => OutcomeOf(w) = "open")
      BY <3>3 DEF OutcomeOf
    <3>5. \/ OutcomeOf(w)' = OutcomeOf(w)
          \/ OutcomeOf(w)' = "failed"
          \/ OutcomeOf(w)' = "refused" /\ intent[p] # "fail"
      BY <3>1, <3>2 DEF OutcomeOf, Closed
    <3> QED
      BY <3>4, <3>5 DEF Turns
  <2> QED
    BY <2>0, <2>1, <2>2, Turning DEF OutcomeOf
<1>39. ASSUME NEW r \in Runs, Reclaim(r) \/ Change(r) PROVE [Contract!Next]_<<Outcomes, memory>>
  BY <1>39, StandingStill DEF Reclaim, Change, files
<1>40. CASE UNCHANGED vars
  BY <1>40, StandingStill DEF vars, files
<1> QED
  BY <1>1, <1>2, <1>3, <1>4, <1>5, <1>6, <1>7, <1>8, <1>9, <1>10, <1>11, <1>12, <1>13, <1>14,
     <1>15, <1>16, <1>17, <1>18, <1>19, <1>20, <1>21, <1>22, <1>23, <1>24, <1>25, <1>26,
     <1>27, <1>28, <1>29, <1>30, <1>31, <1>32, <1>33, <1>34, <1>35, <1>36, <1>37, <1>38,
     <1>39, <1>40
     DEF Next, Run, User

(* The files, the lock and the restarts implement the acceptance contract, if
   nobody edits a deliverable and nobody finds a receipt before its creator has
   noted it: a run is decided once, an accept that was decided is never turned
   into a refusal, a terminal outcome stays, and only accepted runs teach. *)
THEOREM ContractHolds ==
  ASSUME PromptCreator, Volatile = {}
  PROVE  Spec => ImplementsContract
<1>1. Init => Contract!Init
  BY DEF Init, Contract!Init, OutcomeOf, NoRun
<1>2. PromptCreator /\ Volatile = {}
  OBVIOUS
<1>3. /\ Volatile = {} /\ Typed /\ Typed' /\ BackedInv /\ VerdictInv /\ [Next]_vars
      => [Contract!Next]_<<[r \in Runs |-> OutcomeOf(r)], memory>>
  BY StepsOfContract DEF Outcomes
<1> QED
  BY <1>1, <1>2, <1>3, Settlement, PTL DEF Spec, ImplementsContract, Contract!Spec

-----------------------------------------------------------------------------
(* Who may undo an accept, with no assumption on the creator's next save or on
   the deliverable.  A run has one writer until its receipt exists; then whoever
   writes it under the lock has read it under the lock, so a session that is
   about to write anything else than an accepted run knows that it is not
   accepted.  What is left are the saves made without the lock. *)

(* A creator before its receipt exists, or a session without a workbench. *)
Early(p) ==
  \/ pc[p] \in {"create", "final"}
  \/ cur[p] \in CliRuns /\ pc[p] \in {"learn", "commit"}

(* Nobody else has its run, and nobody can find it. *)
Private(p) ==
  Early(p) =>
    /\ ~pending[cur[p]]
    /\ \A q \in Sessions \ {p} : pc[q] \notin Away => cur[q] # cur[p]

(* A lock is held for the run at hand, by a session that asked for it. *)
Holder(p) ==
  \A r \in Runs : lock[r] = p =>
    /\ r = cur[p] /\ r \notin CliRuns
    /\ pc[p] \in {"reload"} \union Working \union Ending

(* Who writes the run as its creator or under the lock knows whether it was
   accepted; who closes it without the lock fails it. *)
Aware(p) ==
  /\ Early(p) \/ (cur[p] \notin CliRuns /\ pc[p] \in Working)
     => (run[cur[p]].status = "accepted" => own[p].status = "accepted")
  /\ cur[p] \notin CliRuns /\ pc[p] \in {"reload"} \union Working => Holds(p)
  /\ pc[p] = "close" => \/ Holds(p) /\ run[cur[p]].status # "accepted"
                        \/ ~Holds(p) /\ intent[p] = "fail"

(* What the control point says of the copy. *)
Poised(p) ==
  /\ pc[p] \in {"receipt", "note", "abort", "verdict", "unpack"} => own[p].status = "delivered"
  /\ pc[p] \in {"learn", "commit"} => own[p].status = "accepted"
  /\ pc[p] \notin Away /\ cur[p] \in CliRuns => pc[p] \in {"create", "final", "learn", "commit"}

UndoInv ==
  /\ \A p \in Sessions : Private(p) /\ Holder(p) /\ Aware(p) /\ Poised(p)
  /\ \A r \in CliRuns : ~pending[r]

(* The step takes no lock from another session and gives it none. *)
Minds(p) == \A r \in Runs, q \in Sessions : q # p => (lock'[r] = q <=> lock[r] = q)

(* It accepts and offers a run only as its creator or under its lock. *)
Owns(p) ==
  /\ \A r \in Runs : run'[r].status = "accepted" /\ run[r].status # "accepted" =>
       r = cur[p] /\ (Holds(p) \/ Early(p))
  /\ \A r \in Runs : pending'[r] /\ ~pending[r] => r = cur[p] /\ pc[p] = "receipt"

(* p goes on with its run, goes away, or takes one that is offered or unused. *)
Takes(p) ==
  \/ pc'[p] \in Away
  \/ pc[p] \notin Away /\ cur'[p] = cur[p]
  \/ pending[cur'[p]]
  \/ \A q \in Sessions \ {p} : pc[q] \notin Away => cur[q] # cur'[p]

Knows(p) == Private(p) /\ Holder(p) /\ Aware(p) /\ Poised(p)

(* What the other sessions know stays true. *)
LEMMA OthersAware ==
  ASSUME Typed, UndoInv, NEW p \in Sessions, Others(p), Minds(p), Owns(p), Takes(p),
         NEW q \in Sessions, q # p
  PROVE  Knows(q)'
<1>0. /\ pc'[q] = pc[q] /\ cur'[q] = cur[q] /\ own'[q] = own[q] /\ intent'[q] = intent[q]
      /\ pc[q] \notin Away => cur[q] \in Runs
      /\ Private(q) /\ Holder(q) /\ Aware(q) /\ Poised(q)
  BY DEF Others, Typed, TypeOK, LocalTypes, Away, UndoInv
<1>1. Early(q)' = Early(q) /\ (Early(q) => pc[q] \notin Away)
  BY <1>0 DEF Early, Away
<1>2. Private(q)'
  <2> SUFFICES ASSUME Early(q)
               PROVE  /\ ~pending'[cur[q]]
                      /\ \A o \in Sessions \ {q} : pc'[o] \notin Away => cur'[o] # cur[q]
    BY <1>0, <1>1 DEF Private
  <2>1. ~pending[cur[q]] /\ \A o \in Sessions \ {q} : pc[o] \notin Away => cur[o] # cur[q]
    BY <1>0 DEF Private
  <2>2. ~pending'[cur[q]]
    BY <1>0, <1>1, <2>1 DEF Owns, Away
  <2>3. pc'[p] \notin Away => cur'[p] # cur[q]
    BY <1>0, <1>1, <2>1 DEF Takes
  <2>4. ASSUME NEW o \in Sessions \ {q}, o # p, pc'[o] \notin Away PROVE cur'[o] # cur[q]
    BY <2>1, <2>4 DEF Others
  <2> QED
    BY <2>2, <2>3, <2>4
<1>3. Holder(q)'
  BY <1>0 DEF Holder, Minds
<1>4. Aware(q)'
  <2>1. pc[q] \notin Away => (Holds(q)' <=> Holds(q))
    BY <1>0 DEF Holds, Minds
  <2>2. ASSUME pc[q] \notin Away, Early(q) \/ Holds(q), run'[cur[q]].status = "accepted"
        PROVE  run[cur[q]].status = "accepted"
    <3> SUFFICES ASSUME run[cur[q]].status # "accepted" PROVE FALSE
      OBVIOUS
    <3>1. cur[q] = cur[p] /\ (Holds(p) \/ Early(p))
      BY <1>0, <2>2 DEF Owns
    <3>2. pc[p] \notin Away
      BY <1>0, <2>2, <3>1 DEF UndoInv, Holder, Holds, Early, Working, Ending, Away
    <3>3. Private(p) /\ Private(q)
      BY DEF UndoInv
    <3> QED
      BY <1>0, <2>2, <3>1, <3>2, <3>3
         DEF Private, Holds, Holder, UndoInv, Early, Working, Ending
  <2>3. pc[q] \in {"reload", "close"} \union Working => pc[q] \notin Away
    BY DEF Working, Away
  <2>4. Early(q) \/ (cur[q] \notin CliRuns /\ pc[q] \in Working)
        => (run'[cur[q]].status = "accepted" => own[q].status = "accepted")
    BY <1>0, <1>1, <2>2, <2>3 DEF Aware
  <2>5. pc[q] = "close" => \/ Holds(q)' /\ run'[cur[q]].status # "accepted"
                           \/ ~Holds(q)' /\ intent[q] = "fail"
    BY <1>0, <2>1, <2>2, <2>3 DEF Aware
  <2> QED
    BY <1>0, <1>1, <2>1, <2>3, <2>4, <2>5 DEF Aware
<1>5. Poised(q)'
  BY <1>0 DEF Poised
<1> QED
  BY <1>2, <1>3, <1>4, <1>5 DEF Knows

(* A step of p keeps the invariant when p itself still knows what it must. *)
LEMMA UndoStep ==
  ASSUME Typed, UndoInv, NEW p \in Sessions, Others(p), Minds(p), Owns(p), Takes(p), Knows(p)'
  PROVE  UndoInv'
<1>1. \A q \in Sessions : Knows(q)'
  BY OthersAware
<1>2. \A r \in CliRuns : ~pending'[r]
  BY SettlementAssumption DEF Owns, UndoInv, Poised, Away
<1> QED
  BY <1>1, <1>2 DEF UndoInv, Knows

(* A step that writes no run, offers none and touches no lock, *)
LEMMA UndoStill ==
  ASSUME Typed, UndoInv, NEW p \in Sessions, Others(p), UNCHANGED <<run, pending, lock>>,
         Takes(p), Knows(p)'
  PROVE  UndoInv'
BY UndoStep DEF Minds, Owns

(* and the end of a session that had no lock, or leaves it. *)
LEMMA UndoGone ==
  ASSUME Typed, UndoInv, NEW p \in Sessions, Others(p), Minds(p), Owns(p), pc'[p] = "off",
         \A r \in Runs : lock'[r] # p
  PROVE  UndoInv'
<1>1. Takes(p)
  BY DEF Takes, Away
<1>2. Knows(p)'
  BY DEF Knows, Private, Holder, Aware, Poised, Early, Working, Away
<1> QED
  BY <1>1, <1>2, UndoStep

(* Every step keeps what the sessions know of an accepted run. *)
LEMMA UndoKept ==
  ASSUME Typed, Typed', UndoInv, [Next]_vars
  PROVE  UndoInv'
<1>1. ASSUME NEW p \in Sessions, Start(p) PROVE UndoInv'
  <2>1. Others(p) /\ UNCHANGED <<run, pending, lock>>
    BY <1>1 DEF Start, Jump, Goto, Forget, files, locals, Others, Typed, TypeOK, LocalTypes,
       FileTypes
  <2>2. Takes(p)
    BY <1>1 DEF Start, Jump, Goto, Forget, files, locals, At, Takes, Away, Typed, TypeOK,
       LocalTypes, FileTypes
  <2>3. Knows(p)'
    BY <1>1, <2>1, OutcomeStatus DEF Start, Jump, Goto, Forget, files, locals, At, Knows,
       UndoInv, Private, Holder, Aware, Poised, Early, Holds, Working, Ending, Away, NoRun,
       Typed, TypeOK, LocalTypes, FileTypes
  <2> QED
    BY <2>1, <2>2, <2>3, UndoStill
<1>2. ASSUME NEW p \in Sessions, StartCli(p) PROVE UndoInv'
  <2>1. Others(p) /\ UNCHANGED <<run, pending, lock>>
    BY <1>2 DEF StartCli, Draw, Fresh, Jump, Goto, Forget, files, locals, Others, Typed,
       TypeOK, LocalTypes, FileTypes
  <2>2. Takes(p)
    BY <1>2 DEF StartCli, Draw, Fresh, Jump, Goto, Forget, files, locals, At, Takes, Away,
       Typed, TypeOK, LocalTypes, FileTypes
  <2>3. Knows(p)'
    BY <1>2, <2>1, OutcomeStatus DEF StartCli, Draw, Fresh, Jump, Goto, Forget, files,
       locals, At, Knows, UndoInv, Private, Holder, Aware, Poised, Early, Holds, Working,
       Ending, Away, NoRun, Typed, TypeOK, LocalTypes, FileTypes
  <2> QED
    BY <2>1, <2>2, <2>3, UndoStill
<1>3. ASSUME NEW p \in Sessions, FindNone(p) PROVE UndoInv'
  <2>1. Others(p) /\ UNCHANGED <<run, pending, lock>>
    BY <1>3 DEF FindNone, Draw, Fresh, Jump, Goto, Forget, files, locals, Others, Typed,
       TypeOK, LocalTypes, FileTypes
  <2>2. Takes(p)
    BY <1>3 DEF FindNone, Draw, Fresh, Jump, Goto, Forget, files, locals, At, Takes, Away,
       Typed, TypeOK, LocalTypes, FileTypes
  <2>3. Knows(p)'
    BY <1>3, <2>1, OutcomeStatus DEF FindNone, Draw, Fresh, Jump, Goto, Forget, files,
       locals, At, Knows, UndoInv, Private, Holder, Aware, Poised, Early, Holds, Working,
       Ending, Away, NoRun, Typed, TypeOK, LocalTypes, FileTypes
  <2> QED
    BY <2>1, <2>2, <2>3, UndoStill
<1>4. ASSUME NEW p \in Sessions, FindOne(p) PROVE UndoInv'
  <2>1. Others(p) /\ UNCHANGED <<run, pending, lock>>
    BY <1>4 DEF FindOne, Receipts, Jump, Goto, Forget, files, locals, Others, Typed, TypeOK,
       LocalTypes, FileTypes
  <2>2. Takes(p)
    BY <1>4 DEF FindOne, Receipts, Jump, Goto, Forget, files, locals, At, Takes, Away,
       Typed, TypeOK, LocalTypes, FileTypes
  <2>3. Knows(p)'
    BY <1>4, <2>1, OutcomeStatus DEF FindOne, Receipts, Jump, Goto, Forget, files, locals,
       At, Knows, UndoInv, Private, Holder, Aware, Poised, Early, Holds, Working, Ending,
       Away, NoRun, Typed, TypeOK, LocalTypes, FileTypes
  <2> QED
    BY <2>1, <2>2, <2>3, UndoStill
<1>5. ASSUME NEW p \in Sessions, FindBlocked(p) PROVE UndoInv'
  <2>1. Others(p) /\ pc'[p] = "off" /\ UNCHANGED <<run, pending, lock>>
    BY <1>5 DEF FindBlocked, Forget, files, Others, Typed, TypeOK, LocalTypes
  <2>2. \A r \in Runs : lock[r] # p
    BY <1>5 DEF FindBlocked, At, UndoInv, Holder, Working, Ending
  <2>3. Minds(p) /\ Owns(p)
    BY <2>1 DEF Minds, Owns
  <2> QED
    BY <2>1, <2>2, <2>3, UndoGone

<1>6. ASSUME NEW p \in Sessions, Load(p) PROVE UndoInv'
  <2>1. Others(p) /\ UNCHANGED <<run, pending, lock>>
    BY <1>6 DEF Load, Jump, Goto, Forget, files, locals, Others, Typed, TypeOK, LocalTypes,
       FileTypes
  <2>2. Takes(p)
    BY <1>6 DEF Load, Jump, Goto, Forget, files, locals, At, Takes, Away, Typed, TypeOK,
       LocalTypes, FileTypes
  <2>3. Knows(p)'
    <3>1. /\ pc[p] \in {"load", "bind", "decided", "await"}
          /\ pc'[p] \in {"off", "bind", "decided", "verify", "lock"}
      BY <1>6 DEF Load, Jump, Goto, Forget, files, locals, At, Labels, Typed, TypeOK,
         LocalTypes, FileTypes
    <3>2. pc'[p] # "off" => cur'[p] = cur[p]
      BY <1>6 DEF Load, Jump, Goto, Forget, files, locals, Typed, TypeOK, LocalTypes,
         FileTypes
    <3>3. cur[p] \notin CliRuns /\ \A r \in Runs : lock[r] # p
      BY <3>1 DEF UndoInv, Holder, Poised, Working, Ending, Away
    <3> QED
      BY <2>1, <3>1, <3>2, <3>3 DEF Knows, Private, Holder, Aware, Poised, Early, Working,
         Away
  <2> QED
    BY <2>1, <2>2, <2>3, UndoStill
<1>7. ASSUME NEW p \in Sessions, Bind(p) PROVE UndoInv'
  <2>1. Others(p) /\ UNCHANGED <<run, pending, lock>>
    BY <1>7 DEF Bind, Jump, Goto, Forget, files, locals, Others, Typed, TypeOK, LocalTypes,
       FileTypes
  <2>2. Takes(p)
    BY <1>7 DEF Bind, Jump, Goto, Forget, files, locals, At, Takes, Away, Typed, TypeOK,
       LocalTypes, FileTypes
  <2>3. Knows(p)'
    <3>1. /\ pc[p] \in {"load", "bind", "decided", "await"}
          /\ pc'[p] \in {"off", "bind", "decided", "verify", "lock"}
      BY <1>7 DEF Bind, Jump, Goto, Forget, files, locals, At, Labels, Typed, TypeOK,
         LocalTypes, FileTypes
    <3>2. pc'[p] # "off" => cur'[p] = cur[p]
      BY <1>7 DEF Bind, Jump, Goto, Forget, files, locals, Typed, TypeOK, LocalTypes,
         FileTypes
    <3>3. cur[p] \notin CliRuns /\ \A r \in Runs : lock[r] # p
      BY <3>1 DEF UndoInv, Holder, Poised, Working, Ending, Away
    <3> QED
      BY <2>1, <3>1, <3>2, <3>3 DEF Knows, Private, Holder, Aware, Poised, Early, Working,
         Away
  <2> QED
    BY <2>1, <2>2, <2>3, UndoStill
<1>8. ASSUME NEW p \in Sessions, Decided(p) PROVE UndoInv'
  <2>1. Others(p) /\ UNCHANGED <<run, pending, lock>>
    BY <1>8 DEF Decided, Intend, Jump, Goto, Forget, files, locals, Others, Typed, TypeOK,
       LocalTypes, FileTypes
  <2>2. Takes(p)
    BY <1>8 DEF Decided, Intend, Jump, Goto, Forget, files, locals, At, Takes, Away, Typed,
       TypeOK, LocalTypes, FileTypes
  <2>3. Knows(p)'
    <3>1. /\ pc[p] \in {"load", "bind", "decided", "await"}
          /\ pc'[p] \in {"off", "bind", "decided", "verify", "lock"}
      BY <1>8 DEF Decided, Intend, Jump, Goto, Forget, files, locals, At, Labels, Typed,
         TypeOK, LocalTypes, FileTypes
    <3>2. pc'[p] # "off" => cur'[p] = cur[p]
      BY <1>8 DEF Decided, Intend, Jump, Goto, Forget, files, locals, Typed, TypeOK,
         LocalTypes, FileTypes
    <3>3. cur[p] \notin CliRuns /\ \A r \in Runs : lock[r] # p
      BY <3>1 DEF UndoInv, Holder, Poised, Working, Ending, Away
    <3> QED
      BY <2>1, <3>1, <3>2, <3>3 DEF Knows, Private, Holder, Aware, Poised, Early, Working,
         Away
  <2> QED
    BY <2>1, <2>2, <2>3, UndoStill
<1>9. ASSUME NEW p \in Sessions, Verify(p) PROVE UndoInv'
  <2>1. Others(p) /\ UNCHANGED <<run, pending, lock>>
    BY <1>9 DEF Verify, Intend, Jump, Goto, Forget, files, locals, Others, Typed, TypeOK,
       LocalTypes, FileTypes
  <2>2. Takes(p)
    BY <1>9 DEF Verify, Intend, Jump, Goto, Forget, files, locals, At, Takes, Away, Typed,
       TypeOK, LocalTypes, FileTypes
  <2>3. Knows(p)'
    <3>1. /\ pc[p] = "verify" /\ cur' = cur
          /\ pc'[p] = "await" \/ (pc'[p] = "close" /\ intent'[p] = "fail")
      BY <1>9 DEF Verify, Intend, Jump, Goto, locals, At, Typed, TypeOK, LocalTypes
    <3>2. cur[p] \notin CliRuns /\ \A r \in Runs : lock[r] # p
      BY <3>1 DEF UndoInv, Holder, Poised, Working, Ending, Away
    <3>3. cur[p] \in Runs
      BY <3>1 DEF Typed, TypeOK, LocalTypes
    <3> QED
      BY <2>1, <3>1, <3>2, <3>3 DEF Knows, Private, Holder, Aware, Poised, Early, Holds,
         Working, Away
  <2> QED
    BY <2>1, <2>2, <2>3, UndoStill
<1>10. ASSUME NEW p \in Sessions, Answer(p) PROVE UndoInv'
  <2>1. Others(p) /\ UNCHANGED <<run, pending, lock>>
    BY <1>10 DEF Answer, Intend, Jump, Goto, Forget, files, locals, Others, Typed, TypeOK,
       LocalTypes, FileTypes
  <2>2. Takes(p)
    BY <1>10 DEF Answer, Intend, Jump, Goto, Forget, files, locals, At, Takes, Away, Typed,
       TypeOK, LocalTypes, FileTypes
  <2>3. Knows(p)'
    BY <1>10, <2>1, OutcomeStatus DEF Answer, Intend, Jump, Goto, Forget, files, locals, At,
       Knows, UndoInv, Private, Holder, Aware, Poised, Early, Holds, Working, Ending, Away,
       NoRun, Typed, TypeOK, LocalTypes, FileTypes
  <2> QED
    BY <2>1, <2>2, <2>3, UndoStill
<1>11. ASSUME NEW p \in Sessions, Delete(p) PROVE UndoInv'
  <2>1. Others(p) /\ UNCHANGED <<run, pending, lock>>
    BY <1>11 DEF Delete, Intend, Jump, Goto, Forget, files, locals, Others, Typed, TypeOK,
       LocalTypes, FileTypes
  <2>2. Takes(p)
    BY <1>11 DEF Delete, Intend, Jump, Goto, Forget, files, locals, At, Takes, Away, Typed,
       TypeOK, LocalTypes, FileTypes
  <2>3. Knows(p)'
    <3>1. /\ pc[p] \in {"load", "bind", "decided", "await"}
          /\ pc'[p] \in {"off", "bind", "decided", "verify", "lock"}
      BY <1>11 DEF Delete, Intend, Jump, Goto, Forget, files, locals, At, Labels, Typed,
         TypeOK, LocalTypes, FileTypes
    <3>2. pc'[p] # "off" => cur'[p] = cur[p]
      BY <1>11 DEF Delete, Intend, Jump, Goto, Forget, files, locals, Typed, TypeOK,
         LocalTypes, FileTypes
    <3>3. cur[p] \notin CliRuns /\ \A r \in Runs : lock[r] # p
      BY <3>1 DEF UndoInv, Holder, Poised, Working, Ending, Away
    <3> QED
      BY <2>1, <3>1, <3>2, <3>3 DEF Knows, Private, Holder, Aware, Poised, Early, Working,
         Away
  <2> QED
    BY <2>1, <2>2, <2>3, UndoStill
<1>12. ASSUME NEW p \in Sessions, LockTimeout(p) PROVE UndoInv'
  <2>1. Others(p) /\ pc'[p] = "off" /\ UNCHANGED <<run, pending, lock>>
    BY <1>12 DEF LockTimeout, Forget, files, Others, Typed, TypeOK, LocalTypes
  <2>2. \A r \in Runs : lock[r] # p
    BY <1>12 DEF LockTimeout, At, UndoInv, Holder, Working, Ending
  <2>3. Minds(p) /\ Owns(p)
    BY <2>1 DEF Minds, Owns
  <2> QED
    BY <2>1, <2>2, <2>3, UndoGone

<1>13. ASSUME NEW p \in Sessions, Reload(p) PROVE UndoInv'
  <2>1. Others(p) /\ UNCHANGED <<run, pending, lock>>
    BY <1>13 DEF Reload, Jump, Goto, Forget, files, locals, Others, Typed, TypeOK,
       LocalTypes, FileTypes
  <2>2. Takes(p)
    BY <1>13 DEF Reload, Jump, Goto, Forget, files, locals, At, Takes, Away, Typed, TypeOK,
       LocalTypes, FileTypes
  <2>3. Knows(p)'
    BY <1>13, <2>1, OutcomeStatus DEF Reload, Jump, Goto, Forget, files, locals, At, Knows,
       UndoInv, Private, Holder, Aware, Poised, Early, Holds, Working, Ending, Away, NoRun,
       Typed, TypeOK, LocalTypes, FileTypes
  <2> QED
    BY <2>1, <2>2, <2>3, UndoStill
<1>14. ASSUME NEW p \in Sessions, Repending(p) PROVE UndoInv'
  <2>1. Others(p) /\ UNCHANGED <<run, pending, lock>>
    BY <1>14 DEF Repending, Accepting, Jump, Goto, Forget, files, locals, Others, Typed,
       TypeOK, LocalTypes, FileTypes
  <2>2. Takes(p)
    BY <1>14 DEF Repending, Accepting, Jump, Goto, Forget, files, locals, At, Takes, Away,
       Typed, TypeOK, LocalTypes, FileTypes
  <2>3. Knows(p)'
    BY <1>14, <2>1, OutcomeStatus DEF Repending, Accepting, Jump, Goto, Forget, files,
       locals, At, Knows, UndoInv, Private, Holder, Aware, Poised, Early, Holds, Working,
       Ending, Away, NoRun, Typed, TypeOK, LocalTypes, FileTypes
  <2> QED
    BY <2>1, <2>2, <2>3, UndoStill
<1>15. ASSUME NEW p \in Sessions, Rebind(p) PROVE UndoInv'
  <2>1. Others(p) /\ UNCHANGED <<run, pending, lock>>
    BY <1>15 DEF Rebind, Intend, Jump, Goto, Forget, files, locals, Others, Typed, TypeOK,
       LocalTypes, FileTypes
  <2>2. Takes(p)
    BY <1>15 DEF Rebind, Intend, Jump, Goto, Forget, files, locals, At, Takes, Away, Typed,
       TypeOK, LocalTypes, FileTypes
  <2>3. Knows(p)'
    BY <1>15, <2>1, OutcomeStatus DEF Rebind, Intend, Jump, Goto, Forget, files, locals, At,
       Knows, UndoInv, Private, Holder, Aware, Poised, Early, Holds, Working, Ending, Away,
       NoRun, Typed, TypeOK, LocalTypes, FileTypes
  <2> QED
    BY <2>1, <2>2, <2>3, UndoStill
<1>16. ASSUME NEW p \in Sessions, Decide(p) PROVE UndoInv'
  <2>1. Others(p) /\ UNCHANGED <<run, pending, lock>>
    BY <1>16 DEF Decide, Jump, Goto, Forget, files, locals, Others, Typed, TypeOK,
       LocalTypes, FileTypes
  <2>2. Takes(p)
    BY <1>16 DEF Decide, Jump, Goto, Forget, files, locals, At, Takes, Away, Typed, TypeOK,
       LocalTypes, FileTypes
  <2>3. Knows(p)'
    BY <1>16, <2>1, OutcomeStatus DEF Decide, Jump, Goto, Forget, files, locals, At, Knows,
       UndoInv, Private, Holder, Aware, Poised, Early, Holds, Working, Ending, Away, NoRun,
       Typed, TypeOK, LocalTypes, FileTypes
  <2> QED
    BY <2>1, <2>2, <2>3, UndoStill
<1>17. ASSUME NEW p \in Sessions, Settle(p) PROVE UndoInv'
  <2>1. Others(p) /\ UNCHANGED <<run, pending, lock>>
    BY <1>17 DEF Settle, Jump, Goto, Forget, files, locals, Others, Typed, TypeOK,
       LocalTypes, FileTypes
  <2>2. Takes(p)
    BY <1>17 DEF Settle, Jump, Goto, Forget, files, locals, At, Takes, Away, Typed, TypeOK,
       LocalTypes, FileTypes
  <2>3. Knows(p)'
    BY <1>17, <2>1, OutcomeStatus DEF Settle, Jump, Goto, Forget, files, locals, At, Knows,
       UndoInv, Private, Holder, Aware, Poised, Early, Holds, Working, Ending, Away, NoRun,
       Typed, TypeOK, LocalTypes, FileTypes
  <2> QED
    BY <2>1, <2>2, <2>3, UndoStill
<1>18. ASSUME NEW p \in Sessions, Pack(p) PROVE UndoInv'
  <2>1. Others(p) /\ UNCHANGED <<run, pending, lock>>
    BY <1>18 DEF Pack, GiveUp, Intend, Jump, Goto, Forget, files, locals, Others, Typed,
       TypeOK, LocalTypes, FileTypes
  <2>2. Takes(p)
    BY <1>18 DEF Pack, GiveUp, Intend, Jump, Goto, Forget, files, locals, At, Takes, Away,
       Typed, TypeOK, LocalTypes, FileTypes
  <2>3. Knows(p)'
    BY <1>18, <2>1, OutcomeStatus DEF Pack, GiveUp, Intend, Jump, Goto, Forget, files,
       locals, At, Knows, UndoInv, Private, Holder, Aware, Poised, Early, Holds, Working,
       Ending, Away, NoRun, Typed, TypeOK, LocalTypes, FileTypes
  <2> QED
    BY <2>1, <2>2, <2>3, UndoStill
<1>19. ASSUME NEW p \in Sessions, After(p) PROVE UndoInv'
  <2>1. Others(p) /\ UNCHANGED <<run, pending, lock>>
    BY <1>19 DEF After, GiveUp, Intend, Remember, Jump, Goto, Forget, files, locals, Others,
       Typed, TypeOK, LocalTypes, FileTypes
  <2>2. Takes(p)
    BY <1>19 DEF After, GiveUp, Intend, Remember, Jump, Goto, Forget, files, locals, At,
       Takes, Away, Typed, TypeOK, LocalTypes, FileTypes
  <2>3. Knows(p)'
    BY <1>19, <2>1, OutcomeStatus DEF After, GiveUp, Intend, Remember, Jump, Goto, Forget,
       files, locals, At, Knows, UndoInv, Private, Holder, Aware, Poised, Early, Holds,
       Working, Ending, Away, NoRun, Typed, TypeOK, LocalTypes, FileTypes
  <2> QED
    BY <2>1, <2>2, <2>3, UndoStill
<1>20. ASSUME NEW p \in Sessions, Unpack(p) PROVE UndoInv'
  <2>1. Others(p) /\ UNCHANGED <<run, pending, lock>>
    BY <1>20 DEF Unpack, Jump, Goto, Forget, files, locals, Others, Typed, TypeOK,
       LocalTypes, FileTypes
  <2>2. Takes(p)
    BY <1>20 DEF Unpack, Jump, Goto, Forget, files, locals, At, Takes, Away, Typed, TypeOK,
       LocalTypes, FileTypes
  <2>3. Knows(p)'
    BY <1>20, <2>1, OutcomeStatus DEF Unpack, Jump, Goto, Forget, files, locals, At, Knows,
       UndoInv, Private, Holder, Aware, Poised, Early, Holds, Working, Ending, Away, NoRun,
       Typed, TypeOK, LocalTypes, FileTypes
  <2> QED
    BY <2>1, <2>2, <2>3, UndoStill
<1>21. ASSUME NEW p \in Sessions, Mark(p) PROVE UndoInv'
  <2>1. Others(p) /\ UNCHANGED <<run, pending, lock>>
    BY <1>21 DEF Mark, Jump, Goto, Forget, files, locals, Others, Typed, TypeOK, LocalTypes,
       FileTypes
  <2>2. Takes(p)
    BY <1>21 DEF Mark, Jump, Goto, Forget, files, locals, At, Takes, Away, Typed, TypeOK,
       LocalTypes, FileTypes
  <2>3. Knows(p)'
    BY <1>21, <2>1, OutcomeStatus DEF Mark, Jump, Goto, Forget, files, locals, At, Knows,
       UndoInv, Private, Holder, Aware, Poised, Early, Holds, Working, Ending, Away, NoRun,
       Typed, TypeOK, LocalTypes, FileTypes
  <2> QED
    BY <2>1, <2>2, <2>3, UndoStill
<1>22. ASSUME NEW p \in Sessions, Learn(p) PROVE UndoInv'
  <2>1. Others(p) /\ UNCHANGED <<run, pending, lock>>
    BY <1>22 DEF Learn, Jump, Goto, Forget, files, locals, Others, Typed, TypeOK,
       LocalTypes, FileTypes
  <2>2. Takes(p)
    BY <1>22 DEF Learn, Jump, Goto, Forget, files, locals, At, Takes, Away, Typed, TypeOK,
       LocalTypes, FileTypes
  <2>3. Knows(p)'
    BY <1>22, <2>1, OutcomeStatus DEF Learn, Jump, Goto, Forget, files, locals, At, Knows,
       UndoInv, Private, Holder, Aware, Poised, Early, Holds, Working, Ending, Away, NoRun,
       Typed, TypeOK, LocalTypes, FileTypes
  <2> QED
    BY <2>1, <2>2, <2>3, UndoStill
<1>23. ASSUME NEW p \in Sessions, Learned(p) PROVE UndoInv'
  <2>1. Others(p) /\ UNCHANGED <<run, pending, lock>>
    BY <1>23 DEF Learned, Resume, Jump, Goto, Forget, files, locals, Others, Typed, TypeOK,
       LocalTypes, FileTypes
  <2>2. Takes(p)
    BY <1>23 DEF Learned, Resume, Jump, Goto, Forget, files, locals, At, Takes, Away, Typed,
       TypeOK, LocalTypes, FileTypes
  <2>3. Knows(p)'
    BY <1>23, <2>1, OutcomeStatus DEF Learned, Resume, Jump, Goto, Forget, files, locals,
       At, Knows, UndoInv, Private, Holder, Aware, Poised, Early, Holds, Working, Ending,
       Away, NoRun, Typed, TypeOK, LocalTypes, FileTypes
  <2> QED
    BY <2>1, <2>2, <2>3, UndoStill
<1>24. ASSUME NEW p \in Sessions, Verdict(p) PROVE UndoInv'
  <2>1. Others(p) /\ UNCHANGED <<run, pending, lock>>
    BY <1>24 DEF Verdict, Jump, Goto, Forget, files, locals, Others, Typed, TypeOK,
       LocalTypes, FileTypes
  <2>2. Takes(p)
    BY <1>24 DEF Verdict, Jump, Goto, Forget, files, locals, At, Takes, Away, Typed, TypeOK,
       LocalTypes, FileTypes
  <2>3. Knows(p)'
    BY <1>24, <2>1, OutcomeStatus DEF Verdict, Jump, Goto, Forget, files, locals, At, Knows,
       UndoInv, Private, Holder, Aware, Poised, Early, Holds, Working, Ending, Away, NoRun,
       Typed, TypeOK, LocalTypes, FileTypes
  <2> QED
    BY <2>1, <2>2, <2>3, UndoStill
<1>25. ASSUME NEW p \in Sessions, ClosePack(p) PROVE UndoInv'
  <2>1. Others(p) /\ UNCHANGED <<run, pending, lock>>
    BY <1>25 DEF ClosePack, Jump, Goto, Forget, files, locals, Others, Typed, TypeOK,
       LocalTypes, FileTypes
  <2>2. Takes(p)
    BY <1>25 DEF ClosePack, Jump, Goto, Forget, files, locals, At, Takes, Away, Typed,
       TypeOK, LocalTypes, FileTypes
  <2>3. Knows(p)'
    BY <1>25, <2>1, OutcomeStatus DEF ClosePack, Jump, Goto, Forget, files, locals, At,
       Knows, UndoInv, Private, Holder, Aware, Poised, Early, Holds, Working, Ending, Away,
       NoRun, Typed, TypeOK, LocalTypes, FileTypes
  <2> QED
    BY <2>1, <2>2, <2>3, UndoStill
<1>26. ASSUME NEW p \in Sessions, Create(p) PROVE UndoInv'
  <2>1. Others(p)
    BY <1>26 DEF Create, SaveOwn, Jump, Goto, Forget, files, locals, Others, Typed, TypeOK,
       LocalTypes, FileTypes
  <2>2. Minds(p)
    BY <1>26, SettlementAssumption DEF Create, SaveOwn, Jump, Goto, Forget, files, locals,
       At, Minds, Typed, TypeOK, LocalTypes, FileTypes
  <2>3. Takes(p)
    BY <1>26 DEF Create, SaveOwn, Jump, Goto, Forget, files, locals, At, Takes, Away, Typed,
       TypeOK, LocalTypes, FileTypes
  <2>4. Owns(p)
    BY <1>26, Statuses, Closes DEF Create, SaveOwn, Jump, Goto, Forget, files, locals, At,
       Owns, UndoInv, Aware, Poised, Early, Holds, Working, Away, Closed, Typed, TypeOK,
       LocalTypes, FileTypes
  <2>5. Knows(p)'
    <3>1. /\ pc[p] = "create" /\ cur' = cur /\ own' = own /\ UNCHANGED <<pending, lock>>
          /\ \/ pc'[p] = "final"
             \/ pc'[p] = "learn" /\ cur[p] \in CliRuns /\ own[p].status = "accepted"
      BY <1>26 DEF Create, Jump, Goto, locals, At, Typed, TypeOK, LocalTypes
    <3>2. run'[cur[p]] \in {run[cur[p]], own[p]}
      BY <1>26 DEF Create, SaveOwn, At, Typed, TypeOK, FileTypes, LocalTypes
    <3>3. /\ Private(p) /\ Aware(p) /\ Early(p) /\ \A r \in Runs : lock[r] # p
          /\ \A q \in Sessions \ {p} : pc[q] = pc'[q] /\ cur'[q] = cur[q]
      BY <2>1, <3>1 DEF UndoInv, Holder, Early, Working, Ending, Others
    <3> QED
      BY <3>1, <3>2, <3>3 DEF Knows, Private, Holder, Aware, Poised, Early, Working, Away
  <2> QED
    BY <2>1, <2>2, <2>3, <2>4, <2>5, UndoStep
<1>27. ASSUME NEW p \in Sessions, Final(p) PROVE UndoInv'
  <2>1. Others(p)
    BY <1>27 DEF Final, SaveOwn, Jump, Goto, Forget, files, locals, Others, Typed, TypeOK,
       LocalTypes, FileTypes
  <2>2. Minds(p)
    BY <1>27, SettlementAssumption DEF Final, SaveOwn, Jump, Goto, Forget, files, locals,
       At, Minds, Typed, TypeOK, LocalTypes, FileTypes
  <2>3. Takes(p)
    BY <1>27 DEF Final, SaveOwn, Jump, Goto, Forget, files, locals, At, Takes, Away, Typed,
       TypeOK, LocalTypes, FileTypes
  <2>4. Owns(p)
    BY <1>27, Statuses, Closes DEF Final, SaveOwn, Jump, Goto, Forget, files, locals, At,
       Owns, UndoInv, Aware, Poised, Early, Holds, Working, Away, Closed, Typed, TypeOK,
       LocalTypes, FileTypes
  <2>5. Knows(p)'
    BY <1>27, Statuses, Closes, SettlementAssumption
       DEF Final, SaveOwn, Jump, Goto, Forget, files, locals, At, Knows, UndoInv, Private,
           Holder, Aware, Poised, Early, Holds, Working, Ending, Away, Closed, Typed,
           TypeOK, LocalTypes, FileTypes
  <2> QED
    BY <2>1, <2>2, <2>3, <2>4, <2>5, UndoStep
<1>28. ASSUME NEW p \in Sessions, Receipt(p) PROVE UndoInv'
  <2>1. Others(p)
    BY <1>28 DEF Receipt, Jump, Goto, Forget, files, locals, Others, Typed, TypeOK,
       LocalTypes, FileTypes
  <2>2. Minds(p)
    BY <1>28, SettlementAssumption DEF Receipt, Jump, Goto, Forget, files, locals, At,
       Minds, Typed, TypeOK, LocalTypes, FileTypes
  <2>3. Takes(p)
    BY <1>28 DEF Receipt, Jump, Goto, Forget, files, locals, At, Takes, Away, Typed, TypeOK,
       LocalTypes, FileTypes
  <2>4. Owns(p)
    BY <1>28, Statuses, Closes DEF Receipt, Jump, Goto, Forget, files, locals, At, Owns,
       UndoInv, Aware, Poised, Early, Holds, Working, Away, Closed, Typed, TypeOK,
       LocalTypes, FileTypes
  <2>5. Knows(p)'
    <3>1. /\ pc[p] = "receipt" /\ pc'[p] \in {"note", "abort"}
          /\ cur' = cur /\ own' = own /\ lock' = lock
      BY <1>28 DEF Receipt, Jump, Goto, locals, At, Typed, TypeOK, LocalTypes
    <3>2. cur[p] \notin CliRuns /\ own[p].status = "delivered" /\ \A r \in Runs : lock[r] # p
      BY <3>1 DEF UndoInv, Poised, Holder, Working, Ending, Away
    <3> QED
      BY <3>1, <3>2 DEF Knows, Private, Holder, Aware, Poised, Early, Working, Away
  <2> QED
    BY <2>1, <2>2, <2>3, <2>4, <2>5, UndoStep
<1>29. ASSUME NEW p \in Sessions, Abort(p) PROVE UndoInv'
  <2>1. Others(p) /\ pc'[p] = "off" /\ UNCHANGED <<pending, lock>>
    BY <1>29 DEF Abort, Forget, Others, Typed, TypeOK, LocalTypes
  <2>2. \A r \in Runs : lock[r] # p
    BY <1>29 DEF Abort, At, UndoInv, Holder, Working, Ending
  <2>3. Owns(p)
    <3> DEFINE rec == ClosedAs(own[p], "failed")
    <3>1. rec.status = "failed"
      BY Statuses DEF Typed, TypeOK, LocalTypes
    <3> HIDE DEF rec
    <3>2. run' = [run EXCEPT ![cur[p]] = rec] \/ run' = run
      BY <1>29 DEF Abort, rec
    <3>3. pending' = pending
      BY <1>29 DEF Abort
    <3> QED
      BY <3>1, <3>2, <3>3 DEF Owns, Typed, TypeOK, FileTypes
  <2>4. Minds(p)
    BY <2>1 DEF Minds
  <2> QED
    BY <2>1, <2>2, <2>3, <2>4, UndoGone

<1>30. ASSUME NEW p \in Sessions, Note(p) PROVE UndoInv'
  <2>1. Others(p)
    BY <1>30 DEF Note, Jump, Goto, Forget, files, locals, Others, Typed, TypeOK, LocalTypes,
       FileTypes
  <2>2. Minds(p)
    BY <1>30, SettlementAssumption DEF Note, Jump, Goto, Forget, files, locals, At, Minds,
       Typed, TypeOK, LocalTypes, FileTypes
  <2>3. Takes(p)
    BY <1>30 DEF Note, Jump, Goto, Forget, files, locals, At, Takes, Away, Typed, TypeOK,
       LocalTypes, FileTypes
  <2>4. Owns(p)
    <3> DEFINE rec == [own[p] EXCEPT !.pending_approval = TRUE]
    <3>1. rec.status = "delivered"
      BY <1>30, Statuses DEF Note, At, UndoInv, Poised, Typed, TypeOK, LocalTypes
    <3> HIDE DEF rec
    <3>2. run' = [run EXCEPT ![cur[p]] = rec] \/ run' = run
      BY <1>30 DEF Note, rec
    <3>3. pending' = pending
      BY <1>30 DEF Note
    <3> QED
      BY <3>1, <3>2, <3>3 DEF Owns, Typed, TypeOK, FileTypes
  <2>5. Knows(p)'
    <3>1. pc[p] = "note" /\ pc'[p] = "await" /\ cur' = cur /\ lock' = lock
      BY <1>30 DEF Note, Goto, At, Typed, TypeOK, LocalTypes
    <3>2. cur[p] \notin CliRuns /\ \A r \in Runs : lock[r] # p
      BY <3>1 DEF UndoInv, Poised, Holder, Working, Ending, Away
    <3> QED
      BY <3>1, <3>2 DEF Knows, Private, Holder, Aware, Poised, Early, Working, Away
  <2> QED
    BY <2>1, <2>2, <2>3, <2>4, <2>5, UndoStep
<1>31. ASSUME NEW p \in Sessions, Lock(p) PROVE UndoInv'
  <2>1. Others(p)
    BY <1>31 DEF Lock, Jump, Goto, Forget, files, locals, Others, Typed, TypeOK, LocalTypes,
       FileTypes
  <2>2. Minds(p)
    BY <1>31, SettlementAssumption DEF Lock, Jump, Goto, Forget, files, locals, At, Minds,
       Typed, TypeOK, LocalTypes, FileTypes
  <2>3. Takes(p)
    BY <1>31 DEF Lock, Jump, Goto, Forget, files, locals, At, Takes, Away, Typed, TypeOK,
       LocalTypes, FileTypes
  <2>4. Owns(p)
    BY <1>31, Statuses, Closes DEF Lock, Jump, Goto, Forget, files, locals, At, Owns,
       UndoInv, Aware, Poised, Early, Holds, Working, Away, Closed, Typed, TypeOK,
       LocalTypes, FileTypes
  <2>5. Knows(p)'
    BY <1>31, Statuses, Closes, SettlementAssumption
       DEF Lock, Jump, Goto, Forget, files, locals, At, Knows, UndoInv, Private, Holder,
           Aware, Poised, Early, Holds, Working, Ending, Away, Closed, Typed, TypeOK,
           LocalTypes, FileTypes
  <2> QED
    BY <2>1, <2>2, <2>3, <2>4, <2>5, UndoStep
<1>32. ASSUME NEW p \in Sessions, Unlock(p) PROVE UndoInv'
  <2>1. Others(p) /\ pc'[p] = "off" /\ UNCHANGED <<run, pending>>
    BY <1>32 DEF Unlock, Forget, files, Others, Typed, TypeOK, LocalTypes
  <2>2. \A r \in Runs : lock'[r] # p
    BY <1>32, SettlementAssumption DEF Unlock, UndoInv, Holder, Typed, TypeOK, FileTypes
  <2>3. Minds(p) /\ Owns(p)
    BY <1>32, <2>1, SettlementAssumption DEF Unlock, Minds, Owns, Typed, TypeOK, FileTypes
  <2> QED
    BY <2>1, <2>2, <2>3, UndoGone

<1>33. ASSUME NEW p \in Sessions, Accept(p) PROVE UndoInv'
  <2>1. Others(p)
    BY <1>33 DEF Accept, Jump, Goto, Forget, files, locals, Others, Typed, TypeOK,
       LocalTypes, FileTypes
  <2>2. Minds(p)
    BY <1>33, SettlementAssumption DEF Accept, Jump, Goto, Forget, files, locals, At, Minds,
       Typed, TypeOK, LocalTypes, FileTypes
  <2>3. Takes(p)
    BY <1>33 DEF Accept, Jump, Goto, Forget, files, locals, At, Takes, Away, Typed, TypeOK,
       LocalTypes, FileTypes
  <2>4. Owns(p)
    BY <1>33, Statuses, Closes DEF Accept, Jump, Goto, Forget, files, locals, At, Owns,
       UndoInv, Aware, Poised, Early, Holds, Working, Away, Closed, Typed, TypeOK,
       LocalTypes, FileTypes
  <2>5. Knows(p)'
    <3> DEFINE rec == AcceptedFrom(own[p], decision[cur[p]])
    <3>1. rec.status = "accepted"
      BY Statuses DEF Typed, TypeOK, LocalTypes
    <3> HIDE DEF rec
    <3>2. \/ pc'[p] = "learn" /\ own'[p] = rec
          \/ pc'[p] = "unlock"
      BY <1>33 DEF Accept, Jump, Goto, locals, rec, Typed, TypeOK, LocalTypes
    <3>3. pc[p] = "accept" /\ cur' = cur /\ lock' = lock
      BY <1>33 DEF Accept, Jump, locals, At
    <3>4. cur[p] \notin CliRuns /\ Holds(p) /\ Holder(p)
      BY <3>3 DEF UndoInv, Poised, Aware, Working, Away
    <3> QED
      BY <3>1, <3>2, <3>3, <3>4 DEF Knows, Private, Holder, Aware, Poised, Early, Holds,
         Working, Ending, Away
  <2> QED
    BY <2>1, <2>2, <2>3, <2>4, <2>5, UndoStep
<1>34. ASSUME NEW p \in Sessions, Commit(p) PROVE UndoInv'
  <2>1. Others(p)
    BY <1>34 DEF Commit, Resume, Jump, Goto, Forget, files, locals, Others, Typed, TypeOK,
       LocalTypes, FileTypes
  <2>2. Minds(p)
    BY <1>34, SettlementAssumption DEF Commit, Resume, Jump, Goto, Forget, files, locals,
       At, Minds, Typed, TypeOK, LocalTypes, FileTypes
  <2>3. Takes(p)
    BY <1>34 DEF Commit, Resume, Jump, Goto, Forget, files, locals, At, Takes, Away, Typed,
       TypeOK, LocalTypes, FileTypes
  <2>4. Owns(p)
    BY <1>34, Statuses, Closes DEF Commit, Resume, Jump, Goto, Forget, files, locals, At,
       Owns, UndoInv, Aware, Poised, Early, Holds, Working, Away, Closed, Typed, TypeOK,
       LocalTypes, FileTypes
  <2>5. Knows(p)'
    <3> DEFINE rec == [own[p] EXCEPT !.memory_commit = "committed"]
    <3>1. rec.status = "accepted" /\ own[p].status = "accepted"
      BY <1>34, Statuses DEF Commit, At, UndoInv, Poised, Typed, TypeOK, LocalTypes
    <3> HIDE DEF rec
    <3>2. own'[p].status = "accepted"
      BY <1>34, <3>1 DEF Commit, Jump, locals, rec, Typed, TypeOK, LocalTypes
    <3>3. pc[p] = "commit" /\ cur' = cur /\ lock' = lock /\ pending' = pending
      BY <1>34 DEF Commit, Jump, locals, At
    <3>4. cur[p] \in CliRuns => pc'[p] = "final"
      BY <1>34 DEF Commit, Resume, Jump, Goto, Typed, TypeOK, LocalTypes
    <3>5. cur[p] \notin CliRuns => pc'[p] \in {"remove", "unlock"}
      BY <1>34 DEF Commit, Resume, Jump, Goto, Typed, TypeOK, LocalTypes
    <3>6. Private(p) /\ Holder(p) /\ Aware(p)
      BY DEF UndoInv
    <3>7. Private(p)' /\ Holder(p)'
      BY <2>1, <3>3, <3>4, <3>5, <3>6 DEF Others, Private, Holder, Early, Working, Ending
    <3>8. Aware(p)' /\ Poised(p)'
      BY <3>2, <3>3, <3>4, <3>5, <3>6 DEF Aware, Poised, Early, Holds, Working, Away
    <3> QED
      BY <3>7, <3>8 DEF Knows
  <2> QED
    BY <2>1, <2>2, <2>3, <2>4, <2>5, UndoStep
<1>35. ASSUME NEW p \in Sessions, Remove(p) PROVE UndoInv'
  <2>1. Others(p)
    BY <1>35 DEF Remove, Jump, Goto, Forget, files, locals, Others, Typed, TypeOK,
       LocalTypes, FileTypes
  <2>2. Minds(p)
    BY <1>35, SettlementAssumption DEF Remove, Jump, Goto, Forget, files, locals, At, Minds,
       Typed, TypeOK, LocalTypes, FileTypes
  <2>3. Takes(p)
    BY <1>35 DEF Remove, Jump, Goto, Forget, files, locals, At, Takes, Away, Typed, TypeOK,
       LocalTypes, FileTypes
  <2>4. Owns(p)
    BY <1>35, Statuses, Closes DEF Remove, Jump, Goto, Forget, files, locals, At, Owns,
       UndoInv, Aware, Poised, Early, Holds, Working, Away, Closed, Typed, TypeOK,
       LocalTypes, FileTypes
  <2>5. Knows(p)'
    BY <1>35, Statuses, Closes, SettlementAssumption
       DEF Remove, Jump, Goto, Forget, files, locals, At, Knows, UndoInv, Private, Holder,
           Aware, Poised, Early, Holds, Working, Ending, Away, Closed, Typed, TypeOK,
           LocalTypes, FileTypes
  <2> QED
    BY <2>1, <2>2, <2>3, <2>4, <2>5, UndoStep
<1>36. ASSUME NEW p \in Sessions, Close(p) PROVE UndoInv'
  <2>1. Others(p)
    BY <1>36 DEF Close, Jump, Goto, Forget, files, locals, Others, Typed, TypeOK,
       LocalTypes, FileTypes
  <2>2. Minds(p)
    BY <1>36, SettlementAssumption DEF Close, Jump, Goto, Forget, files, locals, At, Minds,
       Typed, TypeOK, LocalTypes, FileTypes
  <2>3. Takes(p)
    BY <1>36 DEF Close, Jump, Goto, Forget, files, locals, At, Takes, Away, Typed, TypeOK,
       LocalTypes, FileTypes
  <2>4. Owns(p)
    <3> DEFINE rec == ClosedAs(own[p], ClosingStatus(intent[p]))
    <3>1. rec.status \in Closed
      BY Statuses, Closes DEF Typed, TypeOK, LocalTypes
    <3> HIDE DEF rec
    <3>2. run' = [run EXCEPT ![cur[p]] = rec] \/ run' = run
      BY <1>36 DEF Close, rec
    <3>3. pending' = pending
      BY <1>36 DEF Close
    <3> QED
      BY <3>1, <3>2, <3>3 DEF Owns, Closed, Typed, TypeOK, FileTypes
  <2>5. Knows(p)'
    BY <1>36, Statuses, Closes, SettlementAssumption
       DEF Close, Jump, Goto, Forget, files, locals, At, Knows, UndoInv, Private, Holder,
           Aware, Poised, Early, Holds, Working, Ending, Away, Closed, Typed, TypeOK,
           LocalTypes, FileTypes
  <2> QED
    BY <2>1, <2>2, <2>3, <2>4, <2>5, UndoStep
<1>37. ASSUME NEW p \in Sessions, ClosePending(p) PROVE UndoInv'
  <2>1. Others(p)
    BY <1>37 DEF ClosePending, Jump, Goto, Forget, files, locals, Others, Typed, TypeOK,
       LocalTypes, FileTypes
  <2>2. Minds(p)
    BY <1>37, SettlementAssumption DEF ClosePending, Jump, Goto, Forget, files, locals, At,
       Minds, Typed, TypeOK, LocalTypes, FileTypes
  <2>3. Takes(p)
    BY <1>37 DEF ClosePending, Jump, Goto, Forget, files, locals, At, Takes, Away, Typed,
       TypeOK, LocalTypes, FileTypes
  <2>4. Owns(p)
    BY <1>37, Statuses, Closes DEF ClosePending, Jump, Goto, Forget, files, locals, At,
       Owns, UndoInv, Aware, Poised, Early, Holds, Working, Away, Closed, Typed, TypeOK,
       LocalTypes, FileTypes
  <2>5. Knows(p)'
    BY <1>37, Statuses, Closes, SettlementAssumption
       DEF ClosePending, Jump, Goto, Forget, files, locals, At, Knows, UndoInv, Private,
           Holder, Aware, Poised, Early, Holds, Working, Ending, Away, Closed, Typed,
           TypeOK, LocalTypes, FileTypes
  <2> QED
    BY <2>1, <2>2, <2>3, <2>4, <2>5, UndoStep
<1>38. ASSUME NEW p \in Sessions, Crash(p) PROVE UndoInv'
  <2>1. Others(p) /\ pc'[p] = "off" /\ UNCHANGED <<run, pending>>
    BY <1>38 DEF Crash, Forget, files, Others, Typed, TypeOK, LocalTypes
  <2>2. \A r \in Runs : lock'[r] # p
    BY <1>38, SettlementAssumption DEF Crash
  <2>3. Minds(p) /\ Owns(p)
    BY <1>38, <2>1, SettlementAssumption DEF Crash, Minds, Owns
  <2> QED
    BY <2>1, <2>2, <2>3, UndoGone

<1>39. ASSUME NEW r \in Runs, Reclaim(r) \/ Change(r) PROVE UndoInv'
  <2>1. /\ UNCHANGED <<run, pending, pc, cur, own, intent>>
        /\ \A w \in Runs, q \in Sessions : lock'[w] = q <=> lock[w] = q
    BY <1>39, SettlementAssumption DEF Reclaim, Change, files, locals, Typed, TypeOK,
       LocalTypes, FileTypes
  <2> QED
    BY <2>1 DEF UndoInv, Private, Holder, Aware, Poised, Early, Holds, Typed, TypeOK,
       LocalTypes, Working, Away
<1>40. CASE UNCHANGED vars
  BY <1>40 DEF vars, files, locals, UndoInv, Private, Holder, Aware, Poised, Early, Holds
<1> QED
  BY <1>1, <1>2, <1>3, <1>4, <1>5, <1>6, <1>7, <1>8, <1>9, <1>10, <1>11, <1>12, <1>13,
     <1>14, <1>15, <1>16, <1>17, <1>18, <1>19, <1>20, <1>21, <1>22, <1>23, <1>24, <1>25,
     <1>26, <1>27, <1>28, <1>29, <1>30, <1>31, <1>32, <1>33, <1>34, <1>35, <1>36, <1>37,
     <1>38, <1>39, <1>40 DEF Next, Run, User

(* Whatever the sessions do, whatever dies, fails or changes: an accepted run
   loses its status only to one of the three saves that the code makes outside
   the settlement lock (OnlyLateSavesUndo).  Nothing is assumed of the creator
   or of the deliverable. *)
THEOREM OnlyLateSaves == Spec => OnlyLateSavesUndo
<1>1. Init => UndoInv
  BY SettlementAssumption DEF Init, UndoInv, Private, Holder, Aware, Poised, Early, Working,
     Away
<1>2. ASSUME Typed, UndoInv, [Next]_vars,
             NEW r \in Runs, run[r].status = "accepted", run'[r].status # "accepted"
      PROVE  \E p \in Sessions : cur[p] = r /\ LateSave(p) /\ pc'[p] # pc[p]
  <2>1. ASSUME NEW p \in Sessions, Note(p) \/ Abort(p)
        PROVE  cur[p] = r /\ LateSave(p) /\ pc'[p] # pc[p]
    BY <1>2, <2>1 DEF Note, Abort, Forget, Goto, At, LateSave, Typed, TypeOK, LocalTypes,
       FileTypes
  <2>2. ASSUME NEW p \in Sessions, Close(p)
        PROVE  cur[p] = r /\ LateSave(p) /\ pc'[p] # pc[p]
    <3>1. cur[p] = r /\ pc[p] = "close" /\ pc'[p] # pc[p]
      BY <1>2, <2>2 DEF Close, Jump, Goto, At, Typed, TypeOK, LocalTypes, FileTypes
    <3> QED
      BY <1>2, <3>1 DEF UndoInv, Aware, Holds, LateSave, At
  <2>3. ASSUME NEW p \in Sessions, Create(p) \/ Final(p) \/ Commit(p) PROVE FALSE
    <3>1. \/ run' = run
          \/ run' = [run EXCEPT ![cur[p]] = own[p]]
          \/ run' = [run EXCEPT ![cur[p]] = [own[p] EXCEPT !.memory_commit = "committed"]]
      BY <2>3 DEF Create, Final, Commit, SaveOwn
    <3>2. /\ own[p] \in RunRecord /\ cur[p] = r
          /\ run'[r] \in {own[p], [own[p] EXCEPT !.memory_commit = "committed"]}
      BY <1>2, <3>1 DEF Typed, TypeOK, LocalTypes, FileTypes
    <3>3. pc[p] \in {"create", "final", "commit"}
      BY <2>3 DEF Create, Final, Commit, At
    <3>4. own[p].status = "accepted"
      BY <1>2, <3>2, <3>3 DEF UndoInv, Aware, Early, Poised
    <3>5. [own[p] EXCEPT !.memory_commit = "committed"].status = "accepted"
      BY <3>2, <3>4, Statuses
    <3> QED
      BY <1>2, <3>2, <3>4, <3>5
  <2>4. ASSUME NEW p \in Sessions, Accept(p) PROVE FALSE
    <3> DEFINE rec == AcceptedFrom(own[p], decision[cur[p]])
    <3>1. rec.status = "accepted"
      BY <1>2, Statuses DEF Typed, TypeOK, LocalTypes
    <3> HIDE DEF rec
    <3>2. run' = run \/ run' = [run EXCEPT ![cur[p]] = rec]
      BY <2>4 DEF Accept, rec
    <3> QED
      BY <1>2, <3>1, <3>2 DEF Typed, TypeOK, FileTypes
  <2>5. ASSUME NEW p \in Sessions,
               \/ Start(p) \/ StartCli(p) \/ FindNone(p) \/ FindOne(p) \/ FindBlocked(p)
               \/ Receipt(p) \/ Load(p) \/ Bind(p) \/ Decided(p) \/ Verify(p) \/ Answer(p)
               \/ Delete(p) \/ Lock(p) \/ LockTimeout(p) \/ Unlock(p) \/ Reload(p)
               \/ Repending(p) \/ Rebind(p) \/ Decide(p) \/ Settle(p) \/ Pack(p) \/ After(p)
               \/ Unpack(p) \/ Mark(p) \/ Learn(p) \/ Learned(p) \/ Remove(p) \/ Verdict(p)
               \/ ClosePack(p) \/ ClosePending(p) \/ Crash(p)
        PROVE  FALSE
    <3>1. run' = run
      BY <2>5 DEF Start, StartCli, FindNone, FindOne, FindBlocked, Receipt, Load, Bind,
         Decided, Verify, Answer, Delete, Lock, LockTimeout, Unlock, Reload, Repending,
         Rebind, Decide, Settle, Pack, After, Unpack, Mark, Learn, Learned, Remove, Verdict,
         ClosePack, ClosePending, Crash, Draw, files
    <3> QED
      BY <1>2, <3>1
  <2>6. ASSUME NEW w \in Runs, Reclaim(w) \/ Change(w) PROVE FALSE
    BY <1>2, <2>6 DEF Reclaim, Change, files
  <2>7. CASE UNCHANGED vars
    BY <1>2, <2>7 DEF vars, files
  <2> QED
    BY <1>2, <2>1, <2>2, <2>3, <2>4, <2>5, <2>6, <2>7 DEF Next, Run, User
<1>3. Typed /\ UndoInv /\ [Next]_vars =>
        [\A r \in Runs :
           run[r].status = "accepted" /\ run'[r].status # "accepted" =>
             \E p \in Sessions : cur[p] = r /\ LateSave(p) /\ pc'[p] # pc[p]]_vars
  BY <1>2
<1> QED
  BY <1>1, <1>3, UndoKept, Typing, PTL DEF Spec, OnlyLateSavesUndo
=============================================================================
