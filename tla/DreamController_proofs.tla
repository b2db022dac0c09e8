----------------------- MODULE DreamController_proofs -----------------------
(***************************************************************************)
(* Proofs about DreamController, for every set of workbenches, lessons,    *)
(* insights and reflections and every budget of starts, deaths, failed     *)
(* writes, lessons and certificates.                                       *)
(*                                                                         *)
(* The invariants come in layers: the types; what backs an activation      *)
(* (Backed), from which follow that memory rests on approved work only,    *)
(* that no lesson is lost and that the certificate lapses first; and, for  *)
(* one workbench alone, what its Dream's job says while it is at work on   *)
(* it (Marked), from which follows that a rollback stays possible.         *)
(***************************************************************************)
EXTENDS DreamController, TLAPS

(* A session that is not at work, one under the lock of the memory file, one that
   activates or rolls back, and one that generates a candidate. *)
Idle == {"off", "idle"}
Locked == {"receipt", "stale", "swap"}
Switching == {"mark", "lock", "finish"} \union Locked
Generating == {"curate", "evaluate", "candidate", "reports", "review", "fail"}

(* The budget keeps its shape. *)
LeftOK ==
  left \in [sessions : SUBSET Sessions, runs : Nat, deaths : Nat, faults : Nat,
            learns : Nat, reflects : Nat, certs : Nat]

(* A session at work is at work on a Dream, *)
Named == \A s \in Sessions : ss[s].pc \notin Idle => ss[s].dream \in Dreams

(* alone when it writes the reports, of which one or two are there, *)
OneReporter ==
  \A s, t \in Sessions :
    /\ ss[s].pc = "reports" => files[ss[s].dream].count \in {1, 2}
    /\ ss[s].pc = "reports" /\ ss[t].pc = "reports" /\ ss[s].dream = ss[t].dream => s = t

(* and on its way back only in a rollback. *)
BackIsSwitching == \A s \in Sessions : ss[s].way = "back" => ss[s].pc \in Switching

(* What TypeOK needs to be inductive. *)
Typed == TypeOK /\ LeftOK /\ Named /\ OneReporter /\ BackIsSwitching

(* The ways a session moves on: to another label, as a fresh one, to rest. *)
Others(s) == \A t \in Sessions \ {s} : ss'[t] = ss[t]

Moved(s, l) ==
  /\ ss' \in [Sessions -> Session] /\ Others(s)
  /\ ss'[s].pc = l /\ ss'[s].dream = ss[s].dream /\ ss'[s].way = ss[s].way
  /\ ss'[s].cand = ss[s].cand /\ ss'[s].fit = ss[s].fit

Started(s, l, d, w) ==
  /\ ss' \in [Sessions -> Session] /\ Others(s)
  /\ ss'[s].pc = l /\ ss'[s].dream = d /\ ss'[s].way = w

Rested(s) == Started(s, "idle", None, "on")

(* An assessment names a Dream. *)
LEMMA AssessedType ==
  ASSUME TypeOK PROVE Assessed \in Dreams
  BY DEF TypeOK, Assessed, Dreams

(* A lapsed certificate is one, *)
LEMMA LapsedType ==
  ASSUME TypeOK, NEW target PROVE Lapsed(target) \in Certificate \union {None}
  BY DEF TypeOK, Lapsed, Certificate

(* and a sleeping session is one. *)
LEMMA AsleepType == Asleep \in Session /\ [Asleep EXCEPT !.pc = "idle"] \in Session
  BY DEF Asleep, Session, Memories, Labels

(* Goto, *)
LEMMA GotoMoves ==
  ASSUME TypeOK, NEW s \in Sessions, NEW l \in Labels, Goto(s, l) PROVE Moved(s, l)
  BY DEF TypeOK, Goto, Moved, Others, Session

(* Rest, *)
LEMMA RestRests ==
  ASSUME TypeOK, NEW s \in Sessions, Rest(s) PROVE Rested(s)
  BY AsleepType DEF TypeOK, Rest, Rested, Started, Others, Session, Asleep

(* Set, *)
LEMMA SetTypes ==
  ASSUME TypeOK, NEW s \in Sessions, ss[s].dream \in Dreams, NEW state \in JobStates, Set(s, state)
  PROVE  /\ job' \in [Dreams -> JobStates] /\ job'[ss[s].dream] = state
         /\ \A d \in Dreams \ {ss[s].dream} : job'[d] = job[d]
  BY DEF TypeOK, Set

(* Spent *)
LEMMA SpentTypes ==
  ASSUME LeftOK, NEW kind \in {"runs", "deaths", "faults", "learns", "reflects", "certs"}, Spent(kind)
  PROVE  LeftOK' /\ left'.sessions = left.sessions
  BY DEF LeftOK, Spent

(* and File do what their names say. *)
LEMMA FileTypes ==
  ASSUME TypeOK, NEW d \in Dreams, File(d)
  PROVE  /\ job' \in [Dreams -> JobStates] /\ order' \in Seq(Dreams)
         /\ \A e \in Dreams : job'[e] # job[e] => job[e] = "NONE" /\ job'[e] = "RECOMMENDED"
<1>1. CASE job[d] = "NONE"
  <2>1. job' = [job EXCEPT ![d] = "RECOMMENDED"] /\ order' = Append(order, d)
    BY <1>1 DEF File
  <2>2. order' \in Seq(Dreams)
    BY <2>1 DEF TypeOK
  <2>3. job' \in [Dreams -> JobStates]
    BY <2>1 DEF TypeOK, JobStates
  <2> QED
    BY <1>1, <2>1, <2>2, <2>3 DEF TypeOK
<1>2. CASE job[d] # "NONE"
  BY <1>2 DEF File, TypeOK
<1> QED
  BY <1>1, <1>2

(* A session record that is replaced, or whose label and Dream are set, is a fresh one. *)
LEMMA PutStarts ==
  ASSUME TypeOK, NEW s \in Sessions, NEW x \in Session, ss' = [ss EXCEPT ![s] = x]
  PROVE  Started(s, x.pc, x.dream, x.way)
  BY DEF TypeOK, Started, Others

(* The same, field by field. *)
LEMMA AssignStarts ==
  ASSUME TypeOK, NEW s \in Sessions, NEW l \in Labels, NEW d \in Dreams,
         ss' = [ss EXCEPT ![s].pc = l, ![s].dream = d]
  PROVE  Started(s, l, d, ss[s].way)
<1> DEFINE x == [ss[s] EXCEPT !.pc = l, !.dream = d]
<1>1. ss[s] \in Session
  BY DEF TypeOK
<1>2. x \in Session /\ x.pc = l /\ x.dream = d /\ x.way = ss[s].way
  BY <1>1 DEF Session
<1>3. ss' = [ss EXCEPT ![s] = x]
  BY DEF TypeOK
<1> QED
  BY <1>2, <1>3, PutStarts

(* Only a rollback goes back. *)
LEMMA IdleIsForward ==
  ASSUME TypeOK, BackIsSwitching, NEW s \in Sessions, ss[s].pc \notin Switching
  PROVE  ss[s].way = "on"
  BY DEF TypeOK, BackIsSwitching, Session

(* How each step of a session moves it. *)
LEMMA Control ==
  ASSUME Typed, NEW s \in Sessions
  PROVE  /\ Boot(s) => (Started(s, "check", Last(order), "on") /\ Last(order) \in Dreams) \/ Rested(s)
         /\ Run(s) => Started(s, "dreaming", Assessed, "on")
         /\ \A d \in Dreams : Approve(s, d) => Started(s, "check", d, "on") \/ Started(s, "approve", d, "on")
         /\ \A d \in Dreams : Reject(s, d) => Started(s, "reject", d, "on")
         /\ \A d \in Dreams : Rollback(s, d) => UNCHANGED ss \/ Started(s, "mark", d, "back")
         /\ Dreaming(s) => Moved(s, "curate") \/ Moved(s, "fail")
         /\ Curate(s) => Started(s, "evaluate", ss[s].dream, ss[s].way) \/ Moved(s, "fail")
         /\ Evaluate(s) => Started(s, "candidate", ss[s].dream, ss[s].way) \/ Moved(s, "fail")
         /\ Review(s) => Rested(s)
         /\ Fail(s) => Rested(s)
         /\ WriteApproval(s) => Moved(s, "check") \/ Rested(s)
         /\ WriteRejection(s) => Moved(s, "rejected") \/ Rested(s)
         /\ Rejected(s) => Rested(s)
         /\ Check(s) => Moved(s, "mark") \/ Rested(s)
         /\ Mark(s) => Moved(s, "lock")
         /\ Enter(s) => Moved(s, "receipt") \/ Moved(s, "stale") \/ Rested(s)
         /\ WriteSwapReceipt(s) => Moved(s, "stale")
         /\ Invalidate(s) => Moved(s, "finish") \/ Moved(s, "swap") \/ Rested(s)
         /\ Swap(s) => Moved(s, "finish")
         /\ Finish(s) => Rested(s)
         /\ Die(s) => Started(s, "off", None, "on")
<1> USE DEF Typed
<1>1. ASSUME Boot(s) PROVE (Started(s, "check", Last(order), "on") /\ Last(order) \in Dreams) \/ Rested(s)
  <2> DEFINE x == [Asleep EXCEPT !.pc = "check", !.dream = Last(order)]
  <2>1. CASE order # <<>> /\ job[Last(order)] = "ACTIVATING"
    <3>1. Last(order) \in Dreams
      BY <2>1 DEF TypeOK, Last
    <3>2. x \in Session /\ x.pc = "check" /\ x.dream = Last(order) /\ x.way = "on"
      BY <3>1 DEF Session, Asleep, Labels, Memories
    <3>3. ss' = [ss EXCEPT ![s] = x]
      BY <1>1, <2>1 DEF Boot
    <3> QED
      BY <3>1, <3>2, <3>3, PutStarts
  <2>2. CASE ~(order # <<>> /\ job[Last(order)] = "ACTIVATING")
    BY <1>1, <2>2, RestRests DEF Boot, Rest
  <2> QED
    BY <2>1, <2>2
<1>2. ASSUME Run(s) PROVE Started(s, "dreaming", Assessed, "on")
  BY <1>2, AssessedType, AssignStarts, IdleIsForward DEF Run, At, Labels, Switching, Locked
<1>3. ASSUME NEW d \in Dreams, Approve(s, d) PROVE Started(s, "check", d, "on") \/ Started(s, "approve", d, "on")
  BY <1>3, AssignStarts, IdleIsForward DEF Approve, At, Labels, Switching, Locked
<1>4. ASSUME NEW d \in Dreams, Reject(s, d) PROVE Started(s, "reject", d, "on")
  BY <1>4, AssignStarts, IdleIsForward DEF Reject, At, Labels, Switching, Locked
<1>5. ASSUME NEW d \in Dreams, Rollback(s, d) PROVE UNCHANGED ss \/ Started(s, "mark", d, "back")
  <2> DEFINE x == [Asleep EXCEPT !.pc = "mark", !.dream = d, !.way = "back"]
  <2>1. x \in Session /\ x.pc = "mark" /\ x.dream = d /\ x.way = "back"
    BY DEF Session, Asleep, Labels, Memories
  <2>2. ss' = [ss EXCEPT ![s] = x] \/ UNCHANGED ss
    BY <1>5 DEF Rollback
  <2> QED
    BY <2>1, <2>2, PutStarts
<1>6. ASSUME Dreaming(s) PROVE Moved(s, "curate") \/ Moved(s, "fail")
  BY <1>6, GotoMoves, RestRests DEF Dreaming, Labels
<1>7. ASSUME Curate(s) PROVE Started(s, "evaluate", ss[s].dream, ss[s].way) \/ Moved(s, "fail")
  <2>1. CASE Goto(s, "fail")
    BY <2>1, GotoMoves DEF Labels
  <2>2. CASE ~Goto(s, "fail")
    <3>1. PICK c \in Curated(ss[s].dream.base) : ss' = [ss EXCEPT ![s].pc = "evaluate", ![s].cand = c]
      BY <1>7, <2>2 DEF Curate
    <3> DEFINE x == [ss[s] EXCEPT !.pc = "evaluate", !.cand = c]
    <3>2. x \in Session /\ x.pc = "evaluate" /\ x.dream = ss[s].dream /\ x.way = ss[s].way
      BY DEF TypeOK, Session, Labels, Curated
    <3>3. ss' = [ss EXCEPT ![s] = x]
      BY <3>1 DEF TypeOK
    <3> QED
      BY <3>2, <3>3, PutStarts
  <2> QED
    BY <2>1, <2>2
<1>8. ASSUME Evaluate(s) PROVE Started(s, "candidate", ss[s].dream, ss[s].way) \/ Moved(s, "fail")
  <2>1. CASE Goto(s, "fail")
    BY <2>1, GotoMoves DEF Labels
  <2>2. CASE ~Goto(s, "fail")
    <3>1. PICK fit \in BOOLEAN : ss' = [ss EXCEPT ![s].pc = "candidate", ![s].fit = fit]
      BY <1>8, <2>2 DEF Evaluate
    <3> DEFINE x == [ss[s] EXCEPT !.pc = "candidate", !.fit = fit]
    <3>2. x \in Session /\ x.pc = "candidate" /\ x.dream = ss[s].dream /\ x.way = ss[s].way
      BY DEF TypeOK, Session, Labels
    <3>3. ss' = [ss EXCEPT ![s] = x]
      BY <3>1 DEF TypeOK
    <3> QED
      BY <3>2, <3>3, PutStarts
  <2> QED
    BY <2>1, <2>2
<1>9. ASSUME Review(s) PROVE Rested(s)
  BY <1>9, GotoMoves, RestRests DEF Review, Labels
<1>10. ASSUME Fail(s) PROVE Rested(s)
  BY <1>10, GotoMoves, RestRests DEF Fail, Labels
<1>11. ASSUME WriteApproval(s) PROVE Moved(s, "check") \/ Rested(s)
  BY <1>11, GotoMoves, RestRests DEF WriteApproval, Labels, WriteReceipt
<1>12. ASSUME WriteRejection(s) PROVE Moved(s, "rejected") \/ Rested(s)
  BY <1>12, GotoMoves, RestRests DEF WriteRejection, Labels, WriteReceipt
<1>13. ASSUME Rejected(s) PROVE Rested(s)
  BY <1>13, GotoMoves, RestRests DEF Rejected, Labels
<1>14. ASSUME Check(s) PROVE Moved(s, "mark") \/ Rested(s)
  BY <1>14, GotoMoves, RestRests DEF Check, Labels
<1>15. ASSUME Mark(s) PROVE Moved(s, "lock")
  BY <1>15, GotoMoves, RestRests DEF Mark, Labels
<1>16. ASSUME Enter(s) PROVE Moved(s, "receipt") \/ Moved(s, "stale") \/ Rested(s)
  BY <1>16, GotoMoves, RestRests DEF Enter, Labels
<1>17. ASSUME WriteSwapReceipt(s) PROVE Moved(s, "stale")
  BY <1>17, GotoMoves, RestRests DEF WriteSwapReceipt, Labels
<1>18. ASSUME Invalidate(s) PROVE Moved(s, "finish") \/ Moved(s, "swap") \/ Rested(s)
  BY <1>18, GotoMoves, RestRests DEF Invalidate, Labels
<1>19. ASSUME Swap(s) PROVE Moved(s, "finish")
  BY <1>19, GotoMoves, RestRests DEF Swap, Labels
<1>20. ASSUME Finish(s) PROVE Rested(s)
  BY <1>20, GotoMoves, RestRests DEF Finish, Labels
<1>21. ASSUME Die(s) PROVE Started(s, "off", None, "on")
  BY <1>21, AsleepType DEF Die, TypeOK, Session, Labels, Started, Others, Asleep
<1> QED
  BY <1>1, <1>2, <1>3, <1>4, <1>5, <1>6, <1>7, <1>8, <1>9, <1>10, <1>11, <1>12, <1>13, <1>14,
     <1>15, <1>16, <1>17, <1>18, <1>19, <1>20, <1>21

(* How the writes of a run move it, and what they add. *)
LEMMA CandidateWrite ==
  ASSUME Typed, NEW s \in Sessions, WriteCandidate(s)
  PROVE  /\ ss[s].dream \in Dreams
         /\ files' \in [Dreams -> [count : 0..3, cand : Memories, fit : BOOLEAN]]
         /\ \/ Moved(s, "fail") /\ UNCHANGED files
            \/ /\ Moved(s, "reports")
               /\ files[ss[s].dream].count = 0 /\ files'[ss[s].dream].count = 1
               /\ \A e \in Dreams \ {ss[s].dream} : files'[e] = files[e]
<1>1. ss[s] \in Session /\ ss[s].pc = "candidate" /\ ss[s].dream \in Dreams
  BY DEF Typed, Named, WriteCandidate, At, TypeOK, Idle
<1>2. CASE files[ss[s].dream].count = 0
  BY <1>1, <1>2, GotoMoves DEF WriteCandidate, Typed, TypeOK, Session, Labels
<1>3. CASE files[ss[s].dream].count # 0
  BY <1>1, <1>3, GotoMoves DEF WriteCandidate, Typed, TypeOK, Labels
<1> QED
  BY <1>1, <1>2, <1>3

(* Only a run with one or two of its files written writes another. *)
LEMMA ReportWrite ==
  ASSUME Typed, NEW s \in Sessions, WriteReports(s)
  PROVE  /\ ss[s].dream \in Dreams
         /\ files' \in [Dreams -> [count : 0..3, cand : Memories, fit : BOOLEAN]]
         /\ Moved(s, IF files[ss[s].dream].count = 1 THEN "reports" ELSE "review")
         /\ files[ss[s].dream].count \in {1, 2}
         /\ files'[ss[s].dream].count = files[ss[s].dream].count + 1
         /\ \A e \in Dreams \ {ss[s].dream} : files'[e] = files[e]
<1>1. ss[s].pc = "reports" /\ ss[s].dream \in Dreams
  BY DEF Typed, Named, WriteReports, At, Idle
<1>2. files[ss[s].dream].count \in {1, 2}
  BY <1>1 DEF Typed, OneReporter
<1>3. files[ss[s].dream].count + 1 \in 0..3
  BY <1>2
<1> QED
  BY <1>1, <1>2, <1>3, GotoMoves DEF WriteReports, Typed, TypeOK, Labels

(* What is swapped in is a memory. *)
LEMMA SwapTarget ==
  ASSUME Typed, NEW s \in Sessions, Swap(s)
  PROVE  Target(s) \in Memories /\ ss[s].dream \in Dreams
<1>1. ss[s].dream \in Dreams
  BY DEF Typed, Named, Swap, At, Idle
<1> QED
  BY <1>1 DEF Target, Typed, TypeOK, Dreams

(* Each step keeps the types. *)
LEMMA TypeStep == Typed /\ [Next]_vars => Typed'
<1> SUFFICES ASSUME Typed, [Next]_vars PROVE Typed'
  OBVIOUS
<1> USE DEF Typed
<1>1. ASSUME NEW s \in Sessions, Boot(s) PROVE Typed'
  <2>1. (Started(s, "check", Last(order), "on") /\ Last(order) \in Dreams) \/ Rested(s)
    BY <1>1, Control
  <2>2. ss[s].pc \notin Idle => ss[s].dream \in Dreams
    BY DEF Named
  <2>3. TypeOK'
    BY <1>1, <2>1, <2>2
       DEF Boot, At, dreamFiles, swapFiles, certVars, Rested, Started, Idle, TypeOK, JobStates
  <2>4. LeftOK'
    BY <1>1 DEF Boot, LeftOK
  <2>5. Named'
    BY <1>1, <2>1, <2>2, AssessedType DEF Boot, At, Named, Idle, Rested, Started, Others
  <2>6. OneReporter'
    BY <1>1, <2>1, <2>2
       DEF Boot, At, dreamFiles, swapFiles, certVars, OneReporter, Idle, Rested, Started, Others
  <2>7. BackIsSwitching'
    BY <1>1, <2>1 DEF Boot, At, BackIsSwitching, Switching, Locked, Rested, Started, Others
  <2> QED
    BY <2>3, <2>4, <2>5, <2>6, <2>7
<1>2. ASSUME NEW s \in Sessions, Recommend(s) PROVE Typed'
  <2>1. UNCHANGED ss
    BY <1>2 DEF Recommend
  <2>2. ss[s].pc \notin Idle => ss[s].dream \in Dreams
    BY DEF Named
  <2>3. TypeOK'
    BY <1>2, <2>1, <2>2, AssessedType, FileTypes
       DEF Recommend, At, swapFiles, certVars, Idle, TypeOK, JobStates
  <2>4. LeftOK'
    BY <1>2, AssessedType, FileTypes DEF Recommend, LeftOK
  <2>5. Named'
    BY <1>2, <2>1, <2>2, AssessedType DEF Recommend, At, Named, Idle
  <2>6. OneReporter'
    BY <1>2, <2>1, <2>2 DEF Recommend, At, swapFiles, certVars, OneReporter, Idle
  <2>7. BackIsSwitching'
    BY <1>2, <2>1 DEF Recommend, At, BackIsSwitching, Switching, Locked
  <2> QED
    BY <2>3, <2>4, <2>5, <2>6, <2>7
<1>3. ASSUME NEW s \in Sessions, Run(s) PROVE Typed'
  <2>1. Started(s, "dreaming", Assessed, "on")
    BY <1>3, Control
  <2>2. ss[s].pc \notin Idle => ss[s].dream \in Dreams
    BY DEF Named
  <2>3. TypeOK'
    BY <1>3, <2>1, <2>2, AssessedType, FileTypes, SpentTypes
       DEF Run, At, swapFiles, certVars, Started, Idle, TypeOK, JobStates
  <2>4. LeftOK'
    BY <1>3, AssessedType, FileTypes, SpentTypes DEF Run, LeftOK
  <2>5. Named'
    BY <1>3, <2>1, <2>2, AssessedType DEF Run, At, Named, Idle, Started, Others
  <2>6. OneReporter'
    BY <1>3, <2>1, <2>2 DEF Run, At, swapFiles, certVars, OneReporter, Idle, Started, Others
  <2>7. BackIsSwitching'
    BY <1>3, <2>1 DEF Run, At, BackIsSwitching, Switching, Locked, Started, Others
  <2> QED
    BY <2>3, <2>4, <2>5, <2>6, <2>7
<1>4. ASSUME NEW s \in Sessions, NEW d \in Dreams, Approve(s, d) PROVE Typed'
  <2>1. Started(s, "check", d, "on") \/ Started(s, "approve", d, "on")
    BY <1>4, Control
  <2>2. ss[s].pc \notin Idle => ss[s].dream \in Dreams
    BY DEF Named
  <2>3. TypeOK'
    BY <1>4, <2>1, <2>2
       DEF Approve, At, dreamFiles, swapFiles, certVars, Started, Idle, TypeOK, JobStates
  <2>4. LeftOK'
    BY <1>4 DEF Approve, LeftOK
  <2>5. Named'
    BY <1>4, <2>1, <2>2, AssessedType DEF Approve, At, Named, Idle, Started, Others
  <2>6. OneReporter'
    BY <1>4, <2>1, <2>2
       DEF Approve, At, dreamFiles, swapFiles, certVars, OneReporter, Idle, Started, Others
  <2>7. BackIsSwitching'
    BY <1>4, <2>1 DEF Approve, At, BackIsSwitching, Switching, Locked, Started, Others
  <2> QED
    BY <2>3, <2>4, <2>5, <2>6, <2>7
<1>5. ASSUME NEW s \in Sessions, NEW d \in Dreams, Reject(s, d) PROVE Typed'
  <2>1. Started(s, "reject", d, "on")
    BY <1>5, Control
  <2>2. ss[s].pc \notin Idle => ss[s].dream \in Dreams
    BY DEF Named
  <2>3. TypeOK'
    BY <1>5, <2>1, <2>2
       DEF Reject, At, dreamFiles, swapFiles, certVars, Started, Idle, TypeOK, JobStates
  <2>4. LeftOK'
    BY <1>5 DEF Reject, LeftOK
  <2>5. Named'
    BY <1>5, <2>1, <2>2, AssessedType DEF Reject, At, Named, Idle, Started, Others
  <2>6. OneReporter'
    BY <1>5, <2>1, <2>2
       DEF Reject, At, dreamFiles, swapFiles, certVars, OneReporter, Idle, Started, Others
  <2>7. BackIsSwitching'
    BY <1>5, <2>1 DEF Reject, At, BackIsSwitching, Switching, Locked, Started, Others
  <2> QED
    BY <2>3, <2>4, <2>5, <2>6, <2>7
<1>6. ASSUME NEW s \in Sessions, NEW d \in Dreams, Rollback(s, d) PROVE Typed'
  <2>1. UNCHANGED ss \/ Started(s, "mark", d, "back")
    BY <1>6, Control
  <2>2. ss[s].pc \notin Idle => ss[s].dream \in Dreams
    BY DEF Named
  <2>3. TypeOK'
    BY <1>6, <2>1, <2>2, LapsedType
       DEF Rollback, At, dreamFiles, swapFiles, Started, Idle, TypeOK, JobStates
  <2>4. LeftOK'
    BY <1>6, LapsedType DEF Rollback, LeftOK
  <2>5. Named'
    BY <1>6, <2>1, <2>2, AssessedType DEF Rollback, At, Named, Idle, Started, Others
  <2>6. OneReporter'
    BY <1>6, <2>1, <2>2
       DEF Rollback, At, dreamFiles, swapFiles, OneReporter, Idle, Started, Others
  <2>7. BackIsSwitching'
    BY <1>6, <2>1 DEF Rollback, At, BackIsSwitching, Switching, Locked, Started, Others
  <2> QED
    BY <2>3, <2>4, <2>5, <2>6, <2>7
<1>7. ASSUME NEW s \in Sessions, Dreaming(s) PROVE Typed'
  <2>1. Moved(s, "curate") \/ Moved(s, "fail")
    BY <1>7, Control
  <2>2. ss[s].pc \notin Idle => ss[s].dream \in Dreams
    BY DEF Named
  <2>3. TypeOK'
    BY <1>7, <2>1, <2>2, SetTypes
       DEF Dreaming, At, swapFiles, certVars, Moved, Idle, TypeOK, JobStates
  <2>4. LeftOK'
    BY <1>7, SetTypes DEF Dreaming, LeftOK
  <2>5. Named'
    BY <1>7, <2>1, <2>2, AssessedType DEF Dreaming, At, Named, Idle, Moved, Others
  <2>6. OneReporter'
    BY <1>7, <2>1, <2>2 DEF Dreaming, At, swapFiles, certVars, OneReporter, Idle, Moved, Others
  <2>7. BackIsSwitching'
    BY <1>7, <2>1 DEF Dreaming, At, BackIsSwitching, Switching, Locked, Moved, Others
  <2> QED
    BY <2>3, <2>4, <2>5, <2>6, <2>7
<1>8. ASSUME NEW s \in Sessions, Curate(s) PROVE Typed'
  <2>1. Started(s, "evaluate", ss[s].dream, ss[s].way) \/ Moved(s, "fail")
    BY <1>8, Control
  <2>2. ss[s].pc \notin Idle => ss[s].dream \in Dreams
    BY DEF Named
  <2>3. TypeOK'
    BY <1>8, <2>1, <2>2, SetTypes
       DEF Curate, At, swapFiles, certVars, Moved, Started, Idle, TypeOK, JobStates
  <2>4. LeftOK'
    BY <1>8, SetTypes DEF Curate, LeftOK
  <2>5. Named'
    BY <1>8, <2>1, <2>2, AssessedType DEF Curate, At, Named, Idle, Moved, Started, Others
  <2>6. OneReporter'
    BY <1>8, <2>1, <2>2
       DEF Curate, At, swapFiles, certVars, OneReporter, Idle, Moved, Started, Others
  <2>7. BackIsSwitching'
    BY <1>8, <2>1 DEF Curate, At, BackIsSwitching, Switching, Locked, Moved, Started, Others
  <2> QED
    BY <2>3, <2>4, <2>5, <2>6, <2>7
<1>9. ASSUME NEW s \in Sessions, Evaluate(s) PROVE Typed'
  <2>1. Started(s, "candidate", ss[s].dream, ss[s].way) \/ Moved(s, "fail")
    BY <1>9, Control
  <2>2. ss[s].pc \notin Idle => ss[s].dream \in Dreams
    BY DEF Named
  <2>3. TypeOK'
    BY <1>9, <2>1, <2>2
       DEF Evaluate, At, dreamFiles, swapFiles, certVars, Moved, Started, Idle, TypeOK, JobStates
  <2>4. LeftOK'
    BY <1>9 DEF Evaluate, LeftOK
  <2>5. Named'
    BY <1>9, <2>1, <2>2, AssessedType DEF Evaluate, At, Named, Idle, Moved, Started, Others
  <2>6. OneReporter'
    BY <1>9, <2>1, <2>2
       DEF Evaluate, At, dreamFiles, swapFiles, certVars, OneReporter, Idle, Moved, Started,
           Others
  <2>7. BackIsSwitching'
    BY <1>9, <2>1 DEF Evaluate, At, BackIsSwitching, Switching, Locked, Moved, Started, Others
  <2> QED
    BY <2>3, <2>4, <2>5, <2>6, <2>7
<1>10. ASSUME NEW s \in Sessions, WriteCandidate(s) PROVE Typed'
  <2>1. Moved(s, "reports") \/ Moved(s, "fail")
    BY <1>10, CandidateWrite
  <2>2. ss[s].pc \notin Idle => ss[s].dream \in Dreams
    BY DEF Named
  <2>3. TypeOK'
    BY <1>10, <2>1, <2>2, CandidateWrite
       DEF WriteCandidate, At, swapFiles, certVars, Moved, Idle, TypeOK, JobStates
  <2>4. LeftOK'
    BY <1>10 DEF WriteCandidate, LeftOK
  <2>5. Named'
    BY <1>10, <2>1, <2>2, AssessedType DEF WriteCandidate, At, Named, Idle, Moved, Others
  <2>6. OneReporter'
    <3>1. CASE Moved(s, "fail") /\ UNCHANGED files
      BY <3>1 DEF OneReporter, Moved, Others
    <3>2. CASE ~(Moved(s, "fail") /\ UNCHANGED files)
      <4>1. \A t \in Sessions : ss[t].pc = "reports" => ss[t].dream \in Dreams \ {ss[s].dream}
        BY <1>10, <3>2, CandidateWrite DEF OneReporter, Named, Idle
      <4> QED
        BY <1>10, <3>2, <4>1, CandidateWrite DEF OneReporter, Moved, Others
    <3> QED
      BY <3>1, <3>2
  <2>7. BackIsSwitching'
    BY <1>10, <2>1 DEF WriteCandidate, At, BackIsSwitching, Switching, Locked, Moved, Others
  <2> QED
    BY <2>3, <2>4, <2>5, <2>6, <2>7
<1>11. ASSUME NEW s \in Sessions, WriteReports(s) PROVE Typed'
  <2>1. Moved(s, "reports") \/ Moved(s, "review")
    BY <1>11, ReportWrite
  <2>2. ss[s].pc \notin Idle => ss[s].dream \in Dreams
    BY DEF Named
  <2>3. TypeOK'
    BY <1>11, <2>1, <2>2, ReportWrite
       DEF WriteReports, At, swapFiles, certVars, Moved, Idle, TypeOK, JobStates
  <2>4. LeftOK'
    BY <1>11 DEF WriteReports, LeftOK
  <2>5. Named'
    BY <1>11, <2>1, <2>2, AssessedType DEF WriteReports, At, Named, Idle, Moved, Others
  <2>6. OneReporter'
    <3> DEFINE d == ss[s].dream
    <3>1. ss[s].pc = "reports" /\ d \in Dreams
      BY <1>11, <2>2 DEF WriteReports, At, Idle
    <3>2. \A t \in Sessions \ {s} : ss[t].pc = "reports" => ss[t].dream \in Dreams \ {d}
      BY <3>1 DEF OneReporter, Named, Idle
    <3>3. \A t \in Sessions \ {s} : ss'[t] = ss[t]
      BY <2>1 DEF Moved, Others
    <3>4. \A e \in Dreams \ {d} : files'[e] = files[e]
      BY <1>11, ReportWrite
    <3>5. ss'[s].pc = "reports" => ss'[s].dream = d /\ files'[d].count = 2
      BY <1>11, <2>1, ReportWrite DEF Moved
    <3> QED
      BY <3>1, <3>2, <3>3, <3>4, <3>5 DEF OneReporter
  <2>7. BackIsSwitching'
    BY <1>11, <2>1 DEF WriteReports, At, BackIsSwitching, Switching, Locked, Moved, Others
  <2> QED
    BY <2>3, <2>4, <2>5, <2>6, <2>7
<1>12. ASSUME NEW s \in Sessions, Review(s) PROVE Typed'
  <2>1. Rested(s)
    BY <1>12, Control
  <2>2. ss[s].pc \notin Idle => ss[s].dream \in Dreams
    BY DEF Named
  <2>3. TypeOK'
    BY <1>12, <2>1, <2>2, SetTypes
       DEF Review, At, swapFiles, certVars, Rested, Started, Idle, TypeOK, JobStates
  <2>4. LeftOK'
    BY <1>12, SetTypes DEF Review, LeftOK
  <2>5. Named'
    BY <1>12, <2>1, <2>2, AssessedType DEF Review, At, Named, Idle, Rested, Started, Others
  <2>6. OneReporter'
    BY <1>12, <2>1, <2>2
       DEF Review, At, swapFiles, certVars, OneReporter, Idle, Rested, Started, Others
  <2>7. BackIsSwitching'
    BY <1>12, <2>1 DEF Review, At, BackIsSwitching, Switching, Locked, Rested, Started, Others
  <2> QED
    BY <2>3, <2>4, <2>5, <2>6, <2>7
<1>13. ASSUME NEW s \in Sessions, Fail(s) PROVE Typed'
  <2>1. Rested(s)
    BY <1>13, Control
  <2>2. ss[s].pc \notin Idle => ss[s].dream \in Dreams
    BY DEF Named
  <2>3. TypeOK'
    BY <1>13, <2>1, <2>2, SetTypes
       DEF Fail, At, swapFiles, certVars, Rested, Started, Idle, TypeOK, JobStates
  <2>4. LeftOK'
    BY <1>13, SetTypes DEF Fail, LeftOK
  <2>5. Named'
    BY <1>13, <2>1, <2>2, AssessedType DEF Fail, At, Named, Idle, Rested, Started, Others
  <2>6. OneReporter'
    BY <1>13, <2>1, <2>2
       DEF Fail, At, swapFiles, certVars, OneReporter, Idle, Rested, Started, Others
  <2>7. BackIsSwitching'
    BY <1>13, <2>1 DEF Fail, At, BackIsSwitching, Switching, Locked, Rested, Started, Others
  <2> QED
    BY <2>3, <2>4, <2>5, <2>6, <2>7
<1>14. ASSUME NEW s \in Sessions, WriteApproval(s) PROVE Typed'
  <2>1. Moved(s, "check") \/ Rested(s)
    BY <1>14, Control
  <2>2. ss[s].pc \notin Idle => ss[s].dream \in Dreams
    BY DEF Named
  <2>3. TypeOK'
    BY <1>14, <2>1, <2>2
       DEF WriteApproval, At, swapFiles, certVars, WriteReceipt, Moved, Rested, Started, Idle,
           TypeOK, JobStates
  <2>4. LeftOK'
    BY <1>14 DEF WriteApproval, LeftOK
  <2>5. Named'
    BY <1>14, <2>1, <2>2, AssessedType
       DEF WriteApproval, At, Named, Idle, Moved, Rested, Started, Others
  <2>6. OneReporter'
    BY <1>14, <2>1, <2>2
       DEF WriteApproval, At, swapFiles, certVars, OneReporter, Idle, Moved, Rested, Started,
           Others
  <2>7. BackIsSwitching'
    BY <1>14, <2>1
       DEF WriteApproval, At, BackIsSwitching, Switching, Locked, Moved, Rested, Started, Others
  <2> QED
    BY <2>3, <2>4, <2>5, <2>6, <2>7
<1>15. ASSUME NEW s \in Sessions, WriteRejection(s) PROVE Typed'
  <2>1. Moved(s, "rejected") \/ Rested(s)
    BY <1>15, Control
  <2>2. ss[s].pc \notin Idle => ss[s].dream \in Dreams
    BY DEF Named
  <2>3. TypeOK'
    BY <1>15, <2>1, <2>2
       DEF WriteRejection, At, swapFiles, certVars, WriteReceipt, Moved, Rested, Started, Idle,
           TypeOK, JobStates
  <2>4. LeftOK'
    BY <1>15 DEF WriteRejection, LeftOK
  <2>5. Named'
    BY <1>15, <2>1, <2>2, AssessedType
       DEF WriteRejection, At, Named, Idle, Moved, Rested, Started, Others
  <2>6. OneReporter'
    BY <1>15, <2>1, <2>2
       DEF WriteRejection, At, swapFiles, certVars, OneReporter, Idle, Moved, Rested, Started,
           Others
  <2>7. BackIsSwitching'
    BY <1>15, <2>1
       DEF WriteRejection, At, BackIsSwitching, Switching, Locked, Moved, Rested, Started, Others
  <2> QED
    BY <2>3, <2>4, <2>5, <2>6, <2>7
<1>16. ASSUME NEW s \in Sessions, Rejected(s) PROVE Typed'
  <2>1. Rested(s)
    BY <1>16, Control
  <2>2. ss[s].pc \notin Idle => ss[s].dream \in Dreams
    BY DEF Named
  <2>3. TypeOK'
    BY <1>16, <2>1, <2>2, SetTypes
       DEF Rejected, At, swapFiles, certVars, Rested, Started, Idle, TypeOK, JobStates
  <2>4. LeftOK'
    BY <1>16, SetTypes DEF Rejected, LeftOK
  <2>5. Named'
    BY <1>16, <2>1, <2>2, AssessedType DEF Rejected, At, Named, Idle, Rested, Started, Others
  <2>6. OneReporter'
    BY <1>16, <2>1, <2>2
       DEF Rejected, At, swapFiles, certVars, OneReporter, Idle, Rested, Started, Others
  <2>7. BackIsSwitching'
    BY <1>16, <2>1 DEF Rejected, At, BackIsSwitching, Switching, Locked, Rested, Started, Others
  <2> QED
    BY <2>3, <2>4, <2>5, <2>6, <2>7
<1>17. ASSUME NEW s \in Sessions, Check(s) PROVE Typed'
  <2>1. Moved(s, "mark") \/ Rested(s)
    BY <1>17, Control
  <2>2. ss[s].pc \notin Idle => ss[s].dream \in Dreams
    BY DEF Named
  <2>3. TypeOK'
    BY <1>17, <2>1, <2>2, LapsedType
       DEF Check, At, dreamFiles, swapFiles, Moved, Rested, Started, Idle, TypeOK, JobStates
  <2>4. LeftOK'
    BY <1>17, LapsedType DEF Check, LeftOK
  <2>5. Named'
    BY <1>17, <2>1, <2>2, AssessedType DEF Check, At, Named, Idle, Moved, Rested, Started, Others
  <2>6. OneReporter'
    BY <1>17, <2>1, <2>2
       DEF Check, At, dreamFiles, swapFiles, OneReporter, Idle, Moved, Rested, Started, Others
  <2>7. BackIsSwitching'
    BY <1>17, <2>1
       DEF Check, At, BackIsSwitching, Switching, Locked, Moved, Rested, Started, Others
  <2> QED
    BY <2>3, <2>4, <2>5, <2>6, <2>7
<1>18. ASSUME NEW s \in Sessions, Mark(s) PROVE Typed'
  <2>1. Moved(s, "lock")
    BY <1>18, Control
  <2>2. ss[s].pc \notin Idle => ss[s].dream \in Dreams
    BY DEF Named
  <2>3. TypeOK'
    BY <1>18, <2>1, <2>2, SetTypes
       DEF Mark, At, swapFiles, certVars, Moved, Idle, TypeOK, JobStates
  <2>4. LeftOK'
    BY <1>18, SetTypes DEF Mark, LeftOK
  <2>5. Named'
    BY <1>18, <2>1, <2>2, AssessedType DEF Mark, At, Named, Idle, Moved, Others
  <2>6. OneReporter'
    BY <1>18, <2>1, <2>2 DEF Mark, At, swapFiles, certVars, OneReporter, Idle, Moved, Others
  <2>7. BackIsSwitching'
    BY <1>18, <2>1 DEF Mark, At, BackIsSwitching, Switching, Locked, Moved, Others
  <2> QED
    BY <2>3, <2>4, <2>5, <2>6, <2>7
<1>19. ASSUME NEW s \in Sessions, Enter(s) PROVE Typed'
  <2>1. Moved(s, "receipt") \/ Moved(s, "stale") \/ Rested(s)
    BY <1>19, Control
  <2>2. ss[s].pc \notin Idle => ss[s].dream \in Dreams
    BY DEF Named
  <2>3. TypeOK'
    BY <1>19, <2>1, <2>2
       DEF Enter, At, dreamFiles, certVars, Source, Target, Receipt, Moved, Rested, Started,
           Idle, TypeOK, JobStates
  <2>4. LeftOK'
    BY <1>19 DEF Enter, LeftOK
  <2>5. Named'
    BY <1>19, <2>1, <2>2, AssessedType DEF Enter, At, Named, Idle, Moved, Rested, Started, Others
  <2>6. OneReporter'
    BY <1>19, <2>1, <2>2
       DEF Enter, At, dreamFiles, certVars, OneReporter, Idle, Moved, Rested, Started, Others
  <2>7. BackIsSwitching'
    BY <1>19, <2>1
       DEF Enter, At, BackIsSwitching, Switching, Locked, Moved, Rested, Started, Others
  <2> QED
    BY <2>3, <2>4, <2>5, <2>6, <2>7
<1>20. ASSUME NEW s \in Sessions, WriteSwapReceipt(s) PROVE Typed'
  <2>1. Moved(s, "stale")
    BY <1>20, Control
  <2>2. ss[s].pc \notin Idle => ss[s].dream \in Dreams
    BY DEF Named
  <2>3. TypeOK'
    BY <1>20, <2>1, <2>2
       DEF WriteSwapReceipt, At, dreamFiles, certVars, Receipt, Moved, Idle, TypeOK, Session
  <2>4. LeftOK'
    BY <1>20 DEF WriteSwapReceipt, LeftOK
  <2>5. Named'
    BY <1>20, <2>1, <2>2, AssessedType DEF WriteSwapReceipt, At, Named, Idle, Moved, Others
  <2>6. OneReporter'
    BY <1>20, <2>1, <2>2
       DEF WriteSwapReceipt, At, dreamFiles, certVars, OneReporter, Idle, Moved, Others
  <2>7. BackIsSwitching'
    BY <1>20, <2>1 DEF WriteSwapReceipt, At, BackIsSwitching, Switching, Locked, Moved, Others
  <2> QED
    BY <2>3, <2>4, <2>5, <2>6, <2>7
<1>21. ASSUME NEW s \in Sessions, Invalidate(s) PROVE Typed'
  <2>1. Moved(s, "finish") \/ Moved(s, "swap") \/ Rested(s)
    BY <1>21, Control
  <2>2. ss[s].pc \notin Idle => ss[s].dream \in Dreams
    BY DEF Named
  <2>3. TypeOK'
    BY <1>21, <2>1, <2>2, LapsedType, SpentTypes
       DEF Invalidate, At, dreamFiles, swapFiles, Moved, Rested, Started, Idle, TypeOK, JobStates
  <2>4. LeftOK'
    BY <1>21, LapsedType, SpentTypes DEF Invalidate, LeftOK
  <2>5. Named'
    BY <1>21, <2>1, <2>2, AssessedType
       DEF Invalidate, At, Named, Idle, Moved, Rested, Started, Others
  <2>6. OneReporter'
    BY <1>21, <2>1, <2>2
       DEF Invalidate, At, dreamFiles, swapFiles, OneReporter, Idle, Moved, Rested, Started,
           Others
  <2>7. BackIsSwitching'
    BY <1>21, <2>1
       DEF Invalidate, At, BackIsSwitching, Switching, Locked, Moved, Rested, Started, Others
  <2> QED
    BY <2>3, <2>4, <2>5, <2>6, <2>7
<1>22. ASSUME NEW s \in Sessions, Swap(s) PROVE Typed'
  <2>1. Moved(s, "finish")
    BY <1>22, Control
  <2>2. ss[s].pc \notin Idle => ss[s].dream \in Dreams
    BY DEF Named
  <2>3. TypeOK'
    BY <1>22, <2>1, <2>2, SwapTarget
       DEF Swap, At, dreamFiles, certVars, Moved, Idle, TypeOK, JobStates
  <2>4. LeftOK'
    BY <1>22 DEF Swap, LeftOK
  <2>5. Named'
    BY <1>22, <2>1, <2>2, AssessedType DEF Swap, At, Named, Idle, Moved, Others
  <2>6. OneReporter'
    BY <1>22, <2>1, <2>2 DEF Swap, At, dreamFiles, certVars, OneReporter, Idle, Moved, Others
  <2>7. BackIsSwitching'
    BY <1>22, <2>1 DEF Swap, At, BackIsSwitching, Switching, Locked, Moved, Others
  <2> QED
    BY <2>3, <2>4, <2>5, <2>6, <2>7
<1>23. ASSUME NEW s \in Sessions, Finish(s) PROVE Typed'
  <2>1. Rested(s)
    BY <1>23, Control
  <2>2. ss[s].pc \notin Idle => ss[s].dream \in Dreams
    BY DEF Named
  <2>3. TypeOK'
    BY <1>23, <2>1, <2>2, SetTypes
       DEF Finish, At, swapFiles, certVars, Rested, Started, Idle, TypeOK, JobStates
  <2>4. LeftOK'
    BY <1>23, SetTypes DEF Finish, LeftOK
  <2>5. Named'
    BY <1>23, <2>1, <2>2, AssessedType DEF Finish, At, Named, Idle, Rested, Started, Others
  <2>6. OneReporter'
    BY <1>23, <2>1, <2>2
       DEF Finish, At, swapFiles, certVars, OneReporter, Idle, Rested, Started, Others
  <2>7. BackIsSwitching'
    BY <1>23, <2>1 DEF Finish, At, BackIsSwitching, Switching, Locked, Rested, Started, Others
  <2> QED
    BY <2>3, <2>4, <2>5, <2>6, <2>7
<1>24. ASSUME NEW s \in Sessions, Die(s) PROVE Typed'
  <2>1. Started(s, "off", None, "on")
    BY <1>24, Control
  <2>2. ss[s].pc \notin Idle => ss[s].dream \in Dreams
    BY DEF Named
  <2>3. TypeOK'
    BY <1>24, <2>1, <2>2, SpentTypes
       DEF Die, At, dreamFiles, swapFiles, certVars, Started, Idle, TypeOK, JobStates
  <2>4. LeftOK'
    BY <1>24, SpentTypes DEF Die, LeftOK
  <2>5. Named'
    BY <1>24, <2>1, <2>2, AssessedType DEF Die, At, Named, Idle, Started, Others
  <2>6. OneReporter'
    BY <1>24, <2>1, <2>2
       DEF Die, At, dreamFiles, swapFiles, certVars, OneReporter, Idle, Started, Others
  <2>7. BackIsSwitching'
    BY <1>24, <2>1 DEF Die, At, BackIsSwitching, Switching, Locked, Started, Others
  <2> QED
    BY <2>3, <2>4, <2>5, <2>6, <2>7
<1>25. ASSUME NEW f \in Lessons, Learn(f) PROVE Typed'
  <2>1. TypeOK'
    BY <1>25, SpentTypes DEF Learn, dreamFiles, certVars, TypeOK, Memories, Facts, Certificate
  <2>2. LeftOK'
    BY <1>25, SpentTypes DEF Learn, LeftOK
  <2>3. Named' /\ OneReporter' /\ BackIsSwitching'
    BY <1>25 DEF Learn, dreamFiles, certVars, Named, OneReporter, BackIsSwitching
  <2> QED
    BY <2>1, <2>2, <2>3
<1>26. CASE Reflect
  <2>1. TypeOK'
    BY <1>26, SpentTypes
       DEF Reflect, dreamFiles, swapFiles, certVars, TypeOK, Memories, Facts, Certificate
  <2>2. LeftOK'
    BY <1>26, SpentTypes DEF Reflect, LeftOK
  <2>3. Named' /\ OneReporter' /\ BackIsSwitching'
    BY <1>26 DEF Reflect, dreamFiles, swapFiles, certVars, Named, OneReporter, BackIsSwitching
  <2> QED
    BY <2>1, <2>2, <2>3
<1>27. CASE CertifyBegins
  <2>1. TypeOK'
    BY <1>27, SpentTypes
       DEF CertifyBegins, dreamFiles, swapFiles, TypeOK, Memories, Facts, Certificate
  <2>2. LeftOK'
    BY <1>27, SpentTypes DEF CertifyBegins, LeftOK
  <2>3. Named' /\ OneReporter' /\ BackIsSwitching'
    BY <1>27 DEF CertifyBegins, dreamFiles, swapFiles, Named, OneReporter, BackIsSwitching
  <2> QED
    BY <2>1, <2>2, <2>3
<1>28. CASE Certify
  <2>1. TypeOK'
    BY <1>28
       DEF Certify, dreamFiles, swapFiles, MakeLatest, Credential, TypeOK, Memories, Facts,
           Certificate
  <2>2. LeftOK'
    BY <1>28 DEF Certify, LeftOK
  <2>3. Named' /\ OneReporter' /\ BackIsSwitching'
    BY <1>28 DEF Certify, dreamFiles, swapFiles, Named, OneReporter, BackIsSwitching
  <2> QED
    BY <2>1, <2>2, <2>3
<1>29. CASE UNCHANGED vars
  BY <1>29 DEF vars, dreamFiles, swapFiles, certVars, TypeOK, LeftOK, Named, OneReporter,
              BackIsSwitching
<1> QED
  BY <1>1, <1>2, <1>3, <1>4, <1>5, <1>6, <1>7, <1>8, <1>9, <1>10, <1>11, <1>12, <1>13, <1>14,
     <1>15, <1>16, <1>17, <1>18, <1>19, <1>20, <1>21, <1>22, <1>23, <1>24, <1>25, <1>26, <1>27,
     <1>28, <1>29 DEF Next, Client, Handler

(* Every variable keeps its shape; no run writes a fourth file, and none of the
   sessions at work is without a Dream. *)
THEOREM TypeCorrect == Spec => []Typed
<1>1. Init => Typed
  <2> SUFFICES ASSUME Init PROVE Typed
    OBVIOUS
  <2>1. TypeOK
    <3>1. memory \in Memories /\ input \in Inputs /\ archive \subseteq Memories /\ order \in Seq(Dreams)
      BY DreamAssumption DEF Init, Memories
    <3>2. files \in [Dreams -> [count : 0..3, cand : Memories, fit : BOOLEAN]]
      BY DEF Init, Unwritten, Memories
    <3>3. cert \in Certificate \union {None}
      <4>1. [for |-> {}, stale |-> FALSE, late |-> FALSE] \in Certificate
        BY DEF Certificate, Memories
      <4> QED
        BY <4>1 DEF Init
    <3>4. ss \in [Sessions -> Session]
      BY AsleepType DEF Init
    <3> QED
      BY <3>1, <3>2, <3>3, <3>4 DEF Init, TypeOK, JobStates
  <2> QED
    BY <2>1, DreamAssumption
       DEF Init, Typed, LeftOK, Named, OneReporter, BackIsSwitching, Asleep, Idle
<1> QED
  BY <1>1, TypeStep, PTL DEF Spec

-----------------------------------------------------------------------------
(* A Dream that may be activated: approved, complete and passed. *)
Ready(d) == approval[d] = "approve" /\ Complete(d) /\ files[d].fit

(* Whoever is under the lock holds it. *)
Holder == \A s \in Sessions : ss[s].pc \in Locked <=> owner = s

(* An activation receipt is for such a Dream, and the memory it replaces is kept. *)
ReceiptsBacked ==
  \A d \in Dreams : <<d, "on">> \in receipts => Ready(d) /\ d.base \in archive

(* Whoever activates or rolls back does so for such a Dream. *)
BackedAt(s) ==
  ss[s].pc \in Switching =>
    Ready(ss[s].dream) /\ (ss[s].way = "back" => <<ss[s].dream, "on">> \in receipts)

WorkBacked == \A s \in Sessions : BackedAt(s)

(* The certificate does not stand in the way of switching to a memory. *)
Covered(target) == cert = None \/ cert.stale \/ cert.late \/ cert.for = target

(* Under the lock: memory is what the session takes it for, the receipt is there
   before the certificate lapses, and the certificate lapses before the swap. *)
SwapBacked(s) ==
  /\ ss[s].pc = "receipt" => memory = Source(s) /\ (ss[s].way = "on" => memory \in archive)
  /\ ss[s].pc = "stale" => Receipt(s) \in receipts /\ memory \in {Source(s), Target(s)}
  /\ ss[s].pc = "swap" => Receipt(s) \in receipts /\ memory = Source(s) /\ Covered(Target(s))

Swapping == \A s \in Sessions : SwapBacked(s)

(* The memory rests on a Dream that has a receipt. *)
OriginBacked == origin # None => <<origin, "on">> \in receipts

(* What backs a memory, together. *)
Backed == Holder /\ ReceiptsBacked /\ WorkBacked /\ Swapping /\ OriginBacked

(* Nothing that was written about a Dream is written again: its files, once
   complete, and its approval stay. *)
Lasting ==
  /\ \A d \in Dreams : Complete(d) => files'[d] = files[d]
  /\ \A d \in Dreams : approval[d] = "approve" => approval'[d] = "approve"

(* Nothing revives the certificate while the lock is held. *)
Covering == owner = None \/ \A m : Covered(m) => Covered(m)'

(* A step that leaves memory and what backs it alone. *)
Aside ==
  /\ UNCHANGED <<memory, archive, receipts, origin, owner>> /\ Covering
  /\ \A t \in Sessions :
       \/ ss'[t] = ss[t]
       \/ /\ ss[t].pc \notin Locked /\ ss'[t].pc \notin Locked
          /\ ss'[t].pc \in Switching =>
               /\ Ready(ss'[t].dream)
               /\ ss'[t].way = "back" => <<ss'[t].dream, "on">> \in receipts

(* Every step is lasting: a candidate once reviewed is never replaced. *)
LEMMA LastingStep ==
  ASSUME Typed, [Next]_vars PROVE Lasting
<1>1. ASSUME NEW s \in Sessions, WriteCandidate(s) PROVE Lasting
  BY <1>1, CandidateWrite DEF WriteCandidate, Lasting, Complete
<1>2. ASSUME NEW s \in Sessions, WriteReports(s) PROVE Lasting
  <2>1. ~Complete(ss[s].dream)
    BY <1>2, ReportWrite DEF Complete
  <2>2. UNCHANGED approval
    BY <1>2 DEF WriteReports
  <2> QED
    BY <1>2, <2>1, <2>2, ReportWrite DEF Lasting
<1>3. ASSUME NEW s \in Sessions, WriteApproval(s) \/ WriteRejection(s) PROVE Lasting
  <2>1. UNCHANGED files
    BY <1>3 DEF WriteApproval, WriteRejection
  <2>2. \A d \in Dreams : approval[d] # "none" => approval'[d] = approval[d]
    BY <1>3 DEF WriteApproval, WriteRejection, WriteReceipt, Typed, TypeOK
  <2> QED
    BY <2>1, <2>2 DEF Lasting
<1>4. CASE UNCHANGED <<files, approval>>
  BY <1>4 DEF Lasting
<1>5. ASSUME NEW s \in Sessions,
             Boot(s) \/ Recommend(s) \/ Run(s) \/ (\E d \in Dreams : Approve(s, d) \/ Reject(s, d))
      PROVE  UNCHANGED <<files, approval>>
  BY <1>5 DEF Boot, Recommend, Run, Approve, Reject, dreamFiles
<1>6. ASSUME NEW s \in Sessions,
             Dreaming(s) \/ Curate(s) \/ Evaluate(s) \/ Review(s) \/ Fail(s) \/ Rejected(s)
      PROVE  UNCHANGED <<files, approval>>
  BY <1>6 DEF Dreaming, Curate, Evaluate, Review, Fail, Rejected, dreamFiles
<1>7. ASSUME NEW s \in Sessions,
             Check(s) \/ Mark(s) \/ Enter(s) \/ (\E d \in Dreams : Rollback(s, d)) \/ Die(s)
      PROVE  UNCHANGED <<files, approval>>
  BY <1>7 DEF Check, Mark, Enter, Rollback, Die, dreamFiles
<1>8. ASSUME NEW s \in Sessions, WriteSwapReceipt(s) \/ Invalidate(s) \/ Swap(s) \/ Finish(s)
      PROVE  UNCHANGED <<files, approval>>
  BY <1>8 DEF WriteSwapReceipt, Invalidate, Swap, Finish, dreamFiles
<1>9. (\E f \in Lessons : Learn(f)) \/ Reflect \/ CertifyBegins \/ Certify \/ UNCHANGED vars
        => UNCHANGED <<files, approval>>
  BY DEF Learn, Reflect, CertifyBegins, Certify, dreamFiles, vars
<1> QED
  BY <1>1, <1>2, <1>3, <1>4, <1>5, <1>6, <1>7, <1>8, <1>9 DEF Next, Client, Handler

(* A certificate that lapses does not stand in the way. *)
LEMMA LapsedCovers ==
  ASSUME Typed, NEW target, cert' = Lapsed(target)
  PROVE  Covering /\ Covered(target)'
  BY DreamAssumption DEF Covering, Covered, Lapsed, Typed, TypeOK, Certificate

(* What is done aside of the lock leaves Backed as it is. *)
LEMMA AsideKeeps ==
  ASSUME Typed, Typed', Backed, Lasting, Aside PROVE Backed'
<1> USE DEF Backed
<1>1. Holder'
  BY DEF Holder, Aside, Locked
<1>2. \A d \in Dreams : Ready(d) => Ready(d)' /\ files'[d] = files[d]
  BY DEF Lasting, Ready, Complete
<1>3. ReceiptsBacked'
  BY <1>2 DEF ReceiptsBacked, Aside
<1>4. OriginBacked'
  BY DEF OriginBacked, Aside
<1>5. \A t \in Sessions : ss[t].pc \in Switching => ss[t].dream \in Dreams
  BY DEF Typed, Named, Switching, Locked, Idle
<1>6. WorkBacked'
  <2> SUFFICES ASSUME NEW t \in Sessions, ss'[t].pc \in Switching PROVE BackedAt(t)'
    BY DEF WorkBacked, BackedAt
  <2>1. ss'[t].dream \in Dreams
    BY DEF Typed, Named, Switching, Locked, Idle
  <2>2. Ready(ss'[t].dream) /\ (ss'[t].way = "back" => <<ss'[t].dream, "on">> \in receipts)
    BY DEF WorkBacked, BackedAt, Aside
  <2>3. UNCHANGED receipts
    BY DEF Aside
  <2> QED
    BY <1>2, <2>1, <2>2, <2>3 DEF BackedAt, Ready, Complete
<1>7. Swapping'
  <2> SUFFICES ASSUME NEW t \in Sessions, ss'[t].pc \in Locked PROVE SwapBacked(t)'
    BY DEF Swapping, SwapBacked, Locked
  <2>1. ss'[t] = ss[t]
    BY DEF Aside
  <2>2. ss[t].dream \in Dreams /\ Ready(ss[t].dream)
    BY <1>5, <2>1 DEF WorkBacked, BackedAt, Switching
  <2>3. Source(t)' = Source(t) /\ Target(t)' = Target(t) /\ Receipt(t)' = Receipt(t)
    BY <1>2, <2>1, <2>2 DEF Source, Target, Receipt
  <2>4. owner # None
    BY <2>1, DreamAssumption DEF Holder
  <2>5. SwapBacked(t) /\ (\A m : Covered(m) => Covered(m)')
    BY <2>4 DEF Swapping, Aside, Covering
  <2>6. UNCHANGED <<memory, archive, receipts>>
    BY DEF Aside
  <2>7. Covered(Target(t)) => Covered(Target(t))'
    BY <2>3, <2>5 DEF Covered
  <2> QED
    BY <2>1, <2>3, <2>5, <2>6, <2>7 DEF SwapBacked
<1> QED
  BY <1>1, <1>3, <1>4, <1>6, <1>7

(* So does a step of the only session that has, or takes, the lock, if it keeps
   its own part. *)
LEMMA LockStep ==
  ASSUME Typed, Typed', Backed, Lasting, NEW s \in Sessions, Others(s),
         owner \in {None, s}, owner' \in {None, s}, ss'[s].pc \in Locked <=> owner' = s,
         archive \subseteq archive', receipts \subseteq receipts',
         \A d \in Dreams : <<d, "on">> \in receipts' \ receipts => Ready(d) /\ d.base \in archive,
         ss'[s].pc \in Switching =>
           ss[s].pc \in Switching /\ ss'[s].dream = ss[s].dream /\ ss'[s].way = ss[s].way,
         SwapBacked(s)',
         origin' # None => <<origin', "on">> \in receipts'
  PROVE  Backed'
<1> USE DEF Backed
<1>1. \A t \in Sessions \ {s} : ss'[t] = ss[t] /\ ss[t].pc \notin Locked
  BY DreamAssumption DEF Others, Holder
<1>2. \A d \in Dreams : Ready(d) => Ready(d)'
  BY DEF Lasting, Ready, Complete
<1>3. Holder'
  BY <1>1, DreamAssumption DEF Holder
<1>4. ReceiptsBacked'
  BY <1>2 DEF ReceiptsBacked
<1>5. WorkBacked'
  <2> SUFFICES ASSUME NEW t \in Sessions, ss'[t].pc \in Switching PROVE BackedAt(t)'
    BY DEF WorkBacked, BackedAt
  <2>1. ss'[t].dream \in Dreams
    BY DEF Typed, Named, Switching, Locked, Idle
  <2>2. ss[t].pc \in Switching /\ ss'[t].dream = ss[t].dream /\ ss'[t].way = ss[t].way
    BY <1>1
  <2>3. Ready(ss'[t].dream) /\ (ss'[t].way = "back" => <<ss'[t].dream, "on">> \in receipts)
    BY <2>2 DEF WorkBacked, BackedAt
  <2> QED
    BY <1>2, <2>1, <2>3 DEF BackedAt, Ready, Complete
<1>6. Swapping'
  <2> SUFFICES ASSUME NEW t \in Sessions \ {s} PROVE SwapBacked(t)'
    BY DEF Swapping
  <2>1. ss'[t].pc \notin Locked
    BY <1>1
  <2> QED
    BY <2>1 DEF SwapBacked, Locked
<1>7. OriginBacked'
  BY DEF OriginBacked
<1> QED
  BY <1>3, <1>4, <1>5, <1>6, <1>7

(* What a workbench does but activate and roll back. *)
Generation(s) ==
  \/ Boot(s) \/ Recommend(s) \/ Run(s) \/ (\E d \in Dreams : Approve(s, d) \/ Reject(s, d))
  \/ Dreaming(s) \/ Curate(s) \/ Evaluate(s) \/ WriteCandidate(s) \/ WriteReports(s)
  \/ Review(s) \/ Fail(s) \/ WriteApproval(s) \/ WriteRejection(s) \/ Rejected(s)

(* What it leaves alone. *)
Outside == <<memory, archive, receipts, origin, owner>>

(* Generation, review and verdict leave memory and certificate alone. *)
LEMMA GenerationApart ==
  ASSUME NEW s \in Sessions, Generation(s)
  PROVE  UNCHANGED <<Outside, cert>> /\ ss[s].pc \notin Switching
<1>1. ASSUME Boot(s) \/ Recommend(s) \/ Run(s) \/ (\E d \in Dreams : Approve(s, d) \/ Reject(s, d))
      PROVE  UNCHANGED <<Outside, cert>> /\ ss[s].pc \notin Switching
  BY <1>1
     DEF Boot, Recommend, Run, Approve, Reject, At, Outside, swapFiles, certVars, Switching,
         Locked
<1>2. ASSUME Dreaming(s) \/ Curate(s) \/ Evaluate(s) \/ WriteCandidate(s) \/ WriteReports(s)
      PROVE  UNCHANGED <<Outside, cert>> /\ ss[s].pc \notin Switching
  BY <1>2
     DEF Dreaming, Curate, Evaluate, WriteCandidate, WriteReports, At, Outside, swapFiles,
         certVars,
              Switching, Locked
<1>3. ASSUME Review(s) \/ Fail(s) \/ WriteApproval(s) \/ WriteRejection(s) \/ Rejected(s)
      PROVE  UNCHANGED <<Outside, cert>> /\ ss[s].pc \notin Switching
  BY <1>3
     DEF Review, Fail, WriteApproval, WriteRejection, Rejected, At, Outside, swapFiles, certVars,
              Switching, Locked
<1> QED
  BY <1>1, <1>2, <1>3 DEF Generation

(* Each step keeps Backed. *)
LEMMA BackedStep ==
  ASSUME Typed, Typed', Backed, [Next]_vars PROVE Backed'
<1> USE DEF Backed
<1>0. Lasting
  BY LastingStep
<1> USE DEF Outside
<1>1. ASSUME NEW s \in Sessions, Generation(s) PROVE Aside
  <2>1. UNCHANGED <<Outside, cert>> /\ ss[s].pc \notin Switching
    BY <1>1, GenerationApart
  <2>2. Others(s) /\ (ss'[s] = ss[s] \/ ss'[s].pc \notin Switching)
    <3>1. CASE Recommend(s)
      BY <3>1 DEF Recommend, Others
    <3>2. CASE WriteCandidate(s) \/ WriteReports(s)
      BY <3>2, CandidateWrite, ReportWrite DEF Moved, Switching, Locked
    <3>3. CASE ~Recommend(s) /\ ~WriteCandidate(s) /\ ~WriteReports(s)
      BY <1>1, <3>3, Control DEF Generation, Moved, Started, Rested, Switching, Locked
    <3> QED
      BY <3>1, <3>2, <3>3
  <2> QED
    BY <2>1, <2>2 DEF Aside, Covering, Others, Switching, Covered
<1>2. ASSUME NEW s \in Sessions, Check(s) PROVE Aside
  <2>1. UNCHANGED Outside /\ ss[s].pc = "check"
    BY <1>2 DEF Check, At, swapFiles
  <2>2. Covering
    <3>1. UNCHANGED cert \/ cert' = Lapsed(memory)
      BY <1>2 DEF Check
    <3> QED
      BY <3>1, LapsedCovers DEF Covering, Covered
  <2>3. ss[s].way = "on" /\ ss[s].dream \in Dreams
    BY <2>1, IdleIsForward DEF Typed, Named, Idle, Switching, Locked
  <2>4. CASE Moved(s, "mark") /\ Unblocked(ss[s].dream)
    BY <2>1, <2>2, <2>3, <2>4 DEF Aside, Moved, Others, Locked, Unblocked, Ready
  <2>5. CASE Rested(s)
    BY <2>1, <2>2, <2>5 DEF Aside, Rested, Started, Others, Locked, Switching
  <2>6. Rested(s) \/ (Goto(s, "mark") /\ Unblocked(ss[s].dream))
    BY <1>2, RestRests DEF Check, Typed
  <2> QED
    BY <2>4, <2>5, <2>6, GotoMoves DEF Typed, Labels
<1>3. ASSUME NEW s \in Sessions, NEW d \in Dreams, Rollback(s, d) PROVE Aside
  <2>1. UNCHANGED Outside /\ ss[s].pc = "idle"
    BY <1>3 DEF Rollback, At, swapFiles
  <2>2. Covering
    <3>1. UNCHANGED cert \/ cert' = Lapsed(memory)
      BY <1>3 DEF Rollback
    <3> QED
      BY <3>1, LapsedCovers DEF Covering, Covered
  <2>3. CASE UNCHANGED ss
    BY <2>1, <2>2, <2>3 DEF Aside
  <2>4. CASE Started(s, "mark", d, "back") /\ <<d, "on">> \in receipts
    BY <2>1, <2>2, <2>4 DEF Aside, Started, Others, Locked, ReceiptsBacked
  <2>5. UNCHANGED ss \/ <<d, "on">> \in receipts
    BY <1>3 DEF Rollback
  <2> QED
    BY <1>3, <2>3, <2>4, <2>5, Control
<1>4. ASSUME NEW s \in Sessions, Mark(s) PROVE Aside
  <2>1. UNCHANGED <<Outside, cert>> /\ ss[s].pc = "mark"
    BY <1>4 DEF Mark, At, swapFiles, certVars
  <2>2. Moved(s, "lock")
    BY <1>4, Control
  <2>3. BackedAt(s) /\ ss[s].pc \in Switching
    BY <2>1 DEF WorkBacked, Switching
  <2> QED
    BY <2>1, <2>2, <2>3 DEF Aside, Covering, Covered, Moved, Others, BackedAt, Locked
<1>5. ASSUME NEW s \in Sessions, Finish(s) PROVE Aside
  <2>1. UNCHANGED <<Outside, cert>> /\ ss[s].pc = "finish"
    BY <1>5 DEF Finish, At, swapFiles, certVars
  <2>2. Rested(s)
    BY <1>5, Control
  <2> QED
    BY <2>1, <2>2 DEF Aside, Covering, Covered, Rested, Started, Others, Locked, Switching
<1>6. ASSUME NEW s \in Sessions, Enter(s) PROVE Backed'
  <2>1. ss[s].pc = "lock" /\ owner = None /\ UNCHANGED <<memory, receipts, origin, files, cert>>
    BY <1>6 DEF Enter, At, dreamFiles, certVars
  <2>2. CASE owner' = s /\ Goto(s, "stale") /\ UNCHANGED archive /\ memory = Target(s) /\ Receipt(s) \in receipts
    <3>1. Moved(s, "stale")
      BY <2>2, GotoMoves DEF Typed, Labels
    <3>2. SwapBacked(s)'
      BY <2>1, <2>2, <3>1 DEF SwapBacked, Moved, Target, Source, Receipt
    <3> QED
      BY <1>0, <2>1, <2>2, <3>1, <3>2, LockStep DEF Moved, Locked, Switching, OriginBacked
  <2>3. CASE /\ owner' = s /\ Goto(s, "receipt") /\ memory = Source(s)
             /\ archive' = IF ss[s].way = "on" THEN archive \union {memory} ELSE archive
    <3>1. Moved(s, "receipt")
      BY <2>3, GotoMoves DEF Typed, Labels
    <3>2. SwapBacked(s)'
      BY <2>1, <2>3, <3>1 DEF SwapBacked, Moved, Source
    <3> QED
      BY <1>0, <2>1, <2>3, <3>1, <3>2, LockStep DEF Moved, Locked, Switching, OriginBacked
  <2>4. CASE Rest(s) /\ UNCHANGED <<owner, archive>>
    <3>1. Rested(s)
      BY <2>4, RestRests DEF Typed
    <3>2. Aside
      BY <2>1, <2>4, <3>1 DEF Aside, Covering, Rested, Started, Others, Locked, Switching
    <3> QED
      BY <1>0, <3>2, AsideKeeps
  <2> QED
    BY <1>6, <2>2, <2>3, <2>4 DEF Enter
<1>7. ASSUME NEW s \in Sessions, WriteSwapReceipt(s) PROVE Backed'
  <2>1. /\ ss[s].pc = "receipt" /\ receipts' = receipts \union {Receipt(s)}
        /\ UNCHANGED <<memory, archive, origin, owner, files, cert>>
    BY <1>7 DEF WriteSwapReceipt, At, dreamFiles, certVars
  <2>2. Moved(s, "stale")
    BY <1>7, Control
  <2>3. owner = s
    BY <2>1 DEF Holder, Locked
  <2>4. BackedAt(s) /\ SwapBacked(s) /\ ss[s].pc \in Switching
    BY <2>1 DEF WorkBacked, Swapping, Switching, Locked
  <2>5. \A d \in Dreams : <<d, "on">> \in receipts' \ receipts => Ready(d) /\ d.base \in archive
    BY <2>1, <2>4 DEF Receipt, BackedAt, SwapBacked, Source
  <2>6. SwapBacked(s)'
    BY <2>1, <2>2, <2>4 DEF SwapBacked, Moved, Source, Target, Receipt
  <2>7. origin' # None => <<origin', "on">> \in receipts'
    BY <2>1 DEF OriginBacked
  <2> QED
    BY <1>0, <2>1, <2>2, <2>3, <2>5, <2>6, <2>7, LockStep DEF Moved, Locked, Switching
<1>8. ASSUME NEW s \in Sessions, Invalidate(s) PROVE Backed'
  <2>1. ss[s].pc = "stale" /\ UNCHANGED <<memory, archive, receipts, origin, files>>
    BY <1>8 DEF Invalidate, At, dreamFiles, swapFiles
  <2>2. owner = s /\ SwapBacked(s)
    BY <2>1 DEF Holder, Swapping, Locked
  <2>3. CASE Rested(s) /\ owner' = None
    BY <1>0, <2>1, <2>2, <2>3, LockStep, DreamAssumption
       DEF Rested, Started, Locked, Switching, SwapBacked, OriginBacked
  <2>4. CASE Moved(s, "finish") /\ owner' = None
    BY <1>0, <2>1, <2>2, <2>4, LockStep, DreamAssumption
       DEF Moved, Locked, Switching, SwapBacked, OriginBacked
  <2>5. CASE Moved(s, "swap") /\ UNCHANGED owner /\ memory # Target(s) /\ cert' = Lapsed(Target(s))
    <3>1. Covered(Target(s))'
      <4>1. UNCHANGED Target(s)
        BY <2>1, <2>5 DEF Target, Moved
      <4>2. cert' = None \/ cert'.stale \/ cert'.late \/ cert'.for = Target(s)
        BY <2>5, LapsedCovers DEF Covered
      <4> QED
        BY <4>1, <4>2 DEF Covered
    <3>2. SwapBacked(s)'
      BY <2>1, <2>2, <2>5, <3>1 DEF SwapBacked, Moved, Source, Target, Receipt
    <3> QED
      BY <1>0, <2>1, <2>2, <2>5, <3>2, LockStep DEF Moved, Locked, Switching, OriginBacked
  <2>6. \/ Rest(s) /\ owner' = None
        \/ Goto(s, "finish") /\ owner' = None
        \/ Goto(s, "swap") /\ UNCHANGED owner /\ memory # Target(s) /\ cert' = Lapsed(Target(s))
    BY <1>8 DEF Invalidate
  <2> QED
    BY <2>3, <2>4, <2>5, <2>6, RestRests, GotoMoves DEF Typed, Labels
<1>9. ASSUME NEW s \in Sessions, Swap(s) PROVE Backed'
  <2>1. /\ ss[s].pc = "swap" /\ owner' = None /\ UNCHANGED <<archive, receipts>>
        /\ origin' = IF ss[s].way = "on" THEN ss[s].dream ELSE None
    BY <1>9 DEF Swap, At
  <2>2. Moved(s, "finish")
    BY <1>9, Control
  <2>3. owner = s /\ SwapBacked(s)
    BY <2>1 DEF Holder, Swapping, Locked
  <2>4. origin' # None => <<origin', "on">> \in receipts'
    BY <2>1, <2>3 DEF SwapBacked, Receipt
  <2> QED
    BY <1>0, <2>1, <2>2, <2>3, <2>4, LockStep, DreamAssumption
       DEF Moved, Locked, Switching, SwapBacked
<1>10. ASSUME NEW s \in Sessions, Die(s) PROVE Backed'
  <2>1. /\ UNCHANGED <<memory, archive, receipts, origin, files, cert>>
        /\ owner' = IF owner = s THEN None ELSE owner
    BY <1>10 DEF Die, dreamFiles, swapFiles, certVars
  <2>2. Started(s, "off", None, "on")
    BY <1>10, Control
  <2>3. CASE owner = s
    BY <1>0, <2>1, <2>2, <2>3, LockStep, DreamAssumption
       DEF Started, Locked, Switching, SwapBacked, OriginBacked
  <2>4. CASE owner # s
    <3>1. ss[s].pc \notin Locked
      BY <2>4 DEF Holder
    <3>2. Aside
      BY <2>1, <2>2, <2>4, <3>1 DEF Aside, Covering, Covered, Started, Others, Locked, Switching
    <3> QED
      BY <1>0, <3>2, AsideKeeps
  <2> QED
    BY <2>3, <2>4
<1>11. ASSUME NEW f \in Lessons, Learn(f) PROVE Backed'
  <2>1. owner = None /\ UNCHANGED <<archive, receipts, origin, owner, files, approval, cert, ss>>
    BY <1>11 DEF Learn, dreamFiles, certVars
  <2>2. \A t \in Sessions : ss[t].pc \notin Locked
    BY <2>1, DreamAssumption DEF Holder
  <2>3. Swapping'
    BY <2>1, <2>2 DEF Swapping, SwapBacked, Locked
  <2> QED
    BY <2>1, <2>3 DEF Holder, ReceiptsBacked, WorkBacked, BackedAt, OriginBacked, Ready, Complete
<1>12. CASE Reflect \/ CertifyBegins \/ Certify \/ UNCHANGED vars
  <2>1. UNCHANGED <<Outside, ss>>
    BY <1>12 DEF Reflect, CertifyBegins, Certify, vars, swapFiles
  <2>2. Covering
    <3>1. CASE UNCHANGED cert
      BY <3>1 DEF Covering, Covered
    <3>2. CASE Certify
      <4>1. cert' = [for |-> Head(exam), stale |-> FALSE, late |-> owner # None]
        BY <3>2 DEF Certify, MakeLatest, Credential
      <4>2. owner # None => cert'.late
        BY <4>1
      <4> QED
        BY <4>2 DEF Covering, Covered
    <3> QED
      BY <1>12, <3>1, <3>2 DEF Reflect, CertifyBegins, vars, certVars
  <2> QED
    BY <1>0, <2>1, <2>2, AsideKeeps DEF Aside
<1> QED
  <2>1. Aside => Backed'
    BY <1>0, AsideKeeps
  <2> QED
    BY <2>1, <1>1, <1>2, <1>3, <1>4, <1>5, <1>6, <1>7, <1>8, <1>9, <1>10, <1>11, <1>12
       DEF Next, Client, Handler, Generation

(* So it holds always. *)
LEMMA BackedAlways == Spec => []Backed
<1>1. Init => Backed
  BY DreamAssumption
     DEF Init, Backed, Holder, ReceiptsBacked, WorkBacked, BackedAt, Swapping, SwapBacked,
         OriginBacked, Asleep, Switching, Locked
<1>2. Typed /\ Typed' /\ Backed /\ [Next]_vars => Backed'
  BY BackedStep
<1> QED
  BY <1>1, <1>2, TypeCorrect, PTL DEF Spec

(* Memory only ever becomes that of a Dream that was approved and passed, with its
   predecessor archived and a receipt written (activateDreamCandidate). *)
THEOREM ApprovedOnly == Spec => []ActiveIsApproved
<1>1. Typed /\ Backed => ActiveIsApproved
  BY DEF Typed, TypeOK, Backed, OriginBacked, ReceiptsBacked, Ready, ActiveIsApproved
<1> QED
  BY <1>1, TypeCorrect, BackedAlways, PTL

(* No lesson is overwritten: memory grows by a fact or is exchanged for exactly
   what it was taken for (the hash check under the lock). *)
THEOREM NothingIsLost == Spec => NothingLost
<1>1. Typed /\ Backed /\ [Next]_vars =>
        [\/ \E f \in Lessons : memory' = memory \union {f}
         \/ \E d \in Dreams : /\ Complete(d)
                              /\ {memory, memory'} = {d.base, files[d].cand}]_memory
  <2> SUFFICES ASSUME Typed, Backed, Next, memory' # memory
               PROVE  \/ \E f \in Lessons : memory' = memory \union {f}
                      \/ \E d \in Dreams : /\ Complete(d)
                                           /\ {memory, memory'} = {d.base, files[d].cand}
    BY DEF vars, swapFiles
  <2>1. ASSUME NEW f \in Lessons, Learn(f) PROVE memory' = memory \union {f}
    BY <2>1 DEF Learn
  <2>2. ASSUME NEW s \in Sessions, Swap(s)
        PROVE  \E d \in Dreams : /\ Complete(d)
                                /\ {memory, memory'} = {d.base, files[d].cand}
    <3>1. ss[s].pc = "swap" /\ memory' = Target(s)
      BY <2>2 DEF Swap, At
    <3>2. memory = Source(s) /\ Complete(ss[s].dream)
      BY <3>1 DEF Backed, Swapping, SwapBacked, WorkBacked, BackedAt, Ready, Switching, Locked
    <3>3. ss[s].dream \in Dreams
      BY <2>2, SwapTarget
    <3> QED
      BY <3>1, <3>2, <3>3 DEF Source, Target
  <2>3. (\E f \in Lessons : Learn(f)) \/ (\E s \in Sessions : Swap(s))
    <3>1. \A s \in Sessions : ~Generation(s)
      BY GenerationApart DEF Outside
    <3>2. \A s \in Sessions :
            /\ ~Check(s) /\ ~Mark(s) /\ ~Enter(s) /\ ~WriteSwapReceipt(s) /\ ~Invalidate(s)
            /\ ~Finish(s) /\ ~Die(s) /\ \A d \in Dreams : ~Rollback(s, d)
      BY DEF Check, Rollback, Mark, Enter, WriteSwapReceipt, Invalidate, Finish, Die, swapFiles
    <3>3. ~Reflect /\ ~CertifyBegins /\ ~Certify
      BY DEF Reflect, CertifyBegins, Certify, swapFiles
    <3> QED
      BY <3>1, <3>2, <3>3 DEF Next, Client, Handler, Generation
  <2> QED
    BY <2>1, <2>2, <2>3
<1> QED
  BY <1>1, TypeCorrect, BackedAlways, PTL DEF Spec, NothingLost

(* The certificate lapses before memory is switched, and only for a memory that is
   not the one it was given for (invalidateCertificationForMemoryChange). *)
THEOREM CertificateIsCurrent == Spec => CertificateFollowsMemory
<1> DEFINE
      Lapse == cert # None /\ cert' # cert /\ cert'.stale =>
                 (cert.for # memory \/ \E s \in Sessions : owner = s /\ Target(s) # cert.for)
      Change == origin' # origin /\ cert # None => cert.stale \/ cert.late \/ cert.for = memory'
<1>1. Typed /\ Backed /\ [Next]_vars => [Change /\ Lapse]_vars
  <2> SUFFICES ASSUME Typed, Backed, Next PROVE Change /\ Lapse
    BY DEF vars
  <2>1. CASE UNCHANGED <<origin, cert>>
    BY <2>1
  <2>2. ASSUME NEW s \in Sessions, Swap(s) PROVE Change /\ Lapse
    <3>1. ss[s].pc = "swap" /\ memory' = Target(s) /\ UNCHANGED cert
      BY <2>2 DEF Swap, At, certVars
    <3>2. Covered(Target(s))
      BY <3>1 DEF Backed, Swapping, SwapBacked
    <3> QED
      BY <3>1, <3>2 DEF Covered
  <2>3. ASSUME NEW target, cert' = Lapsed(target), UNCHANGED origin,
               target = memory \/ \E s \in Sessions : owner = s /\ Target(s) = target
        PROVE  Change /\ Lapse
    BY <2>3 DEF Lapsed
  <2>4. ASSUME NEW s \in Sessions, Check(s) \/ \E d \in Dreams : Rollback(s, d) PROVE Change /\ Lapse
    <3>1. UNCHANGED origin /\ (UNCHANGED cert \/ cert' = Lapsed(memory))
      BY <2>4 DEF Check, Rollback, swapFiles
    <3> QED
      BY <2>3, <3>1
  <2>5. ASSUME NEW s \in Sessions, Invalidate(s) PROVE Change /\ Lapse
    <3>1. UNCHANGED origin /\ (UNCHANGED cert \/ cert' = Lapsed(Target(s))) /\ ss[s].pc = "stale"
      BY <2>5 DEF Invalidate, At, swapFiles
    <3>2. owner = s
      BY <3>1 DEF Backed, Holder, Locked
    <3> QED
      BY <2>3, <3>1, <3>2
  <2>6. ASSUME Certify PROVE Change /\ Lapse
    BY <2>6 DEF Certify, MakeLatest, Credential, swapFiles
  <2>7. \/ UNCHANGED <<origin, cert>>
        \/ \E s \in Sessions : Swap(s) \/ Check(s) \/ (\E d \in Dreams : Rollback(s, d)) \/ Invalidate(s)
        \/ Certify
    <3>1. \A s \in Sessions : Generation(s) => UNCHANGED <<origin, cert>>
      BY GenerationApart DEF Outside
    <3>2. \A s \in Sessions :
            Mark(s) \/ Enter(s) \/ WriteSwapReceipt(s) \/ Finish(s) \/ Die(s) => UNCHANGED <<origin, cert>>
      BY DEF Mark, Enter, WriteSwapReceipt, Finish, Die, swapFiles, certVars
    <3>3. (\E f \in Lessons : Learn(f)) \/ Reflect \/ CertifyBegins => UNCHANGED <<origin, cert>>
      BY DEF Learn, Reflect, CertifyBegins, swapFiles, certVars
    <3> QED
      BY <3>1, <3>2, <3>3 DEF Next, Client, Handler, Generation
  <2> QED
    BY <2>1, <2>2, <2>4, <2>5, <2>6, <2>7
<1> QED
  BY <1>1, TypeCorrect, BackedAlways, PTL DEF Spec, CertificateFollowsMemory

-----------------------------------------------------------------------------
(* Who is awake was started. *)
Awake == \A s \in Sessions : ss[s].pc # "off" => s \in left.sessions

(* One workbench at a time. *)
Solo == \E s \in Sessions : left.sessions = {s}

(* What the job of a session's Dream says while it is at work. *)
MarkedAt(s) ==
  /\ ss[s].pc \in Generating => job[ss[s].dream] \notin Revocable
  /\ ss[s].pc \in Switching \ {"mark"} =>
       job[ss[s].dream] = IF ss[s].way = "on" THEN "ACTIVATING" ELSE "ROLLING_BACK"
  /\ ss[s].pc = "rejected" => approval[ss[s].dream] = "reject"

Marked == Solo => \A s \in Sessions : MarkedAt(s)

(* Which workbenches may be started never changes. *)
LEMMA SessionsStay ==
  ASSUME Typed, [Next]_vars PROVE left'.sessions = left.sessions
<1>1. UNCHANGED left \/ \E kind \in {"runs", "deaths", "faults", "learns", "reflects", "certs"} : Spent(kind)
  <2>1. ASSUME NEW s \in Sessions, Generation(s) PROVE UNCHANGED left \/ Spent("runs")
    <3>1. ASSUME Boot(s) \/ Recommend(s) \/ Run(s) \/ (\E d \in Dreams : Approve(s, d) \/ Reject(s, d))
          PROVE  UNCHANGED left \/ Spent("runs")
      BY <3>1 DEF Boot, Recommend, Run, Approve, Reject
    <3>2. ASSUME Dreaming(s) \/ Curate(s) \/ Evaluate(s) \/ WriteCandidate(s) \/ WriteReports(s)
          PROVE  UNCHANGED left
      BY <3>2 DEF Dreaming, Curate, Evaluate, WriteCandidate, WriteReports
    <3>3. ASSUME Review(s) \/ Fail(s) \/ WriteApproval(s) \/ WriteRejection(s) \/ Rejected(s)
          PROVE  UNCHANGED left
      BY <3>3 DEF Review, Fail, WriteApproval, WriteRejection, Rejected
    <3> QED
      BY <2>1, <3>1, <3>2, <3>3 DEF Generation
  <2>2. ASSUME NEW s \in Sessions,
               \/ Check(s) \/ Mark(s) \/ Enter(s) \/ WriteSwapReceipt(s) \/ Swap(s) \/ Finish(s)
               \/ \E d \in Dreams : Rollback(s, d)
        PROVE  UNCHANGED left
    BY <2>2 DEF Check, Mark, Enter, WriteSwapReceipt, Swap, Finish, Rollback
  <2>3. ASSUME NEW s \in Sessions, Invalidate(s) \/ Die(s)
        PROVE  UNCHANGED left \/ Spent("faults") \/ Spent("deaths")
    BY <2>3 DEF Invalidate, Die
  <2>4. ASSUME \/ (\E f \in Lessons : Learn(f)) \/ Reflect \/ CertifyBegins \/ Certify
               \/ UNCHANGED vars
        PROVE  UNCHANGED left \/ Spent("learns") \/ Spent("reflects") \/ Spent("certs")
    BY <2>4 DEF Learn, Reflect, CertifyBegins, Certify, vars
  <2> QED
    BY <2>1, <2>2, <2>3, <2>4 DEF Next, Client, Handler, Generation
<1> QED
  BY <1>1, SpentTypes DEF Typed

(* Whoever acts was started, and acts alone. *)
LEMMA OneActs ==
  ASSUME Typed, Awake, NEW s \in Sessions,
         \/ Generation(s) \/ Check(s) \/ Mark(s) \/ Enter(s) \/ WriteSwapReceipt(s) \/ Invalidate(s)
         \/ Swap(s) \/ Finish(s) \/ Die(s) \/ \E d \in Dreams : Rollback(s, d)
  PROVE  s \in left.sessions /\ Others(s)
<1>1. s \in left.sessions
  <2>1. ASSUME Boot(s) \/ Recommend(s) \/ Run(s) \/ (\E d \in Dreams : Approve(s, d) \/ Reject(s, d))
        PROVE  ss[s].pc # "off" \/ s \in left.sessions
    BY <2>1 DEF Boot, Recommend, Run, Approve, Reject, At
  <2>2. ASSUME Dreaming(s) \/ Curate(s) \/ Evaluate(s) \/ WriteCandidate(s) \/ WriteReports(s)
        PROVE  ss[s].pc # "off"
    BY <2>2 DEF Dreaming, Curate, Evaluate, WriteCandidate, WriteReports, At
  <2>3. ASSUME Review(s) \/ Fail(s) \/ WriteApproval(s) \/ WriteRejection(s) \/ Rejected(s)
        PROVE  ss[s].pc # "off"
    BY <2>3 DEF Review, Fail, WriteApproval, WriteRejection, Rejected, At
  <2>4. ASSUME \/ Check(s) \/ Mark(s) \/ Enter(s) \/ WriteSwapReceipt(s) \/ Invalidate(s)
               \/ Swap(s) \/ Finish(s) \/ Die(s) \/ \E d \in Dreams : Rollback(s, d)
        PROVE  ss[s].pc # "off"
    BY <2>4 DEF Check, Mark, Enter, WriteSwapReceipt, Invalidate, Swap, Finish, Die, Rollback, At
  <2> QED
    BY <2>1, <2>2, <2>3, <2>4 DEF Awake, Generation
<1>2. Others(s)
  <2>1. CASE Recommend(s)
    BY <2>1 DEF Recommend, Others
  <2>2. CASE WriteCandidate(s) \/ WriteReports(s)
    BY <2>2, CandidateWrite, ReportWrite DEF Moved
  <2>3. CASE UNCHANGED ss
    BY <2>3 DEF Others
  <2>4. CASE ~Recommend(s) /\ ~WriteCandidate(s) /\ ~WriteReports(s) /\ ~UNCHANGED ss
    BY <2>4, Control DEF Generation, Moved, Started, Rested
  <2> QED
    BY <2>1, <2>2, <2>3, <2>4
<1> QED
  BY <1>1, <1>2

(* Each step keeps what the jobs say. *)
LEMMA MarkedStep ==
  ASSUME Typed, Typed', Awake, Marked, [Next]_vars PROVE Awake' /\ Marked'
<1>0. UNCHANGED left.sessions
  BY SessionsStay
<1>1. ASSUME NEW s \in Sessions, s \in left.sessions, Others(s), Solo => MarkedAt(s)'
      PROVE  Awake' /\ Marked'
  <2>1. Awake'
    BY <1>0, <1>1 DEF Awake, Others
  <2>2. ASSUME Solo, NEW t \in Sessions \ {s} PROVE MarkedAt(t)'
    <3>1. ss'[t].pc = "off"
      BY <1>1, <2>2 DEF Awake, Solo, Others
    <3> QED
      BY <3>1 DEF MarkedAt, Generating, Switching, Locked
  <2> QED
    BY <1>0, <1>1, <2>1, <2>2 DEF Marked, Solo
<1> DEFINE Settled(s) ==
      ss'[s].pc \notin Generating /\ ss'[s].pc \notin Switching \ {"mark"} /\ ss'[s].pc # "rejected"
<1>2. ASSUME NEW s \in Sessions, Settled(s) PROVE MarkedAt(s)'
  BY <1>2 DEF MarkedAt
<1>3. ASSUME NEW s \in Sessions, Generation(s) PROVE Awake' /\ Marked'
  <2>1. s \in left.sessions /\ Others(s)
    BY <1>3, OneActs
  <2>2. ss[s].pc \notin Idle => ss[s].dream \in Dreams
    BY DEF Typed, Named
  <2>3. ASSUME Recommend(s), Solo PROVE MarkedAt(s)'
    <3>1. \A e \in Dreams : job'[e] # job[e] => job[e] = "NONE" /\ job'[e] = "RECOMMENDED"
      BY <2>3, AssessedType, FileTypes DEF Recommend, Typed
    <3>2. UNCHANGED <<ss, approval>> /\ ss[s].pc = "idle"
      BY <2>3 DEF Recommend, At
    <3> QED
      BY <3>2, <1>2 DEF Generating, Switching, Locked
  <2>4. ASSUME \/ Boot(s) \/ Run(s) \/ (\E d \in Dreams : Approve(s, d) \/ Reject(s, d))
               \/ Review(s) \/ Fail(s) \/ WriteApproval(s) \/ Rejected(s)
        PROVE  Settled(s)
    BY <2>4, Control DEF Moved, Started, Rested, Generating, Switching, Locked
  <2>5. ASSUME Dreaming(s) PROVE MarkedAt(s)'
    <3>1. ss[s].dream \in Dreams /\ Set(s, "DREAMING")
      BY <2>5, <2>2 DEF Dreaming, At, Idle
    <3>2. job'[ss[s].dream] = "DREAMING"
      BY <3>1, SetTypes DEF Typed, JobStates
    <3>3. Moved(s, "curate") \/ Moved(s, "fail")
      BY <2>5, Control
    <3> QED
      BY <3>2, <3>3 DEF MarkedAt, Moved, Revocable, Switching, Locked
  <2>6. ASSUME Curate(s), MarkedAt(s) PROVE MarkedAt(s)'
    <3>1. ss[s].dream \in Dreams /\ ss[s].pc = "curate"
      BY <2>6, <2>2 DEF Curate, At, Idle
    <3>2. job'[ss[s].dream] = "VALIDATING" \/ UNCHANGED job
      BY <2>6, <3>1, SetTypes DEF Curate, Typed, JobStates
    <3>3. Started(s, "evaluate", ss[s].dream, ss[s].way) \/ Moved(s, "fail")
      BY <2>6, Control
    <3> QED
      BY <2>6, <3>1, <3>2, <3>3
         DEF MarkedAt, Moved, Started, Revocable, Generating, Switching, Locked
  <2>7. ASSUME Evaluate(s) \/ WriteCandidate(s) \/ WriteReports(s), MarkedAt(s) PROVE MarkedAt(s)'
    <3>1. ss[s].pc \in Generating /\ UNCHANGED job
      BY <2>7 DEF Evaluate, WriteCandidate, WriteReports, At, dreamFiles, Generating
    <3>2. ss'[s].pc \in Generating /\ ss'[s].dream = ss[s].dream
      BY <2>7, Control, CandidateWrite, ReportWrite DEF Moved, Started, Generating
    <3> QED
      BY <2>7, <3>1, <3>2 DEF MarkedAt, Generating, Switching, Locked
  <2>8. ASSUME WriteRejection(s) PROVE MarkedAt(s)'
    <3>1. ss[s].dream \in Dreams
      BY <2>8, <2>2 DEF WriteRejection, At, Idle
    <3>2. CASE Rest(s)
      BY <1>2, <3>2, RestRests DEF Typed, Rested, Started, Generating, Switching, Locked
    <3>3. CASE Goto(s, "rejected") /\ approval' = [approval EXCEPT ![ss[s].dream] = "reject"]
      BY <3>1, <3>3, GotoMoves
         DEF Typed, TypeOK, Labels, Moved, MarkedAt, Generating, Switching, Locked
    <3> QED
      BY <2>8, <3>2, <3>3 DEF WriteRejection, WriteReceipt
  <2>9. Solo => MarkedAt(s)
    BY DEF Marked
  <2> QED
    BY <1>1, <1>2, <1>3, <2>1, <2>3, <2>4, <2>5, <2>6, <2>7, <2>8, <2>9 DEF Generation
<1>4. ASSUME NEW s \in Sessions,
             \/ Check(s) \/ Finish(s) \/ Die(s) \/ \E d \in Dreams : Rollback(s, d)
      PROVE  Awake' /\ Marked'
  <2>1. s \in left.sessions /\ Others(s)
    BY <1>4, OneActs
  <2>2. Settled(s)
    <3>1. CASE UNCHANGED ss
      <4>1. ss[s].pc \in {"check", "finish", "idle"} \/ Die(s)
        BY <1>4 DEF Check, Finish, Rollback, At
      <4>2. ~Die(s) /\ ~Finish(s) /\ ~Check(s)
        BY <3>1, Control DEF Check, Finish, Die, At, Moved, Rested, Started
      <4>3. ss[s].pc = "idle"
        BY <1>4, <4>2 DEF Rollback, At
      <4> QED
        BY <3>1, <4>3 DEF Generating, Switching, Locked
    <3>2. CASE ~UNCHANGED ss
      BY <1>4, <3>2, Control DEF Moved, Started, Rested, Generating, Switching, Locked
    <3> QED
      BY <3>1, <3>2
  <2> QED
    BY <1>1, <1>2, <2>1, <2>2
<1>5. ASSUME NEW s \in Sessions, Mark(s) PROVE Awake' /\ Marked'
  <2>1. ss[s].dream \in Dreams /\ Set(s, IF ss[s].way = "on" THEN "ACTIVATING" ELSE "ROLLING_BACK")
    BY <1>5 DEF Typed, Named, Mark, At, Idle
  <2>2. job'[ss[s].dream] = IF ss[s].way = "on" THEN "ACTIVATING" ELSE "ROLLING_BACK"
    BY <2>1, SetTypes DEF Typed, JobStates
  <2>3. MarkedAt(s)'
    BY <1>5, <2>2, Control DEF Moved, MarkedAt, Generating
  <2> QED
    BY <1>1, <1>5, <2>3, OneActs
<1>6. ASSUME NEW s \in Sessions, Enter(s) \/ WriteSwapReceipt(s) \/ Invalidate(s) \/ Swap(s)
      PROVE  Awake' /\ Marked'
  <2>1. ss[s].pc \in Switching \ {"mark"} /\ UNCHANGED job
    BY <1>6 DEF Enter, WriteSwapReceipt, Invalidate, Swap, At, dreamFiles, Switching, Locked
  <2>2. ss'[s].pc = "idle" \/ (ss'[s].pc \in Switching \ {"mark"} /\ ss'[s].dream = ss[s].dream /\ ss'[s].way = ss[s].way)
    BY <1>6, Control DEF Moved, Rested, Started, Switching, Locked
  <2>3. Solo => MarkedAt(s)'
    BY <2>1, <2>2 DEF Marked, MarkedAt, Generating, Switching, Locked
  <2> QED
    BY <1>1, <1>6, <2>3, OneActs
<1>7. CASE (\E f \in Lessons : Learn(f)) \/ Reflect \/ CertifyBegins \/ Certify \/ UNCHANGED vars
  <2>1. UNCHANGED <<ss, job, approval>>
    BY <1>7 DEF Learn, Reflect, CertifyBegins, Certify, vars, dreamFiles
  <2> QED
    BY <1>0, <2>1 DEF Awake, Marked, MarkedAt, Solo
<1> QED
  BY <1>3, <1>4, <1>5, <1>6, <1>7 DEF Next, Client, Handler, Generation

(* So it holds always. *)
LEMMA MarkedAlways == Spec => [](Awake /\ Marked)
<1>1. Init => Awake /\ Marked
  BY DEF Init, Awake, Marked, MarkedAt, Asleep, Generating, Switching, Locked
<1>2. Typed /\ Typed' /\ Awake /\ Marked /\ [Next]_vars => (Awake /\ Marked)'
  BY MarkedStep
<1> QED
  BY <1>1, <1>2, TypeCorrect, PTL DEF Spec

(* One workbench alone never takes the job of the Dream in memory out of reach of
   rollback, but at the end of a rollback or by running the very same Dream again. *)
THEOREM RollbackPossible == Spec => RollbackStaysPossible
<1> DEFINE
      Excused == \E s \in Sessions :
                   /\ ss[s].dream = origin
                   /\ (At(s, "dreaming") \/ (At(s, "finish") /\ ss[s].way = "back"))
      Kept == (\E s \in Sessions : left.sessions = {s}) /\ origin' # None /\ job'[origin'] \notin Revocable
                => origin' = origin /\ (job[origin] \notin Revocable \/ Excused)
<1>1. Typed /\ Backed /\ Awake /\ Marked /\ [Next]_vars => [Kept]_vars
  <2> SUFFICES ASSUME Typed, Backed, Awake, Marked, Next, Solo,
                      origin' # None, job'[origin'] \notin Revocable
               PROVE  origin' = origin /\ (job[origin] \notin Revocable \/ Excused)
    BY DEF vars, Solo
  <2>1. \A s \in Sessions : MarkedAt(s)
    BY DEF Marked
  <2>2. ASSUME NEW s \in Sessions, Swap(s) PROVE FALSE
    <3>1. ss[s].pc = "swap" /\ UNCHANGED job /\ origin' = IF ss[s].way = "on" THEN ss[s].dream ELSE None
      BY <2>2 DEF Swap, At, dreamFiles
    <3>2. job[ss[s].dream] = IF ss[s].way = "on" THEN "ACTIVATING" ELSE "ROLLING_BACK"
      BY <2>1, <3>1 DEF MarkedAt, Switching, Locked
    <3> QED
      BY <3>1, <3>2 DEF Revocable
  <2>3. UNCHANGED origin
    <3>1. ASSUME NEW s \in Sessions, Generation(s) PROVE UNCHANGED origin
      BY <3>1, GenerationApart DEF Outside
    <3>2. ASSUME NEW s \in Sessions,
                 \/ Check(s) \/ Mark(s) \/ Enter(s) \/ WriteSwapReceipt(s) \/ Invalidate(s) \/ Finish(s)
                 \/ Die(s) \/ \E d \in Dreams : Rollback(s, d)
          PROVE  UNCHANGED origin
      BY <3>2
         DEF Check, Rollback, Mark, Enter, WriteSwapReceipt, Invalidate, Finish, Die, swapFiles
    <3>3. (\E f \in Lessons : Learn(f)) \/ Reflect \/ CertifyBegins \/ Certify => UNCHANGED origin
      BY DEF Learn, Reflect, CertifyBegins, Certify, swapFiles
    <3> QED
      BY <2>2, <3>1, <3>2, <3>3 DEF Next, Client, Handler, Generation
  <2>4. origin \in Dreams
    BY <2>3 DEF Typed, TypeOK
  <2>5. CASE job'[origin] = job[origin]
    BY <2>3, <2>5
  <2>6. ASSUME NEW d \in Dreams, File(d) PROVE job[origin] \notin Revocable
    BY <2>3, <2>4, <2>6, FileTypes DEF Typed, Revocable
  <2>7. ASSUME NEW s \in Sessions, NEW state \in JobStates, Set(s, state), ss[s].pc \notin Idle
        PROVE  job'[origin] = job[origin] \/ (ss[s].dream = origin /\ state \notin Revocable)
    BY <2>3, <2>4, <2>7, SetTypes DEF Typed, Named
  <2>8. ASSUME NEW s \in Sessions, Dreaming(s) \/ Finish(s)
        PROVE  job[origin] \notin Revocable \/ Excused
    <3>1. CASE Dreaming(s)
      <4>1. Set(s, "DREAMING") /\ At(s, "dreaming")
        BY <3>1 DEF Dreaming
      <4> QED
        BY <2>3, <2>7, <4>1 DEF At, Idle, JobStates
    <3>2. CASE Finish(s)
      <4>1. Set(s, IF ss[s].way = "on" THEN "ACTIVE" ELSE "ROLLED_BACK") /\ At(s, "finish")
        BY <3>2 DEF Finish
      <4>2. ss[s].way \in {"on", "back"}
        BY DEF Typed, TypeOK, Session
      <4> QED
        BY <2>3, <2>7, <4>1, <4>2 DEF At, Idle, JobStates, Revocable
    <3> QED
      BY <2>8, <3>1, <3>2
  <2>9. ASSUME NEW s \in Sessions, Curate(s) \/ Review(s) \/ Fail(s) PROVE job[origin] \notin Revocable
    <3>1. ss[s].pc \in Generating
      BY <2>9 DEF Curate, Review, Fail, At, Generating
    <3>2. UNCHANGED job \/ \E state \in JobStates : Set(s, state)
      BY <2>9 DEF Curate, Review, Fail, JobStates
    <3>3. job[ss[s].dream] \notin Revocable
      BY <2>1, <3>1 DEF MarkedAt
    <3> QED
      BY <2>3, <2>7, <3>1, <3>2, <3>3 DEF Generating, Idle
  <2>10. ASSUME NEW s \in Sessions, Rejected(s) PROVE job[origin] \notin Revocable
    <3>1. ss[s].pc = "rejected" /\ Set(s, "REJECTED")
      BY <2>10 DEF Rejected, At
    <3>2. approval[ss[s].dream] = "reject"
      BY <2>1, <3>1 DEF MarkedAt
    <3>3. approval[origin] = "approve"
      BY <2>3, <2>4 DEF Backed, OriginBacked, ReceiptsBacked, Ready
    <3> QED
      BY <2>3, <2>7, <3>1, <3>2, <3>3 DEF JobStates, Idle
  <2>11. ASSUME NEW s \in Sessions, Mark(s) PROVE job[origin] \notin Revocable
    BY <2>3, <2>7, <2>11 DEF Mark, At, Idle, JobStates, Revocable
  <2>12. ASSUME NEW s \in Sessions, Generation(s), ~Dreaming(s), ~Curate(s), ~Review(s), ~Fail(s), ~Rejected(s)
         PROVE  UNCHANGED job \/ \E d \in Dreams : File(d)
    <3>1. ASSUME Boot(s) \/ Recommend(s) \/ Run(s) \/ (\E d \in Dreams : Approve(s, d) \/ Reject(s, d))
          PROVE  UNCHANGED job \/ File(Assessed)
      BY <3>1 DEF Boot, Recommend, Run, Approve, Reject, dreamFiles
    <3>2. ASSUME Evaluate(s) \/ WriteCandidate(s) \/ WriteReports(s) \/ WriteApproval(s) \/ WriteRejection(s)
          PROVE  UNCHANGED job
      BY <3>2
         DEF Evaluate, WriteCandidate, WriteReports, WriteApproval, WriteRejection, dreamFiles
    <3> QED
      BY <2>12, <3>1, <3>2, AssessedType DEF Typed, Generation
  <2>13. ASSUME NEW s \in Sessions,
                \/ Check(s) \/ Enter(s) \/ WriteSwapReceipt(s) \/ Invalidate(s) \/ Die(s)
                \/ \E d \in Dreams : Rollback(s, d)
         PROVE  UNCHANGED job
    BY <2>13 DEF Check, Enter, WriteSwapReceipt, Invalidate, Die, Rollback, dreamFiles
  <2>14. (\E f \in Lessons : Learn(f)) \/ Reflect \/ CertifyBegins \/ Certify => UNCHANGED job
    BY DEF Learn, Reflect, CertifyBegins, Certify, dreamFiles
  <2>15. job[origin] \notin Revocable \/ Excused
    BY <2>2, <2>3, <2>5, <2>6, <2>8, <2>9, <2>10, <2>11, <2>12, <2>13, <2>14
       DEF Next, Client, Handler, Generation
  <2> QED
    BY <2>3, <2>15
<1> QED
  BY <1>1, TypeCorrect, BackedAlways, MarkedAlways, PTL DEF Spec, RollbackStaysPossible

=============================================================================
