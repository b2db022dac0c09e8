-------------------------- MODULE StateLock_proofs --------------------------
(***************************************************************************)
(* Mutual exclusion of withStateLock for any number of processes, deaths   *)
(* and failed writes, in every behaviour: it can be lost only after one of *)
(* the three windows was hit.  Nothing is assumed about how fast a process *)
(* runs, which inodes the file system gives, or who is suspended where.    *)
(***************************************************************************)
EXTENDS StateLock, TLAPS

(* Processes that created the lock file and may be inside. *)
Creators == {"record", "inside", "leave"}

NoCreator == \A p \in Processes : pc[p] \notin Creators

CreatorsOwnPath ==
  \A p \in Processes : pc[p] \in Creators => file = mine[p] /\ mine[p] \in Inodes

OneCreator ==
  \A p, q \in Processes : pc[p] \in Creators /\ pc[q] \in Creators => p = q

RecordedByInsider == \A p \in Processes : pc[p] \in {"inside", "leave"} => owner = p

UnrecordedIsYoung == \A p \in Processes : pc[p] = "record" => ~old /\ owner = None

(* A lock file whose record failed is nobody else's. *)
UndoneIsFree ==
  \A p \in Processes : pc[p] = "undo" /\ mine[p] = file /\ file # None => NoCreator

(* A process that looks into a lock it takes for stale knows it by its inode, *)
SuspectIsOld ==
  \A q \in Processes : pc[q] = "probe" /\ seen[q] = file /\ file # None => old

(* then by the inode, if there was no owner record, or by the dead owner. *)
SuspectIsFree ==
  \A q \in Processes :
    pc[q] = "verify" /\ token[q] = None /\ seen[q] = file /\ file # None => NoCreator

TokenIsDead ==
  \A q \in Processes : pc[q] = "verify" /\ token[q] # None => ~Alive(token[q])

(* What is about to be unlinked has no creator any more. *)
UnlinkedIsFree == Unlinking => NoCreator

Guarded ==
  /\ CreatorsOwnPath /\ OneCreator /\ RecordedByInsider /\ UnrecordedIsYoung
  /\ UndoneIsFree /\ SuspectIsOld /\ SuspectIsFree /\ TokenIsDead /\ UnlinkedIsFree

Inv == TypeOK /\ (windows = {} => Guarded)

-----------------------------------------------------------------------------
(* Every variable keeps its shape. *)
LEMMA Typing == Inv /\ [Next]_vars => TypeOK'
<1> SUFFICES ASSUME TypeOK, [Next]_vars PROVE TypeOK'
  BY DEF Inv
<1>1. ASSUME NEW p \in Processes, Begin(p) PROVE TypeOK'
  BY <1>1, StateLockAssumption DEF Begin, Goto, disk, locals, env, TypeOK, Labels
<1>2. ASSUME NEW p \in Processes, Open(p) PROVE TypeOK'
  <2>1. PICK n \in Inodes : /\ file' = n /\ mine' = [mine EXCEPT ![p] = n]
                           /\ windows' = windows \union HitByCreate(n)
    BY <1>2 DEF Open
  <2>2. windows' \subseteq {"record", "inode", "unlink"}
    BY <2>1 DEF HitByCreate, TypeOK
  <2>3. mine' \in [Processes -> Inodes \union {None}] /\ file' \in Inodes
    BY <2>1 DEF TypeOK
  <2>4. pc' \in [Processes -> Labels]
    BY <1>2 DEF Open, Goto, TypeOK, Labels
  <2> QED
    BY <1>2, <2>2, <2>3, <2>4 DEF Open, env, TypeOK
<1>3. ASSUME NEW p \in Processes, Contended(p) PROVE TypeOK'
  BY <1>3, StateLockAssumption DEF Contended, Goto, disk, locals, env, TypeOK, Labels
<1>4. ASSUME NEW p \in Processes, Record(p) PROVE TypeOK'
  BY <1>4, StateLockAssumption DEF Record, Goto, WriteRecord, disk, locals, env, TypeOK, Labels
<1>5. ASSUME NEW p \in Processes, RecordFails(p) PROVE TypeOK'
  <2>1. faults' \in 0 .. MaxFaults /\ crashes' \in 0 .. MaxCrashes
    BY <1>5, StateLockAssumption DEF RecordFails, TypeOK
  <2>2. pc' \in [Processes -> Labels]
    BY <1>5 DEF RecordFails, Goto, TypeOK, Labels
  <2>3. owner' \in Processes \union {None} /\ old' \in BOOLEAN
    BY <1>5 DEF RecordFails, WriteRecord, TypeOK
  <2> QED
    BY <1>5, <2>1, <2>2, <2>3 DEF RecordFails, locals, TypeOK
<1>6. ASSUME NEW p \in Processes, Stat(p) PROVE TypeOK'
  BY <1>6, StateLockAssumption DEF Stat, Goto, disk, locals, env, TypeOK, Labels
<1>7. ASSUME NEW p \in Processes, Probe(p) PROVE TypeOK'
  BY <1>7, StateLockAssumption DEF Probe, Goto, disk, locals, env, TypeOK, Labels
<1>8. ASSUME NEW p \in Processes, Wait(p) PROVE TypeOK'
  BY <1>8, StateLockAssumption DEF Wait, Goto, disk, locals, env, TypeOK, Labels
<1>9. ASSUME NEW p \in Processes, Verify(p) PROVE TypeOK'
  BY <1>9, StateLockAssumption DEF Verify, Goto, disk, locals, env, TypeOK, Labels
<1>10. ASSUME NEW p \in Processes, Finish(p) PROVE TypeOK'
  BY <1>10, StateLockAssumption DEF Finish, Goto, disk, locals, env, TypeOK, Labels
<1>11. ASSUME NEW p \in Processes, Leave(p) PROVE TypeOK'
  BY <1>11, StateLockAssumption DEF Leave, Goto, disk, locals, env, TypeOK, Labels
<1>12. ASSUME NEW p \in Processes, LeaveFails(p) PROVE TypeOK'
  BY <1>12, StateLockAssumption DEF LeaveFails, Goto, disk, locals, env, TypeOK, Labels
<1>13. ASSUME NEW p \in Processes, Undo(p) PROVE TypeOK'
  BY <1>13, StateLockAssumption DEF Undo, Goto, disk, locals, env, TypeOK, Labels
<1>14. ASSUME NEW p \in Processes, Reap(p) PROVE TypeOK'
  BY <1>14, StateLockAssumption DEF Reap, Goto, Unlink, disk, locals, env, TypeOK, Labels
<1>15. ASSUME NEW p \in Processes, Drop(p) PROVE TypeOK'
  BY <1>15, StateLockAssumption DEF Drop, Goto, Unlink, disk, locals, env, TypeOK, Labels
<1>16. ASSUME NEW p \in Processes, Crash(p) PROVE TypeOK'
  BY <1>16, StateLockAssumption DEF Crash, Goto, disk, locals, env, TypeOK, Labels
<1>17. CASE Age
  <2>1. windows' \subseteq {"record", "inode", "unlink"}
    BY <1>17 DEF Age, TypeOK
  <2> QED
    BY <1>17, <2>1 DEF Age, locals, env, TypeOK
<1>18. CASE UNCHANGED vars
  BY <1>18 DEF vars, disk, locals, env, TypeOK
<1> QED
  BY <1>1, <1>2, <1>3, <1>4, <1>5, <1>6, <1>7, <1>8, <1>9, <1>10, <1>11, <1>12, <1>13, <1>14, <1>15, <1>16, <1>17, <1>18
     DEF Next, Run

(* What was hit stays on record. *)
LEMMA WindowsGrow == Inv /\ [Next]_vars => windows \subseteq windows'
<1> SUFFICES ASSUME [Next]_vars PROVE windows \subseteq windows'
  OBVIOUS
<1>1. ASSUME NEW p \in Processes, Open(p) PROVE windows \subseteq windows'
  BY <1>1 DEF Open
<1>2. CASE Age
  BY <1>2 DEF Age
<1>3. ASSUME NEW p \in Processes, Begin(p) \/ Crash(p) \/ (Run(p) /\ ~Open(p))
      PROVE  windows' = windows
  BY <1>3 DEF Begin, Crash, Run, Contended, Record, RecordFails, Stat, Probe, Wait, Verify,
              Finish, Leave, LeaveFails, Undo, Reap, Drop, Unlink
<1> QED
  BY <1>1, <1>2, <1>3 DEF Next, Run, vars

(* What Verify finds stale has no creator. *)
LEMMA StaleHasNoCreator ==
  ASSUME Inv, Guarded, NEW q \in Processes, pc[q] = "verify", Stale(q)
  PROVE  NoCreator
<1>1. CASE token[q] = None
  BY <1>1 DEF Guarded, SuspectIsFree, Stale
<1>2. CASE token[q] # None
  <2>1. owner = token[q] /\ ~Alive(owner)
    BY <1>2 DEF Guarded, TokenIsDead, Stale
  <2>2. \A p \in Processes : pc[p] \notin {"inside", "leave"}
    BY <2>1 DEF Guarded, RecordedByInsider, Alive
  <2>3. \A p \in Processes : pc[p] # "record"
    BY <2>1, <1>2 DEF Guarded, UnrecordedIsYoung
  <2> QED
    BY <2>2, <2>3 DEF NoCreator, Creators
<1> QED
  BY <1>1, <1>2

-----------------------------------------------------------------------------
(* As long as no window is hit, every step keeps the lock guarded. *)
LEMMA GuardKept ==
  ASSUME Inv, [Next]_vars, windows' = {}
  PROVE  Guarded'
<1> USE StateLockAssumption
<1>0. windows = {} /\ Guarded /\ TypeOK
  BY WindowsGrow DEF Inv
<1>1. ASSUME NEW p \in Processes, Begin(p) PROVE Guarded'
  BY <1>0, <1>1
     DEF Begin, At, Goto, disk, locals, env, Guarded, Creators, NoCreator, Unlinking, Alive,
         TypeOK, CreatorsOwnPath, OneCreator, RecordedByInsider, UnrecordedIsYoung,
         UndoneIsFree, SuspectIsOld, SuspectIsFree, TokenIsDead, UnlinkedIsFree
<1>2. ASSUME NEW p \in Processes, Open(p) PROVE Guarded'
  <2>a. PICK n \in Inodes : file' = n /\ mine' = [mine EXCEPT ![p] = n] /\ n \notin Watched /\ ~Unlinking
    <3>1. PICK n \in Inodes \ Held : /\ file' = n /\ mine' = [mine EXCEPT ![p] = n]
                                    /\ windows' = windows \union HitByCreate(n)
      BY <1>2 DEF Open
    <3>2. HitByCreate(n) = {}
      BY <3>1
    <3> QED
      BY <3>1, <3>2 DEF HitByCreate
  <2>b. NoCreator
    BY <1>0, <1>2 DEF Open, Guarded, CreatorsOwnPath, NoCreator
  <2>1. CreatorsOwnPath'
    BY <1>0, <1>2, <2>a, <2>b
       DEF Open, At, Goto, disk, locals, env, Guarded, Creators, NoCreator, Unlinking,
           Watched, CreatorsOwnPath, OneCreator, TypeOK
  <2>2. OneCreator'
    BY <1>0, <1>2, <2>a, <2>b
       DEF Open, At, Goto, disk, locals, env, Guarded, Creators, NoCreator, Unlinking,
           Watched, OneCreator, CreatorsOwnPath, TypeOK
  <2>3. RecordedByInsider'
    BY <1>0, <1>2, <2>a, <2>b
       DEF Open, At, Goto, disk, locals, env, Guarded, Creators, NoCreator, Unlinking,
           Watched, RecordedByInsider, OneCreator, CreatorsOwnPath, TypeOK
  <2>4. UnrecordedIsYoung'
    BY <1>0, <1>2, <2>a, <2>b
       DEF Open, At, Goto, disk, locals, env, Guarded, Creators, NoCreator, Unlinking,
           Watched, UnrecordedIsYoung, OneCreator, CreatorsOwnPath, TypeOK
  <2>5. UndoneIsFree'
    BY <1>0, <1>2, <2>a, <2>b
       DEF Open, At, Goto, disk, locals, env, Guarded, Creators, NoCreator, Unlinking,
           Watched, UndoneIsFree, OneCreator, CreatorsOwnPath, TypeOK
  <2>6. SuspectIsOld'
    BY <1>0, <1>2, <2>a, <2>b
       DEF Open, At, Goto, disk, locals, env, Guarded, Creators, NoCreator, Unlinking,
           Watched, SuspectIsOld, UnrecordedIsYoung, CreatorsOwnPath, TypeOK
  <2>7. SuspectIsFree'
    BY <1>0, <1>2, <2>a, <2>b
       DEF Open, At, Goto, disk, locals, env, Guarded, Creators, NoCreator, Unlinking,
           Watched, SuspectIsFree, SuspectIsOld, UnrecordedIsYoung, RecordedByInsider,
           CreatorsOwnPath, OneCreator, TypeOK
  <2>8. TokenIsDead'
    BY <1>0, <1>2, <2>a, <2>b
       DEF Open, At, Goto, disk, locals, env, Guarded, Creators, NoCreator, Unlinking,
           Watched, TokenIsDead, Alive, OwnerAlive, TypeOK
  <2>9. UnlinkedIsFree'
    BY <1>0, <1>2, <2>a, <2>b
       DEF Open, At, Goto, disk, locals, env, Guarded, Creators, NoCreator, Unlinking,
           Watched, UnlinkedIsFree, UndoneIsFree, OneCreator, CreatorsOwnPath, TypeOK
  <2> QED
    BY <2>1, <2>2, <2>3, <2>4, <2>5, <2>6, <2>7, <2>8, <2>9 DEF Guarded
<1>3. ASSUME NEW p \in Processes, Contended(p) PROVE Guarded'
  BY <1>0, <1>3
     DEF Contended, At, Goto, disk, locals, env, Guarded, Creators, NoCreator, Unlinking,
         Alive, TypeOK, CreatorsOwnPath, OneCreator, RecordedByInsider, UnrecordedIsYoung,
         UndoneIsFree, SuspectIsOld, SuspectIsFree, TokenIsDead, UnlinkedIsFree
<1>4. ASSUME NEW p \in Processes, Record(p) PROVE Guarded'
  <2>1. CreatorsOwnPath'
    BY <1>0, <1>4
       DEF Record, At, Goto, disk, locals, env, Guarded, Creators, NoCreator, Unlinking,
           WriteRecord, CreatorsOwnPath, OneCreator, TypeOK
  <2>2. OneCreator'
    BY <1>0, <1>4
       DEF Record, At, Goto, disk, locals, env, Guarded, Creators, NoCreator, Unlinking,
           WriteRecord, OneCreator, CreatorsOwnPath, TypeOK
  <2>3. RecordedByInsider'
    BY <1>0, <1>4
       DEF Record, At, Goto, disk, locals, env, Guarded, Creators, NoCreator, Unlinking,
           WriteRecord, RecordedByInsider, OneCreator, CreatorsOwnPath, TypeOK
  <2>4. UnrecordedIsYoung'
    BY <1>0, <1>4
       DEF Record, At, Goto, disk, locals, env, Guarded, Creators, NoCreator, Unlinking,
           WriteRecord, UnrecordedIsYoung, OneCreator, CreatorsOwnPath, TypeOK
  <2>5. UndoneIsFree'
    BY <1>0, <1>4
       DEF Record, At, Goto, disk, locals, env, Guarded, Creators, NoCreator, Unlinking,
           WriteRecord, UndoneIsFree, OneCreator, CreatorsOwnPath, TypeOK
  <2>6. SuspectIsOld'
    BY <1>0, <1>4
       DEF Record, At, Goto, disk, locals, env, Guarded, Creators, NoCreator, Unlinking,
           WriteRecord, SuspectIsOld, UnrecordedIsYoung, CreatorsOwnPath, TypeOK
  <2>7. SuspectIsFree'
    BY <1>0, <1>4
       DEF Record, At, Goto, disk, locals, env, Guarded, Creators, NoCreator, Unlinking,
           WriteRecord, SuspectIsFree, SuspectIsOld, UnrecordedIsYoung, RecordedByInsider,
           CreatorsOwnPath, OneCreator, TypeOK
  <2>8. TokenIsDead'
    BY <1>0, <1>4
       DEF Record, At, Goto, disk, locals, env, Guarded, Creators, NoCreator, Unlinking,
           WriteRecord, TokenIsDead, Alive, OwnerAlive, TypeOK
  <2>9. UnlinkedIsFree'
    BY <1>0, <1>4
       DEF Record, At, Goto, disk, locals, env, Guarded, Creators, NoCreator, Unlinking,
           WriteRecord, UnlinkedIsFree, UndoneIsFree, OneCreator, CreatorsOwnPath, TypeOK
  <2> QED
    BY <2>1, <2>2, <2>3, <2>4, <2>5, <2>6, <2>7, <2>8, <2>9 DEF Guarded
<1>5. ASSUME NEW p \in Processes, RecordFails(p) PROVE Guarded'
  <2>1. CreatorsOwnPath'
    BY <1>0, <1>5
       DEF RecordFails, At, Goto, disk, locals, env, Guarded, Creators, NoCreator, Unlinking,
           WriteRecord, CreatorsOwnPath, OneCreator, TypeOK
  <2>2. OneCreator'
    BY <1>0, <1>5
       DEF RecordFails, At, Goto, disk, locals, env, Guarded, Creators, NoCreator, Unlinking,
           WriteRecord, OneCreator, CreatorsOwnPath, TypeOK
  <2>3. RecordedByInsider'
    BY <1>0, <1>5
       DEF RecordFails, At, Goto, disk, locals, env, Guarded, Creators, NoCreator, Unlinking,
           WriteRecord, RecordedByInsider, OneCreator, CreatorsOwnPath, TypeOK
  <2>4. UnrecordedIsYoung'
    BY <1>0, <1>5
       DEF RecordFails, At, Goto, disk, locals, env, Guarded, Creators, NoCreator, Unlinking,
           WriteRecord, UnrecordedIsYoung, OneCreator, CreatorsOwnPath, TypeOK
  <2>5. UndoneIsFree'
    BY <1>0, <1>5
       DEF RecordFails, At, Goto, disk, locals, env, Guarded, Creators, NoCreator, Unlinking,
           WriteRecord, UndoneIsFree, OneCreator, CreatorsOwnPath, TypeOK
  <2>6. SuspectIsOld'
    BY <1>0, <1>5
       DEF RecordFails, At, Goto, disk, locals, env, Guarded, Creators, NoCreator, Unlinking,
           WriteRecord, SuspectIsOld, UnrecordedIsYoung, CreatorsOwnPath, TypeOK
  <2>7. SuspectIsFree'
    BY <1>0, <1>5
       DEF RecordFails, At, Goto, disk, locals, env, Guarded, Creators, NoCreator, Unlinking,
           WriteRecord, SuspectIsFree, SuspectIsOld, UnrecordedIsYoung, RecordedByInsider,
           CreatorsOwnPath, OneCreator, TypeOK
  <2>8. TokenIsDead'
    BY <1>0, <1>5
       DEF RecordFails, At, Goto, disk, locals, env, Guarded, Creators, NoCreator, Unlinking,
           WriteRecord, TokenIsDead, Alive, OwnerAlive, TypeOK
  <2>9. UnlinkedIsFree'
    BY <1>0, <1>5
       DEF RecordFails, At, Goto, disk, locals, env, Guarded, Creators, NoCreator, Unlinking,
           WriteRecord, UnlinkedIsFree, UndoneIsFree, OneCreator, CreatorsOwnPath, TypeOK
  <2> QED
    BY <2>1, <2>2, <2>3, <2>4, <2>5, <2>6, <2>7, <2>8, <2>9 DEF Guarded
<1>6. ASSUME NEW p \in Processes, Stat(p) PROVE Guarded'
  <2>1. CreatorsOwnPath'
    BY <1>0, <1>6
       DEF Stat, At, Goto, disk, locals, env, Guarded, Creators, NoCreator, Unlinking,
           CreatorsOwnPath, OneCreator, TypeOK
  <2>2. OneCreator'
    BY <1>0, <1>6
       DEF Stat, At, Goto, disk, locals, env, Guarded, Creators, NoCreator, Unlinking,
           OneCreator, CreatorsOwnPath, TypeOK
  <2>3. RecordedByInsider'
    BY <1>0, <1>6
       DEF Stat, At, Goto, disk, locals, env, Guarded, Creators, NoCreator, Unlinking,
           RecordedByInsider, OneCreator, CreatorsOwnPath, TypeOK
  <2>4. UnrecordedIsYoung'
    BY <1>0, <1>6
       DEF Stat, At, Goto, disk, locals, env, Guarded, Creators, NoCreator, Unlinking,
           UnrecordedIsYoung, OneCreator, CreatorsOwnPath, TypeOK
  <2>5. UndoneIsFree'
    BY <1>0, <1>6
       DEF Stat, At, Goto, disk, locals, env, Guarded, Creators, NoCreator, Unlinking,
           UndoneIsFree, OneCreator, CreatorsOwnPath, TypeOK
  <2>6. SuspectIsOld'
    BY <1>0, <1>6
       DEF Stat, At, Goto, disk, locals, env, Guarded, Creators, NoCreator, Unlinking,
           SuspectIsOld, UnrecordedIsYoung, CreatorsOwnPath, TypeOK
  <2>7. SuspectIsFree'
    BY <1>0, <1>6
       DEF Stat, At, Goto, disk, locals, env, Guarded, Creators, NoCreator, Unlinking,
           SuspectIsFree, SuspectIsOld, UnrecordedIsYoung, RecordedByInsider,
           CreatorsOwnPath, OneCreator, TypeOK
  <2>8. TokenIsDead'
    BY <1>0, <1>6
       DEF Stat, At, Goto, disk, locals, env, Guarded, Creators, NoCreator, Unlinking,
           TokenIsDead, Alive, OwnerAlive, TypeOK
  <2>9. UnlinkedIsFree'
    BY <1>0, <1>6
       DEF Stat, At, Goto, disk, locals, env, Guarded, Creators, NoCreator, Unlinking,
           UnlinkedIsFree, UndoneIsFree, OneCreator, CreatorsOwnPath, TypeOK
  <2> QED
    BY <2>1, <2>2, <2>3, <2>4, <2>5, <2>6, <2>7, <2>8, <2>9 DEF Guarded
<1>7. ASSUME NEW p \in Processes, Probe(p) PROVE Guarded'
  <2>1. CreatorsOwnPath'
    BY <1>0, <1>7
       DEF Probe, At, Goto, disk, locals, env, Guarded, Creators, NoCreator, Unlinking,
           CreatorsOwnPath, OneCreator, TypeOK
  <2>2. OneCreator'
    BY <1>0, <1>7
       DEF Probe, At, Goto, disk, locals, env, Guarded, Creators, NoCreator, Unlinking,
           OneCreator, CreatorsOwnPath, TypeOK
  <2>3. RecordedByInsider'
    BY <1>0, <1>7
       DEF Probe, At, Goto, disk, locals, env, Guarded, Creators, NoCreator, Unlinking,
           RecordedByInsider, OneCreator, CreatorsOwnPath, TypeOK
  <2>4. UnrecordedIsYoung'
    BY <1>0, <1>7
       DEF Probe, At, Goto, disk, locals, env, Guarded, Creators, NoCreator, Unlinking,
           UnrecordedIsYoung, OneCreator, CreatorsOwnPath, TypeOK
  <2>5. UndoneIsFree'
    BY <1>0, <1>7
       DEF Probe, At, Goto, disk, locals, env, Guarded, Creators, NoCreator, Unlinking,
           UndoneIsFree, OneCreator, CreatorsOwnPath, TypeOK
  <2>6. SuspectIsOld'
    BY <1>0, <1>7
       DEF Probe, At, Goto, disk, locals, env, Guarded, Creators, NoCreator, Unlinking,
           SuspectIsOld, UnrecordedIsYoung, CreatorsOwnPath, TypeOK
  <2>7. SuspectIsFree'
    BY <1>0, <1>7
       DEF Probe, At, Goto, disk, locals, env, Guarded, Creators, NoCreator, Unlinking,
           SuspectIsFree, SuspectIsOld, UnrecordedIsYoung, RecordedByInsider,
           CreatorsOwnPath, OneCreator, TypeOK
  <2>8. TokenIsDead'
    BY <1>0, <1>7
       DEF Probe, At, Goto, disk, locals, env, Guarded, Creators, NoCreator, Unlinking,
           TokenIsDead, Alive, OwnerAlive, TypeOK
  <2>9. UnlinkedIsFree'
    BY <1>0, <1>7
       DEF Probe, At, Goto, disk, locals, env, Guarded, Creators, NoCreator, Unlinking,
           UnlinkedIsFree, UndoneIsFree, OneCreator, CreatorsOwnPath, TypeOK
  <2> QED
    BY <2>1, <2>2, <2>3, <2>4, <2>5, <2>6, <2>7, <2>8, <2>9 DEF Guarded
<1>8. ASSUME NEW p \in Processes, Wait(p) PROVE Guarded'
  BY <1>0, <1>8
     DEF Wait, At, Goto, disk, locals, env, Guarded, Creators, NoCreator, Unlinking, Alive,
         TypeOK, CreatorsOwnPath, OneCreator, RecordedByInsider, UnrecordedIsYoung,
         UndoneIsFree, SuspectIsOld, SuspectIsFree, TokenIsDead, UnlinkedIsFree
<1>9. ASSUME NEW p \in Processes, Verify(p) PROVE Guarded'
  <2>a. Stale(p) => NoCreator
    BY <1>0, <1>9, StaleHasNoCreator DEF Verify, At
  <2>1. CreatorsOwnPath'
    BY <1>0, <1>9, <2>a
       DEF Verify, At, Goto, disk, locals, env, Guarded, Creators, NoCreator, Unlinking,
           CreatorsOwnPath, OneCreator, TypeOK
  <2>2. OneCreator'
    BY <1>0, <1>9, <2>a
       DEF Verify, At, Goto, disk, locals, env, Guarded, Creators, NoCreator, Unlinking,
           OneCreator, CreatorsOwnPath, TypeOK
  <2>3. RecordedByInsider'
    BY <1>0, <1>9, <2>a
       DEF Verify, At, Goto, disk, locals, env, Guarded, Creators, NoCreator, Unlinking,
           RecordedByInsider, OneCreator, CreatorsOwnPath, TypeOK
  <2>4. UnrecordedIsYoung'
    BY <1>0, <1>9, <2>a
       DEF Verify, At, Goto, disk, locals, env, Guarded, Creators, NoCreator, Unlinking,
           UnrecordedIsYoung, OneCreator, CreatorsOwnPath, TypeOK
  <2>5. UndoneIsFree'
    BY <1>0, <1>9, <2>a
       DEF Verify, At, Goto, disk, locals, env, Guarded, Creators, NoCreator, Unlinking,
           UndoneIsFree, OneCreator, CreatorsOwnPath, TypeOK
  <2>6. SuspectIsOld'
    BY <1>0, <1>9, <2>a
       DEF Verify, At, Goto, disk, locals, env, Guarded, Creators, NoCreator, Unlinking,
           SuspectIsOld, UnrecordedIsYoung, CreatorsOwnPath, TypeOK
  <2>7. SuspectIsFree'
    BY <1>0, <1>9, <2>a
       DEF Verify, At, Goto, disk, locals, env, Guarded, Creators, NoCreator, Unlinking,
           SuspectIsFree, SuspectIsOld, UnrecordedIsYoung, RecordedByInsider,
           CreatorsOwnPath, OneCreator, TypeOK
  <2>8. TokenIsDead'
    BY <1>0, <1>9, <2>a
       DEF Verify, At, Goto, disk, locals, env, Guarded, Creators, NoCreator, Unlinking,
           TokenIsDead, Alive, OwnerAlive, TypeOK
  <2>9. UnlinkedIsFree'
    BY <1>0, <1>9, <2>a
       DEF Verify, At, Goto, disk, locals, env, Guarded, Creators, NoCreator, Unlinking,
           UnlinkedIsFree, UndoneIsFree, OneCreator, CreatorsOwnPath, TypeOK
  <2> QED
    BY <2>1, <2>2, <2>3, <2>4, <2>5, <2>6, <2>7, <2>8, <2>9 DEF Guarded
<1>10. ASSUME NEW p \in Processes, Finish(p) PROVE Guarded'
  BY <1>0, <1>10
     DEF Finish, At, Goto, disk, locals, env, Guarded, Creators, NoCreator, Unlinking, Alive,
         TypeOK, CreatorsOwnPath, OneCreator, RecordedByInsider, UnrecordedIsYoung,
         UndoneIsFree, SuspectIsOld, SuspectIsFree, TokenIsDead, UnlinkedIsFree
<1>11. ASSUME NEW p \in Processes, Leave(p) PROVE Guarded'
  <2>1. CreatorsOwnPath'
    BY <1>0, <1>11
       DEF Leave, At, Goto, disk, locals, env, Guarded, Creators, NoCreator, Unlinking,
           CreatorsOwnPath, OneCreator, TypeOK
  <2>2. OneCreator'
    BY <1>0, <1>11
       DEF Leave, At, Goto, disk, locals, env, Guarded, Creators, NoCreator, Unlinking,
           OneCreator, CreatorsOwnPath, TypeOK
  <2>3. RecordedByInsider'
    BY <1>0, <1>11
       DEF Leave, At, Goto, disk, locals, env, Guarded, Creators, NoCreator, Unlinking,
           RecordedByInsider, OneCreator, CreatorsOwnPath, TypeOK
  <2>4. UnrecordedIsYoung'
    BY <1>0, <1>11
       DEF Leave, At, Goto, disk, locals, env, Guarded, Creators, NoCreator, Unlinking,
           UnrecordedIsYoung, OneCreator, CreatorsOwnPath, TypeOK
  <2>5. UndoneIsFree'
    BY <1>0, <1>11
       DEF Leave, At, Goto, disk, locals, env, Guarded, Creators, NoCreator, Unlinking,
           UndoneIsFree, OneCreator, CreatorsOwnPath, TypeOK
  <2>6. SuspectIsOld'
    BY <1>0, <1>11
       DEF Leave, At, Goto, disk, locals, env, Guarded, Creators, NoCreator, Unlinking,
           SuspectIsOld, UnrecordedIsYoung, CreatorsOwnPath, TypeOK
  <2>7. SuspectIsFree'
    BY <1>0, <1>11
       DEF Leave, At, Goto, disk, locals, env, Guarded, Creators, NoCreator, Unlinking,
           SuspectIsFree, SuspectIsOld, UnrecordedIsYoung, RecordedByInsider,
           CreatorsOwnPath, OneCreator, TypeOK
  <2>8. TokenIsDead'
    BY <1>0, <1>11
       DEF Leave, At, Goto, disk, locals, env, Guarded, Creators, NoCreator, Unlinking,
           TokenIsDead, Alive, OwnerAlive, TypeOK
  <2>9. UnlinkedIsFree'
    BY <1>0, <1>11
       DEF Leave, At, Goto, disk, locals, env, Guarded, Creators, NoCreator, Unlinking,
           UnlinkedIsFree, UndoneIsFree, OneCreator, CreatorsOwnPath, TypeOK
  <2> QED
    BY <2>1, <2>2, <2>3, <2>4, <2>5, <2>6, <2>7, <2>8, <2>9 DEF Guarded
<1>12. ASSUME NEW p \in Processes, LeaveFails(p) PROVE Guarded'
  BY <1>0, <1>12
     DEF LeaveFails, At, Goto, disk, locals, env, Guarded, Creators, NoCreator, Unlinking,
         Alive, TypeOK, CreatorsOwnPath, OneCreator, RecordedByInsider, UnrecordedIsYoung,
         UndoneIsFree, SuspectIsOld, SuspectIsFree, TokenIsDead, UnlinkedIsFree
<1>13. ASSUME NEW p \in Processes, Undo(p) PROVE Guarded'
  <2>1. CreatorsOwnPath'
    BY <1>0, <1>13
       DEF Undo, At, Goto, disk, locals, env, Guarded, Creators, NoCreator, Unlinking,
           CreatorsOwnPath, OneCreator, TypeOK
  <2>2. OneCreator'
    BY <1>0, <1>13
       DEF Undo, At, Goto, disk, locals, env, Guarded, Creators, NoCreator, Unlinking,
           OneCreator, CreatorsOwnPath, TypeOK
  <2>3. RecordedByInsider'
    BY <1>0, <1>13
       DEF Undo, At, Goto, disk, locals, env, Guarded, Creators, NoCreator, Unlinking,
           RecordedByInsider, OneCreator, CreatorsOwnPath, TypeOK
  <2>4. UnrecordedIsYoung'
    BY <1>0, <1>13
       DEF Undo, At, Goto, disk, locals, env, Guarded, Creators, NoCreator, Unlinking,
           UnrecordedIsYoung, OneCreator, CreatorsOwnPath, TypeOK
  <2>5. UndoneIsFree'
    BY <1>0, <1>13
       DEF Undo, At, Goto, disk, locals, env, Guarded, Creators, NoCreator, Unlinking,
           UndoneIsFree, OneCreator, CreatorsOwnPath, TypeOK
  <2>6. SuspectIsOld'
    BY <1>0, <1>13
       DEF Undo, At, Goto, disk, locals, env, Guarded, Creators, NoCreator, Unlinking,
           SuspectIsOld, UnrecordedIsYoung, CreatorsOwnPath, TypeOK
  <2>7. SuspectIsFree'
    BY <1>0, <1>13
       DEF Undo, At, Goto, disk, locals, env, Guarded, Creators, NoCreator, Unlinking,
           SuspectIsFree, SuspectIsOld, UnrecordedIsYoung, RecordedByInsider,
           CreatorsOwnPath, OneCreator, TypeOK
  <2>8. TokenIsDead'
    BY <1>0, <1>13
       DEF Undo, At, Goto, disk, locals, env, Guarded, Creators, NoCreator, Unlinking,
           TokenIsDead, Alive, OwnerAlive, TypeOK
  <2>9. UnlinkedIsFree'
    BY <1>0, <1>13
       DEF Undo, At, Goto, disk, locals, env, Guarded, Creators, NoCreator, Unlinking,
           UnlinkedIsFree, UndoneIsFree, OneCreator, CreatorsOwnPath, TypeOK
  <2> QED
    BY <2>1, <2>2, <2>3, <2>4, <2>5, <2>6, <2>7, <2>8, <2>9 DEF Guarded
<1>14. ASSUME NEW p \in Processes, Reap(p) PROVE Guarded'
  <2>a. NoCreator
    BY <1>0, <1>14 DEF Reap, At, Guarded, UnlinkedIsFree, Unlinking
  <2>1. CreatorsOwnPath'
    BY <1>0, <1>14, <2>a
       DEF Reap, At, Goto, disk, locals, env, Guarded, Creators, NoCreator, Unlinking,
           Unlink, CreatorsOwnPath, OneCreator, TypeOK
  <2>2. OneCreator'
    BY <1>0, <1>14, <2>a
       DEF Reap, At, Goto, disk, locals, env, Guarded, Creators, NoCreator, Unlinking,
           Unlink, OneCreator, CreatorsOwnPath, TypeOK
  <2>3. RecordedByInsider'
    BY <1>0, <1>14, <2>a
       DEF Reap, At, Goto, disk, locals, env, Guarded, Creators, NoCreator, Unlinking,
           Unlink, RecordedByInsider, OneCreator, CreatorsOwnPath, TypeOK
  <2>4. UnrecordedIsYoung'
    BY <1>0, <1>14, <2>a
       DEF Reap, At, Goto, disk, locals, env, Guarded, Creators, NoCreator, Unlinking,
           Unlink, UnrecordedIsYoung, OneCreator, CreatorsOwnPath, TypeOK
  <2>5. UndoneIsFree'
    BY <1>0, <1>14, <2>a
       DEF Reap, At, Goto, disk, locals, env, Guarded, Creators, NoCreator, Unlinking,
           Unlink, UndoneIsFree, OneCreator, CreatorsOwnPath, TypeOK
  <2>6. SuspectIsOld'
    BY <1>0, <1>14, <2>a
       DEF Reap, At, Goto, disk, locals, env, Guarded, Creators, NoCreator, Unlinking,
           Unlink, SuspectIsOld, UnrecordedIsYoung, CreatorsOwnPath, TypeOK
  <2>7. SuspectIsFree'
    BY <1>0, <1>14, <2>a
       DEF Reap, At, Goto, disk, locals, env, Guarded, Creators, NoCreator, Unlinking,
           Unlink, SuspectIsFree, SuspectIsOld, UnrecordedIsYoung, RecordedByInsider,
           CreatorsOwnPath, OneCreator, TypeOK
  <2>8. TokenIsDead'
    BY <1>0, <1>14, <2>a
       DEF Reap, At, Goto, disk, locals, env, Guarded, Creators, NoCreator, Unlinking,
           Unlink, TokenIsDead, Alive, OwnerAlive, TypeOK
  <2>9. UnlinkedIsFree'
    BY <1>0, <1>14, <2>a
       DEF Reap, At, Goto, disk, locals, env, Guarded, Creators, NoCreator, Unlinking,
           Unlink, UnlinkedIsFree, UndoneIsFree, OneCreator, CreatorsOwnPath, TypeOK
  <2> QED
    BY <2>1, <2>2, <2>3, <2>4, <2>5, <2>6, <2>7, <2>8, <2>9 DEF Guarded
<1>15. ASSUME NEW p \in Processes, Drop(p) PROVE Guarded'
  <2>a. NoCreator
    BY <1>0, <1>15 DEF Drop, At, Guarded, UnlinkedIsFree, Unlinking
  <2>1. CreatorsOwnPath'
    BY <1>0, <1>15, <2>a
       DEF Drop, At, Goto, disk, locals, env, Guarded, Creators, NoCreator, Unlinking,
           Unlink, CreatorsOwnPath, OneCreator, TypeOK
  <2>2. OneCreator'
    BY <1>0, <1>15, <2>a
       DEF Drop, At, Goto, disk, locals, env, Guarded, Creators, NoCreator, Unlinking,
           Unlink, OneCreator, CreatorsOwnPath, TypeOK
  <2>3. RecordedByInsider'
    BY <1>0, <1>15, <2>a
       DEF Drop, At, Goto, disk, locals, env, Guarded, Creators, NoCreator, Unlinking,
           Unlink, RecordedByInsider, OneCreator, CreatorsOwnPath, TypeOK
  <2>4. UnrecordedIsYoung'
    BY <1>0, <1>15, <2>a
       DEF Drop, At, Goto, disk, locals, env, Guarded, Creators, NoCreator, Unlinking,
           Unlink, UnrecordedIsYoung, OneCreator, CreatorsOwnPath, TypeOK
  <2>5. UndoneIsFree'
    BY <1>0, <1>15, <2>a
       DEF Drop, At, Goto, disk, locals, env, Guarded, Creators, NoCreator, Unlinking,
           Unlink, UndoneIsFree, OneCreator, CreatorsOwnPath, TypeOK
  <2>6. SuspectIsOld'
    BY <1>0, <1>15, <2>a
       DEF Drop, At, Goto, disk, locals, env, Guarded, Creators, NoCreator, Unlinking,
           Unlink, SuspectIsOld, UnrecordedIsYoung, CreatorsOwnPath, TypeOK
  <2>7. SuspectIsFree'
    BY <1>0, <1>15, <2>a
       DEF Drop, At, Goto, disk, locals, env, Guarded, Creators, NoCreator, Unlinking,
           Unlink, SuspectIsFree, SuspectIsOld, UnrecordedIsYoung, RecordedByInsider,
           CreatorsOwnPath, OneCreator, TypeOK
  <2>8. TokenIsDead'
    BY <1>0, <1>15, <2>a
       DEF Drop, At, Goto, disk, locals, env, Guarded, Creators, NoCreator, Unlinking,
           Unlink, TokenIsDead, Alive, OwnerAlive, TypeOK
  <2>9. UnlinkedIsFree'
    BY <1>0, <1>15, <2>a
       DEF Drop, At, Goto, disk, locals, env, Guarded, Creators, NoCreator, Unlinking,
           Unlink, UnlinkedIsFree, UndoneIsFree, OneCreator, CreatorsOwnPath, TypeOK
  <2> QED
    BY <2>1, <2>2, <2>3, <2>4, <2>5, <2>6, <2>7, <2>8, <2>9 DEF Guarded
<1>16. ASSUME NEW p \in Processes, Crash(p) PROVE Guarded'
  BY <1>0, <1>16
     DEF Crash, At, Goto, disk, locals, env, Guarded, Creators, NoCreator, Unlinking, Alive,
         TypeOK, CreatorsOwnPath, OneCreator, RecordedByInsider, UnrecordedIsYoung,
         UndoneIsFree, SuspectIsOld, SuspectIsFree, TokenIsDead, UnlinkedIsFree
<1>17. CASE Age
  <2>1. \A p \in Processes : pc[p] # "record"
    BY <1>0, <1>17 DEF Age, At
  <2> QED
    BY <1>0, <1>17, <2>1
       DEF Age, Guarded, Creators, NoCreator, Unlinking, Alive, locals, env, CreatorsOwnPath,
           OneCreator, RecordedByInsider, UnrecordedIsYoung, UndoneIsFree, SuspectIsOld,
           SuspectIsFree, TokenIsDead, UnlinkedIsFree
<1>18. CASE UNCHANGED vars
  BY <1>0, <1>18
     DEF vars, disk, locals, env, Guarded, Creators, NoCreator, Unlinking, Alive,
         CreatorsOwnPath, OneCreator, RecordedByInsider, UnrecordedIsYoung, UndoneIsFree,
         SuspectIsOld, SuspectIsFree, TokenIsDead, UnlinkedIsFree
<1> QED
  BY <1>1, <1>2, <1>3, <1>4, <1>5, <1>6, <1>7, <1>8, <1>9, <1>10, <1>11, <1>12, <1>13, <1>14, <1>15, <1>16, <1>17, <1>18
     DEF Next, Run

(* Two processes are between the creation of a lock and its removal, or one of
   them does not own the path, only in a behaviour that hit a window. *)
THEOREM Exclusion == Spec => []OnlyWindowsBreakExclusion
<1>1. Init => Inv
  <2> SUFFICES ASSUME Init PROVE Inv
    OBVIOUS
  <2>1. crashes \in 0 .. MaxCrashes /\ faults \in 0 .. MaxFaults
    BY StateLockAssumption DEF Init
  <2>2. TypeOK
    BY <2>1 DEF Init, TypeOK, Labels
  <2>3. \A p \in Processes : pc[p] = "out"
    BY DEF Init
  <2> QED
    BY <2>2, <2>3
       DEF Inv, Guarded, Creators, NoCreator, Unlinking, CreatorsOwnPath, OneCreator,
           RecordedByInsider, UnrecordedIsYoung, UndoneIsFree, SuspectIsOld, SuspectIsFree,
           TokenIsDead, UnlinkedIsFree
<1>2. Inv /\ [Next]_vars => Inv'
  BY Typing, GuardKept DEF Inv
<1>3. Inv => OnlyWindowsBreakExclusion
  BY DEF Inv, Guarded, OneCreator, CreatorsOwnPath, RecordedByInsider, Creators,
         MutualExclusion, InsiderOwnsPath, OnlyWindowsBreakExclusion
<1> QED
  BY <1>1, <1>2, <1>3, PTL DEF Spec
=============================================================================
