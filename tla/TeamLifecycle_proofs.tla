----------------------- MODULE TeamLifecycle_proofs -----------------------
(***************************************************************************)
(* Proofs about TeamLifecycle, for every set of requests, commands,        *)
(* trials, tasks and offboardings and every budget, whatever roster a      *)
(* behaviour starts with.                                                  *)
(*                                                                         *)
(* The inductive invariant TeamInv has four layers.  Sound: the types, and *)
(* what each process is at work on.  Books: what an offboarding that got   *)
(* so far has on disk, up to its receipt.  Roster: at most one employment, *)
(* none under the lock of a purge, and an offboarding behind each that     *)
(* ended.  Ledgers: the verdict a request is about to derive records from. *)
(***************************************************************************)
EXTENDS TeamLifecycle, SequenceTheorems, WellFoundedInduction, TLAPS

(* Where a process can be: about to write a verdict and its records, past the fire,
   at an offboarding at all. *)
Verdicts == {"accepted", "rejected"}
Deciding == {"mark", "save", "kpi", "reflect"}
Ended == {"activity", "purge", "delete", "receipt"}
Leaving == {"intent", "pack", "handoff", "fire"} \union Ended
Labels == {"idle", "hire", "install", "persist", "note"} \union Deciding \union Leaving

(* The shapes of the records. *)
Process ==
  [pc : Labels, id : Ids \union {None}, grants : SUBSET (Required \union Conditional),
   trial : Trials \union {None}, verdict : Verdicts \union {None}, off : Offs \union {None},
   deleted : 0..4, partial : BOOLEAN, fresh : BOOLEAN, version : Nat,
   source : Sources \union {None}]

Offboarding ==
  [id : Ids \union {None}, mode : Modes \union {None}, pack : {<<>>} \union {<<m>> : m \in SUBSET Tasks},
   handoff : BOOLEAN, failed : {None, "prepare", "fire"}, fired : BOOLEAN,
   receipt : {None} \union [outcome : {"partial", "completed"}, deleted : 0..4]]

Given == Grants \union {{}}

TrialRun ==
  [status : {"none", "delivered", "failed", "accepted", "rejected"},
   grants : Given, marked : BOOLEAN]

(* What TypeOK needs to be inductive. *)
Typed ==
  /\ roster \in Seq(Entry) /\ registry \in Nat /\ second \in Nat
  /\ lock \in Procs \union {None} /\ memory \subseteq Tasks
  /\ scopes \subseteq {Scopes[i] : i \in 1..4} /\ task \in [Tasks -> {"new", "running", "over"}]
  /\ activity \in [Offs -> {"none", "linked", "unlinked"}]
  /\ trial \in [Trials -> TrialRun]
  /\ kpi \in [Trials -> Verdicts \union {"none"}]
  /\ learned \in [Trials -> Verdicts \union {"none"}]
  /\ off \in [Offs -> Offboarding]
  /\ ps \in [Procs -> Process]

(* A process at work has what it works on: a trial, a source, or an offboarding
   that is about its employment. *)
TargetOf(p) ==
  /\ ps[p].pc \in Deciding => p \in Requests /\ ps[p].trial \in Trials /\ ps[p].verdict \in Verdicts
  /\ ps[p].pc = "hire" => p \in Requests /\ ps[p].trial \in Trials
  /\ ps[p].pc \in {"install", "persist"} => ps[p].source \in Sources
  /\ ps[p].pc \in Leaving => /\ ps[p].off \in Offs /\ ps[p].id \in Ids
                            /\ off[ps[p].off].id = ps[p].id /\ off[ps[p].off].mode \in Modes

(* Only a purge has deleted anything, and is done with the fourth scope. *)
CountOf(p) ==
  /\ ps[p].pc = "delete" => ps[p].deleted < 4
  /\ ps[p].pc \notin {"delete", "receipt"} => ps[p].deleted = 0

Targets == \A p \in Procs : TargetOf(p)
Counted == \A p \in Procs : CountOf(p)

(* The website has one handler at a time that does not await, *)
OneSync == \A p, q \in Requests : ps[p].pc \in Sync /\ ps[q].pc \in Sync => p = q

(* and an offboarding one process. *)
SoleOff ==
  \A p, q \in Procs : ps[p].pc \in Leaving /\ ps[q].pc \in Leaving /\ ps[p].off = ps[q].off => p = q

Sound == Typed /\ Targets /\ Counted /\ OneSync /\ SoleOff

(* Only a purge holds the lock of the roster from step to step, *)
LockHeld == \A p \in Procs : ps[p].pc = "delete" <=> lock = p
(* and nobody is hired meanwhile. *)
NobodyHired == lock # None => ~Hired(roster)

(* What the mode of an offboarding promised to keep is kept. *)
Exported(o) ==
  /\ off[o].mode # "purge" => off[o].pack # <<>>
  /\ off[o].mode = "handoff" => off[o].handoff

(* What the offboarding of a process has done by now. *)
PreparedBy(p) ==
  LET o == ps[p].off IN
  /\ ps[p].pc = "handoff" => off[o].mode = "handoff" /\ off[o].pack # <<>>
  /\ ps[p].pc = "fire" => Exported(o)
  /\ ps[p].pc \in Ended => off[o].fired
  /\ ps[p].pc \in {"purge", "delete", "receipt"} /\ ~ps[p].partial => activity[o] # "none"
  /\ ps[p].pc = "receipt" /\ ~ps[p].partial /\ off[o].mode = "purge" => ps[p].deleted = 4

Prepared == \A p \in Procs : PreparedBy(p)
(* Nobody is fired before. *)
FiredExported == \A o \in Offs : off[o].fired => Exported(o) /\ off[o].id # None

(* Every employment that ended was ended by an offboarding. *)
FiredBacked ==
  \A i \in DOMAIN roster : roster[i].status = "fired" => \E o \in Offs : off[o].fired /\ off[o].id = roster[i].id

(* The verdict a request writes is not written yet, the one it derives records from
   is, and the trial it hires from was accepted with the grants it hires. *)
DecidedBy(p) ==
  LET t == ps[p].trial IN
  /\ ps[p].pc \in {"mark", "save"} => trial[t].status = "delivered"
  /\ ps[p].pc = "kpi" => trial[t].status = ps[p].verdict
  /\ ps[p].pc = "reflect" => trial[t].status = ps[p].verdict /\ kpi[t] = ps[p].verdict
  /\ ps[p].pc = "hire" => trial[t].status = "accepted" /\ trial[t].grants = ps[p].grants

Decided == \A p \in Procs : DecidedBy(p)

(* One receipt of ReceiptIsTrue. *)
TrueReceipt(o) ==
  (off[o].receipt # None /\ off[o].receipt.outcome = "completed") =>
    /\ off[o].fired /\ activity[o] # "none"
    /\ off[o].mode = "purge" => off[o].receipt.deleted = 4

(* The layers. *)
Books == LockHeld /\ Prepared /\ FiredExported /\ ReceiptIsTrue
Roster == NobodyHired /\ OneActive /\ FiredBacked
Ledgers == Decided /\ TrialLedgersAgree

TeamInv == Sound /\ Books /\ Roster /\ Ledgers

-----------------------------------------------------------------------------
(* What the three programs write to the roster. *)

(* A set of numbers has a least one. *)
LEMMA Least ==
  ASSUME NEW S \in SUBSET Nat, S # {}
  PROVE  \E i \in S : \A j \in S : i <= j
<1> DEFINE R == {p \in Nat \X Nat : p[1] < p[2]}
<1>1. IsWellFoundedOn(R, Nat)
  BY NatLessThanWellFounded DEF OpToRel
<1>2. PICK x \in S : \A y \in S : ~(<<y, x>> \in R)
  BY <1>1, WFMin
<1>3. \A y \in S : ~(y < x)
  BY <1>2 DEF R
<1> QED
  BY <1>3

(* The first of the active records is one. *)
LEMMA TheFirst ==
  ASSUME NEW r \in Seq(Entry), Hired(r)
  PROVE  /\ First(r) \in DOMAIN r /\ First(r) \in Active(r)
         /\ The(r) \in Entry /\ The(r).status = "active"
<1>1. Active(r) \in SUBSET Nat /\ Active(r) # {} /\ Active(r) \subseteq DOMAIN r
  BY DEF Active, Hired
<1>2. First(r) \in Active(r)
  BY <1>1, Least DEF First
<1> QED
  BY <1>1, <1>2 DEF Active, The

(* A roster that is changed record by record is a roster. *)
LEMMA PointwiseRoster ==
  ASSUME NEW r \in Seq(Entry), NEW q, DOMAIN q = DOMAIN r, q = [i \in DOMAIN r |-> q[i]],
         \A i \in DOMAIN r : q[i] \in Entry
  PROVE  q \in Seq(Entry)
<1>1. DOMAIN r = 1..Len(r) /\ Len(r) \in Nat
  OBVIOUS
<1>2. q \in [1..Len(r) -> Entry]
  BY <1>1
<1> QED
  BY <1>1, <1>2, SeqDef

(* The records are the same but for the version, the grants and their source. *)
SameRecords(r, q) ==
  /\ DOMAIN q = DOMAIN r
  /\ \A i \in DOMAIN r : q[i].id = r[i].id /\ q[i].status = r[i].status /\ q[i].grants = r[i].grants

(* The command line's null *)
LEMMA RustKeeps ==
  ASSUME NEW r \in Seq(Entry)
  PROVE  RustWrites(r) \in Seq(Entry) /\ SameRecords(r, RustWrites(r))
<1>1. \A i \in DOMAIN r : r[i] \in Entry
  OBVIOUS
<1>2. \A e \in Entry : [e EXCEPT !.source = "null"] \in Entry
  BY DEF Entry, Sources
<1>3. \A i \in DOMAIN r : RustWrites(r)[i] \in Entry
  BY <1>1, <1>2 DEF RustWrites
<1>4. RustWrites(r) \in Seq(Entry)
  BY <1>3, PointwiseRoster DEF RustWrites
<1> QED
  BY <1>1, <1>4 DEF RustWrites, SameRecords, Entry

(* and the website's absent source are changes of that kind. *)
LEMMA WebKeeps ==
  ASSUME NEW r \in Seq(Entry)
  PROVE  WebWrites(r) \in Seq(Entry) /\ SameRecords(r, WebWrites(r))
<1>1. \A i \in DOMAIN r : r[i] \in Entry
  OBVIOUS
<1>2. \A e \in Entry : [e EXCEPT !.source = "absent"] \in Entry
  BY DEF Entry, Sources
<1>3. \A i \in DOMAIN r : WebWrites(r)[i] \in Entry
  BY <1>1, <1>2 DEF WebWrites
<1>4. WebWrites(r) \in Seq(Entry)
  BY <1>3, PointwiseRoster DEF WebWrites
<1> QED
  BY <1>1, <1>4 DEF WebWrites, SameRecords, Entry

(* A change by id changes all records with the id. *)
LEMMA ChangeIs ==
  ASSUME NEW r \in Seq(Entry), NEW id, NEW new \in Entry
  PROVE  /\ Change(r, id, new) \in Seq(Entry) /\ DOMAIN Change(r, id, new) = DOMAIN r
         /\ \A i \in DOMAIN r : Change(r, id, new)[i] = IF r[i].id = id THEN new ELSE r[i]
<1>1. \A i \in DOMAIN r : r[i] \in Entry
  OBVIOUS
<1>2. Change(r, id, new) \in Seq(Entry)
  BY <1>1, PointwiseRoster DEF Change
<1> QED
  BY <1>2 DEF Change

(* A hire is a record of an active employee, *)
LEMMA HireIs ==
  ASSUME NEW id \in Ids, NEW version \in Nat, NEW grants \in SUBSET (Required \union Conditional),
         NEW source \in Sources
  PROVE  /\ Hire(id, version, grants, source) \in Entry
         /\ Hire(id, version, grants, source).id = id
         /\ Hire(id, version, grants, source).status = "active"
         /\ Hire(id, version, grants, source).grants = grants
  BY DEF Hire, Entry

(* with grants he can have. *)
LEMMA PlanIs ==
  ASSUME NEW kept, NEW granted \in SUBSET Conditional, NEW skipped
  PROVE  Plan(kept, granted, skipped) \in SUBSET (Required \union Conditional)
  BY DEF Plan

(* The records are the same employments, active or not as before. *)
SameMembers(r, q) ==
  /\ DOMAIN q = DOMAIN r
  /\ \A i \in DOMAIN r : q[i].id = r[i].id /\ q[i].status = r[i].status

(* A hire is added at the end. *)
LEMMA AppendIs ==
  ASSUME NEW r \in Seq(Entry), NEW e \in Entry
  PROVE  /\ Append(r, e) \in Seq(Entry) /\ Len(r) + 1 \notin DOMAIN r
         /\ DOMAIN Append(r, e) = DOMAIN r \union {Len(r) + 1}
         /\ \A i \in DOMAIN r : Append(r, e)[i] = r[i]
         /\ Append(r, e)[Len(r) + 1] = e
<1>1. Append(r, e) \in Seq(Entry) /\ Len(Append(r, e)) = Len(r) + 1 /\ Len(r) \in Nat
  OBVIOUS
<1>2. DOMAIN Append(r, e) = 1..(Len(r) + 1) /\ DOMAIN r = 1..Len(r)
  BY <1>1, LenProperties
<1>3. \A i \in 1..Len(r) : Append(r, e)[i] = r[i]
  BY <1>1, AppendProperties
<1>4. Append(r, e)[Len(r) + 1] = e
  BY <1>1, AppendProperties
<1> QED
  BY <1>1, <1>2, <1>3, <1>4

(* An update or a second hire from the command line changes the first active record alone. *)
LEMMA FirstIs ==
  ASSUME NEW r \in Seq(Entry), Hired(r), NEW e \in Entry, e.id = The(r).id, e.status = "active",
         NEW q, q = [r EXCEPT ![First(r)] = e]
  PROVE  q \in Seq(Entry) /\ SameMembers(r, q)
<1>1. First(r) \in DOMAIN r /\ The(r) = r[First(r)] /\ r[First(r)].status = "active"
  BY TheFirst DEF The
<1>2. \A i \in DOMAIN r : r[i] \in Entry
  OBVIOUS
<1>3. DOMAIN q = DOMAIN r /\ q = [i \in DOMAIN r |-> q[i]]
  OBVIOUS
<1>4. \A i \in DOMAIN r : q[i] = IF i = First(r) THEN e ELSE r[i]
  BY <1>1
<1>5. q \in Seq(Entry)
  BY <1>2, <1>3, <1>4, PointwiseRoster
<1> QED
  BY <1>1, <1>3, <1>4, <1>5 DEF SameMembers

(* What a step can do to the roster. *)
Revives ==
  /\ DOMAIN roster' = DOMAIN roster
  /\ \A i \in DOMAIN roster : /\ roster'[i].id = roster[i].id
                             /\ \/ roster'[i].status = roster[i].status
                                \/ roster[i].id = The(roster).id /\ roster'[i].status = "active"

Adds ==
  /\ DOMAIN roster' = DOMAIN roster \union {Len(roster) + 1} /\ Len(roster) + 1 \notin DOMAIN roster
  /\ \A i \in DOMAIN roster : roster'[i].id = roster[i].id /\ roster'[i].status = roster[i].status
  /\ roster'[Len(roster) + 1].status = "active"

Ends(p) ==
  /\ DOMAIN roster' = DOMAIN roster /\ ps[p].id = The(roster).id /\ Hired(roster)
  /\ \A i \in DOMAIN roster :
       /\ roster'[i].id = roster[i].id
       /\ roster'[i].status = IF roster[i].id = ps[p].id THEN "fired" ELSE roster[i].status

(* The website's hire synchronizes the active employment or adds one, *)
LEMMA HireLocalRoster ==
  ASSUME Typed, NEW p \in Procs, HireLocal(p)
  PROVE  /\ roster' \in Seq(Entry)
         /\ \/ UNCHANGED roster
            \/ Hired(roster) /\ Revives
            \/ /\ ~Hired(roster) /\ Adds
               /\ roster'[Len(roster) + 1].grants = ps[p].grants
<1>1. roster \in Seq(Entry) /\ ps[p] \in Process
  BY DEF Typed
<1> DEFINE e == Hire(<<"web", Len(roster) + 1>>, ps[p].version, ps[p].grants, "website")
<1>2. CASE UNCHANGED roster
  BY <1>1, <1>2
<1>3. CASE Hired(roster) /\ roster' = WebWrites(Synchronized(roster, p))
  <2>1. The(roster) \in Entry /\ The(roster).status = "active"
    BY <1>1, <1>3, TheFirst
  <2> DEFINE new == [The(roster) EXCEPT !.bound = TRUE,
                        !.source = IF @ \in {"absent", "null"} THEN "website" ELSE @]
  <2>2. new \in Entry /\ new.id = The(roster).id /\ new.status = "active"
    BY <2>1 DEF Entry, Sources
  <2> HIDE DEF new
  <2>3. CASE Synchronized(roster, p) = roster
    BY <1>1, <1>3, <2>3, WebKeeps DEF SameRecords, Revives
  <2>4. CASE Synchronized(roster, p) = Change(roster, The(roster).id, new)
    <3> DEFINE c == Change(roster, The(roster).id, new)
    <3>1. /\ c \in Seq(Entry) /\ DOMAIN c = DOMAIN roster
          /\ \A i \in DOMAIN roster : c[i] = IF roster[i].id = The(roster).id THEN new ELSE roster[i]
      BY <1>1, <2>2, ChangeIs
    <3>2. roster' = WebWrites(c)
      BY <1>3, <2>4
    <3> HIDE DEF c
    <3>3. roster' \in Seq(Entry) /\ SameRecords(c, roster')
      BY <3>1, <3>2, WebKeeps
    <3> QED
      BY <1>3, <2>2, <3>1, <3>3 DEF SameRecords, Revives
  <2> QED
    BY <2>3, <2>4 DEF Synchronized, new
<1>4. CASE ~Hired(roster) /\ roster' = WebWrites(Append(roster, e))
  <2>1. Len(roster) + 1 \in Nat
    BY <1>1
  <2>2. <<"web", Len(roster) + 1>> \in Ids
    BY <2>1 DEF Ids
  <2>3. e \in Entry /\ e.status = "active" /\ e.grants = ps[p].grants
    BY <1>1, <2>2, HireIs DEF Process, Sources
  <2> HIDE DEF e
  <2> DEFINE a == Append(roster, e)
  <2>4. /\ a \in Seq(Entry) /\ Len(roster) + 1 \notin DOMAIN roster
        /\ DOMAIN a = DOMAIN roster \union {Len(roster) + 1}
        /\ \A i \in DOMAIN roster : a[i] = roster[i]
        /\ a[Len(roster) + 1] = e
    BY <1>1, <2>3, AppendIs
  <2>5. roster' = WebWrites(a)
    BY <1>4
  <2> HIDE DEF a
  <2>6. roster' \in Seq(Entry) /\ SameRecords(a, roster')
    BY <2>4, <2>5, WebKeeps
  <2> QED
    BY <1>4, <2>3, <2>4, <2>6 DEF SameRecords, Adds
<1> QED
  BY <1>2, <1>3, <1>4 DEF HireLocal

(* that of the command line keeps it or adds one, *)
LEMMA PersistRoster ==
  ASSUME Typed, NEW p \in Procs, ps[p].source \in Sources, Persist(p)
  PROVE  /\ roster' \in Seq(Entry)
         /\ \/ SameMembers(roster, roster')
            \/ ~Hired(roster) /\ Adds /\ roster'[Len(roster) + 1].id = <<"cli", second>>
<1>1. roster \in Seq(Entry) /\ ps[p] \in Process /\ second \in Nat
  BY DEF Typed
<1> DEFINE e == Hire(<<"cli", second>>, ps[p].version, ps[p].grants, ps[p].source)
<1>2. CASE UNCHANGED roster
  BY <1>1, <1>2 DEF SameMembers
<1>3. CASE Hired(roster) /\ roster' = RustWrites(Regranted(p))
  <2> DEFINE new == [The(roster) EXCEPT !.grants = ps[p].grants, !.bound = @ \/ (ps[p].source = "website"),
                        !.source = IF ps[p].source = "website" THEN "website" ELSE @]
  <2>1. The(roster) \in Entry /\ The(roster).status = "active"
    BY <1>1, <1>3, TheFirst
  <2>2. new \in Entry /\ new.id = The(roster).id /\ new.status = "active"
    BY <1>1, <2>1 DEF Entry, Sources, Process
  <2>3. Regranted(p) = [roster EXCEPT ![First(roster)] = new]
    BY DEF Regranted, The
  <2> HIDE DEF new
  <2>4. Regranted(p) \in Seq(Entry) /\ SameMembers(roster, Regranted(p))
    BY <1>1, <1>3, <2>2, <2>3, FirstIs
  <2>5. roster' \in Seq(Entry) /\ SameRecords(Regranted(p), roster')
    BY <1>3, <2>4, RustKeeps
  <2> QED
    BY <2>4, <2>5 DEF SameRecords, SameMembers
<1>4. CASE ~Hired(roster) /\ roster' = RustWrites(Append(roster, e))
  <2>1. <<"cli", second>> \in Ids
    BY <1>1 DEF Ids
  <2>2. e \in Entry /\ e.status = "active" /\ e.id = <<"cli", second>>
    BY <1>1, <2>1, HireIs DEF Process, Sources
  <2> HIDE DEF e
  <2> DEFINE a == Append(roster, e)
  <2>3. /\ a \in Seq(Entry) /\ Len(roster) + 1 \notin DOMAIN roster
        /\ DOMAIN a = DOMAIN roster \union {Len(roster) + 1}
        /\ \A i \in DOMAIN roster : a[i] = roster[i]
        /\ a[Len(roster) + 1] = e
    BY <1>1, <2>2, AppendIs
  <2>4. roster' = RustWrites(a)
    BY <1>4
  <2> HIDE DEF a
  <2>5. roster' \in Seq(Entry) /\ SameRecords(a, roster')
    BY <2>3, <2>4, RustKeeps
  <2> QED
    BY <1>4, <2>2, <2>3, <2>5 DEF SameRecords, Adds
<1> QED
  BY <1>2, <1>3, <1>4 DEF Persist

(* an update keeps it, *)
LEMMA UpdateRoster ==
  ASSUME Typed, NEW p \in Procs, Update(p)
  PROVE  roster' \in Seq(Entry) /\ SameMembers(roster, roster')
<1> DEFINE new == [The(roster) EXCEPT !.version = registry, !.grants = @ \union Required]
<1>1. roster \in Seq(Entry) /\ registry \in Nat /\ Hired(roster)
  BY DEF Typed, Update
<1>2. The(roster) \in Entry /\ The(roster).status = "active"
  BY <1>1, TheFirst
<1>3. new \in Entry /\ new.id = The(roster).id /\ new.status = "active"
  BY <1>1, <1>2 DEF Entry
<1> DEFINE r == [roster EXCEPT ![First(roster)] = new]
<1>4. roster' = RustWrites(r)
  BY DEF Update, The
<1> HIDE DEF new
<1>5. r \in Seq(Entry) /\ SameMembers(roster, r)
  BY <1>1, <1>3, FirstIs
<1> HIDE DEF r
<1>6. roster' \in Seq(Entry) /\ SameRecords(r, roster')
  BY <1>4, <1>5, RustKeeps
<1> QED
  BY <1>5, <1>6 DEF SameRecords, SameMembers

(* and a fire ends it. *)
LEMMA FireRoster ==
  ASSUME Typed, NEW p \in Procs, Fire(p)
  PROVE  /\ roster' \in Seq(Entry)
         /\ UNCHANGED roster \/ (Ends(p) /\ Goto(p, "activity") /\ off' = [off EXCEPT ![ps[p].off].fired = TRUE])
<1>1. roster \in Seq(Entry)
  BY DEF Typed
<1>2. CASE UNCHANGED roster
  BY <1>1, <1>2
<1>3. CASE roster' # roster
  <2> DEFINE new == [The(roster) EXCEPT !.status = "fired"]
  <2>1. /\ Hired(roster) /\ The(roster).id = ps[p].id
        /\ roster' = Change(roster, ps[p].id, new)
        /\ Goto(p, "activity") /\ off' = [off EXCEPT ![ps[p].off].fired = TRUE]
    BY <1>3 DEF Fire
  <2>2. The(roster) \in Entry
    BY <1>1, <2>1, TheFirst
  <2>3. new \in Entry /\ new.id = ps[p].id /\ new.status = "fired"
    BY <2>1, <2>2 DEF Entry
  <2> HIDE DEF new
  <2> QED
    BY <1>1, <2>1, <2>3, ChangeIs DEF Ends
<1> QED
  BY <1>2, <1>3

-----------------------------------------------------------------------------
(* Where a step takes a process. *)

(* The ways a process moves on: to another label, to rest, as another record. *)
Others(p) == \A q \in Procs \ {p} : ps'[q] = ps[q]

Moved(p, l) ==
  /\ ps' \in [Procs -> Process] /\ Others(p)
  /\ ps'[p].pc = l /\ ps'[p].id = ps[p].id /\ ps'[p].grants = ps[p].grants
  /\ ps'[p].trial = ps[p].trial /\ ps'[p].verdict = ps[p].verdict /\ ps'[p].off = ps[p].off
  /\ ps'[p].deleted = ps[p].deleted /\ ps'[p].partial = ps[p].partial
  /\ ps'[p].source = ps[p].source

Rested(p) == ps' \in [Procs -> Process] /\ Others(p) /\ ps'[p].pc = "idle" /\ ps'[p].deleted = 0

Put(p, l) == ps' \in [Procs -> Process] /\ Others(p) /\ ps'[p].pc = l

(* Nothing an offboarding prepared is undone, and its employment stays. *)
OffKept ==
  /\ off' \in [Offs -> Offboarding]
  /\ \A o \in Offs : /\ off[o].id # None => off'[o].id = off[o].id /\ off'[o].mode = off[o].mode
                     /\ off[o].fired => off'[o].fired
                     /\ off[o].pack # <<>> => off'[o].pack # <<>>
                     /\ off[o].handoff => off'[o].handoff

(* What the step of one process must keep to itself. *)
Disciplined(p) ==
  /\ TargetOf(p)' /\ CountOf(p)'
  /\ p \in Requests /\ ps'[p].pc \in Sync => ps[p].pc \in Sync \/ Free(p)
  /\ ps'[p].pc \in Leaving => \/ ps[p].pc \in Leaving /\ ps'[p].off = ps[p].off
                             \/ off[ps'[p].off].id = None

(* A process at rest is a process, *)
LEMMA IdleIs == Idle \in Process
  BY DEF Idle, Process, Labels, Sources

(* Goto, *)
LEMMA GotoMoves ==
  ASSUME Typed, NEW p \in Procs, NEW l \in Labels, Goto(p, l) PROVE Moved(p, l)
<1> DEFINE x == [ps[p] EXCEPT !.pc = l]
<1>1. ps[p] \in Process /\ ps' = [ps EXCEPT ![p] = x]
  BY DEF Typed, Goto
<1>2. /\ x \in Process /\ x.pc = l /\ x.id = ps[p].id /\ x.grants = ps[p].grants /\ x.trial = ps[p].trial
      /\ x.verdict = ps[p].verdict /\ x.off = ps[p].off /\ x.deleted = ps[p].deleted
      /\ x.partial = ps[p].partial /\ x.source = ps[p].source
  BY <1>1 DEF Process
<1> HIDE DEF x
<1> QED
  BY <1>1, <1>2 DEF Typed, Moved, Others

(* Rest *)
LEMMA RestRests ==
  ASSUME Typed, NEW p \in Procs, Rest(p) PROVE Rested(p)
<1>1. ps' = [ps EXCEPT ![p] = Idle] /\ Idle.pc = "idle" /\ Idle.deleted = 0
  BY DEF Rest, Idle
<1> QED
  BY <1>1, IdleIs DEF Typed, Rested, Others

(* and an assignment do what they say, *)
LEMMA PutPuts ==
  ASSUME Typed, NEW p \in Procs, NEW x \in Process, ps' = [ps EXCEPT ![p] = x]
  PROVE  Put(p, x.pc) /\ ps'[p] = x
  BY DEF Typed, Put, Others

(* and who leaves the offboardings alone keeps them. *)
LEMMA KeptOff ==
  ASSUME Typed, UNCHANGED off PROVE OffKept
  BY DEF Typed, OffKept

(* If the step of one process keeps to that, all of Sound but the types is kept, *)
LEMMA OneMoves ==
  ASSUME Sound, NEW p \in Procs, ps' \in [Procs -> Process], Others(p), OffKept, Disciplined(p)
  PROVE  Targets' /\ Counted' /\ OneSync' /\ SoleOff'
<1>1. Targets'
  BY TeamAssumption DEF Sound, Targets, TargetOf, Others, OffKept, Disciplined
<1>2. Counted'
  BY DEF Sound, Counted, CountOf, Others, Disciplined
<1>3. OneSync'
  <2> SUFFICES ASSUME NEW q \in Requests, NEW r \in Requests, ps'[q].pc \in Sync, ps'[r].pc \in Sync
               PROVE  q = r
    BY DEF OneSync
  <2>1. q \in Procs /\ r \in Procs
    BY DEF Procs
  <2>2. CASE q # p /\ r # p
    BY <2>1, <2>2 DEF Sound, OneSync, Others
  <2>3. CASE q = p /\ r # p
    BY <2>1, <2>3 DEF Sound, OneSync, Others, Disciplined, Free
  <2>4. CASE q # p /\ r = p
    BY <2>1, <2>4 DEF Sound, OneSync, Others, Disciplined, Free
  <2> QED
    BY <2>2, <2>3, <2>4
<1>4. SoleOff'
  <2> SUFFICES ASSUME NEW q \in Procs, NEW r \in Procs, ps'[q].pc \in Leaving, ps'[r].pc \in Leaving,
                      ps'[q].off = ps'[r].off
               PROVE  q = r
    BY DEF SoleOff
  <2>1. \A x \in Procs : ps[x].pc \in Leaving => off[ps[x].off].id # None
    BY TeamAssumption DEF Sound, Targets, TargetOf
  <2>2. CASE q # p /\ r # p
    BY <2>2 DEF Sound, SoleOff, Others
  <2>3. CASE q = p /\ r # p
    BY <2>1, <2>3 DEF Sound, SoleOff, Others, Disciplined
  <2>4. CASE q # p /\ r = p
    BY <2>1, <2>4 DEF Sound, SoleOff, Others, Disciplined
  <2> QED
    BY <2>2, <2>3, <2>4
<1> QED
  BY <1>1, <1>2, <1>3, <1>4

(* and if no process moves. *)
LEMMA NobodyMoves ==
  ASSUME Sound, UNCHANGED ps, OffKept
  PROVE  Targets' /\ Counted' /\ OneSync' /\ SoleOff'
  BY TeamAssumption DEF Sound, Targets, TargetOf, Counted, CountOf, OneSync, SoleOff, OffKept

(* The labels of the steps of one process. *)
LEMMA Control ==
  ASSUME Sound, NEW p \in Procs
  PROVE  /\ Mark(p) => Moved(p, "save") \/ Rested(p)
         /\ Save(p) => Moved(p, "kpi") \/ Rested(p)
         /\ Count(p) => Moved(p, "reflect") \/ Rested(p)
         /\ Reflect(p) => Rested(p)
         /\ HireLocal(p) => Rested(p)
         /\ Install(p) => Moved(p, "persist") \/ Rested(p)
         /\ Persist(p) => Moved(p, "note") \/ Rested(p)
         /\ Note(p) => Rested(p)
         /\ Intent(p) => \/ Moved(p, "fire") /\ off[ps[p].off].mode = "purge"
                         \/ Moved(p, "pack") /\ off[ps[p].off].mode # "purge"
                         \/ Rested(p)
         /\ Pack(p) => Moved(p, "handoff") \/ Moved(p, "fire") \/ Rested(p)
         /\ Handoff(p) => Moved(p, "fire") \/ Rested(p)
         /\ Fire(p) => Moved(p, "activity") \/ Rested(p)
         /\ Receipt(p) => Rested(p)
<1> USE DEF Sound
<1>1. Mark(p) => Moved(p, "save") \/ Rested(p)
  BY GotoMoves, RestRests DEF Mark, Labels, Deciding, Leaving, Ended
<1>2. Save(p) => Moved(p, "kpi") \/ Rested(p)
  BY GotoMoves, RestRests DEF Save, Labels, Deciding, Leaving, Ended
<1>3. Count(p) => Moved(p, "reflect") \/ Rested(p)
  BY GotoMoves, RestRests DEF Count, Labels, Deciding, Leaving, Ended
<1>4. Reflect(p) => Rested(p)
  BY GotoMoves, RestRests DEF Reflect, Labels, Deciding, Leaving, Ended
<1>5. HireLocal(p) => Rested(p)
  BY GotoMoves, RestRests DEF HireLocal, Labels, Deciding, Leaving, Ended
<1>6. Install(p) => Moved(p, "persist") \/ Rested(p)
  BY GotoMoves, RestRests DEF Install, Labels, Deciding, Leaving, Ended, offVars
<1>7. Persist(p) => Moved(p, "note") \/ Rested(p)
  BY GotoMoves, RestRests DEF Persist, Labels, Deciding, Leaving, Ended
<1>8. Note(p) => Rested(p)
  BY GotoMoves, RestRests DEF Note, Labels, Deciding, Leaving, Ended
<1>9. Intent(p) => \/ Moved(p, "fire") /\ off[ps[p].off].mode = "purge"
                   \/ Moved(p, "pack") /\ off[ps[p].off].mode # "purge"
                   \/ Rested(p)
  BY GotoMoves, RestRests DEF Intent, Labels, Deciding, Leaving, Ended
<1>10. Pack(p) => Moved(p, "handoff") \/ Moved(p, "fire") \/ Rested(p)
  BY GotoMoves, RestRests DEF Pack, Labels, Deciding, Leaving, Ended
<1>11. Handoff(p) => Moved(p, "fire") \/ Rested(p)
  BY GotoMoves, RestRests DEF Handoff, Labels, Deciding, Leaving, Ended
<1>12. Fire(p) => Moved(p, "activity") \/ Rested(p)
  BY GotoMoves, RestRests DEF Fire, Labels, Deciding, Leaving, Ended
<1>13. Receipt(p) => Rested(p)
  BY GotoMoves, RestRests DEF Receipt, Labels, Deciding, Leaving, Ended
<1> QED
  BY <1>1, <1>2, <1>3, <1>4, <1>5, <1>6, <1>7, <1>8, <1>9, <1>10, <1>11, <1>12, <1>13

(* An offboarding that is replaced by one with more in it is kept. *)
LEMMA PutOff ==
  ASSUME Typed, NEW o \in Offs, NEW x \in Offboarding, off' = [off EXCEPT ![o] = x],
         off[o].id # None => x.id = off[o].id /\ x.mode = off[o].mode,
         off[o].fired => x.fired, off[o].pack # <<>> => x.pack # <<>>, off[o].handoff => x.handoff
  PROVE  OffKept /\ off'[o] = x /\ \A q \in Offs \ {o} : off'[q] = off[q]
  BY DEF Typed, OffKept

(* What the steps of an offboarding write. *)
LEMMA PackWrites ==
  ASSUME Sound, NEW p \in Procs, Pack(p)
  PROVE  /\ OffKept
         /\ \/ Rested(p)
            \/ /\ Moved(p, IF off[ps[p].off].mode = "handoff" THEN "handoff" ELSE "fire")
               /\ off'[ps[p].off].pack # <<>>
         /\ \A o \in Offs : off'[o].fired = off[o].fired /\ off'[o].receipt = off[o].receipt
<1> DEFINE o == ps[p].off
           a == [off[o] EXCEPT !.pack = <<memory>>]
           b == [off[o] EXCEPT !.failed = "prepare"]
<1>1. o \in Offs /\ off[o] \in Offboarding /\ memory \in SUBSET Tasks
  BY DEF Sound, Typed, Targets, TargetOf, Pack, At, Leaving
<1>2. /\ a \in Offboarding /\ a.id = off[o].id /\ a.mode = off[o].mode /\ a.receipt = off[o].receipt
      /\ a.pack # <<>> /\ a.fired = off[o].fired /\ a.handoff = off[o].handoff
  BY <1>1 DEF Offboarding
<1>3. /\ b \in Offboarding /\ b.id = off[o].id /\ b.mode = off[o].mode /\ b.receipt = off[o].receipt
      /\ b.fired = off[o].fired /\ b.handoff = off[o].handoff /\ b.pack = off[o].pack
  BY <1>1 DEF Offboarding
<1>4. CASE off' = [off EXCEPT ![o].pack = <<memory>>]
           /\ Goto(p, IF off[o].mode = "handoff" THEN "handoff" ELSE "fire")
  <2>1. off' = [off EXCEPT ![o] = a]
    BY <1>4
  <2> HIDE DEF a
  <2>2. OffKept /\ off'[o] = a /\ \A q \in Offs \ {o} : off'[q] = off[q]
    BY <1>1, <1>2, <2>1, PutOff DEF Sound
  <2>3. Moved(p, IF off[o].mode = "handoff" THEN "handoff" ELSE "fire")
    BY <1>4, GotoMoves DEF Sound, Labels, Leaving
  <2> QED
    BY <1>1, <1>2, <2>2, <2>3
<1>5. CASE off' = [off EXCEPT ![o].failed = "prepare"] /\ Rest(p)
  <2>1. off' = [off EXCEPT ![o] = b]
    BY <1>5
  <2> HIDE DEF b
  <2>2. OffKept /\ off'[o] = b /\ \A q \in Offs \ {o} : off'[q] = off[q]
    BY <1>1, <1>3, <2>1, PutOff DEF Sound
  <2> QED
    BY <1>1, <1>3, <1>5, <2>2, RestRests DEF Sound
<1> QED
  BY <1>4, <1>5 DEF Pack

(* The handoff, *)
LEMMA HandoffWrites ==
  ASSUME Sound, NEW p \in Procs, Handoff(p)
  PROVE  /\ OffKept
         /\ Rested(p) \/ (Moved(p, "fire") /\ off'[ps[p].off].handoff)
         /\ \A o \in Offs : off'[o].fired = off[o].fired /\ off'[o].receipt = off[o].receipt
<1> DEFINE o == ps[p].off
           a == [off[o] EXCEPT !.handoff = TRUE]
           b == [off[o] EXCEPT !.failed = "prepare"]
<1>1. o \in Offs /\ off[o] \in Offboarding
  BY DEF Sound, Typed, Targets, TargetOf, Handoff, At, Leaving
<1>2. /\ a \in Offboarding /\ a.id = off[o].id /\ a.mode = off[o].mode /\ a.receipt = off[o].receipt
      /\ a.handoff /\ a.fired = off[o].fired /\ a.pack = off[o].pack
  BY <1>1 DEF Offboarding
<1>3. /\ b \in Offboarding /\ b.id = off[o].id /\ b.mode = off[o].mode /\ b.receipt = off[o].receipt
      /\ b.fired = off[o].fired /\ b.handoff = off[o].handoff /\ b.pack = off[o].pack
  BY <1>1 DEF Offboarding
<1>4. CASE off' = [off EXCEPT ![o].handoff = TRUE] /\ Goto(p, "fire")
  <2>1. off' = [off EXCEPT ![o] = a]
    BY <1>4
  <2> HIDE DEF a
  <2>2. OffKept /\ off'[o] = a /\ \A q \in Offs \ {o} : off'[q] = off[q]
    BY <1>1, <1>2, <2>1, PutOff DEF Sound
  <2> QED
    BY <1>1, <1>2, <1>4, <2>2, GotoMoves DEF Sound, Labels, Leaving
<1>5. CASE off' = [off EXCEPT ![o].failed = "prepare"] /\ Rest(p)
  <2>1. off' = [off EXCEPT ![o] = b]
    BY <1>5
  <2> HIDE DEF b
  <2>2. OffKept /\ off'[o] = b /\ \A q \in Offs \ {o} : off'[q] = off[q]
    BY <1>1, <1>3, <2>1, PutOff DEF Sound
  <2> QED
    BY <1>1, <1>3, <1>5, <2>2, RestRests DEF Sound
<1> QED
  BY <1>4, <1>5 DEF Handoff

(* the fire, *)
LEMMA FireWrites ==
  ASSUME Sound, NEW p \in Procs, Fire(p)
  PROVE  /\ OffKept
         /\ \/ Rested(p) /\ \A o \in Offs : off'[o].fired = off[o].fired
            \/ /\ Moved(p, "activity") /\ off'[ps[p].off].fired
               /\ \A o \in Offs \ {ps[p].off} : off'[o].fired = off[o].fired
         /\ \A o \in Offs : off'[o].receipt = off[o].receipt
<1> DEFINE o == ps[p].off
           a == [off[o] EXCEPT !.fired = TRUE]
           b == [off[o] EXCEPT !.failed = "fire"]
<1>1. o \in Offs /\ off[o] \in Offboarding
  BY DEF Sound, Typed, Targets, TargetOf, Fire, At, Leaving, Ended
<1>2. /\ a \in Offboarding /\ a.id = off[o].id /\ a.mode = off[o].mode /\ a.receipt = off[o].receipt
      /\ a.fired /\ a.handoff = off[o].handoff /\ a.pack = off[o].pack
  BY <1>1 DEF Offboarding
<1>3. /\ b \in Offboarding /\ b.id = off[o].id /\ b.mode = off[o].mode /\ b.receipt = off[o].receipt
      /\ b.fired = off[o].fired /\ b.handoff = off[o].handoff /\ b.pack = off[o].pack
  BY <1>1 DEF Offboarding
<1>4. CASE off' = [off EXCEPT ![o].fired = TRUE] /\ Goto(p, "activity")
  <2>1. off' = [off EXCEPT ![o] = a]
    BY <1>4
  <2> HIDE DEF a
  <2>2. OffKept /\ off'[o] = a /\ \A q \in Offs \ {o} : off'[q] = off[q]
    BY <1>1, <1>2, <2>1, PutOff DEF Sound
  <2> QED
    BY <1>1, <1>2, <1>4, <2>2, GotoMoves DEF Sound, Labels, Leaving, Ended
<1>5. CASE off' = [off EXCEPT ![o].failed = "fire"] /\ Rest(p)
  <2>1. off' = [off EXCEPT ![o] = b]
    BY <1>5
  <2> HIDE DEF b
  <2>2. OffKept /\ off'[o] = b /\ \A q \in Offs \ {o} : off'[q] = off[q]
    BY <1>1, <1>3, <2>1, PutOff DEF Sound
  <2> QED
    BY <1>1, <1>3, <1>5, <2>2, RestRests DEF Sound
<1> QED
  BY <1>4, <1>5 DEF Fire

(* the receipt, *)
LEMMA ReceiptWrites ==
  ASSUME Sound, NEW p \in Procs, Receipt(p)
  PROVE  /\ OffKept /\ Rested(p)
         /\ \A o \in Offs : off'[o].fired = off[o].fired
         /\ \A o \in Offs \ {ps[p].off} : off'[o].receipt = off[o].receipt
         /\ \/ UNCHANGED off
            \/ off'[ps[p].off].receipt = [outcome |-> IF ps[p].partial THEN "partial" ELSE "completed",
                                          deleted |-> ps[p].deleted]
<1> DEFINE o == ps[p].off
           r == [outcome |-> IF ps[p].partial THEN "partial" ELSE "completed", deleted |-> ps[p].deleted]
           a == [off[o] EXCEPT !.receipt = r]
<1>1. o \in Offs /\ off[o] \in Offboarding /\ ps[p] \in Process
  BY DEF Sound, Typed, Targets, TargetOf, Receipt, At, Leaving, Ended
<1>2. r \in [outcome : {"partial", "completed"}, deleted : 0..4]
  BY <1>1 DEF Process
<1> HIDE DEF r
<1>3. a \in Offboarding /\ a.receipt = r /\ a.id = off[o].id /\ a.mode = off[o].mode
      /\ a.fired = off[o].fired /\ a.pack = off[o].pack /\ a.handoff = off[o].handoff
  BY <1>1, <1>2 DEF Offboarding
<1>4. CASE off' = [off EXCEPT ![o].receipt = r] /\ Rest(p)
  <2>1. off' = [off EXCEPT ![o] = a]
    BY <1>4
  <2>2. OffKept /\ off'[o] = a /\ \A q \in Offs \ {o} : off'[q] = off[q]
    BY <1>1, <1>3, <2>1, PutOff DEF Sound
  <2> QED
    BY <1>1, <1>3, <1>4, <2>2, RestRests DEF Sound, r
<1>5. CASE UNCHANGED off /\ Rest(p)
  BY <1>5, RestRests, KeptOff DEF Sound
<1> QED
  BY <1>4, <1>5 DEF Receipt, r

(* and the intent, for an offboarding nobody is at. *)
LEMMA OffboardWrites ==
  ASSUME Sound, NEW p \in Procs, NEW o \in Offs, NEW mode \in Modes, Offboard(p, o, mode)
  PROVE  /\ OffKept /\ off[o].id = None /\ off'[o].id \in Ids /\ off'[o].mode \in Modes
         /\ \A q \in Offs : off'[q].fired = off[q].fired /\ off'[q].receipt = off[q].receipt
         /\ \A q \in Offs \ {o} : off'[q] = off[q]
         /\ Put(p, "intent") /\ ps'[p].off = o /\ ps'[p].id = off'[o].id
         /\ ps'[p].deleted = ps[p].deleted
<1> DEFINE a == [off[o] EXCEPT !.id = The(roster).id, !.mode = mode]
           x == [ps[p] EXCEPT !.pc = "intent", !.off = o, !.id = The(roster).id]
<1>1. /\ off[o].id = None /\ Hired(roster) /\ roster \in Seq(Entry)
      /\ off[o] \in Offboarding /\ ps[p] \in Process
  BY DEF Offboard, Sound, Typed
<1>2. The(roster).id \in Ids
  BY <1>1, TheFirst DEF Entry
<1>3. /\ a \in Offboarding /\ a.id = The(roster).id /\ a.mode = mode
      /\ a.fired = off[o].fired /\ a.pack = off[o].pack /\ a.handoff = off[o].handoff
      /\ a.receipt = off[o].receipt
  BY <1>1, <1>2 DEF Offboarding
<1>4. /\ x \in Process /\ x.pc = "intent" /\ x.off = o /\ x.id = The(roster).id
      /\ x.deleted = ps[p].deleted
  BY <1>1, <1>2, ZenonT(30) DEF Process, Labels, Leaving
<1>5. off' = [off EXCEPT ![o] = a] /\ ps' = [ps EXCEPT ![p] = x]
  BY DEF Offboard
<1> HIDE DEF a, x
<1>6. OffKept /\ off'[o] = a /\ \A q \in Offs \ {o} : off'[q] = off[q]
  BY <1>1, <1>3, <1>5, PutOff DEF Sound
<1>7. Put(p, "intent") /\ ps'[p] = x
  BY <1>4, <1>5, PutPuts DEF Sound
<1> QED
  BY <1>1, <1>2, <1>3, <1>4, <1>6, <1>7

(* The steps that write more of a process than its label. *)
LEMMA DecideMoves ==
  ASSUME Sound, NEW p \in Procs, NEW t \in Trials, NEW v \in Verdicts, Decide(p, t, v)
  PROVE  /\ Put(p, IF trial[t].status = v THEN "kpi" ELSE IF v = "accepted" THEN "mark" ELSE "save")
         /\ ps'[p].trial = t /\ ps'[p].verdict = v /\ ps'[p].deleted = ps[p].deleted
<1> DEFINE l == IF trial[t].status = v THEN "kpi" ELSE IF v = "accepted" THEN "mark" ELSE "save"
           x == [ps[p] EXCEPT !.trial = t, !.verdict = v, !.pc = l]
<1>1. l \in Labels /\ ps[p] \in Process
  BY DEF Labels, Deciding, Sound, Typed
<1>2. ps' = [ps EXCEPT ![p] = x]
  BY DEF Decide
<1> HIDE DEF l
<1>3. x \in Process /\ x.pc = l /\ x.trial = t /\ x.verdict = v /\ x.deleted = ps[p].deleted
  BY <1>1 DEF Process
<1> HIDE DEF x
<1>4. Put(p, l) /\ ps'[p] = x
  BY <1>2, <1>3, PutPuts DEF Sound
<1> QED
  BY <1>3, <1>4 DEF l

(* A hire from a trial takes the trial's grants, *)
LEMMA HireFromTrialMoves ==
  ASSUME Sound, NEW p \in Procs, NEW t \in Trials, HireFromTrial(p, t)
  PROVE  /\ Put(p, "hire") /\ ps'[p].trial = t /\ ps'[p].grants = trial[t].grants
         /\ ps'[p].deleted = ps[p].deleted
<1> DEFINE x == [ps[p] EXCEPT !.pc = "hire", !.trial = t, !.grants = trial[t].grants, !.version = registry]
<1>1. ps[p] \in Process /\ trial[t] \in TrialRun /\ registry \in Nat
  BY DEF Sound, Typed
<1>2. ps' = [ps EXCEPT ![p] = x]
  BY DEF HireFromTrial
<1>3. x \in Process /\ x.pc = "hire" /\ x.trial = t /\ x.grants = trial[t].grants /\ x.deleted = ps[p].deleted
  BY <1>1, ZenonT(30) DEF Process, Labels, TrialRun, Given, Grants
<1> HIDE DEF x
<1> QED
  BY <1>2, <1>3, PutPuts DEF Sound

(* one from the command line names its source, *)
LEMMA HireCommandMoves ==
  ASSUME Sound, NEW p \in Procs, NEW granted \in SUBSET Conditional, NEW skipped \in SUBSET Conditional,
         NEW source \in {"cli", "website"}, HireCommand(p, granted, skipped, source)
  PROVE  /\ Put(p, "persist") \/ Put(p, "install")
         /\ ps'[p].source = source /\ ps'[p].deleted = ps[p].deleted
<1> DEFINE a == [ps[p] EXCEPT !.pc = "persist", !.version = registry, !.source = source,
                              !.grants = Plan(The(roster).grants, granted, skipped)]
           b == [ps[p] EXCEPT !.pc = "install", !.fresh = TRUE, !.version = registry, !.source = source,
                              !.grants = Plan(Conditional, granted, skipped)]
<1>1. ps[p] \in Process /\ registry \in Nat
  BY DEF Sound, Typed
<1>2. ps' = [ps EXCEPT ![p] = a] \/ ps' = [ps EXCEPT ![p] = b]
  BY DEF HireCommand
<1>3. a \in Process /\ a.pc = "persist" /\ a.source = source /\ a.deleted = ps[p].deleted
  BY <1>1, PlanIs DEF Process, Labels, Sources
<1>4. b \in Process /\ b.pc = "install" /\ b.source = source /\ b.deleted = ps[p].deleted
  BY <1>1, PlanIs DEF Process, Labels, Sources
<1> HIDE DEF a, b
<1> QED
  BY <1>2, <1>3, <1>4, PutPuts DEF Sound

(* the activity entry decides whether the receipt is partial, *)
LEMMA RecordMoves ==
  ASSUME Sound, NEW p \in Procs, Record(p)
  PROVE  /\ Put(p, IF off[ps[p].off].mode = "purge" THEN "purge" ELSE "receipt")
         /\ ps'[p].partial = (activity'[ps[p].off] = "none")
         /\ ps'[p].off = ps[p].off /\ ps'[p].id = ps[p].id /\ ps'[p].deleted = ps[p].deleted
         /\ activity' \in [Offs -> {"none", "linked", "unlinked"}]
         /\ \A o \in Offs : activity[o] # "none" => activity'[o] # "none"
<1> DEFINE l == IF off[ps[p].off].mode = "purge" THEN "purge" ELSE "receipt"
           b == activity'[ps[p].off] = "none"
           x == [ps[p] EXCEPT !.pc = l, !.partial = b]
<1>1. l \in Labels /\ ps[p] \in Process /\ b \in BOOLEAN
  BY DEF Labels, Leaving, Ended, Sound, Typed
<1>2. ps' = [ps EXCEPT ![p] = x]
  BY DEF Record
<1>3. /\ activity' \in [Offs -> {"none", "linked", "unlinked"}]
      /\ \A o \in Offs : activity[o] # "none" => activity'[o] # "none"
  BY DEF Record, Sound, Typed
<1> HIDE DEF l, b
<1>4. /\ x \in Process /\ x.pc = l /\ x.partial = b /\ x.off = ps[p].off /\ x.id = ps[p].id
      /\ x.deleted = ps[p].deleted
  BY <1>1 DEF Process
<1> HIDE DEF x
<1>5. Put(p, l) /\ ps'[p] = x
  BY <1>2, <1>4, PutPuts DEF Sound
<1> QED
  BY <1>3, <1>4, <1>5 DEF l, b

(* a purge takes the lock when nobody is hired, *)
LEMMA PurgeBeginsMoves ==
  ASSUME Sound, NEW p \in Procs, PurgeBegins(p)
  PROVE  \/ Moved(p, "delete") /\ lock = None /\ lock' = p /\ ~Hired(roster)
         \/ /\ Put(p, "receipt") /\ ps'[p].partial /\ ps'[p].off = ps[p].off /\ ps'[p].id = ps[p].id
            /\ ps'[p].deleted = ps[p].deleted /\ UNCHANGED lock
<1> DEFINE x == [ps[p] EXCEPT !.pc = "receipt", !.partial = TRUE]
<1>1. ps[p] \in Process
  BY DEF Sound, Typed
<1>2. CASE lock' = p /\ Goto(p, "delete") /\ ~Hired(roster)
  BY <1>2, GotoMoves DEF PurgeBegins, Sound, Labels, Leaving, Ended
<1>3. CASE ps' = [ps EXCEPT ![p].pc = "receipt", ![p].partial = TRUE] /\ UNCHANGED lock
  <2>1. ps' = [ps EXCEPT ![p] = x]
    BY <1>3
  <2>2. /\ x \in Process /\ x.pc = "receipt" /\ x.partial /\ x.off = ps[p].off /\ x.id = ps[p].id
        /\ x.deleted = ps[p].deleted
    BY <1>1 DEF Process, Labels, Leaving, Ended
  <2> HIDE DEF x
  <2> QED
    BY <1>3, <2>1, <2>2, PutPuts, ZenonT(30) DEF Sound
<1> QED
  BY <1>2, <1>3 DEF PurgeBegins

(* and lets go of it after the fourth scope or the first that fails. *)
LEMMA DeleteMoves ==
  ASSUME Sound, NEW p \in Procs, Delete(p)
  PROVE  /\ Put(p, "delete") \/ Put(p, "receipt")
         /\ ps'[p].off = ps[p].off /\ ps'[p].id = ps[p].id
         /\ ps'[p].pc = "delete" => ps'[p].deleted < 4 /\ UNCHANGED lock
         /\ ps'[p].pc = "receipt" => lock' = None /\ (ps'[p].deleted = 4 \/ ps'[p].partial)
         /\ ps'[p].partial = ps[p].partial \/ ps'[p].partial
         /\ memory' \subseteq memory
<1> DEFINE n == ps[p].deleted + 1
           l == IF n = 4 THEN "receipt" ELSE "delete"
           a == [ps[p] EXCEPT !.deleted = n, !.pc = l]
           b == [ps[p] EXCEPT !.partial = TRUE, !.pc = "receipt"]
<1>1. ps[p] \in Process /\ ps[p].pc = "delete" /\ ps[p].deleted < 4
  BY DEF Sound, Typed, Counted, CountOf, Delete, At
<1>2. n \in 1..4 /\ memory' \subseteq memory
  BY <1>1 DEF Delete, Process
<1>3. CASE ps' = [ps EXCEPT ![p].deleted = n, ![p].pc = IF n = 4 THEN "receipt" ELSE @]
           /\ lock' = IF n = 4 THEN None ELSE lock
  <2>1. ps' = [ps EXCEPT ![p] = a]
    BY <1>1, <1>3
  <2>2. l \in Labels /\ n \in 0..4
    BY <1>2 DEF Labels, Leaving, Ended
  <2>3. l = "delete" => n < 4 /\ UNCHANGED lock
    BY <1>2, <1>3
  <2>4. l = "receipt" => n = 4 /\ lock' = None
    BY <1>3
  <2>5. l = "delete" \/ l = "receipt"
    OBVIOUS
  <2> HIDE DEF l, n
  <2>6. /\ a \in Process /\ a.pc = l /\ a.deleted = n
        /\ a.partial = ps[p].partial /\ a.off = ps[p].off /\ a.id = ps[p].id
    BY <1>1, <2>2 DEF Process
  <2> HIDE DEF a
  <2>7. Put(p, l) /\ ps'[p] = a
    BY <2>1, <2>6, PutPuts DEF Sound
  <2> QED
    BY <1>2, <2>3, <2>4, <2>5, <2>6, <2>7 DEF Put
<1>4. CASE ps' = [ps EXCEPT ![p].partial = TRUE, ![p].pc = "receipt"] /\ lock' = None
  <2>1. ps' = [ps EXCEPT ![p] = b]
    BY <1>4
  <2>2. /\ b \in Process /\ b.pc = "receipt" /\ b.partial /\ b.off = ps[p].off /\ b.id = ps[p].id
    BY <1>1 DEF Process, Labels, Leaving, Ended
  <2> HIDE DEF b
  <2>3. Put(p, b.pc) /\ ps'[p] = b
    BY <2>1, <2>2, PutPuts DEF Sound
  <2> QED
    BY <1>2, <1>4, <2>2, <2>3
<1> QED
  BY <1>3, <1>4 DEF Delete

(* The steps that write to the trials, and to the activity ledger, keep their types. *)
LEMMA TrialTypes ==
  ASSUME Sound, NEW p \in Procs
  PROVE  /\ \A t \in Trials : RunTrial(p, t) => trial' \in [Trials -> TrialRun]
         /\ Mark(p) \/ Save(p) => trial' \in [Trials -> TrialRun]
         /\ Count(p) => kpi' \in [Trials -> Verdicts \union {"none"}]
         /\ Reflect(p) => learned' \in [Trials -> Verdicts \union {"none"}]
<1>1. ASSUME NEW t \in Trials, RunTrial(p, t) PROVE trial' \in [Trials -> TrialRun]
  <2>1. PICK g \in Grants, s \in {"delivered", "failed"} :
          trial' = [trial EXCEPT ![t] = [status |-> s, grants |-> g, marked |-> FALSE]]
    BY <1>1 DEF RunTrial
  <2>2. [status |-> s, grants |-> g, marked |-> FALSE] \in TrialRun
    BY DEF TrialRun, Given
  <2> QED
    BY <2>1, <2>2 DEF Sound, Typed
<1>2. CASE At(p, "mark") \/ At(p, "save") \/ At(p, "kpi") \/ At(p, "reflect")
  <2>1. ps[p].trial \in Trials /\ ps[p].verdict \in Verdicts
    BY <1>2 DEF Sound, Targets, TargetOf, At, Deciding
  <2>2. Mark(p) => trial' \in [Trials -> TrialRun]
    <3> DEFINE x == [trial[ps[p].trial] EXCEPT !.marked = TRUE]
    <3>1. x \in TrialRun
      <4>1. trial[ps[p].trial] \in TrialRun
        BY <2>1 DEF Sound, Typed
      <4>2. \A r \in TrialRun : [r EXCEPT !.marked = TRUE] \in TrialRun
        BY DEF TrialRun
      <4> QED
        BY <4>1, <4>2
    <3>2. Mark(p) => trial' = trial \/ trial' = [trial EXCEPT ![ps[p].trial] = x]
      BY DEF Mark
    <3> QED
      BY <3>1, <3>2 DEF Sound, Typed
  <2>3. Save(p) => trial' \in [Trials -> TrialRun]
    <3> DEFINE x == [trial[ps[p].trial] EXCEPT !.status = ps[p].verdict]
    <3>1. x \in TrialRun
      <4>1. trial[ps[p].trial] \in TrialRun
        BY <2>1 DEF Sound, Typed
      <4>2. ps[p].verdict \in {"none", "delivered", "failed", "accepted", "rejected"}
        BY <2>1 DEF Verdicts
      <4>3. \A r \in TrialRun, v \in {"none", "delivered", "failed", "accepted", "rejected"} :
              [r EXCEPT !.status = v] \in TrialRun
        BY DEF TrialRun
      <4> QED
        BY <4>1, <4>2, <4>3
    <3>2. Save(p) => trial' = trial \/ trial' = [trial EXCEPT ![ps[p].trial] = x]
      BY DEF Save
    <3> QED
      BY <3>1, <3>2 DEF Sound, Typed
  <2>4. Count(p) => kpi' \in [Trials -> Verdicts \union {"none"}]
    BY <2>1 DEF Count, Sound, Typed
  <2>5. Reflect(p) => learned' \in [Trials -> Verdicts \union {"none"}]
    BY <2>1 DEF Reflect, Sound, Typed
  <2> QED
    BY <1>1, <2>2, <2>3, <2>4, <2>5
<1> QED
  BY <1>1, <1>2 DEF Mark, Save, Count, Reflect

(* So does the roster after a hire from the command line, *)
LEMMA PersistTypes ==
  ASSUME Sound, NEW p \in Procs, Persist(p) PROVE roster' \in Seq(Entry)
<1>1. ps[p].source \in Sources
  BY DEF Sound, Targets, TargetOf, Persist, At
<1> QED
  BY <1>1, PersistRoster DEF Sound

(* and the activity ledger after its note. *)
LEMMA NoteTypes ==
  ASSUME Sound, NEW p \in Procs, Note(p)
  PROVE  /\ activity' \in [Offs -> {"none", "linked", "unlinked"}]
         /\ \A o \in Offs : activity[o] # "none" => activity'[o] # "none"
  BY DEF Sound, Typed, Note

(* Each step is sound. *)
LEMMA SoundStep == Sound /\ [Next]_vars => Sound'
<1> SUFFICES ASSUME Sound, [Next]_vars PROVE Sound'
  OBVIOUS
<1> USE DEF Sound
<1>1. ASSUME NEW p \in Procs, NEW t \in Trials, RunTrial(p, t) PROVE Sound'
  <2>1. UNCHANGED ps
    BY <1>1 DEF RunTrial
  <2>2. OffKept
    BY <1>1, KeptOff DEF RunTrial, offVars
  <2>3. Typed'
    BY <1>1, <2>1, <2>2, TrialTypes
       DEF RunTrial, Typed, OffKept, world, dataVars, offVars, trialVars
  <2> QED
    BY <2>1, <2>2, <2>3, NobodyMoves
<1>2. ASSUME NEW p \in Procs, NEW t \in Trials, NEW v \in Verdicts, Decide(p, t, v) PROVE Sound'
  <2>1. /\ Put(p, IF trial[t].status = v THEN "kpi" ELSE IF v = "accepted" THEN "mark" ELSE "save")
        /\ ps'[p].trial = t /\ ps'[p].verdict = v /\ ps'[p].deleted = ps[p].deleted
    BY <1>2, DecideMoves
  <2>2. OffKept
    BY <1>2, KeptOff DEF Decide, offVars
  <2>3. ps' \in [Procs -> Process] /\ Others(p)
    BY <2>1 DEF Put
  <2>4. ps[p].pc = "idle" /\ TargetOf(p) /\ CountOf(p) /\ Free(p) /\ p \in Requests
    BY <1>2 DEF Decide, At, Begins, Targets, Counted
  <2>5. Disciplined(p)
    BY <2>1, <2>2, <2>4, TeamAssumption
       DEF Disciplined, TargetOf, CountOf, OffKept, Put, Procs, Deciding, Leaving, Ended, Sync
  <2>6. Typed'
    BY <1>2, <2>1, <2>2, <2>3 DEF Decide, Typed, OffKept, world, dataVars, offVars, trialVars
  <2> QED
    BY <2>2, <2>3, <2>5, <2>6, OneMoves
<1>3. ASSUME NEW p \in Procs, NEW t \in Trials, HireFromTrial(p, t) PROVE Sound'
  <2>1. Put(p, "hire") /\ ps'[p].trial = t /\ ps'[p].deleted = ps[p].deleted
    BY <1>3, HireFromTrialMoves
  <2>2. OffKept
    BY <1>3, KeptOff DEF HireFromTrial, offVars
  <2>3. ps' \in [Procs -> Process] /\ Others(p)
    BY <2>1 DEF Put
  <2>4. ps[p].pc = "idle" /\ TargetOf(p) /\ CountOf(p) /\ Free(p) /\ p \in Requests
    BY <1>3 DEF HireFromTrial, At, Begins, Targets, Counted
  <2>5. Disciplined(p)
    BY <2>1, <2>2, <2>4, TeamAssumption
       DEF Disciplined, TargetOf, CountOf, OffKept, Put, Procs, Deciding, Leaving, Ended, Sync
  <2>6. Typed'
    BY <1>3, <2>1, <2>2, <2>3
       DEF HireFromTrial, Typed, OffKept, world, dataVars, offVars, trialVars
  <2> QED
    BY <2>2, <2>3, <2>5, <2>6, OneMoves
<1>4. ASSUME NEW p \in Procs, NEW granted \in SUBSET Conditional, NEW skipped \in SUBSET Conditional,
                    NEW source \in {"cli", "website"}, HireCommand(p, granted, skipped, source) PROVE Sound'
  <2>1. /\ Put(p, "persist") \/ Put(p, "install")
        /\ ps'[p].source = source /\ ps'[p].deleted = ps[p].deleted
    BY <1>4, HireCommandMoves
  <2>2. OffKept
    BY <1>4, KeptOff DEF HireCommand, offVars
  <2>3. ps' \in [Procs -> Process] /\ Others(p)
    BY <2>1 DEF Put
  <2>4. ps[p].pc = "idle" /\ TargetOf(p) /\ CountOf(p)
    BY <1>4 DEF HireCommand, At, Begins, Targets, Counted
  <2>5. Disciplined(p)
    BY <2>1, <2>2, <2>4, TeamAssumption
       DEF Disciplined, TargetOf, CountOf, OffKept, Put, Procs, Deciding, Leaving, Ended, Sync,
           Sources
  <2>6. Typed'
    BY <1>4, <2>1, <2>2, <2>3 DEF HireCommand, Typed, OffKept, world, dataVars, offVars, trialVars
  <2> QED
    BY <2>2, <2>3, <2>5, <2>6, OneMoves
<1>5. ASSUME NEW p \in Procs, Update(p) PROVE Sound'
  <2>1. UNCHANGED ps
    BY <1>5 DEF Update
  <2>2. OffKept
    BY <1>5, KeptOff DEF Update, offVars
  <2>3. Typed'
    BY <1>5, <2>1, <2>2, UpdateRoster
       DEF Update, Typed, OffKept, world, dataVars, offVars, trialVars
  <2> QED
    BY <2>1, <2>2, <2>3, NobodyMoves
<1>6. ASSUME NEW p \in Procs, NEW o \in Offs, NEW mode \in Modes, Offboard(p, o, mode) PROVE Sound'
  <2>1. /\ Put(p, "intent") /\ ps'[p].off = o /\ ps'[p].id = off'[o].id /\ off[o].id = None
        /\ off'[o].id \in Ids /\ off'[o].mode \in Modes /\ ps'[p].deleted = ps[p].deleted
    BY <1>6, OffboardWrites
  <2>2. OffKept
    BY <1>6, OffboardWrites
  <2>3. ps' \in [Procs -> Process] /\ Others(p)
    BY <2>1 DEF Put
  <2>4. ps[p].pc = "idle" /\ TargetOf(p) /\ CountOf(p) /\ Free(p)
    BY <1>6 DEF Offboard, At, Begins, Targets, Counted
  <2>5. Disciplined(p)
    BY <2>1, <2>2, <2>4, TeamAssumption
       DEF Disciplined, TargetOf, CountOf, OffKept, Put, Procs, Deciding, Leaving, Ended, Sync
  <2>6. Typed'
    BY <1>6, <2>1, <2>2, <2>3 DEF Offboard, Typed, OffKept, world, dataVars, offVars, trialVars
  <2> QED
    BY <2>2, <2>3, <2>5, <2>6, OneMoves
<1>7. ASSUME NEW p \in Procs, Mark(p) PROVE Sound'
  <2>1. Moved(p, "save") \/ Rested(p)
    BY <1>7, Control
  <2>2. OffKept
    BY <1>7, KeptOff DEF Mark, offVars
  <2>3. ps' \in [Procs -> Process] /\ Others(p)
    BY <2>1 DEF Moved, Rested
  <2>4. ps[p].pc = "mark" /\ TargetOf(p) /\ CountOf(p)
    BY <1>7 DEF Mark, At, Targets, Counted
  <2>5. Disciplined(p)
    BY <2>1, <2>2, <2>4, TeamAssumption
       DEF Disciplined, TargetOf, CountOf, OffKept, Moved, Rested, Procs, Deciding, Leaving,
           Ended, Sync
  <2>6. Typed'
    BY <1>7, <2>1, <2>2, <2>3, TrialTypes
       DEF Mark, Typed, OffKept, world, dataVars, offVars, trialVars
  <2> QED
    BY <2>2, <2>3, <2>5, <2>6, OneMoves
<1>8. ASSUME NEW p \in Procs, Save(p) PROVE Sound'
  <2>1. Moved(p, "kpi") \/ Rested(p)
    BY <1>8, Control
  <2>2. OffKept
    BY <1>8, KeptOff DEF Save, offVars
  <2>3. ps' \in [Procs -> Process] /\ Others(p)
    BY <2>1 DEF Moved, Rested
  <2>4. ps[p].pc = "save" /\ TargetOf(p) /\ CountOf(p)
    BY <1>8 DEF Save, At, Targets, Counted
  <2>5. Disciplined(p)
    BY <2>1, <2>2, <2>4, TeamAssumption
       DEF Disciplined, TargetOf, CountOf, OffKept, Moved, Rested, Procs, Deciding, Leaving,
           Ended, Sync
  <2>6. Typed'
    BY <1>8, <2>1, <2>2, <2>3, TrialTypes
       DEF Save, Typed, OffKept, world, dataVars, offVars, trialVars
  <2> QED
    BY <2>2, <2>3, <2>5, <2>6, OneMoves
<1>9. ASSUME NEW p \in Procs, Count(p) PROVE Sound'
  <2>1. Moved(p, "reflect") \/ Rested(p)
    BY <1>9, Control
  <2>2. OffKept
    BY <1>9, KeptOff DEF Count, offVars
  <2>3. ps' \in [Procs -> Process] /\ Others(p)
    BY <2>1 DEF Moved, Rested
  <2>4. ps[p].pc = "kpi" /\ TargetOf(p) /\ CountOf(p)
    BY <1>9 DEF Count, At, Targets, Counted
  <2>5. Disciplined(p)
    BY <2>1, <2>2, <2>4, TeamAssumption
       DEF Disciplined, TargetOf, CountOf, OffKept, Moved, Rested, Procs, Deciding, Leaving,
           Ended, Sync
  <2>6. Typed'
    BY <1>9, <2>1, <2>2, <2>3, TrialTypes
       DEF Count, Typed, OffKept, world, dataVars, offVars, trialVars
  <2> QED
    BY <2>2, <2>3, <2>5, <2>6, OneMoves
<1>10. ASSUME NEW p \in Procs, Reflect(p) PROVE Sound'
  <2>1. Rested(p)
    BY <1>10, Control
  <2>2. OffKept
    BY <1>10, KeptOff DEF Reflect, offVars
  <2>3. ps' \in [Procs -> Process] /\ Others(p)
    BY <2>1 DEF Rested
  <2>4. ps[p].pc = "reflect" /\ TargetOf(p) /\ CountOf(p)
    BY <1>10 DEF Reflect, At, Targets, Counted
  <2>5. Disciplined(p)
    BY <2>1, <2>2, <2>4, TeamAssumption
       DEF Disciplined, TargetOf, CountOf, OffKept, Rested, Procs, Deciding, Leaving, Ended, Sync
  <2>6. Typed'
    BY <1>10, <2>1, <2>2, <2>3, TrialTypes
       DEF Reflect, Typed, OffKept, world, dataVars, offVars, trialVars
  <2> QED
    BY <2>2, <2>3, <2>5, <2>6, OneMoves
<1>11. ASSUME NEW p \in Procs, HireLocal(p) PROVE Sound'
  <2>1. Rested(p)
    BY <1>11, Control
  <2>2. OffKept
    BY <1>11, KeptOff DEF HireLocal, offVars
  <2>3. ps' \in [Procs -> Process] /\ Others(p)
    BY <2>1 DEF Rested
  <2>4. ps[p].pc = "hire" /\ TargetOf(p) /\ CountOf(p)
    BY <1>11 DEF HireLocal, At, Targets, Counted
  <2>5. Disciplined(p)
    BY <2>1, <2>2, <2>4, TeamAssumption
       DEF Disciplined, TargetOf, CountOf, OffKept, Rested, Procs, Deciding, Leaving, Ended, Sync
  <2>6. Typed'
    BY <1>11, <2>1, <2>2, <2>3, HireLocalRoster
       DEF HireLocal, Typed, OffKept, world, dataVars, offVars, trialVars
  <2> QED
    BY <2>2, <2>3, <2>5, <2>6, OneMoves
<1>12. ASSUME NEW p \in Procs, Install(p) PROVE Sound'
  <2>1. Moved(p, "persist") \/ Rested(p)
    BY <1>12, Control
  <2>2. OffKept
    BY <1>12, KeptOff DEF Install, offVars
  <2>3. ps' \in [Procs -> Process] /\ Others(p)
    BY <2>1 DEF Moved, Rested
  <2>4. ps[p].pc = "install" /\ TargetOf(p) /\ CountOf(p)
    BY <1>12 DEF Install, At, Targets, Counted
  <2>5. Disciplined(p)
    BY <2>1, <2>2, <2>4, TeamAssumption
       DEF Disciplined, TargetOf, CountOf, OffKept, Moved, Rested, Procs, Deciding, Leaving,
           Ended, Sync
  <2>6. Typed'
    BY <1>12, <2>1, <2>2, <2>3 DEF Install, Typed, OffKept, world, dataVars, offVars, trialVars
  <2> QED
    BY <2>2, <2>3, <2>5, <2>6, OneMoves
<1>13. ASSUME NEW p \in Procs, Persist(p) PROVE Sound'
  <2>1. Moved(p, "note") \/ Rested(p)
    BY <1>13, Control
  <2>2. OffKept
    BY <1>13, KeptOff DEF Persist, offVars
  <2>3. ps' \in [Procs -> Process] /\ Others(p)
    BY <2>1 DEF Moved, Rested
  <2>4. ps[p].pc = "persist" /\ TargetOf(p) /\ CountOf(p)
    BY <1>13 DEF Persist, At, Targets, Counted
  <2>5. Disciplined(p)
    BY <2>1, <2>2, <2>4, TeamAssumption
       DEF Disciplined, TargetOf, CountOf, OffKept, Moved, Rested, Procs, Deciding, Leaving,
           Ended, Sync
  <2>6. Typed'
    BY <1>13, <2>1, <2>2, <2>3, PersistTypes
       DEF Persist, Typed, OffKept, world, dataVars, offVars, trialVars
  <2> QED
    BY <2>2, <2>3, <2>5, <2>6, OneMoves
<1>14. ASSUME NEW p \in Procs, Note(p) PROVE Sound'
  <2>1. Rested(p)
    BY <1>14, Control
  <2>2. OffKept
    BY <1>14, KeptOff DEF Note
  <2>3. ps' \in [Procs -> Process] /\ Others(p)
    BY <2>1 DEF Rested
  <2>4. ps[p].pc = "note" /\ TargetOf(p) /\ CountOf(p)
    BY <1>14 DEF Note, At, Targets, Counted
  <2>5. Disciplined(p)
    BY <2>1, <2>2, <2>4, TeamAssumption
       DEF Disciplined, TargetOf, CountOf, OffKept, Rested, Procs, Deciding, Leaving, Ended, Sync
  <2>6. Typed'
    BY <1>14, <2>1, <2>2, <2>3, NoteTypes
       DEF Note, Typed, OffKept, world, dataVars, offVars, trialVars
  <2> QED
    BY <2>2, <2>3, <2>5, <2>6, OneMoves
<1>15. ASSUME NEW p \in Procs, Intent(p) PROVE Sound'
  <2>1. \/ Moved(p, "fire") /\ off[ps[p].off].mode = "purge"
        \/ Moved(p, "pack") /\ off[ps[p].off].mode # "purge"
        \/ Rested(p)
    BY <1>15, Control
  <2>2. OffKept
    BY <1>15, KeptOff DEF Intent, offVars
  <2>3. ps' \in [Procs -> Process] /\ Others(p)
    BY <2>1 DEF Moved, Rested
  <2>4. ps[p].pc = "intent" /\ TargetOf(p) /\ CountOf(p)
    BY <1>15 DEF Intent, At, Targets, Counted
  <2>5. Disciplined(p)
    BY <2>1, <2>2, <2>4, TeamAssumption
       DEF Disciplined, TargetOf, CountOf, OffKept, Moved, Rested, Procs, Deciding, Leaving,
           Ended, Sync
  <2>6. Typed'
    BY <1>15, <2>1, <2>2, <2>3 DEF Intent, Typed, OffKept, world, dataVars, offVars, trialVars
  <2> QED
    BY <2>2, <2>3, <2>5, <2>6, OneMoves
<1>16. ASSUME NEW p \in Procs, Pack(p) PROVE Sound'
  <2>1. Moved(p, "handoff") \/ Moved(p, "fire") \/ Rested(p)
    BY <1>16, Control
  <2>2. OffKept
    BY <1>16, PackWrites
  <2>3. ps' \in [Procs -> Process] /\ Others(p)
    BY <2>1 DEF Moved, Rested
  <2>4. ps[p].pc = "pack" /\ TargetOf(p) /\ CountOf(p)
    BY <1>16 DEF Pack, At, Targets, Counted
  <2>5. Disciplined(p)
    BY <2>1, <2>2, <2>4, TeamAssumption
       DEF Disciplined, TargetOf, CountOf, OffKept, Moved, Rested, Procs, Deciding, Leaving,
           Ended, Sync
  <2>6. Typed'
    BY <1>16, <2>1, <2>2, <2>3 DEF Pack, Typed, OffKept, world, dataVars, offVars, trialVars
  <2> QED
    BY <2>2, <2>3, <2>5, <2>6, OneMoves
<1>17. ASSUME NEW p \in Procs, Handoff(p) PROVE Sound'
  <2>1. Moved(p, "fire") \/ Rested(p)
    BY <1>17, Control
  <2>2. OffKept
    BY <1>17, HandoffWrites
  <2>3. ps' \in [Procs -> Process] /\ Others(p)
    BY <2>1 DEF Moved, Rested
  <2>4. ps[p].pc = "handoff" /\ TargetOf(p) /\ CountOf(p)
    BY <1>17 DEF Handoff, At, Targets, Counted
  <2>5. Disciplined(p)
    BY <2>1, <2>2, <2>4, TeamAssumption
       DEF Disciplined, TargetOf, CountOf, OffKept, Moved, Rested, Procs, Deciding, Leaving,
           Ended, Sync
  <2>6. Typed'
    BY <1>17, <2>1, <2>2, <2>3 DEF Handoff, Typed, OffKept, world, dataVars, offVars, trialVars
  <2> QED
    BY <2>2, <2>3, <2>5, <2>6, OneMoves
<1>18. ASSUME NEW p \in Procs, Fire(p) PROVE Sound'
  <2>1. Moved(p, "activity") \/ Rested(p)
    BY <1>18, Control
  <2>2. OffKept
    BY <1>18, FireWrites
  <2>3. ps' \in [Procs -> Process] /\ Others(p)
    BY <2>1 DEF Moved, Rested
  <2>4. ps[p].pc = "fire" /\ TargetOf(p) /\ CountOf(p)
    BY <1>18 DEF Fire, At, Targets, Counted
  <2>5. Disciplined(p)
    BY <2>1, <2>2, <2>4, TeamAssumption
       DEF Disciplined, TargetOf, CountOf, OffKept, Moved, Rested, Procs, Deciding, Leaving,
           Ended, Sync
  <2>6. Typed'
    BY <1>18, <2>1, <2>2, <2>3, FireRoster
       DEF Fire, Typed, OffKept, world, dataVars, offVars, trialVars
  <2> QED
    BY <2>2, <2>3, <2>5, <2>6, OneMoves
<1>19. ASSUME NEW p \in Procs, Record(p) PROVE Sound'
  <2>1. /\ Put(p, IF off[ps[p].off].mode = "purge" THEN "purge" ELSE "receipt")
        /\ ps'[p].off = ps[p].off /\ ps'[p].id = ps[p].id /\ ps'[p].deleted = ps[p].deleted
    BY <1>19, RecordMoves
  <2>2. OffKept
    BY <1>19, KeptOff DEF Record
  <2>3. ps' \in [Procs -> Process] /\ Others(p)
    BY <2>1 DEF Put
  <2>4. ps[p].pc = "activity" /\ TargetOf(p) /\ CountOf(p)
    BY <1>19 DEF Record, At, Targets, Counted
  <2>5. Disciplined(p)
    BY <2>1, <2>2, <2>4, TeamAssumption
       DEF Disciplined, TargetOf, CountOf, OffKept, Put, Procs, Deciding, Leaving, Ended, Sync
  <2>6. Typed'
    BY <1>19, <2>1, <2>2, <2>3, RecordMoves
       DEF Record, Typed, OffKept, world, dataVars, offVars, trialVars
  <2> QED
    BY <2>2, <2>3, <2>5, <2>6, OneMoves
<1>20. ASSUME NEW p \in Procs, PurgeBegins(p) PROVE Sound'
  <2>1. \/ Moved(p, "delete")
        \/ /\ Put(p, "receipt") /\ ps'[p].off = ps[p].off /\ ps'[p].id = ps[p].id
           /\ ps'[p].deleted = ps[p].deleted
    BY <1>20, PurgeBeginsMoves
  <2>2. OffKept
    BY <1>20, KeptOff DEF PurgeBegins, offVars
  <2>3. ps' \in [Procs -> Process] /\ Others(p)
    BY <2>1 DEF Moved, Put
  <2>4. ps[p].pc = "purge" /\ TargetOf(p) /\ CountOf(p)
    BY <1>20 DEF PurgeBegins, At, Targets, Counted
  <2>5. Disciplined(p)
    BY <2>1, <2>2, <2>4, TeamAssumption
       DEF Disciplined, TargetOf, CountOf, OffKept, Moved, Put, Procs, Deciding, Leaving, Ended,
           Sync
  <2>6. Typed'
    BY <1>20, <2>1, <2>2, <2>3
       DEF PurgeBegins, Typed, OffKept, world, dataVars, offVars, trialVars
  <2> QED
    BY <2>2, <2>3, <2>5, <2>6, OneMoves
<1>21. ASSUME NEW p \in Procs, Delete(p) PROVE Sound'
  <2>1. /\ Put(p, "delete") \/ Put(p, "receipt")
        /\ ps'[p].off = ps[p].off /\ ps'[p].id = ps[p].id
        /\ ps'[p].pc = "delete" => ps'[p].deleted < 4
    BY <1>21, DeleteMoves
  <2>2. OffKept
    BY <1>21, KeptOff DEF Delete, offVars
  <2>3. ps' \in [Procs -> Process] /\ Others(p)
    BY <2>1 DEF Put
  <2>4. ps[p].pc = "delete" /\ TargetOf(p) /\ CountOf(p)
    BY <1>21 DEF Delete, At, Targets, Counted
  <2>5. Disciplined(p)
    BY <2>1, <2>2, <2>4, TeamAssumption
       DEF Disciplined, TargetOf, CountOf, OffKept, Put, Procs, Deciding, Leaving, Ended, Sync
  <2>6. Typed'
    BY <1>21, <2>1, <2>2, <2>3, DeleteMoves
       DEF Delete, Typed, OffKept, world, dataVars, offVars, trialVars
  <2> QED
    BY <2>2, <2>3, <2>5, <2>6, OneMoves
<1>22. ASSUME NEW p \in Procs, Receipt(p) PROVE Sound'
  <2>1. Rested(p)
    BY <1>22, Control
  <2>2. OffKept
    BY <1>22, ReceiptWrites
  <2>3. ps' \in [Procs -> Process] /\ Others(p)
    BY <2>1 DEF Rested
  <2>4. ps[p].pc = "receipt" /\ TargetOf(p) /\ CountOf(p)
    BY <1>22 DEF Receipt, At, Targets, Counted
  <2>5. Disciplined(p)
    BY <2>1, <2>2, <2>4, TeamAssumption
       DEF Disciplined, TargetOf, CountOf, OffKept, Rested, Procs, Deciding, Leaving, Ended, Sync
  <2>6. Typed'
    BY <1>22, <2>1, <2>2, <2>3 DEF Receipt, Typed, OffKept, world, dataVars, offVars, trialVars
  <2> QED
    BY <2>2, <2>3, <2>5, <2>6, OneMoves
<1>23. ASSUME NEW k \in Tasks, Start(k) \/ Learn(k) PROVE Sound'
  <2>1. UNCHANGED ps /\ OffKept
    BY <1>23, KeptOff DEF Start, Learn, offVars
  <2>2. Typed'
    BY <1>23, <2>1 DEF Start, Learn, Scopes, Typed, OffKept, world, dataVars, offVars, trialVars
  <2> QED
    BY <2>1, <2>2, NobodyMoves
<1>24. ASSUME Tick \/ Release PROVE Sound'
  <2>1. UNCHANGED ps /\ OffKept
    BY <1>24, KeptOff DEF Tick, Release, offVars
  <2>2. Typed'
    BY <1>24, <2>1 DEF Tick, Release, Typed, OffKept, world, dataVars, offVars, trialVars
  <2> QED
    BY <2>1, <2>2, NobodyMoves
<1>25. ASSUME NEW dead, Die(dead) PROVE Sound'
  <2>1. /\ ps' = [p \in Procs |-> IF p \in dead THEN Idle ELSE ps[p]]
        /\ lock' = IF lock \in dead THEN None ELSE lock
        /\ UNCHANGED <<roster, world, dataVars, offVars, trialVars>>
    BY <1>25 DEF Die
  <2>2. Idle.pc = "idle" /\ Idle.deleted = 0
    BY DEF Idle
  <2>3. Typed'
    BY <2>1, IdleIs DEF Typed, world, dataVars, offVars, trialVars
  <2>4. Targets' /\ Counted'
    BY <2>1, <2>2 DEF Targets, TargetOf, Counted, CountOf, offVars, Deciding, Leaving, Ended
  <2>5. OneSync' /\ SoleOff'
    BY <2>1, <2>2 DEF OneSync, SoleOff, Procs, Leaving, Ended, Sync
  <2> QED
    BY <2>3, <2>4, <2>5
<1>26. ASSUME UNCHANGED vars PROVE Sound'
  <2>1. UNCHANGED ps /\ OffKept
    BY <1>26, KeptOff DEF vars, offVars
  <2>2. Typed'
    BY <1>26 DEF vars, Typed, world, dataVars, offVars, trialVars
  <2> QED
    BY <2>1, <2>2, NobodyMoves
<1> QED
  BY <1>1, <1>2, <1>3, <1>4, <1>5, <1>6, <1>7, <1>8, <1>9, <1>10, <1>11, <1>12, <1>13, <1>14,
     <1>15, <1>16, <1>17, <1>18, <1>19, <1>20, <1>21, <1>22, <1>23, <1>24, <1>25, <1>26
     DEF Next, User, Handler, Verdicts

-----------------------------------------------------------------------------
(* The books of an offboarding. *)

(* What the step of one process must keep to itself, of the books. *)
Tidy(p) ==
  /\ PreparedBy(p)'
  /\ ps'[p].pc = "delete" <=> lock' = p
  /\ \A q \in Procs \ {p} : lock' = q <=> lock = q
  /\ \A o \in Offs : off'[o].fired => off[o].fired \/ (Exported(o) /\ off[o].id # None)
  /\ \A o \in Offs : activity[o] # "none" => activity'[o] # "none"
  /\ \A o \in Offs : off'[o].receipt = off[o].receipt \/ TrueReceipt(o)'

(* If it does, the books are kept, *)
LEMMA TidyMoves ==
  ASSUME Sound, Books, NEW p \in Procs, Others(p), OffKept, Tidy(p)
  PROVE  Books'
<1>1. LockHeld'
  BY DEF Books, LockHeld, Others, Tidy
<1>2. Prepared'
  <2> SUFFICES ASSUME NEW q \in Procs PROVE PreparedBy(q)'
    BY DEF Prepared
  <2>1. CASE q = p
    BY <2>1 DEF Tidy
  <2>2. CASE q # p
    <3>1. ps'[q] = ps[q] /\ PreparedBy(q)
      BY <2>2 DEF Others, Books, Prepared
    <3>2. ps[q].pc \in Leaving => ps[q].off \in Offs /\ off[ps[q].off].id # None
      BY TeamAssumption DEF Sound, Targets, TargetOf
    <3> QED
      BY <3>1, <3>2 DEF PreparedBy, Exported, OffKept, Tidy, Leaving, Ended
  <2> QED
    BY <2>1, <2>2
<1>3. FiredExported'
  <2> SUFFICES ASSUME NEW o \in Offs, off'[o].fired PROVE Exported(o)' /\ off'[o].id # None
    BY DEF FiredExported
  <2>1. Exported(o) /\ off[o].id # None
    BY DEF Books, FiredExported, Tidy
  <2> QED
    BY <2>1 DEF Exported, OffKept
<1>4. ReceiptIsTrue'
  <2> SUFFICES ASSUME NEW o \in Offs PROVE TrueReceipt(o)'
    BY DEF ReceiptIsTrue, TrueReceipt
  <2>1. CASE off'[o].receipt = off[o].receipt
    <3>1. TrueReceipt(o) /\ (off[o].fired => off[o].id # None)
      BY DEF Books, ReceiptIsTrue, TrueReceipt, FiredExported
    <3> QED
      BY <2>1, <3>1 DEF TrueReceipt, OffKept, Tidy
  <2> QED
    BY <2>1 DEF Tidy
<1> QED
  BY <1>1, <1>2, <1>3, <1>4 DEF Books

(* What comes after the memory pack. *)
Late == {"handoff", "fire"} \union Ended

(* Whoever does not take part in an offboarding, and is at rest or not in one after his step, leaves the books alone. *)
LEMMA Bystander ==
  ASSUME Sound, Books, NEW p \in Procs, ps[p].pc # "delete", ps'[p].pc \notin Late, lock' = lock,
         \A o \in Offs : /\ off'[o].fired = off[o].fired /\ off'[o].receipt = off[o].receipt
                         /\ activity[o] # "none" => activity'[o] # "none"
  PROVE  Tidy(p)
<1>1. PreparedBy(p)'
  BY DEF PreparedBy, Late, Ended
<1>2. lock # p
  BY DEF Books, LockHeld
<1> QED
  BY <1>1, <1>2 DEF Tidy, Late, Ended

(* and if nothing is written to them. *)
LEMMA BooksStay ==
  ASSUME Sound, Books, UNCHANGED <<ps, lock, offVars>> PROVE Books'
  BY DEF Books, LockHeld, Prepared, PreparedBy, FiredExported, Exported, ReceiptIsTrue, offVars

(* Each step keeps the books. *)
LEMMA BooksStep == Sound /\ Books /\ [Next]_vars => Books'
<1> SUFFICES ASSUME Sound, Books, [Next]_vars PROVE Books'
  OBVIOUS
<1> USE DEF Sound
<1>1. ASSUME NEW p \in Procs, NEW t \in Trials, RunTrial(p, t) PROVE Books'
  BY <1>1, BooksStay DEF RunTrial, offVars
<1>2. ASSUME NEW p \in Procs, NEW t \in Trials, NEW v \in Verdicts, Decide(p, t, v) PROVE Books'
  <2>1. /\ Put(p, IF trial[t].status = v THEN "kpi" ELSE IF v = "accepted" THEN "mark" ELSE "save")
        /\ ps'[p].trial = t /\ ps'[p].verdict = v /\ ps'[p].deleted = ps[p].deleted
    BY <1>2, DecideMoves
  <2>2. OffKept
    BY <1>2, KeptOff DEF Decide, offVars
  <2>3. Others(p) /\ ps[p].pc = "idle"
    BY <1>2, <2>1 DEF Decide, At, Begins, Put
  <2>4. \A o \in Offs : /\ off'[o].fired = off[o].fired /\ off'[o].receipt = off[o].receipt
                        /\ activity[o] # "none" => activity'[o] # "none"
    BY <1>2 DEF Decide, offVars
  <2>5. lock' = lock /\ ps'[p].pc \notin Late
    BY <1>2, <2>1 DEF Decide, Put, Late, Ended, Verdicts
  <2>6. Tidy(p)
    BY <2>3, <2>4, <2>5, Bystander
  <2> QED
    BY <2>2, <2>3, <2>6, TidyMoves
<1>3. ASSUME NEW p \in Procs, NEW t \in Trials, HireFromTrial(p, t) PROVE Books'
  <2>1. Put(p, "hire") /\ ps'[p].trial = t /\ ps'[p].deleted = ps[p].deleted
    BY <1>3, HireFromTrialMoves
  <2>2. OffKept
    BY <1>3, KeptOff DEF HireFromTrial, offVars
  <2>3. Others(p) /\ ps[p].pc = "idle"
    BY <1>3, <2>1 DEF HireFromTrial, At, Begins, Put
  <2>4. \A o \in Offs : /\ off'[o].fired = off[o].fired /\ off'[o].receipt = off[o].receipt
                        /\ activity[o] # "none" => activity'[o] # "none"
    BY <1>3 DEF HireFromTrial, offVars
  <2>5. lock' = lock /\ ps'[p].pc \notin Late
    BY <1>3, <2>1 DEF HireFromTrial, Put, Late, Ended
  <2>6. Tidy(p)
    BY <2>3, <2>4, <2>5, Bystander
  <2> QED
    BY <2>2, <2>3, <2>6, TidyMoves
<1>4. ASSUME NEW p \in Procs, NEW granted \in SUBSET Conditional, NEW skipped \in SUBSET Conditional,
                    NEW source \in {"cli", "website"}, HireCommand(p, granted, skipped, source) PROVE Books'
  <2>1. /\ Put(p, "persist") \/ Put(p, "install")
        /\ ps'[p].source = source /\ ps'[p].deleted = ps[p].deleted
    BY <1>4, HireCommandMoves
  <2>2. OffKept
    BY <1>4, KeptOff DEF HireCommand, offVars
  <2>3. Others(p) /\ ps[p].pc = "idle"
    BY <1>4, <2>1 DEF HireCommand, At, Begins, Put
  <2>4. \A o \in Offs : /\ off'[o].fired = off[o].fired /\ off'[o].receipt = off[o].receipt
                        /\ activity[o] # "none" => activity'[o] # "none"
    BY <1>4 DEF HireCommand, offVars
  <2>5. lock' = lock /\ ps'[p].pc \notin Late
    BY <1>4, <2>1 DEF HireCommand, Put, Late, Ended
  <2>6. Tidy(p)
    BY <2>3, <2>4, <2>5, Bystander
  <2> QED
    BY <2>2, <2>3, <2>6, TidyMoves
<1>5. ASSUME NEW p \in Procs, Update(p) PROVE Books'
  BY <1>5, BooksStay DEF Update, offVars
<1>6. ASSUME NEW p \in Procs, NEW o \in Offs, NEW mode \in Modes, Offboard(p, o, mode) PROVE Books'
  <2>1. /\ Put(p, "intent") /\ ps'[p].off = o /\ ps'[p].id = off'[o].id /\ off[o].id = None
        /\ off'[o].id \in Ids /\ off'[o].mode \in Modes /\ ps'[p].deleted = ps[p].deleted
    BY <1>6, OffboardWrites
  <2>2. OffKept
    BY <1>6, OffboardWrites
  <2>3. Others(p) /\ ps[p].pc = "idle"
    BY <1>6, <2>1 DEF Offboard, At, Begins, Put
  <2>4. \A c \in Offs : /\ off'[c].fired = off[c].fired /\ off'[c].receipt = off[c].receipt
                        /\ activity[c] # "none" => activity'[c] # "none"
    BY <1>6, OffboardWrites DEF Offboard
  <2>5. lock' = lock /\ ps'[p].pc \notin Late
    BY <1>6, <2>1 DEF Offboard, Put, Late, Ended
  <2>6. Tidy(p)
    BY <2>3, <2>4, <2>5, Bystander
  <2> QED
    BY <2>2, <2>3, <2>6, TidyMoves
<1>7. ASSUME NEW p \in Procs, Mark(p) PROVE Books'
  <2>1. Moved(p, "save") \/ Rested(p)
    BY <1>7, Control
  <2>2. OffKept
    BY <1>7, KeptOff DEF Mark, offVars
  <2>3. Others(p) /\ ps[p].pc = "mark"
    BY <1>7, <2>1 DEF Mark, At, Moved, Rested
  <2>4. \A o \in Offs : /\ off'[o].fired = off[o].fired /\ off'[o].receipt = off[o].receipt
                        /\ activity[o] # "none" => activity'[o] # "none"
    BY <1>7 DEF Mark, offVars
  <2>5. lock' = lock /\ ps'[p].pc \notin Late
    BY <1>7, <2>1 DEF Mark, Moved, Rested, Late, Ended
  <2>6. Tidy(p)
    BY <2>3, <2>4, <2>5, Bystander
  <2> QED
    BY <2>2, <2>3, <2>6, TidyMoves
<1>8. ASSUME NEW p \in Procs, Save(p) PROVE Books'
  <2>1. Moved(p, "kpi") \/ Rested(p)
    BY <1>8, Control
  <2>2. OffKept
    BY <1>8, KeptOff DEF Save, offVars
  <2>3. Others(p) /\ ps[p].pc = "save"
    BY <1>8, <2>1 DEF Save, At, Moved, Rested
  <2>4. \A o \in Offs : /\ off'[o].fired = off[o].fired /\ off'[o].receipt = off[o].receipt
                        /\ activity[o] # "none" => activity'[o] # "none"
    BY <1>8 DEF Save, offVars
  <2>5. lock' = lock /\ ps'[p].pc \notin Late
    BY <1>8, <2>1 DEF Save, Moved, Rested, Late, Ended
  <2>6. Tidy(p)
    BY <2>3, <2>4, <2>5, Bystander
  <2> QED
    BY <2>2, <2>3, <2>6, TidyMoves
<1>9. ASSUME NEW p \in Procs, Count(p) PROVE Books'
  <2>1. Moved(p, "reflect") \/ Rested(p)
    BY <1>9, Control
  <2>2. OffKept
    BY <1>9, KeptOff DEF Count, offVars
  <2>3. Others(p) /\ ps[p].pc = "kpi"
    BY <1>9, <2>1 DEF Count, At, Moved, Rested
  <2>4. \A o \in Offs : /\ off'[o].fired = off[o].fired /\ off'[o].receipt = off[o].receipt
                        /\ activity[o] # "none" => activity'[o] # "none"
    BY <1>9 DEF Count, offVars
  <2>5. lock' = lock /\ ps'[p].pc \notin Late
    BY <1>9, <2>1 DEF Count, Moved, Rested, Late, Ended
  <2>6. Tidy(p)
    BY <2>3, <2>4, <2>5, Bystander
  <2> QED
    BY <2>2, <2>3, <2>6, TidyMoves
<1>10. ASSUME NEW p \in Procs, Reflect(p) PROVE Books'
  <2>1. Rested(p)
    BY <1>10, Control
  <2>2. OffKept
    BY <1>10, KeptOff DEF Reflect, offVars
  <2>3. Others(p) /\ ps[p].pc = "reflect"
    BY <1>10, <2>1 DEF Reflect, At, Rested
  <2>4. \A o \in Offs : /\ off'[o].fired = off[o].fired /\ off'[o].receipt = off[o].receipt
                        /\ activity[o] # "none" => activity'[o] # "none"
    BY <1>10 DEF Reflect, offVars
  <2>5. lock' = lock /\ ps'[p].pc \notin Late
    BY <1>10, <2>1 DEF Reflect, Rested, Late, Ended
  <2>6. Tidy(p)
    BY <2>3, <2>4, <2>5, Bystander
  <2> QED
    BY <2>2, <2>3, <2>6, TidyMoves
<1>11. ASSUME NEW p \in Procs, HireLocal(p) PROVE Books'
  <2>1. Rested(p)
    BY <1>11, Control
  <2>2. OffKept
    BY <1>11, KeptOff DEF HireLocal, offVars
  <2>3. Others(p) /\ ps[p].pc = "hire"
    BY <1>11, <2>1 DEF HireLocal, At, Rested
  <2>4. \A o \in Offs : /\ off'[o].fired = off[o].fired /\ off'[o].receipt = off[o].receipt
                        /\ activity[o] # "none" => activity'[o] # "none"
    BY <1>11 DEF HireLocal, offVars
  <2>5. lock' = lock /\ ps'[p].pc \notin Late
    BY <1>11, <2>1 DEF HireLocal, Rested, Late, Ended
  <2>6. Tidy(p)
    BY <2>3, <2>4, <2>5, Bystander
  <2> QED
    BY <2>2, <2>3, <2>6, TidyMoves
<1>12. ASSUME NEW p \in Procs, Install(p) PROVE Books'
  <2>1. Moved(p, "persist") \/ Rested(p)
    BY <1>12, Control
  <2>2. OffKept
    BY <1>12, KeptOff DEF Install, offVars
  <2>3. Others(p) /\ ps[p].pc = "install"
    BY <1>12, <2>1 DEF Install, At, Moved, Rested
  <2>4. \A o \in Offs : /\ off'[o].fired = off[o].fired /\ off'[o].receipt = off[o].receipt
                        /\ activity[o] # "none" => activity'[o] # "none"
    BY <1>12 DEF Install, offVars
  <2>5. lock' = lock /\ ps'[p].pc \notin Late
    BY <1>12, <2>1 DEF Install, Moved, Rested, Late, Ended
  <2>6. Tidy(p)
    BY <2>3, <2>4, <2>5, Bystander
  <2> QED
    BY <2>2, <2>3, <2>6, TidyMoves
<1>13. ASSUME NEW p \in Procs, Persist(p) PROVE Books'
  <2>1. Moved(p, "note") \/ Rested(p)
    BY <1>13, Control
  <2>2. OffKept
    BY <1>13, KeptOff DEF Persist, offVars
  <2>3. Others(p) /\ ps[p].pc = "persist"
    BY <1>13, <2>1 DEF Persist, At, Moved, Rested
  <2>4. \A o \in Offs : /\ off'[o].fired = off[o].fired /\ off'[o].receipt = off[o].receipt
                        /\ activity[o] # "none" => activity'[o] # "none"
    BY <1>13 DEF Persist, offVars
  <2>5. lock' = lock /\ ps'[p].pc \notin Late
    BY <1>13, <2>1 DEF Persist, Moved, Rested, Late, Ended
  <2>6. Tidy(p)
    BY <2>3, <2>4, <2>5, Bystander
  <2> QED
    BY <2>2, <2>3, <2>6, TidyMoves
<1>14. ASSUME NEW p \in Procs, Note(p) PROVE Books'
  <2>1. Rested(p)
    BY <1>14, Control
  <2>2. OffKept
    BY <1>14, KeptOff DEF Note
  <2>3. Others(p) /\ ps[p].pc = "note"
    BY <1>14, <2>1 DEF Note, At, Rested
  <2>4. \A o \in Offs : /\ off'[o].fired = off[o].fired /\ off'[o].receipt = off[o].receipt
                        /\ activity[o] # "none" => activity'[o] # "none"
    BY <1>14, NoteTypes DEF Note
  <2>5. lock' = lock /\ ps'[p].pc \notin Late
    BY <1>14, <2>1 DEF Note, Rested, Late, Ended
  <2>6. Tidy(p)
    BY <2>3, <2>4, <2>5, Bystander
  <2> QED
    BY <2>2, <2>3, <2>6, TidyMoves
<1>15. ASSUME NEW p \in Procs, Intent(p) PROVE Books'
  <2>1. \/ Moved(p, "fire") /\ off[ps[p].off].mode = "purge"
        \/ Moved(p, "pack") /\ off[ps[p].off].mode # "purge"
        \/ Rested(p)
    BY <1>15, Control
  <2>2. OffKept
    BY <1>15, KeptOff DEF Intent, offVars
  <2>3. Others(p) /\ ps[p].pc = "intent"
    BY <1>15, <2>1 DEF Intent, At, Moved, Rested
  <2>4. PreparedBy(p) /\ TargetOf(p) /\ CountOf(p) /\ ps[p] \in Process /\ (ps[p].pc = "delete" <=> lock = p)
    BY DEF Books, Prepared, Targets, Counted, Typed, LockHeld
  <2>5. PreparedBy(p)'
    BY <1>15, <2>1, <2>2, <2>3, <2>4, TeamAssumption
       DEF Intent, PreparedBy, Exported, TargetOf, OffKept, Moved, Rested, Modes, Process,
           offVars, Labels, Deciding, Leaving, Ended
  <2>6. /\ ps'[p].pc = "delete" <=> lock' = p
        /\ \A q \in Procs \ {p} : lock' = q <=> lock = q
    BY <1>15, <2>1, <2>3, <2>4, TeamAssumption DEF Intent, Moved, Rested, Procs
  <2>7. \A o \in Offs : off'[o].fired => off[o].fired \/ (Exported(o) /\ off[o].id # None)
    BY <1>15, <2>1, <2>3, <2>4, TeamAssumption
       DEF Intent, PreparedBy, TargetOf, offVars, Deciding, Leaving, Ended
  <2>8. \A o \in Offs : activity[o] # "none" => activity'[o] # "none"
    BY <1>15 DEF Intent, offVars
  <2>9. \A o \in Offs : off'[o].receipt = off[o].receipt \/ TrueReceipt(o)'
    BY <1>15, <2>2, <2>3, <2>4
       DEF Intent, PreparedBy, TargetOf, OffKept, TrueReceipt, offVars, Deciding, Leaving, Ended
  <2>10. Tidy(p)
    BY <2>5, <2>6, <2>7, <2>8, <2>9 DEF Tidy
  <2> QED
    BY <2>2, <2>3, <2>10, TidyMoves
<1>16. ASSUME NEW p \in Procs, Pack(p) PROVE Books'
  <2>1. Moved(p, "handoff") \/ Moved(p, "fire") \/ Rested(p)
    BY <1>16, Control
  <2>2. OffKept
    BY <1>16, PackWrites
  <2>3. Others(p) /\ ps[p].pc = "pack"
    BY <1>16, <2>1 DEF Pack, At, Moved, Rested
  <2>4. PreparedBy(p) /\ TargetOf(p) /\ CountOf(p) /\ ps[p] \in Process /\ (ps[p].pc = "delete" <=> lock = p)
    BY DEF Books, Prepared, Targets, Counted, Typed, LockHeld
  <2>5. PreparedBy(p)'
    <3>1. \/ Rested(p)
          \/ /\ Moved(p, IF off[ps[p].off].mode = "handoff" THEN "handoff" ELSE "fire")
             /\ off'[ps[p].off].pack # <<>>
      BY <1>16, PackWrites
    <3>2. ps[p].off \in Offs /\ off'[ps[p].off].mode = off[ps[p].off].mode
      BY <2>2, <2>3, <2>4, TeamAssumption DEF TargetOf, OffKept, Leaving
    <3> QED
      BY <3>1, <3>2 DEF PreparedBy, Exported, Moved, Rested, Ended
  <2>6. /\ ps'[p].pc = "delete" <=> lock' = p
        /\ \A q \in Procs \ {p} : lock' = q <=> lock = q
    BY <1>16, <2>1, <2>3, <2>4, TeamAssumption, PackWrites DEF Pack, Moved, Rested, Procs
  <2>7. \A o \in Offs : off'[o].fired => off[o].fired \/ (Exported(o) /\ off[o].id # None)
    BY <1>16, <2>1, <2>3, <2>4, TeamAssumption, PackWrites
       DEF Pack, PreparedBy, TargetOf, Deciding, Leaving, Ended
  <2>8. \A o \in Offs : activity[o] # "none" => activity'[o] # "none"
    BY <1>16, PackWrites DEF Pack
  <2>9. \A o \in Offs : off'[o].receipt = off[o].receipt \/ TrueReceipt(o)'
    BY <1>16, <2>2, <2>3, <2>4, PackWrites
       DEF Pack, PreparedBy, TargetOf, OffKept, TrueReceipt, Deciding, Leaving, Ended
  <2>10. Tidy(p)
    BY <2>5, <2>6, <2>7, <2>8, <2>9 DEF Tidy
  <2> QED
    BY <2>2, <2>3, <2>10, TidyMoves
<1>17. ASSUME NEW p \in Procs, Handoff(p) PROVE Books'
  <2>1. Moved(p, "fire") \/ Rested(p)
    BY <1>17, Control
  <2>2. OffKept
    BY <1>17, HandoffWrites
  <2>3. Others(p) /\ ps[p].pc = "handoff"
    BY <1>17, <2>1 DEF Handoff, At, Moved, Rested
  <2>4. PreparedBy(p) /\ TargetOf(p) /\ CountOf(p) /\ ps[p] \in Process /\ (ps[p].pc = "delete" <=> lock = p)
    BY DEF Books, Prepared, Targets, Counted, Typed, LockHeld
  <2>5. PreparedBy(p)'
    <3>1. CASE Rested(p)
      BY <3>1 DEF Rested, PreparedBy, Ended
    <3>2. CASE Moved(p, "fire") /\ off'[ps[p].off].handoff
      <4>1. ps[p].off \in Offs /\ off[ps[p].off].id \in Ids
        BY <2>3, <2>4 DEF TargetOf, Leaving
      <4>2. off[ps[p].off].pack # <<>>
        BY <2>3, <2>4 DEF PreparedBy
      <4>3. off'[ps[p].off].pack # <<>>
        BY <2>2, <4>1, <4>2 DEF OffKept
      <4>4. ps'[p].pc = "fire" /\ ps'[p].off = ps[p].off
        BY <3>2 DEF Moved
      <4>5. Exported(ps[p].off)'
        BY <3>2, <4>3, <4>4 DEF Exported
      <4> QED
        BY <4>4, <4>5 DEF PreparedBy, Exported, Ended
    <3> QED
      BY <1>17, <3>1, <3>2, HandoffWrites
  <2>6. /\ ps'[p].pc = "delete" <=> lock' = p
        /\ \A q \in Procs \ {p} : lock' = q <=> lock = q
    BY <1>17, <2>1, <2>3, <2>4, TeamAssumption, HandoffWrites DEF Handoff, Moved, Rested, Procs
  <2>7. \A o \in Offs : off'[o].fired => off[o].fired \/ (Exported(o) /\ off[o].id # None)
    BY <1>17, <2>1, <2>3, <2>4, TeamAssumption, HandoffWrites
       DEF Handoff, PreparedBy, TargetOf, Deciding, Leaving, Ended
  <2>8. \A o \in Offs : activity[o] # "none" => activity'[o] # "none"
    BY <1>17, HandoffWrites DEF Handoff
  <2>9. \A o \in Offs : off'[o].receipt = off[o].receipt \/ TrueReceipt(o)'
    BY <1>17, <2>2, <2>3, <2>4, HandoffWrites
       DEF Handoff, PreparedBy, TargetOf, OffKept, TrueReceipt, Deciding, Leaving, Ended
  <2>10. Tidy(p)
    BY <2>5, <2>6, <2>7, <2>8, <2>9 DEF Tidy
  <2> QED
    BY <2>2, <2>3, <2>10, TidyMoves
<1>18. ASSUME NEW p \in Procs, Fire(p) PROVE Books'
  <2>1. Moved(p, "activity") \/ Rested(p)
    BY <1>18, Control
  <2>2. OffKept
    BY <1>18, FireWrites
  <2>3. Others(p) /\ ps[p].pc = "fire"
    BY <1>18, <2>1 DEF Fire, At, Moved, Rested
  <2>4. PreparedBy(p) /\ TargetOf(p) /\ CountOf(p) /\ ps[p] \in Process /\ (ps[p].pc = "delete" <=> lock = p)
    BY DEF Books, Prepared, Targets, Counted, Typed, LockHeld
  <2>5. PreparedBy(p)'
    BY <1>18, <2>1, <2>2, <2>3, <2>4, TeamAssumption, FireWrites
       DEF Fire, PreparedBy, Exported, TargetOf, OffKept, Moved, Rested, Modes, Process, Labels,
           Deciding, Leaving, Ended
  <2>6. /\ ps'[p].pc = "delete" <=> lock' = p
        /\ \A q \in Procs \ {p} : lock' = q <=> lock = q
    BY <1>18, <2>1, <2>3, <2>4, TeamAssumption, FireWrites DEF Fire, Moved, Rested, Procs
  <2>7. \A o \in Offs : off'[o].fired => off[o].fired \/ (Exported(o) /\ off[o].id # None)
    <3> SUFFICES ASSUME NEW o \in Offs, off'[o].fired, ~off[o].fired
                 PROVE  Exported(o) /\ off[o].id # None
      OBVIOUS
    <3>1. o = ps[p].off
      BY <1>18, FireWrites
    <3>2. Exported(ps[p].off)
      BY <2>3, <2>4 DEF PreparedBy
    <3>3. off[ps[p].off].id \in Ids
      BY <2>3, <2>4 DEF TargetOf, Leaving
    <3> QED
      BY <3>1, <3>2, <3>3, TeamAssumption
  <2>8. \A o \in Offs : activity[o] # "none" => activity'[o] # "none"
    BY <1>18, FireWrites DEF Fire
  <2>9. \A o \in Offs : off'[o].receipt = off[o].receipt \/ TrueReceipt(o)'
    BY <1>18, <2>2, <2>3, <2>4, FireWrites
       DEF Fire, PreparedBy, TargetOf, OffKept, TrueReceipt, Deciding, Leaving, Ended
  <2>10. Tidy(p)
    BY <2>5, <2>6, <2>7, <2>8, <2>9 DEF Tidy
  <2> QED
    BY <2>2, <2>3, <2>10, TidyMoves
<1>19. ASSUME NEW p \in Procs, Record(p) PROVE Books'
  <2>1. /\ Put(p, IF off[ps[p].off].mode = "purge" THEN "purge" ELSE "receipt")
        /\ ps'[p].off = ps[p].off /\ ps'[p].id = ps[p].id /\ ps'[p].deleted = ps[p].deleted
    BY <1>19, RecordMoves
  <2>2. OffKept
    BY <1>19, KeptOff DEF Record
  <2>3. Others(p) /\ ps[p].pc = "activity"
    BY <1>19, <2>1 DEF Record, At, Put
  <2>4. PreparedBy(p) /\ TargetOf(p) /\ CountOf(p) /\ ps[p] \in Process /\ (ps[p].pc = "delete" <=> lock = p)
    BY DEF Books, Prepared, Targets, Counted, Typed, LockHeld
  <2>5. PreparedBy(p)'
    <3>1. off' = off /\ off[ps[p].off].fired
      BY <1>19, <2>3, <2>4 DEF Record, PreparedBy, Ended
    <3>2. /\ Put(p, IF off[ps[p].off].mode = "purge" THEN "purge" ELSE "receipt")
          /\ ps'[p].partial = (activity'[ps[p].off] = "none") /\ ps'[p].off = ps[p].off
      BY <1>19, RecordMoves
    <3> QED
      BY <3>1, <3>2 DEF PreparedBy, Put, Ended
  <2>6. /\ ps'[p].pc = "delete" <=> lock' = p
        /\ \A q \in Procs \ {p} : lock' = q <=> lock = q
    <3>1. lock' = lock
      BY <1>19 DEF Record
    <3> QED
      BY <2>1, <2>3, <2>4, <3>1 DEF Put
  <2>7. \A o \in Offs : off'[o].fired => off[o].fired \/ (Exported(o) /\ off[o].id # None)
    BY <1>19, <2>1, <2>3, <2>4, TeamAssumption, RecordMoves
       DEF Record, PreparedBy, TargetOf, Deciding, Leaving, Ended
  <2>8. \A o \in Offs : activity[o] # "none" => activity'[o] # "none"
    BY <1>19, RecordMoves DEF Record
  <2>9. \A o \in Offs : off'[o].receipt = off[o].receipt \/ TrueReceipt(o)'
    BY <1>19, <2>2, <2>3, <2>4, RecordMoves
       DEF Record, PreparedBy, TargetOf, OffKept, TrueReceipt, Deciding, Leaving, Ended
  <2>10. Tidy(p)
    BY <2>5, <2>6, <2>7, <2>8, <2>9 DEF Tidy
  <2> QED
    BY <2>2, <2>3, <2>10, TidyMoves
<1>20. ASSUME NEW p \in Procs, PurgeBegins(p) PROVE Books'
  <2>1. \/ Moved(p, "delete")
        \/ /\ Put(p, "receipt") /\ ps'[p].off = ps[p].off /\ ps'[p].id = ps[p].id
           /\ ps'[p].deleted = ps[p].deleted
    BY <1>20, PurgeBeginsMoves
  <2>2. OffKept
    BY <1>20, KeptOff DEF PurgeBegins, offVars
  <2>3. Others(p) /\ ps[p].pc = "purge"
    BY <1>20, <2>1 DEF PurgeBegins, At, Moved, Put
  <2>4. PreparedBy(p) /\ TargetOf(p) /\ CountOf(p) /\ ps[p] \in Process /\ (ps[p].pc = "delete" <=> lock = p)
    BY DEF Books, Prepared, Targets, Counted, Typed, LockHeld
  <2>5. PreparedBy(p)'
    BY <1>20, <2>1, <2>2, <2>3, <2>4, TeamAssumption, PurgeBeginsMoves
       DEF PurgeBegins, PreparedBy, Exported, TargetOf, OffKept, Moved, Put, Modes, Process,
           offVars, Labels, Deciding, Leaving, Ended
  <2>6. /\ ps'[p].pc = "delete" <=> lock' = p
        /\ \A q \in Procs \ {p} : lock' = q <=> lock = q
    BY <1>20, <2>1, <2>3, <2>4, TeamAssumption, PurgeBeginsMoves
       DEF PurgeBegins, Moved, Put, Procs
  <2>7. \A o \in Offs : off'[o].fired => off[o].fired \/ (Exported(o) /\ off[o].id # None)
    BY <1>20, <2>1, <2>3, <2>4, TeamAssumption, PurgeBeginsMoves
       DEF PurgeBegins, PreparedBy, TargetOf, offVars, Deciding, Leaving, Ended
  <2>8. \A o \in Offs : activity[o] # "none" => activity'[o] # "none"
    BY <1>20, PurgeBeginsMoves DEF PurgeBegins, offVars
  <2>9. \A o \in Offs : off'[o].receipt = off[o].receipt \/ TrueReceipt(o)'
    BY <1>20, <2>2, <2>3, <2>4, PurgeBeginsMoves
       DEF PurgeBegins, PreparedBy, TargetOf, OffKept, TrueReceipt, offVars, Deciding, Leaving,
           Ended
  <2>10. Tidy(p)
    BY <2>5, <2>6, <2>7, <2>8, <2>9 DEF Tidy
  <2> QED
    BY <2>2, <2>3, <2>10, TidyMoves
<1>21. ASSUME NEW p \in Procs, Delete(p) PROVE Books'
  <2>1. /\ Put(p, "delete") \/ Put(p, "receipt")
        /\ ps'[p].off = ps[p].off /\ ps'[p].id = ps[p].id
        /\ ps'[p].pc = "delete" => ps'[p].deleted < 4
    BY <1>21, DeleteMoves
  <2>2. OffKept
    BY <1>21, KeptOff DEF Delete, offVars
  <2>3. Others(p) /\ ps[p].pc = "delete"
    BY <1>21, <2>1 DEF Delete, At, Put
  <2>4. PreparedBy(p) /\ TargetOf(p) /\ CountOf(p) /\ ps[p] \in Process /\ (ps[p].pc = "delete" <=> lock = p)
    BY DEF Books, Prepared, Targets, Counted, Typed, LockHeld
  <2>5. PreparedBy(p)'
    BY <1>21, <2>1, <2>2, <2>3, <2>4, TeamAssumption, DeleteMoves
       DEF Delete, PreparedBy, Exported, TargetOf, OffKept, Put, Modes, Process, offVars, Labels,
           Deciding, Leaving, Ended
  <2>6. /\ ps'[p].pc = "delete" <=> lock' = p
        /\ \A q \in Procs \ {p} : lock' = q <=> lock = q
    BY <1>21, <2>1, <2>3, <2>4, TeamAssumption, DeleteMoves DEF Delete, Put, Procs
  <2>7. \A o \in Offs : off'[o].fired => off[o].fired \/ (Exported(o) /\ off[o].id # None)
    BY <1>21, <2>1, <2>3, <2>4, TeamAssumption, DeleteMoves
       DEF Delete, PreparedBy, TargetOf, offVars, Deciding, Leaving, Ended
  <2>8. \A o \in Offs : activity[o] # "none" => activity'[o] # "none"
    BY <1>21, DeleteMoves DEF Delete, offVars
  <2>9. \A o \in Offs : off'[o].receipt = off[o].receipt \/ TrueReceipt(o)'
    BY <1>21, <2>2, <2>3, <2>4, DeleteMoves
       DEF Delete, PreparedBy, TargetOf, OffKept, TrueReceipt, offVars, Deciding, Leaving, Ended
  <2>10. Tidy(p)
    BY <2>5, <2>6, <2>7, <2>8, <2>9 DEF Tidy
  <2> QED
    BY <2>2, <2>3, <2>10, TidyMoves
<1>22. ASSUME NEW p \in Procs, Receipt(p) PROVE Books'
  <2>1. Rested(p)
    BY <1>22, Control
  <2>2. OffKept
    BY <1>22, ReceiptWrites
  <2>3. Others(p) /\ ps[p].pc = "receipt"
    BY <1>22, <2>1 DEF Receipt, At, Rested
  <2>4. PreparedBy(p) /\ TargetOf(p) /\ CountOf(p) /\ ps[p] \in Process /\ (ps[p].pc = "delete" <=> lock = p)
    BY DEF Books, Prepared, Targets, Counted, Typed, LockHeld
  <2>5. PreparedBy(p)'
    BY <1>22, <2>1, <2>2, <2>3, <2>4, TeamAssumption, ReceiptWrites
       DEF Receipt, PreparedBy, Exported, TargetOf, OffKept, Rested, Modes, Process, Labels,
           Deciding, Leaving, Ended
  <2>6. /\ ps'[p].pc = "delete" <=> lock' = p
        /\ \A q \in Procs \ {p} : lock' = q <=> lock = q
    BY <1>22, <2>1, <2>3, <2>4, TeamAssumption, ReceiptWrites DEF Receipt, Rested, Procs
  <2>7. \A o \in Offs : off'[o].fired => off[o].fired \/ (Exported(o) /\ off[o].id # None)
    BY <1>22, <2>1, <2>3, <2>4, TeamAssumption, ReceiptWrites
       DEF Receipt, PreparedBy, TargetOf, Deciding, Leaving, Ended
  <2>8. \A o \in Offs : activity[o] # "none" => activity'[o] # "none"
    BY <1>22, ReceiptWrites DEF Receipt
  <2>9. \A o \in Offs : off'[o].receipt = off[o].receipt \/ TrueReceipt(o)'
    <3> SUFFICES ASSUME NEW o \in Offs, off'[o].receipt # off[o].receipt PROVE TrueReceipt(o)'
      OBVIOUS
    <3>1. o = ps[p].off /\ off'[o].receipt = [outcome |-> IF ps[p].partial THEN "partial" ELSE "completed",
                                              deleted |-> ps[p].deleted]
      BY <1>22, ReceiptWrites
    <3>2. /\ off[o].fired /\ (~ps[p].partial => activity[o] # "none")
          /\ ~ps[p].partial /\ off[o].mode = "purge" => ps[p].deleted = 4
      BY <2>3, <2>4, <3>1 DEF PreparedBy, TargetOf, Leaving, Ended
    <3>3. off'[o].fired /\ off'[o].mode = off[o].mode /\ activity' = activity
      BY <1>22, <2>2, <2>3, <2>4, <3>1, <3>2, TeamAssumption
         DEF Receipt, TargetOf, OffKept, Leaving, Ended
    <3>4. CASE ps[p].partial
      BY <3>1, <3>4 DEF TrueReceipt
    <3>5. CASE ~ps[p].partial
      BY <3>1, <3>2, <3>3, <3>5 DEF TrueReceipt
    <3> QED
      BY <3>4, <3>5
  <2>10. Tidy(p)
    BY <2>5, <2>6, <2>7, <2>8, <2>9 DEF Tidy
  <2> QED
    BY <2>2, <2>3, <2>10, TidyMoves
<1>23. ASSUME NEW k \in Tasks, Start(k) \/ Learn(k) PROVE Books'
  BY <1>23, BooksStay DEF Start, Learn, offVars
<1>24. ASSUME Tick \/ Release PROVE Books'
  BY <1>24, BooksStay DEF Tick, Release, offVars
<1>25. ASSUME NEW dead \in SUBSET Procs, Die(dead) PROVE Books'
  <2>1. /\ ps' = [p \in Procs |-> IF p \in dead THEN Idle ELSE ps[p]]
        /\ lock' = IF lock \in dead THEN None ELSE lock
        /\ UNCHANGED <<roster, world, dataVars, offVars, trialVars>>
    BY <1>25 DEF Die
  <2>2. Idle.pc = "idle"
    BY DEF Idle
  <2>3. LockHeld'
    BY <2>1, <2>2, TeamAssumption DEF Books, LockHeld, Typed
  <2>4. Prepared'
    BY <2>1, <2>2 DEF Books, Prepared, PreparedBy, Exported, offVars, Ended
  <2>5. FiredExported' /\ ReceiptIsTrue'
    BY <2>1 DEF Books, FiredExported, Exported, ReceiptIsTrue, offVars
  <2> QED
    BY <2>3, <2>4, <2>5 DEF Books
<1>26. ASSUME UNCHANGED vars PROVE Books'
  BY <1>26, BooksStay DEF vars, offVars
<1> QED
  BY <1>1, <1>2, <1>3, <1>4, <1>5, <1>6, <1>7, <1>8, <1>9, <1>10, <1>11, <1>12, <1>13, <1>14,
     <1>15, <1>16, <1>17, <1>18, <1>19, <1>20, <1>21, <1>22, <1>23, <1>24, <1>25, <1>26
     DEF Next, User, Handler, Verdicts, Procs

-----------------------------------------------------------------------------
(* What a step does to the roster. *)

(* Where an added record comes from. *)
AddsFrom(p) ==
  \/ ps[p].pc = "hire" /\ roster'[Len(roster) + 1].grants = ps[p].grants
  \/ roster'[Len(roster) + 1].id = <<"cli", second>>

(* The four ways the roster changes: the same employments; one revived, added or
   ended, each while nobody has the lock. *)
RosterMove ==
  \/ SameMembers(roster, roster')
  \/ lock = None /\ lock' = None /\ Hired(roster) /\ Revives
  \/ lock = None /\ lock' = None /\ ~Hired(roster) /\ Adds /\ \E p \in Procs : AddsFrom(p)
  \/ \E p \in Procs : ps[p].pc = "fire" /\ Ends(p) /\ lock = None /\ lock' = None /\ off'[ps[p].off].fired

(* The lock is taken only while nobody is hired. *)
LockMove == lock' \in {lock, None} \/ (~Hired(roster) /\ UNCHANGED roster)

(* An unchanged roster has the same employments. *)
LEMMA RosterSame == ASSUME UNCHANGED roster PROVE SameMembers(roster, roster')
  BY DEF SameMembers

(* Each step changes roster and lock in one of these ways. *)
LEMMA RosterStep ==
  ASSUME Sound, [Next]_vars
  PROVE  RosterMove /\ LockMove
<1> USE DEF Sound
<1>1. ASSUME NEW p \in Procs, NEW t \in Trials, RunTrial(p, t) PROVE RosterMove /\ LockMove
  BY <1>1, RosterSame DEF RunTrial, RosterMove, LockMove
<1>2. ASSUME NEW p \in Procs, NEW t \in Trials, NEW v \in Verdicts, Decide(p, t, v) PROVE RosterMove /\ LockMove
  BY <1>2, RosterSame DEF Decide, RosterMove, LockMove
<1>3. ASSUME NEW p \in Procs, NEW t \in Trials, HireFromTrial(p, t) PROVE RosterMove /\ LockMove
  BY <1>3, RosterSame DEF HireFromTrial, RosterMove, LockMove
<1>4. ASSUME NEW p \in Procs, NEW granted \in SUBSET Conditional, NEW skipped \in SUBSET Conditional,
                    NEW source \in {"cli", "website"}, HireCommand(p, granted, skipped, source) PROVE RosterMove /\ LockMove
  BY <1>4, RosterSame DEF HireCommand, RosterMove, LockMove
<1>5. ASSUME NEW p \in Procs, Update(p) PROVE RosterMove /\ LockMove
  BY <1>5, UpdateRoster DEF Update, RosterMove, LockMove
<1>6. ASSUME NEW p \in Procs, NEW o \in Offs, NEW mode \in Modes, Offboard(p, o, mode) PROVE RosterMove /\ LockMove
  BY <1>6, RosterSame DEF Offboard, RosterMove, LockMove
<1>7. ASSUME NEW p \in Procs, Mark(p) PROVE RosterMove /\ LockMove
  BY <1>7, RosterSame DEF Mark, RosterMove, LockMove
<1>8. ASSUME NEW p \in Procs, Save(p) PROVE RosterMove /\ LockMove
  BY <1>8, RosterSame DEF Save, RosterMove, LockMove
<1>9. ASSUME NEW p \in Procs, Count(p) PROVE RosterMove /\ LockMove
  BY <1>9, RosterSame DEF Count, RosterMove, LockMove
<1>10. ASSUME NEW p \in Procs, Reflect(p) PROVE RosterMove /\ LockMove
  BY <1>10, RosterSame DEF Reflect, RosterMove, LockMove
<1>11. ASSUME NEW p \in Procs, HireLocal(p) PROVE RosterMove /\ LockMove
  <2>1. lock = None /\ lock' = None /\ ps[p].pc = "hire"
    BY <1>11 DEF HireLocal, At
  <2>2. CASE ~Hired(roster) /\ Adds /\ roster'[Len(roster) + 1].grants = ps[p].grants
    BY <2>1, <2>2 DEF RosterMove, LockMove, AddsFrom
  <2>3. CASE (Hired(roster) /\ Revives) \/ UNCHANGED roster
    BY <2>1, <2>3, RosterSame DEF RosterMove, LockMove
  <2> QED
    BY <1>11, <2>2, <2>3, HireLocalRoster
<1>12. ASSUME NEW p \in Procs, Install(p) PROVE RosterMove /\ LockMove
  BY <1>12, RosterSame DEF Install, RosterMove, LockMove
<1>13. ASSUME NEW p \in Procs, Persist(p) PROVE RosterMove /\ LockMove
  <2>1. lock = None /\ lock' = None /\ ps[p].source \in Sources
    BY <1>13 DEF Persist, At, Targets, TargetOf
  <2> QED
    BY <1>13, <2>1, PersistRoster DEF RosterMove, LockMove, AddsFrom
<1>14. ASSUME NEW p \in Procs, Note(p) PROVE RosterMove /\ LockMove
  BY <1>14, RosterSame DEF Note, RosterMove, LockMove
<1>15. ASSUME NEW p \in Procs, Intent(p) PROVE RosterMove /\ LockMove
  BY <1>15, RosterSame DEF Intent, RosterMove, LockMove
<1>16. ASSUME NEW p \in Procs, Pack(p) PROVE RosterMove /\ LockMove
  BY <1>16, RosterSame DEF Pack, RosterMove, LockMove
<1>17. ASSUME NEW p \in Procs, Handoff(p) PROVE RosterMove /\ LockMove
  BY <1>17, RosterSame DEF Handoff, RosterMove, LockMove
<1>18. ASSUME NEW p \in Procs, Fire(p) PROVE RosterMove /\ LockMove
  <2>1. lock = None /\ lock' = None /\ ps[p].pc = "fire"
    BY <1>18 DEF Fire, At
  <2>2. CASE UNCHANGED roster
    BY <2>1, <2>2, RosterSame DEF RosterMove, LockMove
  <2>3. CASE Ends(p) /\ off' = [off EXCEPT ![ps[p].off].fired = TRUE]
    <3>1. off'[ps[p].off].fired
      BY <2>1, <2>3 DEF Typed, Offboarding, Targets, TargetOf, Leaving
    <3> QED
      BY <2>1, <2>3, <3>1 DEF RosterMove, LockMove
  <2> QED
    BY <1>18, <2>2, <2>3, FireRoster
<1>19. ASSUME NEW p \in Procs, Record(p) PROVE RosterMove /\ LockMove
  BY <1>19, RosterSame DEF Record, RosterMove, LockMove
<1>20. ASSUME NEW p \in Procs, PurgeBegins(p) PROVE RosterMove /\ LockMove
  <2>1. UNCHANGED roster
    BY <1>20 DEF PurgeBegins
  <2>2. LockMove
    BY <1>20, <2>1, PurgeBeginsMoves DEF PurgeBegins, LockMove
  <2> QED
    BY <2>1, <2>2, RosterSame DEF RosterMove
<1>21. ASSUME NEW p \in Procs, Delete(p) PROVE RosterMove /\ LockMove
  <2>1. UNCHANGED roster
    BY <1>21 DEF Delete
  <2>2. LockMove
    BY <1>21, <2>1 DEF Delete, LockMove
  <2> QED
    BY <2>1, <2>2, RosterSame DEF RosterMove
<1>22. ASSUME NEW p \in Procs, Receipt(p) PROVE RosterMove /\ LockMove
  BY <1>22, RosterSame DEF Receipt, RosterMove, LockMove
<1>23. ASSUME NEW k \in Tasks, Start(k) \/ Learn(k) PROVE RosterMove /\ LockMove
  BY <1>23, RosterSame DEF Start, Learn, RosterMove, LockMove
<1>24. ASSUME Tick \/ Release PROVE RosterMove /\ LockMove
  BY <1>24, RosterSame DEF Tick, Release, RosterMove, LockMove
<1>25. ASSUME NEW dead \in SUBSET Procs, Die(dead) PROVE RosterMove /\ LockMove
  BY <1>25, RosterSame DEF Die, RosterMove, LockMove
<1>26. ASSUME UNCHANGED vars PROVE RosterMove /\ LockMove
  BY <1>26, RosterSame DEF vars, RosterMove, LockMove
<1> QED
  BY <1>1, <1>2, <1>3, <1>4, <1>5, <1>6, <1>7, <1>8, <1>9, <1>10, <1>11, <1>12, <1>13, <1>14,
     <1>15, <1>16, <1>17, <1>18, <1>19, <1>20, <1>21, <1>22, <1>23, <1>24, <1>25, <1>26
     DEF Next, User, Handler, Verdicts, Procs

(* Each step keeps what the offboardings have. *)
LEMMA OffStep ==
  ASSUME Sound, [Next]_vars PROVE OffKept
<1> USE DEF Sound
<1>1. ASSUME NEW p \in Procs, NEW t \in Trials, RunTrial(p, t) PROVE OffKept
  BY <1>1, KeptOff DEF RunTrial, offVars
<1>2. ASSUME NEW p \in Procs, NEW t \in Trials, NEW v \in Verdicts, Decide(p, t, v) PROVE OffKept
  BY <1>2, KeptOff DEF Decide, offVars
<1>3. ASSUME NEW p \in Procs, NEW t \in Trials, HireFromTrial(p, t) PROVE OffKept
  BY <1>3, KeptOff DEF HireFromTrial, offVars
<1>4. ASSUME NEW p \in Procs, NEW granted \in SUBSET Conditional, NEW skipped \in SUBSET Conditional,
                    NEW source \in {"cli", "website"}, HireCommand(p, granted, skipped, source) PROVE OffKept
  BY <1>4, KeptOff DEF HireCommand, offVars
<1>5. ASSUME NEW p \in Procs, Update(p) PROVE OffKept
  BY <1>5, KeptOff DEF Update, offVars
<1>6. ASSUME NEW p \in Procs, NEW o \in Offs, NEW mode \in Modes, Offboard(p, o, mode) PROVE OffKept
  BY <1>6, OffboardWrites
<1>7. ASSUME NEW p \in Procs, Mark(p) PROVE OffKept
  BY <1>7, KeptOff DEF Mark, offVars
<1>8. ASSUME NEW p \in Procs, Save(p) PROVE OffKept
  BY <1>8, KeptOff DEF Save, offVars
<1>9. ASSUME NEW p \in Procs, Count(p) PROVE OffKept
  BY <1>9, KeptOff DEF Count, offVars
<1>10. ASSUME NEW p \in Procs, Reflect(p) PROVE OffKept
  BY <1>10, KeptOff DEF Reflect, offVars
<1>11. ASSUME NEW p \in Procs, HireLocal(p) PROVE OffKept
  BY <1>11, KeptOff DEF HireLocal, offVars
<1>12. ASSUME NEW p \in Procs, Install(p) PROVE OffKept
  BY <1>12, KeptOff DEF Install, offVars
<1>13. ASSUME NEW p \in Procs, Persist(p) PROVE OffKept
  BY <1>13, KeptOff DEF Persist, offVars
<1>14. ASSUME NEW p \in Procs, Note(p) PROVE OffKept
  BY <1>14, KeptOff DEF Note, offVars
<1>15. ASSUME NEW p \in Procs, Intent(p) PROVE OffKept
  BY <1>15, KeptOff DEF Intent, offVars
<1>16. ASSUME NEW p \in Procs, Pack(p) PROVE OffKept
  BY <1>16, PackWrites
<1>17. ASSUME NEW p \in Procs, Handoff(p) PROVE OffKept
  BY <1>17, HandoffWrites
<1>18. ASSUME NEW p \in Procs, Fire(p) PROVE OffKept
  BY <1>18, FireWrites
<1>19. ASSUME NEW p \in Procs, Record(p) PROVE OffKept
  BY <1>19, KeptOff DEF Record, offVars
<1>20. ASSUME NEW p \in Procs, PurgeBegins(p) PROVE OffKept
  BY <1>20, KeptOff DEF PurgeBegins, offVars
<1>21. ASSUME NEW p \in Procs, Delete(p) PROVE OffKept
  BY <1>21, KeptOff DEF Delete, offVars
<1>22. ASSUME NEW p \in Procs, Receipt(p) PROVE OffKept
  BY <1>22, ReceiptWrites
<1>23. ASSUME NEW k \in Tasks, Start(k) \/ Learn(k) PROVE OffKept
  BY <1>23, KeptOff DEF Start, Learn, offVars
<1>24. ASSUME Tick \/ Release PROVE OffKept
  BY <1>24, KeptOff DEF Tick, Release, offVars
<1>25. ASSUME NEW dead \in SUBSET Procs, Die(dead) PROVE OffKept
  BY <1>25, KeptOff DEF Die, offVars
<1>26. ASSUME UNCHANGED vars PROVE OffKept
  BY <1>26, KeptOff DEF vars, offVars
<1> QED
  BY <1>1, <1>2, <1>3, <1>4, <1>5, <1>6, <1>7, <1>8, <1>9, <1>10, <1>11, <1>12, <1>13, <1>14,
     <1>15, <1>16, <1>17, <1>18, <1>19, <1>20, <1>21, <1>22, <1>23, <1>24, <1>25, <1>26
     DEF Next, User, Handler, Verdicts, Procs

(* The same employments are active. *)
LEMMA SameActive ==
  ASSUME NEW r, NEW q, SameMembers(r, q) PROVE Active(q) = Active(r)
  BY DEF SameMembers, Active

(* Each step keeps the layer of the roster. *)
LEMMA RosterKept == Sound /\ Books /\ Roster /\ [Next]_vars => Roster'
<1> SUFFICES ASSUME Sound, Books, Roster, [Next]_vars PROVE Roster'
  OBVIOUS
<1> USE DEF Sound
<1>1. RosterMove /\ LockMove /\ roster \in Seq(Entry) /\ lock \in Procs \union {None}
  BY RosterStep DEF Typed
<1>2. OffKept /\ \A o \in Offs : off[o].fired => off[o].id # None
  BY OffStep DEF Books, FiredExported
<1>3. FiredBacked'
  <2> SUFFICES ASSUME NEW i \in DOMAIN roster', roster'[i].status = "fired"
               PROVE  \E o \in Offs : off'[o].fired /\ off'[o].id = roster'[i].id
    BY DEF FiredBacked
  <2>1. CASE i \in DOMAIN roster /\ roster[i].status = "fired" /\ roster'[i].id = roster[i].id
    <3>1. PICK o \in Offs : off[o].fired /\ off[o].id = roster[i].id
      BY <2>1 DEF Roster, FiredBacked
    <3> QED
      BY <1>2, <2>1, <3>1 DEF OffKept
  <2>2. CASE \E p \in Procs : ps[p].pc = "fire" /\ Ends(p) /\ lock = None /\ lock' = None /\ off'[ps[p].off].fired
    <3>1. PICK p \in Procs : ps[p].pc = "fire" /\ Ends(p) /\ off'[ps[p].off].fired
      BY <2>2
    <3>2. ps[p].off \in Offs /\ off'[ps[p].off].id = ps[p].id
      BY <1>2, <3>1, TeamAssumption DEF Targets, TargetOf, Leaving, OffKept
    <3>3. CASE roster[i].id = ps[p].id
      BY <3>1, <3>2, <3>3 DEF Ends
    <3>4. CASE roster[i].id # ps[p].id
      BY <2>1, <3>1, <3>4 DEF Ends
    <3> QED
      BY <3>3, <3>4
  <2> QED
    BY <1>1, <2>1, <2>2 DEF RosterMove, SameMembers, Revives, Adds
<1>4. OneActive'
  <2> SUFFICES ASSUME NEW i \in Active(roster'), NEW j \in Active(roster') PROVE roster'[i].id = roster'[j].id
    BY DEF OneActive
  <2>1. i \in DOMAIN roster' /\ j \in DOMAIN roster' /\ roster'[i].status = "active" /\ roster'[j].status = "active"
    BY DEF Active
  <2>2. \A m, n \in DOMAIN roster : roster[m].status = "active" /\ roster[n].status = "active" => roster[m].id = roster[n].id
    BY DEF Roster, OneActive, Active
  <2>3. CASE SameMembers(roster, roster')
    BY <2>1, <2>2, <2>3 DEF SameMembers
  <2>4. CASE Hired(roster) /\ Revives
    <3>1. First(roster) \in DOMAIN roster /\ roster[First(roster)].status = "active"
      BY <1>1, <2>4, TheFirst DEF The
    <3>2. \A m \in DOMAIN roster : roster[m].status = "active" => roster[m].id = The(roster).id
      BY <2>2, <3>1 DEF The
    <3> QED
      BY <2>1, <2>4, <3>2 DEF Revives
  <2>5. CASE ~Hired(roster) /\ Adds
    BY <2>1, <2>5 DEF Adds, Hired, Active
  <2>6. CASE \E p \in Procs : Ends(p)
    BY <2>1, <2>2, <2>6 DEF Ends
  <2> QED
    BY <1>1, <2>3, <2>4, <2>5, <2>6 DEF RosterMove
<1>5. NobodyHired'
  <2> SUFFICES ASSUME lock' # None PROVE ~Hired(roster')
    BY DEF NobodyHired
  <2>1. ~Hired(roster)
    BY <1>1 DEF LockMove, Roster, NobodyHired
  <2>2. SameMembers(roster, roster')
    BY <1>1 DEF RosterMove
  <2> QED
    BY <2>1, <2>2, SameActive DEF Hired
<1> QED
  BY <1>3, <1>4, <1>5 DEF Roster

-----------------------------------------------------------------------------
(* The ledgers of the trials. *)

(* A step that writes neither trial nor ledger keeps them, *)
LEMMA LedgersStay ==
  ASSUME Sound, Ledgers, UNCHANGED trialVars, NEW p \in Procs, Others(p), ps'[p].pc \notin Deciding \union {"hire"}
  PROVE  Ledgers'
<1>1. \A q \in Procs : DecidedBy(q)'
  BY DEF Ledgers, Decided, DecidedBy, Others, trialVars, Deciding
<1> QED
  BY <1>1 DEF Ledgers, Decided, TrialLedgersAgree, trialVars

(* even more so if no process moves. *)
LEMMA LedgersUnmoved ==
  ASSUME Ledgers, UNCHANGED trialVars, UNCHANGED ps PROVE Ledgers'
  BY DEF Ledgers, Decided, DecidedBy, TrialLedgersAgree, trialVars

(* A verdict and what is derived from it are written by one request at a time. *)
LEMMA OneDecides ==
  ASSUME Sound, NEW p \in Procs, NEW q \in Procs, ps[p].pc \in Deciding, ps[q].pc \in Deciding
  PROVE  p = q
  BY DEF Sound, Targets, TargetOf, OneSync, Deciding, Sync

(* Each step keeps the ledgers. *)
LEMMA LedgersStep == Sound /\ Ledgers /\ [Next]_vars => Ledgers'
<1> SUFFICES ASSUME Sound, Ledgers, [Next]_vars PROVE Ledgers'
  OBVIOUS
<1> USE DEF Sound
<1>1. ASSUME NEW p \in Procs, NEW t \in Trials, RunTrial(p, t) PROVE Ledgers'
  <2>1. ps' = ps /\ kpi' = kpi /\ learned' = learned /\ trial[t].status = "none"
        /\ trial'[t].status # "none" /\ \A u \in Trials \ {t} : trial'[u] = trial[u]
    BY <1>1 DEF RunTrial, Typed
  <2>2. \A q \in Procs : ps[q].pc \in Deciding \union {"hire"} => ps[q].trial \in Trials \ {t}
    BY <2>1 DEF Targets, TargetOf, Ledgers, Decided, DecidedBy, Deciding, Verdicts
  <2>3. Decided'
    BY <2>1, <2>2 DEF Ledgers, Decided, DecidedBy, Deciding
  <2>4. \A u \in Trials : kpi[u] \in Verdicts \union {"none"} /\ learned[u] \in Verdicts \union {"none"}
    BY DEF Typed
  <2>5. TrialLedgersAgree'
    BY <2>1, <2>4 DEF Ledgers, TrialLedgersAgree, Verdicts
  <2> QED
    BY <2>3, <2>5 DEF Ledgers
<1>2. ASSUME NEW p \in Procs, NEW t \in Trials, NEW v \in Verdicts, Decide(p, t, v) PROVE Ledgers'
  <2>1. /\ Put(p, IF trial[t].status = v THEN "kpi" ELSE IF v = "accepted" THEN "mark" ELSE "save")
        /\ ps'[p].trial = t /\ ps'[p].verdict = v /\ trial[t].status \in {"delivered", v}
    BY <1>2, DecideMoves, ZenonT(30) DEF Decide
  <2>2. trial' = trial /\ kpi' = kpi /\ learned' = learned
    BY <1>2 DEF Decide, trialVars
  <2>3. DecidedBy(p)'
    BY <2>1, <2>2 DEF DecidedBy, Put
  <2>4. \A q \in Procs \ {p} : DecidedBy(q)'
    BY <2>1, <2>2 DEF Ledgers, Decided, DecidedBy, Put, Others
  <2> QED
    BY <2>2, <2>3, <2>4 DEF Ledgers, Decided, TrialLedgersAgree
<1>3. ASSUME NEW p \in Procs, NEW t \in Trials, HireFromTrial(p, t) PROVE Ledgers'
  <2>1. /\ Put(p, "hire") /\ ps'[p].trial = t /\ ps'[p].grants = trial[t].grants
        /\ trial[t].status = "accepted"
    BY <1>3, HireFromTrialMoves DEF HireFromTrial
  <2>2. trial' = trial /\ kpi' = kpi /\ learned' = learned
    BY <1>3 DEF HireFromTrial, trialVars
  <2>3. DecidedBy(p)'
    BY <2>1, <2>2 DEF DecidedBy, Put
  <2>4. \A q \in Procs \ {p} : DecidedBy(q)'
    BY <2>1, <2>2 DEF Ledgers, Decided, DecidedBy, Put, Others
  <2> QED
    BY <2>2, <2>3, <2>4 DEF Ledgers, Decided, TrialLedgersAgree
<1>4. ASSUME NEW p \in Procs, NEW granted \in SUBSET Conditional, NEW skipped \in SUBSET Conditional,
                    NEW source \in {"cli", "website"}, HireCommand(p, granted, skipped, source) PROVE Ledgers'
  <2>1. /\ Put(p, "persist") \/ Put(p, "install")
        /\ ps'[p].source = source /\ ps'[p].deleted = ps[p].deleted
    BY <1>4, HireCommandMoves
  <2>2. Others(p) /\ ps'[p].pc \notin Deciding \union {"hire"}
    BY <2>1 DEF Put, Deciding
  <2> QED
    BY <1>4, <2>2, LedgersStay DEF HireCommand
<1>5. ASSUME NEW p \in Procs, Update(p) PROVE Ledgers'
  BY <1>5, LedgersUnmoved DEF Update
<1>6. ASSUME NEW p \in Procs, NEW o \in Offs, NEW mode \in Modes, Offboard(p, o, mode) PROVE Ledgers'
  <2>1. /\ Put(p, "intent") /\ ps'[p].off = o /\ ps'[p].id = off'[o].id /\ off[o].id = None
        /\ off'[o].id \in Ids /\ off'[o].mode \in Modes /\ ps'[p].deleted = ps[p].deleted
    BY <1>6, OffboardWrites
  <2>2. Others(p) /\ ps'[p].pc \notin Deciding \union {"hire"}
    BY <2>1 DEF Put, Deciding
  <2> QED
    BY <1>6, <2>2, LedgersStay DEF Offboard
<1>7. ASSUME NEW p \in Procs, Mark(p) PROVE Ledgers'
  <2> DEFINE t == ps[p].trial
  <2>1. ps[p].pc = "mark" /\ t \in Trials /\ ps[p].verdict \in Verdicts /\ DecidedBy(p)
    BY <1>7 DEF Mark, At, Targets, TargetOf, Deciding, Ledgers, Decided
  <2>2. Moved(p, "save") \/ Rested(p)
    BY <1>7, Control
  <2>3. \A q \in Procs \ {p} : ps'[q] = ps[q] /\ ps[q].pc \notin Deciding
    BY <2>1, <2>2, OneDecides DEF Moved, Rested, Others, Deciding
  <2>4. \A q \in Procs : ps[q].pc = "hire" => ps[q].trial \in Trials /\ trial[ps[q].trial].status = "accepted"
                          /\ trial[ps[q].trial].grants = ps[q].grants
    BY DEF Targets, TargetOf, Ledgers, Decided, DecidedBy
  <2>5. /\ kpi' = kpi /\ learned' = learned
        /\ \A u \in Trials : trial'[u].status = trial[u].status /\ trial'[u].grants = trial[u].grants
    BY <1>7, <2>1 DEF Mark, Typed, TrialRun
  <2>6. DecidedBy(p)'
    BY <2>1, <2>2, <2>5 DEF DecidedBy, Moved, Rested
  <2>7. \A q \in Procs \ {p} : DecidedBy(q)'
    BY <2>3, <2>4, <2>5 DEF DecidedBy, Deciding
  <2>8. TrialLedgersAgree'
    BY <2>5 DEF Ledgers, TrialLedgersAgree
  <2> QED
    BY <2>6, <2>7, <2>8 DEF Ledgers, Decided
<1>8. ASSUME NEW p \in Procs, Save(p) PROVE Ledgers'
  <2> DEFINE t == ps[p].trial
  <2>1. ps[p].pc = "save" /\ t \in Trials /\ ps[p].verdict \in Verdicts /\ DecidedBy(p)
    BY <1>8 DEF Save, At, Targets, TargetOf, Deciding, Ledgers, Decided
  <2>2. Moved(p, "kpi") \/ Rested(p)
    BY <1>8, Control
  <2>3. \A q \in Procs \ {p} : ps'[q] = ps[q] /\ ps[q].pc \notin Deciding
    BY <2>1, <2>2, OneDecides DEF Moved, Rested, Others, Deciding
  <2>4. \A q \in Procs : ps[q].pc = "hire" => ps[q].trial \in Trials /\ trial[ps[q].trial].status = "accepted"
                          /\ trial[ps[q].trial].grants = ps[q].grants
    BY DEF Targets, TargetOf, Ledgers, Decided, DecidedBy
  <2>5. /\ kpi' = kpi /\ learned' = learned
        /\ \A u \in Trials : trial'[u].grants = trial[u].grants /\ (u # t => trial'[u].status = trial[u].status)
        /\ \/ Moved(p, "kpi") /\ trial'[t].status = ps[p].verdict
           \/ Rested(p) /\ trial' = trial
    <3>1. CASE trial' = [trial EXCEPT ![t].status = ps[p].verdict] /\ Goto(p, "kpi")
      <4>1. Moved(p, "kpi")
        BY <3>1, GotoMoves DEF Labels, Deciding
      <4> QED
        BY <1>8, <2>1, <3>1, <4>1 DEF Save, Typed, TrialRun
    <3>2. CASE Rest(p) /\ trial' = trial
      BY <1>8, <3>2, RestRests DEF Save
    <3> QED
      BY <1>8, <3>1, <3>2 DEF Save
  <2>6. DecidedBy(p)'
    BY <2>1, <2>5 DEF DecidedBy, Moved, Rested
  <2>7. \A q \in Procs \ {p} : DecidedBy(q)'
    <3> SUFFICES ASSUME NEW q \in Procs \ {p} PROVE DecidedBy(q)'
      OBVIOUS
    <3>1. ps[q].pc = "hire" => ps[q].trial # t
      BY <2>1, <2>4 DEF DecidedBy
    <3> QED
      BY <2>3, <2>4, <2>5, <3>1 DEF DecidedBy, Deciding
  <2>8. TrialLedgersAgree'
    <3>1. trial[t].status = "delivered" /\ kpi[t] \in Verdicts \union {"none"}
      BY <2>1 DEF DecidedBy, Typed
    <3> QED
      BY <2>5, <3>1 DEF Ledgers, TrialLedgersAgree, Verdicts
  <2> QED
    BY <2>6, <2>7, <2>8 DEF Ledgers, Decided
<1>9. ASSUME NEW p \in Procs, Count(p) PROVE Ledgers'
  <2> DEFINE t == ps[p].trial
  <2>1. ps[p].pc = "kpi" /\ t \in Trials /\ ps[p].verdict \in Verdicts /\ DecidedBy(p)
    BY <1>9 DEF Count, At, Targets, TargetOf, Deciding, Ledgers, Decided
  <2>2. Moved(p, "reflect") \/ Rested(p)
    BY <1>9, Control
  <2>3. \A q \in Procs \ {p} : ps'[q] = ps[q] /\ ps[q].pc \notin Deciding
    BY <2>1, <2>2, OneDecides DEF Moved, Rested, Others, Deciding
  <2>4. \A q \in Procs : ps[q].pc = "hire" => ps[q].trial \in Trials /\ trial[ps[q].trial].status = "accepted"
                          /\ trial[ps[q].trial].grants = ps[q].grants
    BY DEF Targets, TargetOf, Ledgers, Decided, DecidedBy
  <2>5. /\ trial' = trial /\ learned' = learned /\ \A u \in Trials \ {t} : kpi'[u] = kpi[u]
        /\ \/ Moved(p, "reflect") /\ kpi'[t] = IF kpi[t] = "none" THEN ps[p].verdict ELSE kpi[t]
           \/ Rested(p) /\ kpi' = kpi
    <3>1. CASE Goto(p, "reflect") /\ kpi' = IF kpi[t] = "none" THEN [kpi EXCEPT ![t] = ps[p].verdict] ELSE kpi
      <4>1. Moved(p, "reflect")
        BY <3>1, GotoMoves DEF Labels, Deciding
      <4> QED
        BY <1>9, <2>1, <3>1, <4>1 DEF Count, Typed
    <3>2. CASE Rest(p) /\ kpi' = kpi
      BY <1>9, <3>2, RestRests DEF Count
    <3> QED
      BY <1>9, <3>1, <3>2 DEF Count
  <2>6. /\ trial[t].status = ps[p].verdict /\ kpi[t] \in {"none", ps[p].verdict}
        /\ learned[t] \in {"none", kpi[t]}
    BY <2>1 DEF DecidedBy, Ledgers, TrialLedgersAgree
  <2>7. DecidedBy(p)'
    BY <2>1, <2>5, <2>6 DEF DecidedBy, Moved, Rested
  <2>8. \A q \in Procs \ {p} : DecidedBy(q)'
    BY <2>3, <2>4, <2>5 DEF DecidedBy, Deciding
  <2>9. TrialLedgersAgree'
    BY <2>5, <2>6 DEF Ledgers, TrialLedgersAgree
  <2> QED
    BY <2>7, <2>8, <2>9 DEF Ledgers, Decided
<1>10. ASSUME NEW p \in Procs, Reflect(p) PROVE Ledgers'
  <2> DEFINE t == ps[p].trial
  <2>1. ps[p].pc = "reflect" /\ t \in Trials /\ ps[p].verdict \in Verdicts /\ DecidedBy(p)
    BY <1>10 DEF Reflect, At, Targets, TargetOf, Deciding, Ledgers, Decided
  <2>2. Rested(p)
    BY <1>10, Control
  <2>3. \A q \in Procs \ {p} : ps'[q] = ps[q] /\ ps[q].pc \notin Deciding
    BY <2>1, <2>2, OneDecides DEF Rested, Others, Deciding
  <2>4. \A q \in Procs : ps[q].pc = "hire" => ps[q].trial \in Trials /\ trial[ps[q].trial].status = "accepted"
                          /\ trial[ps[q].trial].grants = ps[q].grants
    BY DEF Targets, TargetOf, Ledgers, Decided, DecidedBy
  <2>5. /\ trial' = trial /\ kpi' = kpi /\ \A u \in Trials \ {t} : learned'[u] = learned[u]
        /\ learned'[t] \in {learned[t], ps[p].verdict}
    BY <1>10, <2>1 DEF Reflect, Typed
  <2>6. kpi[t] = ps[p].verdict
    BY <2>1 DEF DecidedBy
  <2>7. DecidedBy(p)'
    BY <2>2 DEF DecidedBy, Rested
  <2>8. \A q \in Procs \ {p} : DecidedBy(q)'
    BY <2>3, <2>4, <2>5 DEF DecidedBy, Deciding
  <2>9. TrialLedgersAgree'
    BY <2>5, <2>6 DEF Ledgers, TrialLedgersAgree
  <2> QED
    BY <2>7, <2>8, <2>9 DEF Ledgers, Decided
<1>11. ASSUME NEW p \in Procs, HireLocal(p) PROVE Ledgers'
  <2>1. Rested(p)
    BY <1>11, Control
  <2>2. Others(p) /\ ps'[p].pc \notin Deciding \union {"hire"}
    BY <2>1 DEF Rested, Deciding
  <2> QED
    BY <1>11, <2>2, LedgersStay DEF HireLocal
<1>12. ASSUME NEW p \in Procs, Install(p) PROVE Ledgers'
  <2>1. Moved(p, "persist") \/ Rested(p)
    BY <1>12, Control
  <2>2. Others(p) /\ ps'[p].pc \notin Deciding \union {"hire"}
    BY <2>1 DEF Moved, Rested, Deciding
  <2> QED
    BY <1>12, <2>2, LedgersStay DEF Install
<1>13. ASSUME NEW p \in Procs, Persist(p) PROVE Ledgers'
  <2>1. Moved(p, "note") \/ Rested(p)
    BY <1>13, Control
  <2>2. Others(p) /\ ps'[p].pc \notin Deciding \union {"hire"}
    BY <2>1 DEF Moved, Rested, Deciding
  <2> QED
    BY <1>13, <2>2, LedgersStay DEF Persist
<1>14. ASSUME NEW p \in Procs, Note(p) PROVE Ledgers'
  <2>1. Rested(p)
    BY <1>14, Control
  <2>2. Others(p) /\ ps'[p].pc \notin Deciding \union {"hire"}
    BY <2>1 DEF Rested, Deciding
  <2> QED
    BY <1>14, <2>2, LedgersStay DEF Note
<1>15. ASSUME NEW p \in Procs, Intent(p) PROVE Ledgers'
  <2>1. \/ Moved(p, "fire") /\ off[ps[p].off].mode = "purge"
        \/ Moved(p, "pack") /\ off[ps[p].off].mode # "purge"
        \/ Rested(p)
    BY <1>15, Control
  <2>2. Others(p) /\ ps'[p].pc \notin Deciding \union {"hire"}
    BY <2>1 DEF Moved, Rested, Deciding
  <2> QED
    BY <1>15, <2>2, LedgersStay DEF Intent
<1>16. ASSUME NEW p \in Procs, Pack(p) PROVE Ledgers'
  <2>1. Moved(p, "handoff") \/ Moved(p, "fire") \/ Rested(p)
    BY <1>16, Control
  <2>2. Others(p) /\ ps'[p].pc \notin Deciding \union {"hire"}
    BY <2>1 DEF Moved, Rested, Deciding
  <2> QED
    BY <1>16, <2>2, LedgersStay DEF Pack
<1>17. ASSUME NEW p \in Procs, Handoff(p) PROVE Ledgers'
  <2>1. Moved(p, "fire") \/ Rested(p)
    BY <1>17, Control
  <2>2. Others(p) /\ ps'[p].pc \notin Deciding \union {"hire"}
    BY <2>1 DEF Moved, Rested, Deciding
  <2> QED
    BY <1>17, <2>2, LedgersStay DEF Handoff
<1>18. ASSUME NEW p \in Procs, Fire(p) PROVE Ledgers'
  <2>1. Moved(p, "activity") \/ Rested(p)
    BY <1>18, Control
  <2>2. Others(p) /\ ps'[p].pc \notin Deciding \union {"hire"}
    BY <2>1 DEF Moved, Rested, Deciding
  <2> QED
    BY <1>18, <2>2, LedgersStay DEF Fire
<1>19. ASSUME NEW p \in Procs, Record(p) PROVE Ledgers'
  <2>1. /\ Put(p, IF off[ps[p].off].mode = "purge" THEN "purge" ELSE "receipt")
        /\ ps'[p].off = ps[p].off /\ ps'[p].id = ps[p].id /\ ps'[p].deleted = ps[p].deleted
    BY <1>19, RecordMoves
  <2>2. Others(p) /\ ps'[p].pc \notin Deciding \union {"hire"}
    BY <2>1 DEF Put, Deciding
  <2> QED
    BY <1>19, <2>2, LedgersStay DEF Record
<1>20. ASSUME NEW p \in Procs, PurgeBegins(p) PROVE Ledgers'
  <2>1. \/ Moved(p, "delete")
        \/ /\ Put(p, "receipt") /\ ps'[p].off = ps[p].off /\ ps'[p].id = ps[p].id
           /\ ps'[p].deleted = ps[p].deleted
    BY <1>20, PurgeBeginsMoves
  <2>2. Others(p) /\ ps'[p].pc \notin Deciding \union {"hire"}
    BY <2>1 DEF Moved, Put, Deciding
  <2> QED
    BY <1>20, <2>2, LedgersStay DEF PurgeBegins
<1>21. ASSUME NEW p \in Procs, Delete(p) PROVE Ledgers'
  <2>1. /\ Put(p, "delete") \/ Put(p, "receipt")
        /\ ps'[p].off = ps[p].off /\ ps'[p].id = ps[p].id
        /\ ps'[p].pc = "delete" => ps'[p].deleted < 4
    BY <1>21, DeleteMoves
  <2>2. Others(p) /\ ps'[p].pc \notin Deciding \union {"hire"}
    BY <2>1 DEF Put, Deciding
  <2> QED
    BY <1>21, <2>2, LedgersStay DEF Delete
<1>22. ASSUME NEW p \in Procs, Receipt(p) PROVE Ledgers'
  <2>1. Rested(p)
    BY <1>22, Control
  <2>2. Others(p) /\ ps'[p].pc \notin Deciding \union {"hire"}
    BY <2>1 DEF Rested, Deciding
  <2> QED
    BY <1>22, <2>2, LedgersStay DEF Receipt
<1>23. ASSUME NEW k \in Tasks, Start(k) \/ Learn(k) PROVE Ledgers'
  BY <1>23, LedgersUnmoved DEF Start, Learn
<1>24. ASSUME Tick \/ Release PROVE Ledgers'
  BY <1>24, LedgersUnmoved DEF Tick, Release
<1>25. ASSUME NEW dead \in SUBSET Procs, Die(dead) PROVE Ledgers'
  <2>1. trial' = trial /\ kpi' = kpi /\ learned' = learned
        /\ ps' = [p \in Procs |-> IF p \in dead THEN Idle ELSE ps[p]] /\ Idle.pc = "idle"
    BY <1>25 DEF Die, trialVars, Idle
  <2> QED
    BY <2>1 DEF Ledgers, Decided, DecidedBy, TrialLedgersAgree
<1>26. ASSUME UNCHANGED vars PROVE Ledgers'
  BY <1>26, LedgersUnmoved DEF vars
<1> QED
  BY <1>1, <1>2, <1>3, <1>4, <1>5, <1>6, <1>7, <1>8, <1>9, <1>10, <1>11, <1>12, <1>13, <1>14,
     <1>15, <1>16, <1>17, <1>18, <1>19, <1>20, <1>21, <1>22, <1>23, <1>24, <1>25, <1>26
     DEF Next, User, Handler, Verdicts, Procs

-----------------------------------------------------------------------------
(* Theorems. *)

(* The invariant holds at the start, *)
LEMMA InitTeam == Init => TeamInv
<1> SUFFICES ASSUME Init PROVE TeamInv
  OBVIOUS
<1>1. roster \in Seq(Entry) /\ OneActive /\ FiredBacked /\ roster = left.roster
  BY TeamAssumption DEF Init, OneActive, FiredBacked, Active
<1>2. NoOff \in Offboarding /\ NoTrial \in TrialRun
  BY DEF NoOff, Offboarding, NoTrial, TrialRun, Given
<1>3. Typed
  BY <1>1, <1>2, IdleIs DEF Init, Typed
<1>4. Idle.pc = "idle" /\ Idle.deleted = 0
  BY DEF Idle
<1>5. Targets /\ Counted /\ OneSync /\ SoleOff
  BY <1>4
     DEF Init, Targets, TargetOf, Counted, CountOf, OneSync, SoleOff, Sync, Deciding, Leaving,
         Ended, Procs
<1>6. Books
  BY <1>4, TeamAssumption
     DEF Init, Books, LockHeld, Prepared, PreparedBy, FiredExported, ReceiptIsTrue, NoOff, Ended
<1>7. Roster
  BY <1>1 DEF Init, Roster, NobodyHired
<1>8. Ledgers
  BY <1>4 DEF Init, Ledgers, Decided, DecidedBy, TrialLedgersAgree
<1> QED
  BY <1>3, <1>5, <1>6, <1>7, <1>8 DEF TeamInv, Sound

(* each step keeps it, *)
LEMMA TeamStep == TeamInv /\ [Next]_vars => TeamInv'
  BY SoundStep, BooksStep, RosterKept, LedgersStep DEF TeamInv

(* and so it holds always. *)
THEOREM Safety == Spec => []TeamInv
  BY InitTeam, TeamStep, PTL DEF Spec

(* Every variable keeps its shape, and the lock of the roster is held from step to
   step only by a purge that deletes. *)
THEOREM TypeCorrect == Spec => []TypeOK
<1>1. TeamInv => TypeOK
  <2> SUFFICES ASSUME TeamInv PROVE TypeOK
    OBVIOUS
  <2>1. Typed /\ LockHeld
    BY DEF TeamInv, Sound, Books
  <2>2. ASSUME NEW o \in Offs PROVE off[o].pack = <<>> \/ Head(off[o].pack) \subseteq Tasks
    BY <2>1 DEF Typed, Offboarding
  <2> QED
    BY <2>1, <2>2 DEF TypeOK, Typed, TrialRun, Given, Offboarding, LockHeld, At, Verdicts
<1> QED
  BY <1>1, Safety, PTL

(* However hires from the website, hires from the command line (persist_hire) and
   offboardings interleave, at most one employment is active. *)
THEOREM OneEmployment == Spec => []OneActive
  BY Safety, PTL DEF TeamInv, Roster

(* Nobody is let go without the memory pack and the handoff the mode of the
   offboarding promised (offboardEmployee). *)
THEOREM EmploymentsAreExported == Spec => []FiredIsExported
<1>1. TeamInv => FiredIsExported
  BY DEF TeamInv, Roster, Books, FiredBacked, FiredExported, Exported, FiredIsExported
<1> QED
  BY <1>1, Safety, PTL

(* A receipt that says completed is true of the ledger and of the purge. *)
THEOREM ReceiptsAreTrue == Spec => []ReceiptIsTrue
  BY Safety, PTL DEF TeamInv, Books

(* The KPI ledger and the reflection agree with the verdict of their trial
   (decideLocalTrial), whatever write failed and was tried again. *)
THEOREM LedgersAgree == Spec => []TrialLedgersAgree
  BY Safety, PTL DEF TeamInv, Ledgers

(* Only a purge takes from memory. *)
LEMMA OnlyDeleteForgets ==
  ASSUME Sound, [Next]_vars, ~(memory \subseteq memory')
  PROVE  \E p \in Procs : Delete(p)
<1>1. ASSUME NEW p \in Procs, NEW t \in Trials, RunTrial(p, t) PROVE memory' = memory
  BY <1>1 DEF RunTrial, dataVars
<1>2. ASSUME NEW p \in Procs, NEW t \in Trials, NEW v \in Verdicts, Decide(p, t, v) PROVE memory' = memory
  BY <1>2 DEF Decide, dataVars
<1>3. ASSUME NEW p \in Procs, NEW t \in Trials, HireFromTrial(p, t) PROVE memory' = memory
  BY <1>3 DEF HireFromTrial, dataVars
<1>4. ASSUME NEW p \in Procs, NEW granted \in SUBSET Conditional, NEW skipped \in SUBSET Conditional,
                    NEW source \in {"cli", "website"}, HireCommand(p, granted, skipped, source) PROVE memory' = memory
  BY <1>4 DEF HireCommand, dataVars
<1>5. ASSUME NEW p \in Procs, Update(p) PROVE memory' = memory
  BY <1>5 DEF Update, dataVars
<1>6. ASSUME NEW p \in Procs, NEW o \in Offs, NEW mode \in Modes, Offboard(p, o, mode) PROVE memory' = memory
  BY <1>6 DEF Offboard, dataVars
<1>7. ASSUME NEW p \in Procs, Mark(p) PROVE memory' = memory
  BY <1>7 DEF Mark, dataVars
<1>8. ASSUME NEW p \in Procs, Save(p) PROVE memory' = memory
  BY <1>8 DEF Save, dataVars
<1>9. ASSUME NEW p \in Procs, Count(p) PROVE memory' = memory
  BY <1>9 DEF Count, dataVars
<1>10. ASSUME NEW p \in Procs, Reflect(p) PROVE memory' = memory
  BY <1>10 DEF Reflect, dataVars
<1>11. ASSUME NEW p \in Procs, HireLocal(p) PROVE memory' = memory
  BY <1>11 DEF HireLocal, dataVars
<1>12. ASSUME NEW p \in Procs, Install(p) PROVE memory' = memory
  BY <1>12 DEF Install, dataVars
<1>13. ASSUME NEW p \in Procs, Persist(p) PROVE memory' = memory
  BY <1>13 DEF Persist, dataVars
<1>14. ASSUME NEW p \in Procs, Note(p) PROVE memory' = memory
  BY <1>14 DEF Note, dataVars
<1>15. ASSUME NEW p \in Procs, Intent(p) PROVE memory' = memory
  BY <1>15 DEF Intent, dataVars
<1>16. ASSUME NEW p \in Procs, Pack(p) PROVE memory' = memory
  BY <1>16 DEF Pack, dataVars
<1>17. ASSUME NEW p \in Procs, Handoff(p) PROVE memory' = memory
  BY <1>17 DEF Handoff, dataVars
<1>18. ASSUME NEW p \in Procs, Fire(p) PROVE memory' = memory
  BY <1>18 DEF Fire, dataVars
<1>19. ASSUME NEW p \in Procs, Record(p) PROVE memory' = memory
  BY <1>19 DEF Record, dataVars
<1>20. ASSUME NEW p \in Procs, PurgeBegins(p) PROVE memory' = memory
  BY <1>20 DEF PurgeBegins, dataVars
<1>21. ASSUME NEW p \in Procs, Receipt(p) PROVE memory' = memory
  BY <1>21 DEF Receipt, dataVars
<1>22. ASSUME NEW k \in Tasks, Start(k) \/ Learn(k) PROVE memory \subseteq memory'
  BY <1>22 DEF Start, Learn
<1>23. ASSUME Tick \/ Release \/ UNCHANGED vars PROVE memory' = memory
  BY <1>23 DEF Tick, Release, vars, dataVars
<1>24. ASSUME NEW dead, Die(dead) PROVE memory' = memory
  BY <1>24 DEF Die, dataVars
<1> QED
  BY <1>1, <1>2, <1>3, <1>4, <1>5, <1>6, <1>7, <1>8, <1>9, <1>10, <1>11, <1>12, <1>13, <1>14,
     <1>15, <1>16, <1>17, <1>18, <1>19, <1>20, <1>21, <1>22, <1>23, <1>24
     DEF Next, User, Handler, Verdicts

(* The purge never takes the memory of somebody who is hired (purgeEmployeeState). *)
THEOREM PurgeSpares == Spec => PurgeSparesActive
<1>1. TeamInv /\ [Next]_vars => [~(memory \subseteq memory') => ~Hired(roster) /\ ~Hired(roster')]_vars
  <2> SUFFICES ASSUME TeamInv, [Next]_vars, ~(memory \subseteq memory')
               PROVE  ~Hired(roster) /\ ~Hired(roster')
    OBVIOUS
  <2>1. PICK p \in Procs : Delete(p)
    BY OnlyDeleteForgets DEF TeamInv
  <2>2. lock = p /\ p # None /\ UNCHANGED roster
    BY <2>1, TeamAssumption DEF TeamInv, Books, LockHeld, Delete, At
  <2> QED
    BY <2>2 DEF TeamInv, Roster, NobodyHired
<1> QED
  BY <1>1, Safety, PTL DEF Spec, PurgeSparesActive

(* A record the website adds was hired from an accepted trial. *)
LEMMA HiresAccepted ==
  ASSUME TeamInv, [Next]_vars, NEW i \in DOMAIN roster' \ DOMAIN roster, roster'[i].id[1] = "web"
  PROVE  \E t \in Trials : trial[t].status = "accepted" /\ trial[t].grants = roster'[i].grants
<1>1. RosterMove
  BY RosterStep DEF TeamInv
<1>2. Adds /\ \E p \in Procs : AddsFrom(p)
  BY <1>1 DEF RosterMove, SameMembers, Revives, Ends
<1>3. i = Len(roster) + 1
  BY <1>2 DEF Adds
<1>4. PICK p \in Procs : ps[p].pc = "hire" /\ roster'[i].grants = ps[p].grants
  BY <1>2, <1>3 DEF AddsFrom
<1> QED
  BY <1>4 DEF TeamInv, Sound, Targets, TargetOf, Ledgers, Decided, DecidedBy

(* Whom the website hires passed an accepted trial with these very capabilities
   (hireFromAcceptedTrial). *)
THEOREM HiresWereAccepted == Spec => HiredWasAccepted
<1>1. TeamInv /\ [Next]_vars => [\A i \in DOMAIN roster' \ DOMAIN roster : roster'[i].id[1] = "web" =>
       \E t \in Trials : trial[t].status = "accepted" /\ trial[t].grants = roster'[i].grants]_vars
  BY HiresAccepted
<1> QED
  BY <1>1, Safety, PTL DEF Spec, HiredWasAccepted
=============================================================================
