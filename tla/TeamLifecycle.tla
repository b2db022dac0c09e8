---------------------------- MODULE TeamLifecycle ----------------------------
(***************************************************************************)
(* How one employee joins and leaves the crew: a trial run and its verdict *)
(* on the website, the hire that rests on it, hires, updates and fires     *)
(* from the command line, and offboarding, the one way to be fired.        *)
(*                                                                         *)
(* The roster .crewclaw/team.json is read and written by three programs in *)
(* three languages, the Rust command line, the TypeScript website and the  *)
(* Node offboarding service, under one owner lock (StateLock).  A section  *)
(* that reads the roster and writes it once is one step; the purge, which  *)
(* deletes four things, holds the lock from step to step.  The website's   *)
(* synchronous handlers keep its other handlers waiting.                   *)
(***************************************************************************)
EXTENDS Naturals, Sequences, FiniteSets, SequencesExt

CONSTANTS
  Requests,     \* handlers of the website's one process
  Commands,     \* command line processes
  Trials,
  Tasks,        \* runs of the employee; each may learn one lesson, itself
  Offs,         \* offboardings, each with its own directory
  Required,     \* capabilities every hire grants
  Conditional,  \* capabilities the user may leave out
  None,
  Budgets       \* who may act and what may go wrong in a behaviour

Procs == Requests \union Commands
Grants == {Required \union c : c \in SUBSET Conditional}
Scopes == <<"memory", "skill_usage", "memory_candidates", "dream">>
Modes == {"export_memory", "handoff", "purge"}
Sources == {"website", "cli", "absent", "null"}
Ids == {"old", "web", "cli"} \X Nat
Entry == [id : Ids, status : {"active", "fired"}, version : Nat,
          grants : SUBSET (Required \union Conditional), source : Sources, bound : BOOLEAN]

(* A behaviour starts with a roster nobody was fired from yet. *)
ASSUME TeamAssumption ==
  /\ Requests \intersect Commands = {}
  /\ None \notin Procs \union Ids
  /\ \A b \in Budgets :
       /\ b.roster \in Seq(Entry)
       /\ \A i, j \in DOMAIN b.roster : /\ b.roster[i].status = "active"
                                       /\ b.roster[i].id = b.roster[j].id

VARIABLES
  roster,       \* team.json
  lock,         \* its owner lock, while a purge holds it
  registry,     \* the version of the employee on offer
  second,       \* the clock that names the command line's hires
  memory,       \* lessons in the employee's memory
  scopes,       \* which of Scopes exist
  activity,     \* per offboarding, its entry in the activity ledger
  trial,        \* TaskRun of a trial and the artifact's mark
  kpi, learned, \* per trial, the outcome in the KPI ledger and the reflection
  task,         \* per run of the employee: "new", "running", "over"
  off,          \* the directory of an offboarding
  ps,           \* the processes
  left          \* what is left of the behaviour's budget

trialVars == <<trial, kpi, learned>>
dataVars == <<memory, scopes, task>>
offVars == <<off, activity>>
world == <<registry, second>>
vars == <<roster, lock, world, dataVars, offVars, trialVars, ps, left>>

Idle == [pc |-> "idle", id |-> None, grants |-> {}, trial |-> None, verdict |-> None,
         off |-> None, deleted |-> 0, partial |-> FALSE, fresh |-> FALSE, version |-> 0,
         source |-> None]
NoOff == [id |-> None, mode |-> None, pack |-> <<>>, handoff |-> FALSE, failed |-> None,
          fired |-> FALSE, receipt |-> None]
NoTrial == [status |-> "none", grants |-> {}, marked |-> FALSE]

Init ==
  /\ left \in Budgets
  /\ roster = left.roster /\ lock = None
  /\ registry = 1 /\ second = 1
  /\ memory = {} /\ scopes = {Scopes[i] : i \in 1..4}
  /\ activity = [o \in Offs |-> "none"]
  /\ trial = [t \in Trials |-> NoTrial]
  /\ kpi = [t \in Trials |-> "none"] /\ learned = [t \in Trials |-> "none"]
  /\ task = [k \in Tasks |-> "new"]
  /\ off = [o \in Offs |-> NoOff]
  /\ ps = [p \in Procs |-> Idle]

At(p, pc) == ps[p].pc = pc
Goto(p, pc) == ps' = [ps EXCEPT ![p].pc = pc]
Rest(p) == ps' = [ps EXCEPT ![p] = Idle]
Spent(kind) == left[kind] > 0 /\ left' = [left EXCEPT ![kind] = @ - 1]

(* A handler of the website that does not await keeps the others waiting. *)
Sync == {"mark", "save", "kpi", "reflect", "intent", "pack", "handoff", "fire",
         "activity", "purge", "delete", "receipt"}
Free(p) == p \in Requests => \A q \in Requests \ {p} : ps[q].pc \notin Sync
Begins(p) == At(p, "idle") /\ p \in left.procs /\ Free(p)

(* A durable write is done, or fails and leaves the file as it was. *)
Fails == Spent("faults")
Written == UNCHANGED left

-----------------------------------------------------------------------------
(* The roster. *)

Active(r) == {i \in DOMAIN r : r[i].status = "active"}
Hired(r) == Active(r) # {}
First(r) == CHOOSE i \in Active(r) : \A j \in Active(r) : i <= j
The(r) == r[First(r)]

(* The website and offboarding change whatever carries the id. *)
Change(r, id, new) == [i \in DOMAIN r |-> IF r[i].id = id THEN new ELSE r[i]]

(* What each program refuses to read.  The website takes an explicit null for
   an absent hire_source, offboarding does not. *)
WebReads(r) == Cardinality(Active(r)) <= 1
NodeReads(r) == Cardinality(Active(r)) <= 1 /\ \A i \in DOMAIN r : r[i].source # "null"

(* What each program writes: serde writes an absent Option as null, the
   website drops a null. *)
RustWrites(r) == [i \in DOMAIN r |-> IF r[i].source = "absent" THEN [r[i] EXCEPT !.source = "null"] ELSE r[i]]
WebWrites(r) == [i \in DOMAIN r |-> IF r[i].source = "null" THEN [r[i] EXCEPT !.source = "absent"] ELSE r[i]]

Hire(id, version, grants, source) ==
  [id |-> id, status |-> "active", version |-> version, grants |-> grants,
   source |-> source, bound |-> source = "website"]

-----------------------------------------------------------------------------
(* A trial and its verdict (local-lifecycle.ts). *)

(* runLocalTrial: the run is saved once, at the end. *)
RunTrial(p, t) ==
  /\ p \in Requests /\ Begins(p) /\ t \in left.trials /\ trial[t].status = "none"
  /\ \E g \in Grants, s \in {"delivered", "failed"} :
       trial' = [trial EXCEPT ![t] = [status |-> s, grants |-> g, marked |-> FALSE]]
  /\ UNCHANGED <<roster, lock, world, dataVars, offVars, kpi, learned, ps, left>>

(* Mutant: a trial that was decided already is decided again. *)
DecideAgain(p, t, v) ==
  /\ p \in Requests /\ Begins(p) /\ trial[t].status \in {"delivered", "accepted", "rejected"}
  /\ ps' = [ps EXCEPT ![p].trial = t, ![p].verdict = v,
                      ![p].pc = IF trial[t].status = v THEN "kpi"
                                ELSE IF v = "accepted" THEN "mark" ELSE "save"]
  /\ UNCHANGED <<roster, lock, world, dataVars, offVars, trialVars, left>>

(* decideLocalTrial; the same verdict may be given again, and then only the
   derived records are reconciled. *)
Decide(p, t, v) ==
  /\ p \in Requests /\ Begins(p) /\ trial[t].status \in {"delivered", v}
  /\ ps' = [ps EXCEPT ![p].trial = t, ![p].verdict = v,
                      ![p].pc = IF trial[t].status = v THEN "kpi"
                                ELSE IF v = "accepted" THEN "mark" ELSE "save"]
  /\ UNCHANGED <<roster, lock, world, dataVars, offVars, trialVars, left>>

Mark(p) ==
  /\ At(p, "mark")
  /\ \/ Written /\ trial' = [trial EXCEPT ![ps[p].trial].marked = TRUE] /\ Goto(p, "save")
     \/ Fails /\ Rest(p) /\ UNCHANGED trial
  /\ UNCHANGED <<roster, lock, world, dataVars, offVars, kpi, learned>>

Save(p) ==
  /\ At(p, "save")
  /\ \/ Written /\ trial' = [trial EXCEPT ![ps[p].trial].status = ps[p].verdict] /\ Goto(p, "kpi")
     \/ Fails /\ Rest(p) /\ UNCHANGED trial
  /\ UNCHANGED <<roster, lock, world, dataVars, offVars, kpi, learned>>

(* recordTaskOutcome keeps the first outcome of a run. *)
Count(p) ==
  LET t == ps[p].trial IN
  /\ At(p, "kpi")
  /\ \/ /\ Written /\ Goto(p, "reflect")
        /\ kpi' = IF kpi[t] = "none" THEN [kpi EXCEPT ![t] = ps[p].verdict] ELSE kpi
     \/ Fails /\ Rest(p) /\ UNCHANGED kpi
  /\ UNCHANGED <<roster, lock, world, dataVars, offVars, trial, learned>>

Reflect(p) ==
  LET t == ps[p].trial IN
  /\ At(p, "reflect") /\ Rest(p)
  /\ \/ Written /\ learned' = IF learned[t] = "none" THEN [learned EXCEPT ![t] = ps[p].verdict] ELSE learned
     \/ Fails /\ UNCHANGED learned
  /\ UNCHANGED <<roster, lock, world, dataVars, offVars, trial, kpi>>

-----------------------------------------------------------------------------
(* Hiring on the website: the trial is checked, the package is awaited, and
   then the roster is read and written under its lock. *)

HireFromTrial(p, t) ==
  /\ p \in Requests /\ Begins(p) /\ Spent("hires") /\ trial[t].status = "accepted"
  /\ ps' = [ps EXCEPT ![p].pc = "hire", ![p].trial = t, ![p].grants = trial[t].grants,
                      ![p].version = registry]
  /\ UNCHANGED <<roster, lock, world, dataVars, offVars, trialVars>>

(* An active employee is synchronized if version and grants agree: a record
   without package or source gets them. *)
Synchronized(r, p) ==
  LET e == The(r) IN
  IF e.version = ps[p].version /\ e.grants = ps[p].grants /\ ~(e.bound /\ e.source \notin {"absent", "null"})
  THEN Change(r, e.id, [e EXCEPT !.bound = TRUE,
                                 !.source = IF @ \in {"absent", "null"} THEN "website" ELSE @])
  ELSE r

HireLocal(p) ==
  /\ At(p, "hire") /\ lock = None /\ Free(p)
  /\ IF ~WebReads(roster) \/ (Hired(roster) /\ Synchronized(roster, p) = roster)
     THEN UNCHANGED roster /\ Written
     ELSE \/ /\ Written
             /\ roster' = WebWrites(
                  IF Hired(roster) THEN Synchronized(roster, p)
                  ELSE Append(roster, Hire(<<"web", Len(roster) + 1>>, ps[p].version, ps[p].grants, "website")))
          \/ Fails /\ UNCHANGED roster
  /\ Rest(p)
  /\ UNCHANGED <<lock, world, dataVars, offVars, trialVars>>

-----------------------------------------------------------------------------
(* The command line. *)

(* run_hire_with_provenance: of an active employee the selection is taken
   over, else everything conditional is granted; granted and skipped are the
   options of the command.  A downloaded package (run_package_hire) hires like
   the website: it binds the package and names the website as the source. *)
Plan(kept, granted, skipped) == Required \union (((kept \intersect Conditional) \union granted) \ skipped)

HireCommand(p, granted, skipped, source) ==
  /\ p \in Commands /\ Begins(p) /\ Spent("hires") /\ source \in left.sources
  /\ granted \intersect skipped = {}
  /\ IF Hired(roster)
     THEN /\ The(roster).version = registry
          /\ ps' = [ps EXCEPT ![p].pc = "persist", ![p].version = registry, ![p].source = source,
                              ![p].grants = Plan(The(roster).grants, granted, skipped)]
     ELSE ps' = [ps EXCEPT ![p].pc = "install", ![p].fresh = TRUE, ![p].version = registry,
                           ![p].source = source,
                           ![p].grants = Plan(Conditional, granted, skipped)]
  /\ UNCHANGED <<roster, lock, world, dataVars, offVars, trialVars>>

(* hire_expert installs the employee; that may take minutes, and fail. *)
Install(p) ==
  /\ At(p, "install") /\ (Goto(p, "persist") \/ Rest(p))
  /\ UNCHANGED <<roster, lock, world, dataVars, offVars, trialVars, left>>

(* The grants of whoever is active are replaced. *)
Regranted(p) ==
  LET website == ps[p].source = "website" IN
  [roster EXCEPT ![First(roster)] =
     [The(roster) EXCEPT !.grants = ps[p].grants, !.bound = @ \/ website,
                         !.source = IF website THEN "website" ELSE @]]

(* Mutant: who is hired is what was read before the installation. *)
PersistStale(p) ==
  /\ At(p, "persist") /\ lock = None
  /\ Written
  /\ roster' = RustWrites(
       IF Hired(roster) /\ ~ps[p].fresh THEN Regranted(p)
       ELSE Append(roster, Hire(<<"cli", second>>, ps[p].version, ps[p].grants, ps[p].source)))
  /\ IF ps[p].fresh THEN Goto(p, "note") ELSE Rest(p)
  /\ UNCHANGED <<lock, world, dataVars, offVars, trialVars>>

(* persist_hire_with_provenance under the lock: whoever is active keeps the
   record, else one is added, named by the second. *)
Persist(p) ==
  /\ At(p, "persist") /\ lock = None
  /\ \/ /\ Written
        /\ roster' = RustWrites(
             IF Hired(roster) THEN Regranted(p)
             ELSE Append(roster, Hire(<<"cli", second>>, ps[p].version, ps[p].grants, ps[p].source)))
        /\ IF ps[p].fresh THEN Goto(p, "note") ELSE Rest(p)
     \/ Fails /\ Rest(p) /\ UNCHANGED roster
  /\ UNCHANGED <<lock, world, dataVars, offVars, trialVars>>

(* append_activity of the command line rewrites the ledger with the three
   fields it knows: an entry of offboarding loses its offboarding_id. *)
Note(p) ==
  /\ At(p, "note") /\ Rest(p)
  /\ \/ /\ Written
        /\ activity' = [o \in Offs |-> IF activity[o] = "linked" THEN "unlinked" ELSE activity[o]]
     \/ Fails /\ UNCHANGED activity
  /\ UNCHANGED <<roster, lock, world, dataVars, off, trialVars>>

(* crew update --apply: the version, and what was selected before. *)
Update(p) ==
  /\ p \in Commands /\ Begins(p) /\ lock = None
  /\ Hired(roster) /\ The(roster).version # registry
  /\ roster' = RustWrites([roster EXCEPT ![First(roster)] =
                             [The(roster) EXCEPT !.version = registry, !.grants = @ \union Required]])
  /\ UNCHANGED <<lock, world, dataVars, offVars, trialVars, ps, left>>

-----------------------------------------------------------------------------
(* Offboarding (offboarding.mjs), from the website or the command line. *)

Offboard(p, o, mode) ==
  /\ Begins(p) /\ o \in left.offs /\ mode \in left.modes
  /\ lock = None /\ off[o].id = None
  /\ NodeReads(roster) /\ Hired(roster)
  /\ off' = [off EXCEPT ![o].id = The(roster).id, ![o].mode = mode]
  /\ ps' = [ps EXCEPT ![p].pc = "intent", ![p].off = o, ![p].id = The(roster).id]
  /\ UNCHANGED <<roster, lock, world, dataVars, activity, trialVars, left>>

Intent(p) ==
  /\ At(p, "intent")
  /\ \/ Written /\ Goto(p, IF off[ps[p].off].mode = "purge" THEN "fire" ELSE "pack")
     \/ Fails /\ Rest(p)
  /\ UNCHANGED <<roster, lock, world, dataVars, offVars, trialVars>>

(* buildMemoryPack reads the memory as it is now. *)
Pack(p) ==
  LET o == ps[p].off IN
  /\ At(p, "pack")
  /\ \/ /\ Written /\ off' = [off EXCEPT ![o].pack = <<memory>>]
        /\ Goto(p, IF off[o].mode = "handoff" THEN "handoff" ELSE "fire")
     \/ Fails /\ off' = [off EXCEPT ![o].failed = "prepare"] /\ Rest(p)
  /\ UNCHANGED <<roster, lock, world, dataVars, activity, trialVars>>

Handoff(p) ==
  LET o == ps[p].off IN
  /\ At(p, "handoff")
  /\ \/ Written /\ off' = [off EXCEPT ![o].handoff = TRUE] /\ Goto(p, "fire")
     \/ Fails /\ off' = [off EXCEPT ![o].failed = "prepare"] /\ Rest(p)
  /\ UNCHANGED <<roster, lock, world, dataVars, activity, trialVars>>

(* Mutant: whoever is active is fired. *)
FireAnyone(p) ==
  LET o == ps[p].off IN
  /\ At(p, "fire") /\ lock = None
  /\ IF NodeReads(roster) /\ Hired(roster)
     THEN /\ Written /\ off' = [off EXCEPT ![o].fired = TRUE] /\ Goto(p, "activity")
          /\ roster' = Change(roster, The(roster).id, [The(roster) EXCEPT !.status = "fired"])
     ELSE off' = [off EXCEPT ![o].failed = "fire"] /\ Rest(p) /\ Written /\ UNCHANGED roster
  /\ UNCHANGED <<lock, world, dataVars, activity, trialVars>>

(* The roster is read again: only the employment that was prepared is ended. *)
Fire(p) ==
  LET o == ps[p].off
      refused == off' = [off EXCEPT ![o].failed = "fire"] /\ Rest(p) /\ UNCHANGED roster IN
  /\ At(p, "fire") /\ lock = None
  /\ IF NodeReads(roster) /\ Hired(roster) /\ The(roster).id = ps[p].id
     THEN \/ /\ Written /\ off' = [off EXCEPT ![o].fired = TRUE] /\ Goto(p, "activity")
             /\ roster' = Change(roster, ps[p].id, [The(roster) EXCEPT !.status = "fired"])
          \/ Fails /\ refused
     ELSE Written /\ refused
  /\ UNCHANGED <<lock, world, dataVars, activity, trialVars>>

(* An activity entry that cannot be added makes the receipt a partial one. *)
Record(p) ==
  LET o == ps[p].off IN
  /\ At(p, "activity")
  /\ \/ Written /\ activity' = [activity EXCEPT ![o] = "linked"]
     \/ Fails /\ UNCHANGED activity
  /\ ps' = [ps EXCEPT ![p].pc = IF off[o].mode = "purge" THEN "purge" ELSE "receipt",
                      ![p].partial = activity'[o] = "none"]
  /\ UNCHANGED <<roster, lock, world, dataVars, off, trialVars>>

(* Mutant: whether the employee was hired again is not looked at. *)
PurgeBeginsBlind(p) ==
  /\ At(p, "purge") /\ lock = None /\ NodeReads(roster)
  /\ lock' = p /\ Goto(p, "delete")
  /\ UNCHANGED <<roster, world, dataVars, offVars, trialVars, left>>

(* purgeEmployeeState, under the lock of the roster: refused when somebody
   hired the employee again. *)
PurgeBegins(p) ==
  /\ At(p, "purge") /\ lock = None
  /\ IF /\ NodeReads(roster) /\ ~Hired(roster)
        /\ \E i \in DOMAIN roster : roster[i].id = ps[p].id /\ roster[i].status = "fired"
     THEN lock' = p /\ Goto(p, "delete")
     ELSE ps' = [ps EXCEPT ![p].pc = "receipt", ![p].partial = TRUE] /\ UNCHANGED lock
  /\ UNCHANGED <<roster, world, dataVars, offVars, trialVars, left>>

(* One scope after the other. *)
Delete(p) ==
  LET n == ps[p].deleted + 1 IN
  /\ At(p, "delete")
  /\ \/ /\ Written
        /\ scopes' = scopes \ {Scopes[n]}
        /\ memory' = IF Scopes[n] = "memory" THEN {} ELSE memory
        /\ ps' = [ps EXCEPT ![p].deleted = n, ![p].pc = IF n = 4 THEN "receipt" ELSE @]
        /\ lock' = IF n = 4 THEN None ELSE lock
     \/ /\ Fails
        /\ ps' = [ps EXCEPT ![p].partial = TRUE, ![p].pc = "receipt"] /\ lock' = None
        /\ UNCHANGED <<scopes, memory>>
  /\ UNCHANGED <<roster, world, task, offVars, trialVars>>

(* Mutant: a failed purge is reported like a done one. *)
ReceiptRosy(p) ==
  LET o == ps[p].off IN
  /\ At(p, "receipt") /\ Rest(p) /\ Written
  /\ off' = [off EXCEPT ![o].receipt = [outcome |-> IF activity[o] = "none" THEN "partial" ELSE "completed",
                                        deleted |-> ps[p].deleted]]
  /\ UNCHANGED <<roster, lock, world, dataVars, activity, trialVars>>

(* The receipt comes last: without one nobody is told of a success. *)
Receipt(p) ==
  LET o == ps[p].off IN
  /\ At(p, "receipt") /\ Rest(p)
  /\ \/ /\ Written
        /\ off' = [off EXCEPT ![o].receipt = [outcome |-> IF ps[p].partial THEN "partial" ELSE "completed",
                                              deleted |-> ps[p].deleted]]
     \/ Fails /\ UNCHANGED off
  /\ UNCHANGED <<roster, lock, world, dataVars, activity, trialVars>>

-----------------------------------------------------------------------------
(* The employee at work, and the rest of the world. *)

(* requireActiveWorkspaceEmployee, once, when a run starts. *)
Start(k) ==
  /\ task[k] = "new" /\ Cardinality(Active(roster)) = 1
  /\ task' = [task EXCEPT ![k] = "running"]
  /\ UNCHANGED <<roster, lock, world, memory, scopes, offVars, trialVars, ps, left>>

(* A run that is accepted stores its lesson, whoever left meanwhile. *)
Learn(k) ==
  /\ task[k] = "running"
  /\ task' = [task EXCEPT ![k] = "over"]
  /\ memory' = memory \union {k} /\ scopes' = scopes \union {"memory", "memory_candidates"}
  /\ UNCHANGED <<roster, lock, world, offVars, trialVars, ps, left>>

Tick ==
  /\ Spent("seconds") /\ second' = second + 1
  /\ UNCHANGED <<roster, lock, registry, dataVars, offVars, trialVars, ps>>

Release ==
  /\ Spent("releases") /\ registry' = registry + 1
  /\ UNCHANGED <<roster, lock, second, dataVars, offVars, trialVars, ps>>

(* A command is killed, or the website with all its handlers; the lock of a
   dead owner is reclaimed (StateLock). *)
Die(dead) ==
  /\ \E p \in dead : ~At(p, "idle")
  /\ Spent("deaths")
  /\ ps' = [p \in Procs |-> IF p \in dead THEN Idle ELSE ps[p]]
  /\ lock' = IF lock \in dead THEN None ELSE lock
  /\ UNCHANGED <<roster, world, dataVars, offVars, trialVars>>

-----------------------------------------------------------------------------
Handler(p) ==
  \/ Mark(p) \/ Save(p) \/ Count(p) \/ Reflect(p) \/ HireLocal(p)
  \/ Install(p) \/ Persist(p) \/ Note(p)
  \/ Intent(p) \/ Pack(p) \/ Handoff(p) \/ Fire(p) \/ Record(p)
  \/ PurgeBegins(p) \/ Delete(p) \/ Receipt(p)

User(p) ==
  \/ \E t \in Trials : \/ RunTrial(p, t) \/ HireFromTrial(p, t)
                       \/ \E v \in {"accepted", "rejected"} : Decide(p, t, v)
  \/ \E granted, skipped \in SUBSET Conditional, source \in {"cli", "website"} :
       HireCommand(p, granted, skipped, source)
  \/ Update(p)
  \/ \E o \in Offs, mode \in Modes : Offboard(p, o, mode)

Next ==
  \/ \E p \in Procs : User(p) \/ Handler(p)
  \/ \E k \in Tasks : Start(k) \/ Learn(k)
  \/ Tick \/ Release \/ Die(Requests) \/ \E p \in Commands : Die({p})

Spec == Init /\ [][Next]_vars

(* What was started is run to its end, and a verdict on a trial that was
   answered with an error is given again. *)
Fairness ==
  /\ \A p \in Procs : WF_vars(Handler(p))
  /\ \A t \in Trials, v \in {"accepted", "rejected"} :
       SF_vars(\E p \in Requests : trial[t].status = v /\ Decide(p, t, v))
FairSpec == Spec /\ Fairness

-----------------------------------------------------------------------------
(* Properties. *)

(* The type invariant. *)
TypeOK ==
  /\ roster \in Seq(Entry)
  /\ lock \in Procs \union {None} /\ registry \in Nat /\ second \in Nat
  /\ memory \subseteq Tasks /\ scopes \subseteq {Scopes[i] : i \in 1..4}
  /\ activity \in [Offs -> {"none", "linked", "unlinked"}]
  /\ \A t \in Trials : trial[t] \in [status : {"none", "delivered", "failed", "accepted", "rejected"},
                                     grants : Grants \union {{}}, marked : BOOLEAN]
  /\ {kpi, learned} \subseteq [Trials -> {"none", "accepted", "rejected"}]
  /\ task \in [Tasks -> {"new", "running", "over"}]
  /\ \A o \in Offs : /\ off[o].mode \in Modes \union {None} /\ off[o].fired \in BOOLEAN
                     /\ off[o].pack = <<>> \/ Head(off[o].pack) \subseteq Tasks
  /\ lock # None => At(lock, "delete")

(* However hires from the website and the command line interleave, at most one
   employment of the employee is active: two would make the roster unreadable to
   the website, to offboarding and to the start of a task alike.  Of the records
   of two command line hires in one second, which share their id, the website
   may revive both. *)
OneActive == \A i, j \in Active(roster) : roster[i].id = roster[j].id

(* Nobody is let go without what the mode promised to keep: every employment
   that ended was prepared by an offboarding, which has its memory pack and its
   handoff on disk. *)
FiredIsExported ==
  \A i \in DOMAIN roster : roster[i].status = "fired" =>
    \E o \in Offs :
      /\ off[o].fired /\ off[o].id = roster[i].id
      /\ off[o].mode # "purge" => off[o].pack # <<>>
      /\ off[o].mode = "handoff" => off[o].handoff

(* A receipt that says "completed" is true: the fire is in the activity ledger,
   and a purge went through all that it deletes. *)
ReceiptIsTrue ==
  \A o \in Offs : (off[o].receipt # None /\ off[o].receipt.outcome = "completed") =>
    /\ off[o].fired /\ activity[o] # "none"
    /\ off[o].mode = "purge" => off[o].receipt.deleted = 4

(* The KPI ledger and the reflection agree with the verdict of the trial they
   were derived from, whatever was retried in between. *)
TrialLedgersAgree ==
  \A t \in Trials : /\ kpi[t] \in {"none", trial[t].status}
                   /\ learned[t] \in {"none", kpi[t]}

(* A purge never takes the memory of somebody who works here: not even when the
   employee was hired again between the fire and the purge. *)
PurgeSparesActive == [][~(memory \subseteq memory') => ~Hired(roster) /\ ~Hired(roster')]_vars

(* Whom the website hires passed a trial that was accepted, with these very
   capabilities. *)
HiredWasAccepted ==
  [][\A i \in DOMAIN roster' \ DOMAIN roster : roster'[i].id[1] = "web" =>
       \E t \in Trials : trial[t].status = "accepted" /\ trial[t].grants = roster'[i].grants]_vars

(* contracts/team.ts says of the record "Keep this shape byte-for-byte
   compatible with crates/crewclaw-cli/src/team.rs::WorkspaceEmployee": a roster
   that every program reads stays one.  The command line writes an absent
   hire_source as null, and offboarding refuses the roster. *)
RosterStaysReadable == WebReads(roster) /\ NodeReads(roster)

(* main.rs: "An active employee's capability selection is frozen.  Re-hire ...
   changes it only through an explicit --grant/--skip option."  A hire started
   when nobody was active replaces the selection the website made meanwhile. *)
SelectionIsFrozen ==
  [][\A i \in DOMAIN roster : roster[i].status = "active" /\ roster'[i].status = "active" =>
       \/ roster'[i].grants = roster[i].grants
       \/ \E p \in Commands : At(p, "persist") /\ ~ps[p].fresh]_vars
=============================================================================
