--------------------------- MODULE MCTeamLifecycle ---------------------------
(* Instances of TeamLifecycle for TLC. *)
EXTENDS TeamLifecycle

CONSTANTS w1, w2, c1, c2, o1

Legacy == [id |-> <<"old", 1>>, status |-> "active", version |-> 1,
           grants |-> Required \union Conditional, source |-> "absent", bound |-> FALSE]
Quiet == [procs |-> {}, roster |-> <<>>, trials |-> {}, offs |-> {}, modes |-> {}, sources |-> {},
          hires |-> 0, faults |-> 0, seconds |-> 0, releases |-> 0, deaths |-> 0]

(* Two users of the website decide a trial, hire and fire. *)
Website == {[Quiet EXCEPT !.procs = {w1, w2}, !.trials = Trials, !.offs = {o1}, !.modes = m,
                          !.hires = 2, !.faults = 1, !.deaths = 1] : m \in {{"purge"}, {"handoff", "export_memory"}}}

(* The website and the command line hire and fire one another's employee. *)
Both == {[Quiet EXCEPT !.procs = {w1, c1}, !.trials = Trials, !.offs = {o1}, !.modes = {"purge"},
                       !.sources = {"cli"}, !.hires = 2],
         [Quiet EXCEPT !.procs = {w1, c1}, !.trials = Trials, !.offs = {o1}, !.modes = {"handoff"},
                       !.sources = {"website"}, !.hires = 1, !.releases = 1, !.roster = <<Legacy>>]}

(* Two command lines, with two offboardings and hires that share a second or
   do not. *)
Terminals == {[Quiet EXCEPT !.procs = {c1, c2}, !.offs = Offs, !.modes = {m}, !.sources = {"cli"},
                            !.hires = 1, !.seconds = 1, !.roster = <<[Legacy EXCEPT !.source = "cli"]>>] :
                m \in {"purge", "export_memory"}}
             \union {[Quiet EXCEPT !.procs = {c1, c2}, !.sources = {"cli"}, !.hires = 2,
                             !.deaths = 1]}

(* A roster from before hire_source was recorded. *)
LegacyBudgets == {[Quiet EXCEPT !.procs = {w1, c1}, !.trials = Trials, !.offs = Offs, !.modes = Modes,
                                !.sources = {"cli"}, !.hires = 1, !.roster = <<Legacy>>]}

TeamBudgets == Website \union Both \union Terminals
=============================================================================
