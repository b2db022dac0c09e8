------------------------------- MODULE AgentLoop -------------------------------
(***************************************************************************)
(* One chat session of the workbench: turns of agentLoop (run.mjs), the    *)
(* tools it runs through the gateway of ToolPolicy, runToolWithDeadline,   *)
(* and the bridge's questions to the user with their session leases        *)
(* (jsonl-bridge.mjs).                                                     *)
(*                                                                         *)
(* A turn asks the model, gets a batch of calls, and goes through it one   *)
(* by one; between two awaits nothing else happens, so each stretch of     *)
(* code between them is one step.  pc says what the loop awaits:           *)
(*   idle    no turn                model  the model's response            *)
(*   call    (about to look at the next call of the batch)                 *)
(*   ask     the user's word on a call, or on a plan (plan)                *)
(*   lease   the paced events of a call that a session lease answers       *)
(*   run     a tool that works asynchronously                              *)
(* The workbench passes no budget to the loop, so Budget Guard has no part *)
(* here.  What a tool does is its effect, which begins at one step; a      *)
(* write is also done at that step.  "log" is what a reader of the whole   *)
(* session would know of each call; the code decides nothing by it.        *)
(***************************************************************************)
EXTENDS ToolPolicy, Sequences

CONSTANTS Manifests,   \* the employees considered
          MaxBatch,    \* calls in one response
          Budgets      \* how often things happen and the calls the model makes (menu):
                       \* the bounds of the model

ASSUME ManifestAssumption ==
    \A m \in Manifests :
        DOMAIN m \subseteq DOMAIN RuntimeTool /\ \A c \in DOMAIN m : m[c] \in Needs
ASSUME BatchAssumption == MaxBatch \in Nat
ASSUME BudgetAssumption ==
    Budgets \subseteq [turns : Nat, calls : Nat, cancels : Nat, expiries : Nat, edits : Nat,
                      clears : Nat, menu : SUBSET Calls]

VARIABLES
    left,        \* what remains of the bounds
    manifest,    \* of the employee, frozen for the session
    pc,
    batch,       \* calls of the last response not looked at yet
    current,     \* the call the loop is busy with
    plan,        \* todoState
    used,        \* toolCallCounts
    renders,     \* renderCount
    active,      \* activeSkillIds
    signal,      \* the turn was cancelled
    pending,     \* the bridge's pendingConfirm
    leases,      \* sessionPermissionLeases
    file,        \* version of each file's content
    log

vars == <<left, manifest, pc, batch, current, plan, used, renders, active, signal,
          pending, leases, file, log>>

Counted == DOMAIN RuntimeTool \cup Tools \cup {"skills_use", "todo_write", "mcp_read"}
NoPlan == [proposed |-> FALSE, approved |-> FALSE]
Nobody == [id |-> 0, lease |-> None]
NoCall == [id |-> 0]

(* The rows of the log: when and on whose word the effect began, what the   *)
(* user said, the version shown, and the terminal events of the call.       *)
Row(call) == [tool |-> call.tool, arg |-> call.arg, turn |-> left.turns, begun |-> "no",
              answer |-> "none", seen |-> 0, wrote |-> FALSE, ends |-> 0, phase |-> "open"]

Init ==
    /\ left \in Budgets
    /\ manifest \in Manifests
    /\ pc = "idle" /\ batch = <<>> /\ current = NoCall
    /\ plan = NoPlan /\ used = [c \in Counted |-> 0] /\ renders = 0
    /\ active = {} /\ signal = FALSE /\ pending = Nobody /\ leases = {}
    /\ log = <<>>
    /\ file = [p \in Paths |-> 0]

Spend(what) ==
    /\ left[what] > 0
    /\ left' = [left EXCEPT ![what] = @ - 1]

-----------------------------------------------------------------------------
(* The turn. *)

(* A message of the user, perhaps with a skill he invokes; while a question *)
(* is open the bridge takes every line for its answer.                      *)
StartTurn ==
    /\ pc = "idle" /\ pending = Nobody
    /\ Spend("turns")
    /\ pc' = "model"
    /\ active' \in {{}} \cup {{s} : s \in Skills}
    /\ plan' = NoPlan /\ used' = [c \in Counted |-> 0] /\ renders' = 0 /\ signal' = FALSE
    /\ UNCHANGED <<manifest, batch, current, pending, leases, file, log>>

ModelCalls ==
    /\ pc = "model" /\ ~signal
    /\ \E n \in 1..MaxBatch : \E calls \in [1..n -> left.menu] :
          /\ left.calls >= n
          /\ left' = [left EXCEPT !.calls = @ - n]
          /\ batch' = [i \in 1..n |-> [id |-> Len(log) + i, tool |-> calls[i].tool,
                                       arg |-> calls[i].arg]]
          /\ log' = log \o [i \in 1..n |-> Row(calls[i])]
    /\ pc' = "call"
    /\ UNCHANGED <<manifest, current, plan, used, renders, active, signal, pending, leases, file>>

(* A final answer, a failed or aborted request, and the last of the steps   *)
(* end the turn.                                                            *)
EndTurn ==
    /\ pc' = "idle" /\ batch' = <<>> /\ current' = NoCall

ModelEnds ==
    /\ pc = "model"
    /\ EndTurn
    /\ UNCHANGED <<left, manifest, plan, used, renders, active, signal, pending, leases, file, log>>

BatchDone ==
    /\ pc = "call" /\ batch = <<>>
    /\ pc' = "model"
    /\ UNCHANGED <<left, manifest, batch, current, plan, used, renders, active, signal,
                   pending, leases, file, log>>

(* The loop looks at the signal before each call. *)
Cut ==
    /\ pc = "call" /\ batch # <<>> /\ signal
    /\ EndTurn
    /\ UNCHANGED <<left, manifest, plan, used, renders, active, signal, pending, leases, file, log>>

-----------------------------------------------------------------------------
(* One call. *)

(* The gateway's word, narrowed by the active skills, the plan that still   *)
(* waits for its approval and the calls that were made; a refusal here      *)
(* consumes nothing.                                                        *)
Decision(call) ==
    LET d == Check(manifest, call)
    IN  IF \/ ~SkillsAllow(active, call.tool)
           \/ plan.proposed /\ ~plan.approved /\ call.tool # "todo_write"
           \/ d.max > 0 /\ used[d.capability] >= d.max
        THEN Refusal ELSE d

(* Mutant: what is put to the user is not counted. *)
CountingAllowed(d) ==
    IF d.max > 0 /\ d.decision = "allow" THEN [used EXCEPT ![d.capability] = @ + 1] ELSE used

Counting(d) == IF d.max > 0 THEN [used EXCEPT ![d.capability] = @ + 1] ELSE used

(* The tools that are done when they return; the others are awaited. *)
SyncTools == {"use_skill", "list_files", "write_file"}

(* The loop reports how the call ended, puts the result in the messages and *)
(* goes on with the rest, or stops when the turn was cancelled meanwhile.  A     *)
(* skill that was reported as loaded is active from then on.                *)
Ended(call, phase, row, rest) ==
    /\ log' = [log EXCEPT ![call.id] = [row EXCEPT !.ends = @ + 1, !.phase = phase]]
    /\ current' = NoCall
    /\ IF phase = "cancelled" THEN pc' = "idle" /\ batch' = <<>>
                              ELSE pc' = "call" /\ batch' = rest
    /\ active' = IF call.tool = "use_skill" /\ phase = "succeeded"
                 THEN active \cup {call.arg} ELSE active

(* Status of a call whose tool returned or threw: a deadline makes it fail, *)
(* a cancelled turn comes first.                                            *)
Outcome(plain) ==
    IF signal THEN "cancelled" ELSE IF current.abort = "no" THEN plain ELSE "failed"

(* How a refused question is reported: only these tools word the refusal so *)
(* that the loop knows it for one.                                          *)
RefusalPhase(tool) ==
    IF tool \in {"write_file", "browser_render"} THEN "blocked" ELSE "succeeded"

(* A call is taken for blocked when its result opens with one of the loop's *)
(* own refusal phrases.  Some tools hand on text from outside as it is, a   *)
(* file's, a page's, a server's or the names in a directory, which may do   *)
(* so after a full success.                                                 *)
Relays == {"read_file", "list_files", "web_fetch", "browser_render", "mcp_call"}
Reported(tool) == {"succeeded"} \cup (IF tool \in Relays THEN {"blocked"} ELSE {})

(* The effect begins.  A write compares the file with the version it showed *)
(* and reports a mismatch in its text only.                                 *)
Operate(call, by, rest) ==
    LET wrote == call.tool = "write_file" /\ file[call.arg] = call.seen
        row == [log[call.id] EXCEPT !.begun = by, !.seen = call.seen, !.wrote = wrote,
                                    !.answer = IF by = "gateway" THEN @ ELSE by]
    IN  /\ file' = IF wrote THEN [file EXCEPT ![call.arg] = @ + 1] ELSE file
        /\ IF call.tool \in SyncTools
           THEN \E phase \in Reported(call.tool) : Ended(call, phase, row, rest)
           ELSE /\ pc' = "run" /\ current' = call /\ batch' = rest
                /\ log' = [log EXCEPT ![call.id] = row]
                /\ UNCHANGED active

-----------------------------------------------------------------------------
OverRendered(call) == call.tool = "browser_render" /\ renders >= 2

Looking == pc = "call" /\ batch # <<>> /\ ~signal

(* Refused without a question: by the gateway, a skill, the plan, a limit.  *)
Block ==
    /\ Looking
    /\ LET call == Head(batch)
           d == Decision(call)
       IN  /\ d.decision = "deny" \/ OverRendered(call)
           /\ used' = IF d.decision = "deny" THEN used ELSE Counting(d)
           /\ renders' = IF d.decision = "deny" THEN renders ELSE renders + 1
           /\ Ended(call, "blocked", log[call.id], Tail(batch))
    /\ UNCHANGED <<left, manifest, plan, signal, pending, leases, file>>

(* The tool is called: it runs at once, or a session lease answers for the  *)
(* user, or the user is asked.  A write reads the file it will show first.  *)
Take ==
    /\ Looking
    /\ LET call == Head(batch)
           d == Decision(call)
           c == [id |-> call.id, tool |-> call.tool, arg |-> call.arg, timed |-> d.timed,
                 abort |-> "no",
                 seen |-> IF call.tool = "write_file" THEN file[call.arg] ELSE 0]
       IN  /\ d.decision # "deny" /\ ~OverRendered(call) /\ call.tool # "todo_write"
           /\ used' = Counting(d)
           /\ renders' = IF call.tool = "browser_render" THEN renders + 1 ELSE renders
           /\ IF d.decision = "allow"
              THEN Operate(c, "gateway", Tail(batch)) /\ UNCHANGED pending
              ELSE /\ current' = c /\ batch' = Tail(batch)
                   /\ IF \E lease \in leases : Matches(lease, call, d.decision)
                      THEN /\ pc' = "lease"
                           /\ log' = [log EXCEPT ![c.id].answer = "lease"]
                           /\ UNCHANGED pending
                      ELSE /\ pc' = "ask"
                           /\ pending' = [id |-> c.id, lease |-> Proposed(call, d.decision)]
                           /\ log' = [log EXCEPT ![c.id].answer = "asked"]
                   /\ UNCHANGED <<active, file>>
    /\ UNCHANGED <<left, manifest, plan, signal, leases>>

(* todo_write: a plan of three steps or more is put to the user unless one  *)
(* was approved before; a shorter one approves itself.                      *)
Propose ==
    /\ Looking
    /\ LET call == Head(batch)
           asks == call.arg = "long" /\ ~plan.approved
       IN  /\ call.tool = "todo_write" /\ Decision(call).decision # "deny"
           /\ plan' = [proposed |-> TRUE, approved |-> ~asks]
           /\ IF asks
              THEN /\ pc' = "plan" /\ batch' = Tail(batch)
                   /\ current' = [id |-> call.id, tool |-> call.tool, arg |-> call.arg,
                                  timed |-> FALSE, abort |-> "no", seen |-> 0]
                   /\ pending' = [id |-> call.id, lease |-> None]
                   /\ UNCHANGED <<log, active>>
              ELSE Ended(call, "succeeded", log[call.id], Tail(batch)) /\ UNCHANGED pending
    /\ UNCHANGED <<left, manifest, used, renders, signal, leases, file>>

(* The tool's signal, looked at again after the user's word. *)
NeverStopped == FALSE   \* mutant
Stopped == current.abort # "no"

(* The user's word.  It may reach a question whose call has given up: then  *)
(* it only settles the question, and a session lease is still kept.  A yes  *)
(* that comes after the call's time limit runs nothing.                     *)
Answer ==
    /\ pending # Nobody
    /\ pending' = Nobody
    /\ \E word \in {"yes", "no", "session"} :
          /\ word = "session" => pending.lease # None
          /\ leases' = IF word = "session" THEN leases \cup {pending.lease} ELSE leases
          /\ LET row == [log[pending.id] EXCEPT !.answer = word]
             IN  IF pending.id # current.id
                 THEN /\ log' = [log EXCEPT ![pending.id] = row]
                      /\ UNCHANGED <<pc, batch, current, plan, active, file>>
                 ELSE IF pc = "plan"
                 THEN /\ plan' = [plan EXCEPT !.approved = word = "yes"]
                      /\ Ended(current, "succeeded", row, batch)
                      /\ UNCHANGED file
                 ELSE /\ UNCHANGED plan
                      /\ IF Stopped
                         THEN Ended(current, Outcome("failed"), row, batch) /\ UNCHANGED file
                         ELSE IF word = "no"
                         THEN Ended(current, RefusalPhase(current.tool), row, batch)
                              /\ UNCHANGED file
                         ELSE Operate(current, word, batch)
    /\ UNCHANGED <<left, manifest, used, renders, signal>>

(* The events of a lease's answer are out, and the call goes on. *)
LeaseAnswers ==
    /\ pc = "lease"
    /\ IF Stopped THEN Ended(current, Outcome("failed"), log[current.id], batch) /\ UNCHANGED file
       ELSE Operate(current, "lease", batch)
    /\ UNCHANGED <<left, manifest, plan, used, renders, signal, pending, leases>>

(* An asynchronous tool returns or throws. *)
Finish ==
    /\ pc = "run"
    /\ \E plain \in Reported(current.tool) \cup {"failed"} :
          Ended(current, Outcome(plain), log[current.id], batch)
    /\ UNCHANGED <<left, manifest, plan, used, renders, signal, pending, leases, file>>

-----------------------------------------------------------------------------
(* Limits, cancellation, and what the user does meanwhile. *)

Aborted(reason) ==
    current' = IF current.abort = "no" THEN [current EXCEPT !.abort = reason] ELSE current

Expire ==
    /\ pc \in {"ask", "lease", "run"} /\ current.timed /\ current.abort = "no"
    /\ Spend("expiries")
    /\ Aborted("timeout")
    /\ UNCHANGED <<manifest, pc, batch, plan, used, renders, active, signal, pending, leases, file, log>>

(* Three seconds after the abort the loop no longer waits.  The question of *)
(* the call stays open in the bridge, an operation goes on by itself.       *)
(* Mutants: the operation goes on being waited for after it was reported; a  *)
(* cancellation starts no timer.                                            *)
GiveUpAndWait ==
    /\ pc \in {"ask", "lease", "run"} /\ current.abort # "no"
    /\ log' = [log EXCEPT ![current.id] = [@ EXCEPT !.ends = @ + 1, !.phase = "failed"]]
    /\ UNCHANGED <<left, manifest, pc, batch, current, plan, used, renders, active, signal,
                   pending, leases, file>>
GiveUpOnTimeout ==
    /\ pc \in {"ask", "lease", "run"} /\ current.abort = "timeout"
    /\ Ended(current, "failed", log[current.id], batch)
    /\ UNCHANGED <<left, manifest, plan, used, renders, signal, pending, leases, file>>

GiveUp ==
    /\ pc \in {"ask", "lease", "run"} /\ current.abort # "no"
    /\ Ended(current, "failed", log[current.id], batch)
    /\ UNCHANGED <<left, manifest, plan, used, renders, signal, pending, leases, file>>

(* generation.cancel: the signal aborts, and an open question is answered   *)
(* with no.                                                                 *)
Cancel ==
    /\ pc # "idle" /\ ~signal
    /\ Spend("cancels")
    /\ signal' = TRUE /\ pending' = Nobody
    /\ IF pc \in {"ask", "plan"}
       THEN Ended(current, "cancelled", log[current.id], batch)
       ELSE /\ IF pc \in {"lease", "run"} THEN Aborted("cancel") ELSE UNCHANGED current
            /\ UNCHANGED <<pc, batch, active, log>>
    /\ UNCHANGED <<manifest, plan, used, renders, leases, file>>

(* Somebody else changes a file whose new content is being shown. *)
EditOutside ==
    /\ pc \in {"ask", "lease"} /\ current.tool = "write_file"
    /\ Spend("edits")
    /\ file' = [file EXCEPT ![current.arg] = @ + 1]
    /\ UNCHANGED <<manifest, pc, batch, current, plan, used, renders, active, signal, pending,
                   leases, log>>

(* Commands are carried out at once, also during a turn, unless a question  *)
(* is open.                                                                 *)
ClearLeases ==
    /\ pending = Nobody /\ leases # {}
    /\ Spend("clears")
    /\ leases' = {}
    /\ log' = [i \in DOMAIN log |->
                  [log[i] EXCEPT !.answer = IF @ = "session" THEN "revoked" ELSE @]]
    /\ UNCHANGED <<manifest, pc, batch, current, plan, used, renders, active, signal, pending, file>>

Next ==
    \/ StartTurn \/ ModelCalls \/ ModelEnds \/ BatchDone \/ Cut
    \/ Block \/ Take \/ Propose \/ Answer \/ LeaseAnswers \/ Finish
    \/ Expire \/ GiveUp \/ Cancel \/ EditOutside \/ ClearLeases

Spec == Init /\ [][Next]_vars

(* What a cancelled turn does by itself: the loop goes on, an aborted       *)
(* request throws, the three seconds pass.  No word of the user and no      *)
(* result of a tool is counted on.                                          *)
WindDown == signal /\ (ModelEnds \/ BatchDone \/ Cut \/ LeaseAnswers \/ GiveUp)

FairSpec == Spec /\ WF_vars(WindDown)

TypeOK ==
    /\ pc \in {"idle", "model", "call", "ask", "lease", "plan", "run"}
    /\ \A i \in DOMAIN batch : batch[i].id \in DOMAIN log
    /\ plan \in [proposed : BOOLEAN, approved : BOOLEAN] /\ (plan.approved => plan.proposed)
    /\ pc \in {"ask", "lease", "plan", "run"} <=> current # NoCall
    /\ pc \in {"ask", "plan"} => pending.id = current.id
    /\ active \subseteq Skills /\ renders \in Nat /\ signal \in BOOLEAN

-----------------------------------------------------------------------------
(* Properties. *)

Begun(row) == row.begun # "no"
UsersWord == {"yes", "session", "lease"}

(* The needs of the manifest that bear on a tool of the log. *)
Bearing(row) == {manifest[c] : c \in Ready(manifest, PolicyOf(row.tool))}

(* Whatever the merge of several needs and the gateway make of it, an effect *)
(* of a manifest tool rests on a need that was declared and granted, for a   *)
(* fetch on the one its arguments select; a write on one that is not         *)
(* readonly.  When any of the needs that share the tool is non_default, asks *)
(* for authorization or for an approval every time, and always for an        *)
(* external tool, a render or a write, the user's word stands behind it.     *)
(* (employee-tools.mjs resolve, tool-gateway.mjs applyEmployeePolicy.)       *)
ManifestIsObeyed ==
    \A i \in DOMAIN log :
        LET row == log[i]
            ready == Ready(manifest, PolicyOf(row.tool))
        IN  Begun(row) =>
            /\ row.tool \notin DOMAIN Intrinsic =>
                  /\ ready # {} /\ row.arg \notin {"outside", "private", "bad"}
                  /\ row.tool = "web_fetch" =>
                        (IF row.arg = "extract" THEN "web_extract" ELSE "web_fetch") \in ready
                  /\ row.tool = "write_file" =>
                        \E need \in Bearing(row) : need.permission # "readonly"
            /\ \/ row.tool \in {"mcp_call", "browser_render", "write_file"}
               \/ \E need \in Bearing(row) :
                     \/ need.necessity = "non_default" \/ need.approval = "always"
                     \/ need.permission = "requires_authorization"
               => row.begun \in UsersWord

(* An effect begins only for the call the loop is busy with, and on a state  *)
(* that is still the one it was decided on, whenever the user answers: the   *)
(* turn was not cancelled, the call's time limit has not passed, no plan     *)
(* waits for approval, the skills active by then allow the tool, and a write *)
(* replaces the content whose change was shown.                              *)
EffectIsCurrent ==
    [][\A i \in DOMAIN log : ~Begun(log[i]) /\ Begun(log'[i]) =>
          /\ ~signal
          /\ \/ i = current.id /\ current.abort = "no"
             \/ pc = "call" /\ i = Head(batch).id
          /\ plan.proposed => plan.approved
          /\ active = {} \/ log[i].tool \in {"use_skill"} \cup UNION {AllowedTools[s] : s \in active}
          /\ log'[i].wrote => file[log[i].arg] = log'[i].seen]_vars

(* The user granted a lease by the answer in row "grant", has not revoked it, *)
(* and it covers the call of the other row: the same tool, on the same file   *)
(* or, below the root, on its directory or another file in it.                *)
Covers(grant, row) ==
    /\ grant.answer = "session" /\ grant.tool = row.tool
    /\ \/ grant.arg = row.arg
       \/ IF row.tool = "list_files" THEN Parent[row.arg] = grant.arg
          ELSE Parent[grant.arg] # "." /\ Parent[grant.arg] \in {row.arg, Parent[row.arg]}

(* A lease answers for the user only when he has granted one for an earlier  *)
(* call that covers this one and has not revoked it by then; and an effect   *)
(* begins on a lease only for a call that was answered so.  Between the two  *)
(* lies the drain of the call's paced events, and a revocation in it comes   *)
(* too late, see RevokedAtOnce (permission-leases.mjs, jsonl-bridge.mjs      *)
(* confirm).                                                                 *)
LeaseIsTheUsers ==
    [][\A i \in DOMAIN log :
          /\ log[i].answer # "lease" /\ log'[i].answer = "lease" =>
                \E j \in 1..(i - 1) : Covers(log[j], log[i])
          /\ log[i].begun # "lease" /\ log'[i].begun = "lease" => log[i].answer = "lease"]_vars

(* What the product says of /permissions clear (docs/prd_v0.20.md): all the  *)
(* leases of the session are revoked at once, so no effect begins on a lease *)
(* that the user has taken back.                                             *)
RevokedAtOnce ==
    [][\A i \in DOMAIN log :
          log[i].begun # "lease" /\ log'[i].begun = "lease" =>
              \E j \in 1..(i - 1) : Covers(log[j], log[i])]_vars

Taken(row) == row.turn = left.turns /\ (Begun(row) \/ row.answer # "none")
Draws(row, c) ==
    /\ PolicyOf(row.tool) = RuntimeTool[c]
    /\ row.tool = "web_fetch" => c = IF row.arg = "extract" THEN "web_extract" ELSE "web_fetch"
Counts(c) == RuntimeTool[c] = "web_fetch" \/ Ready(manifest, RuntimeTool[c]) = {c}
Drawn(c) == {i \in DOMAIN log : Taken(log[i]) /\ Draws(log[i], c)}
Rendered == {i \in DOMAIN log : Taken(log[i]) /\ log[i].tool = "browser_render"}

(* The calls of a turn that were put to the user or begun, whatever he said  *)
(* and however they ended, stay within the limit of the capability they draw *)
(* on; the one of read_file is shared with list_files.  At most two pages    *)
(* are rendered.  (A capability that shares read_file with another one is    *)
(* left out: each of the two tools then has the limit for itself.)           *)
CallsStayWithinLimit ==
    /\ \A c \in DOMAIN manifest :
          manifest[c].max > 0 /\ Counts(c) => Cardinality(Drawn(c)) <= manifest[c].max
    /\ Cardinality(Rendered) <= 2

(* Every call ends once at most, whatever its tool, its limit, the user and  *)
(* a cancellation do in which order; a call the loop has left behind in this *)
(* turn has ended; and a write or the loading of a skill that was reported as *)
(* blocked had no effect.  (Of a tool that hands on outside text the report   *)
(* says nothing of the kind, see Relays.)                                     *)
OneEndPerCall ==
    \A i \in DOMAIN log :
        /\ log[i].ends <= 1
        /\ log[i].phase = "blocked" /\ log[i].tool \notin Relays => ~Begun(log[i])
        /\ pc = "model" /\ log[i].turn = left.turns => log[i].ends = 1

(* A cancelled turn ends, also one whose tool does not react.                *)
CancelEndsTurn == signal ~> pc = "idle"

(* What the loop says of its report (run.mjs, above "skipped"): a call the   *)
(* user refused is not shown as done.  It is for the tools that leave the    *)
(* wording of the refusal to runTool's default.                              *)
RefusedIsBlocked ==
    \A i \in DOMAIN log :
        log[i].answer = "no" /\ log[i].tool # "todo_write" => log[i].phase # "succeeded"
=============================================================================
