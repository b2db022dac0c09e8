--------------------------- MODULE ApprovalReader ---------------------------
(***************************************************************************)
(* Authorizations and the verdict in one session of the workbench          *)
(* (createTaskModeActionReader, the confirm callback of runTaskMode and    *)
(* runToolWithDeadline, packages/runtime/run.mjs).                         *)
(*                                                                         *)
(* The agent loop, the reader of the client's lines and the timers share   *)
(* one event loop.  A line resolves the promise of an approval; whoever    *)
(* awaits it goes on later, after the other lines of the same chunk.       *)
(***************************************************************************)
EXTENDS Naturals, Sequences

CONSTANTS
  Calls,       \* tool calls of the run that need an authorization
  Limited,     \* those with a time limit
  MaxLines,    \* bound on the lines the client sends
  None         \* no answer, no ask

Tools == 1 .. Calls
Delivery == 0
Asks == Tools \union {Delivery}

(* What a waiter receives: the decision, the kind of line it came from, the
   ask the user meant by it, and whether the deliverable was there then. *)
Results ==
  [accepted : BOOLEAN, line : {"close", "bare", "resolve", "delete"},
   for : Asks \union {None}, present : BOOLEAN]

ASSUME ApprovalReaderAssumption ==
  /\ Calls \in Nat /\ MaxLines \in Nat
  /\ Limited \subseteq Tools
  /\ None \notin Asks /\ None \notin Results

VARIABLES
  loop,       \* where runTaskMode is
  call,       \* the tool call it is at
  stamp,      \* id of each tool approval: the millisecond it was asked in
  aborted,    \* calls whose time limit has passed
  ran,        \* for each call that ran, the answer it ran on
  artifact,   \* is the deliverable there
  approvals,  \* pending approvals of the reader
  answer,     \* results whose waiter has not gone on yet
  closed, reason,
  outcome,    \* the result the delivery is settled with
  shown,      \* the last ask announced to the client
  pipe, sent, ended

agent == <<loop, call, stamp, aborted, ran, outcome, shown>>
reader == <<approvals, answer, closed, reason>>
client == <<pipe, sent, ended>>
vars == <<agent, artifact, reader, client>>

(* approval-<now>, or task-approval-<run>. *)
Id(w) == IF w = Delivery THEN 0 ELSE stamp[w]

Announced == {w \in Tools : stamp[w] # 0} \union ({shown} \ {None})

Result(ok, line, w) == [accepted |-> ok, line |-> line, for |-> w, present |-> artifact]

Init ==
  /\ \/ loop = "calling" /\ call = 1 /\ artifact = FALSE
     \/ loop = "grading" /\ call = Calls + 1 /\ artifact = TRUE   \* recovered
  /\ stamp = [w \in Tools |-> 0]
  /\ aborted = {}
  /\ ran = [w \in Tools |-> None]
  /\ approvals = {}
  /\ answer = [w \in Asks |-> None]
  /\ closed = FALSE
  /\ reason = "input_eof"
  /\ outcome = None
  /\ shown = None
  /\ pipe = <<>>
  /\ sent = 0
  /\ ended = FALSE

-----------------------------------------------------------------------------
(* The client, at the other end of the pipe, answers what it was shown.    *)

Send(line) ==
  /\ ~ended
  /\ sent < MaxLines
  /\ sent' = sent + 1
  /\ pipe' = Append(pipe, line)
  /\ UNCHANGED <<agent, artifact, reader, ended>>

(* fits is FALSE for a line with an unknown decision or another kind. *)
SendResolve ==
  \E w \in Announced, ok, fits \in BOOLEAN :
    Send([type |-> "resolve", id |-> Id(w), allow |-> ok, fits |-> fits, for |-> w])

SendBare ==
  /\ shown # None
  /\ \E ok \in BOOLEAN : Send([type |-> "bare", allow |-> ok, for |-> shown])

SendDelete == artifact /\ Send([type |-> "delete"])

SendExit == Send([type |-> "exit"])

End ==
  /\ ~ended
  /\ ended' = TRUE
  /\ UNCHANGED <<agent, artifact, reader, pipe, sent>>

-----------------------------------------------------------------------------
(* The reader.                                                             *)

Settle(ws, result) ==
  /\ approvals' = approvals \ ws
  /\ answer' = [w \in Asks |-> IF w \in ws THEN result ELSE answer[w]]

Interrupted == Result(FALSE, "close", None)

(* rl.close() and its listener, which runs once. *)
Close(why) ==
  /\ closed' = TRUE
  /\ reason' = why
  /\ Settle(approvals, Interrupted)

Read(type) ==
  /\ pipe # <<>>
  /\ Head(pipe).type = type
  /\ pipe' = Tail(pipe)
  /\ UNCHANGED <<agent, sent, ended>>

(* Mutant: leaving does not tell the waiters. *)
ReadExit_Quiet ==
  /\ Read("exit")
  /\ closed' = TRUE /\ reason' = "user_exit"
  /\ UNCHANGED <<artifact, approvals, answer>>

(* Lines behind /exit in the same chunk may still be read. *)
ReadExit ==
  /\ Read("exit")
  /\ Close("user_exit")
  /\ UNCHANGED artifact

ReadEnd ==
  /\ ended /\ ~closed
  /\ pipe = <<>>
  /\ Close(reason)
  /\ UNCHANGED <<agent, artifact, client>>

(* The approval a bare line settles: the only pending one, and a bare yes
   never a deliverable. *)
Heard(line) ==
  {w \in approvals : approvals = {w} /\ ~(line.allow /\ w = Delivery)}

ReadBare ==
  /\ Read("bare")
  /\ LET line == Head(pipe)
     IN Settle(Heard(line), Result(line.allow, "bare", line.for))
  /\ UNCHANGED <<artifact, closed, reason>>

(* Mutant: whatever is pending is settled, whichever id the line names. *)
Named_Any(line) == IF line.fits THEN approvals ELSE {}

Named(line) == IF line.fits THEN {w \in approvals : Id(w) = line.id} ELSE {}

ReadResolve ==
  /\ Read("resolve")
  /\ LET line == Head(pipe)
     IN Settle(Named(line), Result(line.allow, "resolve", line.for))
  /\ UNCHANGED <<artifact, closed, reason>>

(* artifact.delete of the deliverable; it may fail. *)
ReadDelete ==
  /\ Read("delete")
  /\ \/ /\ artifact
        /\ artifact' = FALSE
        /\ Settle(approvals \intersect {Delivery}, Result(FALSE, "delete", Delivery))
     \/ UNCHANGED <<artifact, approvals, answer>>
  /\ UNCHANGED <<closed, reason>>

-----------------------------------------------------------------------------
(* The run.                                                                *)

(* waitForApproval: a closed reader or an id in use answers at once. *)
Wait(w, id) ==
  IF closed \/ \E v \in approvals : Id(v) = id
  THEN UNCHANGED approvals /\ answer' = [answer EXCEPT ![w] = Interrupted]
  ELSE UNCHANGED answer /\ approvals' = approvals \union {w}

Latest == IF call = 1 THEN 0 ELSE stamp[call - 1]

(* confirm: the id is the current millisecond, announced before the wait. *)
Ask ==
  /\ loop = "calling"
  /\ call \in Tools
  /\ \E id \in (IF call = 1 THEN {1} ELSE {Latest, Latest + 1}) :
       stamp' = [stamp EXCEPT ![call] = id] /\ Wait(call, id)
  /\ shown' = call
  /\ loop' = "asking"
  /\ UNCHANGED <<call, aborted, ran, outcome, artifact, closed, reason, client>>

Proceed == loop' = "calling" /\ call' = call + 1

Granted(w) == answer[w].accepted /\ w \notin aborted

(* runApproved goes on.  After the time limit it throws, which ends the call
   if the three seconds of grace are not over. *)
Resume(w) ==
  /\ answer[w] # None
  /\ ran' = IF Granted(w) THEN [ran EXCEPT ![w] = answer[w]] ELSE ran
  /\ answer' = [answer EXCEPT ![w] = None]
  /\ IF loop = "asking" /\ call = w THEN Proceed ELSE UNCHANGED <<loop, call>>
  /\ UNCHANGED <<stamp, aborted, outcome, shown, artifact, approvals, closed, reason, client>>

(* Promises are served before timers. *)
Served == \A w \in Asks : answer[w] = None

Expire ==
  /\ loop = "asking"
  /\ call \in Limited \ aborted
  /\ Served
  /\ aborted' = aborted \union {call}
  /\ UNCHANGED <<loop, call, stamp, ran, outcome, shown, artifact, reader, client>>

(* TOOL_TERMINATION_GRACE_MS are over; the approval stays with the reader. *)
GiveUp ==
  /\ loop = "asking"
  /\ call \in aborted
  /\ Served
  /\ Proceed
  /\ UNCHANGED <<stamp, aborted, ran, outcome, shown, artifact, reader, client>>

(* A failing agent loop closes the reader and exits the process. *)
Fail ==
  /\ loop = "calling"
  /\ Served
  /\ loop' = "done"
  /\ closed' = TRUE
  /\ reason' = "runtime_complete"
  /\ approvals' = {}
  /\ UNCHANGED <<call, stamp, aborted, ran, outcome, shown, artifact, answer, client>>

Write ==
  /\ loop = "calling"
  /\ call \notin Tools
  /\ loop' = "grading"
  /\ artifact' \in BOOLEAN
  /\ UNCHANGED <<call, stamp, aborted, ran, outcome, shown, reader, client>>

(* The wait is registered before the request is announced. *)
Deliver ==
  /\ loop = "grading"
  /\ artifact
  /\ Wait(Delivery, 0)
  /\ shown' = Delivery
  /\ loop' = "delivering"
  /\ UNCHANGED <<call, stamp, aborted, ran, outcome, artifact, closed, reason, client>>

(* The run is over, with the verdict or without a valid deliverable. *)
Finish(result) ==
  /\ loop' = "done"
  /\ outcome' = result
  /\ closed' = TRUE
  /\ reason' = "runtime_complete"
  /\ approvals' = {}
  /\ answer' = [w \in Asks |->
                  IF w \in approvals THEN Interrupted
                  ELSE IF w = Delivery THEN None ELSE answer[w]]
  /\ UNCHANGED <<call, stamp, aborted, ran, shown, artifact, client>>

Drop == loop = "grading" /\ Finish(None)

Conclude == loop = "delivering" /\ answer[Delivery] # None /\ Finish(answer[Delivery])

Runtime ==
  \/ ReadExit \/ ReadEnd \/ ReadBare \/ ReadResolve \/ ReadDelete
  \/ Ask \/ (\E w \in Tools : Resume(w)) \/ GiveUp
  \/ Write \/ Deliver \/ Drop \/ Conclude

Client == SendResolve \/ SendBare \/ SendDelete \/ SendExit \/ End

Next == Runtime \/ Client \/ Expire \/ Fail

Spec == Init /\ [][Next]_vars

(* The event loop serves its promises and lines, and timers fire; the client
   may stay silent for ever. *)
FairSpec == Spec /\ WF_vars(Runtime) /\ WF_vars(Expire)

-----------------------------------------------------------------------------
(* Properties.                                                             *)

Lines ==
  [type : {"resolve"}, id : 0 .. Calls, allow : BOOLEAN, fits : BOOLEAN, for : Asks]
    \union [type : {"bare"}, allow : BOOLEAN, for : Asks]
    \union [type : {"delete", "exit"}]

(* Every variable keeps its shape, and only calls with a limit are aborted. *)
TypeOK ==
  /\ loop \in {"calling", "asking", "grading", "delivering", "done"}
  /\ call \in 1 .. Calls + 1
  /\ stamp \in [Tools -> 0 .. Calls]
  /\ aborted \subseteq Limited
  /\ ran \in [Tools -> Results \union {None}]
  /\ artifact \in BOOLEAN
  /\ approvals \subseteq Asks
  /\ answer \in [Asks -> Results \union {None}]
  /\ closed \in BOOLEAN
  /\ reason \in {"input_eof", "user_exit", "runtime_complete"}
  /\ outcome \in Results \union {None}
  /\ shown \in Asks \union {None}
  /\ sent \in 0 .. MaxLines /\ ended \in BOOLEAN
  /\ pipe \in Seq(Lines)

(* Nobody waits at a closed reader, where no line will ever settle it. *)
ClosedLeavesNobody == closed => approvals = {}

(* A tool runs on the answer to its own request, not on one the user gave to
   an earlier request, whatever lines are still in the pipe; unless the line
   does not name a request, or both were made in the same millisecond. *)
RunsWhatWasAllowed ==
  \A w \in Tools : ran[w] # None =>
    \/ ran[w].line = "bare"
    \/ ran[w].for \in Tools /\ stamp[ran[w].for] = stamp[w]

(* An allow that arrives after the time limit runs nothing. *)
LateAllowRunsNothing == [][\A w \in aborted : ran'[w] = ran[w]]_vars

(* A deliverable is only accepted by an approval.resolve given to the request
   for its acceptance, *)
AcceptIsExplicit ==
  outcome # None /\ outcome.accepted => outcome.line = "resolve" /\ outcome.for = Delivery

(* and never after the user deleted it. *)
DeletedIsNotAccepted == outcome # None /\ outcome.accepted => outcome.present

(* When the input ends the run ends, whatever it was waiting for. *)
InputEndFinishes == ended ~> loop = "done"

(* A limited tool call ends without an answer. *)
LimitFrees == \A w \in Limited : (loop = "asking" /\ call = w) ~> ~(loop = "asking" /\ call = w)

(* A legacy client's bare no settles the request for acceptance, the only one
   the run waits for when it makes it. *)
BareNoIsHeard ==
  [][ /\ pipe # <<>> /\ pipe' = Tail(pipe)
      /\ Head(pipe).type = "bare" /\ ~Head(pipe).allow /\ Head(pipe).for = Delivery
      /\ Delivery \in approvals
      => Delivery \notin approvals' ]_vars

=============================================================================
