-------------------------- MODULE WorkbenchClient --------------------------
(***************************************************************************)
(* The terminal workbench: the Rust client (crewclaw-cli/src/workbench)    *)
(* and the engine it starts (tui/jsonl-bridge.mjs), two processes joined   *)
(* by two pipes.  The client draws what the events of the engine told it,  *)
(* one session per task, and a request in the viewed session captures the  *)
(* keyboard; the engine goes on running while its events are on their way, *)
(* so a key may be an answer to a screen that is no longer true.           *)
(*                                                                         *)
(* The engine here is what Workbench is to its client: ledgers, receipts   *)
(* and growth cycles are in that module.  A message is a task in plain     *)
(* words; a slash command, a digit or a bare yes typed as a message is     *)
(* not modelled here.                                                      *)
(***************************************************************************)
EXTENDS Naturals, Sequences, FiniteSets

CONSTANTS
  MaxTasks, MaxRequests, MaxMessages,
  MaxLines,      \* lines that may be in the pipe to the engine
  MaxTroubles    \* time limits that may pass, and settlements whose ledgers fail

ASSUME BoundsAssumption ==
  {MaxTasks, MaxRequests, MaxMessages, MaxLines, MaxTroubles} \subseteq Nat

Tasks == 1..MaxTasks
Requests == 1..MaxRequests
None == 0

VARIABLES
  run,        \* "idle", "working", "draining", "drained" or "winding"
  turn,       \* the task of the running turn, or of the last one
  active,     \* activeTaskRunId: None once its end was announced
  asking,     \* the request the turn waits for
  confirm,    \* pendingConfirm
  unsaid,     \* a request that is not announced yet
  held,       \* pendingApproval
  queued,     \* queuedInputs
  scheduled,  \* a queued input has been taken and is about to be handled
  requests,   \* the requests made, [task, kind], by number
  toEngine, toClient,
  sessions,   \* the client's task sessions
  viewed,     \* viewed_task_session_id
  current,    \* active_task_session_id
  typed,      \* pending_user_message
  submitted,  \* submission_pending
  pressed,    \* requests answered at the screen that showed them
  settled,    \* requests an answer settled
  expired,    \* requests whose turn no longer waits
  left        \* messages and troubles a behaviour may still have

engine == <<run, turn, active, asking, confirm, unsaid, held, queued, scheduled, requests>>
client == <<sessions, viewed, current, typed, submitted>>
ghost == <<pressed, settled, expired, left>>
vars == <<engine, toEngine, toClient, client, ghost>>

NoSession == [known |-> FALSE, shown |-> None, busy |-> FALSE, closed |-> FALSE, over |-> FALSE]
NewSession == [NoSession EXCEPT !.known = TRUE, !.busy = TRUE]

Init ==
  /\ run = "idle" /\ turn = None /\ active = None
  /\ asking = None /\ confirm = None /\ unsaid = None /\ held = None
  /\ queued = 0 /\ scheduled = FALSE /\ requests = <<>>
  /\ toEngine = <<>> /\ toClient = <<>>
  /\ sessions = [t \in Tasks |-> NoSession]
  /\ viewed = None /\ current = None /\ typed = FALSE /\ submitted = FALSE
  /\ pressed = {} /\ settled = {} /\ expired = {}
  /\ left = [messages |-> MaxMessages, troubles |-> MaxTroubles]

Event(kind, t, r) == [type |-> kind, task |-> t, request |-> r]
About(kind, r) == Event(kind, requests[r].task, r)
Emit(events) == toClient' = toClient \o events
Quiet == UNCHANGED toClient
Spend(what) == left[what] > 0 /\ left' = [left EXCEPT ![what] = @ - 1]

-----------------------------------------------------------------------------
(* The engine: lines of the client. *)

Line(type) == toEngine # <<>> /\ Head(toEngine).type = type
Consume == toEngine' = Tail(toEngine)

(* Mutant: what was queued stays queued. *)
ScheduleNothing(q) == queued' = q /\ UNCHANGED scheduled

(* scheduleQueuedInput, when a turn or a settlement has ended. *)
Schedule(q) ==
  IF q > 0 /\ confirm = None /\ ~scheduled
    THEN queued' = q - 1 /\ scheduled' = TRUE
    ELSE queued' = q /\ UNCHANGED scheduled

(* A message while a request is open is no answer to it and is dropped; while
   a task runs it is queued. *)
Hear ==
  \/ /\ confirm # None \/ held # None
     /\ Quiet /\ UNCHANGED <<run, turn, active, queued>>
  \/ /\ confirm = None /\ held = None /\ run # "idle"
     /\ queued' = queued + 1
     /\ Quiet /\ UNCHANGED <<run, turn, active>>
  \/ /\ confirm = None /\ held = None /\ run = "idle" /\ turn < MaxTasks
     /\ run' = "working" /\ turn' = turn + 1 /\ active' = turn + 1
     /\ Emit(<<Event("started", turn + 1, None)>>)
     /\ UNCHANGED queued

Message ==
  /\ Line("message") /\ Consume /\ Hear
  /\ UNCHANGED <<asking, confirm, unsaid, held, scheduled, requests, client, ghost>>

Dequeue ==
  /\ scheduled /\ scheduled' = FALSE /\ Hear
  /\ UNCHANGED <<asking, confirm, unsaid, held, requests, toEngine, client, ghost>>

(* Mutant: the id of the answer is not compared. *)
NamedAny(r) == TRUE

(* An answer settles the request it names: a waiting tool or plan first, else
   the delivery that is held. *)
Named(r) == Head(toEngine).request = r

Resolve ==
  /\ Line("resolve") /\ confirm # None /\ Consume
  /\ IF Named(confirm)
       THEN /\ confirm' = None
            /\ asking' = IF asking = confirm THEN None ELSE asking
            /\ settled' = settled \union {confirm}
            /\ Emit(<<About("resolved", confirm)>>)
       ELSE UNCHANGED <<confirm, asking, settled, toClient>>
  /\ UNCHANGED <<run, turn, active, unsaid, held, queued, scheduled, requests,
                 client, pressed, expired, left>>

(* The ledgers of a settlement may fail, which keeps the delivery held; a
   delivery that changed since is refused and nothing is scheduled. *)
Settle ==
  /\ Line("resolve") /\ confirm = None /\ Consume
  /\ IF held = None \/ ~Named(held)
       THEN UNCHANGED <<held, active, queued, scheduled, settled, left, toClient>>
       ELSE \/ /\ Spend("troubles")
               /\ UNCHANGED <<held, active, queued, scheduled, settled, toClient>>
            \/ /\ held' = None /\ active' = IF active = requests[held].task THEN None ELSE active
               /\ settled' = settled \union {held}
               /\ IF Head(toEngine).allow
                    THEN Emit(<<About("accepted", held), About("completed", held)>>)
                    ELSE Emit(<<About("rejected", held), About("ended", held)>>)
               /\ Schedule(queued)
               /\ UNCHANGED left
            \/ /\ Head(toEngine).allow
               /\ held' = None /\ active' = IF active = requests[held].task THEN None ELSE active
               /\ settled' = settled \union {held}
               /\ Emit(<<About("rejected", held), About("ended", held)>>)
               /\ UNCHANGED <<queued, scheduled, left>>
  /\ UNCHANGED <<run, turn, asking, confirm, unsaid, requests, client, pressed, expired>>

(* generation.cancel names no task: it ends whatever runs when it is read. *)
Cancel ==
  /\ Line("cancel") /\ Consume
  /\ IF run = "idle" \/ active = None
       THEN UNCHANGED <<run, active, asking, confirm, unsaid, toClient>>
       ELSE /\ run' = IF run = "draining" THEN "drained" ELSE "winding"
            /\ active' = None /\ asking' = None /\ confirm' = None /\ unsaid' = None
            /\ Emit((IF confirm = None THEN <<>> ELSE <<About("resolved", confirm)>>)
                    \o <<Event("generationEnded", turn, None), Event("ended", turn, None)>>)
  /\ UNCHANGED <<turn, held, queued, scheduled, requests, client, ghost>>

-----------------------------------------------------------------------------
(* The engine: the running turn. *)

(* A tool or a plan asks; a request that is still open is overwritten. *)
Ask(kind) ==
  /\ run = "working" /\ asking = None /\ Len(requests) < MaxRequests
  /\ requests' = Append(requests, [task |-> turn, kind |-> kind])
  /\ asking' = Len(requests) + 1 /\ confirm' = Len(requests) + 1
  /\ unsaid' = Len(requests) + 1
  /\ UNCHANGED <<run, turn, active, held, queued, scheduled, toEngine, toClient, client, ghost>>

(* It is announced after the paced text, unless it is gone by then. *)
Announce ==
  /\ unsaid # None /\ unsaid' = None
  /\ IF confirm = unsaid THEN Emit(<<About("required", unsaid)>>) ELSE Quiet
  /\ UNCHANGED <<run, turn, active, asking, confirm, held, queued, scheduled, requests,
                 toEngine, client, ghost>>

(* The time limit of the call passes: the turn goes on, the request stays. *)
Expire ==
  /\ asking # None /\ asking' = None
  /\ Spend("troubles") /\ expired' = expired \union {asking}
  /\ Emit(<<Event("streamed", turn, None)>>)
  /\ UNCHANGED <<run, turn, active, confirm, unsaid, held, queued, scheduled, requests,
                 toEngine, client, pressed, settled>>

(* The router returns; what the turn wrote is still being drained. *)
Return ==
  /\ run = "working" /\ asking = None /\ run' = "draining"
  /\ UNCHANGED <<turn, active, asking, confirm, unsaid, held, queued, scheduled, requests,
                 toEngine, toClient, client, ghost>>

Drained == run = "drained" \/ (run = "draining" /\ unsaid = None)
GenerationEnd == IF run = "draining" THEN <<Event("generationEnded", turn, None)>> ELSE <<>>

(* A deliverable is held for its verdict, also when the task was cancelled
   during the drain; the task is not completed. *)
Deliver ==
  /\ Drained /\ Len(requests) < MaxRequests
  /\ requests' = Append(requests, [task |-> turn, kind |-> "delivery"])
  /\ held' = Len(requests) + 1
  /\ run' = "idle"
  /\ Emit(GenerationEnd \o <<Event("requested", turn, Len(requests) + 1)>>)
  /\ UNCHANGED <<turn, active, asking, confirm, unsaid, queued, scheduled, toEngine,
                 client, ghost>>

(* Chat and accepted work complete; work upgraded from chat completes without
   a verified outcome; a blocked or failed turn ends. *)
Finish(how) ==
  /\ Drained
  /\ run' = "idle" /\ active' = None
  /\ Emit(GenerationEnd \o <<Event(how, turn, None)>>)
  /\ Schedule(queued)
  /\ UNCHANGED <<turn, asking, confirm, unsaid, held, requests, toEngine, client, ghost>>

(* A cancelled turn ends in silence, or completes after all. *)
WindDown ==
  /\ run = "winding" /\ run' = "idle"
  /\ \/ Quiet
     \/ Emit(<<Event("completed", turn, None)>>)
  /\ Schedule(queued)
  /\ UNCHANGED <<turn, active, asking, confirm, unsaid, held, requests, toEngine, client, ghost>>

-----------------------------------------------------------------------------
(* The client: one event. *)

MarkBusy(s) == [s EXCEPT !.busy = TRUE]
ClearBusy(s) == [s EXCEPT !.busy = FALSE]
Show(s, r) == [ClearBusy(s) EXCEPT !.shown = r]
Hide(s) == [MarkBusy(s) EXCEPT !.shown = None]
(* Mutants: the end of a task leaves its session busy, or with its request. *)
CloseBusy(s) == [s EXCEPT !.closed = TRUE]
Close(s) == [ClearBusy(s) EXCEPT !.closed = TRUE]
EndShown(s) == [Close(s) EXCEPT !.over = TRUE]
End(s) == [Close(s) EXCEPT !.over = TRUE, !.shown = None]

(* pending_approval_matches: a plan review is stored as a tool authorization,
   and its resolution, which says what it is, does not match. *)
Matches(s, e) == s.shown = e.request /\ requests[e.request].kind # "plan"

(* accept_correlated_event, terminal_transition_allowed and the guards of the
   approval events. *)
Heeded(s, e) ==
  CASE e.type \in {"completed", "unverified", "ended"} -> ~s.over
    [] e.type \in {"required", "requested"} -> ~s.closed /\ s.shown = None
    [] e.type \in {"resolved", "accepted", "rejected"} -> ~s.closed /\ Matches(s, e)
    [] OTHER -> ~s.closed

Seen(s, e) ==
  CASE e.type = "streamed" -> MarkBusy(s)
    [] e.type = "generationEnded" -> ClearBusy(s)
    [] e.type \in {"required", "requested"} -> Show(s, e.request)
    [] e.type \in {"resolved", "accepted", "rejected"} -> Hide(s)
    [] e.type = "unverified" -> Close(s)
    [] e.type \in {"completed", "ended"} -> End(s)

(* Mutant: only a message of the client's may start another task. *)
StartTyped(t) == typed \/ current \in {None, t}

(* Another task may start while the current one has not ended only when the
   client sent a message for it. *)
StartHeeded(t) ==
  typed \/ current \in {None, t} \/ sessions[current].closed

Start(t) ==
  IF StartHeeded(t)
    THEN /\ sessions' = [sessions EXCEPT ![t] = NewSession]
         /\ current' = t
         /\ viewed' = IF typed \/ viewed \in {None, current} THEN t ELSE viewed
         /\ typed' = FALSE /\ submitted' = FALSE
    ELSE UNCHANGED client

(* Any change of a session's busy mark, whichever session it is, takes back
   the mark of the last submission. *)
Reduce ==
  /\ toClient # <<>> /\ toClient' = Tail(toClient)
  /\ LET e == Head(toClient)
         s == sessions[e.task]
     IN IF e.type = "started" THEN Start(e.task)
        ELSE IF s.known /\ Heeded(s, e)
          THEN /\ sessions' = [sessions EXCEPT ![e.task] = Seen(s, e)]
               /\ submitted' = FALSE
               /\ UNCHANGED <<viewed, current, typed>>
          ELSE UNCHANGED client
  /\ UNCHANGED <<engine, toEngine, ghost>>

-----------------------------------------------------------------------------
(* The client: one key.  A request in the viewed session takes them all. *)

Shown == IF viewed = None THEN None ELSE sessions[viewed].shown
IsBusy == submitted \/ (viewed # None /\ sessions[viewed].busy)

Write(line) == Len(toEngine) < MaxLines /\ toEngine' = Append(toEngine, line)
Action(type, r, allow) == [type |-> type, request |-> r, allow |-> allow]

Type ==
  /\ Shown = None /\ Spend("messages")
  /\ Write(Action("message", None, FALSE))
  /\ typed' = TRUE /\ submitted' = TRUE
  /\ UNCHANGED <<engine, toClient, sessions, viewed, current, pressed, settled, expired>>

Answer(allow) ==
  /\ Shown # None
  /\ Write(Action("resolve", Shown, allow))
  /\ pressed' = pressed \union {Shown}
  /\ UNCHANGED <<engine, toClient, client, settled, expired, left>>

Escape ==
  /\ Shown = None /\ IsBusy
  /\ Write(Action("cancel", None, FALSE))
  /\ UNCHANGED <<engine, toClient, client, ghost>>

Switch(t) ==
  /\ Shown = None /\ sessions[t].known /\ viewed' = t
  /\ UNCHANGED <<engine, toEngine, toClient, sessions, current, typed, submitted, ghost>>

-----------------------------------------------------------------------------
EngineReads == Message \/ Resolve \/ Settle \/ Cancel
TurnGoes == Announce \/ Expire \/ Return \/ Deliver \/ WindDown
            \/ \E how \in {"completed", "unverified", "ended"} : Finish(how)
Keys == Type \/ Escape \/ (\E allow \in BOOLEAN : Answer(allow)) \/ (\E t \in Tasks : Switch(t))

Next ==
  \/ EngineReads
  \/ Dequeue
  \/ \E kind \in {"tool", "plan"} : Ask(kind)
  \/ TurnGoes
  \/ Reduce
  \/ Keys

Spec == Init /\ [][Next]_vars

(* Both processes read their pipe, a queued input is handled, and the model
   call and every tool call have a time limit.  Nobody has to press a key. *)
FairSpec ==
  /\ Spec
  /\ WF_vars(EngineReads) /\ WF_vars(Dequeue) /\ WF_vars(Reduce)
  /\ WF_vars(TurnGoes)

-----------------------------------------------------------------------------
Lines == [type : {"message", "resolve", "cancel"}, request : Requests \union {None},
          allow : BOOLEAN]
Events == [type : {"started", "streamed", "generationEnded", "required", "requested",
                   "resolved", "accepted", "rejected", "completed", "unverified", "ended"},
           task : Tasks, request : Requests \union {None}]

TypeOK ==
  /\ run \in {"idle", "working", "draining", "drained", "winding"}
  /\ turn \in Tasks \union {None} /\ active \in Tasks \union {None}
  /\ {asking, confirm, unsaid, held} \subseteq Requests \union {None}
  /\ queued \in Nat /\ scheduled \in BOOLEAN
  /\ requests \in Seq([task : Tasks, kind : {"tool", "plan", "delivery"}])
  /\ toEngine \in Seq(Lines) /\ toClient \in Seq(Events)
  /\ sessions \in [Tasks -> [known : BOOLEAN, shown : Requests \union {None},
                             busy : BOOLEAN, closed : BOOLEAN, over : BOOLEAN]]
  /\ {viewed, current} \subseteq Tasks \union {None}
  /\ typed \in BOOLEAN /\ submitted \in BOOLEAN
  /\ pressed \union settled \union expired \subseteq Requests
  /\ left \in [messages : 0..MaxMessages, troubles : 0..MaxTroubles]

Drawn == toClient = <<>> /\ unsaid = None
Read == Drawn /\ toEngine = <<>> /\ ~scheduled

(* What stays on a screen although nobody waits for it: a plan review that was
   answered, and a request whose time limit passed. *)
Leftover(r) == r # None /\ (r \in expired \/ (r \in settled /\ requests[r].kind = "plan"))

(* A request the engine waits for is on the screen of its task, once its
   events are drawn, unless it came when a leftover of that task had the
   screen, or the task had been cancelled before it delivered. *)
RequestIsShown ==
  Drawn =>
    \A r \in {asking, held} \ {None} :
      LET s == sessions[requests[r].task]
      IN \/ s.shown = r
         \/ s.closed
         \/ \E q \in 1..(r - 1) : Leftover(q) /\ requests[q].task = requests[r].task

(* A request on a screen is one the engine waits for, once both pipes are
   empty, or a leftover. *)
ShownIsWaited ==
  Read =>
    \A t \in Tasks :
      LET r == sessions[t].shown IN r \in {None, asking, held} \/ Leftover(r)

(* Only a request that was on the screen when a key was pressed is settled by
   the key: an answer that arrives late settles nothing else. *)
SettledWasShown == settled \subseteq pressed

(* A question that was answered after its time limit: a message dropped while it
   was open may then be shown as under way for good. *)
LateAnswer == settled \cap expired # {}

(* A client that shows work has an engine at work, or one that waits for an
   answer or still has something to say, unless an answer came late. *)
BusyIsTrue ==
  Read /\ run = "idle" /\ confirm = None /\ held = None /\ ~LateAnswer
    => ~submitted /\ \A t \in Tasks : ~sessions[t].busy

(* A busy client becomes free, or the engine waits for an answer. *)
BusyEnds == IsBusy ~> (~IsBusy \/ confirm # None \/ held # None \/ LateAnswer)

(* What state.rs says above approval_kind_matches: "a tool_authorization slot
   accepts either kind", so the review of a plan leaves the screen when it was
   answered.  It does not. *)
AnsweredIsClosed ==
  Read => \A t \in Tasks : sessions[t].shown \notin settled

=============================================================================
