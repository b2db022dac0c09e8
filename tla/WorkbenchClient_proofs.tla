---------------------- MODULE WorkbenchClient_proofs ----------------------
(***************************************************************************)
(* Proofs about WorkbenchClient, for any number of tasks, requests,        *)
(* messages and troubles, and any delay of the two pipes.                  *)
(*                                                                         *)
(* The first part follows an answer: it names the request that was on the  *)
(* screen when the key was pressed, the pipe does not change it, and the   *)
(* bridge settles nothing it does not name.  What the client draws, and    *)
(* when, plays no part in it.                                              *)
(*                                                                         *)
(* The second part follows the events the other way: what the client will  *)
(* have drawn when it has read them agrees with the engine that sent them. *)
(***************************************************************************)
EXTENDS WorkbenchClient, SequenceTheorems, WellFoundedInduction, TLAPS

(* What may be in the pipe: only answers name a request, and the request was
   on the screen. *)
Kinds == {"message", "resolve", "cancel"}
Written(p) == [type : Kinds, request : p \union {None}, allow : BOOLEAN]
LinesWerePressed == toEngine \in Seq(Written(pressed))

Inv == LinesWerePressed /\ SettledWasShown

(* A pipe keeps its lines when more keys are pressed. *)
LEMMA MorePressed ==
  ASSUME NEW p, NEW q, p \subseteq q
  PROVE  Seq(Written(p)) \subseteq Seq(Written(q))
<1>1. Written(p) \subseteq Written(q)
  BY DEF Written
<1> QED
  BY <1>1

(* Reading the first line leaves lines of the same kind. *)
LEMMA Reading ==
  ASSUME LinesWerePressed, toEngine # <<>>
  PROVE  /\ Head(toEngine).request \in pressed \union {None}
         /\ Tail(toEngine) \in Seq(Written(pressed))
<1>1. /\ toEngine \in Seq(Written(pressed))
      /\ toEngine # <<>>
  BY DEF LinesWerePressed
<1>2. Head(toEngine) \in Written(pressed) /\ Tail(toEngine) \in Seq(Written(pressed))
  BY <1>1
<1> QED
  BY <1>2 DEF Written

(* What a key writes names a request that was pressed, or none. *)
LEMMA Naming ==
  ASSUME NEW p, NEW kind \in Kinds, NEW r \in p \union {None}, NEW allow \in BOOLEAN
  PROVE  Action(kind, r, allow) \in Written(p)
  BY DEF Action, Written

(* A key writes one line. *)
LEMMA Writing ==
  ASSUME LinesWerePressed, pressed \subseteq pressed',
         NEW line \in Written(pressed'), Write(line)
  PROVE  LinesWerePressed'
<1>1. toEngine \in Seq(Written(pressed'))
  BY MorePressed DEF LinesWerePressed
<1>2. toEngine' = Append(toEngine, line)
  BY DEF Write
<1>3. toEngine' \in Seq(Written(pressed'))
  BY <1>1, <1>2
<1> QED
  BY <1>3 DEF LinesWerePressed

(* The bridge reads a line: the pipe is shorter, nothing else is pressed. *)
LEMMA Reads ==
  ASSUME Inv, EngineReads
  PROVE  Inv'
<1>1. toEngine # <<>> /\ toEngine' = Tail(toEngine) /\ pressed' = pressed
  BY DEF EngineReads, Message, Resolve, Settle, Cancel, Line, Consume, ghost
<1>2. LinesWerePressed'
  BY <1>1, Reading DEF Inv, LinesWerePressed
<1>3. Head(toEngine).request \in pressed \union {None}
  BY <1>1, Reading DEF Inv
<1>4. settled' \subseteq pressed
  <2>1. CASE Message \/ Cancel
    BY <2>1 DEF Message, Cancel, ghost, Inv, SettledWasShown
  <2>2. CASE Resolve
    BY <2>2, <1>3 DEF Resolve, Named, Inv, SettledWasShown
  <2>3. CASE Settle
    BY <2>3, <1>3 DEF Settle, Named, Inv, SettledWasShown
  <2> QED
    BY <2>1, <2>2, <2>3 DEF EngineReads
<1> QED
  BY <1>1, <1>2, <1>4 DEF Inv, SettledWasShown

(* A key: only an answer names a request, the one on the screen. *)
LEMMA Pressing ==
  ASSUME Inv, Keys
  PROVE  Inv'
<1>1. CASE Type
  <2>1. pressed' = pressed /\ settled' = settled /\ Write(Action("message", None, FALSE))
    BY <1>1 DEF Type
  <2>2. Action("message", None, FALSE) \in Written(pressed')
    <3>1. "message" \in Kinds /\ None \in pressed' \union {None} /\ FALSE \in BOOLEAN
      BY DEF Kinds
    <3> QED
      BY <3>1, Naming, Zenon
  <2>3. LinesWerePressed'
    BY <2>1, <2>2, Writing DEF Inv
  <2> QED
    BY <2>1, <2>3 DEF Inv, SettledWasShown
<1>2. CASE Escape
  <2>1. pressed' = pressed /\ settled' = settled /\ Write(Action("cancel", None, FALSE))
    BY <1>2 DEF Escape, ghost
  <2>2. Action("cancel", None, FALSE) \in Written(pressed')
    <3>1. "cancel" \in Kinds /\ None \in pressed' \union {None} /\ FALSE \in BOOLEAN
      BY DEF Kinds
    <3> QED
      BY <3>1, Naming, Zenon
  <2>3. LinesWerePressed'
    BY <2>1, <2>2, Writing DEF Inv
  <2> QED
    BY <2>1, <2>3 DEF Inv, SettledWasShown
<1>3. ASSUME NEW allow \in BOOLEAN, Answer(allow)
      PROVE  Inv'
  <2>1. /\ pressed' = pressed \union {Shown} /\ settled' = settled
        /\ Write(Action("resolve", Shown, allow))
    BY <1>3 DEF Answer
  <2>2. Action("resolve", Shown, allow) \in Written(pressed')
    <3>1. "resolve" \in Kinds /\ Shown \in pressed' \union {None} /\ allow \in BOOLEAN
      BY <1>3, <2>1 DEF Kinds
    <3> QED
      BY <3>1, Naming, Zenon
  <2>3. LinesWerePressed'
    BY <2>1, <2>2, Writing DEF Inv
  <2> QED
    BY <2>1, <2>3 DEF Inv, SettledWasShown
<1>4. ASSUME NEW t \in Tasks, Switch(t)
      PROVE  Inv'
  BY <1>4 DEF Switch, ghost, Inv, LinesWerePressed, SettledWasShown
<1> QED
  BY <1>1, <1>2, <1>3, <1>4 DEF Keys

(* Nothing was pressed, nothing is in the pipe. *)
LEMMA Initially == Init => Inv
  BY DEF Init, Inv, LinesWerePressed, SettledWasShown

(* Only keys write lines and only the bridge settles. *)
LEMMA Step == Inv /\ [Next]_vars => Inv'
<1> SUFFICES ASSUME Inv, [Next]_vars
             PROVE  Inv'
  OBVIOUS
<1>1. ASSUME UNCHANGED <<toEngine, pressed, settled>>
      PROVE  Inv'
  BY <1>1 DEF Inv, LinesWerePressed, SettledWasShown
<1>2. CASE EngineReads
  BY <1>2, Reads
<1>3. CASE Keys
  BY <1>3, Pressing
<1>4. CASE Dequeue \/ Reduce
  BY <1>4, <1>1 DEF Dequeue, Reduce, ghost
<1>5. ASSUME NEW kind \in {"tool", "plan"}, Ask(kind)
      PROVE  Inv'
  BY <1>5, <1>1 DEF Ask, ghost
<1>6. CASE TurnGoes
  <2>1. ASSUME NEW how \in {"completed", "unverified", "ended"}, Finish(how)
        PROVE  UNCHANGED <<toEngine, pressed, settled>>
    BY <2>1 DEF Finish, ghost
  <2>2. CASE Announce \/ Expire \/ Return \/ Deliver \/ WindDown
    BY <2>2, <1>1 DEF Announce, Expire, Return, Deliver, WindDown, ghost
  <2> QED
    BY <1>6, <1>1, <2>1, <2>2 DEF TurnGoes
<1>7. CASE UNCHANGED vars
  BY <1>7, <1>1 DEF vars, ghost
<1> QED
  BY <1>2, <1>3, <1>4, <1>5, <1>6, <1>7 DEF Next

(* Only a request that was on the screen when a key was pressed is settled by
   the key (handleLine compares the id of the answer with the request it
   holds). *)
THEOREM KeysSettleWhatTheyShow == Spec => []SettledWasShown
<1>1. Inv => SettledWasShown
  BY DEF Inv
<1> QED
  BY <1>1, Initially, Step, PTL DEF Spec

-----------------------------------------------------------------------------
(***************************************************************************)
(* What the client will have drawn when it has read its pipe.              *)
(*                                                                         *)
(* The events on their way turn the screens of now into the screens to     *)
(* come, one after the other: a path of screens, one for each event.  A    *)
(* path exists at the start, grows at its end when the engine says         *)
(* something, and loses its first screen when the client reads.  So an     *)
(* invariant can speak of the last screen of the path, which is the screen *)
(* of the client whenever the pipe is empty, without a recursion over the  *)
(* pipe.                                                                   *)
(***************************************************************************)

Answers == {"resolved", "accepted", "rejected"}
Ends == {"completed", "unverified", "ended"}
Asks == {"required", "requested"}

Screen(n) == [known : BOOLEAN, shown : 0..n, busy : BOOLEAN, closed : BOOLEAN, over : BOOLEAN]
Screens(n) == [Tasks -> Screen(n)]

(* Reduce as a function of the screens, for the requests rs. *)
HeededIn(rs, s, e) ==
  CASE e.type \in Ends -> ~s.over
    [] e.type \in Asks -> ~s.closed /\ s.shown = None
    [] e.type \in Answers -> ~s.closed /\ s.shown = e.request /\ rs[e.request].kind # "plan"
    [] OTHER -> ~s.closed
Counts(rs, S, e) == e.type = "started" \/ (S[e.task].known /\ HeededIn(rs, S[e.task], e))
After(rs, S, e) ==
  IF e.type = "started" THEN [S EXCEPT ![e.task] = NewSession]
  ELSE IF Counts(rs, S, e) THEN [S EXCEPT ![e.task] = Seen(S[e.task], e)] ELSE S

(* A task starts when every other one has ended, on the screen too. *)
Orderly(S, e) == e.type = "started" => \A u \in Tasks : u # e.task /\ S[u].known => S[u].closed
EventOf(rs, e) ==
  /\ e \in Events /\ e.request \in 0..Len(rs)
  /\ e.type \in Answers => e.request # None

(* The path st of screens from S over the events q. *)
Path(rs, q, S, st) ==
  /\ st \in [0..Len(q) -> Screens(Len(rs))] /\ st[0] = S
  /\ \A i \in 1..Len(q) : /\ EventOf(rs, q[i]) /\ Orderly(st[i - 1], q[i])
                          /\ st[i] = After(rs, st[i - 1], q[i])

(* The path ends in z, shows no request of H, and heeds an event if c = 1. *)
Tells(rs, q, S, z, H, c) ==
  \E st : /\ Path(rs, q, S, st) /\ z = st[Len(q)]
          /\ \A i \in 0..Len(q) : \A t \in Tasks : st[i][t].shown \notin H
          /\ c = 1 => \E i \in 1..Len(q) : Counts(rs, st[i - 1], q[i])

(* A mark of a session set, in a type of its own. *)
LEMMA MarkType ==
  ASSUME NEW n \in Nat, NEW s \in Screen(n), NEW x \in BOOLEAN
  PROVE  /\ [s EXCEPT !.busy = x] \in Screen(n)
         /\ [s EXCEPT !.closed = x] \in Screen(n)
         /\ [s EXCEPT !.over = x] \in Screen(n)
  BY DEF Screen

(* A session that shows another request. *)
LEMMA ShownType ==
  ASSUME NEW n \in Nat, NEW s \in Screen(n), NEW r \in 0..n
  PROVE  [s EXCEPT !.shown = r] \in Screen(n)
  BY DEF Screen

(* What the operators on a session make of it. *)
LEMMA Drawing ==
  ASSUME NEW n \in Nat, NEW s \in Screen(n), NEW r \in 0..n
  PROVE  /\ /\ MarkBusy(s) \in Screen(n) /\ MarkBusy(s).known = s.known
            /\ MarkBusy(s).shown = s.shown /\ MarkBusy(s).closed = s.closed
            /\ MarkBusy(s).over = s.over /\ MarkBusy(s).busy
         /\ /\ ClearBusy(s) \in Screen(n) /\ ClearBusy(s).known = s.known
            /\ ClearBusy(s).shown = s.shown /\ ClearBusy(s).closed = s.closed
            /\ ClearBusy(s).over = s.over /\ ~ClearBusy(s).busy
         /\ /\ Show(s, r) \in Screen(n) /\ Show(s, r).known = s.known
            /\ Show(s, r).shown = r /\ Show(s, r).closed = s.closed
            /\ Show(s, r).over = s.over /\ ~Show(s, r).busy
         /\ /\ Hide(s) \in Screen(n) /\ Hide(s).known = s.known
            /\ Hide(s).shown = None /\ Hide(s).closed = s.closed
            /\ Hide(s).over = s.over /\ Hide(s).busy
         /\ /\ Close(s) \in Screen(n) /\ Close(s).known = s.known
            /\ Close(s).shown = s.shown /\ Close(s).closed
            /\ Close(s).over = s.over /\ ~Close(s).busy
         /\ /\ End(s) \in Screen(n) /\ End(s).known = s.known
            /\ End(s).shown = None /\ End(s).closed /\ End(s).over /\ ~End(s).busy
<1>1. TRUE \in BOOLEAN /\ FALSE \in BOOLEAN /\ None \in 0..n
  BY DEF None
<1>2. /\ MarkBusy(s) \in Screen(n) /\ MarkBusy(s).known = s.known
      /\ MarkBusy(s).shown = s.shown /\ MarkBusy(s).closed = s.closed
      /\ MarkBusy(s).over = s.over /\ MarkBusy(s).busy
  BY <1>1, MarkType DEF MarkBusy, Screen
<1>3. /\ ClearBusy(s) \in Screen(n) /\ ClearBusy(s).known = s.known
      /\ ClearBusy(s).shown = s.shown /\ ClearBusy(s).closed = s.closed
      /\ ClearBusy(s).over = s.over /\ ~ClearBusy(s).busy
  BY <1>1, MarkType DEF ClearBusy, Screen
<1>4. /\ Show(s, r) \in Screen(n) /\ Show(s, r).known = s.known
      /\ Show(s, r).shown = r /\ Show(s, r).closed = s.closed
      /\ Show(s, r).over = s.over /\ ~Show(s, r).busy
  BY <1>3, ShownType DEF Show, Screen
<1>5. /\ Hide(s) \in Screen(n) /\ Hide(s).known = s.known
      /\ Hide(s).shown = None /\ Hide(s).closed = s.closed
      /\ Hide(s).over = s.over /\ Hide(s).busy
  BY <1>1, <1>2, ShownType DEF Hide, Screen
<1>6. /\ Close(s) \in Screen(n) /\ Close(s).known = s.known
      /\ Close(s).shown = s.shown /\ Close(s).closed
      /\ Close(s).over = s.over /\ ~Close(s).busy
  BY <1>1, <1>3, MarkType DEF Close, Screen
<1>7. /\ End(s) \in Screen(n) /\ End(s).known = s.known
      /\ End(s).shown = None /\ End(s).closed /\ End(s).over /\ ~End(s).busy
  <2> DEFINE u == [Close(s) EXCEPT !.over = TRUE]
  <2>1. u \in Screen(n) /\ u.known = s.known /\ u.closed /\ u.over /\ ~u.busy
    BY <1>1, <1>6, MarkType DEF Screen
  <2>2. End(s) = [u EXCEPT !.shown = None]
    BY <1>6 DEF End, Screen
  <2> HIDE DEF u
  <2> QED
    BY <1>1, <2>1, <2>2, ShownType DEF Screen
<1> QED
  BY <1>2, <1>3, <1>4, <1>5, <1>6, <1>7

(* What an event that is heeded makes of its session. *)
LEMMA Seeing ==
  ASSUME NEW n \in Nat, NEW s \in Screen(n), NEW e \in Events, e.request \in 0..n,
         e.type # "started"
  PROVE  /\ Seen(s, e) \in Screen(n) /\ Seen(s, e).known = s.known
         /\ e.type = "streamed" => /\ Seen(s, e).shown = s.shown /\ Seen(s, e).busy
                                   /\ Seen(s, e).closed = s.closed /\ Seen(s, e).over = s.over
         /\ e.type = "generationEnded" =>
              /\ Seen(s, e).shown = s.shown /\ ~Seen(s, e).busy
              /\ Seen(s, e).closed = s.closed /\ Seen(s, e).over = s.over
         /\ e.type \in Asks => /\ Seen(s, e).shown = e.request /\ ~Seen(s, e).busy
                               /\ Seen(s, e).closed = s.closed /\ Seen(s, e).over = s.over
         /\ e.type \in Answers => /\ Seen(s, e).shown = None /\ Seen(s, e).busy
                                  /\ Seen(s, e).closed = s.closed /\ Seen(s, e).over = s.over
         /\ e.type \in Ends => /\ Seen(s, e).closed /\ ~Seen(s, e).busy
                               /\ e.type = "unverified" => Seen(s, e).shown = s.shown
                               /\ e.type # "unverified" => Seen(s, e).shown = None
<1> DEFINE d == e.type
<1>1. d \in {"streamed", "generationEnded"} \union Asks \union Answers \union Ends
  BY DEF Events, Asks, Answers, Ends
<1>2. CASE d = "streamed"
  BY <1>2, Drawing DEF Seen, Asks, Answers, Ends
<1>3. CASE d = "generationEnded"
  BY <1>3, Drawing DEF Seen, Asks, Answers, Ends
<1>4. CASE d \in Asks
  BY <1>4, Drawing DEF Seen, Asks, Answers, Ends
<1>5. CASE d \in Answers
  BY <1>5, Drawing DEF Seen, Asks, Answers, Ends
<1>6. CASE d \in Ends
  BY <1>6, Drawing DEF Seen, Asks, Answers, Ends
<1> QED
  BY <1>1, <1>2, <1>3, <1>4, <1>5, <1>6

(* A heeded event in the terms of the client. *)
LEMMA HeedingIs ==
  ASSUME NEW s, NEW e \in Events
  PROVE  Heeded(s, e) <=> HeededIn(requests, s, e)
  BY DEF Heeded, HeededIn, Matches, Ends, Asks, Answers, Events

(* A session as its task starts. *)
LEMMA NewScreen ==
  ASSUME NEW n \in Nat
  PROVE  /\ NewSession \in Screen(n) /\ NewSession.known /\ NewSession.busy
         /\ NewSession.shown = None /\ ~NewSession.closed /\ ~NewSession.over
<1> DEFINE u == [NoSession EXCEPT !.known = TRUE]
<1>1. /\ NoSession \in Screen(n) /\ NoSession.shown = None /\ ~NoSession.closed
      /\ ~NoSession.over
  BY DEF NoSession, Screen, None
<1>2. u \in Screen(n) /\ u.known /\ u.shown = None /\ ~u.closed /\ ~u.over
  BY <1>1 DEF Screen
<1>3. NewSession = [u EXCEPT !.busy = TRUE]
  BY <1>1 DEF NewSession, Screen
<1> HIDE DEF u
<1> QED
  BY <1>2, <1>3, MarkType DEF Screen

(* One event changes at most the screen of its task, by what is seen in it. *)
LEMMA AfterType ==
  ASSUME NEW rs, Len(rs) \in Nat, NEW S \in Screens(Len(rs)), NEW e, EventOf(rs, e)
  PROVE  /\ After(rs, S, e) \in Screens(Len(rs))
         /\ \A t \in Tasks : t # e.task => After(rs, S, e)[t] = S[t]
         /\ e.type = "started" => After(rs, S, e)[e.task] = NewSession
         /\ e.type # "started" /\ Counts(rs, S, e) =>
              After(rs, S, e)[e.task] = Seen(S[e.task], e)
         /\ ~Counts(rs, S, e) => After(rs, S, e) = S
<1> DEFINE t == e.task
           n == Len(rs)
<1>1. t \in Tasks /\ e \in Events /\ e.request \in 0..n /\ S[t] \in Screen(n)
  BY DEF EventOf, Events, Screens
<1>2. NewSession \in Screen(n)
  BY NewScreen
<1>3. CASE e.type = "started"
  BY <1>1, <1>2, <1>3 DEF After, Screens, Counts
<1>4. CASE e.type # "started" /\ Counts(rs, S, e)
  <2>1. Seen(S[t], e) \in Screen(n)
    BY <1>1, <1>4, Seeing
  <2> QED
    BY <1>1, <1>4, <2>1 DEF After, Screens
<1>5. CASE ~Counts(rs, S, e)
  BY <1>5 DEF After, Counts
<1> QED
  BY <1>3, <1>4, <1>5

(* A request that comes onto a screen was asked there by the event. *)
LEMMA AfterShows ==
  ASSUME NEW rs, Len(rs) \in Nat, NEW S \in Screens(Len(rs)), NEW e, EventOf(rs, e),
         NEW H, None \notin H, \A t \in Tasks : S[t].shown \notin H,
         e.type \in Asks /\ Counts(rs, S, e) => e.request \notin H
  PROVE  \A t \in Tasks : After(rs, S, e)[t].shown \notin H
<1> DEFINE u == e.task
<1>1. u \in Tasks /\ e \in Events /\ e.request \in 0..Len(rs) /\ S[u] \in Screen(Len(rs))
  BY DEF EventOf, Events, Screens
<1>2. \A t \in Tasks : t # u => After(rs, S, e)[t].shown \notin H
  BY AfterType
<1>3. CASE e.type = "started"
  BY <1>2, <1>3, AfterType, NewScreen
<1>4. CASE e.type # "started" /\ Counts(rs, S, e)
  <2>1. After(rs, S, e)[u] = Seen(S[u], e)
    BY <1>4, AfterType
  <2>2. e.type \in {"streamed", "generationEnded"} \union Asks \union Answers \union Ends
    BY <1>1, <1>4 DEF Events, Asks, Answers, Ends
  <2>3. Seen(S[u], e).shown \in {S[u].shown, None} \union {r \in {e.request} : e.type \in Asks}
    BY <1>1, <1>4, <2>2, Seeing
  <2>4. Seen(S[u], e).shown \notin H
    BY <1>1, <1>4, <2>3
  <2> QED
    BY <1>2, <2>1, <2>4
<1>5. CASE ~Counts(rs, S, e)
  BY <1>5, AfterType
<1> QED
  BY <1>3, <1>4, <1>5

(* A path shows its end. *)
LEMMA TellsType ==
  ASSUME NEW rs, Len(rs) \in Nat, NEW q \in Seq(Events), NEW S, NEW z, NEW H, NEW c,
         Tells(rs, q, S, z, H, c)
  PROVE  /\ z \in Screens(Len(rs)) /\ S \in Screens(Len(rs))
         /\ \A t \in Tasks : S[t].shown \notin H /\ z[t].shown \notin H
         /\ q = <<>> => z = S /\ c # 1
<1>1. PICK st : /\ Path(rs, q, S, st) /\ z = st[Len(q)]
                /\ \A i \in 0..Len(q) : \A t \in Tasks : st[i][t].shown \notin H
                /\ c = 1 => \E i \in 1..Len(q) : Counts(rs, st[i - 1], q[i])
  BY DEF Tells
<1>2. Len(q) \in Nat /\ 0 \in 0..Len(q) /\ Len(q) \in 0..Len(q)
  OBVIOUS
<1>3. st[0] = S /\ st[0] \in Screens(Len(rs)) /\ st[Len(q)] \in Screens(Len(rs))
  BY <1>1, <1>2 DEF Path
<1>4. q = <<>> => Len(q) = 0
  OBVIOUS
<1> QED
  BY <1>1, <1>2, <1>3, <1>4

(* Nothing on its way: the screens to come are those of now. *)
LEMMA NothingTold ==
  ASSUME NEW rs, Len(rs) \in Nat, NEW S \in Screens(Len(rs))
  PROVE  Tells(rs, <<>>, S, S, {}, 0)
<1> DEFINE st == [i \in 0..0 |-> S]
<1>1. Len(<<>>) = 0 /\ 0 \in 0..0
  OBVIOUS
<1>2. Path(rs, <<>>, S, st)
  BY <1>1 DEF Path
<1> QED
  BY <1>1, <1>2 DEF Tells

(* The engine says one thing more. *)
LEMMA Saying ==
  ASSUME NEW rs, Len(rs) \in Nat, NEW q \in Seq(Events), NEW S, NEW z, NEW H, None \notin H,
         NEW c, Tells(rs, q, S, z, H, c),
         NEW e, EventOf(rs, e), Orderly(z, e),
         e.type \in Asks /\ Counts(rs, z, e) => e.request \notin H,
         NEW d, d = 1 => c = 1 \/ Counts(rs, z, e)
  PROVE  Tells(rs, Append(q, e), S, After(rs, z, e), H, d)
<1>1. PICK st : /\ Path(rs, q, S, st) /\ z = st[Len(q)]
                /\ \A i \in 0..Len(q) : \A t \in Tasks : st[i][t].shown \notin H
                /\ c = 1 => \E i \in 1..Len(q) : Counts(rs, st[i - 1], q[i])
  BY DEF Tells
<1> DEFINE n == Len(q)
           y == After(rs, z, e)
           p == Append(q, e)
           new == [i \in 0..(n + 1) |-> IF i = n + 1 THEN y ELSE st[i]]
<1>2. n \in Nat /\ e \in Events /\ z \in Screens(Len(rs))
  BY TellsType DEF EventOf
<1>3. y \in Screens(Len(rs)) /\ \A t \in Tasks : y[t].shown \notin H
  BY <1>1, <1>2, AfterType, AfterShows
<1>4. Len(p) = n + 1 /\ p[n + 1] = e /\ \A i \in 1..n : p[i] = q[i]
  BY <1>2
<1>5. new[n + 1] = y /\ new[n] = z /\ \A i \in 0..n : new[i] = st[i]
  BY <1>1, <1>2
<1>6. new \in [0..(n + 1) -> Screens(Len(rs))]
  BY <1>1, <1>2, <1>3 DEF Path
<1> HIDE DEF new
<1>7. Path(rs, p, S, new)
  <2>1. new[0] = S
    BY <1>1, <1>2, <1>5 DEF Path
  <2>2. ASSUME NEW i \in 1..n
        PROVE  /\ EventOf(rs, p[i]) /\ Orderly(new[i - 1], p[i])
               /\ new[i] = After(rs, new[i - 1], p[i])
    <3>1. new[i] = st[i] /\ new[i - 1] = st[i - 1] /\ p[i] = q[i]
      BY <1>2, <1>4, <1>5
    <3> QED
      BY <1>1, <3>1 DEF Path
  <2>3. /\ EventOf(rs, p[n + 1]) /\ Orderly(new[(n + 1) - 1], p[n + 1])
        /\ new[n + 1] = After(rs, new[(n + 1) - 1], p[n + 1])
    <3>1. (n + 1) - 1 = n
      BY <1>2
    <3> QED
      BY <1>4, <1>5, <3>1
  <2>4. 1..Len(p) = (1..n) \union {n + 1}
    BY <1>2, <1>4
  <2> QED
    BY <1>4, <1>6, <2>1, <2>2, <2>3, <2>4 DEF Path
<1>8. \A i \in 0..Len(p) : \A t \in Tasks : new[i][t].shown \notin H
  <2>1. 0..Len(p) = (0..n) \union {n + 1}
    BY <1>2, <1>4
  <2> QED
    BY <1>1, <1>3, <1>5, <2>1
<1>9. d = 1 => \E i \in 1..Len(p) : Counts(rs, new[i - 1], p[i])
  <2>1. ASSUME c = 1
        PROVE  \E i \in 1..Len(p) : Counts(rs, new[i - 1], p[i])
    <3>1. PICK i \in 1..n : Counts(rs, st[i - 1], q[i])
      BY <1>1, <2>1
    <3>2. i \in 1..Len(p) /\ new[i - 1] = st[i - 1] /\ p[i] = q[i]
      BY <1>2, <1>4, <1>5
    <3> QED
      BY <3>1, <3>2
  <2>2. ASSUME Counts(rs, z, e)
        PROVE  \E i \in 1..Len(p) : Counts(rs, new[i - 1], p[i])
    <3>1. n + 1 \in 1..Len(p) /\ (n + 1) - 1 = n
      BY <1>2, <1>4
    <3> QED
      BY <1>4, <1>5, <2>2, <3>1
  <2> QED
    BY <2>1, <2>2
<1> QED
  BY <1>4, <1>5, <1>7, <1>8, <1>9 DEF Tells

(* The client reads one thing. *)
LEMMA Hearing ==
  ASSUME NEW rs, Len(rs) \in Nat, NEW q \in Seq(Events), q # <<>>, NEW S, NEW z, NEW H,
         NEW c, Tells(rs, q, S, z, H, c)
  PROVE  /\ EventOf(rs, Head(q)) /\ Orderly(S, Head(q))
         /\ \/ Tells(rs, Tail(q), After(rs, S, Head(q)), z, H, c)
            \/ Counts(rs, S, Head(q)) /\ Tells(rs, Tail(q), After(rs, S, Head(q)), z, H, 0)
<1>1. PICK st : /\ Path(rs, q, S, st) /\ z = st[Len(q)]
                /\ \A i \in 0..Len(q) : \A t \in Tasks : st[i][t].shown \notin H
                /\ c = 1 => \E i \in 1..Len(q) : Counts(rs, st[i - 1], q[i])
  BY DEF Tells
<1> DEFINE n == Len(q)
           p == Tail(q)
           new == [i \in 0..(n - 1) |-> st[i + 1]]
<1>2. n \in Nat \ {0} /\ Len(p) = n - 1 /\ \A i \in 1..(n - 1) : p[i] = q[i + 1]
  OBVIOUS
<1>3. 1 \in 1..n /\ Head(q) = q[1] /\ 1 - 1 = 0
  BY <1>2
<1>4. EventOf(rs, q[1]) /\ Orderly(st[0], q[1]) /\ st[1] = After(rs, st[0], q[1]) /\ st[0] = S
  BY <1>1, <1>3 DEF Path
<1>5. \A i \in 0..(n - 1) : new[i] = st[i + 1]
  OBVIOUS
<1>6. new \in [0..(n - 1) -> Screens(Len(rs))]
  <2>1. \A i \in 0..(n - 1) : st[i + 1] \in Screens(Len(rs))
    BY <1>1, <1>2 DEF Path
  <2> QED
    BY <2>1
<1> HIDE DEF new
<1>7. Path(rs, p, st[1], new)
  <2>1. new[0] = st[1]
    BY <1>2, <1>5
  <2>2. ASSUME NEW i \in 1..(n - 1)
        PROVE  /\ EventOf(rs, p[i]) /\ Orderly(new[i - 1], p[i])
               /\ new[i] = After(rs, new[i - 1], p[i])
    <3>1. /\ i + 1 \in 1..n /\ i - 1 \in 0..(n - 1) /\ i \in 0..(n - 1)
          /\ (i - 1) + 1 = i /\ (i + 1) - 1 = i
      BY <1>2
    <3>2. new[i] = st[i + 1] /\ new[i - 1] = st[i] /\ p[i] = q[i + 1]
      BY <1>2, <1>5, <3>1
    <3> QED
      BY <1>1, <3>1, <3>2 DEF Path
  <2> QED
    BY <1>2, <1>6, <2>1, <2>2 DEF Path
<1>8. new[Len(p)] = z
  <2>1. n - 1 \in 0..(n - 1) /\ (n - 1) + 1 = n
    BY <1>2
  <2> QED
    BY <1>1, <1>2, <1>5, <2>1
<1>9. \A i \in 0..Len(p) : \A t \in Tasks : new[i][t].shown \notin H
  <2>1. \A i \in 0..(n - 1) : i + 1 \in 0..n
    BY <1>2
  <2> QED
    BY <1>1, <1>2, <1>5, <2>1
<1>10. c = 1 => \/ Counts(rs, S, q[1])
                \/ \E i \in 1..Len(p) : Counts(rs, new[i - 1], p[i])
  <2> SUFFICES ASSUME c = 1, ~Counts(rs, S, q[1])
               PROVE  \E i \in 1..Len(p) : Counts(rs, new[i - 1], p[i])
    OBVIOUS
  <2>1. PICK k \in 1..n : Counts(rs, st[k - 1], q[k])
    BY <1>1
  <2>2. k # 1
    BY <1>3, <1>4, <2>1
  <2> DEFINE j == k - 1
  <2>3. /\ j \in 1..(n - 1) /\ j - 1 \in 0..(n - 1) /\ (j - 1) + 1 = k - 1
        /\ j + 1 = k
    BY <1>2, <2>1, <2>2
  <2>4. new[j - 1] = st[k - 1] /\ p[j] = q[k]
    BY <1>2, <1>5, <2>3
  <2> QED
    BY <1>2, <2>1, <2>3, <2>4
<1>11. Counts(rs, S, q[1]) => Tells(rs, p, st[1], z, H, 0)
  BY <1>7, <1>8, <1>9 DEF Tells
<1>12. ~Counts(rs, S, q[1]) => Tells(rs, p, st[1], z, H, c)
  BY <1>7, <1>8, <1>9, <1>10 DEF Tells
<1> QED
  BY <1>3, <1>4, <1>11, <1>12

(* A new request, which nobody was told of yet, is on no screen. *)
LEMMA Asking ==
  ASSUME NEW rs \in Seq([task : Tasks, kind : {"tool", "plan", "delivery"}]),
         NEW q \in Seq(Events), NEW S, NEW z, NEW H, NEW c, Tells(rs, q, S, z, H, c),
         NEW x \in [task : Tasks, kind : {"tool", "plan", "delivery"}]
  PROVE  Tells(Append(rs, x), q, S, z, {Len(rs) + 1}, c)
<1> DEFINE ts == Append(rs, x)
           n == Len(q)
<1>1. PICK st : /\ Path(rs, q, S, st) /\ z = st[Len(q)]
                /\ c = 1 => \E i \in 1..Len(q) : Counts(rs, st[i - 1], q[i])
  BY DEF Tells
<1>2. Len(ts) = Len(rs) + 1 /\ Len(rs) \in Nat /\ n \in Nat
      /\ \A r \in 1..Len(rs) : ts[r] = rs[r]
  OBVIOUS
<1>3. Screens(Len(rs)) \subseteq Screens(Len(ts))
  BY <1>2 DEF Screens, Screen
<1>4. ASSUME NEW T, NEW e, EventOf(rs, e)
      PROVE  /\ EventOf(ts, e) /\ (Counts(ts, T, e) <=> Counts(rs, T, e))
             /\ After(ts, T, e) = After(rs, T, e)
  <2>1. EventOf(ts, e)
    BY <1>2, <1>4 DEF EventOf
  <2>2. e.type \in Answers => ts[e.request] = rs[e.request]
    BY <1>2, <1>4 DEF EventOf, None
  <2>3. Counts(ts, T, e) <=> Counts(rs, T, e)
    BY <2>2 DEF Counts, HeededIn
  <2> QED
    BY <2>1, <2>3 DEF After
<1>5. Path(ts, q, S, st)
  <2>1. st \in [0..n -> Screens(Len(ts))]
    BY <1>1, <1>3 DEF Path
  <2> QED
    BY <1>1, <1>4, <2>1 DEF Path
<1>6. \A i \in 0..n : \A t \in Tasks : st[i][t].shown \notin {Len(rs) + 1}
  BY <1>1, <1>2, SMTT(30) DEF Path, Screens, Screen
<1>7. c = 1 => \E i \in 1..n : Counts(ts, st[i - 1], q[i])
  BY <1>1, <1>4 DEF Path
<1> QED
  BY <1>1, <1>5, <1>6, <1>7 DEF Tells

(* What was on no screen, and what was heeded, may be forgotten. *)
LEMMA Forgetting ==
  ASSUME NEW rs, NEW q, NEW S, NEW z, NEW H, NEW c, Tells(rs, q, S, z, H, c)
  PROVE  Tells(rs, q, S, z, {}, c)
  BY DEF Tells

-----------------------------------------------------------------------------
(* The types, but for the lines and the screens. *)
Request == [task : Tasks, kind : {"tool", "plan", "delivery"}]
Typed ==
  /\ run \in {"idle", "working", "draining", "drained", "winding"}
  /\ turn \in Tasks \union {None} /\ active \in {turn, None}
  /\ queued \in Nat /\ scheduled \in BOOLEAN
  /\ requests \in Seq(Request) /\ Len(requests) <= MaxRequests
  /\ {asking, confirm, unsaid, held} \subseteq 0..Len(requests)
  /\ expired \union settled \union pressed \subseteq 1..Len(requests)
  /\ toClient \in Seq(Events)
  /\ viewed \in Tasks \union {None} /\ current \in Tasks \union {None}
  /\ typed \in BOOLEAN /\ submitted \in BOOLEAN
  /\ left \in [messages : 0..MaxMessages, troubles : 0..MaxTroubles]

(* What the turn, its requests and the delivery have to do with each other: all
   of them are of the task of the last turn. *)
Knows ==
  /\ run = "idle" /\ held = None => active = None
  /\ run \in {"working", "draining"} => active = turn /\ turn # None
  /\ run \in {"drained", "winding"} => active = None /\ confirm = None /\ turn # None
  /\ asking # None => /\ run = "working" /\ confirm = asking /\ asking = Len(requests)
                      /\ asking \notin expired \union settled
  /\ confirm # None => /\ requests[confirm].task = turn
                       /\ confirm = asking \/ confirm \in expired
  /\ held # None => /\ run = "idle" /\ held = Len(requests) /\ requests[held].task = turn
                    /\ held \notin expired
  /\ current # None => sessions[current].known

(* Another request of the task had the screen before. *)
Rival(r) == \E q \in 1..(r - 1) : Leftover(q) /\ requests[q].task = requests[r].task

(* How the screen s to come of the task t agrees with the engine. *)
FitsAt(t, s) ==
  /\ s.known <=> t <= turn
  /\ s.known /\ t # active => s.closed
  /\ t = active => ~s.closed /\ ~s.over
  /\ s.closed \/ ~s.known => ~s.busy
  /\ ~s.known => s.shown = None
  /\ s.shown # None => /\ requests[s.shown].task = t
                       /\ s.shown \in {asking, held} \/ Leftover(s.shown)
Fits(z) ==
  /\ \A t \in Tasks : FitsAt(t, z[t])
  /\ asking # None /\ unsaid # asking => z[turn].shown = asking \/ Rival(asking)
  /\ held # None => z[turn].shown = held \/ z[turn].closed \/ Rival(held)

(* The delivery of a task that was cancelled is never on a screen: H are
   requests that are on no screen of the path. *)
Unseen(H) == held # None /\ active = None => held \in H \ pressed /\ confirm = None

(* A message of the client is on its way or queued, its task runs, or something
   it will heed is still to come: c = 1 if that is on the path. *)
Busying(c) ==
  submitted =>
    \/ \E i \in DOMAIN toEngine : toEngine[i].type = "message"
    \/ scheduled \/ active # None \/ confirm # None \/ held # None
    \/ queued > 0 /\ run # "idle"
    \/ LateAnswer
    \/ c = 1

Foresees(z, H, c) ==
  /\ None \notin H /\ Tells(requests, toClient, sessions, z, H, c)
  /\ Fits(z) /\ Unseen(H) /\ Busying(c)
Told == Typed /\ Knows /\ \E z, H, c : Foresees(z, H, c)
Whole == Inv /\ Told

-----------------------------------------------------------------------------
(* What an event about a task that has started makes of its screen. *)
LEMMA Effects ==
  ASSUME NEW rs, Len(rs) \in Nat, NEW z \in Screens(Len(rs)), NEW e, EventOf(rs, e),
         NEW t, t = e.task, z[t].known, e.type # "started",
         NEW y, y = After(rs, z, e)
  PROVE  /\ t \in Tasks /\ y \in Screens(Len(rs)) /\ \A u \in Tasks : u # t => y[u] = z[u]
         /\ y[t].known
         /\ e.type \in Ends =>
              /\ z[t].over => y = z
              /\ ~z[t].over => /\ Counts(rs, z, e) /\ y[t].closed /\ ~y[t].busy
                               /\ e.type = "unverified" => y[t].shown = z[t].shown
                               /\ e.type # "unverified" => y[t].shown = None
         /\ e.type \in Asks =>
              /\ z[t].closed \/ z[t].shown # None => y = z /\ ~Counts(rs, z, e)
              /\ ~z[t].closed /\ z[t].shown = None =>
                   /\ y[t].shown = e.request /\ ~y[t].busy /\ ~y[t].closed /\ y[t].over = z[t].over
         /\ e.type \in Answers =>
              LET match == ~z[t].closed /\ z[t].shown = e.request /\ rs[e.request].kind # "plan"
              IN /\ ~match => y = z
                 /\ match => y[t].shown = None /\ ~y[t].closed /\ y[t].over = z[t].over
         /\ e.type \in {"streamed", "generationEnded"} =>
              /\ z[t].closed => y = z
              /\ y[t].shown = z[t].shown /\ y[t].closed = z[t].closed /\ y[t].over = z[t].over
<1>1. t \in Tasks /\ e \in Events /\ e.request \in 0..Len(rs) /\ z[t] \in Screen(Len(rs))
  BY DEF EventOf, Events, Screens
<1>2. /\ y \in Screens(Len(rs)) /\ \A u \in Tasks : u # t => y[u] = z[u]
      /\ Counts(rs, z, e) => y[t] = Seen(z[t], e)
      /\ ~Counts(rs, z, e) => y = z
  BY AfterType
<1>3. Counts(rs, z, e) <=> HeededIn(rs, z[t], e)
  BY DEF Counts
<1>4. y[t].known
  BY <1>1, <1>2, Seeing
<1>5. CASE e.type \in Ends
  BY <1>1, <1>2, <1>3, <1>4, <1>5, Seeing DEF HeededIn, Ends, Asks, Answers
<1>6. CASE e.type \in Asks
  BY <1>1, <1>2, <1>3, <1>4, <1>6, Seeing DEF HeededIn, Ends, Asks, Answers
<1>7. CASE e.type \in Answers
  BY <1>1, <1>2, <1>3, <1>4, <1>7, Seeing DEF HeededIn, Ends, Asks, Answers
<1>8. CASE e.type \in {"streamed", "generationEnded"}
  BY <1>1, <1>2, <1>3, <1>4, <1>8, Seeing DEF HeededIn, Ends, Asks, Answers
<1>9. e.type \in Ends \union Asks \union Answers \union {"streamed", "generationEnded"}
  BY <1>1 DEF Events, Ends, Asks, Answers
<1> QED
  BY <1>1, <1>2, <1>4, <1>5, <1>6, <1>7, <1>8, <1>9

(* What happens in one task's turn: nothing that was left over is taken back. *)
Goes ==
  /\ turn' = turn /\ active' \in {active, None}
  /\ expired \subseteq expired' /\ settled \subseteq settled'
  /\ requests' \in Seq(Request) /\ Len(requests) <= Len(requests')
  /\ \A r \in 1..Len(requests) : requests'[r] = requests[r]

(* What is left over stays, and so do the rivals of a request. *)
LEMMA StaysLeft ==
  ASSUME Typed, Goes
  PROVE  /\ \A r \in 1..Len(requests) : Leftover(r) => Leftover(r)'
         /\ \A r \in 1..(Len(requests) + 1) :
              (\E q \in 1..(r - 1) : Leftover(q) /\ requests'[q].task = requests'[r].task)
                => Rival(r)'
<1>1. \A r \in 1..Len(requests) : Leftover(r) => Leftover(r)'
  BY DEF Leftover, Goes, Typed
<1> QED
  BY <1>1 DEF Rival, Goes, Typed

(* What a screen of the last task shows is still of the task, and what was left
   over is left over. *)
LEMMA OwnStays ==
  ASSUME Typed, Goes, NEW s, FitsAt(turn, s), s.shown \in 0..Len(requests)
  PROVE  s.shown # None =>
           /\ s.shown \in 1..Len(requests) /\ requests'[s.shown].task = turn
           /\ s.shown \in {asking, held} \/ Leftover(s.shown)'
<1> HAVE s.shown # None
<1>1. s.shown \in 1..Len(requests)
  BY DEF None
<1> QED
  BY <1>1, StaysLeft DEF FitsAt, Goes

(* The screens of the other tasks. *)
LEMMA Others ==
  ASSUME Typed, Typed', Knows, Goes, NEW z, Fits(z), z \in Screens(Len(requests)),
         NEW y, \A t \in Tasks : t # turn => y[t] = z[t]
  PROVE  \A t \in Tasks : t # turn => FitsAt(t, y[t])'
<1> SUFFICES ASSUME NEW t \in Tasks, t # turn
             PROVE  FitsAt(t, y[t])'
  OBVIOUS
<1> DEFINE s == z[t]
<1>1. y[t] = s /\ FitsAt(t, s) /\ s.shown \in 0..Len(requests)
  BY DEF Fits, Screens, Screen
<1>2. s.shown # None => /\ requests'[s.shown].task = t /\ Leftover(s.shown)'
  <2> HAVE s.shown # None
  <2>1. s.shown \in 1..Len(requests) /\ requests[s.shown].task = t
    BY <1>1 DEF FitsAt, None
  <2>2. s.shown \notin {asking, held}
    BY <2>1 DEF Knows, None
  <2> QED
    BY <1>1, <2>1, <2>2, StaysLeft DEF FitsAt, Goes
<1>3. t # None
  BY BoundsAssumption DEF Tasks, None
<1>4. active \in {turn, None} /\ active' \in {turn, None}
  BY DEF Goes, Typed
<1>5. t # active /\ t # active'
  BY <1>3, <1>4
<1> QED
  BY <1>1, <1>2, <1>5 DEF FitsAt, Goes

Says == Ends \union Asks \union Answers \union {"streamed", "generationEnded"}

(* The screens y that it makes of the screens z. *)
Draws(rs, z, y, t, kind, r) ==
  /\ y \in Screens(Len(rs)) /\ \A u \in Tasks : u # t => y[u] = z[u]
  /\ y[t].known
  /\ kind \in Ends =>
       /\ z[t].over => y = z
       /\ ~z[t].over => /\ y[t].closed /\ ~y[t].busy
                        /\ kind = "unverified" => y[t].shown = z[t].shown
                        /\ kind # "unverified" => y[t].shown = None
  /\ kind \in Asks =>
       /\ z[t].closed \/ z[t].shown # None => y = z
       /\ ~z[t].closed /\ z[t].shown = None =>
            /\ y[t].shown = r /\ ~y[t].busy /\ ~y[t].closed /\ y[t].over = z[t].over
  /\ kind \in Answers =>
       LET match == ~z[t].closed /\ z[t].shown = r /\ rs[r].kind # "plan"
       IN /\ ~match => y = z
          /\ match => y[t].shown = None /\ ~y[t].closed /\ y[t].over = z[t].over
  /\ kind \in {"streamed", "generationEnded"} =>
       /\ z[t].closed => y = z
       /\ y[t].shown = z[t].shown /\ y[t].closed = z[t].closed /\ y[t].over = z[t].over

(* The engine says one thing more about a task that has started. *)
LEMMA Speaking ==
  ASSUME NEW rs, NEW q, NEW S, NEW z, NEW H, NEW c, NEW t, NEW kind, NEW r, NEW d, NEW y,
         Len(rs) \in Nat, Len(rs) <= MaxRequests, q \in Seq(Events), None \notin H,
         Tells(rs, q, S, z, H, c),
         t \in Tasks, z[t].known, kind \in Says, r \in 0..Len(rs),
         kind \in Answers => r # None,
         kind \in Asks => r \notin H \/ z[t].closed,
         d = 1 => c = 1 \/ (kind \in Ends /\ ~z[t].over),
         y = After(rs, z, Event(kind, t, r))
  PROVE  /\ Event(kind, t, r) \in Events
         /\ Tells(rs, Append(q, Event(kind, t, r)), S, y, H, d)
         /\ Draws(rs, z, y, t, kind, r)
<1>0. PICK e : e = Event(kind, t, r)
  OBVIOUS
<1>1. e.type = kind /\ e.task = t /\ e.request = r /\ kind # "started"
  BY <1>0 DEF Event, Says, Ends, Asks, Answers
<1>2. e \in Events /\ EventOf(rs, e) /\ Orderly(z, e)
  <2>1. r \in Requests \union {None}
    BY BoundsAssumption DEF Requests, None
  <2>2. kind \in {"started", "streamed", "generationEnded", "required", "requested",
                  "resolved", "accepted", "rejected", "completed", "unverified", "ended"}
    BY DEF Says, Ends, Asks, Answers
  <2>3. e \in Events
    BY <1>0, <2>1, <2>2 DEF Event, Events
  <2> QED
    BY <1>1, <2>3 DEF EventOf, Orderly
<1>3. z \in Screens(Len(rs))
  BY TellsType
<1>4. y = After(rs, z, e)
  BY <1>0
<1>5. kind \in Ends /\ ~z[t].over => Counts(rs, z, e)
  BY <1>1, <1>2, <1>3, <1>4, Effects
<1>6. kind \in Asks /\ z[t].closed => ~Counts(rs, z, e)
  BY <1>1, <1>2, <1>3, <1>4, Effects
<1>7. Tells(rs, Append(q, e), S, y, H, d)
  <2>1. e.type \in Asks /\ Counts(rs, z, e) => e.request \notin H
    BY <1>1, <1>6
  <2>2. d = 1 => c = 1 \/ Counts(rs, z, e)
    BY <1>5
  <2> QED
    BY <1>2, <1>4, <2>1, <2>2, Saying
<1>8. Draws(rs, z, y, t, kind, r)
  BY <1>1, <1>2, <1>3, <1>4, Effects DEF Draws
<1> QED
  BY <1>0, <1>2, <1>7, <1>8

(* A pipe to which the engine writes, one event after the other. *)
LEMMA Writes ==
  ASSUME NEW q \in Seq(Events), NEW a \in Events, NEW b \in Events, NEW e \in Events
  PROVE  /\ q \o <<>> = q
         /\ q \o <<a>> = Append(q, a)
         /\ q \o <<a, b>> = Append(Append(q, a), b)
         /\ q \o (<<>> \o <<b>>) = Append(q, b)
         /\ q \o (<<a>> \o <<b>>) = Append(Append(q, a), b)
         /\ q \o (<<>> \o <<b, e>>) = Append(Append(q, b), e)
         /\ q \o (<<a>> \o <<b, e>>) = Append(Append(Append(q, a), b), e)
<1>1. q \o <<>> = q /\ <<>> \o <<b>> = <<b>> /\ <<>> \o <<b, e>> = <<b, e>>
  OBVIOUS
<1>2. \A p \in Seq(Events) : \A x \in Events : p \o <<x>> = Append(p, x)
  OBVIOUS
<1>3. \A p \in Seq(Events) : \A x, y \in Events : p \o <<x, y>> = Append(Append(p, x), y)
  OBVIOUS
<1>4. \A p \in Seq(Events) : q \o (<<a>> \o p) = (q \o <<a>>) \o p
  <2>1. <<a>> \in Seq(Events)
    OBVIOUS
  <2> QED
    BY <2>1, ConcatAssociative
<1>5. <<b>> \in Seq(Events) /\ <<b, e>> \in Seq(Events) /\ Append(q, a) \in Seq(Events)
  OBVIOUS
<1>6. q \o <<a>> = Append(q, a) /\ q \o <<a, b>> = Append(Append(q, a), b)
  BY <1>2, <1>3
<1>7. q \o (<<a>> \o <<b>>) = Append(Append(q, a), b)
  <2>1. q \o (<<a>> \o <<b>>) = Append(q, a) \o <<b>>
    BY <1>4, <1>5, <1>6, Zenon
  <2> QED
    BY <1>2, <1>5, <2>1, Zenon
<1>8. q \o (<<a>> \o <<b, e>>) = Append(Append(Append(q, a), b), e)
  <2>1. q \o (<<a>> \o <<b, e>>) = Append(q, a) \o <<b, e>>
    BY <1>4, <1>5, <1>6, Zenon
  <2> QED
    BY <1>3, <1>5, <2>1, Zenon
<1>9. /\ q \o (<<>> \o <<b>>) = Append(q, b)
      /\ q \o (<<>> \o <<b, e>>) = Append(Append(q, b), e)
  BY <1>1, <1>2, <1>3
<1> QED
  BY <1>1, <1>6, <1>7, <1>8, <1>9, Zenon

(* A message or a trouble less to come. *)
LEMMA Spending ==
  ASSUME left \in [messages : 0..MaxMessages, troubles : 0..MaxTroubles],
         NEW what \in {"messages", "troubles"}, Spend(what)
  PROVE  left' \in [messages : 0..MaxMessages, troubles : 0..MaxTroubles]
<1>1. left["messages"] \in 0..MaxMessages /\ left["troubles"] \in 0..MaxTroubles
  OBVIOUS
<1>2. CASE what = "messages"
  <2> DEFINE k == left["messages"] - 1
  <2>1. left' = [left EXCEPT !["messages"] = k] /\ k \in 0..MaxMessages
    BY <1>1, <1>2, BoundsAssumption DEF Spend
  <2> HIDE DEF k
  <2> QED
    BY <2>1
<1>3. CASE what = "troubles"
  <2> DEFINE k == left["troubles"] - 1
  <2>1. left' = [left EXCEPT !["troubles"] = k] /\ k \in 0..MaxTroubles
    BY <1>1, <1>3, BoundsAssumption DEF Spend
  <2> HIDE DEF k
  <2> QED
    BY <2>1
<1> QED
  BY <1>2, <1>3

(* A tool or a plan asks. *)
LEMMA AskStep ==
  ASSUME Told, NEW kind \in {"tool", "plan"}, Ask(kind)
  PROVE  Told'
<1>1. PICK z, H, c : Foresees(z, H, c)
  BY DEF Told
<1> DEFINE n == Len(requests)
           x == [task |-> turn, kind |-> kind]
<1>2. /\ Typed /\ Knows /\ n \in Nat /\ n + 1 <= MaxRequests
      /\ run = "working" /\ asking = None /\ active = turn /\ turn \in Tasks /\ turn # None
      /\ held = None
  BY BoundsAssumption DEF Told, Typed, Knows, Ask, None
<1>3. /\ requests' = Append(requests, x) /\ x \in Request /\ requests \in Seq(Request)
      /\ asking' = n + 1 /\ confirm' = n + 1 /\ unsaid' = n + 1
      /\ UNCHANGED <<run, turn, active, held, queued, scheduled, toEngine, toClient,
                     sessions, viewed, current, typed, submitted, pressed, settled, expired, left>>
  BY <1>2 DEF Ask, client, ghost, Request, Typed
<1>4. /\ requests' \in Seq(Request) /\ Len(requests') = n + 1 /\ requests'[n + 1] = x
      /\ \A r \in 1..n : requests'[r] = requests[r]
  BY <1>2, <1>3
<1>5. Typed'
  BY <1>2, <1>3, <1>4 DEF Typed
<1>6. Goes
  BY <1>2, <1>3, <1>4 DEF Goes
<1>7. Knows'
  BY <1>2, <1>3, <1>4 DEF Knows, Typed, None
<1> PICK G : G = {n + 1}
  OBVIOUS
<1>8. Tells(requests', toClient', sessions', z, G, c)
  <2>1. Tells(requests, toClient, sessions, z, H, c) /\ toClient \in Seq(Events)
    BY <1>1, <1>2 DEF Foresees, Typed
  <2> QED
    BY <1>3, <2>1, Asking DEF Request
<1>9. Fits(z)'
  <2>1. Fits(z) /\ z \in Screens(n)
    BY <1>1, <1>2, TellsType DEF Foresees, Typed
  <2>2. \A t \in Tasks : t # turn => FitsAt(t, z[t])'
    BY <1>2, <1>5, <1>6, <2>1, Others
  <2>3. FitsAt(turn, z[turn])'
    <3>1. PICK s : s = z[turn]
      OBVIOUS
    <3>2. FitsAt(turn, s) /\ s.shown \in 0..n
      BY <1>2, <2>1, <3>1 DEF Fits, Screens, Screen
    <3>3. s.shown # None => Leftover(s.shown)' /\ requests'[s.shown].task = turn
      BY <1>2, <1>6, <3>2, OwnStays DEF None
    <3> QED
      BY <1>3, <3>1, <3>2, <3>3 DEF FitsAt
  <2> QED
    BY <1>2, <1>3, <2>2, <2>3 DEF Fits
<1>10. Unseen(G)' /\ Busying(c)' /\ None \notin G
  BY <1>2, <1>3 DEF Unseen, Busying, None
<1> QED
  BY <1>5, <1>7, <1>8, <1>9, <1>10 DEF Told, Foresees

(* The screen of the last task exists once there is one. *)
LEMMA TurnIsKnown ==
  ASSUME Typed, NEW z, z \in Screens(Len(requests)), Fits(z), turn # None
  PROVE  /\ turn \in Tasks /\ z[turn].known /\ FitsAt(turn, z[turn])
         /\ z[turn] \in Screen(Len(requests)) /\ z[turn].shown \in 0..Len(requests)
<1>1. turn \in Tasks /\ turn <= turn
  BY BoundsAssumption DEF Typed, Tasks
<1>2. FitsAt(turn, z[turn]) /\ z[turn] \in Screen(Len(requests))
  BY <1>1 DEF Fits, Screens
<1> QED
  BY <1>1, <1>2 DEF FitsAt, Screen

(* A request of the running turn is announced, if it is still open. *)
LEMMA AnnounceStep ==
  ASSUME Told, Announce
  PROVE  Told'
<1>1. PICK z, H, c : Foresees(z, H, c)
  BY DEF Told
<1> DEFINE n == Len(requests)
<1>2. /\ Typed /\ Knows /\ n \in Nat /\ n <= MaxRequests
      /\ Fits(z) /\ Unseen(H) /\ Busying(c) /\ None \notin H
      /\ Tells(requests, toClient, sessions, z, H, c)
  BY <1>1 DEF Told, Typed, Foresees
<1>3. /\ unsaid # None /\ unsaid' = None
      /\ UNCHANGED <<run, turn, active, asking, confirm, held, queued, scheduled, requests,
                     toEngine, sessions, viewed, current, typed, submitted,
                     pressed, settled, expired, left>>
  BY DEF Announce, client, ghost
<1>4. Goes /\ Knows' /\ Len(requests') = n
  BY <1>2, <1>3 DEF Goes, Typed, Knows
<1>5. z \in Screens(n)
  BY <1>2, TellsType DEF Typed
<1>6. CASE confirm # unsaid
  <2>1. toClient' = toClient
    BY <1>6 DEF Announce, Quiet
  <2>2. Typed' /\ Tells(requests', toClient', sessions', z, H, c)
    BY <1>2, <1>3, <2>1 DEF Typed, None
  <2>3. Fits(z)'
    BY <1>2, <1>3, <1>6 DEF Fits, FitsAt, Knows, Leftover, Rival
  <2>4. Unseen(H)' /\ Busying(c)'
    BY <1>2, <1>3 DEF Unseen, Busying, LateAnswer
  <2> QED
    BY <1>2, <1>4, <2>2, <2>3, <2>4 DEF Told, Foresees
<1>7. CASE confirm = unsaid
  <2>1. PICK r : r = unsaid
    OBVIOUS
  <2>2. /\ r = confirm /\ r \in 0..n /\ r # None /\ r \in 1..n /\ requests[r].task = turn
        /\ r = asking \/ r \in expired
    BY <1>2, <1>3, <1>7, <2>1 DEF Typed, Knows, None
  <2>3. turn \in Tasks /\ turn # None
    <3>1. requests[r] \in Request
      BY <1>2, <2>2 DEF Typed
    <3> QED
      BY <2>2, <3>1, BoundsAssumption DEF Request, Tasks, None
  <2>4. z[turn].known /\ FitsAt(turn, z[turn]) /\ z[turn] \in Screen(n) /\ z[turn].shown \in 0..n
    BY <1>2, <1>5, <2>3, TurnIsKnown
  <2>5. toClient' = toClient \o <<Event("required", turn, r)>>
    BY <1>7, <2>1, <2>2 DEF Announce, Emit, About
  <2>6. Tells(requests, toClient, sessions, z, {}, c) /\ toClient \in Seq(Events)
    BY <1>2, Forgetting DEF Typed
  <2>7. PICK y : y = After(requests, z, Event("required", turn, r))
    OBVIOUS
  <2>. None \notin {} /\ r \notin {}
    OBVIOUS
  <2>8. "required" \in Says /\ "required" \in Asks /\ "required" \notin Ends \union Answers
    BY DEF Says, Asks, Ends, Answers
  <2>9. /\ Event("required", turn, r) \in Events
        /\ Tells(requests, Append(toClient, Event("required", turn, r)), sessions, y, {}, c)
        /\ Draws(requests, z, y, turn, "required", r)
    BY <1>2, <2>2, <2>3, <2>4, <2>6, <2>7, <2>8, Speaking
  <2>10. toClient' = Append(toClient, Event("required", turn, r))
    BY <2>5, <2>6, <2>9, Writes
  <2> /\ y \in Screens(n) /\ \A u \in Tasks : u # turn => y[u] = z[u]
      /\ y[turn].known
      /\ z[turn].closed \/ z[turn].shown # None => y = z
      /\ ~z[turn].closed /\ z[turn].shown = None =>
           /\ y[turn].shown = r /\ ~y[turn].busy /\ ~y[turn].closed
           /\ y[turn].over = z[turn].over
    BY <2>8, <2>9 DEF Draws
  <2>11. Typed'
    BY <1>2, <1>3, <2>9, <2>10 DEF Typed, None
  <2>12. Fits(y)'
    <3>1. \A t \in Tasks : t # turn => FitsAt(t, y[t])'
      BY <1>2, <1>4, <1>5, <2>9, <2>11, Others
    <3>2. FitsAt(turn, y[turn])'
      BY <1>3, <2>2, <2>4, <2>9 DEF FitsAt, Leftover
    <3>3. asking # None => y[turn].shown = asking \/ Rival(asking)
      <4> HAVE asking # None
      <4>1. /\ asking = r /\ r = n /\ r \notin expired \union settled /\ held = None
            /\ turn = active
        BY <1>2, <2>2 DEF Knows
      <4>2. ~z[turn].closed
        BY <2>4, <4>1 DEF FitsAt
      <4>3. CASE z[turn].shown = None
        BY <2>9, <4>1, <4>2, <4>3
      <4>4. CASE z[turn].shown = r
        BY <2>9, <4>1, <4>2, <4>4, <2>2
      <4>5. CASE z[turn].shown \notin {None, r}
        <5>1. PICK q : q = z[turn].shown
          OBVIOUS
        <5>2. Leftover(q) /\ requests[q].task = turn /\ q \in 1..n
          BY <2>4, <4>1, <4>5, <5>1 DEF FitsAt, None
        <5> QED
          BY <2>2, <4>1, <4>5, <5>1, <5>2 DEF Rival
      <4> QED
        BY <4>3, <4>4, <4>5
    <3>4. held # None => y[turn].shown = held \/ y[turn].closed \/ Rival(held)
      BY <1>2, <2>9 DEF Fits, Knows, Typed, None
    <3>5. Rival(asking) <=> Rival(asking)'
      BY <1>3 DEF Rival, Leftover
    <3>6. Rival(held) <=> Rival(held)'
      BY <1>3 DEF Rival, Leftover
    <3> QED
      BY <1>3, <3>1, <3>2, <3>3, <3>4, <3>5, <3>6 DEF Fits
  <2>13. Unseen({})' /\ Busying(c)' /\ None \notin {}
    BY <1>2, <1>3, <1>7, <2>2 DEF Unseen, Busying, LateAnswer
  <2>14. Foresees(y, {}, c)'
    BY <1>3, <2>9, <2>10, <2>12, <2>13 DEF Foresees
  <2> QED
    BY <1>4, <2>11, <2>14 DEF Told
<1> QED
  BY <1>6, <1>7

(* The router returns. *)
LEMMA ReturnStep ==
  ASSUME Told, Return
  PROVE  Told'
<1>1. PICK z, H, c : Foresees(z, H, c)
  BY DEF Told
<1>2. /\ Typed /\ Knows /\ Fits(z) /\ Unseen(H) /\ Busying(c) /\ None \notin H
      /\ Tells(requests, toClient, sessions, z, H, c)
  BY <1>1 DEF Told, Foresees
<1>3. /\ run = "working" /\ asking = None /\ run' = "draining"
      /\ UNCHANGED <<turn, active, asking, confirm, unsaid, held, queued, scheduled, requests,
                     toEngine, toClient, sessions, viewed, current, typed, submitted,
                     pressed, settled, expired, left>>
  BY DEF Return, client, ghost
<1>4. Typed' /\ Knows'
  BY <1>2, <1>3 DEF Typed, Knows
<1>5. Fits(z)'
  BY <1>2, <1>3 DEF Fits, FitsAt, Leftover, Rival
<1>6. Unseen(H)' /\ Busying(c)'
  BY <1>2, <1>3 DEF Unseen, Busying, LateAnswer
<1>7. Foresees(z, H, c)'
  BY <1>2, <1>3, <1>5, <1>6 DEF Foresees
<1> QED
  BY <1>4, <1>7 DEF Told

(* A time limit passes: the request on the screen is left over. *)
LEMMA ExpireStep ==
  ASSUME Told, Expire
  PROVE  Told'
<1>1. PICK z, H, c : Foresees(z, H, c)
  BY DEF Told
<1> DEFINE n == Len(requests)
<1>2. /\ Typed /\ Knows /\ n \in Nat /\ n <= MaxRequests
      /\ Fits(z) /\ Unseen(H) /\ Busying(c) /\ None \notin H
      /\ Tells(requests, toClient, sessions, z, H, c)
  BY <1>1 DEF Told, Typed, Foresees
<1>3. /\ asking # None /\ asking' = None /\ expired' = expired \union {asking}
      /\ toClient' = toClient \o <<Event("streamed", turn, None)>>
      /\ UNCHANGED <<run, turn, active, confirm, unsaid, held, queued, scheduled, requests,
                     toEngine, sessions, viewed, current, typed, submitted, pressed, settled>>
  BY DEF Expire, Emit, client
<1>4. /\ run = "working" /\ confirm = asking /\ asking = n /\ asking \in 1..n
      /\ active = turn /\ turn # None /\ held = None
  BY <1>2, <1>3 DEF Knows, Typed, None
<1>5. z \in Screens(n)
  BY <1>2, TellsType DEF Typed
<1>6. /\ turn \in Tasks /\ z[turn].known /\ FitsAt(turn, z[turn]) /\ z[turn] \in Screen(n)
      /\ z[turn].shown \in 0..n
  BY <1>2, <1>4, <1>5, TurnIsKnown
<1>7. Goes
  BY <1>2, <1>3 DEF Goes, Typed
<1>8. Knows'
  BY <1>2, <1>3, <1>4 DEF Knows
<1>9. Tells(requests, toClient, sessions, z, {}, c) /\ toClient \in Seq(Events)
  BY <1>2, Forgetting DEF Typed
<1>10. PICK y : y = After(requests, z, Event("streamed", turn, None))
  OBVIOUS
<1>11. "streamed" \in Says /\ "streamed" \notin Asks \union Answers \union Ends
       /\ None \notin {} /\ None \in 0..n
  BY <1>2 DEF Says, Asks, Answers, Ends, None
<1>12. /\ Event("streamed", turn, None) \in Events
       /\ Tells(requests, Append(toClient, Event("streamed", turn, None)), sessions, y, {}, c)
       /\ Draws(requests, z, y, turn, "streamed", None)
  BY <1>2, <1>6, <1>9, <1>10, <1>11, Speaking
<1> /\ y \in Screens(n) /\ \A u \in Tasks : u # turn => y[u] = z[u]
    /\ y[turn].known /\ y[turn].shown = z[turn].shown
    /\ y[turn].closed = z[turn].closed /\ y[turn].over = z[turn].over
  BY <1>12 DEF Draws
<1>13. toClient' = Append(toClient, Event("streamed", turn, None))
  BY <1>3, <1>9, <1>12, Writes
<1>14. Typed'
  <2>1. left' \in [messages : 0..MaxMessages, troubles : 0..MaxTroubles]
    BY <1>2, Spending DEF Typed, Expire
  <2>2. toClient' \in Seq(Events)
    BY <1>9, <1>12, <1>13
  <2> QED
    BY <1>2, <1>3, <1>4, <2>1, <2>2 DEF Typed, None
<1>15. Fits(y)'
  <2>1. \A t \in Tasks : t # turn => FitsAt(t, y[t])'
    BY <1>2, <1>5, <1>7, <1>14, Others
  <2>2. FitsAt(turn, y[turn])'
    <3>1. PICK r : r = z[turn].shown
      OBVIOUS
    <3>2. r # None => r \in {asking, held} \/ Leftover(r)
      BY <1>6, <3>1 DEF FitsAt
    <3>3. r # None => Leftover(r)'
      BY <1>3, <1>4, <3>2 DEF Leftover
    <3> QED
      BY <1>3, <1>4, <1>6, <3>1, <3>3 DEF FitsAt
  <2> QED
    BY <1>3, <1>4, <2>1, <2>2 DEF Fits
<1>16. Unseen({})' /\ Busying(c)'
  BY <1>3, <1>4 DEF Unseen, Busying
<1>17. Foresees(y, {}, c)'
  BY <1>3, <1>12, <1>11, <1>13, <1>15, <1>16 DEF Foresees
<1> QED
  BY <1>8, <1>14, <1>17 DEF Told

(* A deliverable is held for its verdict. *)
LEMMA DeliverStep ==
  ASSUME Told, Deliver
  PROVE  Told'
<1>1. PICK z, H, c : Foresees(z, H, c)
  BY DEF Told
<1> DEFINE x == [task |-> turn, kind |-> "delivery"]
<1>n. PICK n : n = Len(requests)
  OBVIOUS
<1>r. PICK r : r = n + 1
  OBVIOUS
<1>2. /\ Typed /\ Knows /\ n \in Nat /\ r <= MaxRequests
      /\ Fits(z) /\ Unseen(H) /\ Busying(c) /\ None \notin H
      /\ Tells(requests, toClient, sessions, z, H, c)
  BY <1>1, <1>n, <1>r, BoundsAssumption, SMTT(30) DEF Told, Typed, Foresees, Deliver
<1>3. /\ run \in {"draining", "drained"} /\ run' = "idle" /\ held' = r
      /\ requests' = Append(requests, x)
      /\ toClient' = toClient \o (GenerationEnd \o <<Event("requested", turn, r)>>)
      /\ UNCHANGED <<turn, active, asking, confirm, unsaid, queued, scheduled,
                     toEngine, sessions, viewed, current, typed, submitted,
                     pressed, settled, expired, left>>
  BY <1>n, <1>r DEF Deliver, Drained, Emit, client, ghost
<1>4. turn # None /\ asking = None /\ held = None /\ active \in {turn, None}
  BY <1>2, <1>3 DEF Knows, Typed
<1>5. z \in Screens(n)
  BY <1>2, <1>n, TellsType DEF Typed
<1>6. /\ turn \in Tasks /\ z[turn].known /\ FitsAt(turn, z[turn]) /\ z[turn] \in Screen(n)
      /\ z[turn].shown \in 0..n
  BY <1>2, <1>4, <1>5, <1>n, TurnIsKnown
<1>7. /\ x \in Request /\ requests' \in Seq(Request) /\ Len(requests') = r /\ r \in 1..r
      /\ requests'[r].task = turn /\ \A i \in 1..n : requests'[i] = requests[i]
  BY <1>2, <1>3, <1>6, <1>n, <1>r DEF Typed, Request
<1>8. Goes
  BY <1>2, <1>3, <1>7, <1>n, <1>r DEF Goes, Typed
<1>9. Knows'
  BY <1>2, <1>3, <1>4, <1>7, <1>n, <1>r DEF Knows, Typed, None
<1>10. PICK G : G = {r}
  OBVIOUS
<1>11. Tells(requests', toClient, sessions, z, G, c) /\ None \notin G /\ toClient \in Seq(Events)
  <2>1. requests \in Seq(Request) /\ toClient \in Seq(Events) /\ {Len(requests) + 1} = G
    BY <1>2, <1>10, <1>n, <1>r DEF Typed
  <2>2. Tells(requests', toClient, sessions, z, G, c)
    BY <1>2, <1>3, <1>7, <2>1, Asking DEF Request
  <2> QED
    BY <1>2, <1>10, <1>r, <2>1, <2>2 DEF None
<1>12. z \in Screens(r)
  BY <1>7, <1>11, TellsType, BoundsAssumption, <1>2, <1>r
<1>13. PICK s : s = z[turn]
  OBVIOUS
<1>14. s.shown # None => s.shown \in 1..n /\ requests'[s.shown].task = turn /\ Leftover(s.shown)'
  BY <1>2, <1>4, <1>6, <1>8, <1>13, <1>n, OwnStays DEF None
<1>15. /\ "requested" \in Says /\ "requested" \in Asks /\ "requested" \notin Ends \union Answers
       /\ "generationEnded" \in Says /\ "generationEnded" \notin Asks \union Answers \union Ends
       /\ None \in 0..r /\ r \in 0..r /\ r \in Nat /\ r # None
  BY <1>2, <1>r DEF Says, Asks, Answers, Ends, None
<1>s. /\ Len(requests') \in Nat /\ Len(requests') <= MaxRequests
      /\ None \in 0..Len(requests') /\ r \in 0..Len(requests')
      /\ turn \in Tasks /\ z[turn].known /\ toClient \in Seq(Events)
  BY <1>2, <1>6, <1>7, <1>11, <1>15
<1>16. ASSUME NEW y, y \in Screens(r), \A t \in Tasks : t # turn => y[t] = z[t],
              y[turn].known, y[turn].closed = s.closed, y[turn].over = s.over,
              y[turn].shown = s.shown \/ (s.shown = None /\ y[turn].shown = r),
              y[turn].shown = s.shown => s.closed \/ s.shown # None,
              s.closed => y = z, Typed'
       PROVE  Fits(y)'
  <2>1. \A t \in Tasks : t # turn => FitsAt(t, y[t])'
    BY <1>2, <1>5, <1>8, <1>16, <1>n, Others
  <2>2. FitsAt(turn, y[turn])'
    BY <1>3, <1>6, <1>7, <1>13, <1>14, <1>16 DEF FitsAt
  <2>3. s.shown # None => Rival(r)'
    BY <1>2, <1>7, <1>14, <1>r DEF Rival
  <2>4. y[turn].shown = r \/ y[turn].closed \/ Rival(r)'
    BY <1>16, <2>3
  <2>5. asking' = None /\ held' = r /\ turn' = turn
    BY <1>3, <1>4
  <2> QED
    BY <2>1, <2>2, <2>4, <2>5 DEF Fits
<1>17. Busying(c)'
  BY <1>3, <1>15 DEF Busying
<1>18. CASE run = "draining"
  <2>1. active = turn /\ ~s.closed
    BY <1>2, <1>6, <1>13, <1>18 DEF Knows, FitsAt
  <2>2. toClient' = toClient \o (<<Event("generationEnded", turn, None)>>
                                 \o <<Event("requested", turn, r)>>)
    BY <1>3, <1>18 DEF GenerationEnd
  <2>3. PICK y : y = After(requests', z, Event("generationEnded", turn, None))
    OBVIOUS
  <2>4. Tells(requests', toClient, sessions, z, {}, c) /\ None \notin {} /\ r \notin {}
    BY <1>11, Forgetting
  <2>5. /\ Event("generationEnded", turn, None) \in Events
        /\ Tells(requests', Append(toClient, Event("generationEnded", turn, None)),
                 sessions, y, {}, c)
        /\ Draws(requests', z, y, turn, "generationEnded", None)
    BY <1>s, <1>15, <2>3, <2>4, Speaking
  <2>6. /\ y \in Screens(r) /\ \A u \in Tasks : u # turn => y[u] = z[u]
        /\ y[turn].known /\ y[turn].shown = s.shown
        /\ y[turn].closed = s.closed /\ y[turn].over = s.over
    BY <1>7, <1>13, <1>15, <2>5 DEF Draws
  <2>p. PICK p : p = Append(toClient, Event("generationEnded", turn, None))
    OBVIOUS
  <2>7. p \in Seq(Events) /\ Tells(requests', p, sessions, y, {}, c)
    BY <1>11, <2>5, <2>p
  <2>8. PICK w : w = After(requests', y, Event("requested", turn, r))
    OBVIOUS
  <2>9. /\ Event("requested", turn, r) \in Events
        /\ Tells(requests', Append(p, Event("requested", turn, r)), sessions, w, {}, c)
        /\ Draws(requests', y, w, turn, "requested", r)
    <3>1. /\ Len(requests') \in Nat /\ Len(requests') <= MaxRequests
          /\ turn \in Tasks /\ y[turn].known /\ r # None /\ r \in 0..Len(requests')
          /\ "requested" \in Says
      BY <1>s, <1>15, <2>6
    <3> QED
      BY <2>7, <2>8, <3>1, Speaking
  <2>10. /\ w \in Screens(r) /\ \A u \in Tasks : u # turn => w[u] = z[u]
         /\ w[turn].known /\ w[turn].closed = s.closed /\ w[turn].over = s.over
         /\ s.shown # None => w[turn].shown = s.shown
         /\ s.shown = None => w[turn].shown = r
    <3>1. /\ w \in Screens(r) /\ \A u \in Tasks : u # turn => w[u] = y[u]
          /\ w[turn].known
      BY <1>7, <2>9 DEF Draws
    <3>2. s.shown # None => w = y
      BY <1>15, <2>6, <2>9 DEF Draws
    <3>. w \in [Tasks -> Screen(r)] /\ y \in [Tasks -> Screen(r)] /\ s \in Screen(n)
      BY <1>6, <1>13, <2>6, <3>1 DEF Screens
    <3>. /\ w[turn].closed \in BOOLEAN /\ y[turn].closed \in BOOLEAN /\ s.closed \in BOOLEAN
         /\ w[turn].over \in BOOLEAN /\ y[turn].over \in BOOLEAN
      BY <1>6 DEF Screen
    <3>3. s.shown = None => /\ w[turn].shown = r /\ ~w[turn].closed
                            /\ w[turn].over = y[turn].over
      BY <1>15, <2>1, <2>6, <2>9 DEF Draws
    <3> QED
      BY <2>1, <2>6, <3>1, <3>2, <3>3
  <2>11. toClient' = Append(p, Event("requested", turn, r))
    BY <1>11, <2>2, <2>5, <2>9, <2>p, Writes
  <2>12. Typed'
    <3>1. toClient' \in Seq(Events)
      BY <2>7, <2>9, <2>11
    <3> QED
      BY <1>2, <1>3, <1>4, <1>7, <1>n, <1>r, <3>1 DEF Typed, None
  <2>13. Fits(w)'
    BY <1>15, <1>16, <2>1, <2>10, <2>12
  <2>14. Unseen({})'
    BY <1>3, <1>4, <2>1 DEF Unseen
  <2>15. Foresees(w, {}, c)'
    BY <1>3, <1>17, <2>4, <2>9, <2>11, <2>13, <2>14 DEF Foresees
  <2> QED
    BY <1>9, <2>12, <2>15 DEF Told
<1>19. CASE run = "drained"
  <2>1. active = None /\ confirm = None /\ s.closed /\ turn # active
    BY <1>2, <1>4, <1>6, <1>13, <1>19 DEF Knows, FitsAt
  <2>2. toClient' = toClient \o (<<>> \o <<Event("requested", turn, r)>>)
    BY <1>3, <1>19 DEF GenerationEnd
  <2>3. PICK y : y = After(requests', z, Event("requested", turn, r))
    OBVIOUS
  <2>4. /\ Event("requested", turn, r) \in Events
        /\ Tells(requests', Append(toClient, Event("requested", turn, r)), sessions, y, G, c)
        /\ Draws(requests', z, y, turn, "requested", r)
    BY <1>2, <1>6, <1>7, <1>11, <1>13, <1>15, <2>1, <2>3, Speaking
  <2>5. y = z
    BY <1>13, <1>15, <2>1, <2>4 DEF Draws
  <2>6. toClient' = Append(toClient, Event("requested", turn, r))
    BY <1>11, <2>2, <2>4, Writes
  <2>7. Typed'
    <3>1. toClient' \in Seq(Events)
      BY <1>11, <2>4, <2>6
    <3> QED
      BY <1>2, <1>3, <1>4, <1>7, <1>n, <1>r, <3>1 DEF Typed, None
  <2>8. Fits(z)'
    BY <1>6, <1>12, <1>13, <1>16, <2>1, <2>7
  <2>9. Unseen(G)'
    <3>1. r \notin pressed
      BY <1>2, <1>n, <1>r DEF Typed
    <3> QED
      BY <1>3, <1>10, <2>1, <3>1 DEF Unseen
  <2>10. Foresees(z, G, c)'
    BY <1>3, <1>11, <1>17, <2>4, <2>5, <2>6, <2>8, <2>9 DEF Foresees
  <2> QED
    BY <1>9, <2>7, <2>10 DEF Told
<1> QED
  BY <1>3, <1>18, <1>19

(* A queued input is taken, unless one is or a question is open. *)
LEMMA Scheduling ==
  ASSUME NEW q \in Nat, scheduled \in BOOLEAN, Schedule(q)
  PROVE  /\ queued' \in Nat /\ scheduled' \in BOOLEAN
         /\ scheduled => scheduled'
         /\ q > 0 /\ confirm = None => scheduled'
<1>1. CASE q > 0 /\ confirm = None /\ ~scheduled
  <2>1. queued' = q - 1 /\ scheduled' = TRUE
    BY <1>1 DEF Schedule
  <2> QED
    BY <1>1, <2>1
<1>2. CASE ~(q > 0 /\ confirm = None /\ ~scheduled)
  <2>1. queued' = q /\ scheduled' = scheduled
    BY <1>2 DEF Schedule
  <2>2. scheduled => scheduled'
    BY <2>1, Zenon
  <2>3. q > 0 /\ confirm = None => scheduled'
    <3>1. q > 0 /\ confirm = None => scheduled
      BY <1>2, Zenon
    <3> QED
      BY <2>2, <3>1, Zenon
  <2> QED
    BY <2>1, <2>2, <2>3, Zenon
<1> QED
  BY <1>1, <1>2, Zenon

(* A turn ends: finished, or cancelled before. *)
LEMMA EndingStep ==
  ASSUME Told, NEW how \in Ends, run \in {"draining", "drained", "winding"},
         run' = "idle", active' = None, Schedule(queued),
         \/ toClient' = toClient \o (GenerationEnd \o <<Event(how, turn, None)>>)
         \/ run = "winding" /\ toClient' = toClient,
         UNCHANGED <<turn, asking, confirm, unsaid, held, requests, toEngine, client, ghost>>
  PROVE  Told'
<1>1. PICK z, H, c : Foresees(z, H, c)
  BY DEF Told
<1>n. PICK n : n = Len(requests)
  OBVIOUS
<1>2. /\ Typed /\ Knows /\ n \in Nat /\ n <= MaxRequests
      /\ Fits(z) /\ Unseen(H) /\ Busying(c) /\ None \notin H
      /\ Tells(requests, toClient, sessions, z, H, c) /\ toClient \in Seq(Events)
  BY <1>1, <1>n DEF Told, Typed, Foresees
<1>3. /\ UNCHANGED <<turn, asking, confirm, unsaid, held, requests, toEngine, sessions, viewed,
                     current, typed, submitted, pressed, settled, expired, left>>
      /\ active \in {turn, None}
  BY <1>2 DEF client, ghost, Typed
<1>4. turn # None /\ asking = None /\ held = None
  BY <1>2 DEF Knows
<1>5. z \in Screens(n)
  BY <1>2, <1>n, TellsType
<1>6. /\ turn \in Tasks /\ z[turn].known /\ FitsAt(turn, z[turn]) /\ z[turn].shown \in 0..n
  BY <1>2, <1>4, <1>5, <1>n, TurnIsKnown
<1>7. Goes
  BY <1>2, <1>3 DEF Goes, Typed
<1>8. Knows'
  BY <1>2, <1>3, <1>4 DEF Knows
<1>9. PICK s : s = z[turn]
  OBVIOUS
<1>10. s.shown # None => s.shown \in 1..n /\ requests'[s.shown].task = turn /\ Leftover(s.shown)'
  BY <1>2, <1>4, <1>6, <1>7, <1>9, <1>n, OwnStays DEF None
<1>q. queued' \in Nat /\ scheduled' \in BOOLEAN
  BY <1>2, Scheduling DEF Typed
<1>11. /\ scheduled => scheduled'
       /\ queued > 0 /\ confirm = None => scheduled'
  BY <1>2, Scheduling DEF Typed
<1>12. ASSUME toClient' \in Seq(Events)
       PROVE  Typed'
  BY <1>2, <1>3, <1>q, <1>12 DEF Typed, None
<1>13. ASSUME NEW y, y \in Screens(n), \A t \in Tasks : t # turn => y[t] = z[t],
              y[turn].known, y[turn].closed, ~y[turn].busy, y[turn].shown \in {None, s.shown}, Typed'
       PROVE  Fits(y)'
  <2>1. \A t \in Tasks : t # turn => FitsAt(t, y[t])'
    BY <1>2, <1>5, <1>7, <1>13, <1>n, Others
  <2>2. FitsAt(turn, y[turn])'
    <3>1. turn' = turn /\ turn # active' /\ turn <= turn /\ (y[turn].known <=> turn <= turn)
      BY <1>3, <1>4, <1>6, <1>13, BoundsAssumption DEF Tasks
    <3> QED
      BY <1>10, <1>13, <3>1 DEF FitsAt
  <2> QED
    BY <1>3, <1>4, <2>1, <2>2 DEF Fits
<1>14. Unseen({})' /\ None \notin {}
  BY <1>3, <1>4 DEF Unseen
<1>15. ASSUME NEW d, d = 1 \/ (d = c /\ run \in {"drained", "winding"})
       PROVE  Busying(d)'
  <2>1. CASE d = 1
    BY <2>1 DEF Busying
  <2>2. CASE d = c /\ run \in {"drained", "winding"}
    <3>1. active = None /\ confirm = None
      BY <1>2, <2>2 DEF Knows
    <3> DEFINE waits == \E i \in DOMAIN toEngine : toEngine[i].type = "message"
    <3>2. submitted => waits \/ scheduled \/ queued > 0 \/ LateAnswer \/ c = 1
      BY <1>2, <1>4, <3>1 DEF Busying
    <3>3. scheduled \/ queued > 0 => scheduled'
      BY <1>11, <3>1
    <3>4. (waits <=> waits') /\ (LateAnswer <=> LateAnswer') /\ (submitted <=> submitted')
      BY <1>3 DEF LateAnswer
    <3> HIDE DEF waits
    <3>5. submitted' => waits' \/ scheduled' \/ LateAnswer' \/ d = 1
      BY <2>2, <3>2, <3>3, <3>4
    <3> QED
      BY <3>5 DEF Busying, waits
  <2> QED
    BY <1>15, <2>1, <2>2
<1>16. Tells(requests, toClient, sessions, z, {}, c)
  BY <1>2, Forgetting
<1>17. /\ Ends \subseteq Says /\ how \in Says /\ how \notin Asks \union Answers
       /\ how \notin {"generationEnded"}
       /\ "generationEnded" \in Says /\ "generationEnded" \notin Asks \union Answers \union Ends
       /\ Len(requests) \in Nat /\ Len(requests) <= MaxRequests /\ None \in 0..Len(requests)
  BY <1>2, <1>n DEF Says, Asks, Answers, Ends, None
<1>18. CASE run = "draining"
  <2>1. active = turn /\ ~s.closed /\ ~s.over
    BY <1>2, <1>6, <1>9, <1>18 DEF Knows, FitsAt
  <2>2. toClient' = toClient \o (<<Event("generationEnded", turn, None)>>
                                 \o <<Event(how, turn, None)>>)
    BY <1>18 DEF GenerationEnd
  <2>3. PICK y : y = After(requests, z, Event("generationEnded", turn, None))
    OBVIOUS
  <2>4. PICK p : p = Append(toClient, Event("generationEnded", turn, None))
    OBVIOUS
  <2>5. /\ Event("generationEnded", turn, None) \in Events
        /\ Tells(requests, Append(toClient, Event("generationEnded", turn, None)),
                 sessions, y, {}, c)
        /\ Draws(requests, z, y, turn, "generationEnded", None)
    BY <1>2, <1>6, <1>14, <1>16, <1>17, <2>3, Speaking
  <2>6. /\ y \in Screens(n) /\ \A u \in Tasks : u # turn => y[u] = z[u]
        /\ y[turn].known /\ y[turn].shown = s.shown /\ ~y[turn].closed /\ ~y[turn].over
    BY <1>9, <1>17, <1>n, <2>1, <2>5 DEF Draws
  <2>7. p \in Seq(Events) /\ Tells(requests, p, sessions, y, {}, c)
    BY <1>2, <2>4, <2>5
  <2>8. PICK w : w = After(requests, y, Event(how, turn, None))
    OBVIOUS
  <2>9. PICK d : d = 1
    OBVIOUS
  <2>10. /\ Event(how, turn, None) \in Events
         /\ Tells(requests, Append(p, Event(how, turn, None)), sessions, w, {}, d)
         /\ Draws(requests, y, w, turn, how, None)
    BY <1>6, <1>14, <1>17, <2>6, <2>7, <2>8, Speaking
  <2>11. /\ w \in Screens(n) /\ \A u \in Tasks : u # turn => w[u] = z[u]
         /\ w[turn].known /\ w[turn].closed /\ ~w[turn].busy /\ w[turn].shown \in {None, s.shown}
    BY <1>17, <1>n, <2>6, <2>10 DEF Draws
  <2>12. toClient' = Append(p, Event(how, turn, None))
    BY <1>2, <2>2, <2>4, <2>5, <2>10, Writes, SMTT(30)
  <2>13. Typed'
    BY <1>12, <2>7, <2>10, <2>12
  <2>14. Foresees(w, {}, d)'
    BY <1>3, <1>13, <1>14, <1>15, <2>9, <2>10, <2>11, <2>12, <2>13 DEF Foresees
  <2> QED
    BY <1>8, <2>13, <2>14 DEF Told
<1>19. CASE run \in {"drained", "winding"} /\ toClient' # toClient
  <2>1. active = None /\ s.closed /\ ~s.busy
    BY <1>2, <1>4, <1>6, <1>9, <1>19 DEF Knows, FitsAt
  <2>2. toClient' = toClient \o (<<>> \o <<Event(how, turn, None)>>)
    BY <1>19 DEF GenerationEnd
  <2>3. PICK y : y = After(requests, z, Event(how, turn, None))
    OBVIOUS
  <2>4. /\ Event(how, turn, None) \in Events
        /\ Tells(requests, Append(toClient, Event(how, turn, None)), sessions, y, {}, c)
        /\ Draws(requests, z, y, turn, how, None)
    BY <1>2, <1>6, <1>14, <1>16, <1>17, <2>3, Speaking
  <2>5. /\ y \in Screens(n) /\ \A u \in Tasks : u # turn => y[u] = z[u]
        /\ y[turn].known /\ y[turn].closed /\ ~y[turn].busy /\ y[turn].shown \in {None, s.shown}
    BY <1>9, <1>n, <2>1, <2>4 DEF Draws
  <2>6. toClient' = Append(toClient, Event(how, turn, None))
    BY <1>2, <2>2, <2>4, Writes
  <2>7. Typed'
    BY <1>2, <1>12, <2>4, <2>6
  <2>8. Foresees(y, {}, c)'
    BY <1>3, <1>13, <1>14, <1>15, <1>19, <2>4, <2>5, <2>6, <2>7 DEF Foresees
  <2> QED
    BY <1>8, <2>7, <2>8 DEF Told
<1>20. CASE run = "winding" /\ toClient' = toClient
  <2>1. s.closed /\ ~s.busy
    BY <1>2, <1>4, <1>6, <1>9, <1>20 DEF Knows, FitsAt
  <2>2. Typed'
    BY <1>2, <1>12, <1>20
  <2>3. Fits(z)'
    BY <1>5, <1>6, <1>9, <1>13, <2>1, <2>2
  <2>4. Foresees(z, {}, c)'
    BY <1>3, <1>14, <1>15, <1>16, <1>20, <2>3 DEF Foresees
  <2> QED
    BY <1>8, <2>2, <2>4 DEF Told
<1> QED
  <2>1. run = "drained" => toClient' # toClient
    <3> SUFFICES ASSUME run = "drained", toClient' = toClient
                 PROVE  FALSE
      OBVIOUS
    <3>1. toClient' = toClient \o (<<>> \o <<Event(how, turn, None)>>)
      BY DEF GenerationEnd
    <3>2. Len(toClient \o (<<>> \o <<Event(how, turn, None)>>)) = Len(toClient) + 1
      BY <1>2
    <3> QED
      BY <1>2, <3>1, <3>2
  <2> QED
    BY <1>18, <1>19, <1>20, <2>1

(* A turn finishes. *)
LEMMA FinishStep ==
  ASSUME Told, NEW how \in {"completed", "unverified", "ended"}, Finish(how)
  PROVE  Told'
<1>1. how \in Ends /\ run \in {"draining", "drained", "winding"} /\ run' = "idle" /\ active' = None
  BY DEF Finish, Drained, Ends
<1>2. /\ toClient' = toClient \o (GenerationEnd \o <<Event(how, turn, None)>>) /\ Schedule(queued)
      /\ UNCHANGED <<turn, asking, confirm, unsaid, held, requests, toEngine, client, ghost>>
  BY DEF Finish, Emit
<1> QED
  BY <1>1, <1>2, EndingStep

(* A cancelled turn has ended. *)
LEMMA WindDownStep ==
  ASSUME Told, WindDown
  PROVE  Told'
<1>1. "completed" \in Ends /\ run = "winding" /\ run' = "idle" /\ Schedule(queued)
  BY DEF WindDown, Ends
<1>2. active' = None
  BY DEF WindDown, Told, Knows
<1>3. \/ toClient' = toClient
      \/ toClient' = toClient \o (GenerationEnd \o <<Event("completed", turn, None)>>)
  BY <1>1 DEF WindDown, Quiet, Emit, GenerationEnd
<1>4. UNCHANGED <<turn, asking, confirm, unsaid, held, requests, toEngine, client, ghost>>
  BY DEF WindDown
<1> QED
  BY <1>1, <1>2, <1>3, <1>4, EndingStep

(* A message is dropped, queued or starts the next task. *)
LEMMA HearStep ==
  ASSUME Told, Hear, scheduled' \in BOOLEAN,
         UNCHANGED <<asking, confirm, unsaid, held, requests, client, ghost>>
  PROVE  Told'
<1>1. PICK z, H, c : Foresees(z, H, c)
  BY DEF Told
<1>n. PICK n : n = Len(requests)
  OBVIOUS
<1>2. /\ Typed /\ Knows /\ n \in Nat /\ n <= MaxRequests
      /\ Fits(z) /\ Unseen(H) /\ Busying(c) /\ None \notin H
      /\ Tells(requests, toClient, sessions, z, H, c) /\ toClient \in Seq(Events)
  BY <1>1, <1>n DEF Told, Typed, Foresees
<1>3. UNCHANGED <<asking, confirm, unsaid, held, requests, sessions, viewed,
                  current, typed, submitted, pressed, settled, expired, left>>
  BY DEF client, ghost
<1>4. CASE UNCHANGED <<run, turn, active, toClient>>
  <2>1. \/ queued' = queued /\ (confirm # None \/ held # None)
        \/ queued' = queued + 1 /\ run # "idle"
    BY <1>2, <1>4 DEF Hear, Typed
  <2>2. queued' \in Nat /\ Knows'
    BY <1>2, <1>3, <1>4, <2>1 DEF Typed, Knows
  <2>3. Typed'
    BY <1>2, <1>3, <1>4, <2>2 DEF Typed
  <2>4. Fits(z)' /\ Unseen(H)'
    BY <1>2, <1>3, <1>4 DEF Fits, FitsAt, Leftover, Rival, Unseen
  <2>5. Busying(c)'
    BY <1>2, <1>3, <1>4, <2>1 DEF Busying, Typed
  <2>6. Foresees(z, H, c)'
    BY <1>2, <1>3, <1>4, <2>4, <2>5 DEF Foresees
  <2> QED
    BY <2>2, <2>3, <2>6 DEF Told
<1>5. CASE ~UNCHANGED <<run, turn, active, toClient>>
  <2>1. PICK t : t = turn + 1
    OBVIOUS
  <2>2. /\ confirm = None /\ held = None /\ run = "idle" /\ turn < MaxTasks
        /\ run' = "working" /\ turn' = t /\ active' = t /\ queued' = queued
        /\ toClient' = toClient \o <<Event("started", t, None)>>
    BY <1>5, <2>1 DEF Hear, Quiet, Emit
  <2>3. /\ t \in Tasks /\ turn \in Nat /\ t # None /\ active = None /\ asking = None
        /\ \A u \in Tasks : u # t => (u <= turn <=> u <= t) /\ u # active
    BY <1>2, <2>1, <2>2, BoundsAssumption, SMTT(30) DEF Typed, Knows, Tasks, None
  <2>4. z \in Screens(n) /\ Len(requests) \in Nat /\ Len(requests) = n
    BY <1>2, <1>n, TellsType
  <2>5. PICK e : e = Event("started", t, None)
    OBVIOUS
  <2>6. /\ e.type = "started" /\ e.task = t /\ e \in Events /\ EventOf(requests, e)
        /\ e.type \notin Asks
    BY <2>3, <2>4, <2>5 DEF Event, Events, EventOf, Answers, Asks, None
  <2>7. Orderly(z, e)
    BY <1>2, <2>3, <2>6 DEF Orderly, Fits, FitsAt
  <2>8. PICK y : y = After(requests, z, e)
    OBVIOUS
  <2>9. Tells(requests, toClient, sessions, z, {}, c) /\ None \notin {}
    BY <1>2, Forgetting
  <2>10. Tells(requests, Append(toClient, e), sessions, y, {}, c)
    BY <1>2, <2>4, <2>6, <2>7, <2>8, <2>9, Saying
  <2>11. y \in Screens(n) /\ y[t] = NewSession /\ \A u \in Tasks : u # t => y[u] = z[u]
    BY <2>4, <2>6, <2>8, AfterType
  <2>12. toClient' = Append(toClient, e) /\ toClient' \in Seq(Events)
    BY <1>2, <2>2, <2>5, <2>6, Writes
  <2>13. Typed' /\ Knows'
    BY <1>2, <1>3, <2>2, <2>3, <2>12 DEF Typed, Knows
  <2>14. Fits(y)'
    <3>1. ASSUME NEW u \in Tasks, u # t
          PROVE  FitsAt(u, y[u])'
      <4>1. PICK s : s = z[u]
        OBVIOUS
      <4>2. FitsAt(u, s) /\ y[u] = s
        BY <1>2, <2>11, <3>1, <4>1 DEF Fits
      <4>3. FitsAt(u, s)'
        BY <1>3, <2>2, <2>3, <3>1, <4>2 DEF FitsAt, Leftover
      <4> QED
        BY <4>2, <4>3
    <3>2. FitsAt(t, y[t])'
      <4>1. /\ NewSession.known /\ NewSession.shown = None /\ ~NewSession.closed
            /\ ~NewSession.over
        BY <2>4, NewScreen
      <4>2. t <= turn' /\ t = active'
        BY <2>2, <2>3 DEF Tasks
      <4> QED
        BY <2>11, <4>1, <4>2 DEF FitsAt
    <3> QED
      BY <1>3, <2>2, <2>3, <3>1, <3>2 DEF Fits
  <2>15. Unseen({})' /\ Busying(c)'
    BY <1>3, <2>2, <2>3 DEF Unseen, Busying
  <2>16. Foresees(y, {}, c)'
    BY <1>3, <2>9, <2>10, <2>12, <2>14, <2>15 DEF Foresees
  <2> QED
    BY <2>13, <2>16 DEF Told
<1> QED
  BY <1>4, <1>5

(* A message is read, or a queued one is handled. *)
LEMMA MessageStep ==
  ASSUME Told, Message \/ Dequeue
  PROVE  Told'
<1>1. /\ Hear
      /\ UNCHANGED <<asking, confirm, unsaid, held, requests, client, ghost>>
  BY DEF Message, Dequeue
<1>2. scheduled' \in BOOLEAN
  BY DEF Message, Dequeue, Told, Typed
<1> QED
  BY <1>1, <1>2, HearStep

(* A message that is not the first line stays in the pipe. *)
LEMMA MessagesStay ==
  ASSUME LinesWerePressed, toEngine # <<>>, toEngine' = Tail(toEngine),
         Head(toEngine).type # "message",
         \E i \in DOMAIN toEngine : toEngine[i].type = "message"
  PROVE  \E i \in DOMAIN toEngine' : toEngine'[i].type = "message"
<1>1. toEngine \in Seq(Written(pressed))
  BY DEF LinesWerePressed
<1>2. PICK i \in DOMAIN toEngine : toEngine[i].type = "message"
  OBVIOUS
<1>3. i \in 1..Len(toEngine) /\ i # 1 /\ Len(toEngine) \in Nat
  BY <1>1, <1>2
<1> DEFINE j == i - 1
<1>4. j \in 1..Len(Tail(toEngine)) /\ Tail(toEngine)[j] = toEngine[i]
  BY <1>1, <1>3
<1>5. Tail(toEngine) \in Seq(Written(pressed))
  BY <1>1
<1>6. j \in DOMAIN Tail(toEngine)
  BY <1>4, <1>5
<1> HIDE DEF j
<1> QED
  BY <1>2, <1>4, <1>6

(* A line is read that does nothing. *)
LEMMA IgnoringStep ==
  ASSUME Whole, toEngine # <<>>, toEngine' = Tail(toEngine), Head(toEngine).type # "message",
         left' \in [messages : 0..MaxMessages, troubles : 0..MaxTroubles],
         UNCHANGED <<engine, toClient, client, pressed, settled, expired>>
  PROVE  Told'
<1>1. PICK z, H, c : Foresees(z, H, c)
  BY DEF Whole, Told
<1>2. /\ Typed /\ Knows /\ Fits(z) /\ Unseen(H) /\ Busying(c) /\ None \notin H
      /\ Tells(requests, toClient, sessions, z, H, c)
  BY <1>1 DEF Whole, Told, Foresees
<1>3. UNCHANGED <<run, turn, active, asking, confirm, unsaid, held, queued, scheduled, requests,
                  toClient, sessions, viewed, current, typed, submitted,
                  pressed, settled, expired>>
  BY DEF engine, client
<1>4. Typed' /\ Knows'
  BY <1>2, <1>3 DEF Typed, Knows
<1>5. Fits(z)' /\ Unseen(H)'
  BY <1>2, <1>3 DEF Fits, FitsAt, Leftover, Rival, Unseen
<1>6. Busying(c)'
  <2>1. (\E i \in DOMAIN toEngine : toEngine[i].type = "message")
          => \E i \in DOMAIN toEngine' : toEngine'[i].type = "message"
    BY MessagesStay DEF Whole, Inv
  <2> QED
    BY <1>2, <1>3, <2>1 DEF Busying, LateAnswer
<1>7. Foresees(z, H, c)'
  BY <1>2, <1>3, <1>5, <1>6 DEF Foresees
<1> QED
  BY <1>4, <1>7 DEF Told

(* An answer settles the question it names. *)
LEMMA ResolveStep ==
  ASSUME Whole, Resolve
  PROVE  Told'
<1>1. PICK z, H, c : Foresees(z, H, c)
  BY DEF Whole, Told
<1>n. PICK n : n = Len(requests)
  OBVIOUS
<1>2. /\ Typed /\ Knows /\ n \in Nat /\ n <= MaxRequests
      /\ Fits(z) /\ Unseen(H) /\ Busying(c) /\ None \notin H
      /\ Tells(requests, toClient, sessions, z, H, c) /\ toClient \in Seq(Events)
  BY <1>1, <1>n DEF Whole, Told, Typed, Foresees
<1>3. toEngine # <<>> /\ toEngine' = Tail(toEngine) /\ Head(toEngine).type # "message"
  BY DEF Resolve, Line, Consume
<1>4. CASE ~Named(confirm)
  <2>1. UNCHANGED <<engine, toClient, client, pressed, settled, expired, left>>
    BY <1>4 DEF Resolve, engine
  <2>2. left' \in [messages : 0..MaxMessages, troubles : 0..MaxTroubles]
    BY <1>2, <2>1 DEF Typed
  <2> QED
    BY <1>3, <2>1, <2>2, IgnoringStep
<1>5. CASE Named(confirm)
  <2>1. /\ confirm # None /\ confirm' = None
        /\ asking' = IF asking = confirm THEN None ELSE asking
        /\ settled' = settled \union {confirm}
        /\ toClient' = toClient \o <<Event("resolved", requests[confirm].task, confirm)>>
        /\ UNCHANGED <<run, turn, active, unsaid, held, queued, scheduled, requests,
                       sessions, viewed, current, typed, submitted, pressed, expired, left>>
    BY <1>5 DEF Resolve, client, Emit, About
  <2>2. /\ requests[confirm].task = turn /\ turn # None /\ confirm \in 1..n
        /\ asking' = None /\ confirm # held /\ active \in {turn, None}
    <3>1. confirm \in 1..n /\ confirm # held /\ active \in {turn, None}
      BY <1>2, <1>n, <2>1 DEF Typed, Knows, None
    <3>2. requests[confirm].task = turn /\ asking' = None
      BY <1>2, <2>1 DEF Knows
    <3>3. requests[confirm].task \in Tasks
      <4>1. requests \in Seq(Request) /\ confirm \in 1..Len(requests)
        BY <1>2, <1>n, <3>1 DEF Typed
      <4>2. requests[confirm] \in Request
        BY <4>1
      <4> QED
        BY <4>2 DEF Request
    <3>4. turn # None
      BY <3>2, <3>3, BoundsAssumption DEF Tasks, None
    <3> QED
      BY <3>1, <3>2, <3>4
  <2>3. z \in Screens(n)
    BY <1>2, <1>n, TellsType
  <2>4. /\ turn \in Tasks /\ z[turn].known /\ FitsAt(turn, z[turn]) /\ z[turn].shown \in 0..n
    BY <1>2, <1>n, <2>2, <2>3, TurnIsKnown
  <2>5. Goes
    BY <1>2, <2>1 DEF Goes, Typed
  <2>6. Knows'
    BY <1>2, <2>1, <2>2 DEF Knows
  <2>7. PICK s : s = z[turn]
    OBVIOUS
  <2>8. PICK e : e = Event("resolved", turn, confirm)
    OBVIOUS
  <2>9. PICK y : y = After(requests, z, e)
    OBVIOUS
  <2>10. /\ "resolved" \in Says /\ "resolved" \in Answers /\ "resolved" \notin Asks \union Ends
         /\ None \notin {} /\ confirm \in 0..Len(requests)
         /\ Len(requests) \in Nat /\ Len(requests) <= MaxRequests
    BY <1>2, <1>n, <2>2 DEF Says, Asks, Answers, Ends
  <2>11. Tells(requests, toClient, sessions, z, {}, c)
    BY <1>2, Forgetting
  <2>12. /\ e \in Events /\ Tells(requests, Append(toClient, e), sessions, y, {}, c)
         /\ Draws(requests, z, y, turn, "resolved", confirm)
    BY <1>2, <2>1, <2>4, <2>8, <2>9, <2>10, <2>11, Speaking
  <2>13. toClient' = Append(toClient, e) /\ toClient' \in Seq(Events)
    BY <1>2, <2>1, <2>2, <2>8, <2>12, Writes
  <2>14. Typed'
    BY <1>2, <1>n, <2>1, <2>2, <2>13 DEF Typed, None
  <2>15. /\ y \in Screens(n) /\ \A u \in Tasks : u # turn => y[u] = z[u]
         /\ y[turn].known
         /\ \/ y = z /\ (~s.closed /\ s.shown = confirm => requests[confirm].kind = "plan")
            \/ /\ y[turn].shown = None /\ ~y[turn].closed /\ y[turn].over = s.over
               /\ ~s.closed /\ s.shown = confirm
    BY <1>n, <2>7, <2>10, <2>12 DEF Draws
  <2>16. s.shown # None => /\ s.shown \in 1..n /\ requests'[s.shown].task = turn
                           /\ s.shown \in {asking, held} \/ Leftover(s.shown)'
    BY <1>2, <1>n, <2>4, <2>5, <2>7, OwnStays
  <2>17. Fits(y)'
    <3>1. \A t \in Tasks : t # turn => FitsAt(t, y[t])'
      BY <1>2, <1>n, <2>3, <2>5, <2>14, <2>15, Others
    <3>2. FitsAt(turn, y[turn])'
      <4>1. CASE y = z /\ (~s.closed /\ s.shown = confirm => requests[confirm].kind = "plan")
        <5>1. s.shown # None => s.shown \in {asking', held'} \/ Leftover(s.shown)'
          <6>1. CASE s.shown = asking /\ asking # None
            <7>1. asking = confirm /\ active = turn
              BY <1>2, <6>1 DEF Knows
            <7>2. requests[confirm].kind = "plan"
              BY <2>4, <2>7, <4>1, <6>1, <7>1 DEF FitsAt
            <7>3. Leftover(s.shown)'
              BY <2>1, <6>1, <7>1, <7>2 DEF Leftover
            <7> QED
              BY <7>3
          <6> QED
            BY <2>1, <2>16, <6>1
        <5> QED
          BY <2>1, <2>4, <2>7, <2>16, <4>1, <5>1 DEF FitsAt
      <4>2. CASE y[turn].shown = None /\ ~y[turn].closed /\ y[turn].over = s.over /\ ~s.closed
        BY <2>1, <2>4, <2>7, <2>15, <4>2 DEF FitsAt
      <4> QED
        BY <2>15, <4>1, <4>2
    <3>3. held # None => y[turn].shown = held \/ y[turn].closed \/ Rival(held)'
      <4> SUFFICES ASSUME held # None
                   PROVE  y[turn].shown = held \/ y[turn].closed \/ Rival(held)'
        OBVIOUS
      <4>1. held \in 1..n
        BY <1>2, <1>n DEF Typed, None
      <4>2. Rival(held) => Rival(held)'
        BY <1>2, <1>n, <2>1, <2>5, <4>1, StaysLeft DEF Rival
      <4> QED
        BY <1>2, <2>2, <2>7, <2>15, <4>2 DEF Fits
    <3> QED
      BY <2>1, <2>2, <3>1, <3>2, <3>3 DEF Fits
  <2>18. Unseen({})'
    BY <1>2, <2>1 DEF Unseen
  <2>19. Busying(c)'
    <3>1. confirm = asking \/ confirm \in expired
      BY <1>2, <2>1 DEF Knows
    <3>2. confirm = asking => active' # None
      BY <1>2, <2>1, <2>2 DEF Knows
    <3>3. confirm \in expired => LateAnswer'
      BY <2>1 DEF LateAnswer
    <3> QED
      BY <3>1, <3>2, <3>3 DEF Busying
  <2>20. Foresees(y, {}, c)'
    BY <2>1, <2>10, <2>12, <2>13, <2>17, <2>18, <2>19 DEF Foresees
  <2> QED
    BY <2>6, <2>14, <2>20 DEF Told
<1> QED
  BY <1>4, <1>5

(* A verdict settles the delivery that is held, and its task ends. *)
LEMMA VerdictStep ==
  ASSUME Whole, NEW first \in {"accepted", "rejected"}, NEW last \in {"completed", "ended"},
         held # None, confirm = None, toEngine # <<>>, Head(toEngine).request = held,
         held' = None, active' = IF active = requests[held].task THEN None ELSE active,
         settled' = settled \union {held},
         toClient' = toClient \o <<About(first, held), About(last, held)>>,
         queued' \in Nat, scheduled' \in BOOLEAN,
         UNCHANGED <<run, turn, asking, confirm, unsaid, requests, client, pressed, expired, left>>
  PROVE  Told'
<1>1. PICK z, H, c : Foresees(z, H, c)
  BY DEF Whole, Told
<1>n. PICK n : n = Len(requests)
  OBVIOUS
<1>2. /\ Typed /\ Knows /\ n \in Nat /\ n <= MaxRequests
      /\ Fits(z) /\ Unseen(H) /\ None \notin H
      /\ Tells(requests, toClient, sessions, z, H, c) /\ toClient \in Seq(Events)
  BY <1>1, <1>n DEF Whole, Told, Typed, Foresees
<1>3. /\ UNCHANGED <<run, turn, asking, confirm, unsaid, requests, sessions, viewed, current,
                     typed, submitted, pressed, expired, left>>
      /\ held \in 1..n /\ run = "idle" /\ requests[held].task = turn /\ asking = None
  BY <1>2, <1>n DEF client, Typed, Knows, None
<1>4. held \in pressed
  BY Reading DEF Whole, Inv
<1>5. active = turn /\ turn # None /\ active' = None
  BY <1>2, <1>3, <1>4 DEF Unseen, Typed
<1>6. z \in Screens(n)
  BY <1>2, <1>n, TellsType
<1>7. /\ turn \in Tasks /\ z[turn].known /\ FitsAt(turn, z[turn]) /\ z[turn].shown \in 0..n
  BY <1>2, <1>n, <1>5, <1>6, TurnIsKnown
<1>8. ~z[turn].over
  BY <1>5, <1>7 DEF FitsAt
<1>9. Goes
  BY <1>2, <1>3, <1>5 DEF Goes, Typed
<1>10. Knows'
  BY <1>2, <1>3, <1>5 DEF Knows
<1>11. PICK k : k = held
  OBVIOUS
<1>12. /\ first \in Says /\ first \in Answers /\ first \notin Asks \union Ends
       /\ last \in Says /\ last \in Ends /\ last \notin Asks \union Answers
       /\ last # "unverified"
       /\ None \notin {} /\ k \in 0..Len(requests) /\ k # None
       /\ Len(requests) \in Nat /\ Len(requests) <= MaxRequests
  BY <1>2, <1>3, <1>11, <1>n DEF Says, Asks, Answers, Ends
<1>13. Tells(requests, toClient, sessions, z, {}, c)
  BY <1>2, Forgetting
<1>14. PICK y : y = After(requests, z, Event(first, turn, k))
  OBVIOUS
<1>15. /\ Event(first, turn, k) \in Events
       /\ Tells(requests, Append(toClient, Event(first, turn, k)), sessions, y, {}, c)
       /\ Draws(requests, z, y, turn, first, k)
  BY <1>2, <1>7, <1>12, <1>13, <1>14, Speaking
<1>16. /\ y \in Screens(n) /\ \A u \in Tasks : u # turn => y[u] = z[u]
       /\ y[turn].known /\ ~y[turn].over
  BY <1>8, <1>12, <1>15, <1>n DEF Draws
<1>17. PICK p : p = Append(toClient, Event(first, turn, k))
  OBVIOUS
<1>18. p \in Seq(Events) /\ Tells(requests, p, sessions, y, {}, c)
  BY <1>2, <1>15, <1>17
<1>19. PICK w : w = After(requests, y, Event(last, turn, k))
  OBVIOUS
<1>20. PICK d : d = 1
  OBVIOUS
<1>21. /\ Event(last, turn, k) \in Events
       /\ Tells(requests, Append(p, Event(last, turn, k)), sessions, w, {}, d)
       /\ Draws(requests, y, w, turn, last, k)
  BY <1>7, <1>12, <1>16, <1>18, <1>19, Speaking
<1>22. /\ w \in Screens(n) /\ \A u \in Tasks : u # turn => w[u] = z[u]
       /\ w[turn].known /\ w[turn].closed /\ ~w[turn].busy /\ w[turn].shown = None
  BY <1>12, <1>16, <1>21, <1>n DEF Draws
<1>23. toClient' = Append(p, Event(last, turn, k)) /\ toClient' \in Seq(Events)
  <2>1. toClient' = toClient \o <<Event(first, turn, k), Event(last, turn, k)>>
    BY <1>3, <1>11 DEF About
  <2>2. toClient' = Append(Append(toClient, Event(first, turn, k)), Event(last, turn, k))
    BY <1>2, <1>15, <1>21, <2>1, Writes
  <2> QED
    BY <1>17, <1>18, <1>21, <2>2
<1>24. Typed'
  BY <1>2, <1>3, <1>5, <1>23, <1>n DEF Typed, None
<1>25. Fits(w)'
  <2>1. \A t \in Tasks : t # turn => FitsAt(t, w[t])'
    BY <1>2, <1>6, <1>9, <1>22, <1>24, <1>n, Others
  <2>2. FitsAt(turn, w[turn])'
    <3>1. turn' = turn /\ turn # active' /\ turn <= turn
      BY <1>3, <1>5, <1>7, BoundsAssumption DEF Tasks
    <3> QED
      BY <1>22, <3>1 DEF FitsAt
  <2> QED
    BY <1>3, <2>1, <2>2 DEF Fits
<1>26. Unseen({})' /\ Busying(d)'
  BY <1>20 DEF Unseen, Busying
<1>27. Foresees(w, {}, d)'
  BY <1>3, <1>12, <1>21, <1>23, <1>25, <1>26 DEF Foresees
<1> QED
  BY <1>10, <1>24, <1>27 DEF Told

(* An answer settles a delivery, unless a ledger fails or it names another. *)
LEMMA SettleStep ==
  ASSUME Whole, Settle
  PROVE  Told'
<1>1. Typed
  BY DEF Whole, Told
<1>2. /\ toEngine # <<>> /\ toEngine' = Tail(toEngine) /\ Head(toEngine).type # "message"
      /\ confirm = None
      /\ UNCHANGED <<run, turn, asking, confirm, unsaid, requests, client, pressed, expired>>
  BY DEF Settle, Line, Consume
<1>3. CASE held = None \/ ~Named(held)
  <2>1. UNCHANGED <<engine, toClient, client, pressed, settled, expired, left>>
    BY <1>2, <1>3 DEF Settle, engine
  <2>2. left' \in [messages : 0..MaxMessages, troubles : 0..MaxTroubles]
    BY <1>1, <2>1 DEF Typed
  <2> QED
    BY <1>2, <2>1, <2>2, IgnoringStep
<1>4. CASE held # None /\ Named(held) /\ Spend("troubles")
                   /\ UNCHANGED <<held, active, queued, scheduled, settled, toClient>>
  <2>1. UNCHANGED <<engine, toClient, client, pressed, settled, expired>>
    BY <1>2, <1>4 DEF engine
  <2>2. left' \in [messages : 0..MaxMessages, troubles : 0..MaxTroubles]
    BY <1>1, <1>4, Spending DEF Typed
  <2> QED
    BY <1>2, <2>1, <2>2, IgnoringStep
<1>5. CASE /\ held # None /\ Named(held) /\ held' = None /\ UNCHANGED left
           /\ active' = IF active = requests[held].task THEN None ELSE active
           /\ settled' = settled \union {held}
           /\ \/ Emit(<<About("accepted", held), About("completed", held)>>)
              \/ Emit(<<About("rejected", held), About("ended", held)>>)
           /\ Schedule(queued) \/ UNCHANGED <<queued, scheduled>>
  <2>1. queued' \in Nat /\ scheduled' \in BOOLEAN
    <3>1. CASE Schedule(queued)
      BY <1>1, <3>1, Scheduling DEF Typed
    <3>2. CASE UNCHANGED <<queued, scheduled>>
      BY <1>1, <3>2 DEF Typed
    <3> QED
      BY <1>5, <3>1, <3>2
  <2>2. PICK first \in {"accepted", "rejected"}, last \in {"completed", "ended"} :
          toClient' = toClient \o <<About(first, held), About(last, held)>>
    BY <1>5 DEF Emit
  <2>3. Head(toEngine).request = held
    BY <1>5 DEF Named
  <2> QED
    BY <1>2, <1>5, <2>1, <2>2, <2>3, VerdictStep
<1> QED
  BY <1>3, <1>4, <1>5 DEF Settle

(* generation.cancel ends the task that runs. *)
LEMMA CancelStep ==
  ASSUME Whole, Cancel
  PROVE  Told'
<1>1. PICK z, H, c : Foresees(z, H, c)
  BY DEF Whole, Told
<1>n. PICK n : n = Len(requests)
  OBVIOUS
<1>2. /\ Typed /\ Knows /\ n \in Nat /\ n <= MaxRequests
      /\ Fits(z) /\ Unseen(H) /\ None \notin H
      /\ Tells(requests, toClient, sessions, z, H, c) /\ toClient \in Seq(Events)
  BY <1>1, <1>n DEF Whole, Told, Typed, Foresees
<1>3. /\ toEngine # <<>> /\ toEngine' = Tail(toEngine) /\ Head(toEngine).type # "message"
      /\ UNCHANGED <<turn, held, queued, scheduled, requests, sessions, viewed, current, typed,
                     submitted, pressed, settled, expired, left>>
  BY DEF Cancel, Line, Consume, client, ghost
<1>4. CASE run = "idle" \/ active = None
  <2>1. UNCHANGED <<engine, toClient, client, pressed, settled, expired, left>>
    BY <1>3, <1>4 DEF Cancel, engine, client
  <2>2. left' \in [messages : 0..MaxMessages, troubles : 0..MaxTroubles]
    BY <1>2, <2>1 DEF Typed
  <2> QED
    BY <1>3, <2>1, <2>2, IgnoringStep
<1>5. CASE ~(run = "idle" \/ active = None)
  <2>1. /\ run' = (IF run = "draining" THEN "drained" ELSE "winding")
        /\ active' = None /\ asking' = None /\ confirm' = None /\ unsaid' = None
        /\ toClient' = toClient \o
             ((IF confirm = None THEN <<>> ELSE <<Event("resolved", requests[confirm].task, confirm)>>)
              \o <<Event("generationEnded", turn, None), Event("ended", turn, None)>>)
    BY <1>5 DEF Cancel, Emit, About
  <2>2. /\ active = turn /\ turn # None /\ held = None
        /\ confirm # None => requests[confirm].task = turn /\ confirm \in 1..n
    BY <1>2, <1>5, <1>n DEF Knows, Typed, None
  <2>3. z \in Screens(n)
    BY <1>2, <1>n, TellsType
  <2>4. /\ turn \in Tasks /\ z[turn].known /\ FitsAt(turn, z[turn])
    BY <1>2, <1>n, <2>2, <2>3, TurnIsKnown
  <2>5. ~z[turn].over
    BY <2>2, <2>4 DEF FitsAt
  <2>6. Goes
    BY <1>2, <1>3, <2>1, <2>2 DEF Goes, Typed
  <2>7. Knows'
    BY <1>2, <1>3, <2>1, <2>2 DEF Knows
  <2>8. PICK a : a = Event("generationEnded", turn, None)
    OBVIOUS
  <2>9. PICK b : b = Event("ended", turn, None)
    OBVIOUS
  <2>10. PICK k : k = confirm
    OBVIOUS
  <2>11. PICK e : e = Event("resolved", turn, k)
    OBVIOUS
  <2>12. /\ "resolved" \in Says /\ "resolved" \in Answers /\ "resolved" \notin Asks \union Ends
         /\ "generationEnded" \in Says /\ "generationEnded" \notin Asks \union Answers \union Ends
         /\ "ended" \in Says /\ "ended" \in Ends /\ "ended" \notin Asks \union Answers
         /\ None \notin {} /\ None \in 0..Len(requests)
         /\ Len(requests) \in Nat /\ Len(requests) <= MaxRequests
    BY <1>2, <1>n DEF Says, Asks, Answers, Ends, None
  <2>13. Tells(requests, toClient, sessions, z, {}, c)
    BY <1>2, Forgetting
  <2>14. PICK p, x : /\ p \in Seq(Events) /\ Tells(requests, p, sessions, x, {}, c)
                     /\ x \in Screens(n) /\ \A u \in Tasks : u # turn => x[u] = z[u]
                     /\ x[turn].known /\ ~x[turn].over
                     /\ a \in Events /\ b \in Events =>
                          toClient' = Append(Append(p, a), b)
    <3>1. CASE confirm = None
      <4>1. toClient' = toClient \o (<<>> \o <<a, b>>)
        BY <2>1, <2>8, <2>9, <3>1
      <4>2. a \in Events /\ b \in Events => toClient' = Append(Append(toClient, a), b)
        BY <1>2, <4>1, Writes
      <4> QED
        BY <1>2, <2>3, <2>4, <2>5, <2>13, <4>2
    <3>2. CASE confirm # None
      <4>1. PICK y : y = After(requests, z, e)
        OBVIOUS
      <4>2. k # None /\ k \in 0..Len(requests)
        BY <1>2, <1>n, <2>2, <2>10, <3>2
      <4>3. /\ e \in Events /\ Tells(requests, Append(toClient, e), sessions, y, {}, c)
            /\ Draws(requests, z, y, turn, "resolved", k)
        BY <1>2, <2>4, <2>11, <2>12, <2>13, <4>1, <4>2, Speaking
      <4>4. /\ y \in Screens(n) /\ \A u \in Tasks : u # turn => y[u] = z[u]
            /\ y[turn].known /\ ~y[turn].over
        BY <1>n, <2>5, <2>12, <4>3 DEF Draws
      <4>5. toClient' = toClient \o (<<e>> \o <<a, b>>)
        BY <2>1, <2>2, <2>8, <2>9, <2>10, <2>11, <3>2
      <4>6. a \in Events /\ b \in Events => toClient' = Append(Append(Append(toClient, e), a), b)
        BY <1>2, <4>3, <4>5, Writes
      <4>7. Append(toClient, e) \in Seq(Events)
        BY <1>2, <4>3
      <4> QED
        BY <4>3, <4>4, <4>6, <4>7
    <3> QED
      BY <3>1, <3>2
  <2>15. PICK y : y = After(requests, x, a)
    OBVIOUS
  <2>16. a \in Events /\ Tells(requests, Append(p, a), sessions, y, {}, c)
         /\ Draws(requests, x, y, turn, "generationEnded", None)
    BY <2>4, <2>8, <2>12, <2>14, <2>15, Speaking
  <2>17. /\ y \in Screens(n) /\ \A u \in Tasks : u # turn => y[u] = z[u]
         /\ y[turn].known /\ ~y[turn].over
    BY <1>n, <2>12, <2>14, <2>16 DEF Draws
  <2>18. PICK q : q = Append(p, a)
    OBVIOUS
  <2>19. q \in Seq(Events) /\ Tells(requests, q, sessions, y, {}, c)
    BY <2>14, <2>16, <2>18
  <2>20. PICK w : w = After(requests, y, b)
    OBVIOUS
  <2>21. PICK d : d = 1
    OBVIOUS
  <2>22. b \in Events /\ Tells(requests, Append(q, b), sessions, w, {}, d)
         /\ Draws(requests, y, w, turn, "ended", None)
    BY <2>4, <2>9, <2>12, <2>17, <2>19, <2>20, Speaking
  <2>23. /\ w \in Screens(n) /\ \A u \in Tasks : u # turn => w[u] = z[u]
         /\ w[turn].known /\ w[turn].closed /\ ~w[turn].busy /\ w[turn].shown = None
    BY <1>n, <2>12, <2>17, <2>22 DEF Draws
  <2>24. toClient' = Append(q, b) /\ toClient' \in Seq(Events)
    BY <2>14, <2>16, <2>18, <2>19, <2>22
  <2>25. Typed'
    BY <1>2, <1>3, <2>1, <2>2, <2>24, <1>n DEF Typed, None
  <2>26. Fits(w)'
    <3>1. \A t \in Tasks : t # turn => FitsAt(t, w[t])'
      BY <1>2, <1>n, <2>3, <2>6, <2>23, <2>25, Others
    <3>2. FitsAt(turn, w[turn])'
      <4>1. turn' = turn /\ turn # active' /\ turn <= turn
        BY <1>3, <2>1, <2>2, <2>4, BoundsAssumption DEF Tasks
      <4> QED
        BY <2>23, <4>1 DEF FitsAt
    <3> QED
      BY <1>3, <2>1, <2>2, <3>1, <3>2 DEF Fits
  <2>27. Unseen({})' /\ Busying(d)'
    BY <1>3, <2>2, <2>21 DEF Unseen, Busying
  <2>28. Foresees(w, {}, d)'
    BY <1>3, <2>12, <2>22, <2>24, <2>26, <2>27 DEF Foresees
  <2> QED
    BY <2>7, <2>25, <2>28 DEF Told
<1> QED
  BY <1>4, <1>5

-----------------------------------------------------------------------------
(* The client reads an event: what was to come is a screen less, and a mark of a
   submission is gone when the event was heeded. *)
LEMMA ReduceStep ==
  ASSUME Told, Reduce
  PROVE  Told'
<1>1. PICK z, H, c : Foresees(z, H, c)
  BY DEF Told
<1>n. PICK n : n = Len(requests)
  OBVIOUS
<1>e. PICK e : e = Head(toClient)
  OBVIOUS
<1>S. PICK S : S = sessions
  OBVIOUS
<1>w. PICK w : w = After(requests, S, e)
  OBVIOUS
<1>2. /\ Typed /\ Knows /\ n \in Nat /\ Len(requests) \in Nat
      /\ Fits(z) /\ Unseen(H) /\ Busying(c) /\ None \notin H
      /\ Tells(requests, toClient, S, z, H, c) /\ toClient \in Seq(Events)
  BY <1>1, <1>n, <1>S DEF Told, Typed, Foresees
<1>3. /\ toClient # <<>> /\ toClient' = Tail(toClient) /\ toClient' \in Seq(Events)
      /\ UNCHANGED <<run, turn, active, asking, confirm, unsaid, held, queued, scheduled, requests,
                     toEngine, pressed, settled, expired, left>>
  BY <1>2 DEF Reduce, engine, ghost
<1>4. /\ EventOf(requests, e) /\ Orderly(S, e)
      /\ \/ Tells(requests, toClient', w, z, H, c)
         \/ Counts(requests, S, e) /\ Tells(requests, toClient', w, z, H, 0)
  BY <1>2, <1>3, <1>e, <1>w, Hearing
<1>5. S \in Screens(n)
  BY <1>2, <1>n, TellsType
<1>6. e \in Events /\ e.task \in Tasks /\ e.request \in 0..n /\ S[e.task] \in Screen(n)
  BY <1>4, <1>5, <1>n DEF EventOf, Events, Screens
<1>7. /\ w \in Screens(n) /\ \A u \in Tasks : u # e.task => w[u] = S[u]
      /\ e.type = "started" => w[e.task] = NewSession
      /\ e.type # "started" /\ Counts(requests, S, e) => w[e.task] = Seen(S[e.task], e)
      /\ ~Counts(requests, S, e) => w = S
  BY <1>2, <1>4, <1>5, <1>n, <1>w, AfterType
<1>8. \A u \in Tasks : S[u].known => w[u].known
  <2>1. S[e.task].known => w[e.task].known
    <3>1. CASE e.type = "started"
      BY <1>2, <1>7, <3>1, NewScreen
    <3>2. CASE e.type # "started" /\ Counts(requests, S, e)
      BY <1>2, <1>6, <1>7, <3>2, Seeing
    <3>3. CASE ~Counts(requests, S, e)
      BY <1>7, <3>3
    <3> QED
      BY <3>1, <3>2, <3>3
  <2> QED
    BY <1>7, <2>1
<1>9. CASE e.type = "started"
  <2>1. PICK t : t = e.task
    OBVIOUS
  <2>2. t \in Tasks /\ Counts(requests, S, e) /\ w = [S EXCEPT ![t] = NewSession]
    BY <1>6, <1>9, <1>w, <2>1 DEF Counts, After
  <2>3. current \in {None, t} \/ sessions[current].closed
    BY <1>2, <1>4, <1>9, <1>S, <2>1 DEF Orderly, Knows, Typed
  <2>4. Start(t)
    BY <1>9, <1>e, <2>1 DEF Reduce
  <2>5. /\ sessions' = w /\ current' = t /\ typed' = FALSE /\ submitted' = FALSE
        /\ viewed' \in {t, viewed}
    BY <1>S, <2>2, <2>3, <2>4 DEF Start, StartHeeded
  <2>6. w[t].known
    BY <1>2, <1>7, <1>9, <2>1, NewScreen
  <2>7. Typed'
    BY <1>2, <1>3, <2>2, <2>5 DEF Typed
  <2>8. Knows'
    BY <1>2, <1>3, <2>5, <2>6 DEF Knows
  <2>9. PICK d : Tells(requests, toClient', w, z, H, d)
    BY <1>4
  <2>10. Fits(z)' /\ Unseen(H)'
    BY <1>2, <1>3 DEF Fits, FitsAt, Leftover, Rival, Unseen
  <2>11. Busying(d)'
    BY <2>5 DEF Busying
  <2>12. Foresees(z, H, d)'
    BY <1>2, <1>3, <2>5, <2>9, <2>10, <2>11 DEF Foresees
  <2> QED
    BY <2>7, <2>8, <2>12 DEF Told
<1>10. CASE e.type # "started"
  <2>1. Counts(requests, S, e) <=> S[e.task].known /\ Heeded(S[e.task], e)
    BY <1>6, <1>10, HeedingIs DEF Counts
  <2>2. /\ Counts(requests, S, e) =>
             sessions' = [S EXCEPT ![e.task] = Seen(S[e.task], e)] /\ submitted' = FALSE
        /\ ~Counts(requests, S, e) => sessions' = S /\ submitted' = submitted
        /\ UNCHANGED <<viewed, current, typed>>
    BY <1>10, <1>e, <1>S, <2>1 DEF Reduce, client
  <2>3. sessions' = w
    BY <1>10, <1>w, <2>2 DEF After
  <2>4. submitted' \in BOOLEAN
    BY <1>2, <2>2 DEF Typed
  <2>5. Typed'
    BY <1>2, <1>3, <2>2, <2>4 DEF Typed
  <2>6. current # None => w[current].known
    BY <1>2, <1>8, <1>S DEF Knows, Typed
  <2>7. Knows'
    BY <1>2, <1>3, <2>2, <2>3, <2>6 DEF Knows
  <2>8. PICK d : /\ Tells(requests, toClient', w, z, H, d)
                 /\ d = c \/ Counts(requests, S, e)
    BY <1>4
  <2>9. Fits(z)' /\ Unseen(H)'
    BY <1>2, <1>3 DEF Fits, FitsAt, Leftover, Rival, Unseen
  <2>10. Busying(d)'
    <3>1. CASE Counts(requests, S, e)
      BY <2>2, <3>1 DEF Busying
    <3>2. CASE ~Counts(requests, S, e)
      <4>1. d = c /\ submitted' = submitted
        BY <2>2, <2>8, <3>2
      <4> QED
        BY <1>2, <1>3, <4>1 DEF Busying, LateAnswer
    <3> QED
      BY <3>1, <3>2
  <2>11. Foresees(z, H, d)'
    BY <1>2, <1>3, <2>3, <2>8, <2>9, <2>10 DEF Foresees
  <2> QED
    BY <2>5, <2>7, <2>11 DEF Told
<1> QED
  BY <1>9, <1>10

-----------------------------------------------------------------------------
(* A line is written behind the others. *)
LEMMA MessagesGrow ==
  ASSUME LinesWerePressed, NEW line, toEngine' = Append(toEngine, line)
  PROVE  /\ (\E i \in DOMAIN toEngine : toEngine[i].type = "message")
              => \E i \in DOMAIN toEngine' : toEngine'[i].type = "message"
         /\ line.type = "message" => \E i \in DOMAIN toEngine' : toEngine'[i].type = "message"
<1>1. PICK k : k = Len(toEngine)
  OBVIOUS
<1>2. /\ k \in Nat /\ DOMAIN toEngine = 1..k /\ DOMAIN toEngine' = 1..(k + 1)
      /\ toEngine'[k + 1] = line /\ \A i \in 1..k : toEngine'[i] = toEngine[i]
  BY <1>1 DEF LinesWerePressed
<1>3. k + 1 \in 1..(k + 1) /\ \A i \in 1..k : i \in 1..(k + 1)
  BY <1>2
<1> QED
  BY <1>2, <1>3

(* A key is pressed that shows nothing new: what is on its way is as it was. *)
LEMMA PressingStep ==
  ASSUME Whole, NEW seen, pressed' = pressed \union seen,
         \A r \in seen : \E t \in Tasks : r = sessions[t].shown /\ r # None,
         \/ toEngine' = toEngine /\ submitted' = submitted
         \/ \E line : /\ toEngine' = Append(toEngine, line)
                      /\ line.type = "message" \/ submitted' = submitted,
         viewed' \in Tasks \union {None}, typed' \in BOOLEAN, submitted' \in BOOLEAN,
         left' \in [messages : 0..MaxMessages, troubles : 0..MaxTroubles],
         UNCHANGED <<engine, toClient, sessions, current, settled, expired>>
  PROVE  Told'
<1>1. PICK z, H, c : Foresees(z, H, c)
  BY DEF Whole, Told
<1>n. PICK n : n = Len(requests)
  OBVIOUS
<1>2. /\ Typed /\ Knows /\ Fits(z) /\ Unseen(H) /\ Busying(c) /\ None \notin H
      /\ Tells(requests, toClient, sessions, z, H, c)
      /\ toClient \in Seq(Events) /\ Len(requests) \in Nat /\ LinesWerePressed
  BY <1>1 DEF Whole, Told, Foresees, Typed, Inv
<1>3. UNCHANGED <<run, turn, active, asking, confirm, unsaid, held, queued, scheduled, requests,
                  toClient, sessions, current, settled, expired>>
  BY DEF engine
<1>4. \A t \in Tasks : sessions[t].shown \in 0..n /\ sessions[t].shown \notin H
  BY <1>2, <1>n, TellsType DEF Screens, Screen
<1>5. seen \subseteq 1..n /\ seen \intersect H = {}
  BY <1>4 DEF None
<1>6. Typed'
  BY <1>2, <1>3, <1>5, <1>n DEF Typed
<1>7. Knows'
  BY <1>2, <1>3 DEF Knows
<1>8. Fits(z)'
  BY <1>2, <1>3 DEF Fits, FitsAt, Leftover, Rival
<1>9. Unseen(H)'
  BY <1>2, <1>3, <1>5 DEF Unseen
<1>10. Busying(c)'
  <2>1. LateAnswer' = LateAnswer
    BY <1>3 DEF LateAnswer
  <2>2. CASE toEngine' = toEngine /\ submitted' = submitted
    BY <1>2, <1>3, <2>1, <2>2 DEF Busying
  <2>3. ASSUME NEW line, toEngine' = Append(toEngine, line),
               line.type = "message" \/ submitted' = submitted
        PROVE  Busying(c)'
    <3>1. /\ (\E i \in DOMAIN toEngine : toEngine[i].type = "message")
               => \E i \in DOMAIN toEngine' : toEngine'[i].type = "message"
          /\ line.type = "message" => \E i \in DOMAIN toEngine' : toEngine'[i].type = "message"
      BY <1>2, <2>3, MessagesGrow
    <3> QED
      BY <1>2, <1>3, <2>1, <2>3, <3>1 DEF Busying
  <2> QED
    BY <2>2, <2>3
<1>11. Foresees(z, H, c)'
  BY <1>2, <1>3, <1>8, <1>9, <1>10 DEF Foresees
<1> QED
  BY <1>6, <1>7, <1>11 DEF Told

(* The keys. *)
LEMMA KeyStep ==
  ASSUME Whole, Keys
  PROVE  Told'
<1>1. Typed
  BY DEF Whole, Told
<1>n. PICK none : none = {}
  OBVIOUS
<1>m. \A r \in none : \E t \in Tasks : r = sessions[t].shown /\ r # None
  BY <1>n
<1>2. CASE Type
  <2>1. PICK line : line = Action("message", None, FALSE)
    OBVIOUS
  <2>2. /\ toEngine' = Append(toEngine, line) /\ line.type = "message"
        /\ typed' \in BOOLEAN /\ submitted' \in BOOLEAN /\ pressed' = pressed \union none
        /\ viewed' \in Tasks \union {None}
        /\ UNCHANGED <<engine, toClient, sessions, current, settled, expired>>
    BY <1>1, <1>2, <2>1, <1>n DEF Type, Write, Action, Typed
  <2>3. left' \in [messages : 0..MaxMessages, troubles : 0..MaxTroubles]
    BY <1>1, <1>2, Spending DEF Typed, Type
  <2> QED
    BY <1>m, <2>2, <2>3, PressingStep
<1>3. ASSUME NEW allow \in BOOLEAN, Answer(allow)
      PROVE  Told'
  <2>1. PICK line : line = Action("resolve", Shown, allow)
    OBVIOUS
  <2>2. PICK seen : seen = {Shown}
    OBVIOUS
  <2>3. /\ toEngine' = Append(toEngine, line) /\ submitted' = submitted
        /\ typed' \in BOOLEAN /\ submitted' \in BOOLEAN /\ pressed' = pressed \union seen
        /\ viewed' \in Tasks \union {None}
        /\ left' \in [messages : 0..MaxMessages, troubles : 0..MaxTroubles]
        /\ UNCHANGED <<engine, toClient, sessions, current, settled, expired>>
    BY <1>1, <1>3, <2>1, <2>2 DEF Answer, Write, Typed, client
  <2>4. \A r \in seen : \E t \in Tasks : r = sessions[t].shown /\ r # None
    BY <1>1, <1>3, <2>2 DEF Answer, Shown, Typed
  <2> QED
    BY <2>3, <2>4, PressingStep
<1>4. CASE Escape
  <2>1. PICK line : line = Action("cancel", None, FALSE)
    OBVIOUS
  <2>2. /\ toEngine' = Append(toEngine, line) /\ submitted' = submitted
        /\ typed' \in BOOLEAN /\ submitted' \in BOOLEAN /\ pressed' = pressed \union none
        /\ viewed' \in Tasks \union {None}
        /\ left' \in [messages : 0..MaxMessages, troubles : 0..MaxTroubles]
        /\ UNCHANGED <<engine, toClient, sessions, current, settled, expired>>
    BY <1>1, <1>4, <2>1, <1>n DEF Escape, Write, Typed, client, ghost
  <2> QED
    BY <1>m, <2>2, PressingStep
<1>5. ASSUME NEW t \in Tasks, Switch(t)
      PROVE  Told'
  <2>1. /\ toEngine' = toEngine /\ submitted' = submitted
        /\ typed' \in BOOLEAN /\ submitted' \in BOOLEAN /\ pressed' = pressed \union none
        /\ viewed' \in Tasks \union {None}
        /\ left' \in [messages : 0..MaxMessages, troubles : 0..MaxTroubles]
        /\ UNCHANGED <<engine, toClient, sessions, current, settled, expired>>
    BY <1>1, <1>5, <1>n DEF Switch, Typed, ghost
  <2> QED
    BY <1>m, <2>1, PressingStep
<1> QED
  BY <1>2, <1>3, <1>4, <1>5 DEF Keys

-----------------------------------------------------------------------------
(* Nothing runs, nothing is shown, nothing is on its way. *)
LEMMA ToldFirst ==
  ASSUME Init
  PROVE  Told
<1>1. PICK S : S = sessions
  OBVIOUS
<1>2. requests = <<>> /\ toClient = <<>> /\ Len(requests) = 0 /\ Len(requests) \in Nat
  BY DEF Init
<1>3. NoSession \in Screen(0) /\ ~NoSession.known /\ ~NoSession.busy /\ NoSession.shown = None
  BY DEF NoSession, Screen, None
<1>4. S \in Screens(Len(requests)) /\ \A t \in Tasks : S[t] = NoSession
  BY <1>1, <1>2, <1>3 DEF Init, Screens
<1>5. Typed
  <2>1. MaxMessages \in Nat /\ MaxTroubles \in Nat /\ MaxRequests \in Nat
    BY BoundsAssumption
  <2>2. left \in [messages : 0..MaxMessages, troubles : 0..MaxTroubles]
    BY <2>1 DEF Init
  <2>3. requests \in Seq(Request) /\ toClient \in Seq(Events) /\ Len(requests) <= MaxRequests
    BY <1>2, <2>1
  <2>4. /\ {asking, confirm, unsaid, held} \subseteq 0..Len(requests)
        /\ expired \union settled \union pressed \subseteq 1..Len(requests)
    BY <1>2 DEF Init, None
  <2> QED
    BY <2>2, <2>3, <2>4 DEF Init, Typed, None
<1>6. Knows
  BY DEF Init, Knows, None
<1>7. Fits(S)
  <2>1. ASSUME NEW t \in Tasks
        PROVE  FitsAt(t, S[t])
    <3>1. turn = 0 /\ active = 0 /\ ~(t <= 0) /\ t # 0
      BY BoundsAssumption DEF Init, Tasks, None
    <3> QED
      BY <1>3, <1>4, <3>1 DEF FitsAt, None
  <2> QED
    BY <2>1 DEF Fits, Init, None
<1>8. Unseen({}) /\ Busying(0) /\ None \notin {}
  BY DEF Init, Unseen, Busying
<1>9. Tells(requests, toClient, sessions, S, {}, 0)
  BY <1>1, <1>2, <1>4, NothingTold
<1>10. Foresees(S, {}, 0)
  BY <1>7, <1>8, <1>9 DEF Foresees
<1> QED
  BY <1>5, <1>6, <1>10 DEF Told

(* Nothing changes. *)
LEMMA ToldStays ==
  ASSUME Told, UNCHANGED vars
  PROVE  Told'
<1>1. PICK z, H, c : Foresees(z, H, c)
  BY DEF Told
<1>2. UNCHANGED <<run, turn, active, asking, confirm, unsaid, held, queued, scheduled, requests,
                  toEngine, toClient, sessions, viewed, current, typed, submitted,
                  pressed, settled, expired, left>>
  BY DEF vars, engine, client, ghost
<1>3. Typed' /\ Knows'
  BY <1>2 DEF Told, Typed, Knows
<1>4. Fits(z)' /\ Unseen(H)' /\ Busying(c)'
  BY <1>1, <1>2 DEF Foresees, Fits, FitsAt, Leftover, Rival, Unseen, Busying, LateAnswer
<1>5. Foresees(z, H, c)'
  BY <1>1, <1>2, <1>4 DEF Foresees
<1> QED
  BY <1>3, <1>5 DEF Told

(* The screens to come agree with the engine, at the start and after every step. *)
LEMMA WholeFirst == Init => Whole
  BY Initially, ToldFirst DEF Whole

(* No step of either process breaks the agreement. *)
LEMMA WholeStep == Whole /\ [Next]_vars => Whole'
<1> SUFFICES ASSUME Whole, [Next]_vars
             PROVE  Told'
  BY Step DEF Whole
<1>0. Told
  BY DEF Whole
<1>1. CASE EngineReads
  BY <1>0, <1>1, MessageStep, ResolveStep, SettleStep, CancelStep DEF EngineReads
<1>2. CASE Dequeue
  BY <1>0, <1>2, MessageStep
<1>3. ASSUME NEW kind \in {"tool", "plan"}, Ask(kind)
      PROVE  Told'
  BY <1>0, <1>3, AskStep
<1>4. CASE TurnGoes
  BY <1>0, <1>4, AnnounceStep, ExpireStep, ReturnStep, DeliverStep, WindDownStep, FinishStep
     DEF TurnGoes
<1>5. CASE Reduce
  BY <1>0, <1>5, ReduceStep
<1>6. CASE Keys
  BY <1>6, KeyStep
<1>7. CASE UNCHANGED vars
  BY <1>0, <1>7, ToldStays
<1> QED
  BY <1>1, <1>2, <1>3, <1>4, <1>5, <1>6, <1>7 DEF Next

-----------------------------------------------------------------------------
(* When the pipe is empty the screens to come are the client's. *)
LEMMA NowIsToCome ==
  ASSUME Told, toClient = <<>>
  PROVE  /\ sessions \in Screens(Len(requests)) /\ Fits(sessions)
         /\ \E c : c # 1 /\ Busying(c)
<1>1. PICK z, H, c : Foresees(z, H, c)
  BY DEF Told
<1>2. /\ Len(requests) \in Nat /\ toClient \in Seq(Events) /\ Fits(z) /\ Busying(c)
      /\ Tells(requests, toClient, sessions, z, H, c)
  BY <1>1 DEF Told, Typed, Foresees
<1>3. z = sessions /\ c # 1 /\ sessions \in Screens(Len(requests))
  BY <1>2, TellsType
<1> QED
  BY <1>2, <1>3

(* A request the engine waits for is on the screen of its task once its events
   are drawn, unless a leftover of the task had the screen or the task was
   cancelled (needApproval, requestArtifactApproval; apply_approval_required,
   apply_user_acceptance_required of state.rs). *)
THEOREM RequestsAreShown == Spec => []RequestIsShown
<1>1. Whole => RequestIsShown
  <2> SUFFICES ASSUME Told, Drawn, NEW r \in {asking, held} \ {None}
               PROVE  LET s == sessions[requests[r].task]
                      IN \/ s.shown = r
                         \/ s.closed
                         \/ \E q \in 1..(r - 1) :
                              Leftover(q) /\ requests[q].task = requests[r].task
    BY DEF Whole, RequestIsShown
  <2>1. Typed /\ Knows /\ Fits(sessions) /\ unsaid = None
    BY NowIsToCome DEF Told, Drawn
  <2>2. requests[r].task = turn
    BY <2>1 DEF Knows
  <2>3. sessions[turn].shown = r \/ sessions[turn].closed \/ Rival(r)
    BY <2>1 DEF Fits
  <2> QED
    BY <2>2, <2>3 DEF Rival
<1> QED
  BY <1>1, WholeFirst, WholeStep, PTL DEF Spec

(* A request on a screen is one the engine waits for, once both pipes are empty,
   or a leftover: the answer that closes it in the engine closes it on the
   screen (resolvePendingApproval; apply_approval_resolved of state.rs). *)
THEOREM ShownAreWaited == Spec => []ShownIsWaited
<1>1. Whole => ShownIsWaited
  <2> SUFFICES ASSUME Told, Read, NEW t \in Tasks
               PROVE  sessions[t].shown \in {None, asking, held} \/ Leftover(sessions[t].shown)
    BY DEF Whole, ShownIsWaited
  <2>1. Fits(sessions)
    BY NowIsToCome DEF Read, Drawn
  <2> QED
    BY <2>1 DEF Fits, FitsAt
<1> QED
  BY <1>1, WholeFirst, WholeStep, PTL DEF Spec

(* A client that shows work has an engine at work, or one that waits or still
   has something to say, unless an answer came after the time limit
   (submission_pending and the busy mark of state.rs; emitTaskEnd,
   generation.ended). *)
THEOREM BusyHolds == Spec => []BusyIsTrue
<1>1. Whole => BusyIsTrue
  <2> SUFFICES ASSUME Told, Read, run = "idle", confirm = None, held = None, ~LateAnswer
               PROVE  ~submitted /\ \A t \in Tasks : ~sessions[t].busy
    BY DEF Whole, BusyIsTrue
  <2>1. /\ Typed /\ Knows /\ Fits(sessions) /\ toEngine = <<>> /\ ~scheduled
    BY NowIsToCome DEF Told, Read, Drawn
  <2>2. PICK c : c # 1 /\ Busying(c)
    BY NowIsToCome DEF Read, Drawn
  <2>3. active = None
    BY <2>1 DEF Knows
  <2>4. \A i \in DOMAIN toEngine : FALSE
    BY <2>1
  <2>5. ~submitted
    BY <2>1, <2>2, <2>3, <2>4 DEF Busying
  <2>6. ASSUME NEW t \in Tasks
        PROVE  ~sessions[t].busy
    <3>1. t # active
      BY <2>3, BoundsAssumption DEF Tasks, None
    <3> QED
      BY <2>1, <3>1 DEF Fits, FitsAt
  <2> QED
    BY <2>5, <2>6
<1> QED
  BY <1>1, WholeFirst, WholeStep, PTL DEF Spec

(* The types of both processes, of the pipes and of the history. *)
THEOREM TypesHold == Spec => []TypeOK
<1>1. Whole => TypeOK
  <2> SUFFICES ASSUME Whole
               PROVE  TypeOK
    OBVIOUS
  <2>1. PICK n : n = Len(requests)
    OBVIOUS
  <2>2. Typed /\ n \in Nat /\ n <= MaxRequests /\ MaxRequests \in Nat
    BY <2>1, BoundsAssumption, SMTT(30) DEF Whole, Told, Typed
  <2>3. 1..n \subseteq Requests /\ 0..n \subseteq Requests \union {None}
    BY <2>2 DEF Requests, None
  <2>4. sessions \in Screens(n)
    <3>1. PICK z, H, c : Foresees(z, H, c)
      BY DEF Whole, Told
    <3>2. Tells(requests, toClient, sessions, z, H, c) /\ toClient \in Seq(Events)
      BY <2>2, <3>1 DEF Foresees, Typed
    <3> QED
      BY <2>1, <2>2, <3>2, TellsType
  <2>5. sessions \in [Tasks -> [known : BOOLEAN, shown : Requests \union {None},
                                busy : BOOLEAN, closed : BOOLEAN, over : BOOLEAN]]
    <3>1. Screen(n) \subseteq [known : BOOLEAN, shown : Requests \union {None},
                               busy : BOOLEAN, closed : BOOLEAN, over : BOOLEAN]
      BY <2>3 DEF Screen
    <3> QED
      BY <2>4, <3>1 DEF Screens
  <2>6. toEngine \in Seq(Lines)
    <3>1. pressed \subseteq Requests
      BY <2>1, <2>2, <2>3 DEF Typed
    <3>2. Written(pressed) \subseteq Lines
      BY <3>1 DEF Written, Lines, Kinds
    <3> QED
      BY <3>2 DEF Whole, Inv, LinesWerePressed
  <2>7. /\ {asking, confirm, unsaid, held} \subseteq Requests \union {None}
        /\ pressed \union settled \union expired \subseteq Requests
    BY <2>1, <2>2, <2>3 DEF Typed
  <2>8. active \in Tasks \union {None} /\ {viewed, current} \subseteq Tasks \union {None}
    BY <2>2 DEF Typed
  <2> QED
    BY <2>2, <2>5, <2>6, <2>7, <2>8 DEF Typed, TypeOK, Request
<1> QED
  BY <1>1, WholeFirst, WholeStep, PTL DEF Spec

=============================================================================
