------------------------ MODULE ApprovalReader_proofs ------------------------
(***************************************************************************)
(* What an answer can do, for any number of tool calls, lines and time     *)
(* limits: it acts on the request it was given to, never accepts a deleted *)
(* deliverable and never arrives at a closed reader.                       *)
(***************************************************************************)
EXTENDS ApprovalReader, TLAPS

(* Requests that were made have a time stamp; nothing else has one. *)
AskedOnce ==
  /\ \A w \in Tools : stamp[w] <= w
  /\ \A w \in Tools : call \in Tools /\ w < call => stamp[w] > 0
  /\ loop = "asking" => call \in Tools /\ stamp[call] > 0
  /\ \A w \in Tools :
       w > call \/ (w = call /\ loop # "asking") => stamp[w] = 0

(* Whoever waits was announced; the verdict is waited for in the last phase
   only, and while the deliverable is there. *)
PendingIsAsked ==
  /\ \A w \in Tools : w \in approvals => stamp[w] > 0
  /\ Delivery \in approvals => loop = "delivering" /\ artifact
  /\ shown # None /\ shown # Delivery => stamp[shown] > 0

(* A line in the pipe names the request the user gave it to. *)
Faithful(line) ==
  line.type = "resolve" =>
    line.id = Id(line.for) /\ (line.for \in Tools => stamp[line.for] > 0)

LinesAreFaithful == \A i \in 1 .. Len(pipe) : Faithful(pipe[i])

Explicit(result) ==
  result.accepted => result.line = "resolve" /\ result.for = Delivery /\ result.present

VerdictIsExplicit ==
  /\ answer[Delivery] # None => Explicit(answer[Delivery])
  /\ outcome # None => Explicit(outcome)

Inv ==
  /\ TypeOK /\ AskedOnce /\ PendingIsAsked /\ LinesAreFaithful
  /\ VerdictIsExplicit /\ ClosedLeavesNobody

(* The line at the head of the pipe, and the lines behind it. *)
LEMMA HeadAndTail ==
  ASSUME pipe \in Seq(Lines), pipe # <<>>
  PROVE  /\ Head(pipe) \in Lines /\ Head(pipe) = pipe[1] /\ 1 \in 1 .. Len(pipe)
         /\ Tail(pipe) \in Seq(Lines)
         /\ Len(pipe) \in Nat /\ Len(Tail(pipe)) \in Nat
         /\ \A i \in 1 .. Len(Tail(pipe)) :
              i + 1 \in 1 .. Len(pipe) /\ Tail(pipe)[i] = pipe[i + 1]
OBVIOUS

(* A line more at the end. *)
LEMMA OneMore ==
  ASSUME pipe \in Seq(Lines), NEW line \in Lines
  PROVE  /\ Append(pipe, line) \in Seq(Lines)
         /\ Len(pipe) \in Nat /\ Len(Append(pipe, line)) = Len(pipe) + 1
         /\ \A i \in 1 .. Len(Append(pipe, line)) :
              \/ i \in 1 .. Len(pipe) /\ Append(pipe, line)[i] = pipe[i]
              \/ Append(pipe, line)[i] = line
OBVIOUS

(* What a line may say. *)
LEMMA LineTypes ==
  ASSUME NEW line \in Lines
  PROVE  /\ line.type = "resolve" =>
              line.allow \in BOOLEAN /\ line.for \in Asks /\ line.id \in 0 .. Calls
         /\ line.type = "bare" => line.allow \in BOOLEAN /\ line.for \in Asks
BY DEF Lines

(* The result a closing reader hands out: typed, and not an allow. *)
LEMMA InterruptedFacts ==
  ASSUME artifact \in BOOLEAN
  PROVE  /\ Interrupted \in Results /\ ~Interrupted.accepted /\ Interrupted # None
<1>1. Interrupted \in Results
  BY DEF Interrupted, Result, Results
<1> QED
  BY <1>1, ApprovalReaderAssumption DEF Interrupted, Result

(* What a line makes of a wait. *)
LEMMA ResultTypes ==
  ASSUME artifact \in BOOLEAN, NEW ok \in BOOLEAN, NEW w \in Asks,
         NEW l \in {"bare", "resolve", "delete"}
  PROVE  Result(ok, l, w) \in Results /\ Result(ok, l, w) # None
BY ApprovalReaderAssumption DEF Result, Results

(* The id of a wait is a number. *)
LEMMA IdTypes ==
  ASSUME TypeOK, NEW w \in Asks
  PROVE  Id(w) \in 0 .. Calls
BY ApprovalReaderAssumption DEF TypeOK, Id, Asks, Tools, Delivery

(* The invariant behind the three properties below. *)
LEMMA Invariance == Spec => []Inv
<1>1. Init => Inv
  <2> SUFFICES ASSUME Init PROVE Inv
    OBVIOUS
  <2>1. TypeOK
    <3>1. call \in 1 .. Calls + 1 /\ sent \in 0 .. MaxLines
      BY ApprovalReaderAssumption DEF Init
    <3>2. stamp \in [Tools -> 0 .. Calls]
      BY ApprovalReaderAssumption DEF Init, Tools
    <3>3. pipe \in Seq(Lines)
      BY DEF Init
    <3> QED
      BY <3>1, <3>2, <3>3 DEF Init, TypeOK
  <2>2. AskedOnce
    BY ApprovalReaderAssumption DEF Init, AskedOnce, Tools
  <2>3. PendingIsAsked /\ LinesAreFaithful
    BY DEF Init, PendingIsAsked, LinesAreFaithful
  <2>4. VerdictIsExplicit /\ ClosedLeavesNobody
    BY DEF Init, VerdictIsExplicit, ClosedLeavesNobody, Asks
  <2> QED
    BY <2>1, <2>2, <2>3, <2>4 DEF Inv
<1>2. Inv /\ [Next]_vars => Inv'
  <2> SUFFICES ASSUME Inv, [Next]_vars PROVE Inv'
    OBVIOUS
  <2> USE ApprovalReaderAssumption DEF Inv, agent, reader, client
  <2>1. ASSUME SendResolve PROVE Inv'
    <3>a. PICK line \in Lines :
            /\ pipe' = Append(pipe, line) /\ UNCHANGED stamp
            /\ Faithful(line)
      <4>1. PICK w \in Announced, ok \in BOOLEAN, fits \in BOOLEAN :
              Send([type |-> "resolve", id |-> Id(w), allow |-> ok, fits |-> fits, for |-> w])
        BY <2>1 DEF SendResolve
      <4>2. w \in Asks /\ (w \in Tools => stamp[w] > 0)
        BY <4>1 DEF Announced, TypeOK, Asks, Tools, PendingIsAsked, Delivery
      <4>3. Id(w) \in 0 .. Calls
        BY <4>2, IdTypes
      <4>4. [type |-> "resolve", id |-> Id(w), allow |-> ok, fits |-> fits, for |-> w] \in Lines
        BY <4>1, <4>2, <4>3 DEF Lines
      <4> QED
        BY <4>1, <4>2, <4>4 DEF Send, Faithful
    <3>b. Faithful(line)
      BY <3>a
    <3>1. TypeOK'
      <4>1. /\ loop' \in {"calling", "asking", "grading", "delivering", "done"}
            /\ call' \in 1 .. Calls + 1 /\ aborted' \subseteq Limited
            /\ shown' \in Asks \union {None} /\ approvals' \subseteq Asks
        BY <2>1 DEF SendResolve, Send, Announced, TypeOK, Tools, Asks, Served
      <4>2. /\ artifact' \in BOOLEAN /\ closed' \in BOOLEAN /\ ended' \in BOOLEAN
            /\ sent' \in 0 .. MaxLines
            /\ reason' \in {"input_eof", "user_exit", "runtime_complete"}
        BY <2>1 DEF SendResolve, Send, Announced, TypeOK
      <4>3. stamp' \in [Tools -> 0 .. Calls]
        BY <2>1 DEF SendResolve, Send, Announced, TypeOK, AskedOnce, Tools
      <4>4. ran' \in [Tools -> Results \union {None}]
        BY <2>1 DEF SendResolve, Send, Announced, TypeOK, Results, Asks, Tools
      <4>5. answer' \in [Asks -> Results \union {None}] /\ outcome' \in Results \union {None}
        BY <2>1, HeadAndTail, LineTypes, InterruptedFacts, ResultTypes DEF SendResolve, Send, Announced, TypeOK, Asks
      <4>6. pipe' \in Seq(Lines)
        BY <3>a, OneMore DEF TypeOK
      <4> QED
        BY <4>1, <4>2, <4>3, <4>4, <4>5, <4>6 DEF TypeOK
    <3>2. AskedOnce'
      BY <2>1, HeadAndTail, LineTypes, InterruptedFacts DEF SendResolve, Send, Announced, AskedOnce, TypeOK, Tools
    <3>3. PendingIsAsked'
      BY <2>1, HeadAndTail, LineTypes, InterruptedFacts DEF SendResolve, Send, Announced, PendingIsAsked, AskedOnce, TypeOK, Tools, Asks
    <3>4. LinesAreFaithful'
      BY <3>a, <3>b, OneMore DEF LinesAreFaithful, Faithful, Id, TypeOK
    <3>5. VerdictIsExplicit'
      BY <2>1, HeadAndTail, LineTypes, InterruptedFacts DEF SendResolve, Send, Announced, VerdictIsExplicit, Explicit, PendingIsAsked, Result, TypeOK, Asks
    <3>6. ClosedLeavesNobody'
      BY <2>1, HeadAndTail, LineTypes, InterruptedFacts DEF SendResolve, Send, Announced, ClosedLeavesNobody, TypeOK
    <3> QED
      BY <3>1, <3>2, <3>3, <3>4, <3>5, <3>6
  <2>2. ASSUME SendBare PROVE Inv'
    <3>a. PICK line \in Lines : pipe' = Append(pipe, line) /\ UNCHANGED stamp /\ Faithful(line)
      <4>1. PICK ok \in BOOLEAN : Send([type |-> "bare", allow |-> ok, for |-> shown])
        BY <2>2 DEF SendBare
      <4>2. [type |-> "bare", allow |-> ok, for |-> shown] \in Lines
        BY <2>2, <4>1 DEF SendBare, TypeOK, Lines
      <4> QED
        BY <4>1, <4>2 DEF Send, Faithful
    <3>b. Faithful(line)
      BY <3>a
    <3>1. TypeOK'
      <4>1. /\ loop' \in {"calling", "asking", "grading", "delivering", "done"}
            /\ call' \in 1 .. Calls + 1 /\ aborted' \subseteq Limited
            /\ shown' \in Asks \union {None} /\ approvals' \subseteq Asks
        BY <2>2 DEF SendBare, Send, TypeOK, Tools, Asks, Served
      <4>2. /\ artifact' \in BOOLEAN /\ closed' \in BOOLEAN /\ ended' \in BOOLEAN
            /\ sent' \in 0 .. MaxLines
            /\ reason' \in {"input_eof", "user_exit", "runtime_complete"}
        BY <2>2 DEF SendBare, Send, TypeOK
      <4>3. stamp' \in [Tools -> 0 .. Calls]
        BY <2>2 DEF SendBare, Send, TypeOK, AskedOnce, Tools
      <4>4. ran' \in [Tools -> Results \union {None}]
        BY <2>2 DEF SendBare, Send, TypeOK, Results, Asks, Tools
      <4>5. answer' \in [Asks -> Results \union {None}] /\ outcome' \in Results \union {None}
        BY <2>2, HeadAndTail, LineTypes, InterruptedFacts, ResultTypes DEF SendBare, Send, TypeOK, Asks
      <4>6. pipe' \in Seq(Lines)
        BY <3>a, OneMore DEF TypeOK
      <4> QED
        BY <4>1, <4>2, <4>3, <4>4, <4>5, <4>6 DEF TypeOK
    <3>2. AskedOnce'
      BY <2>2, HeadAndTail, LineTypes, InterruptedFacts DEF SendBare, Send, AskedOnce, TypeOK, Tools
    <3>3. PendingIsAsked'
      BY <2>2, HeadAndTail, LineTypes, InterruptedFacts DEF SendBare, Send, PendingIsAsked, AskedOnce, TypeOK, Tools, Asks
    <3>4. LinesAreFaithful'
      BY <3>a, <3>b, OneMore DEF LinesAreFaithful, Faithful, Id, TypeOK
    <3>5. VerdictIsExplicit'
      BY <2>2, HeadAndTail, LineTypes, InterruptedFacts DEF SendBare, Send, VerdictIsExplicit, Explicit, PendingIsAsked, Result, TypeOK, Asks
    <3>6. ClosedLeavesNobody'
      BY <2>2, HeadAndTail, LineTypes, InterruptedFacts DEF SendBare, Send, ClosedLeavesNobody, TypeOK
    <3> QED
      BY <3>1, <3>2, <3>3, <3>4, <3>5, <3>6
  <2>3. ASSUME SendDelete PROVE Inv'
    <3>a. PICK line \in Lines : pipe' = Append(pipe, line) /\ UNCHANGED stamp /\ Faithful(line)
      <4>1. [type |-> "delete"] \in Lines
        BY DEF Lines
      <4> QED
        BY <2>3, <4>1 DEF SendDelete, Send, Faithful
    <3>b. Faithful(line)
      BY <3>a
    <3>1. TypeOK'
      <4>1. /\ loop' \in {"calling", "asking", "grading", "delivering", "done"}
            /\ call' \in 1 .. Calls + 1 /\ aborted' \subseteq Limited
            /\ shown' \in Asks \union {None} /\ approvals' \subseteq Asks
        BY <2>3 DEF SendDelete, Send, TypeOK, Tools, Asks, Served
      <4>2. /\ artifact' \in BOOLEAN /\ closed' \in BOOLEAN /\ ended' \in BOOLEAN
            /\ sent' \in 0 .. MaxLines
            /\ reason' \in {"input_eof", "user_exit", "runtime_complete"}
        BY <2>3 DEF SendDelete, Send, TypeOK
      <4>3. stamp' \in [Tools -> 0 .. Calls]
        BY <2>3 DEF SendDelete, Send, TypeOK, AskedOnce, Tools
      <4>4. ran' \in [Tools -> Results \union {None}]
        BY <2>3 DEF SendDelete, Send, TypeOK, Results, Asks, Tools
      <4>5. answer' \in [Asks -> Results \union {None}] /\ outcome' \in Results \union {None}
        BY <2>3, HeadAndTail, LineTypes, InterruptedFacts, ResultTypes DEF SendDelete, Send, TypeOK, Asks
      <4>6. pipe' \in Seq(Lines)
        BY <3>a, OneMore DEF TypeOK
      <4> QED
        BY <4>1, <4>2, <4>3, <4>4, <4>5, <4>6 DEF TypeOK
    <3>2. AskedOnce'
      BY <2>3, HeadAndTail, LineTypes, InterruptedFacts DEF SendDelete, Send, AskedOnce, TypeOK, Tools
    <3>3. PendingIsAsked'
      BY <2>3, HeadAndTail, LineTypes, InterruptedFacts DEF SendDelete, Send, PendingIsAsked, AskedOnce, TypeOK, Tools, Asks
    <3>4. LinesAreFaithful'
      BY <3>a, <3>b, OneMore DEF LinesAreFaithful, Faithful, Id, TypeOK
    <3>5. VerdictIsExplicit'
      BY <2>3, HeadAndTail, LineTypes, InterruptedFacts DEF SendDelete, Send, VerdictIsExplicit, Explicit, PendingIsAsked, Result, TypeOK, Asks
    <3>6. ClosedLeavesNobody'
      BY <2>3, HeadAndTail, LineTypes, InterruptedFacts DEF SendDelete, Send, ClosedLeavesNobody, TypeOK
    <3> QED
      BY <3>1, <3>2, <3>3, <3>4, <3>5, <3>6
  <2>4. ASSUME SendExit PROVE Inv'
    <3>a. PICK line \in Lines : pipe' = Append(pipe, line) /\ UNCHANGED stamp /\ Faithful(line)
      <4>1. [type |-> "exit"] \in Lines
        BY DEF Lines
      <4> QED
        BY <2>4, <4>1 DEF SendExit, Send, Faithful
    <3>b. Faithful(line)
      BY <3>a
    <3>1. TypeOK'
      <4>1. /\ loop' \in {"calling", "asking", "grading", "delivering", "done"}
            /\ call' \in 1 .. Calls + 1 /\ aborted' \subseteq Limited
            /\ shown' \in Asks \union {None} /\ approvals' \subseteq Asks
        BY <2>4 DEF SendExit, Send, TypeOK, Tools, Asks, Served
      <4>2. /\ artifact' \in BOOLEAN /\ closed' \in BOOLEAN /\ ended' \in BOOLEAN
            /\ sent' \in 0 .. MaxLines
            /\ reason' \in {"input_eof", "user_exit", "runtime_complete"}
        BY <2>4 DEF SendExit, Send, TypeOK
      <4>3. stamp' \in [Tools -> 0 .. Calls]
        BY <2>4 DEF SendExit, Send, TypeOK, AskedOnce, Tools
      <4>4. ran' \in [Tools -> Results \union {None}]
        BY <2>4 DEF SendExit, Send, TypeOK, Results, Asks, Tools
      <4>5. answer' \in [Asks -> Results \union {None}] /\ outcome' \in Results \union {None}
        BY <2>4, HeadAndTail, LineTypes, InterruptedFacts, ResultTypes DEF SendExit, Send, TypeOK, Asks
      <4>6. pipe' \in Seq(Lines)
        BY <3>a, OneMore DEF TypeOK
      <4> QED
        BY <4>1, <4>2, <4>3, <4>4, <4>5, <4>6 DEF TypeOK
    <3>2. AskedOnce'
      BY <2>4, HeadAndTail, LineTypes, InterruptedFacts DEF SendExit, Send, AskedOnce, TypeOK, Tools
    <3>3. PendingIsAsked'
      BY <2>4, HeadAndTail, LineTypes, InterruptedFacts DEF SendExit, Send, PendingIsAsked, AskedOnce, TypeOK, Tools, Asks
    <3>4. LinesAreFaithful'
      BY <3>a, <3>b, OneMore DEF LinesAreFaithful, Faithful, Id, TypeOK
    <3>5. VerdictIsExplicit'
      BY <2>4, HeadAndTail, LineTypes, InterruptedFacts DEF SendExit, Send, VerdictIsExplicit, Explicit, PendingIsAsked, Result, TypeOK, Asks
    <3>6. ClosedLeavesNobody'
      BY <2>4, HeadAndTail, LineTypes, InterruptedFacts DEF SendExit, Send, ClosedLeavesNobody, TypeOK
    <3> QED
      BY <3>1, <3>2, <3>3, <3>4, <3>5, <3>6
  <2>5. ASSUME End PROVE Inv'
    <3>1. TypeOK'
      <4>1. /\ loop' \in {"calling", "asking", "grading", "delivering", "done"}
            /\ call' \in 1 .. Calls + 1 /\ aborted' \subseteq Limited
            /\ shown' \in Asks \union {None} /\ approvals' \subseteq Asks
        BY <2>5 DEF End, TypeOK, Tools, Asks, Served
      <4>2. /\ artifact' \in BOOLEAN /\ closed' \in BOOLEAN /\ ended' \in BOOLEAN
            /\ sent' \in 0 .. MaxLines
            /\ reason' \in {"input_eof", "user_exit", "runtime_complete"}
        BY <2>5 DEF End, TypeOK
      <4>3. stamp' \in [Tools -> 0 .. Calls]
        BY <2>5 DEF End, TypeOK, AskedOnce, Tools
      <4>4. ran' \in [Tools -> Results \union {None}]
        BY <2>5 DEF End, TypeOK, Results, Asks, Tools
      <4>5. answer' \in [Asks -> Results \union {None}] /\ outcome' \in Results \union {None}
        BY <2>5, HeadAndTail, LineTypes, InterruptedFacts, ResultTypes DEF End, TypeOK, Asks
      <4>6. pipe' \in Seq(Lines)
        BY <2>5, HeadAndTail DEF End, TypeOK
      <4> QED
        BY <4>1, <4>2, <4>3, <4>4, <4>5, <4>6 DEF TypeOK
    <3>2. AskedOnce'
      BY <2>5, HeadAndTail, LineTypes, InterruptedFacts DEF End, AskedOnce, TypeOK, Tools
    <3>3. PendingIsAsked'
      BY <2>5, HeadAndTail, LineTypes, InterruptedFacts DEF End, PendingIsAsked, AskedOnce, TypeOK, Tools, Asks
    <3>4. LinesAreFaithful'
      BY <2>5, HeadAndTail, LineTypes, InterruptedFacts DEF End, LinesAreFaithful, Faithful, Id, TypeOK, AskedOnce, PendingIsAsked
    <3>5. VerdictIsExplicit'
      BY <2>5, HeadAndTail, LineTypes, InterruptedFacts DEF End, VerdictIsExplicit, Explicit, PendingIsAsked, Result, TypeOK, Asks
    <3>6. ClosedLeavesNobody'
      BY <2>5, HeadAndTail, LineTypes, InterruptedFacts DEF End, ClosedLeavesNobody, TypeOK
    <3> QED
      BY <3>1, <3>2, <3>3, <3>4, <3>5, <3>6
  <2>6. ASSUME ReadExit PROVE Inv'
    <3>1. TypeOK'
      <4>1. /\ loop' \in {"calling", "asking", "grading", "delivering", "done"}
            /\ call' \in 1 .. Calls + 1 /\ aborted' \subseteq Limited
            /\ shown' \in Asks \union {None} /\ approvals' \subseteq Asks
        BY <2>6 DEF ReadExit, Read, Close, Settle, TypeOK, Tools, Asks, Served
      <4>2. /\ artifact' \in BOOLEAN /\ closed' \in BOOLEAN /\ ended' \in BOOLEAN
            /\ sent' \in 0 .. MaxLines
            /\ reason' \in {"input_eof", "user_exit", "runtime_complete"}
        BY <2>6 DEF ReadExit, Read, Close, Settle, TypeOK
      <4>3. stamp' \in [Tools -> 0 .. Calls]
        BY <2>6 DEF ReadExit, Read, Close, Settle, TypeOK, AskedOnce, Tools
      <4>4. ran' \in [Tools -> Results \union {None}]
        BY <2>6 DEF ReadExit, Read, Close, Settle, TypeOK, Results, Asks, Tools
      <4>5. answer' \in [Asks -> Results \union {None}] /\ outcome' \in Results \union {None}
        BY <2>6, HeadAndTail, LineTypes, InterruptedFacts, ResultTypes DEF ReadExit, Read, Close, Settle, TypeOK, Asks
      <4>6. pipe' \in Seq(Lines)
        BY <2>6, HeadAndTail DEF ReadExit, Read, Close, Settle, TypeOK
      <4> QED
        BY <4>1, <4>2, <4>3, <4>4, <4>5, <4>6 DEF TypeOK
    <3>2. AskedOnce'
      BY <2>6, HeadAndTail, LineTypes, InterruptedFacts DEF ReadExit, Read, Close, Settle, AskedOnce, TypeOK, Tools
    <3>3. PendingIsAsked'
      BY <2>6, HeadAndTail, LineTypes, InterruptedFacts DEF ReadExit, Read, Close, Settle, PendingIsAsked, AskedOnce, TypeOK, Tools, Asks
    <3>4. LinesAreFaithful'
      BY <2>6, HeadAndTail, LineTypes, InterruptedFacts DEF ReadExit, Read, Close, Settle, LinesAreFaithful, Faithful, Id, TypeOK, AskedOnce, PendingIsAsked
    <3>5. VerdictIsExplicit'
      BY <2>6, HeadAndTail, LineTypes, InterruptedFacts DEF ReadExit, Read, Close, Settle, VerdictIsExplicit, Explicit, PendingIsAsked, Result, TypeOK, Asks
    <3>6. ClosedLeavesNobody'
      BY <2>6, HeadAndTail, LineTypes, InterruptedFacts DEF ReadExit, Read, Close, Settle, ClosedLeavesNobody, TypeOK
    <3> QED
      BY <3>1, <3>2, <3>3, <3>4, <3>5, <3>6
  <2>7. ASSUME ReadEnd PROVE Inv'
    <3>1. TypeOK'
      <4>1. /\ loop' \in {"calling", "asking", "grading", "delivering", "done"}
            /\ call' \in 1 .. Calls + 1 /\ aborted' \subseteq Limited
            /\ shown' \in Asks \union {None} /\ approvals' \subseteq Asks
        BY <2>7 DEF ReadEnd, Close, Settle, TypeOK, Tools, Asks, Served
      <4>2. /\ artifact' \in BOOLEAN /\ closed' \in BOOLEAN /\ ended' \in BOOLEAN
            /\ sent' \in 0 .. MaxLines
            /\ reason' \in {"input_eof", "user_exit", "runtime_complete"}
        BY <2>7 DEF ReadEnd, Close, Settle, TypeOK
      <4>3. stamp' \in [Tools -> 0 .. Calls]
        BY <2>7 DEF ReadEnd, Close, Settle, TypeOK, AskedOnce, Tools
      <4>4. ran' \in [Tools -> Results \union {None}]
        BY <2>7 DEF ReadEnd, Close, Settle, TypeOK, Results, Asks, Tools
      <4>5. answer' \in [Asks -> Results \union {None}] /\ outcome' \in Results \union {None}
        BY <2>7, HeadAndTail, LineTypes, InterruptedFacts, ResultTypes DEF ReadEnd, Close, Settle, TypeOK, Asks
      <4>6. pipe' \in Seq(Lines)
        BY <2>7, HeadAndTail DEF ReadEnd, Close, Settle, TypeOK
      <4> QED
        BY <4>1, <4>2, <4>3, <4>4, <4>5, <4>6 DEF TypeOK
    <3>2. AskedOnce'
      BY <2>7, HeadAndTail, LineTypes, InterruptedFacts DEF ReadEnd, Close, Settle, AskedOnce, TypeOK, Tools
    <3>3. PendingIsAsked'
      BY <2>7, HeadAndTail, LineTypes, InterruptedFacts DEF ReadEnd, Close, Settle, PendingIsAsked, AskedOnce, TypeOK, Tools, Asks
    <3>4. LinesAreFaithful'
      BY <2>7, HeadAndTail, LineTypes, InterruptedFacts DEF ReadEnd, Close, Settle, LinesAreFaithful, Faithful, Id, TypeOK, AskedOnce, PendingIsAsked
    <3>5. VerdictIsExplicit'
      BY <2>7, HeadAndTail, LineTypes, InterruptedFacts DEF ReadEnd, Close, Settle, VerdictIsExplicit, Explicit, PendingIsAsked, Result, TypeOK, Asks
    <3>6. ClosedLeavesNobody'
      BY <2>7, HeadAndTail, LineTypes, InterruptedFacts DEF ReadEnd, Close, Settle, ClosedLeavesNobody, TypeOK
    <3> QED
      BY <3>1, <3>2, <3>3, <3>4, <3>5, <3>6
  <2>8. ASSUME ReadBare PROVE Inv'
    <3>1. TypeOK'
      <4>1. /\ loop' \in {"calling", "asking", "grading", "delivering", "done"}
            /\ call' \in 1 .. Calls + 1 /\ aborted' \subseteq Limited
            /\ shown' \in Asks \union {None} /\ approvals' \subseteq Asks
        BY <2>8 DEF ReadBare, Read, Settle, Heard, TypeOK, Tools, Asks, Served
      <4>2. /\ artifact' \in BOOLEAN /\ closed' \in BOOLEAN /\ ended' \in BOOLEAN
            /\ sent' \in 0 .. MaxLines
            /\ reason' \in {"input_eof", "user_exit", "runtime_complete"}
        BY <2>8 DEF ReadBare, Read, Settle, Heard, TypeOK
      <4>3. stamp' \in [Tools -> 0 .. Calls]
        BY <2>8 DEF ReadBare, Read, Settle, Heard, TypeOK, AskedOnce, Tools
      <4>4. ran' \in [Tools -> Results \union {None}]
        BY <2>8 DEF ReadBare, Read, Settle, Heard, TypeOK, Results, Asks, Tools
      <4>5. answer' \in [Asks -> Results \union {None}] /\ outcome' \in Results \union {None}
        BY <2>8, HeadAndTail, LineTypes, InterruptedFacts, ResultTypes DEF ReadBare, Read, Settle, Heard, TypeOK, Asks
      <4>6. pipe' \in Seq(Lines)
        BY <2>8, HeadAndTail DEF ReadBare, Read, Settle, Heard, TypeOK
      <4> QED
        BY <4>1, <4>2, <4>3, <4>4, <4>5, <4>6 DEF TypeOK
    <3>2. AskedOnce'
      BY <2>8, HeadAndTail, LineTypes, InterruptedFacts DEF ReadBare, Read, Settle, Heard, AskedOnce, TypeOK, Tools
    <3>3. PendingIsAsked'
      BY <2>8, HeadAndTail, LineTypes, InterruptedFacts DEF ReadBare, Read, Settle, Heard, PendingIsAsked, AskedOnce, TypeOK, Tools, Asks
    <3>4. LinesAreFaithful'
      BY <2>8, HeadAndTail, LineTypes, InterruptedFacts DEF ReadBare, Read, Settle, Heard, LinesAreFaithful, Faithful, Id, TypeOK, AskedOnce, PendingIsAsked
    <3>5. VerdictIsExplicit'
      BY <2>8, HeadAndTail, LineTypes, InterruptedFacts DEF ReadBare, Read, Settle, Heard, VerdictIsExplicit, Explicit, PendingIsAsked, Result, TypeOK, Asks
    <3>6. ClosedLeavesNobody'
      BY <2>8, HeadAndTail, LineTypes, InterruptedFacts DEF ReadBare, Read, Settle, Heard, ClosedLeavesNobody, TypeOK
    <3> QED
      BY <3>1, <3>2, <3>3, <3>4, <3>5, <3>6
  <2>9. ASSUME ReadResolve PROVE Inv'
    <3>1. TypeOK'
      <4>1. /\ loop' \in {"calling", "asking", "grading", "delivering", "done"}
            /\ call' \in 1 .. Calls + 1 /\ aborted' \subseteq Limited
            /\ shown' \in Asks \union {None} /\ approvals' \subseteq Asks
        BY <2>9 DEF ReadResolve, Read, Settle, Named, TypeOK, Tools, Asks, Served
      <4>2. /\ artifact' \in BOOLEAN /\ closed' \in BOOLEAN /\ ended' \in BOOLEAN
            /\ sent' \in 0 .. MaxLines
            /\ reason' \in {"input_eof", "user_exit", "runtime_complete"}
        BY <2>9 DEF ReadResolve, Read, Settle, Named, TypeOK
      <4>3. stamp' \in [Tools -> 0 .. Calls]
        BY <2>9 DEF ReadResolve, Read, Settle, Named, TypeOK, AskedOnce, Tools
      <4>4. ran' \in [Tools -> Results \union {None}]
        BY <2>9 DEF ReadResolve, Read, Settle, Named, TypeOK, Results, Asks, Tools
      <4>5. answer' \in [Asks -> Results \union {None}] /\ outcome' \in Results \union {None}
        BY <2>9, HeadAndTail, LineTypes, InterruptedFacts, ResultTypes DEF ReadResolve, Read, Settle, Named, TypeOK, Asks
      <4>6. pipe' \in Seq(Lines)
        BY <2>9, HeadAndTail DEF ReadResolve, Read, Settle, Named, TypeOK
      <4> QED
        BY <4>1, <4>2, <4>3, <4>4, <4>5, <4>6 DEF TypeOK
    <3>2. AskedOnce'
      BY <2>9, HeadAndTail, LineTypes, InterruptedFacts DEF ReadResolve, Read, Settle, Named, AskedOnce, TypeOK, Tools
    <3>3. PendingIsAsked'
      BY <2>9, HeadAndTail, LineTypes, InterruptedFacts DEF ReadResolve, Read, Settle, Named, PendingIsAsked, AskedOnce, TypeOK, Tools, Asks
    <3>4. LinesAreFaithful'
      BY <2>9, HeadAndTail, LineTypes, InterruptedFacts DEF ReadResolve, Read, Settle, Named, LinesAreFaithful, Faithful, Id, TypeOK, AskedOnce, PendingIsAsked
    <3>5. VerdictIsExplicit'
      <4> DEFINE line == Head(pipe)
      <4>1. line \in Lines /\ line.type = "resolve" /\ Faithful(line)
        BY <2>9, HeadAndTail DEF ReadResolve, Read, LinesAreFaithful, TypeOK
      <4>2. CASE Delivery \in Named(line)
        <5>1. line.id = 0 /\ line.for \in Asks
          BY <4>1, <4>2, LineTypes DEF Named, Id
        <5>2. line.for = Delivery
          BY <4>1, <5>1 DEF Faithful, Id, Asks, Delivery, Tools, TypeOK
        <5>3. artifact
          BY <4>2 DEF Named, PendingIsAsked
        <5>4. Explicit(Result(line.allow, "resolve", line.for))
          BY <5>2, <5>3 DEF Explicit, Result
        <5>5. answer'[Delivery] = Result(line.allow, "resolve", line.for)
          BY <2>9, <4>2 DEF ReadResolve, Settle, Asks
        <5> QED
          BY <2>9, <5>4, <5>5 DEF ReadResolve, Read, VerdictIsExplicit, Explicit
      <4>3. CASE Delivery \notin Named(line)
        <5>1. answer'[Delivery] = answer[Delivery]
          BY <2>9, <4>3 DEF ReadResolve, Settle, Asks
        <5> QED
          BY <2>9, <5>1 DEF ReadResolve, Read, VerdictIsExplicit, Explicit
      <4> QED
        BY <4>2, <4>3
    <3>6. ClosedLeavesNobody'
      BY <2>9, HeadAndTail, LineTypes, InterruptedFacts DEF ReadResolve, Read, Settle, Named, ClosedLeavesNobody, TypeOK
    <3> QED
      BY <3>1, <3>2, <3>3, <3>4, <3>5, <3>6
  <2>10. ASSUME ReadDelete PROVE Inv'
    <3>a. \/ /\ artifact' = FALSE /\ approvals' = approvals \ {Delivery}
             /\ answer' = [w \in Asks |-> IF w \in approvals \intersect {Delivery}
                                          THEN Result(FALSE, "delete", Delivery) ELSE answer[w]]
          \/ UNCHANGED <<artifact, approvals, answer>>
      BY <2>10 DEF ReadDelete, Settle
    <3>b. UNCHANGED agent
      BY <2>10 DEF ReadDelete, Read
    <3>c. Result(FALSE, "delete", Delivery) \in Results
      BY ResultTypes DEF TypeOK, Asks
    <3>1. TypeOK'
      <4>1. /\ loop' \in {"calling", "asking", "grading", "delivering", "done"}
            /\ call' \in 1 .. Calls + 1 /\ aborted' \subseteq Limited
            /\ shown' \in Asks \union {None} /\ approvals' \subseteq Asks
        BY <2>10 DEF ReadDelete, Read, Settle, TypeOK, Tools, Asks, Served
      <4>2. /\ artifact' \in BOOLEAN /\ closed' \in BOOLEAN /\ ended' \in BOOLEAN
            /\ sent' \in 0 .. MaxLines
            /\ reason' \in {"input_eof", "user_exit", "runtime_complete"}
        BY <2>10 DEF ReadDelete, Read, Settle, TypeOK
      <4>3. stamp' \in [Tools -> 0 .. Calls]
        BY <2>10 DEF ReadDelete, Read, Settle, TypeOK, AskedOnce, Tools
      <4>4. ran' \in [Tools -> Results \union {None}]
        BY <2>10 DEF ReadDelete, Read, Settle, TypeOK, Results, Asks, Tools
      <4>5. answer' \in [Asks -> Results \union {None}] /\ outcome' \in Results \union {None}
        <5>1. CASE artifact' = FALSE
          <6>1. answer' = [w \in Asks |-> IF w \in approvals \intersect {Delivery}
                                          THEN Result(FALSE, "delete", Delivery) ELSE answer[w]]
                \/ answer' = answer
            BY <3>a
          <6>2. outcome' = outcome
            BY <3>b
          <6> QED
            BY <6>1, <6>2, <3>c, ZenonT(30) DEF TypeOK
        <5>2. CASE artifact' # FALSE
          BY <3>a, <3>b, <5>2 DEF TypeOK
        <5> QED
          BY <5>1, <5>2
      <4>6. pipe' \in Seq(Lines)
        BY <2>10, HeadAndTail DEF ReadDelete, Read, Settle, TypeOK
      <4> QED
        BY <4>1, <4>2, <4>3, <4>4, <4>5, <4>6 DEF TypeOK
    <3>2. AskedOnce'
      BY <2>10, HeadAndTail, LineTypes, InterruptedFacts DEF ReadDelete, Read, Settle, AskedOnce, TypeOK, Tools
    <3>3. PendingIsAsked'
      BY <3>a, <3>b DEF PendingIsAsked, Tools, Delivery
    <3>4. LinesAreFaithful'
      BY <2>10, HeadAndTail, LineTypes, InterruptedFacts DEF ReadDelete, Read, Settle, LinesAreFaithful, Faithful, Id, TypeOK, AskedOnce, PendingIsAsked
    <3>5. VerdictIsExplicit'
      BY <2>10, HeadAndTail, LineTypes, InterruptedFacts DEF ReadDelete, Read, Settle, VerdictIsExplicit, Explicit, PendingIsAsked, Result, TypeOK, Asks
    <3>6. ClosedLeavesNobody'
      BY <2>10, HeadAndTail, LineTypes, InterruptedFacts DEF ReadDelete, Read, Settle, ClosedLeavesNobody, TypeOK
    <3> QED
      BY <3>1, <3>2, <3>3, <3>4, <3>5, <3>6
  <2>11. ASSUME Ask PROVE Inv'
    <3>a. PICK id \in {Latest, Latest + 1} :
            id > 0 /\ id <= call /\ stamp' = [stamp EXCEPT ![call] = id] /\ Wait(call, id)
      <4>1. Latest \in 0 .. call - 1 /\ (call # 1 => Latest > 0)
        BY <2>11 DEF Ask, Latest, AskedOnce, TypeOK, Tools
      <4>2. call \in Tools
        BY <2>11 DEF Ask
      <4>3. PICK id \in (IF call = 1 THEN {1} ELSE {Latest, Latest + 1}) :
              stamp' = [stamp EXCEPT ![call] = id] /\ Wait(call, id)
        BY <2>11 DEF Ask
      <4>4. id > 0 /\ id <= call
        BY <4>1, <4>2, <4>3 DEF Tools
      <4>5. id \in {Latest, Latest + 1}
        BY <4>1, <4>3 DEF Latest
      <4> QED
        BY <4>3, <4>4, <4>5
    <3>b. /\ call \in Tools /\ loop = "calling" /\ loop' = "asking" /\ shown' = call
          /\ UNCHANGED <<call, aborted, ran, outcome, artifact, closed, reason, client>>
      BY <2>11 DEF Ask
    <3>c. \/ approvals' = approvals /\ answer' = [answer EXCEPT ![call] = Interrupted]
          \/ answer' = answer /\ approvals' = approvals \union {call} /\ ~closed
      BY <3>a DEF Wait
    <3>d. Interrupted \in Results /\ call \in Asks
      BY <3>b, InterruptedFacts DEF TypeOK, Asks
    <3>1. TypeOK'
      <4>1. /\ loop' \in {"calling", "asking", "grading", "delivering", "done"}
            /\ call' \in 1 .. Calls + 1 /\ aborted' \subseteq Limited
            /\ shown' \in Asks \union {None} /\ approvals' \subseteq Asks
        BY <3>b, <3>c DEF TypeOK, Tools, Asks
      <4>2. /\ artifact' \in BOOLEAN /\ closed' \in BOOLEAN /\ ended' \in BOOLEAN
            /\ sent' \in 0 .. MaxLines
            /\ reason' \in {"input_eof", "user_exit", "runtime_complete"}
        BY <2>11 DEF Ask, Wait, Latest, TypeOK
      <4>3. stamp' \in [Tools -> 0 .. Calls]
        BY <2>11 DEF Ask, Wait, Latest, TypeOK, AskedOnce, Tools
      <4>4. ran' \in [Tools -> Results \union {None}]
        BY <2>11 DEF Ask, Wait, Latest, TypeOK, Results, Asks, Tools
      <4>5. answer' \in [Asks -> Results \union {None}] /\ outcome' \in Results \union {None}
        BY <3>b, <3>c, <3>d DEF TypeOK
      <4>6. pipe' \in Seq(Lines)
        BY <2>11, HeadAndTail DEF Ask, Wait, Latest, TypeOK
      <4> QED
        BY <4>1, <4>2, <4>3, <4>4, <4>5, <4>6 DEF TypeOK
    <3>2. AskedOnce'
      BY <3>a, <3>b DEF AskedOnce, TypeOK, Tools
    <3>3. PendingIsAsked'
      BY <3>a, <3>b, <3>c DEF PendingIsAsked, TypeOK, Tools, Delivery
    <3>4. LinesAreFaithful'
      BY <2>11, HeadAndTail, LineTypes, InterruptedFacts DEF Ask, Wait, Latest, LinesAreFaithful, Faithful, Id, TypeOK, AskedOnce, PendingIsAsked
    <3>5. VerdictIsExplicit'
      BY <3>b, <3>c DEF VerdictIsExplicit, Explicit, TypeOK, Tools, Asks, Delivery
    <3>6. ClosedLeavesNobody'
      BY <2>11, HeadAndTail, LineTypes, InterruptedFacts DEF Ask, Wait, Latest, ClosedLeavesNobody, TypeOK
    <3> QED
      BY <3>1, <3>2, <3>3, <3>4, <3>5, <3>6
  <2>12. ASSUME NEW w \in Tools, Resume(w) PROVE Inv'
    <3>1. TypeOK'
      <4>1. /\ loop' \in {"calling", "asking", "grading", "delivering", "done"}
            /\ call' \in 1 .. Calls + 1 /\ aborted' \subseteq Limited
            /\ shown' \in Asks \union {None} /\ approvals' \subseteq Asks
        BY <2>12 DEF Resume, Proceed, TypeOK, Tools, Asks, Served
      <4>2. /\ artifact' \in BOOLEAN /\ closed' \in BOOLEAN /\ ended' \in BOOLEAN
            /\ sent' \in 0 .. MaxLines
            /\ reason' \in {"input_eof", "user_exit", "runtime_complete"}
        BY <2>12 DEF Resume, Proceed, TypeOK
      <4>3. stamp' \in [Tools -> 0 .. Calls]
        BY <2>12 DEF Resume, Proceed, TypeOK, AskedOnce, Tools
      <4>4. ran' \in [Tools -> Results \union {None}]
        BY <2>12 DEF Resume, Proceed, TypeOK, Results, Asks, Tools
      <4>5. answer' \in [Asks -> Results \union {None}] /\ outcome' \in Results \union {None}
        BY <2>12, HeadAndTail, LineTypes, InterruptedFacts, ResultTypes DEF Resume, Proceed, TypeOK, Asks
      <4>6. pipe' \in Seq(Lines)
        BY <2>12, HeadAndTail DEF Resume, Proceed, TypeOK
      <4> QED
        BY <4>1, <4>2, <4>3, <4>4, <4>5, <4>6 DEF TypeOK
    <3>2. AskedOnce'
      <4>1. CASE loop = "asking" /\ call = w
        BY <2>12, <4>1 DEF Resume, Proceed, AskedOnce, TypeOK, Tools
      <4>2. CASE ~(loop = "asking" /\ call = w)
        BY <2>12, <4>2 DEF Resume, AskedOnce
      <4> QED
        BY <4>1, <4>2
    <3>3. PendingIsAsked'
      BY <2>12, HeadAndTail, LineTypes, InterruptedFacts DEF Resume, Proceed, PendingIsAsked, AskedOnce, TypeOK, Tools, Asks
    <3>4. LinesAreFaithful'
      BY <2>12, HeadAndTail, LineTypes, InterruptedFacts DEF Resume, Proceed, LinesAreFaithful, Faithful, Id, TypeOK, AskedOnce, PendingIsAsked
    <3>5. VerdictIsExplicit'
      BY <2>12, HeadAndTail, LineTypes, InterruptedFacts DEF Resume, Proceed, VerdictIsExplicit, Explicit, PendingIsAsked, Result, TypeOK, Asks
    <3>6. ClosedLeavesNobody'
      BY <2>12, HeadAndTail, LineTypes, InterruptedFacts DEF Resume, Proceed, ClosedLeavesNobody, TypeOK
    <3> QED
      BY <3>1, <3>2, <3>3, <3>4, <3>5, <3>6
  <2>13. ASSUME GiveUp PROVE Inv'
    <3>1. TypeOK'
      <4>1. /\ loop' \in {"calling", "asking", "grading", "delivering", "done"}
            /\ call' \in 1 .. Calls + 1 /\ aborted' \subseteq Limited
            /\ shown' \in Asks \union {None} /\ approvals' \subseteq Asks
        BY <2>13 DEF GiveUp, Proceed, TypeOK, Tools, Asks, Served
      <4>2. /\ artifact' \in BOOLEAN /\ closed' \in BOOLEAN /\ ended' \in BOOLEAN
            /\ sent' \in 0 .. MaxLines
            /\ reason' \in {"input_eof", "user_exit", "runtime_complete"}
        BY <2>13 DEF GiveUp, Proceed, TypeOK
      <4>3. stamp' \in [Tools -> 0 .. Calls]
        BY <2>13 DEF GiveUp, Proceed, TypeOK, AskedOnce, Tools
      <4>4. ran' \in [Tools -> Results \union {None}]
        BY <2>13 DEF GiveUp, Proceed, TypeOK, Results, Asks, Tools
      <4>5. answer' \in [Asks -> Results \union {None}] /\ outcome' \in Results \union {None}
        BY <2>13, HeadAndTail, LineTypes, InterruptedFacts, ResultTypes DEF GiveUp, Proceed, TypeOK, Asks
      <4>6. pipe' \in Seq(Lines)
        BY <2>13, HeadAndTail DEF GiveUp, Proceed, TypeOK
      <4> QED
        BY <4>1, <4>2, <4>3, <4>4, <4>5, <4>6 DEF TypeOK
    <3>2. AskedOnce'
      BY <2>13, HeadAndTail, LineTypes, InterruptedFacts DEF GiveUp, Proceed, AskedOnce, TypeOK, Tools
    <3>3. PendingIsAsked'
      BY <2>13, HeadAndTail, LineTypes, InterruptedFacts DEF GiveUp, Proceed, PendingIsAsked, AskedOnce, TypeOK, Tools, Asks
    <3>4. LinesAreFaithful'
      BY <2>13, HeadAndTail, LineTypes, InterruptedFacts DEF GiveUp, Proceed, LinesAreFaithful, Faithful, Id, TypeOK, AskedOnce, PendingIsAsked
    <3>5. VerdictIsExplicit'
      BY <2>13, HeadAndTail, LineTypes, InterruptedFacts DEF GiveUp, Proceed, VerdictIsExplicit, Explicit, PendingIsAsked, Result, TypeOK, Asks
    <3>6. ClosedLeavesNobody'
      BY <2>13, HeadAndTail, LineTypes, InterruptedFacts DEF GiveUp, Proceed, ClosedLeavesNobody, TypeOK
    <3> QED
      BY <3>1, <3>2, <3>3, <3>4, <3>5, <3>6
  <2>14. ASSUME Write PROVE Inv'
    <3>1. TypeOK'
      <4>1. /\ loop' \in {"calling", "asking", "grading", "delivering", "done"}
            /\ call' \in 1 .. Calls + 1 /\ aborted' \subseteq Limited
            /\ shown' \in Asks \union {None} /\ approvals' \subseteq Asks
        BY <2>14 DEF Write, TypeOK, Tools, Asks, Served
      <4>2. /\ artifact' \in BOOLEAN /\ closed' \in BOOLEAN /\ ended' \in BOOLEAN
            /\ sent' \in 0 .. MaxLines
            /\ reason' \in {"input_eof", "user_exit", "runtime_complete"}
        BY <2>14 DEF Write, TypeOK
      <4>3. stamp' \in [Tools -> 0 .. Calls]
        BY <2>14 DEF Write, TypeOK, AskedOnce, Tools
      <4>4. ran' \in [Tools -> Results \union {None}]
        BY <2>14 DEF Write, TypeOK, Results, Asks, Tools
      <4>5. answer' \in [Asks -> Results \union {None}] /\ outcome' \in Results \union {None}
        BY <2>14, HeadAndTail, LineTypes, InterruptedFacts, ResultTypes DEF Write, TypeOK, Asks
      <4>6. pipe' \in Seq(Lines)
        BY <2>14, HeadAndTail DEF Write, TypeOK
      <4> QED
        BY <4>1, <4>2, <4>3, <4>4, <4>5, <4>6 DEF TypeOK
    <3>2. AskedOnce'
      BY <2>14, HeadAndTail, LineTypes, InterruptedFacts DEF Write, AskedOnce, TypeOK, Tools
    <3>3. PendingIsAsked'
      BY <2>14, HeadAndTail, LineTypes, InterruptedFacts DEF Write, PendingIsAsked, AskedOnce, TypeOK, Tools, Asks
    <3>4. LinesAreFaithful'
      BY <2>14, HeadAndTail, LineTypes, InterruptedFacts DEF Write, LinesAreFaithful, Faithful, Id, TypeOK, AskedOnce, PendingIsAsked
    <3>5. VerdictIsExplicit'
      BY <2>14, HeadAndTail, LineTypes, InterruptedFacts DEF Write, VerdictIsExplicit, Explicit, PendingIsAsked, Result, TypeOK, Asks
    <3>6. ClosedLeavesNobody'
      BY <2>14, HeadAndTail, LineTypes, InterruptedFacts DEF Write, ClosedLeavesNobody, TypeOK
    <3> QED
      BY <3>1, <3>2, <3>3, <3>4, <3>5, <3>6
  <2>15. ASSUME Deliver PROVE Inv'
    <3>1. TypeOK'
      <4>1. /\ loop' \in {"calling", "asking", "grading", "delivering", "done"}
            /\ call' \in 1 .. Calls + 1 /\ aborted' \subseteq Limited
            /\ shown' \in Asks \union {None} /\ approvals' \subseteq Asks
        BY <2>15 DEF Deliver, Wait, TypeOK, Tools, Asks, Served
      <4>2. /\ artifact' \in BOOLEAN /\ closed' \in BOOLEAN /\ ended' \in BOOLEAN
            /\ sent' \in 0 .. MaxLines
            /\ reason' \in {"input_eof", "user_exit", "runtime_complete"}
        BY <2>15 DEF Deliver, Wait, TypeOK
      <4>3. stamp' \in [Tools -> 0 .. Calls]
        BY <2>15 DEF Deliver, Wait, TypeOK, AskedOnce, Tools
      <4>4. ran' \in [Tools -> Results \union {None}]
        BY <2>15 DEF Deliver, Wait, TypeOK, Results, Asks, Tools
      <4>5. answer' \in [Asks -> Results \union {None}] /\ outcome' \in Results \union {None}
        BY <2>15, HeadAndTail, LineTypes, InterruptedFacts, ResultTypes DEF Deliver, Wait, TypeOK, Asks
      <4>6. pipe' \in Seq(Lines)
        BY <2>15, HeadAndTail DEF Deliver, Wait, TypeOK
      <4> QED
        BY <4>1, <4>2, <4>3, <4>4, <4>5, <4>6 DEF TypeOK
    <3>2. AskedOnce'
      BY <2>15, HeadAndTail, LineTypes, InterruptedFacts DEF Deliver, Wait, AskedOnce, TypeOK, Tools
    <3>3. PendingIsAsked'
      <4>1. approvals' \subseteq approvals \union {Delivery}
        BY <2>15 DEF Deliver, Wait
      <4>2. shown' = Delivery /\ loop' = "delivering" /\ artifact' /\ UNCHANGED stamp
        BY <2>15 DEF Deliver
      <4> QED
        BY <4>1, <4>2 DEF PendingIsAsked, Tools, Delivery
    <3>4. LinesAreFaithful'
      BY <2>15, HeadAndTail, LineTypes, InterruptedFacts DEF Deliver, Wait, LinesAreFaithful, Faithful, Id, TypeOK, AskedOnce, PendingIsAsked
    <3>5. VerdictIsExplicit'
      BY <2>15, HeadAndTail, LineTypes, InterruptedFacts DEF Deliver, Wait, VerdictIsExplicit, Explicit, PendingIsAsked, Result, TypeOK, Asks
    <3>6. ClosedLeavesNobody'
      BY <2>15, HeadAndTail, LineTypes, InterruptedFacts DEF Deliver, Wait, ClosedLeavesNobody, TypeOK
    <3> QED
      BY <3>1, <3>2, <3>3, <3>4, <3>5, <3>6
  <2>16. ASSUME Drop PROVE Inv'
    <3>1. TypeOK'
      <4>1. /\ loop' \in {"calling", "asking", "grading", "delivering", "done"}
            /\ call' \in 1 .. Calls + 1 /\ aborted' \subseteq Limited
            /\ shown' \in Asks \union {None} /\ approvals' \subseteq Asks
        BY <2>16 DEF Drop, Finish, TypeOK, Tools, Asks, Served
      <4>2. /\ artifact' \in BOOLEAN /\ closed' \in BOOLEAN /\ ended' \in BOOLEAN
            /\ sent' \in 0 .. MaxLines
            /\ reason' \in {"input_eof", "user_exit", "runtime_complete"}
        BY <2>16 DEF Drop, Finish, TypeOK
      <4>3. stamp' \in [Tools -> 0 .. Calls]
        BY <2>16 DEF Drop, Finish, TypeOK, AskedOnce, Tools
      <4>4. ran' \in [Tools -> Results \union {None}]
        BY <2>16 DEF Drop, Finish, TypeOK, Results, Asks, Tools
      <4>5. answer' \in [Asks -> Results \union {None}] /\ outcome' \in Results \union {None}
        BY <2>16, HeadAndTail, LineTypes, InterruptedFacts, ResultTypes DEF Drop, Finish, TypeOK, Asks
      <4>6. pipe' \in Seq(Lines)
        BY <2>16, HeadAndTail DEF Drop, Finish, TypeOK
      <4> QED
        BY <4>1, <4>2, <4>3, <4>4, <4>5, <4>6 DEF TypeOK
    <3>2. AskedOnce'
      BY <2>16, HeadAndTail, LineTypes, InterruptedFacts DEF Drop, Finish, AskedOnce, TypeOK, Tools
    <3>3. PendingIsAsked'
      BY <2>16, HeadAndTail, LineTypes, InterruptedFacts DEF Drop, Finish, PendingIsAsked, AskedOnce, TypeOK, Tools, Asks
    <3>4. LinesAreFaithful'
      BY <2>16, HeadAndTail, LineTypes, InterruptedFacts DEF Drop, Finish, LinesAreFaithful, Faithful, Id, TypeOK, AskedOnce, PendingIsAsked
    <3>5. VerdictIsExplicit'
      BY <2>16, HeadAndTail, LineTypes, InterruptedFacts DEF Drop, Finish, VerdictIsExplicit, Explicit, PendingIsAsked, Result, TypeOK, Asks
    <3>6. ClosedLeavesNobody'
      BY <2>16, HeadAndTail, LineTypes, InterruptedFacts DEF Drop, Finish, ClosedLeavesNobody, TypeOK
    <3> QED
      BY <3>1, <3>2, <3>3, <3>4, <3>5, <3>6
  <2>17. ASSUME Conclude PROVE Inv'
    <3>1. TypeOK'
      <4>1. /\ loop' \in {"calling", "asking", "grading", "delivering", "done"}
            /\ call' \in 1 .. Calls + 1 /\ aborted' \subseteq Limited
            /\ shown' \in Asks \union {None} /\ approvals' \subseteq Asks
        BY <2>17 DEF Conclude, Finish, TypeOK, Tools, Asks, Served
      <4>2. /\ artifact' \in BOOLEAN /\ closed' \in BOOLEAN /\ ended' \in BOOLEAN
            /\ sent' \in 0 .. MaxLines
            /\ reason' \in {"input_eof", "user_exit", "runtime_complete"}
        BY <2>17 DEF Conclude, Finish, TypeOK
      <4>3. stamp' \in [Tools -> 0 .. Calls]
        BY <2>17 DEF Conclude, Finish, TypeOK, AskedOnce, Tools
      <4>4. ran' \in [Tools -> Results \union {None}]
        BY <2>17 DEF Conclude, Finish, TypeOK, Results, Asks, Tools
      <4>5. answer' \in [Asks -> Results \union {None}] /\ outcome' \in Results \union {None}
        BY <2>17, HeadAndTail, LineTypes, InterruptedFacts, ResultTypes DEF Conclude, Finish, TypeOK, Asks
      <4>6. pipe' \in Seq(Lines)
        BY <2>17, HeadAndTail DEF Conclude, Finish, TypeOK
      <4> QED
        BY <4>1, <4>2, <4>3, <4>4, <4>5, <4>6 DEF TypeOK
    <3>2. AskedOnce'
      BY <2>17, HeadAndTail, LineTypes, InterruptedFacts DEF Conclude, Finish, AskedOnce, TypeOK, Tools
    <3>3. PendingIsAsked'
      BY <2>17, HeadAndTail, LineTypes, InterruptedFacts DEF Conclude, Finish, PendingIsAsked, AskedOnce, TypeOK, Tools, Asks
    <3>4. LinesAreFaithful'
      BY <2>17, HeadAndTail, LineTypes, InterruptedFacts DEF Conclude, Finish, LinesAreFaithful, Faithful, Id, TypeOK, AskedOnce, PendingIsAsked
    <3>5. VerdictIsExplicit'
      BY <2>17, HeadAndTail, LineTypes, InterruptedFacts DEF Conclude, Finish, VerdictIsExplicit, Explicit, PendingIsAsked, Result, TypeOK, Asks
    <3>6. ClosedLeavesNobody'
      BY <2>17, HeadAndTail, LineTypes, InterruptedFacts DEF Conclude, Finish, ClosedLeavesNobody, TypeOK
    <3> QED
      BY <3>1, <3>2, <3>3, <3>4, <3>5, <3>6
  <2>18. ASSUME Expire PROVE Inv'
    <3>1. TypeOK'
      <4>1. /\ loop' \in {"calling", "asking", "grading", "delivering", "done"}
            /\ call' \in 1 .. Calls + 1 /\ aborted' \subseteq Limited
            /\ shown' \in Asks \union {None} /\ approvals' \subseteq Asks
        BY <2>18 DEF Expire, TypeOK, Tools, Asks, Served
      <4>2. /\ artifact' \in BOOLEAN /\ closed' \in BOOLEAN /\ ended' \in BOOLEAN
            /\ sent' \in 0 .. MaxLines
            /\ reason' \in {"input_eof", "user_exit", "runtime_complete"}
        BY <2>18 DEF Expire, TypeOK
      <4>3. stamp' \in [Tools -> 0 .. Calls]
        BY <2>18 DEF Expire, TypeOK, AskedOnce, Tools
      <4>4. ran' \in [Tools -> Results \union {None}]
        BY <2>18 DEF Expire, TypeOK, Results, Asks, Tools
      <4>5. answer' \in [Asks -> Results \union {None}] /\ outcome' \in Results \union {None}
        BY <2>18, HeadAndTail, LineTypes, InterruptedFacts, ResultTypes DEF Expire, TypeOK, Asks
      <4>6. pipe' \in Seq(Lines)
        BY <2>18, HeadAndTail DEF Expire, TypeOK
      <4> QED
        BY <4>1, <4>2, <4>3, <4>4, <4>5, <4>6 DEF TypeOK
    <3>2. AskedOnce'
      BY <2>18, HeadAndTail, LineTypes, InterruptedFacts DEF Expire, AskedOnce, TypeOK, Tools
    <3>3. PendingIsAsked'
      BY <2>18, HeadAndTail, LineTypes, InterruptedFacts DEF Expire, PendingIsAsked, AskedOnce, TypeOK, Tools, Asks
    <3>4. LinesAreFaithful'
      BY <2>18, HeadAndTail, LineTypes, InterruptedFacts DEF Expire, LinesAreFaithful, Faithful, Id, TypeOK, AskedOnce, PendingIsAsked
    <3>5. VerdictIsExplicit'
      BY <2>18, HeadAndTail, LineTypes, InterruptedFacts DEF Expire, VerdictIsExplicit, Explicit, PendingIsAsked, Result, TypeOK, Asks
    <3>6. ClosedLeavesNobody'
      BY <2>18, HeadAndTail, LineTypes, InterruptedFacts DEF Expire, ClosedLeavesNobody, TypeOK
    <3> QED
      BY <3>1, <3>2, <3>3, <3>4, <3>5, <3>6
  <2>19. ASSUME Fail PROVE Inv'
    <3>1. TypeOK'
      <4>1. /\ loop' \in {"calling", "asking", "grading", "delivering", "done"}
            /\ call' \in 1 .. Calls + 1 /\ aborted' \subseteq Limited
            /\ shown' \in Asks \union {None} /\ approvals' \subseteq Asks
        BY <2>19 DEF Fail, Served, TypeOK, Tools, Asks, Served
      <4>2. /\ artifact' \in BOOLEAN /\ closed' \in BOOLEAN /\ ended' \in BOOLEAN
            /\ sent' \in 0 .. MaxLines
            /\ reason' \in {"input_eof", "user_exit", "runtime_complete"}
        BY <2>19 DEF Fail, Served, TypeOK
      <4>3. stamp' \in [Tools -> 0 .. Calls]
        BY <2>19 DEF Fail, Served, TypeOK, AskedOnce, Tools
      <4>4. ran' \in [Tools -> Results \union {None}]
        BY <2>19 DEF Fail, Served, TypeOK, Results, Asks, Tools
      <4>5. answer' \in [Asks -> Results \union {None}] /\ outcome' \in Results \union {None}
        BY <2>19, HeadAndTail, LineTypes, InterruptedFacts, ResultTypes DEF Fail, Served, TypeOK, Asks
      <4>6. pipe' \in Seq(Lines)
        BY <2>19, HeadAndTail DEF Fail, Served, TypeOK
      <4> QED
        BY <4>1, <4>2, <4>3, <4>4, <4>5, <4>6 DEF TypeOK
    <3>2. AskedOnce'
      BY <2>19, HeadAndTail, LineTypes, InterruptedFacts DEF Fail, Served, AskedOnce, TypeOK, Tools
    <3>3. PendingIsAsked'
      BY <2>19, HeadAndTail, LineTypes, InterruptedFacts DEF Fail, Served, PendingIsAsked, AskedOnce, TypeOK, Tools, Asks
    <3>4. LinesAreFaithful'
      BY <2>19, HeadAndTail, LineTypes, InterruptedFacts DEF Fail, Served, LinesAreFaithful, Faithful, Id, TypeOK, AskedOnce, PendingIsAsked
    <3>5. VerdictIsExplicit'
      BY <2>19, HeadAndTail, LineTypes, InterruptedFacts DEF Fail, Served, VerdictIsExplicit, Explicit, PendingIsAsked, Result, TypeOK, Asks
    <3>6. ClosedLeavesNobody'
      BY <2>19, HeadAndTail, LineTypes, InterruptedFacts DEF Fail, Served, ClosedLeavesNobody, TypeOK
    <3> QED
      BY <3>1, <3>2, <3>3, <3>4, <3>5, <3>6
  <2>20. CASE UNCHANGED vars
    BY <2>20 DEF vars, TypeOK, AskedOnce, PendingIsAsked, LinesAreFaithful, Faithful, Id, VerdictIsExplicit, ClosedLeavesNobody
  <2> QED
    BY <2>1, <2>2, <2>3, <2>4, <2>5, <2>6, <2>7, <2>8, <2>9, <2>10, <2>11, <2>12, <2>13, <2>14, <2>15, <2>16, <2>17, <2>18, <2>19, <2>20 DEF Next, Runtime, Client
<1> QED
  BY <1>1, <1>2, PTL DEF Spec

(* Every state is well formed. *)
THEOREM ReaderTypes == Spec => []TypeOK
<1>1. Inv => TypeOK
  BY DEF Inv
<1> QED
  BY <1>1, Invariance, PTL

(* Nobody is left at a closed reader; a deliverable is accepted by an
   approval.resolve given to its own request, and only while it is there. *)
THEOREM Explicitness ==
  Spec => [](ClosedLeavesNobody /\ AcceptIsExplicit /\ DeletedIsNotAccepted)
<1>1. Inv => ClosedLeavesNobody /\ AcceptIsExplicit /\ DeletedIsNotAccepted
  BY DEF Inv, VerdictIsExplicit, Explicit, AcceptIsExplicit, DeletedIsNotAccepted
<1> QED
  BY <1>1, Invariance, PTL

(* After its time limit a call runs nothing, whatever the user still allows. *)
THEOREM LateAllow == Spec => LateAllowRunsNothing
<1>1. Inv /\ [Next]_vars => [\A w \in aborted : ran'[w] = ran[w]]_vars
  <2> SUFFICES ASSUME Inv, Next, NEW w \in aborted PROVE ran'[w] = ran[w]
    BY DEF vars
  <2>1. w \in Tools
    BY ApprovalReaderAssumption DEF Inv, TypeOK
  <2>2. ASSUME NEW v \in Tools, Resume(v) PROVE ran'[w] = ran[w]
    BY <2>1, <2>2 DEF Resume, Granted, Inv, TypeOK
  <2>3. CASE UNCHANGED ran
    BY <2>3
  <2> QED
    BY <2>2, <2>3
       DEF Next, Runtime, Client, agent, SendResolve, SendBare, SendDelete, SendExit, Send, End,
           ReadExit, ReadEnd, ReadBare, ReadResolve, ReadDelete, Read, Ask, GiveUp, Write,
           Deliver, Drop, Conclude, Finish, Expire, Fail
<1> QED
  BY <1>1, Invariance, PTL DEF Spec, LateAllowRunsNothing

(* A result for call w that was given to w, or to a request the line could not
   tell from it. *)
Own(result, w) ==
  \/ result.line = "bare"
  \/ result.for \in Tools /\ stamp[result.for] > 0 /\ stamp[result.for] = stamp[w]

(* An allow goes to the call it was given for, *)
OwnAnswer ==
  \A w \in Tools : answer[w] # None /\ answer[w].accepted => Own(answer[w], w)

(* and the call runs on that. *)
OwnRun == \A w \in Tools : ran[w] # None => Own(ran[w], w)

(* A tool only runs on an allow that was given to its own request, as far as
   the line names one. *)
THEOREM OwnAnswers == Spec => []RunsWhatWasAllowed
<1>1. Init => OwnAnswer /\ OwnRun
  BY DEF Init, OwnAnswer, OwnRun, Asks, Tools
<1>2. Inv /\ OwnAnswer /\ OwnRun /\ [Next]_vars => OwnAnswer' /\ OwnRun'
  <2> SUFFICES ASSUME Inv, OwnAnswer, OwnRun, [Next]_vars PROVE OwnAnswer' /\ OwnRun'
    OBVIOUS
  <2> USE ApprovalReaderAssumption DEF agent, reader, client
  <2>0. ASSUME UNCHANGED <<stamp, ran>>,
               \A w \in Tools : answer'[w] = answer[w] \/ answer'[w] = None
                                 \/ (answer'[w] # None /\ answer'[w].accepted => Own(answer'[w], w))
        PROVE  OwnAnswer' /\ OwnRun'
    BY <2>0 DEF OwnAnswer, OwnRun, Own
  <2>1. ASSUME SendResolve PROVE OwnAnswer' /\ OwnRun'
    BY <2>1, <2>0 DEF SendResolve, Send
  <2>2. ASSUME SendBare PROVE OwnAnswer' /\ OwnRun'
    BY <2>2, <2>0 DEF SendBare, Send
  <2>3. ASSUME SendDelete PROVE OwnAnswer' /\ OwnRun'
    BY <2>3, <2>0 DEF SendDelete, Send
  <2>4. ASSUME SendExit PROVE OwnAnswer' /\ OwnRun'
    BY <2>4, <2>0 DEF SendExit, Send
  <2>5. ASSUME End PROVE OwnAnswer' /\ OwnRun'
    BY <2>5, <2>0 DEF End
  <2>6. ASSUME ReadExit PROVE OwnAnswer' /\ OwnRun'
    <3>1. \A w \in Tools : answer'[w] \in {answer[w], Interrupted}
      BY <2>6 DEF ReadExit, Close, Settle, Asks, Read
    <3> QED
      BY <2>6, <2>0, <3>1, InterruptedFacts DEF ReadExit, Inv, TypeOK, Read
  <2>7. ASSUME ReadEnd PROVE OwnAnswer' /\ OwnRun'
    <3>1. \A w \in Tools : answer'[w] \in {answer[w], Interrupted}
      BY <2>7 DEF ReadEnd, Close, Settle, Asks
    <3> QED
      BY <2>7, <2>0, <3>1, InterruptedFacts DEF ReadEnd, Inv, TypeOK
  <2>8. ASSUME ReadBare PROVE OwnAnswer' /\ OwnRun'
    <3>1. \A w \in Tools : answer'[w] = answer[w]
                             \/ answer'[w] = Result(Head(pipe).allow, "bare", Head(pipe).for)
      BY <2>8 DEF ReadBare, Settle, Asks
    <3> QED
      BY <2>8, <2>0, <3>1 DEF ReadBare, Read, Result, Own
  <2>9. ASSUME ReadResolve PROVE OwnAnswer' /\ OwnRun'
    <3> DEFINE line == Head(pipe)
    <3>1. line \in Lines /\ line.type = "resolve" /\ Faithful(line)
      BY <2>9, HeadAndTail DEF ReadResolve, Read, LinesAreFaithful, TypeOK, Inv
    <3>2. ASSUME NEW w \in Tools, w \in Named(line)
          PROVE  Own(Result(line.allow, "resolve", line.for), w)
      <4>1. stamp[w] > 0 /\ stamp[w] = line.id /\ line.for \in Asks
        BY <3>1, <3>2, LineTypes DEF Named, Id, PendingIsAsked, Tools, Delivery, Inv
      <4>2. line.for \in Tools /\ stamp[line.for] = stamp[w] /\ stamp[line.for] > 0
        BY <3>1, <4>1 DEF Faithful, Id, Asks
      <4> QED
        BY <4>2 DEF Own, Result
    <3>3. \A w \in Tools : \/ answer'[w] = answer[w]
                           \/ w \in Named(line) /\ answer'[w] = Result(line.allow, "resolve", line.for)
      BY <2>9 DEF ReadResolve, Settle, Asks
    <3> QED
      BY <2>9, <2>0, <3>2, <3>3 DEF ReadResolve, Read
  <2>10. ASSUME ReadDelete PROVE OwnAnswer' /\ OwnRun'
    <3>1. \A w \in Tools : answer'[w] = answer[w]
      <4>1. \A w \in Tools : w \in Asks /\ w # Delivery
        BY DEF Asks, Tools, Delivery
      <4> QED
        BY <2>10, <4>1 DEF ReadDelete, Settle
    <3> QED
      BY <2>10, <2>0, <3>1 DEF ReadDelete, Read
  <2>11. ASSUME Ask PROVE OwnAnswer' /\ OwnRun'
    <3>1. PICK id : stamp' = [stamp EXCEPT ![call] = id]
      BY <2>11 DEF Ask
    <3>2. call \in Tools /\ stamp[call] = 0 /\ UNCHANGED ran
      BY <2>11 DEF Ask, AskedOnce, Inv
    <3>3. answer' = answer \/ answer' = [answer EXCEPT ![call] = Interrupted]
      BY <2>11 DEF Ask, Wait
    <3>4. ASSUME NEW result, NEW w \in Tools, Own(result, w) PROVE Own(result, w)'
      BY <3>1, <3>2, <3>4 DEF Own, TypeOK, Inv
    <3>5. \A w \in Tools : answer'[w] = answer[w] \/ answer'[w] = Interrupted
      BY <3>2, <3>3 DEF TypeOK, Inv, Asks
    <3>6. OwnAnswer'
      BY <3>4, <3>5, InterruptedFacts DEF OwnAnswer, TypeOK, Inv
    <3>7. OwnRun'
      BY <3>2, <3>4 DEF OwnRun
    <3> QED
      BY <3>6, <3>7
  <2>12. ASSUME NEW v \in Tools, Resume(v) PROVE OwnAnswer' /\ OwnRun'
    <3>1. UNCHANGED stamp /\ answer' = [answer EXCEPT ![v] = None]
      BY <2>12 DEF Resume
    <3>2. OwnAnswer'
      BY <3>1 DEF OwnAnswer, Own, TypeOK, Inv, Asks
    <3>3. CASE Granted(v) /\ ran' = [ran EXCEPT ![v] = answer[v]]
      <4>1. Own(answer[v], v)
        BY <2>12, <3>3 DEF Resume, Granted, OwnAnswer
      <4>2. \A w \in Tools : ran'[w] = IF w = v THEN answer[v] ELSE ran[w]
        BY <3>3 DEF TypeOK, Inv
      <4> QED
        BY <3>1, <3>2, <4>1, <4>2 DEF OwnRun, Own
    <3>4. CASE ran' = ran
      BY <3>1, <3>2, <3>4 DEF OwnRun, Own
    <3> QED
      BY <2>12, <3>3, <3>4 DEF Resume
  <2>13. ASSUME GiveUp PROVE OwnAnswer' /\ OwnRun'
    BY <2>13, <2>0 DEF GiveUp
  <2>14. ASSUME Write PROVE OwnAnswer' /\ OwnRun'
    BY <2>14, <2>0 DEF Write
  <2>15. ASSUME Deliver PROVE OwnAnswer' /\ OwnRun'
    <3>1. \A w \in Tools : answer'[w] = answer[w]
      <4>1. \A w \in Tools : w \in Asks /\ w # Delivery
        BY DEF Asks, Tools, Delivery
      <4> QED
        BY <2>15, <4>1 DEF Deliver, Wait, TypeOK, Inv
    <3> QED
      BY <2>15, <2>0, <3>1 DEF Deliver
  <2>16. ASSUME Drop PROVE OwnAnswer' /\ OwnRun'
    <3>1. \A w \in Tools : answer'[w] \in {answer[w], Interrupted}
      BY <2>16 DEF Drop, Finish, Asks, Tools, Delivery
    <3> QED
      BY <2>16, <2>0, <3>1, InterruptedFacts DEF Drop, Finish, Inv, TypeOK
  <2>17. ASSUME Conclude PROVE OwnAnswer' /\ OwnRun'
    <3>1. \A w \in Tools : answer'[w] \in {answer[w], Interrupted}
      BY <2>17 DEF Conclude, Finish, Asks, Tools, Delivery
    <3> QED
      BY <2>17, <2>0, <3>1, InterruptedFacts DEF Conclude, Finish, Inv, TypeOK
  <2>18. ASSUME Expire PROVE OwnAnswer' /\ OwnRun'
    BY <2>18, <2>0 DEF Expire
  <2>19. ASSUME Fail PROVE OwnAnswer' /\ OwnRun'
    BY <2>19, <2>0 DEF Fail
  <2>20. CASE UNCHANGED vars
    BY <2>20, <2>0 DEF vars
  <2> QED
    BY <2>1, <2>2, <2>3, <2>4, <2>5, <2>6, <2>7, <2>8, <2>9, <2>10, <2>11, <2>12, <2>13, <2>14, <2>15, <2>16, <2>17, <2>18, <2>19, <2>20 DEF Next, Runtime, Client
<1>3. OwnRun => RunsWhatWasAllowed
  BY DEF OwnRun, Own, RunsWhatWasAllowed
<1> QED
  BY <1>1, <1>2, <1>3, Invariance, PTL DEF Spec

=============================================================================
