-------------------------- MODULE AgentLoop_proofs --------------------------
(***************************************************************************)
(* Proofs about AgentLoop, for every set of employees, paths and skills,   *)
(* every batch size and every budget of turns, calls, cancellations, time  *)
(* limits, edits and revoked leases.                                       *)
(*                                                                         *)
(* First the policy as a function: what the merge of several needs says    *)
(* (Merging), what a call that is not refused obeys (Obeyed) and which     *)
(* limit it draws on (Budgeted).  Then the inductive invariant Inv: the    *)
(* types; Numbered and Made, by which a call is its row of the log and has *)
(* been reported as often as it should; Serving, what is known of the call *)
(* in hand; Decided, whose word each effect rests on; Granted, whose word  *)
(* each lease rests on; and Metered, the counters of the turn.  What an    *)
(* action does to the queue of calls is stated once, as its Effect or its  *)
(* Queue, and used for every part of the invariant.                        *)
(***************************************************************************)
EXTENDS AgentLoop, FiniteSetTheorems, WellFoundedInduction, TLAPS

(***************************************************************************)
(* The policy as a function of its arguments.                              *)
(***************************************************************************)

(* A set of numbers has a least element. *)
LEMMA Least ==
    ASSUME NEW S, S \subseteq Nat, S # {}
    PROVE  Min(S) \in S /\ \A y \in S : Min(S) <= y
<1> DEFINE less == {p \in Nat \X Nat : p[1] < p[2]}
<1>1. IsWellFoundedOn(less, Nat)
    <2>1. OpToRel(<, Nat) = less
        BY DEF OpToRel
    <2> QED
        BY <2>1, NatLessThanWellFounded
<1>2. PICK x \in S : \A y \in S : ~(<<y, x>> \in less)
    BY <1>1, WFMin
<1>3. ASSUME NEW y \in S
      PROVE  x <= y
    <2>1. x \in Nat /\ y \in Nat /\ <<y, x>> \in Nat \X Nat
        OBVIOUS
    <2>2. <<y, x>>[1] = y /\ <<y, x>>[2] = x
        OBVIOUS
    <2>3. ~(<<y, x>>[1] < <<y, x>>[2])
        BY <1>2, <2>1
    <2> QED
        BY <2>1, <2>2, <2>3
<1> QED
    BY <1>3 DEF Min

(* The strongest of several values is one of the scale when one of them is. *)
LEMMA StrongestAlways ==
    ASSUME NEW values
    PROVE  /\ "always" \in values => Strongest(values, Approval) = "always"
           /\ "never" \in values \/ "when_needed" \in values \/ "always" \in values =>
                 Strongest(values, Approval) \in values
<1> DEFINE S == {i \in DOMAIN Approval : Approval[i] \in values}
<1>1. S \subseteq 1..3 /\ S = {i \in 1..3 : Approval[i] \in values}
    BY DEF Approval
<1>2. ASSUME "always" \in values
      PROVE  Strongest(values, Approval) = "always"
    <2>1. 3 \in S /\ \A i \in S : i <= 3 /\ i \in Int
        BY <1>2, <1>1 DEF Approval
    <2>2. Max(S) = 3
        BY <2>1 DEF Max
    <2> QED
        BY <2>2 DEF Strongest, Approval
<1>3. ASSUME S # {}
      PROVE  Strongest(values, Approval) \in values
    <2>1. \E x \in S : \A y \in S : x >= y
        BY <1>1, <1>3
    <2>2. Max(S) \in S
        BY <2>1 DEF Max
    <2> QED
        BY <2>2 DEF Strongest
<1>4. "never" \in values \/ "when_needed" \in values \/ "always" \in values => S # {}
    BY <1>1 DEF Approval
<1> QED
    BY <1>2, <1>3, <1>4

(* The strongest of some permissions is one of them, and asks the user if one
   of them does (employee-tools.mjs: the merge of needs behind one tool). *)
LEMMA StrongestPermission ==
    ASSUME NEW values, values \subseteq Range(Permission)
    PROVE  /\ "requires_authorization" \in values =>
                 Strongest(values, Permission) = "requires_authorization"
           /\ values # {} => Strongest(values, Permission) \in values
           /\ values = {"readonly"} => Strongest(values, Permission) = "readonly"
<1> DEFINE S == {i \in DOMAIN Permission : Permission[i] \in values}
<1>1. S = {i \in 1..4 : Permission[i] \in values}
    BY DEF Permission
<1>2. ASSUME "requires_authorization" \in values
      PROVE  Strongest(values, Permission) = "requires_authorization"
    <2>1. 4 \in S /\ \A i \in S : i <= 4 /\ i \in Int
        BY <1>2, <1>1 DEF Permission
    <2>2. Max(S) = 4
        BY <2>1 DEF Max
    <2> QED
        BY <2>2 DEF Strongest, Permission
<1>3. ASSUME values # {}
      PROVE  Strongest(values, Permission) \in values
    <2>1. S # {}
        BY <1>3, <1>1 DEF Permission, Range
    <2>2. \E x \in S : \A y \in S : x >= y
        BY <1>1, <2>1
    <2>3. Max(S) \in S
        BY <2>2 DEF Max
    <2> QED
        BY <2>3 DEF Strongest
<1> QED
    BY <1>2, <1>3

(* The strongest of some necessities is one of them. *)
LEMMA StrongestNecessity ==
    ASSUME NEW values, values \subseteq Range(Necessity)
    PROVE  values # {} => Strongest(values, Necessity) \in values
<1> SUFFICES ASSUME values # {}
             PROVE  Strongest(values, Necessity) \in values
    OBVIOUS
<1> DEFINE S == {i \in DOMAIN Necessity : Necessity[i] \in values}
<1>1. S = {i \in 1..4 : Necessity[i] \in values}
    BY DEF Necessity
<1>2. S # {}
    BY <1>1 DEF Necessity, Range
<1>3. \E x \in S : \A y \in S : x >= y
    BY <1>1, <1>2
<1>4. Max(S) \in S
    BY <1>3 DEF Max
<1> QED
    BY <1>4 DEF Strongest

(* The gateway looks at nothing of a call but its tool and its arguments. *)
LEMMA SameCheck ==
    ASSUME NEW m, NEW c, NEW d, c.tool = d.tool, c.arg = d.arg
    PROVE  Check(m, c) = Check(m, d)
BY DEF Check, Selected, EmployeeDecision, PlatformDecision

(* What the merge of the ready needs of a tool says. *)
LEMMA Merging ==
    ASSUME NEW m \in Manifests, NEW ready, ready # {},
           \A c \in ready : c \in DOMAIN m /\ Usable(m[c])
    PROVE  /\ Merged(m, ready).caps = ready
           /\ Merged(m, ready).timed = TRUE
           /\ "disabled" \notin {Merged(m, ready).necessity, Merged(m, ready).permission}
           /\ Merged(m, ready).granted = TRUE
           /\ \A c \in ready :
                 m[c].necessity = "non_default" \/ m[c].permission = "requires_authorization" =>
                    Merged(m, ready).permission = "requires_authorization"
           /\ (\E c \in ready : m[c].approval = "always") => Merged(m, ready).approval = "always"
           /\ (\A c \in ready : m[c].permission = "readonly") =>
                 Merged(m, ready).permission = "readonly" /\ Merged(m, ready).necessity # "non_default"
<1> DEFINE Of(field) == {m[c][field] : c \in ready}
           e == Merged(m, ready)
<1>1. /\ e.caps = ready /\ e.timed = TRUE
      /\ e.necessity = Strongest(Of("necessity"), Necessity)
      /\ e.permission = IF "non_default" \in Of("necessity") THEN "requires_authorization"
                        ELSE Strongest(Of("permission"), Permission)
      /\ e.approval = Strongest(Of("approval"), Approval)
      /\ e.granted = (\A c \in ready : Usable(m[c]))
    BY DEF Merged
<1>2. \A c \in ready : c \in DOMAIN m /\ m[c] \in Needs /\ Usable(m[c])
    BY ManifestAssumption
<1>3. \A c \in ready : m[c].necessity \in Range(Necessity) /\ m[c].permission \in Range(Permission)
    BY <1>2 DEF Needs
<1>4. \A c \in ready : /\ m[c].necessity # "disabled" /\ m[c].permission # "disabled"
                       /\ m[c].necessity = "non_default" => m[c].permission = "requires_authorization"
    BY <1>2 DEF Needs, WellFormed, Usable
<1>5. e.granted = TRUE
    BY <1>1, <1>2
<1>6. Of("necessity") \subseteq Range(Necessity) /\ Of("necessity") # {}
    BY <1>3
<1>7. Of("permission") \subseteq Range(Permission) /\ Of("permission") # {}
    BY <1>3
<1>8. "disabled" \notin Of("necessity") /\ "disabled" \notin Of("permission")
    BY <1>4
<1>9. e.necessity # "disabled"
    BY <1>1, <1>6, <1>8, StrongestNecessity
<1>10. e.permission # "disabled"
    <2>1. Strongest(Of("permission"), Permission) \in Of("permission")
        BY <1>7, StrongestPermission
    <2>2. Strongest(Of("permission"), Permission) # "disabled"
        BY <2>1, <1>8
    <2> QED
        BY <2>2, <1>1
<1>11. ASSUME NEW c \in ready,
              m[c].necessity = "non_default" \/ m[c].permission = "requires_authorization"
       PROVE  e.permission = "requires_authorization"
    <2>1. m[c].permission = "requires_authorization"
        BY <1>4, <1>11
    <2>2. "requires_authorization" \in Of("permission")
        BY <2>1
    <2> QED
        BY <2>2, <1>1, <1>7, StrongestPermission
<1>12. ASSUME NEW c \in ready, m[c].approval = "always"
       PROVE  e.approval = "always"
    <2>1. "always" \in Of("approval")
        BY <1>12
    <2> QED
        BY <2>1, <1>1, StrongestAlways
<1>13. ASSUME \A c \in ready : m[c].permission = "readonly"
        PROVE  e.permission = "readonly" /\ e.necessity # "non_default"
    <2>1. Of("permission") = {"readonly"}
        BY <1>13
    <2>2. "non_default" \notin Of("necessity")
        BY <1>4, <1>13
    <2>3. e.necessity # "non_default"
        BY <2>2, <1>1, <1>6, StrongestNecessity
    <2> QED
        BY <2>1, <2>2, <2>3, <1>1, <1>7, StrongestPermission
<1> QED
    BY <1>1, <1>5, <1>9, <1>10, <1>11, <1>12, <1>13

(* What the platform decides of the calls that are not refused. *)
LEMMA Platform ==
    ASSUME NEW call \in Calls, PlatformDecision(call) # "deny", call.arg # "bad"
    PROVE  /\ call.tool \in Tools
           /\ call.tool \notin DOMAIN Intrinsic => call.arg \notin {"outside", "private", "bad"}
           /\ call.tool \in {"read_file", "list_files", "write_file"} => call.arg \in Paths
           /\ call.tool = "use_skill" => call.arg \in Skills
           /\ call.tool \in {"mcp_call", "browser_render", "write_file"} =>
                 PlatformDecision(call) = "confirm"
           /\ call.tool \notin {"mcp_call", "browser_render", "write_file"} =>
                 PlatformDecision(call) = "allow"
BY PathAssumption DEF Calls, PlatformDecision, Classification, Class, DefaultPolicy, Tools, Intrinsic

(* Whatever is allowed or put to the user obeys the manifest. *)
LEMMA Obeyed ==
    ASSUME NEW m \in Manifests, NEW call \in Calls, Check(m, call).decision # "deny",
           NEW ready, ready = Ready(m, PolicyOf(call.tool))
    PROVE  /\ Check(m, call).decision \in {"allow", "confirm"}
           /\ call.tool \in {"read_file", "list_files", "write_file"} => call.arg \in Paths
           /\ call.tool = "use_skill" => call.arg \in Skills
           /\ call.tool \notin DOMAIN Intrinsic =>
                 /\ ready # {} /\ call.arg \notin {"outside", "private", "bad"}
                 /\ call.tool = "web_fetch" =>
                       (IF call.arg = "extract" THEN "web_extract" ELSE "web_fetch") \in ready
                 /\ call.tool = "write_file" =>
                       \E c \in ready : m[c].permission # "readonly"
           /\ \/ call.tool \in {"mcp_call", "browser_render", "write_file"}
              \/ /\ call.tool \notin DOMAIN Intrinsic
                 /\ \E c \in ready :
                       \/ m[c].necessity = "non_default" \/ m[c].approval = "always"
                       \/ m[c].permission = "requires_authorization"
              => Check(m, call).decision = "confirm"
<1> DEFINE entry == Entry(m, call.tool)
           word == EmployeeDecision(entry, call, PlatformDecision(call))
<1>1. /\ call.arg # "bad" /\ HasEntry(m, call.tool)
      /\ call.tool = "web_fetch" => Selected(entry, call) \in entry.caps
      /\ Check(m, call).decision = word
    BY DEF Check, Refusal
<1>2. PlatformDecision(call) # "deny"
    BY <1>1 DEF EmployeeDecision
<1>3. /\ call.tool \in {"mcp_call", "browser_render", "write_file"} => PlatformDecision(call) = "confirm"
      /\ PlatformDecision(call) \in {"allow", "confirm"}
      /\ call.tool \notin DOMAIN Intrinsic => call.arg \notin {"outside", "private", "bad"}
      /\ call.tool \in {"read_file", "list_files", "write_file"} => call.arg \in Paths
      /\ call.tool = "use_skill" => call.arg \in Skills
    BY <1>1, <1>2, Platform
<1>4. word \in {"allow", "confirm"}
    BY <1>1, <1>3 DEF EmployeeDecision
<1>5. CASE call.tool \in DOMAIN Intrinsic
    <2>1. call.tool \in {"use_skill", "todo_write", "mcp_call"}
        BY <1>5 DEF Intrinsic
    <2>2. call.tool = "mcp_call" => word = "confirm"
        BY <1>3, <1>4, <1>5, <1>1 DEF EmployeeDecision
    <2> QED
        BY <2>1, <2>2, <1>1, <1>3, <1>4, <1>5
<1>6. CASE call.tool \notin DOMAIN Intrinsic
    <2>1. ready # {} /\ entry = Merged(m, ready)
        BY <1>1, <1>6 DEF HasEntry, Entry
    <2> DEFINE e == Merged(m, ready)
    <2>2. /\ e.caps = ready
          /\ "disabled" \notin {e.necessity, e.permission} /\ e.granted = TRUE
          /\ \A c \in ready :
                m[c].necessity = "non_default" \/ m[c].permission = "requires_authorization" =>
                    e.permission = "requires_authorization"
          /\ (\E c \in ready : m[c].approval = "always") => e.approval = "always"
          /\ (\A c \in ready : m[c].permission = "readonly") =>
                e.permission = "readonly" /\ e.necessity # "non_default"
        <3>1. \A c \in ready : c \in DOMAIN m /\ Usable(m[c])
            BY DEF Ready
        <3>2. ready # {}
            BY <2>1
        <3>3. m \in Manifests
            OBVIOUS
        <3> QED
            BY ONLY <3>3, <3>1, <3>2, Merging
    <2>3. call.tool = "web_fetch" =>
             (IF call.arg = "extract" THEN "web_extract" ELSE "web_fetch") \in ready
        BY <1>1, <2>1, <2>2 DEF Selected
    <2>4. word = EmployeeDecision(e, call, PlatformDecision(call))
        BY <2>1
    <2> HIDE DEF e
    <2>5. e.permission = "requires_authorization" \/ e.approval = "always" => word = "confirm"
        <3> SUFFICES ASSUME e.permission = "requires_authorization" \/ e.approval = "always",
                            e.necessity # "non_default"
                     PROVE  word = "confirm"
            BY <2>4, <1>4 DEF EmployeeDecision
        <3> QED
            BY <2>4, <1>4 DEF EmployeeDecision
    <2>6. PlatformDecision(call) = "confirm" => word = "confirm"
        BY <2>4, <1>4 DEF EmployeeDecision
    <2>7. ASSUME call.tool = "write_file", \A c \in ready : m[c].permission = "readonly"
          PROVE  FALSE
        <3>1. e.permission = "readonly"
            BY <2>2, <2>7
        <3>2. ~ReadonlyAllows(call.tool)
            BY <2>7 DEF ReadonlyAllows, Classification, Class
        <3>3. e.necessity # "non_default"
            BY <2>2, <2>7
        <3> QED
            BY <2>4, <1>4, <3>1, <3>2, <3>3 DEF EmployeeDecision
    <2> QED
        BY <1>1, <1>3, <1>4, <1>6, <2>1, <2>2, <2>3, <2>5, <2>6, <2>7
<1> QED
    BY <1>5, <1>6

(* A tool with one limit counts under the capability it is drawn from. *)
LEMMA Budgeted ==
    ASSUME NEW m \in Manifests, NEW call \in Calls, Check(m, call).decision # "deny",
           NEW c \in DOMAIN m, m[c].max > 0, PolicyOf(call.tool) = RuntimeTool[c],
           RuntimeTool[c] = "web_fetch" \/ Ready(m, RuntimeTool[c]) = {c},
           call.tool = "web_fetch" => c = IF call.arg = "extract" THEN "web_extract" ELSE "web_fetch"
    PROVE  /\ Check(m, call).capability = c
           /\ 0 < Check(m, call).max /\ Check(m, call).max <= m[c].max
           /\ Check(m, call).max \in Nat
<1> DEFINE ready == Ready(m, RuntimeTool[c])
           entry == Entry(m, call.tool)
           limits == {m[b].max : b \in ready} \ {0}
<1>1. /\ call.arg # "bad" /\ HasEntry(m, call.tool)
      /\ call.tool = "web_fetch" => Selected(entry, call) \in entry.caps
      /\ Check(m, call).max = entry.max
      /\ Check(m, call).capability =
            IF Selected(entry, call) = "none" THEN call.tool ELSE Selected(entry, call)
    BY DEF Check, Refusal
<1>2. c \in DOMAIN RuntimeTool /\ m[c] \in Needs
    BY ManifestAssumption
<1>3. RuntimeTool[c] \in {"read_file", "write_file", "web_fetch", "browser_render"} /\ c # "none"
    BY <1>2 DEF RuntimeTool
<1>4. call.tool \notin DOMAIN Intrinsic
    BY <1>3 DEF PolicyOf, Intrinsic
<1>5. ready # {} /\ entry = Merged(m, ready)
    BY <1>1, <1>4 DEF HasEntry, Entry
<1>6. entry.caps = ready /\ entry.max = IF limits = {} THEN 0 ELSE Min(limits)
    BY <1>5 DEF Merged
<1>7. call.tool = "web_fetch" <=> RuntimeTool[c] = "web_fetch"
    BY <1>3 DEF PolicyOf
<1>8. c \in ready /\ Selected(entry, call) = c
    <2>1. CASE call.tool = "web_fetch"
        BY <2>1, <1>1, <1>6 DEF Selected
    <2>2. CASE call.tool # "web_fetch"
        <3>1. ready = {c}
            BY <2>2, <1>7
        <3>2. Cardinality({c}) = 1
            BY FS_Singleton
        <3> QED
            BY <2>2, <3>1, <3>2, <1>6 DEF Selected
    <2> QED
        BY <2>1, <2>2
<1>9. limits \subseteq Nat /\ m[c].max \in limits /\ 0 \notin limits
    <2>1. \A b \in ready : m[b].max \in Nat
        BY ManifestAssumption DEF Ready, Needs
    <2>2. m[c].max \in Nat /\ m[c].max # 0
        BY <2>1, <1>8
    <2> QED
        BY <2>1, <2>2, <1>8
<1>10. Min(limits) \in limits /\ Min(limits) <= m[c].max
    BY <1>9, Least
<1> QED
    BY <1>1, <1>3, <1>6, <1>8, <1>9, <1>10

(* What the gateway decides is one of three words, with a time limit or none. *)
LEMMA CheckTyped ==
    ASSUME NEW m, NEW call
    PROVE  Check(m, call).timed \in BOOLEAN
<1>1. HasEntry(m, call.tool) => Entry(m, call.tool).timed \in BOOLEAN
    <2>1. CASE call.tool \in DOMAIN Intrinsic
        <3>1. call.tool \in {"use_skill", "todo_write", "mcp_call"}
            BY <2>1 DEF Intrinsic
        <3>2. \A t \in {"use_skill", "todo_write", "mcp_call"} : Intrinsic[t].timed = FALSE
            BY DEF Intrinsic
        <3>3. Entry(m, call.tool) = Intrinsic[call.tool]
            BY <2>1 DEF Entry
        <3> QED
            BY <3>1, <3>2, <3>3
    <2>2. CASE call.tool \notin DOMAIN Intrinsic
        BY <2>2 DEF Entry, Merged
    <2> QED
        BY <2>1, <2>2
<1> QED
    BY <1>1 DEF Check, Refusal

-----------------------------------------------------------------------------
(***************************************************************************)
(* The inductive invariant.  The calls are numbered in the order the model *)
(* made them, so a call is its row of the log: the ones the loop has not   *)
(* looked at yet are the last rows, and the one in its hand is the row     *)
(* before them.                                                            *)
(***************************************************************************)

Busy == pc \in {"ask", "lease", "plan", "run"}
Past == Len(log) - Len(batch)

Args == {"outside", "private", "bad", "plain", "extract", "page", "long", "short", "x"}
            \cup Paths \cup Skills
Words == {"gateway", "yes", "session", "lease"}
Rows == [tool : Tools, arg : Args, turn : Nat, begun : {"no"} \cup Words,
         answer : {"none", "asked", "lease", "yes", "no", "session", "revoked"},
         seen : Nat, wrote : BOOLEAN, ends : Nat,
         phase : {"open", "blocked", "succeeded", "failed", "cancelled"}]
Queued == [id : Nat, tool : Tools, arg : Args]
InHand == [id : Nat, tool : Tools, arg : Args, timed : BOOLEAN,
           abort : {"no", "timeout", "cancel"}, seen : Nat]
Left == [turns : Nat, calls : Nat, cancels : Nat, expiries : Nat, edits : Nat, clears : Nat,
         menu : SUBSET Calls]

Typed ==
    /\ left \in Left /\ manifest \in Manifests
    /\ pc \in {"idle", "model", "call", "ask", "lease", "plan", "run"}
    /\ batch \in Seq(Queued) /\ log \in Seq(Rows)
    /\ IF Busy THEN current \in InHand ELSE current = NoCall
    /\ plan \in [proposed : BOOLEAN, approved : BOOLEAN] /\ (plan.approved => plan.proposed)
    /\ used \in [Counted -> Nat] /\ renders \in Nat
    /\ active \in SUBSET Skills /\ signal \in BOOLEAN
    /\ file \in [Paths -> Nat]

(* The calls of rest are the rows of the log after the k-th. *)
Lined(k, rest) ==
    /\ k = Len(log) - Len(rest) /\ k \in Nat
    /\ \A j \in 1..Len(rest) :
          /\ rest[j].id = k + j
          /\ rest[j].tool = log[k + j].tool /\ rest[j].arg = log[k + j].arg

Numbered ==
    /\ Lined(Past, batch)
    /\ pc \in {"idle", "model"} => batch = <<>>
    /\ Busy => /\ current.id = Past /\ current.id \in DOMAIN log
               /\ current.tool = log[current.id].tool /\ current.arg = log[current.id].arg
    /\ pending = Nobody \/ pending.id \in 1..Past
    /\ pc \in {"ask", "plan"} => pending.id = current.id
    /\ pc \in {"lease", "run"} => pending.id # current.id

CallOf(row) == [tool |-> row.tool, arg |-> row.arg]
Fresh(row) == row.begun = "no" /\ row.answer = "none" /\ row.ends = 0 /\ row.phase = "open"

(* Every row of the log is a call of the menu, made in this turn or before;  *)
(* what the loop left behind in this turn has ended, once.                   *)
Made ==
    \A i \in DOMAIN log :
        /\ CallOf(log[i]) \in Calls /\ log[i].turn >= left.turns
        /\ log[i].ends <= 1
        /\ log[i].phase = "blocked" /\ log[i].tool \notin Relays => ~Begun(log[i])
        /\ i > Past => Fresh(log[i]) /\ log[i].turn = left.turns
        /\ pc # "idle" /\ i <= Past /\ log[i].turn = left.turns =>
              log[i].ends = IF Busy /\ i = current.id THEN 0 ELSE 1
        /\ Busy /\ i = current.id => log[i].turn = left.turns

(* The call in hand is open and was let through, and a question or a lease   *)
(* stands for a word that is still needed.                                   *)
Confirmed(call) == Check(manifest, call).decision = "confirm"
Allowed(call) == Check(manifest, call).decision = "allow"
Serving ==
    Busy =>
        LET row == log[current.id]
        IN  /\ row.ends = 0 /\ row.phase = "open"
            /\ pc # "run" => ~Begun(row)
            /\ pc = "ask" => row.answer = "asked"
            /\ pc = "lease" => row.answer = "lease"
            /\ pc = "plan" <=> current.tool = "todo_write"
            /\ pc = "plan" => plan.proposed
            /\ signal => current.abort # "no"
            /\ current.tool = "use_skill" => current.arg \in Skills
            /\ pc \in {"ask", "lease"} =>
                  /\ Confirmed(current)
                  /\ plan.proposed => plan.approved
                  /\ SkillsAllow(active, current.tool)

-----------------------------------------------------------------------------
(***************************************************************************)
(* The effect of a step on the queue of calls.                             *)
(***************************************************************************)

(* Writing one row of the log leaves the others. *)
LEMMA RowSet ==
    ASSUME log \in Seq(Rows), NEW k \in DOMAIN log, NEW r \in Rows, log' = [log EXCEPT ![k] = r]
    PROVE  /\ log' \in Seq(Rows) /\ Len(log') = Len(log) /\ DOMAIN log' = DOMAIN log
           /\ log'[k] = r /\ \A i \in DOMAIN log : i # k => log'[i] = log[i]
OBVIOUS

(* The call in hand, or the next one, and the calls behind it. *)
About(call, rest) ==
    /\ rest \in Seq(Queued) /\ Lined(call.id, rest)
    /\ call.id \in DOMAIN log /\ call.id = IF Busy THEN Past ELSE Past + 1
    /\ call.tool = log[call.id].tool /\ call.arg = log[call.id].arg
    /\ pc # "idle" /\ log[call.id].ends = 0 /\ log[call.id].phase = "open"

(* The call the loop looks at next is the first of the queue, its row is fresh. *)
LEMMA AboutNext ==
    ASSUME Typed, Numbered, Made, Looking
    PROVE  About(Head(batch), Tail(batch)) /\ Fresh(log[Head(batch).id])
           /\ Head(batch).id = Past + 1
<1>1. /\ batch \in Seq(Queued) /\ log \in Seq(Rows) /\ batch # <<>> /\ pc = "call"
      /\ Past = Len(log) - Len(batch) /\ Past \in Nat
      /\ \A j \in 1..Len(batch) :
            /\ batch[j].id = Past + j
            /\ batch[j].tool = log[Past + j].tool /\ batch[j].arg = log[Past + j].arg
    BY DEF Typed, Numbered, Lined, Looking, Past
<1> HIDE DEF Past
<1>2. /\ Len(batch) \in Nat /\ Len(batch) >= 1 /\ Head(batch) = batch[1] /\ Tail(batch) \in Seq(Queued)
      /\ Len(Tail(batch)) = Len(batch) - 1
      /\ \A j \in 1..Len(Tail(batch)) : Tail(batch)[j] = batch[j + 1]
    BY <1>1
<1>3. /\ Head(batch).id = Past + 1 /\ Past + 1 \in DOMAIN log
      /\ Head(batch).tool = log[Past + 1].tool /\ Head(batch).arg = log[Past + 1].arg
    BY <1>1, <1>2
<1>4. Lined(Past + 1, Tail(batch))
    BY <1>1, <1>2, SMTT(30) DEF Lined
<1>5. Fresh(log[Past + 1])
    BY <1>1, <1>3 DEF Made
<1> QED
    BY <1>1, <1>2, <1>3, <1>4, <1>5 DEF About, Fresh, Busy

(* The call being served is the last one taken from the queue. *)
LEMMA AboutCurrent ==
    ASSUME Typed, Numbered, Made, Serving, Busy
    PROVE  About(current, batch) /\ current.id = Past /\ current \in InHand
BY DEF Typed, Numbered, Serving, Busy, About

(* A step on the call k leaves the calls behind it in the queue, or drops    *)
(* them when the turn ends.                                                  *)
Advance(k, rest) ==
    /\ log' \in Seq(Rows) /\ Len(log') = Len(log)
    /\ \A i \in DOMAIN log : i # k => log'[i] = log[i]
    /\ log'[k].tool = log[k].tool /\ log'[k].arg = log[k].arg /\ log'[k].turn = log[k].turn
    /\ log'[k].phase = "blocked" /\ log[k].tool \notin Relays => ~Begun(log'[k])
    /\ \/ /\ current' = NoCall /\ log'[k].ends = 1
          /\ \/ pc' = "call" /\ batch' = rest
             \/ pc' = "idle" /\ batch' = <<>>
       \/ /\ pc' \in {"ask", "lease", "plan", "run"} /\ batch' = rest
          /\ current' \in InHand /\ current'.id = k
          /\ current'.tool = log[k].tool /\ current'.arg = log[k].arg
          /\ log'[k].ends = 0 /\ log'[k].phase = "open" /\ log[k].turn = left.turns

(* The call is reported. *)
LEMMA EndedEffect ==
    ASSUME Typed, NEW call, NEW rest, About(call, rest), NEW row \in Rows,
           row.tool = call.tool, row.arg = call.arg, row.turn = log[call.id].turn, row.ends = 0,
           NEW phase \in {"blocked", "succeeded", "failed", "cancelled"},
           phase = "blocked" /\ row.tool \notin Relays => ~Begun(row),
           Ended(call, phase, row, rest)
    PROVE  /\ Advance(call.id, rest) /\ ~Busy'
           /\ log'[call.id].phase = phase /\ log'[call.id].begun = row.begun
           /\ log'[call.id].answer = row.answer /\ log'[call.id].seen = row.seen
           /\ log'[call.id].wrote = row.wrote
           /\ pc' = IF phase = "cancelled" THEN "idle" ELSE "call"
<1> DEFINE r == [row EXCEPT !.ends = row.ends + 1, !.phase = phase]
<1>1. /\ r \in Rows /\ r.ends = 1 /\ r.phase = phase /\ r.begun = row.begun /\ r.answer = row.answer
      /\ r.seen = row.seen /\ r.wrote = row.wrote /\ r.turn = row.turn
      /\ r.tool = row.tool /\ r.arg = row.arg
    <2>1. row.ends + 1 = 1 /\ 1 \in Nat
        OBVIOUS
    <2>2. r = [row EXCEPT !.ends = 1, !.phase = phase]
        BY <2>1
    <2> HIDE DEF r
    <2> QED
        BY ONLY <2>2, row \in Rows, phase \in {"blocked", "succeeded", "failed", "cancelled"}
        DEF Rows
<1>2. log' = [log EXCEPT ![call.id] = r]
    BY DEF Ended
<1> HIDE DEF r
<1>3. /\ log' \in Seq(Rows) /\ Len(log') = Len(log) /\ DOMAIN log' = DOMAIN log
      /\ log'[call.id] = r /\ \A i \in DOMAIN log : i # call.id => log'[i] = log[i]
    BY <1>1, <1>2, RowSet DEF Typed, About
<1>4. /\ current' = NoCall
      /\ IF phase = "cancelled" THEN pc' = "idle" /\ batch' = <<>> ELSE pc' = "call" /\ batch' = rest
    BY DEF Ended
<1> QED
    BY <1>1, <1>3, <1>4 DEF Advance, Begun, Busy, About

(* The tool is called: it is done at once, or the loop waits for it. *)
LEMMA OperateEffect ==
    ASSUME Typed, NEW call \in InHand, NEW rest, About(call, rest),
           log[call.id].turn = left.turns, call.tool = "write_file" => call.arg \in Paths,
           NEW by \in Words, Operate(call, by, rest)
    PROVE  /\ Advance(call.id, rest)
           /\ pc' \in {"call", "run"} /\ (pc' = "run" => current' = call)
           /\ log'[call.id].begun = by /\ log'[call.id].seen = call.seen
           /\ log'[call.id].answer = IF by = "gateway" THEN log[call.id].answer ELSE by
           /\ log'[call.id].wrote => file[call.arg] = call.seen
           /\ call.tool \in SyncTools <=> pc' = "call"
           /\ file' \in [Paths -> Nat]
           /\ active' = IF call.tool = "use_skill" THEN active \cup {call.arg} ELSE active
<1> DEFINE wrote == call.tool = "write_file" /\ file[call.arg] = call.seen
           row == [log[call.id] EXCEPT !.begun = by, !.seen = call.seen, !.wrote = wrote,
                                       !.answer = IF by = "gateway" THEN @ ELSE by]
           old == log[call.id]
<1>1. /\ old \in Rows /\ old.tool = call.tool /\ old.arg = call.arg /\ old.ends = 0
      /\ old.phase = "open" /\ call.seen \in Nat
    BY DEF Typed, About, InHand
<1>2. /\ row \in Rows /\ row.tool = call.tool /\ row.arg = call.arg /\ row.turn = old.turn
      /\ row.ends = 0 /\ row.phase = "open" /\ row.begun = by /\ row.seen = call.seen
      /\ row.wrote = wrote /\ row.answer = IF by = "gateway" THEN old.answer ELSE by
    <2>1. wrote \in BOOLEAN
        OBVIOUS
    <2>2. row = [old EXCEPT !.begun = by, !.seen = call.seen, !.wrote = wrote,
                            !.answer = IF by = "gateway" THEN old.answer ELSE by]
        BY <1>1 DEF Rows
    <2> HIDE DEF row, old, wrote
    <2>3. row \in Rows
        BY <1>1, <2>1, <2>2 DEF Rows, Words
    <2>4. row.wrote = wrote
        BY <1>1, <2>2 DEF Rows
    <2>5. row.answer = IF by = "gateway" THEN old.answer ELSE by
        BY <1>1, <2>2 DEF Rows
    <2> QED
        BY <1>1, <2>2, <2>3, <2>4, <2>5 DEF Rows
<1>3. /\ file' = IF wrote THEN [file EXCEPT ![call.arg] = @ + 1] ELSE file
      /\ IF call.tool \in SyncTools
         THEN \E phase \in Reported(call.tool) : Ended(call, phase, row, rest)
         ELSE /\ pc' = "run" /\ current' = call /\ batch' = rest
              /\ log' = [log EXCEPT ![call.id] = row]
              /\ UNCHANGED active
    BY DEF Operate
<1>4. file' \in [Paths -> Nat]
    BY <1>3 DEF Typed
<1>5. row.wrote => file[call.arg] = call.seen
    BY <1>2
<1> HIDE DEF row, old
<1>6. CASE call.tool \in SyncTools
    <2>1. PICK phase \in {"succeeded", "blocked"} :
                 /\ Ended(call, phase, row, rest)
                 /\ phase = "blocked" => call.tool \in Relays
        BY <1>3, <1>6 DEF Reported
    <2>2. active' = IF call.tool = "use_skill" THEN active \cup {call.arg} ELSE active
        BY <2>1 DEF Ended, Relays
    <2>3. /\ Advance(call.id, rest)
          /\ log'[call.id].begun = row.begun
          /\ log'[call.id].answer = row.answer /\ log'[call.id].seen = row.seen
          /\ log'[call.id].wrote = row.wrote /\ pc' = "call"
        BY <2>1, <1>1, <1>2, EndedEffect DEF old
    <2> QED
        BY <1>2, <1>4, <1>5, <1>6, <2>2, <2>3 DEF old
<1>7. CASE call.tool \notin SyncTools
    <2>1. /\ log' \in Seq(Rows) /\ Len(log') = Len(log)
          /\ log'[call.id] = row /\ \A i \in DOMAIN log : i # call.id => log'[i] = log[i]
        BY <1>2, <1>3, <1>7, RowSet DEF Typed, About
    <2>2. Advance(call.id, rest)
        BY <1>1, <1>2, <1>3, <1>7, <2>1 DEF Advance, About, old
    <2>3. active' = active /\ call.tool # "use_skill" /\ pc' = "run" /\ current' = call
        BY <1>3, <1>7 DEF SyncTools
    <2> QED
        BY <1>2, <1>4, <1>5, <1>7, <2>1, <2>2, <2>3 DEF old
<1> QED
    BY <1>6, <1>7

(* The parts of the type invariant that the queue is made of. *)
QueueTyped ==
    /\ pc \in {"idle", "model", "call", "ask", "lease", "plan", "run"}
    /\ batch \in Seq(Queued) /\ log \in Seq(Rows)
    /\ IF Busy THEN current \in InHand ELSE current = NoCall

(* A step on a call keeps the numbering and what is known of the rows. *)
LEMMA AdvanceKeeps ==
    ASSUME Typed, Numbered, Made, NEW call, NEW rest, About(call, rest), Advance(call.id, rest),
           left'.turns = left.turns, pc' \in {"lease", "run"} => pending'.id # call.id,
           pc' \in {"ask", "plan"} => pending'.id = call.id,
           pending' \in {pending, Nobody} \/ pending'.id = call.id
    PROVE  QueueTyped' /\ Numbered' /\ Made'
<1> DEFINE k == call.id
<1>1. /\ log \in Seq(Rows) /\ log' \in Seq(Rows) /\ Len(log') = Len(log) /\ DOMAIN log' = DOMAIN log
      /\ k \in DOMAIN log /\ rest \in Seq(Queued)
      /\ \A i \in DOMAIN log : i # k => log'[i] = log[i]
      /\ log'[k].tool = log[k].tool /\ log'[k].arg = log[k].arg /\ log'[k].turn = log[k].turn
    BY DEF Typed, About, Advance
<1>2. \A i \in DOMAIN log : /\ log'[i].tool = log[i].tool /\ log'[i].arg = log[i].arg
                            /\ log'[i].turn = log[i].turn
    BY <1>1
<1>3. /\ k = Len(log) - Len(rest) /\ Past \in Nat /\ k \in Nat
      /\ k = IF Busy THEN Past ELSE Past + 1
      /\ \A j \in 1..Len(rest) :
            rest[j].id = k + j /\ rest[j].tool = log[k + j].tool /\ rest[j].arg = log[k + j].arg
    BY DEF About, Lined, Numbered
<1>4. ASSUME batch' = rest
      PROVE  Past' = k /\ Lined(Past, batch)'
    <2>1. Past' = k
        BY <1>1, <1>3, <1>4 DEF Past
    <2>2. \A j \in 1..Len(rest) : k + j \in DOMAIN log
        BY <1>1, <1>3
    <2>3. \A j \in 1..Len(rest) : log'[k + j].tool = log[k + j].tool /\ log'[k + j].arg = log[k + j].arg
        BY <1>2, <2>2
    <2>4. Lined(Past, batch)' <=>
             /\ k = Len(log') - Len(rest) /\ k \in Nat
             /\ \A j \in 1..Len(rest) :
                  /\ rest[j].id = k + j
                  /\ rest[j].tool = log'[k + j].tool /\ rest[j].arg = log'[k + j].arg
        BY <1>4, <2>1 DEF Lined
    <2>5. k = Len(log') - Len(rest)
        BY <1>1, <1>3
    <2> QED
        BY <1>3, <2>1, <2>3, <2>4, <2>5
<1>5. ASSUME batch' = <<>>
      PROVE  Past' = Len(log) /\ Lined(Past, batch)'
    BY <1>1, <1>5 DEF Past, Lined
<1>6. \/ /\ current' = NoCall /\ log'[k].ends = 1 /\ ~Busy'
         /\ \/ pc' = "call" /\ batch' = rest
            \/ pc' = "idle" /\ batch' = <<>>
      \/ /\ pc' \in {"ask", "lease", "plan", "run"} /\ batch' = rest /\ Busy'
         /\ current' \in InHand /\ current'.id = k
         /\ current'.tool = log[k].tool /\ current'.arg = log[k].arg
         /\ log'[k].ends = 0 /\ log'[k].phase = "open" /\ log[k].turn = left.turns
    BY DEF Advance, Busy
<1>7. /\ Lined(Past, batch)' /\ batch' \in Seq(Queued) /\ k <= Past' /\ Past' \in Nat
      /\ batch' = rest \/ (pc' = "idle" /\ batch' = <<>>)
      /\ batch' = rest => Past' = k
    <2>1. k <= Len(log) /\ Len(log) \in Nat
        BY <1>1
    <2>2. Lined(Past, batch)'
        BY <1>4, <1>5, <1>6
    <2>3. batch' = rest \/ (pc' = "idle" /\ batch' = <<>>)
        BY <1>6
    <2>4. batch' \in Seq(Queued)
        <3>1. rest \in Seq(Queued) /\ <<>> \in Seq(Queued)
            BY <1>1
        <3> QED
            BY ONLY <2>3, <3>1
    <2>5. batch' = rest => Past' = k
        BY <1>4
    <2>6. k <= Past' /\ Past' \in Nat
        BY <1>3, <1>5, <2>1, <2>3, <2>5
    <2> QED
        BY <2>2, <2>3, <2>4, <2>5, <2>6
<1>8. Numbered'
    <2>1. pending' = Nobody \/ pending'.id \in 1..Past'
        <3>1. CASE pending' \in {pending, Nobody}
            BY <1>3, <1>7, <3>1 DEF Numbered
        <3>2. CASE pending'.id = k
            <4>1. 1 <= k
                BY <1>1
            <4> HIDE DEF k
            <4> QED
                BY <1>3, <1>7, <3>2, <4>1
        <3> QED
            BY <3>1, <3>2
    <2>2. Busy' => /\ current'.id = Past' /\ current'.id \in DOMAIN log'
                   /\ current'.tool = log'[current'.id].tool
                   /\ current'.arg = log'[current'.id].arg
        BY <1>1, <1>6, <1>7
    <2>3. pc' \in {"idle", "model"} => batch' = <<>>
        BY <1>6
    <2>4. /\ pc' \in {"ask", "plan"} => pending'.id = current'.id
          /\ pc' \in {"lease", "run"} => pending'.id # current'.id
        BY <1>6
    <2> QED
        BY <1>7, <2>1, <2>2, <2>3, <2>4 DEF Numbered
<1>9. Made'
    <2> SUFFICES ASSUME NEW i \in DOMAIN log
                 PROVE  /\ CallOf(log'[i]) \in Calls /\ log'[i].turn >= left'.turns
                        /\ log'[i].ends <= 1
                        /\ log'[i].phase = "blocked" /\ log'[i].tool \notin Relays => ~Begun(log'[i])
                        /\ i > Past' => Fresh(log'[i]) /\ log'[i].turn = left'.turns
                        /\ pc' # "idle" /\ i <= Past' /\ log'[i].turn = left'.turns =>
                              log'[i].ends = IF Busy' /\ i = current'.id THEN 0 ELSE 1
                        /\ Busy' /\ i = current'.id => log'[i].turn = left'.turns
        BY <1>1 DEF Made, CallOf, Begun, Fresh
    <2>1. /\ CallOf(log'[i]) \in Calls /\ log'[i].turn >= left.turns
        BY <1>2 DEF Made, CallOf
    <2>2. log[i] \in Rows /\ log[i].ends \in Nat /\ i \in Nat /\ Past' \in Nat /\ left.turns \in Nat
        <3>1. log[i] \in Rows /\ i \in Nat
            BY <1>1
        <3>2. left.turns \in Nat
            BY DEF Typed, Left
        <3> QED
            BY <1>7, <3>1, <3>2 DEF Rows
    <2>3. CASE i = k
        BY <1>2, <1>3, <1>6, <1>7, <2>1, <2>2, <2>3 DEF Advance
    <2>4. CASE i # k
        <3>1. log'[i] = log[i]
            BY <1>1, <2>4
        <3>2. i > Past' => i > Past
            BY <1>3, <1>7, <2>2
        <3>3. i <= Past' /\ pc' # "idle" => i <= Past
            BY <1>3, <1>6, <1>7, <2>2, <2>4
        <3>4. Busy /\ i = current.id => FALSE
            BY <1>3, <2>2, <2>4 DEF Numbered
        <3> QED
            BY <1>6, <2>1, <2>2, <2>4, <3>1, <3>2, <3>3, <3>4 DEF Made, About
    <2> QED
        BY <2>3, <2>4
<1>10. QueueTyped'
    BY <1>1, <1>6, <1>7 DEF QueueTyped
<1> QED
    BY <1>8, <1>9, <1>10

-----------------------------------------------------------------------------
(***************************************************************************)
(* The effect of the actions.                                              *)
(***************************************************************************)

(* A call the loop goes on with was let through by the gateway, the skills,  *)
(* the plan and the limit.                                                   *)
LEMMA Through ==
    ASSUME Typed, Numbered, Made, Looking, NEW call, call = Head(batch),
           NEW d, d = Decision(call), d.decision # "deny"
    PROVE  /\ d = Check(manifest, call) /\ d = Check(manifest, CallOf(log[call.id]))
           /\ d = Check(manifest, log[call.id])
           /\ CallOf(log[call.id]) \in Calls
           /\ d.decision \in {"allow", "confirm"}
           /\ call.tool \in {"read_file", "list_files", "write_file"} => call.arg \in Paths
           /\ call.tool = "use_skill" => call.arg \in Skills
           /\ SkillsAllow(active, call.tool)
           /\ call.tool # "todo_write" /\ plan.proposed => plan.approved
           /\ ~(d.max > 0 /\ used[d.capability] >= d.max)
<1>1. /\ d = Check(manifest, call) /\ SkillsAllow(active, call.tool)
      /\ call.tool # "todo_write" /\ plan.proposed => plan.approved
      /\ ~(d.max > 0 /\ used[d.capability] >= d.max)
    BY DEF Decision, Refusal
<1>2. About(call, Tail(batch))
    BY AboutNext
<1> DEFINE row == log[call.id]
<1>3. call.tool = row.tool /\ call.arg = row.arg /\ call.id \in DOMAIN log
    BY <1>2 DEF About
<1>4. CallOf(row) \in Calls /\ CallOf(row).tool = row.tool /\ CallOf(row).arg = row.arg
    BY <1>3 DEF Made, CallOf
<1>5. d = Check(manifest, CallOf(row)) /\ d = Check(manifest, row)
    BY <1>1, <1>3, <1>4, SameCheck
<1>6. /\ d.decision \in {"allow", "confirm"}
      /\ row.tool \in {"read_file", "list_files", "write_file"} => row.arg \in Paths
      /\ row.tool = "use_skill" => row.arg \in Skills
    <2>1. manifest \in Manifests
        BY DEF Typed
    <2> QED
        BY <1>4, <1>5, <2>1, Obeyed
<1> QED
    BY <1>1, <1>3, <1>4, <1>5, <1>6

(* Counting up keeps a function of numbers one, wherever it counts. *)
LEMMA CountUp ==
    ASSUME NEW S, NEW f \in [S -> Nat], NEW x
    PROVE  /\ [f EXCEPT ![x] = f[x] + 1] \in [S -> Nat]
           /\ \A c \in S : [f EXCEPT ![x] = f[x] + 1][c] = IF c = x THEN f[c] + 1 ELSE f[c]
<1> DEFINE g == [f EXCEPT ![x] = f[x] + 1]
<1>1. \A c \in S : g[c] = IF c = x THEN f[c] + 1 ELSE f[c]
    OBVIOUS
<1>2. g = [c \in S |-> g[c]]
    OBVIOUS
<1>3. \A c \in S : f[c] \in Nat
    OBVIOUS
<1> HIDE DEF g
<1>4. \A c \in S : g[c] \in Nat
    BY <1>1, <1>3
<1>5. g \in [S -> Nat]
    BY <1>2, <1>4
<1> QED
    BY <1>1, <1>5 DEF g

(* The counts only grow. *)
LEMMA CountsGrow ==
    ASSUME used \in [Counted -> Nat], NEW d
    PROVE  /\ Counting(d) \in [Counted -> Nat]
           /\ \A c \in Counted : /\ Counting(d)[c] >= used[c]
                                 /\ d.max > 0 /\ d.capability = c => Counting(d)[c] = used[c] + 1
<1>1. CASE d.max > 0
    <2>1. Counting(d) = [used EXCEPT ![d.capability] = used[d.capability] + 1]
        BY <1>1 DEF Counting
    <2>2. \A c \in Counted : used[c] \in Nat
        OBVIOUS
    <2>3. /\ Counting(d) \in [Counted -> Nat]
          /\ \A c \in Counted : Counting(d)[c] = IF c = d.capability THEN used[c] + 1 ELSE used[c]
        BY <2>1, CountUp
    <2> QED
        BY <2>2, <2>3
<1>2. CASE ~(d.max > 0)
    <2>1. Counting(d) = used
        BY <1>2 DEF Counting
    <2>2. \A c \in Counted : used[c] \in Nat
        OBVIOUS
    <2> QED
        BY <1>2, <2>1, <2>2
<1> QED
    BY <1>1, <1>2

(* A call the gateway or a limit refuses: it is reported without an effect or
   an answer, and no counter goes down. *)
LEMMA BlockEffect ==
    ASSUME Typed, Numbered, Made, Block
    PROVE  /\ Looking /\ About(Head(batch), Tail(batch)) /\ Advance(Head(batch).id, Tail(batch))
           /\ Head(batch).id = Past + 1 /\ Fresh(log[Head(batch).id]) /\ ~Busy'
           /\ log'[Head(batch).id].begun = "no" /\ log'[Head(batch).id].answer = "none"
           /\ used' \in [Counted -> Nat] /\ \A c \in Counted : used'[c] >= used[c]
           /\ renders' \in Nat /\ renders' >= renders
           /\ active' = active
           /\ UNCHANGED <<left, manifest, plan, signal, pending, leases, file>>
<1> DEFINE call == Head(batch)
<1>1. /\ Looking
      /\ used' = used \/ used' = Counting(Decision(call))
      /\ renders' \in {renders, renders + 1}
      /\ Ended(call, "blocked", log[call.id], Tail(batch))
      /\ UNCHANGED <<left, manifest, plan, signal, pending, leases, file>>
    BY DEF Block
<1>2. About(call, Tail(batch)) /\ Fresh(log[call.id]) /\ call.id = Past + 1
    BY <1>1, AboutNext
<1>3. /\ log[call.id] \in Rows /\ log[call.id].tool = call.tool /\ log[call.id].arg = call.arg
      /\ log[call.id].ends = 0 /\ ~Begun(log[call.id])
    BY <1>2 DEF About, Typed, Fresh, Begun
<1>4. /\ Advance(call.id, Tail(batch)) /\ ~Busy'
      /\ log'[call.id].begun = log[call.id].begun /\ log'[call.id].answer = log[call.id].answer
    BY <1>1, <1>2, <1>3, EndedEffect
<1>5. used' \in [Counted -> Nat] /\ \A c \in Counted : used'[c] >= used[c]
    <2>1. used \in [Counted -> Nat]
        BY DEF Typed
    <2>2. CASE used' = used
        <3>1. \A c \in Counted : used[c] \in Nat
            BY <2>1
        <3> QED
            BY <2>1, <2>2, <3>1
    <2>3. CASE used' = Counting(Decision(call))
        BY <2>1, <2>3, CountsGrow
    <2> QED
        BY <1>1, <2>2, <2>3
<1>6. renders' \in Nat /\ renders' >= renders
    BY <1>1 DEF Typed
<1>7. active' = active
    BY <1>1 DEF Ended
<1> QED
    BY <1>1, <1>2, <1>4, <1>5, <1>6, <1>7 DEF Fresh

(* What Take puts in the loop's hand. *)
Taking(call, d) ==
    [id |-> call.id, tool |-> call.tool, arg |-> call.arg, timed |-> d.timed, abort |-> "no",
     seen |-> IF call.tool = "write_file" THEN file[call.arg] ELSE 0]

(* A call that is let through: it runs, or waits for its lease or for the user,
   with what was decided and shown about it. *)
LEMMA TakeEffect ==
    ASSUME Typed, Numbered, Made, Take, NEW call, call = Head(batch), NEW d, d = Decision(call)
    PROVE  /\ Looking /\ About(call, Tail(batch)) /\ Advance(call.id, Tail(batch))
           /\ call.id = Past + 1 /\ Fresh(log[call.id]) /\ log[call.id].turn = left.turns
           /\ d.decision \in {"allow", "confirm"} /\ call.tool # "todo_write"
           /\ ~OverRendered(call)
           /\ Busy' => current' = Taking(call, d)
           /\ \/ /\ d.decision = "allow" /\ pc' \in {"call", "run"} /\ pending' = pending
                 /\ log'[call.id].begun = "gateway" /\ log'[call.id].answer = "none"
                 /\ log'[call.id].wrote => file[call.arg] = log'[call.id].seen
              \/ /\ d.decision = "confirm" /\ pc' = "lease" /\ pending' = pending
                 /\ \E lease \in leases : Matches(lease, call, "confirm")
                 /\ log'[call.id].begun = "no" /\ log'[call.id].answer = "lease"
                 /\ active' = active
              \/ /\ d.decision = "confirm" /\ pc' = "ask"
                 /\ pending' = [id |-> call.id, lease |-> Proposed(call, "confirm")]
                 /\ log'[call.id].begun = "no" /\ log'[call.id].answer = "asked"
                 /\ active' = active
           /\ active' \in SUBSET Skills /\ file' \in [Paths -> Nat]
           /\ used' = Counting(d)
           /\ renders' = IF call.tool = "browser_render" THEN renders + 1 ELSE renders
           /\ UNCHANGED <<left, manifest, plan, signal, leases>>
<1> DEFINE c == Taking(call, d)
           old == log[call.id]
<1>1. /\ Looking /\ d.decision # "deny" /\ ~OverRendered(call) /\ call.tool # "todo_write"
      /\ used' = Counting(d)
      /\ renders' = IF call.tool = "browser_render" THEN renders + 1 ELSE renders
      /\ IF d.decision = "allow"
         THEN Operate(c, "gateway", Tail(batch)) /\ UNCHANGED pending
         ELSE /\ current' = c /\ batch' = Tail(batch)
              /\ IF \E lease \in leases : Matches(lease, call, d.decision)
                 THEN /\ pc' = "lease"
                      /\ log' = [log EXCEPT ![c.id].answer = "lease"]
                      /\ UNCHANGED pending
                 ELSE /\ pc' = "ask"
                      /\ pending' = [id |-> c.id, lease |-> Proposed(call, d.decision)]
                      /\ log' = [log EXCEPT ![c.id].answer = "asked"]
              /\ UNCHANGED <<active, file>>
      /\ UNCHANGED <<left, manifest, plan, signal, leases>>
    BY DEF Take, Taking
<1>2. /\ About(call, Tail(batch)) /\ Fresh(old) /\ call.id = Past + 1
      /\ d = Check(manifest, call) /\ d.decision \in {"allow", "confirm"}
      /\ call.tool \in {"read_file", "list_files", "write_file"} => call.arg \in Paths
      /\ call.tool = "use_skill" => call.arg \in Skills
    BY <1>1, AboutNext, Through
<1>3. /\ old \in Rows /\ old.turn = left.turns /\ call.id \in DOMAIN log /\ old.begun = "no"
      /\ old.answer = "none" /\ old.ends = 0 /\ old.phase = "open"
      /\ call.tool = old.tool /\ call.arg = old.arg
    <2>1. /\ call.id \in DOMAIN log /\ call.tool = old.tool /\ call.arg = old.arg
          /\ Past \in Nat
        BY <1>2 DEF About, Numbered, Lined
    <2>2. old \in Rows
        BY <2>1 DEF Typed
    <2>3. old.turn = left.turns
        BY <1>2, <2>1 DEF Made
    <2> QED
        BY <1>2, <2>1, <2>2, <2>3 DEF Fresh
<1>4. /\ c \in InHand /\ c.id = call.id /\ c.tool = call.tool /\ c.arg = call.arg
      /\ c.abort = "no"
    <2>1. d.timed \in BOOLEAN
        BY <1>2, CheckTyped
    <2>2. (IF call.tool = "write_file" THEN file[call.arg] ELSE 0) \in Nat
        BY <1>2 DEF Typed
    <2>3. call.id \in Nat /\ call.tool \in Tools /\ call.arg \in Args
        BY <1>3 DEF Typed, Rows
    <2> QED
        BY <2>1, <2>2, <2>3 DEF InHand, Taking
<1> HIDE DEF c
<1>5. About(c, Tail(batch))
    BY <1>2, <1>4 DEF About
<1>6. CASE d.decision = "allow"
    <2>1. /\ Advance(call.id, Tail(batch))
          /\ pc' \in {"call", "run"} /\ (pc' = "run" => current' = c)
          /\ log'[call.id].begun = "gateway" /\ log'[call.id].seen = c.seen
          /\ log'[call.id].answer = "none"
          /\ log'[call.id].wrote => file[call.arg] = c.seen
          /\ file' \in [Paths -> Nat]
          /\ active' = IF call.tool = "use_skill" THEN active \cup {call.arg} ELSE active
        <3>1. Operate(c, "gateway", Tail(batch)) /\ "gateway" \in Words
            BY <1>1, <1>6 DEF Words
        <3>2. c.tool = "write_file" => c.arg \in Paths
            BY <1>2, <1>4
        <3> QED
            BY <1>3, <1>4, <1>5, <3>1, <3>2, OperateEffect
    <2>2. active' \in SUBSET Skills
        BY <1>2, <2>1 DEF Typed
    <2>3. Busy' => current' = c
        BY <2>1 DEF Busy
    <2> QED
        BY <1>1, <1>2, <1>3, <1>6, <2>1, <2>2, <2>3 DEF c
<1>7. CASE d.decision # "allow"
    <2> DEFINE word == IF pc' = "lease" THEN "lease" ELSE "asked"
               r == [old EXCEPT !.answer = word]
    <2>1. /\ d.decision = "confirm" /\ current' = c /\ batch' = Tail(batch) /\ pc' \in {"lease", "ask"}
          /\ log' = [log EXCEPT ![call.id] = r]
          /\ \/ /\ pc' = "lease" /\ UNCHANGED pending
                /\ \E lease \in leases : Matches(lease, call, "confirm")
             \/ /\ pc' = "ask"
                /\ pending' = [id |-> call.id, lease |-> Proposed(call, "confirm")]
          /\ UNCHANGED <<active, file>>
        BY <1>1, <1>2, <1>4, <1>7
    <2>2. /\ r \in Rows /\ r.answer = word /\ r.begun = "no" /\ r.ends = 0 /\ r.phase = "open"
          /\ r.tool = old.tool /\ r.arg = old.arg /\ r.turn = old.turn
        BY <1>3 DEF Rows
    <2> HIDE DEF r
    <2>3. /\ log' \in Seq(Rows) /\ Len(log') = Len(log) /\ log'[call.id] = r
          /\ \A i \in DOMAIN log : i # call.id => log'[i] = log[i]
        BY <1>3, <2>1, <2>2, RowSet DEF Typed
    <2>4. Advance(call.id, Tail(batch))
        BY <1>3, <1>4, <2>1, <2>2, <2>3 DEF Advance
    <2>5. active' \in SUBSET Skills /\ file' \in [Paths -> Nat]
        BY <2>1 DEF Typed
    <2> QED
        BY <1>1, <1>2, <1>3, <2>1, <2>2, <2>3, <2>4, <2>5 DEF c
<1> QED
    BY <1>6, <1>7

(* A plan that is proposed has no effect of its own: it is shown, or waits for
   the user. *)
LEMMA ProposeEffect ==
    ASSUME Typed, Numbered, Made, Propose, NEW call, call = Head(batch)
    PROVE  /\ Looking /\ About(call, Tail(batch)) /\ Advance(call.id, Tail(batch))
           /\ call.id = Past + 1 /\ Fresh(log[call.id]) /\ call.tool = "todo_write"
           /\ log'[call.id].begun = "no" /\ log'[call.id].answer = "none"
           /\ \/ ~Busy' /\ pending' = pending
              \/ /\ pc' = "plan" /\ current'.abort = "no"
                 /\ pending' = [id |-> call.id, lease |-> None]
           /\ plan' \in [proposed : BOOLEAN, approved : BOOLEAN] /\ plan'.proposed
           /\ active' = active
           /\ UNCHANGED <<left, manifest, used, renders, signal, leases, file>>
<1> DEFINE asks == call.arg = "long" /\ ~plan.approved
           hand == [id |-> call.id, tool |-> call.tool, arg |-> call.arg,
                    timed |-> FALSE, abort |-> "no", seen |-> 0]
           old == log[call.id]
<1>1. /\ Looking /\ call.tool = "todo_write"
      /\ plan' = [proposed |-> TRUE, approved |-> ~asks]
      /\ IF asks
         THEN /\ pc' = "plan" /\ batch' = Tail(batch) /\ current' = hand
              /\ pending' = [id |-> call.id, lease |-> None]
              /\ UNCHANGED <<log, active>>
         ELSE Ended(call, "succeeded", old, Tail(batch)) /\ UNCHANGED pending
      /\ UNCHANGED <<left, manifest, used, renders, signal, leases, file>>
    BY DEF Propose
<1>2. About(call, Tail(batch)) /\ Fresh(old) /\ call.id = Past + 1
    BY <1>1, AboutNext
<1>3. /\ old \in Rows /\ call.id \in DOMAIN log /\ call.tool = old.tool /\ call.arg = old.arg
      /\ old.turn = left.turns /\ ~Begun(old) /\ log \in Seq(Rows)
    <2>1. /\ call.id \in DOMAIN log /\ call.tool = old.tool /\ call.arg = old.arg /\ Past \in Nat
        BY <1>2 DEF About, Numbered, Lined
    <2>2. old \in Rows /\ log \in Seq(Rows)
        BY <2>1 DEF Typed
    <2>3. old.turn = left.turns
        BY <1>2, <2>1 DEF Made
    <2> QED
        BY <1>2, <2>1, <2>2, <2>3 DEF Fresh, Begun
<1>4. plan' \in [proposed : BOOLEAN, approved : BOOLEAN] /\ plan'.proposed
    BY <1>1
<1>5. CASE asks
    <2>1. hand \in InHand /\ hand.id = call.id /\ hand.tool = call.tool /\ hand.arg = call.arg /\ hand.abort = "no"
        BY <1>3 DEF InHand, Rows
    <2> HIDE DEF hand
    <2>2. Advance(call.id, Tail(batch))
        BY <1>1, <1>2, <1>3, <1>5, <2>1 DEF Advance, Fresh
    <2> QED
        BY <1>1, <1>2, <1>3, <1>4, <1>5, <2>1, <2>2 DEF Fresh
<1>6. CASE ~asks
    <2>1. Ended(call, "succeeded", old, Tail(batch)) /\ UNCHANGED pending
        BY <1>1, <1>6
    <2>2. active' = active
        BY <1>1, <2>1 DEF Ended
    <2>3. /\ Advance(call.id, Tail(batch)) /\ ~Busy'
          /\ log'[call.id].begun = old.begun /\ log'[call.id].answer = old.answer
        BY <2>1, <1>2, <1>3, EndedEffect DEF About
    <2> QED
        BY <1>1, <1>2, <1>4, <2>1, <2>2, <2>3 DEF Fresh
<1> QED
    BY <1>5, <1>6

(* The call in hand is reported. *)
LEMMA CloseEffect ==
    ASSUME Typed, Numbered, Made, Serving, Busy,
           NEW row, NEW word,
           row = log[current.id]
              \/ (row = [log[current.id] EXCEPT !.answer = word] /\ word \in {"yes", "no", "session"}),
           NEW phase \in {"blocked", "succeeded", "failed", "cancelled"},
           phase = "blocked" /\ current.tool \notin Relays => pc = "ask",
           Ended(current, phase, row, batch)
    PROVE  /\ About(current, batch) /\ Advance(current.id, batch) /\ ~Busy'
           /\ pc' = IF phase = "cancelled" THEN "idle" ELSE "call"
           /\ log'[current.id].begun = log[current.id].begun
           /\ log'[current.id].answer = row.answer
           /\ log'[current.id].wrote = log[current.id].wrote
           /\ active' \in SUBSET Skills
<1>1. About(current, batch) /\ current \in InHand
    BY AboutCurrent
<1>2. log[current.id] \in Rows /\ log[current.id].ends = 0
    BY <1>1 DEF About, Typed
<1>3. /\ row \in Rows /\ row.tool = log[current.id].tool /\ row.arg = log[current.id].arg
      /\ row.turn = log[current.id].turn /\ row.ends = 0 /\ row.begun = log[current.id].begun
      /\ row.wrote = log[current.id].wrote
    BY <1>2 DEF Rows
<1>4. row.tool = current.tool /\ row.arg = current.arg
    BY <1>1, <1>3 DEF About
<1>5. phase = "blocked" /\ row.tool \notin Relays => ~Begun(row)
    BY <1>3, <1>4 DEF Serving, Begun
<1>6. active' \in SUBSET Skills
    BY DEF Ended, Serving, Typed
<1> QED
    BY <1>1, <1>3, <1>4, <1>5, <1>6, EndedEffect

(* The call in hand goes on. *)
LEMMA GoEffect ==
    ASSUME Typed, Numbered, Made, Serving, pc \in {"ask", "lease"}, NEW by \in {"yes", "session", "lease"},
           Operate(current, by, batch)
    PROVE  /\ About(current, batch) /\ Advance(current.id, batch)
           /\ pc' \in {"call", "run"} /\ (pc' = "run" => current' = current)
           /\ log'[current.id].begun = by /\ log'[current.id].answer = by
           /\ log'[current.id].wrote => file[current.arg] = log'[current.id].seen
           /\ file' \in [Paths -> Nat]
           /\ active' \in SUBSET Skills
<1>1. About(current, batch) /\ current \in InHand /\ Busy
    BY AboutCurrent DEF Busy
<1> DEFINE row == log[current.id]
<1>2. /\ row.tool = current.tool /\ row.arg = current.arg /\ row.turn = left.turns
      /\ current.id \in DOMAIN log
    BY <1>1 DEF About, Made
<1>3. /\ Check(manifest, CallOf(row)).decision = "confirm" /\ CallOf(row) \in Calls
      /\ CallOf(row).tool = row.tool /\ CallOf(row).arg = row.arg
    <2>1. CallOf(row) \in Calls /\ CallOf(row).tool = row.tool /\ CallOf(row).arg = row.arg
        BY <1>2 DEF Made, CallOf
    <2>2. Confirmed(current)
        BY <1>1 DEF Serving
    <2>3. Check(manifest, CallOf(row)) = Check(manifest, current)
        BY <1>2, <2>1, SameCheck
    <2> QED
        BY <2>1, <2>2, <2>3 DEF Confirmed
<1>4. current.tool = "write_file" => current.arg \in Paths
    <2>1. manifest \in Manifests
        BY DEF Typed
    <2> QED
        BY <1>2, <1>3, <2>1, Obeyed
<1>5. current.tool = "use_skill" => current.arg \in Skills
    BY <1>1 DEF Serving
<1>6. by \in Words
    BY DEF Words
<1>7. /\ Advance(current.id, batch)
      /\ pc' \in {"call", "run"} /\ (pc' = "run" => current' = current)
      /\ log'[current.id].begun = by /\ log'[current.id].seen = current.seen
      /\ log'[current.id].answer = by
      /\ log'[current.id].wrote => file[current.arg] = current.seen
      /\ file' \in [Paths -> Nat]
      /\ active' = IF current.tool = "use_skill" THEN active \cup {current.arg} ELSE active
    BY <1>1, <1>2, <1>4, <1>6, OperateEffect
<1>8. active' \in SUBSET Skills
    BY <1>5, <1>7 DEF Typed
<1> QED
    BY <1>1, <1>7, <1>8

(* The user's answer is written into the row of the call that asked, and adds
   at most the lease that was offered. *)
LEMMA AnswerEffect ==
    ASSUME Typed, Numbered, Made, Serving, Answer
    PROVE  /\ pending # Nobody /\ pending' = Nobody /\ pending.id \in 1..Past
           /\ UNCHANGED <<left, manifest, used, renders, signal>>
           /\ file' \in [Paths -> Nat] /\ active' \in SUBSET Skills
           /\ plan' \in [proposed : BOOLEAN, approved : BOOLEAN] /\ (plan'.approved => plan'.proposed)
           /\ \E word \in {"yes", "no", "session"} :
                 /\ word = "session" => pending.lease # None
                 /\ leases' = IF word = "session" THEN leases \cup {pending.lease} ELSE leases
                 /\ log'[pending.id].answer = word
                 /\ \/ /\ pending.id # current.id
                       /\ log' = [log EXCEPT ![pending.id] = [log[pending.id] EXCEPT !.answer = word]]
                       /\ UNCHANGED <<pc, batch, current, plan, active, file>>
                    \/ /\ pending.id = current.id /\ Busy /\ About(current, batch)
                       /\ Advance(current.id, batch)
                       /\ \/ ~Busy' /\ log'[current.id].begun = log[current.id].begun
                          \/ /\ pc = "ask" /\ current.abort = "no" /\ word # "no"
                             /\ log'[current.id].begun = word
                             /\ log'[current.id].wrote => file[current.arg] = log'[current.id].seen
                             /\ pc' \in {"call", "run"} /\ (pc' = "run" => current' = current)
                             /\ plan' = plan
<1>1. PICK word \in {"yes", "no", "session"} :
          /\ word = "session" => pending.lease # None
          /\ leases' = IF word = "session" THEN leases \cup {pending.lease} ELSE leases
          /\ LET row == [log[pending.id] EXCEPT !.answer = word]
             IN  IF pending.id # current.id
                 THEN /\ log' = [log EXCEPT ![pending.id] = row]
                      /\ UNCHANGED <<pc, batch, current, plan, active, file>>
                 ELSE IF pc = "plan"
                 THEN /\ plan' = [plan EXCEPT !.approved = word = "yes"]
                      /\ Ended(current, "succeeded", row, batch)
                      /\ UNCHANGED file
                 ELSE /\ UNCHANGED plan
                      /\ IF Stopped
                         THEN Ended(current, Outcome("failed"), row, batch) /\ UNCHANGED file
                         ELSE IF word = "no"
                         THEN Ended(current, RefusalPhase(current.tool), row, batch)
                              /\ UNCHANGED file
                         ELSE Operate(current, word, batch)
    BY DEF Answer
<1>2. /\ pending # Nobody /\ pending' = Nobody /\ pending.id \in 1..Past
      /\ UNCHANGED <<left, manifest, used, renders, signal>>
    BY DEF Answer, Numbered
<1>3. /\ log \in Seq(Rows) /\ plan \in [proposed : BOOLEAN, approved : BOOLEAN]
      /\ plan.approved => plan.proposed
      /\ file \in [Paths -> Nat] /\ active \in SUBSET Skills
    BY DEF Typed
<1>4. Past \in Nat /\ Past <= Len(log)
    BY DEF Numbered, Lined, Past, Typed
<1>5. pending.id \in DOMAIN log /\ log[pending.id] \in Rows
    BY <1>2, <1>3, <1>4
<1> DEFINE row == [log[pending.id] EXCEPT !.answer = word]
<1>6. row.answer = word
    BY <1>5 DEF Rows
<1>7. CASE pending.id # current.id
    <2>1. /\ log' = [log EXCEPT ![pending.id] = row]
          /\ UNCHANGED <<pc, batch, current, plan, active, file>>
        BY <1>1, <1>7
    <2>2. log'[pending.id].answer = word
        BY <1>3, <1>5, <1>6, <2>1
    <2> QED
        BY <1>1, <1>2, <1>3, <1>7, <2>1, <2>2
<1>8. CASE pending.id = current.id
    <2>1. Busy /\ pc \in {"ask", "plan"} /\ pc # "run"
        <3>1. Busy
            <4> SUFFICES ASSUME ~Busy PROVE FALSE
                OBVIOUS
            <4>1. current = NoCall
                BY DEF Typed
            <4> QED
                BY <1>2, <1>8, <4>1 DEF NoCall
        <3> QED
            BY <1>8, <3>1 DEF Numbered, Busy
    <2>2. About(current, batch) /\ row = [log[current.id] EXCEPT !.answer = word]
        BY <2>1, <1>8, AboutCurrent
    <2>3. CASE pc = "plan"
        <3>1. plan' = [plan EXCEPT !.approved = word = "yes"] /\ file' = file
            BY <1>1, <1>8, <2>3
        <3>2. Ended(current, "succeeded", row, batch)
            BY <1>1, <1>8, <2>3
        <3>3. plan' \in [proposed : BOOLEAN, approved : BOOLEAN] /\ (plan'.approved => plan'.proposed)
            <4>1. plan.proposed
                BY <2>1, <2>3 DEF Serving
            <4>2. (word = "yes") \in BOOLEAN
                OBVIOUS
            <4> QED
                BY <1>3, <3>1, <4>1, <4>2
        <3> QED
            BY <1>1, <1>2, <1>3, <1>6, <1>8, <2>1, <2>2, <3>1, <3>2, <3>3, CloseEffect
    <2>4. CASE pc = "ask" /\ Stopped
        <3>1. plan' = plan /\ file' = file /\ Ended(current, Outcome("failed"), row, batch)
            BY <1>1, <1>8, <2>4
        <3>2. Outcome("failed") \in {"blocked", "succeeded", "failed", "cancelled"}
            BY DEF Outcome
        <3>3. /\ Advance(current.id, batch) /\ ~Busy' /\ active' \in SUBSET Skills
              /\ log'[current.id].begun = log[current.id].begun /\ log'[current.id].answer = row.answer
            BY <1>1, <2>1, <2>2, <2>4, <3>1, <3>2, CloseEffect
        <3> QED
            BY <1>1, <1>2, <1>3, <1>6, <1>8, <2>1, <2>2, <3>1, <3>3
    <2>5. CASE pc = "ask" /\ ~Stopped /\ word = "no"
        <3> DEFINE phase == RefusalPhase(current.tool)
        <3>1. plan' = plan /\ file' = file /\ Ended(current, phase, row, batch)
            BY <1>1, <1>8, <2>5
        <3>2. phase \in {"blocked", "succeeded", "failed", "cancelled"}
            BY DEF RefusalPhase
        <3> HIDE DEF phase, row
        <3>3. /\ Advance(current.id, batch) /\ ~Busy' /\ active' \in SUBSET Skills
              /\ log'[current.id].begun = log[current.id].begun /\ log'[current.id].answer = row.answer
            BY <1>1, <2>1, <2>2, <2>5, <3>1, <3>2, CloseEffect
        <3> QED
            BY <1>1, <1>2, <1>3, <1>6, <1>8, <2>1, <2>2, <3>1, <3>3
    <2>6. CASE pc = "ask" /\ ~Stopped /\ word # "no"
        <3>1. plan' = plan /\ Operate(current, word, batch)
            BY <1>1, <1>8, <2>6
        <3>2. /\ Advance(current.id, batch)
              /\ pc' \in {"call", "run"} /\ (pc' = "run" => current' = current)
              /\ log'[current.id].begun = word /\ log'[current.id].answer = word
              /\ log'[current.id].wrote => file[current.arg] = log'[current.id].seen
              /\ file' \in [Paths -> Nat]
              /\ active' \in SUBSET Skills
            BY <1>1, <2>6, <3>1, GoEffect
        <3>3. current.abort = "no"
            BY <2>6 DEF Stopped
        <3> QED
            BY <1>1, <1>2, <1>3, <1>8, <2>1, <2>2, <2>6, <3>1, <3>2, <3>3
    <2> QED
        BY <2>1, <2>3, <2>4, <2>5, <2>6
<1> QED
    BY <1>7, <1>8

(* A lease answers in place of the user, or the call was cut off meanwhile. *)
LEMMA LeaseAnswersEffect ==
    ASSUME Typed, Numbered, Made, Serving, LeaseAnswers
    PROVE  /\ pc = "lease" /\ Busy /\ About(current, batch) /\ Advance(current.id, batch)
           /\ log'[current.id].answer = "lease"
           /\ \/ ~Busy' /\ log'[current.id].begun = log[current.id].begun
              \/ /\ current.abort = "no" /\ log'[current.id].begun = "lease"
                 /\ log'[current.id].wrote => file[current.arg] = log'[current.id].seen
                 /\ pc' \in {"call", "run"} /\ (pc' = "run" => current' = current)
           /\ file' \in [Paths -> Nat] /\ active' \in SUBSET Skills
           /\ UNCHANGED <<left, manifest, plan, used, renders, signal, pending, leases>>
<1>1. /\ pc = "lease"
      /\ IF Stopped THEN Ended(current, Outcome("failed"), log[current.id], batch) /\ UNCHANGED file
         ELSE Operate(current, "lease", batch)
      /\ UNCHANGED <<left, manifest, plan, used, renders, signal, pending, leases>>
    BY DEF LeaseAnswers
<1>2. Busy /\ log[current.id].answer = "lease" /\ file \in [Paths -> Nat]
    BY <1>1 DEF Busy, Serving, Typed
<1>3. CASE Stopped
    <2>1. Outcome("failed") \in {"blocked", "succeeded", "failed", "cancelled"} /\ Outcome("failed") # "blocked"
        BY DEF Outcome
    <2>2. /\ About(current, batch) /\ Advance(current.id, batch) /\ ~Busy' /\ active' \in SUBSET Skills
          /\ log'[current.id].begun = log[current.id].begun
          /\ log'[current.id].answer = log[current.id].answer
        BY <1>1, <1>2, <1>3, <2>1, CloseEffect
    <2> QED
        BY <1>1, <1>2, <1>3, <2>2
<1>4. CASE ~Stopped
    <2>1. current.abort = "no"
        BY <1>4 DEF Stopped
    <2> QED
        BY <1>1, <1>2, <1>4, <2>1, GoEffect
<1> QED
    BY <1>3, <1>4

(* Three actions only report the call in hand. *)
Reports == Finish \/ GiveUp \/ (Cancel /\ pc \in {"ask", "plan"})

(* What only reports the call in hand changes neither its effect nor its word. *)
LEMMA ReportsEffect ==
    ASSUME Typed, Numbered, Made, Serving, Reports
    PROVE  /\ Busy /\ About(current, batch) /\ Advance(current.id, batch) /\ ~Busy'
           /\ log'[current.id].begun = log[current.id].begun
           /\ log'[current.id].answer = log[current.id].answer
           /\ log'[current.id].wrote = log[current.id].wrote
           /\ active' \in SUBSET Skills /\ signal' \in BOOLEAN
           /\ left' \in Left /\ left'.turns = left.turns
           /\ pending' \in {pending, Nobody}
           /\ UNCHANGED <<manifest, plan, used, renders, leases, file>>
<1>1. PICK phase \in {"blocked", "succeeded", "failed", "cancelled"} :
          /\ Busy /\ Ended(current, phase, log[current.id], batch)
          /\ phase = "blocked" => current.tool \in Relays
    <2>1. CASE Finish
        <3>1. PICK plain \in {"succeeded", "failed", "blocked"} :
                 /\ Ended(current, Outcome(plain), log[current.id], batch)
                 /\ plain = "blocked" => current.tool \in Relays
            BY <2>1 DEF Finish, Reported
        <3> QED
            BY <2>1, <3>1 DEF Finish, Busy, Outcome
    <2>2. CASE GiveUp
        BY <2>2 DEF GiveUp, Busy
    <2>3. CASE Cancel /\ pc \in {"ask", "plan"}
        BY <2>3 DEF Cancel, Busy
    <2> QED
        BY <2>1, <2>2, <2>3 DEF Reports
<1>2. /\ left' \in Left /\ left'.turns = left.turns /\ signal' \in BOOLEAN
      /\ pending' \in {pending, Nobody}
      /\ UNCHANGED <<manifest, plan, used, renders, leases, file>>
    <2>1. left \in Left /\ signal \in BOOLEAN
        BY DEF Typed
    <2>2. CASE Finish
        BY <2>1, <2>2 DEF Finish
    <2>3. CASE GiveUp
        BY <2>1, <2>3 DEF GiveUp
    <2>4. CASE Cancel /\ pc \in {"ask", "plan"}
        BY <2>1, <2>4 DEF Cancel, Spend, Left
    <2> QED
        BY <2>2, <2>3, <2>4 DEF Reports
<1>3. /\ About(current, batch) /\ Advance(current.id, batch) /\ ~Busy'
      /\ log'[current.id].begun = log[current.id].begun
      /\ log'[current.id].answer = log[current.id].answer
      /\ log'[current.id].wrote = log[current.id].wrote
      /\ active' \in SUBSET Skills
    BY <1>1, CloseEffect
<1> QED
    BY <1>1, <1>2, <1>3

-----------------------------------------------------------------------------
(***************************************************************************)
(* The queue of calls and its rows, preserved by every step.               *)
(***************************************************************************)

(* A bound of the model is used up by one. *)
LEMMA Spending ==
    ASSUME left \in Left, NEW what \in {"turns", "calls", "cancels", "expiries", "edits", "clears"},
           Spend(what)
    PROVE  /\ left' \in Left
           /\ left'.turns = IF what = "turns" THEN left.turns - 1 ELSE left.turns
           /\ what = "turns" => left.turns > 0
<1>1. CASE what = "turns"
    BY <1>1 DEF Spend, Left
<1>2. CASE what = "calls"
    BY <1>2 DEF Spend, Left
<1>3. CASE what = "cancels"
    BY <1>3 DEF Spend, Left
<1>4. CASE what = "expiries"
    BY <1>4 DEF Spend, Left
<1>5. CASE what = "edits"
    BY <1>5 DEF Spend, Left
<1>6. CASE what = "clears"
    BY <1>6 DEF Spend, Left
<1> QED
    BY <1>1, <1>2, <1>3, <1>4, <1>5, <1>6

(* Steps that leave the queue and the log alone. *)
LEMMA StillQueue ==
    ASSUME Typed, Numbered, Made, UNCHANGED <<pc, batch, log>>,
           left' \in Left, left'.turns = left.turns,
           \/ current' = current
           \/ /\ pc \in {"ask", "lease", "run"}
              /\ \E r \in {"timeout", "cancel"} : current' = [current EXCEPT !.abort = r],
           \/ pending' = pending
           \/ pending' = Nobody /\ pc \notin {"ask", "plan"}
    PROVE  QueueTyped' /\ Numbered' /\ Made'
<1>1. Busy' = Busy /\ Past' = Past
    BY DEF Busy, Past
<1>2. Busy => current \in InHand
    BY DEF Typed
<1>3. /\ Busy => current' \in InHand
      /\ Busy => /\ current'.id = current.id /\ current'.tool = current.tool
                 /\ current'.arg = current.arg
      /\ ~Busy => current' = NoCall
    <2>1. CASE current' = current
        BY <1>2, <2>1 DEF Typed
    <2>2. CASE /\ pc \in {"ask", "lease", "run"}
               /\ \E r \in {"timeout", "cancel"} : current' = [current EXCEPT !.abort = r]
        BY <1>2, <2>2 DEF Busy, InHand
    <2> QED
        BY <2>1, <2>2
<1>4. QueueTyped'
    BY <1>1, <1>3 DEF QueueTyped, Typed
<1>5. Lined(Past, batch)'
    BY <1>1 DEF Numbered, Lined
<1>6. Numbered'
    <2>1. pending' = Nobody \/ pending'.id \in 1..Past'
        BY <1>1 DEF Numbered
    <2>2. pc \in {"lease", "run"} => pending'.id # current'.id
        BY <1>3 DEF Numbered, Busy, Nobody
    <2>3. pc \in {"ask", "plan"} => pending'.id = current'.id
        BY <1>3 DEF Numbered, Busy
    <2> QED
        BY <1>1, <1>3, <1>5, <2>1, <2>2, <2>3 DEF Numbered
<1>7. Made'
    BY <1>1, <1>3 DEF Made
<1> QED
    BY <1>4, <1>6, <1>7

(* Steps that end the turn or begin to wait for the model, with the log as it was. *)
LEMMA EndTurnQueue ==
    ASSUME Typed, Numbered, Made, log' = log, left' = left, pending' = pending, EndTurn
    PROVE  QueueTyped' /\ Numbered' /\ Made'
<1>1. pc' = "idle" /\ batch' = <<>> /\ current' = NoCall
    BY DEF EndTurn
<1>2. ~Busy' /\ Past' = Len(log) /\ Past \in Nat /\ Past <= Len(log) /\ log \in Seq(Rows)
    BY <1>1 DEF Busy, Past, Typed, Numbered, Lined
<1>3. QueueTyped'
    BY <1>1, <1>2 DEF QueueTyped
<1>4. Lined(Past, batch)'
    BY <1>1, <1>2 DEF Lined
<1>5. Numbered'
    <2>1. pending' = Nobody \/ pending'.id \in 1..Past'
        BY <1>2 DEF Numbered
    <2> QED
        BY <1>1, <1>2, <1>4, <2>1 DEF Numbered
<1>6. Made'
    BY <1>1, <1>2 DEF Made
<1> QED
    BY <1>3, <1>5, <1>6

(* A turn starts with an empty queue and after every call there was. *)
LEMMA StartTurnQueue ==
    ASSUME Typed, Numbered, Made, StartTurn
    PROVE  /\ QueueTyped' /\ Numbered' /\ Made' /\ left' \in Left /\ ~Busy' /\ log' = log
           /\ \A i \in DOMAIN log : log[i].turn > left'.turns
           /\ pending' = Nobody /\ pending = Nobody
<1>1. /\ pc = "idle" /\ pc' = "model" /\ pending = Nobody /\ Spend("turns")
      /\ UNCHANGED <<manifest, batch, current, pending, leases, file, log>>
    BY DEF StartTurn
<1>2. left' \in Left /\ left'.turns = left.turns - 1 /\ left.turns \in Nat
    BY <1>1, Spending DEF Typed, Left
<1>3. ~Busy /\ ~Busy' /\ Past' = Past /\ batch = <<>> /\ Past = Len(log) /\ log \in Seq(Rows)
    BY <1>1 DEF Busy, Past, Numbered, Typed
<1>4. \A i \in DOMAIN log : log[i].turn \in Nat /\ log[i].turn >= left.turns
    <2>1. \A i \in DOMAIN log : log[i] \in Rows
        BY <1>3
    <2> QED
        BY <2>1 DEF Made, Rows
<1>5. QueueTyped' /\ Numbered'
    <2>1. Lined(Past, batch)'
        BY <1>1, <1>3 DEF Numbered, Lined
    <2> QED
        BY <1>1, <1>3, <2>1 DEF QueueTyped, Typed, Numbered
<1>6. Made'
    BY <1>1, <1>2, <1>3, <1>4 DEF Made
<1> QED
    BY <1>1, <1>2, <1>3, <1>4, <1>5, <1>6

(* The end of a batch keeps the log. *)
LEMMA BatchDoneQueue ==
    ASSUME Typed, Numbered, Made, BatchDone
    PROVE  QueueTyped' /\ Numbered' /\ Made'
<1>1. /\ pc = "call" /\ batch = <<>> /\ pc' = "model"
      /\ UNCHANGED <<left, batch, current, pending, log>>
    BY DEF BatchDone
<1>2. ~Busy /\ ~Busy' /\ Past' = Past
    BY <1>1 DEF Busy, Past
<1>3. Lined(Past, batch)'
    BY <1>1, <1>2 DEF Numbered, Lined
<1>4. QueueTyped' /\ Numbered'
    BY <1>1, <1>2, <1>3 DEF QueueTyped, Typed, Numbered
<1>5. Made'
    BY <1>1, <1>2 DEF Made
<1> QED
    BY <1>4, <1>5

(* Revoking the leases changes the words the log has for them, and no more. *)
LEMMA ClearLeasesQueue ==
    ASSUME Typed, Numbered, Made, ClearLeases
    PROVE  /\ QueueTyped' /\ Numbered' /\ Made' /\ left' \in Left /\ left'.turns = left.turns
           /\ DOMAIN log' = DOMAIN log
           /\ \A i \in DOMAIN log :
                 log'[i] = [log[i] EXCEPT !.answer = IF log[i].answer = "session" THEN "revoked"
                                                     ELSE log[i].answer]
<1> DEFINE Now(i) == [log[i] EXCEPT !.answer = IF log[i].answer = "session" THEN "revoked"
                                               ELSE log[i].answer]
<1>1. /\ pending = Nobody /\ Spend("clears")
      /\ log' = [i \in DOMAIN log |->
                    [log[i] EXCEPT !.answer = IF @ = "session" THEN "revoked" ELSE @]]
      /\ UNCHANGED <<pc, batch, current, pending>>
    BY DEF ClearLeases
<1>2. left' \in Left /\ left'.turns = left.turns
    BY <1>1, Spending DEF Typed
<1>3. log \in Seq(Rows) /\ \A i \in DOMAIN log : log[i] \in Rows
    BY DEF Typed
<1>4. \A i \in DOMAIN log :
          Now(i) = [log[i] EXCEPT !.answer = IF @ = "session" THEN "revoked" ELSE @]
    BY <1>3 DEF Rows
<1>5. log' = [i \in DOMAIN log |-> Now(i)]
    BY <1>1, <1>4
<1>6. \A i \in DOMAIN log :
          /\ Now(i) \in Rows /\ Now(i).tool = log[i].tool /\ Now(i).arg = log[i].arg
          /\ Now(i).turn = log[i].turn /\ Now(i).begun = log[i].begun /\ Now(i).ends = log[i].ends
          /\ Now(i).phase = log[i].phase
          /\ log[i].answer = "none" => Now(i).answer = "none"
    BY <1>3 DEF Rows
<1> HIDE DEF Now
<1>7. /\ log' \in Seq(Rows) /\ Len(log') = Len(log) /\ DOMAIN log' = DOMAIN log
      /\ \A i \in DOMAIN log : log'[i] = Now(i)
    BY <1>3, <1>5, <1>6
<1>8. Busy' = Busy /\ Past' = Past /\ Past \in Nat
    BY <1>1, <1>7 DEF Busy, Past, Numbered, Lined
<1>9. QueueTyped'
    BY <1>1, <1>7, <1>8 DEF QueueTyped, Typed
<1>10. Numbered'
    <2>1. Lined(Past, batch)'
        <3>1. \A j \in 1..Len(batch) : Past + j \in DOMAIN log
            BY <1>3, <1>8 DEF Numbered, Lined, Typed
        <3> QED
            BY <1>1, <1>6, <1>7, <1>8, <3>1 DEF Numbered, Lined
    <2> QED
        BY <1>1, <1>6, <1>7, <1>8, <2>1 DEF Numbered
<1>11. Made'
    <2> SUFFICES ASSUME NEW i \in DOMAIN log
                 PROVE  /\ CallOf(log'[i]) \in Calls /\ log'[i].turn >= left'.turns
                        /\ log'[i].ends <= 1
                        /\ log'[i].phase = "blocked" /\ log'[i].tool \notin Relays => ~Begun(log'[i])
                        /\ i > Past' => Fresh(log'[i]) /\ log'[i].turn = left'.turns
                        /\ pc' # "idle" /\ i <= Past' /\ log'[i].turn = left'.turns =>
                              log'[i].ends = IF Busy' /\ i = current'.id THEN 0 ELSE 1
                        /\ Busy' /\ i = current'.id => log'[i].turn = left'.turns
        BY <1>7 DEF Made, CallOf, Begun, Fresh
    <2>1. /\ log'[i].tool = log[i].tool /\ log'[i].arg = log[i].arg
          /\ log'[i].turn = log[i].turn /\ log'[i].begun = log[i].begun /\ log'[i].ends = log[i].ends
          /\ log'[i].phase = log[i].phase /\ (log[i].answer = "none" => log'[i].answer = "none")
        BY <1>6, <1>7
    <2>2. current' = current /\ pc' = pc
        BY <1>1
    <2> QED
        BY <1>2, <1>8, <2>1, <2>2 DEF Made, CallOf, Begun, Fresh
<1> QED
    BY <1>2, <1>7, <1>9, <1>10, <1>11 DEF Now

(* The calls of a response are lined up behind the log. *)
LEMMA ModelCallsQueue ==
    ASSUME Typed, Numbered, Made, ModelCalls
    PROVE  /\ QueueTyped' /\ Numbered' /\ Made' /\ left' \in Left /\ left'.turns = left.turns
           /\ DOMAIN log \subseteq DOMAIN log' /\ \A i \in DOMAIN log : log'[i] = log[i]
           /\ \A i \in DOMAIN log' \ DOMAIN log : Fresh(log'[i])
           /\ ~Busy /\ ~Busy'
<1>0. PICK n \in 1..MaxBatch : \E calls \in [1..n -> left.menu] :
          /\ left.calls >= n
          /\ left' = [left EXCEPT !.calls = @ - n]
          /\ batch' = [i \in 1..n |-> [id |-> Len(log) + i, tool |-> calls[i].tool,
                                       arg |-> calls[i].arg]]
          /\ log' = log \o [i \in 1..n |-> Row(calls[i])]
    BY DEF ModelCalls
<1>1. PICK calls \in [1..n -> left.menu] :
          /\ left.calls >= n
          /\ left' = [left EXCEPT !.calls = @ - n]
          /\ batch' = [i \in 1..n |-> [id |-> Len(log) + i, tool |-> calls[i].tool,
                                       arg |-> calls[i].arg]]
          /\ log' = log \o [i \in 1..n |-> Row(calls[i])]
    BY <1>0
<1>2. pc = "model" /\ pc' = "call" /\ current' = current /\ pending' = pending
    BY DEF ModelCalls
<1>3. n \in Nat /\ n >= 1 /\ left \in Left /\ log \in Seq(Rows) /\ left.turns \in Nat /\ Len(log) \in Nat
    BY BatchAssumption DEF Typed, Left
<1>4. left' \in Left /\ left'.turns = left.turns
    <2>1. left.calls - n \in Nat
        BY <1>1, <1>3 DEF Left
    <2>2. left' = [left EXCEPT !.calls = left.calls - n]
        BY <1>1, <1>3 DEF Left
    <2> QED
        BY <1>3, <2>1, <2>2 DEF Left
<1>5. \A i \in 1..n : calls[i] \in Calls
    BY <1>1, <1>3 DEF Left
<1>6. \A call \in Calls : call.tool \in Tools /\ call.arg \in Args
    BY DEF Calls, Tools, Args, Classification
<1> DEFINE new == [i \in 1..n |-> Row(calls[i])]
<1>7. \A i \in 1..n : /\ Row(calls[i]) \in Rows /\ Fresh(Row(calls[i]))
                      /\ Row(calls[i]).tool = calls[i].tool /\ Row(calls[i]).arg = calls[i].arg
                      /\ Row(calls[i]).turn = left.turns
    BY <1>3, <1>5, <1>6 DEF Row, Rows, Fresh
<1>8. /\ new \in Seq(Rows) /\ Len(new) = n /\ \A i \in 1..n : new[i] = Row(calls[i])
    BY <1>3, <1>7
<1> HIDE DEF new
<1>9. /\ log' \in Seq(Rows) /\ Len(log') = Len(log) + n
      /\ \A i \in DOMAIN log : log'[i] = log[i]
      /\ \A i \in 1..n : log'[Len(log) + i] = Row(calls[i])
      /\ DOMAIN log' = 1..(Len(log) + n)
    <2>1. log' = log \o new
        BY <1>1 DEF new
    <2>2. log' \in Seq(Rows) /\ Len(log') = Len(log) + n
        <3>1. log \in Seq(Rows) /\ new \in Seq(Rows) /\ Len(new) = n
            BY <1>3, <1>8
        <3>2. log \o new \in Seq(Rows)
            BY ONLY <3>1
        <3>3. Len(log \o new) = Len(log) + Len(new)
            BY ONLY <3>1
        <3> QED
            BY <2>1, <3>1, <3>2, <3>3
    <2>3. \A i \in DOMAIN log : log'[i] = log[i]
        BY <1>3, <1>8, <2>1
    <2>4. \A i \in 1..n : log'[Len(log) + i] = new[i]
        BY <1>3, <1>8, <2>1
    <2>5. DOMAIN log' = 1..(Len(log) + n)
        BY <2>2
    <2> QED
        BY <1>8, <2>2, <2>3, <2>4, <2>5
<1>10. /\ batch' \in Seq(Queued) /\ Len(batch') = n
       /\ \A i \in 1..n : /\ batch'[i].id = Len(log) + i /\ batch'[i].tool = calls[i].tool
                           /\ batch'[i].arg = calls[i].arg
    <2>1. \A i \in 1..n : [id |-> Len(log) + i, tool |-> calls[i].tool, arg |-> calls[i].arg] \in Queued
        BY <1>3, <1>5, <1>6 DEF Queued
    <2> DEFINE q == [i \in 1..n |-> [id |-> Len(log) + i, tool |-> calls[i].tool,
                                    arg |-> calls[i].arg]]
    <2>2. q \in Seq(Queued) /\ Len(q) = n
        BY <1>3, <2>1
    <2>3. \A i \in 1..n : q[i] = [id |-> Len(log) + i, tool |-> calls[i].tool, arg |-> calls[i].arg]
        OBVIOUS
    <2>4. batch' = q
        BY <1>1
    <2> HIDE DEF q
    <2> QED
        BY <2>2, <2>3, <2>4
<1>11. ~Busy /\ ~Busy' /\ current' = NoCall /\ batch = <<>> /\ Past = Len(log)
    BY <1>2, <1>3 DEF Busy, Typed, Numbered, Past
<1>12. Past' = Len(log)
    BY <1>3, <1>9, <1>10 DEF Past
<1>13. Lined(Past, batch)'
    BY <1>3, <1>7, <1>9, <1>10, <1>12 DEF Lined
<1>14. QueueTyped'
    BY <1>2, <1>9, <1>10, <1>11 DEF QueueTyped
<1>15. Numbered'
    <2>1. pending' = Nobody \/ pending'.id \in 1..Past'
        BY <1>2, <1>11, <1>12 DEF Numbered
    <2> QED
        BY <1>2, <1>11, <1>13, <2>1 DEF Numbered
<1>16. \A i \in DOMAIN log' \ DOMAIN log : \E j \in 1..n : i = Len(log) + j /\ log'[i] = Row(calls[j])
    <2> SUFFICES ASSUME NEW i \in DOMAIN log' \ DOMAIN log
                 PROVE  \E j \in 1..n : i = Len(log) + j /\ log'[i] = Row(calls[j])
        OBVIOUS
    <2>1. i - Len(log) \in 1..n /\ i = Len(log) + (i - Len(log))
        BY <1>3, <1>9
    <2> QED
        BY <1>9, <2>1
<1>17. \A i \in DOMAIN log' \ DOMAIN log :
          /\ Fresh(log'[i]) /\ log'[i].turn = left.turns /\ CallOf(log'[i]) \in Calls
          /\ i > Len(log)
    <2> SUFFICES ASSUME NEW i \in DOMAIN log' \ DOMAIN log
                 PROVE  /\ Fresh(log'[i]) /\ log'[i].turn = left.turns /\ CallOf(log'[i]) \in Calls
                        /\ i > Len(log)
        OBVIOUS
    <2>1. PICK j \in 1..n : i = Len(log) + j /\ log'[i] = Row(calls[j])
        BY <1>16
    <2>2. calls[j] \in Calls /\ calls[j] = [tool |-> calls[j].tool, arg |-> calls[j].arg]
        BY <1>5 DEF Calls
    <2> QED
        BY <1>3, <1>7, <2>1, <2>2 DEF CallOf
<1>18. Made'
    <2> SUFFICES ASSUME NEW i \in DOMAIN log'
                 PROVE  /\ CallOf(log'[i]) \in Calls /\ log'[i].turn >= left'.turns
                        /\ log'[i].ends <= 1
                        /\ log'[i].phase = "blocked" /\ log'[i].tool \notin Relays => ~Begun(log'[i])
                        /\ i > Past' => Fresh(log'[i]) /\ log'[i].turn = left'.turns
                        /\ pc' # "idle" /\ i <= Past' /\ log'[i].turn = left'.turns =>
                              log'[i].ends = IF Busy' /\ i = current'.id THEN 0 ELSE 1
                        /\ Busy' /\ i = current'.id => log'[i].turn = left'.turns
        BY DEF Made, CallOf, Begun, Fresh
    <2>1. CASE i \in DOMAIN log
        <3>1. log'[i] = log[i] /\ i <= Len(log) /\ ~(i > Len(log))
            BY <1>3, <1>9, <2>1
        <3> QED
            BY <1>2, <1>4, <1>11, <1>12, <2>1, <3>1 DEF Made
    <2>2. CASE i \notin DOMAIN log
        <3>1. /\ Fresh(log'[i]) /\ log'[i].turn = left'.turns /\ CallOf(log'[i]) \in Calls
              /\ i > Len(log) /\ i \in Nat
            BY <1>4, <1>9, <1>17, <2>2
        <3>2. ~(i <= Past')
            BY <1>3, <1>12, <3>1
        <3>3. left'.turns \in Nat
            BY <1>4 DEF Left
        <3> QED
            BY <1>11, <3>1, <3>2, <3>3 DEF Fresh, Begun
    <2> QED
        BY <2>1, <2>2
<1> QED
    BY <1>4, <1>9, <1>11, <1>14, <1>15, <1>17, <1>18

(* A late answer to a question whose call has given up. *)
LEMMA AnswerOtherQueue ==
    ASSUME Typed, Numbered, Made, pending' = Nobody, pending.id \in 1..Past, pending.id # current.id,
           NEW word \in {"yes", "no", "session"}, left' = left,
           log' = [log EXCEPT ![pending.id] = [log[pending.id] EXCEPT !.answer = word]],
           UNCHANGED <<pc, batch, current>>
    PROVE  QueueTyped' /\ Numbered' /\ Made'
<1> DEFINE k == pending.id
           r == [log[k] EXCEPT !.answer = word]
<1>1. log \in Seq(Rows) /\ k \in DOMAIN log /\ Past \in Nat /\ k <= Past
    BY DEF Typed, Numbered, Lined, Past
<1>2. /\ r \in Rows /\ r.tool = log[k].tool /\ r.arg = log[k].arg /\ r.turn = log[k].turn
      /\ r.begun = log[k].begun /\ r.ends = log[k].ends /\ r.phase = log[k].phase
    <2>1. log[k] \in Rows
        BY <1>1
    <2> QED
        BY <2>1 DEF Rows
<1> HIDE DEF r
<1>3. log' = [log EXCEPT ![k] = r]
    BY DEF r
<1>4. /\ log' \in Seq(Rows) /\ Len(log') = Len(log) /\ DOMAIN log' = DOMAIN log
      /\ log'[k] = r /\ \A i \in DOMAIN log : i # k => log'[i] = log[i]
    BY <1>1, <1>2, <1>3, RowSet
<1>5. \A i \in DOMAIN log :
          /\ log'[i].tool = log[i].tool /\ log'[i].arg = log[i].arg /\ log'[i].turn = log[i].turn
          /\ log'[i].begun = log[i].begun /\ log'[i].ends = log[i].ends
          /\ log'[i].phase = log[i].phase
          /\ i > Past => log'[i] = log[i]
    BY <1>1, <1>2, <1>4
<1>6. Busy' = Busy /\ Past' = Past
    BY <1>4 DEF Busy, Past
<1>7. QueueTyped'
    BY <1>4, <1>6 DEF QueueTyped, Typed
<1>8. Numbered'
    <2>1. Lined(Past, batch)'
        <3>1. \A j \in 1..Len(batch) : Past + j \in DOMAIN log
            BY <1>1 DEF Numbered, Lined, Typed
        <3> QED
            BY <1>4, <1>5, <1>6, <3>1 DEF Numbered, Lined
    <2>2. Busy => current.id \in 1..Past
        BY <1>1 DEF Numbered
    <2>3. pc \notin {"ask", "plan"}
        BY DEF Numbered
    <2>4. pc \in {"lease", "run"} => pending'.id # current'.id
        BY <2>2 DEF Nobody, Busy
    <2> QED
        BY <1>4, <1>5, <1>6, <2>1, <2>2, <2>3, <2>4 DEF Numbered
<1>9. Made'
    <2> SUFFICES ASSUME NEW i \in DOMAIN log
                 PROVE  /\ CallOf(log'[i]) \in Calls /\ log'[i].turn >= left'.turns
                        /\ log'[i].ends <= 1
                        /\ log'[i].phase = "blocked" /\ log'[i].tool \notin Relays => ~Begun(log'[i])
                        /\ i > Past' => Fresh(log'[i]) /\ log'[i].turn = left'.turns
                        /\ pc' # "idle" /\ i <= Past' /\ log'[i].turn = left'.turns =>
                              log'[i].ends = IF Busy' /\ i = current'.id THEN 0 ELSE 1
                        /\ Busy' /\ i = current'.id => log'[i].turn = left'.turns
        BY <1>4 DEF Made, CallOf, Begun, Fresh
    <2>1. /\ log'[i].tool = log[i].tool /\ log'[i].arg = log[i].arg
          /\ log'[i].turn = log[i].turn /\ log'[i].begun = log[i].begun /\ log'[i].ends = log[i].ends
          /\ log'[i].phase = log[i].phase /\ (i > Past => log'[i] = log[i])
        BY <1>5
    <2>2. /\ CallOf(log'[i]) = CallOf(log[i]) /\ Begun(log'[i]) = Begun(log[i])
          /\ current' = current /\ pc' = pc /\ left'.turns = left.turns
        BY <2>1 DEF CallOf, Begun
    <2>3. /\ CallOf(log[i]) \in Calls /\ log[i].turn >= left.turns
          /\ log[i].ends <= 1
          /\ log[i].phase = "blocked" /\ log[i].tool \notin Relays => ~Begun(log[i])
          /\ i > Past => Fresh(log[i]) /\ log[i].turn = left.turns
          /\ pc # "idle" /\ i <= Past /\ log[i].turn = left.turns =>
                log[i].ends = IF Busy /\ i = current.id THEN 0 ELSE 1
          /\ Busy /\ i = current.id => log[i].turn = left.turns
        BY DEF Made
    <2> QED
        BY <1>6, <2>1, <2>2, <2>3
<1> QED
    BY <1>7, <1>8, <1>9

(* The parts of the type invariant beside the queue. *)
RestTyped ==
    /\ left \in Left /\ manifest \in Manifests
    /\ plan \in [proposed : BOOLEAN, approved : BOOLEAN] /\ (plan.approved => plan.proposed)
    /\ used \in [Counted -> Nat] /\ renders \in Nat
    /\ active \in SUBSET Skills /\ signal \in BOOLEAN
    /\ file \in [Paths -> Nat]

(* Every step keeps the types, the numbers of the calls and their reports. *)
LEMMA QueueStep ==
    ASSUME Typed, Numbered, Made, Serving, [Next]_vars
    PROVE  Typed' /\ Numbered' /\ Made'
<1> SUFFICES QueueTyped' /\ RestTyped' /\ Numbered' /\ Made'
    BY DEF QueueTyped, RestTyped, Typed
<1>0. QueueTyped /\ RestTyped
    BY DEF QueueTyped, RestTyped, Typed
<1>1. CASE StartTurn
    <2>1. QueueTyped' /\ Numbered' /\ Made' /\ left' \in Left
        BY <1>1, StartTurnQueue
    <2>2. /\ manifest' = manifest /\ file' = file /\ plan' = NoPlan
          /\ used' = [c \in Counted |-> 0] /\ renders' = 0 /\ signal' = FALSE
          /\ active' \in {{}} \cup {{s} : s \in Skills}
        BY <1>1 DEF StartTurn
    <2> QED
        BY <1>0, <2>1, <2>2 DEF RestTyped, NoPlan
<1>2. CASE ModelCalls
    <2>1. QueueTyped' /\ Numbered' /\ Made' /\ left' \in Left
        BY <1>2, ModelCallsQueue
    <2> QED
        BY <1>0, <1>2, <2>1 DEF ModelCalls, RestTyped
<1>3. CASE ModelEnds
    <2>1. QueueTyped' /\ Numbered' /\ Made'
        BY <1>3, EndTurnQueue DEF ModelEnds
    <2> QED
        BY <1>0, <1>3, <2>1 DEF ModelEnds, RestTyped
<1>4. CASE BatchDone
    <2>1. QueueTyped' /\ Numbered' /\ Made'
        BY <1>4, BatchDoneQueue
    <2> QED
        BY <1>0, <1>4, <2>1 DEF BatchDone, RestTyped
<1>5. CASE Cut
    <2>1. QueueTyped' /\ Numbered' /\ Made'
        BY <1>5, EndTurnQueue DEF Cut
    <2> QED
        BY <1>0, <1>5, <2>1 DEF Cut, RestTyped
<1>6. CASE Block
    <2> DEFINE call == Head(batch)
    <2>1. /\ About(call, Tail(batch)) /\ Advance(call.id, Tail(batch)) /\ ~Busy'
          /\ used' \in [Counted -> Nat] /\ renders' \in Nat /\ active' = active
          /\ UNCHANGED <<left, manifest, plan, signal, pending, leases, file>>
        BY <1>6, BlockEffect
    <2>2. QueueTyped' /\ Numbered' /\ Made'
        BY <2>1, AdvanceKeeps DEF Busy
    <2> QED
        BY <1>0, <2>1, <2>2 DEF RestTyped
<1>7. CASE Take
    <2> DEFINE call == Head(batch)
               d == Decision(call)
    <2>1. /\ About(call, Tail(batch)) /\ Advance(call.id, Tail(batch)) /\ call.id = Past + 1
          /\ \/ pc' \in {"call", "run"} /\ pending' = pending
             \/ pc' = "lease" /\ pending' = pending
             \/ /\ pc' = "ask"
                /\ pending' = [id |-> call.id, lease |-> Proposed(call, "confirm")]
          /\ active' \in SUBSET Skills /\ file' \in [Paths -> Nat]
          /\ used' = Counting(d)
          /\ renders' = IF call.tool = "browser_render" THEN renders + 1 ELSE renders
          /\ UNCHANGED <<left, manifest, plan, signal, leases>>
        BY <1>7, TakeEffect
    <2>2. pending.id # call.id
        <3>1. pending = Nobody \/ pending.id \in 1..Past
            BY DEF Numbered
        <3>2. Past \in Nat
            BY DEF Numbered, Lined
        <3> QED
            BY <2>1, <3>1, <3>2 DEF Nobody
    <2>3. QueueTyped' /\ Numbered' /\ Made'
        BY <2>1, <2>2, AdvanceKeeps
    <2>4. used' \in [Counted -> Nat]
        BY <1>0, <2>1, CountsGrow DEF RestTyped
    <2>5. renders' \in Nat
        BY <1>0, <2>1 DEF RestTyped
    <2> QED
        BY <1>0, <2>1, <2>3, <2>4, <2>5 DEF RestTyped
<1>8. CASE Propose
    <2> DEFINE call == Head(batch)
    <2>1. /\ About(call, Tail(batch)) /\ Advance(call.id, Tail(batch))
          /\ \/ ~Busy' /\ pending' = pending
             \/ /\ pc' = "plan"
                /\ pending' = [id |-> call.id, lease |-> None]
          /\ plan' \in [proposed : BOOLEAN, approved : BOOLEAN] /\ plan'.proposed
          /\ active' = active
          /\ UNCHANGED <<left, manifest, used, renders, signal, leases, file>>
        BY <1>8, ProposeEffect
    <2>2. QueueTyped' /\ Numbered' /\ Made'
        BY <2>1, AdvanceKeeps DEF Busy
    <2> QED
        BY <1>0, <2>1, <2>2 DEF RestTyped
<1>9. CASE Answer
    <2>1. /\ pending' = Nobody /\ pending.id \in 1..Past
          /\ UNCHANGED <<left, manifest, used, renders, signal>>
          /\ file' \in [Paths -> Nat] /\ active' \in SUBSET Skills
          /\ plan' \in [proposed : BOOLEAN, approved : BOOLEAN] /\ (plan'.approved => plan'.proposed)
        BY <1>9, AnswerEffect
    <2>2. RestTyped'
        BY <1>0, <2>1 DEF RestTyped
    <2>3. PICK word \in {"yes", "no", "session"} :
              \/ /\ pending.id # current.id
                 /\ log' = [log EXCEPT ![pending.id] = [log[pending.id] EXCEPT !.answer = word]]
                 /\ UNCHANGED <<pc, batch, current, plan, active, file>>
              \/ /\ pending.id = current.id /\ Busy /\ About(current, batch)
                 /\ Advance(current.id, batch)
                 /\ ~Busy' \/ pc' \in {"call", "run"}
        BY <1>9, AnswerEffect
    <2>4. CASE pending.id # current.id
        BY <2>1, <2>2, <2>3, <2>4, AnswerOtherQueue
    <2>5. CASE pending.id = current.id
        <3>1. About(current, batch) /\ Advance(current.id, batch) /\ (~Busy' \/ pc' \in {"call", "run"})
            BY <2>3, <2>5
        <3>2. current.id \in 1..Past
            BY <2>1, <2>5
        <3>3. pending'.id # current.id
            BY <2>1, <3>2 DEF Nobody
        <3>4. pc' \notin {"ask", "plan"}
            BY <3>1 DEF Busy
        <3> QED
            BY <2>1, <2>2, <3>1, <3>3, <3>4, AdvanceKeeps
    <2> QED
        BY <2>4, <2>5
<1>10. CASE LeaseAnswers
    <2>1. /\ pc = "lease" /\ Busy /\ About(current, batch) /\ Advance(current.id, batch)
          /\ ~Busy' \/ pc' \in {"call", "run"}
          /\ file' \in [Paths -> Nat] /\ active' \in SUBSET Skills
          /\ UNCHANGED <<left, manifest, plan, used, renders, signal, pending, leases>>
        BY <1>10, LeaseAnswersEffect
    <2>2. pending'.id # current.id /\ pc' \notin {"ask", "plan"}
        BY <2>1 DEF Numbered, Busy
    <2>3. QueueTyped' /\ Numbered' /\ Made'
        BY <2>1, <2>2, AdvanceKeeps
    <2> QED
        BY <1>0, <2>1, <2>3 DEF RestTyped
<1>11. CASE Reports
    <2>1. /\ About(current, batch) /\ Advance(current.id, batch) /\ ~Busy'
          /\ active' \in SUBSET Skills /\ signal' \in BOOLEAN
          /\ left' \in Left /\ left'.turns = left.turns
          /\ pending' \in {pending, Nobody}
          /\ UNCHANGED <<manifest, plan, used, renders, leases, file>>
        BY <1>11, ReportsEffect
    <2>2. QueueTyped' /\ Numbered' /\ Made'
        BY <2>1, AdvanceKeeps DEF Busy
    <2> QED
        BY <1>0, <2>1, <2>2 DEF RestTyped
<1>12. CASE Expire
    <2>1. /\ left' \in Left /\ left'.turns = left.turns
        BY <1>0, <1>12, Spending DEF Expire, RestTyped
    <2>2. /\ pc \in {"ask", "lease", "run"} /\ current.abort = "no"
          /\ current' = [current EXCEPT !.abort = "timeout"]
          /\ UNCHANGED <<manifest, pc, batch, plan, used, renders, active, signal, pending, leases, file, log>>
        BY <1>12 DEF Expire, Aborted
    <2>3. QueueTyped' /\ Numbered' /\ Made'
        BY <2>1, <2>2, StillQueue
    <2> QED
        BY <1>0, <2>1, <2>2, <2>3 DEF RestTyped
<1>13. CASE Cancel /\ pc \notin {"ask", "plan"}
    <2>1. /\ left' \in Left /\ left'.turns = left.turns
        BY <1>0, <1>13, Spending DEF Cancel, RestTyped
    <2>2. /\ signal' = TRUE /\ pending' = Nobody
          /\ IF pc \in {"lease", "run"} THEN Aborted("cancel") ELSE UNCHANGED current
          /\ UNCHANGED <<pc, batch, active, log>>
          /\ UNCHANGED <<manifest, plan, used, renders, leases, file>>
        BY <1>13 DEF Cancel
    <2>3. \/ current' = current
          \/ pc \in {"lease", "run"} /\ current' = [current EXCEPT !.abort = "cancel"]
        BY <2>2 DEF Aborted
    <2>4. QueueTyped' /\ Numbered' /\ Made'
        BY <1>13, <2>1, <2>2, <2>3, StillQueue
    <2> QED
        BY <1>0, <2>1, <2>2, <2>4 DEF RestTyped
<1>14. CASE EditOutside
    <2>1. /\ left' \in Left /\ left'.turns = left.turns
        BY <1>0, <1>14, Spending DEF EditOutside, RestTyped
    <2>2. /\ file' = [file EXCEPT ![current.arg] = @ + 1]
          /\ UNCHANGED <<manifest, pc, batch, current, plan, used, renders, active, signal, pending,
                   leases, log>>
        BY <1>14 DEF EditOutside
    <2>3. QueueTyped' /\ Numbered' /\ Made'
        BY <2>1, <2>2, StillQueue
    <2>4. file' \in [Paths -> Nat]
        BY <1>0, <2>2, CountUp DEF RestTyped
    <2> QED
        BY <1>0, <2>1, <2>2, <2>3, <2>4 DEF RestTyped
<1>15. CASE ClearLeases
    <2>1. QueueTyped' /\ Numbered' /\ Made' /\ left' \in Left
        BY <1>15, ClearLeasesQueue
    <2> QED
        BY <1>0, <1>15, <2>1 DEF ClearLeases, RestTyped
<1>16. CASE UNCHANGED vars
    <2>1. left' = left /\ left \in Left
        BY <1>0, <1>16 DEF vars, RestTyped
    <2>2. QueueTyped' /\ Numbered' /\ Made'
        BY <1>16, <2>1, StillQueue DEF vars
    <2> QED
        BY <1>0, <1>16, <2>2 DEF vars, RestTyped
<1> QED
    BY <1>1, <1>2, <1>3, <1>4, <1>5, <1>6, <1>7, <1>8, <1>9, <1>10, <1>11, <1>12, <1>13, <1>14,
       <1>15, <1>16 DEF Next, Reports

-----------------------------------------------------------------------------
(***************************************************************************)
(* The call in hand.                                                       *)
(***************************************************************************)

(* Steps that leave the call where it is. *)
LEMMA StillServing ==
    ASSUME Typed, Serving, UNCHANGED <<pc, plan, active, manifest>>,
           Busy => /\ log'[current.id].ends = log[current.id].ends
                   /\ log'[current.id].phase = log[current.id].phase
                   /\ log'[current.id].begun = log[current.id].begun
                   /\ log[current.id].answer \in {"asked", "lease"} =>
                         log'[current.id].answer = log[current.id].answer,
           \/ current' = current
           \/ /\ Busy
              /\ \E r \in {"timeout", "cancel"} : current' = [current EXCEPT !.abort = r],
           Busy /\ signal' => signal \/ current'.abort # "no"
    PROVE  Serving'
<1>1. Busy' = Busy
    BY DEF Busy
<1> SUFFICES ASSUME Busy PROVE Serving'
    BY <1>1 DEF Serving
<1>2. current \in InHand
    BY DEF Typed
<1>3. /\ current'.id = current.id /\ current'.tool = current.tool /\ current'.arg = current.arg
      /\ current.abort # "no" => current'.abort # "no"
    <2>1. CASE current' = current
        BY <2>1
    <2>2. CASE \E r \in {"timeout", "cancel"} : current' = [current EXCEPT !.abort = r]
        BY <1>2, <2>2 DEF InHand
    <2> QED
        BY <2>1, <2>2
<1>4. Check(manifest', current') = Check(manifest, current)
    BY <1>3, SameCheck
<1>5. /\ log[current.id].ends = 0 /\ log[current.id].phase = "open"
      /\ pc # "run" => ~Begun(log[current.id])
      /\ pc = "ask" => log[current.id].answer = "asked"
      /\ pc = "lease" => log[current.id].answer = "lease"
      /\ pc = "plan" <=> current.tool = "todo_write"
      /\ pc = "plan" => plan.proposed
      /\ signal => current.abort # "no"
      /\ current.tool = "use_skill" => current.arg \in Skills
      /\ pc \in {"ask", "lease"} =>
            /\ Check(manifest, current).decision = "confirm"
            /\ plan.proposed => plan.approved
            /\ SkillsAllow(active, current.tool)
    BY DEF Serving, Confirmed
<1>6. /\ log'[current'.id].ends = 0 /\ log'[current'.id].phase = "open"
      /\ pc' # "run" => ~Begun(log'[current'.id])
      /\ pc' = "ask" => log'[current'.id].answer = "asked"
      /\ pc' = "lease" => log'[current'.id].answer = "lease"
    BY <1>3, <1>5 DEF Begun
<1>7. SkillsAllow(active', current'.tool) <=> SkillsAllow(active, current.tool)
    BY <1>3 DEF SkillsAllow
<1> QED
    BY <1>1, <1>3, <1>4, <1>5, <1>6, <1>7 DEF Serving, Confirmed, Begun, SkillsAllow

(* A call whose word has come is run. *)
LEMMA RunServing ==
    ASSUME Typed, Serving, pc \in {"ask", "lease"}, About(current, batch), Advance(current.id, batch),
           Busy', pc' \in {"call", "run"}, pc' = "run" => current' = current,
           UNCHANGED <<manifest, signal>>
    PROVE  Serving'
<1>1. pc' = "run" /\ current' = current /\ Busy
    BY DEF Busy
<1>2. log'[current'.id].ends = 0 /\ log'[current'.id].phase = "open"
    BY <1>1 DEF Advance
<1>3. /\ current.tool # "todo_write" /\ (signal => current.abort # "no")
      /\ current.tool = "use_skill" => current.arg \in Skills
    BY <1>1 DEF Serving
<1> QED
    BY <1>1, <1>2, <1>3 DEF Serving

(* What is known of the call a step leaves in the loop's hand. *)
LEMMA ServingStep ==
    ASSUME Typed, Numbered, Made, Serving, [Next]_vars
    PROVE  Serving'
<1> SUFFICES ASSUME Busy'
             PROVE  Serving'
    BY DEF Serving
<1>1. CASE StartTurn
    BY <1>1, StartTurnQueue
<1>2. CASE ModelCalls
    BY <1>2, ModelCallsQueue
<1>3. CASE ModelEnds \/ Cut \/ BatchDone
    BY <1>3 DEF ModelEnds, Cut, BatchDone, EndTurn, Busy
<1>4. CASE Block
    BY <1>4, BlockEffect
<1>5. CASE Take
    <2> DEFINE call == Head(batch)
               d == Decision(call)
    <2>1. /\ Looking /\ About(call, Tail(batch)) /\ Advance(call.id, Tail(batch))
          /\ d.decision \in {"allow", "confirm"} /\ call.tool # "todo_write"
          /\ current' = Taking(call, d)
          /\ \/ d.decision = "allow" /\ pc' \in {"call", "run"}
             \/ /\ d.decision = "confirm" /\ pc' = "lease"
                /\ log'[call.id].begun = "no" /\ log'[call.id].answer = "lease"
                /\ active' = active
             \/ /\ d.decision = "confirm" /\ pc' = "ask"
                /\ log'[call.id].begun = "no" /\ log'[call.id].answer = "asked"
                /\ active' = active
          /\ UNCHANGED <<manifest, plan, signal>>
        BY <1>5, TakeEffect
    <2>2. /\ d = Check(manifest, call) /\ SkillsAllow(active, call.tool)
          /\ plan.proposed => plan.approved
          /\ call.tool = "use_skill" => call.arg \in Skills
        BY <2>1, Through
    <2>3. /\ current'.id = call.id /\ current'.tool = call.tool /\ current'.arg = call.arg
        BY <2>1 DEF Taking
    <2>4. log'[call.id].ends = 0 /\ log'[call.id].phase = "open"
        BY <2>1 DEF Advance, Busy
    <2>5. Check(manifest', current') = d
        BY <2>1, <2>2, <2>3, SameCheck
    <2>6. pc' \in {"run", "lease", "ask"} /\ ~signal'
        BY <2>1 DEF Looking, Busy
    <2>7. active' = active => SkillsAllow(active', current'.tool)
        BY <2>2, <2>3 DEF SkillsAllow
    <2> HIDE DEF call, d
    <2> QED
        BY <2>1, <2>2, <2>3, <2>4, <2>5, <2>6, <2>7 DEF Serving, Confirmed, Begun, SkillsAllow
<1>6. CASE Propose
    <2> DEFINE call == Head(batch)
    <2>1. /\ Looking /\ About(call, Tail(batch)) /\ Advance(call.id, Tail(batch))
          /\ call.tool = "todo_write" /\ log'[call.id].begun = "no"
          /\ pc' = "plan" /\ plan'.proposed
          /\ UNCHANGED <<manifest, signal>>
        BY <1>6, ProposeEffect
    <2>2. /\ current'.id = call.id /\ current'.tool = "todo_write"
          /\ log'[call.id].ends = 0 /\ log'[call.id].phase = "open"
        BY <2>1 DEF Advance, About, Busy
    <2>3. ~signal'
        BY <2>1 DEF Looking
    <2> HIDE DEF call
    <2> QED
        BY <2>1, <2>2, <2>3 DEF Serving, Begun
<1>7. CASE Answer
    <2>1. PICK word \in {"yes", "no", "session"} :
              \/ /\ pending.id # current.id
                 /\ log' = [log EXCEPT ![pending.id] = [log[pending.id] EXCEPT !.answer = word]]
                 /\ UNCHANGED <<pc, batch, current, plan, active, file>>
              \/ /\ pending.id = current.id /\ Busy /\ About(current, batch)
                 /\ Advance(current.id, batch)
                 /\ pc = "ask" /\ pc' \in {"call", "run"} /\ (pc' = "run" => current' = current)
        BY <1>7, AnswerEffect
    <2>2. UNCHANGED <<manifest, signal>>
        BY <1>7, AnswerEffect
    <2>3. CASE pending.id # current.id
        <3>1. Busy => log'[current.id] = log[current.id]
            BY <2>1, <2>3 DEF Typed, Numbered
        <3> QED
            BY <2>1, <2>2, <2>3, <3>1, StillServing
    <2>4. CASE pending.id = current.id
        BY <2>1, <2>2, <2>4, RunServing
    <2> QED
        BY <2>3, <2>4
<1>8. CASE LeaseAnswers
    <2>1. /\ pc = "lease" /\ Busy /\ About(current, batch) /\ Advance(current.id, batch)
          /\ pc' \in {"call", "run"} /\ (pc' = "run" => current' = current)
          /\ UNCHANGED <<manifest, signal>>
        BY <1>8, LeaseAnswersEffect
    <2> QED
        BY <2>1, RunServing
<1>9. CASE Reports
    BY <1>9, ReportsEffect
<1>10. CASE Expire
    <2>1. /\ pc \in {"ask", "lease", "run"} /\ current' = [current EXCEPT !.abort = "timeout"]
          /\ UNCHANGED <<pc, plan, active, manifest, signal, log>>
        BY <1>10 DEF Expire, Aborted
    <2> QED
        BY <2>1, StillServing DEF Busy
<1>11. CASE Cancel /\ pc \notin {"ask", "plan"}
    <2>1. /\ pc \in {"lease", "run"} /\ Aborted("cancel")
          /\ UNCHANGED <<pc, plan, active, manifest, log>>
        BY <1>11 DEF Cancel, Busy
    <2>2. Busy /\ current \in InHand
        BY <2>1 DEF Busy, Typed
    <2>3. /\ current'.abort # "no"
          /\ current' = current \/ current' = [current EXCEPT !.abort = "cancel"]
        BY <2>1, <2>2 DEF Aborted, InHand
    <2> QED
        BY <2>1, <2>2, <2>3, StillServing
<1>12. CASE EditOutside
    BY <1>12, StillServing DEF EditOutside
<1>13. CASE ClearLeases
    <2>1. UNCHANGED <<pc, batch, current, plan, active, manifest, signal>>
        BY <1>13 DEF ClearLeases
    <2>2. \A i \in DOMAIN log :
                 log'[i] = [log[i] EXCEPT !.answer = IF log[i].answer = "session" THEN "revoked"
                                                     ELSE log[i].answer]
        BY <1>13, ClearLeasesQueue
    <2>3. Busy => current.id \in DOMAIN log /\ log[current.id] \in Rows
        BY DEF Typed, Numbered
    <2>4. Busy => /\ log'[current.id].ends = log[current.id].ends
                  /\ log'[current.id].phase = log[current.id].phase
                  /\ log'[current.id].begun = log[current.id].begun
                  /\ log[current.id].answer \in {"asked", "lease"} =>
                         log'[current.id].answer = log[current.id].answer
        BY <2>2, <2>3 DEF Rows
    <2> QED
        BY <2>1, <2>4, StillServing
<1>14. CASE UNCHANGED vars
    BY <1>14, StillServing DEF vars
<1> QED
    BY <1>1, <1>2, <1>3, <1>4, <1>5, <1>6, <1>7, <1>8, <1>9, <1>10, <1>11, <1>12, <1>13, <1>14
    DEF Next, Reports

-----------------------------------------------------------------------------
(***************************************************************************)
(* How an effect begins.                                                   *)
(***************************************************************************)

(* What is true of a call in the moment its effect begins. *)
Current(i) ==
    /\ ~signal
    /\ \/ i = current.id /\ current.abort = "no"
       \/ pc = "call" /\ i = Head(batch).id
    /\ plan.proposed => plan.approved
    /\ SkillsAllow(active, log[i].tool)

Begins(i) ==
    /\ Current(i) /\ log'[i].begun \in Words
    /\ log'[i].wrote => file[log[i].arg] = log'[i].seen
    /\ IF log'[i].begun = "gateway" THEN Allowed(log[i]) ELSE Confirmed(log[i])
    /\ log'[i].begun = "lease" => log[i].answer = "lease"

SameRow(i) ==
    /\ i \in DOMAIN log' /\ log'[i].tool = log[i].tool /\ log'[i].arg = log[i].arg
    /\ log'[i].turn = log[i].turn

(* A step on the call k. *)
LEMMA AdvanceRows ==
    ASSUME Typed, NEW call, NEW rest, About(call, rest), Advance(call.id, rest)
    PROVE  /\ DOMAIN log' = DOMAIN log /\ \A i \in DOMAIN log : SameRow(i)
           /\ call.id \in DOMAIN log
           /\ \A i \in DOMAIN log : i # call.id => log'[i] = log[i]
<1>1. /\ log \in Seq(Rows) /\ log' \in Seq(Rows) /\ Len(log') = Len(log)
      /\ \A i \in DOMAIN log : i # call.id => log'[i] = log[i]
      /\ log'[call.id].tool = log[call.id].tool /\ log'[call.id].arg = log[call.id].arg
      /\ log'[call.id].turn = log[call.id].turn /\ call.id \in DOMAIN log
    BY DEF Typed, About, Advance
<1>2. DOMAIN log' = DOMAIN log
    BY <1>1
<1> QED
    BY <1>1, <1>2 DEF SameRow

(* The call in hand begins on the user's word, given now or for the session. *)
LEMMA HandBegins ==
    ASSUME Typed, Numbered, Made, Serving, pc \in {"ask", "lease"}, current.abort = "no",
           log'[current.id].begun \in {"yes", "session", "lease"},
           log'[current.id].begun = "lease" => pc = "lease",
           log'[current.id].wrote => file[current.arg] = log'[current.id].seen
    PROVE  Begins(current.id)
<1>1. Busy
    BY DEF Busy
<1>2. /\ ~signal /\ Confirmed(current) /\ (plan.proposed => plan.approved)
      /\ SkillsAllow(active, current.tool) /\ signal \in BOOLEAN
    BY <1>1 DEF Serving, Typed
<1>3. current.tool = log[current.id].tool /\ current.arg = log[current.id].arg
    BY <1>1 DEF Numbered
<1>4. Check(manifest, log[current.id]) = Check(manifest, current)
    BY <1>3, SameCheck
<1>5. Current(current.id)
    BY <1>2, <1>3 DEF Current
<1>6. log'[current.id].begun = "lease" => log[current.id].answer = "lease"
    BY <1>1 DEF Serving
<1> QED
    BY <1>2, <1>3, <1>4, <1>5, <1>6 DEF Begins, Confirmed, Words

(* Every step keeps what a call is, and an effect begins only as Begins says. *)
LEMMA BeginStep ==
    ASSUME Typed, Numbered, Made, Serving, [Next]_vars
    PROVE  /\ manifest' = manifest
           /\ \A i \in DOMAIN log :
                 /\ SameRow(i)
                 /\ log'[i].begun = log[i].begun \/ Begins(i)
           /\ \A i \in DOMAIN log' \ DOMAIN log : Fresh(log'[i])
<1>1. CASE ModelCalls
    <2>1. manifest' = manifest
        BY <1>1 DEF ModelCalls
    <2> QED
        BY <1>1, <2>1, ModelCallsQueue DEF SameRow
<1>2. CASE UNCHANGED <<manifest, log>>
    BY <1>2 DEF SameRow
<1>3. CASE Block
    <2>1. /\ About(Head(batch), Tail(batch)) /\ Advance(Head(batch).id, Tail(batch))
          /\ Fresh(log[Head(batch).id]) /\ log'[Head(batch).id].begun = "no"
          /\ manifest' = manifest
        BY <1>3, BlockEffect
    <2>2. log[Head(batch).id].begun = "no"
        BY <2>1 DEF Fresh
    <2> QED
        BY <2>1, <2>2, AdvanceRows
<1>4. CASE Take
    <2> DEFINE call == Head(batch)
               d == Decision(call)
    <2>1. /\ Looking /\ About(call, Tail(batch)) /\ Advance(call.id, Tail(batch))
          /\ d.decision \in {"allow", "confirm"} /\ Fresh(log[call.id]) /\ call.tool # "todo_write"
          /\ \/ /\ d.decision = "allow" /\ log'[call.id].begun = "gateway"
                /\ log'[call.id].wrote => file[call.arg] = log'[call.id].seen
             \/ log'[call.id].begun = "no"
          /\ manifest' = manifest
        BY <1>4, TakeEffect
    <2>2. /\ d = Check(manifest, log[call.id]) /\ SkillsAllow(active, call.tool)
          /\ plan.proposed => plan.approved
        BY <2>1, Through
    <2>3. call.tool = log[call.id].tool /\ call.arg = log[call.id].arg /\ log[call.id].begun = "no"
        BY <2>1 DEF About, Fresh
    <2>4. Current(call.id)
        BY <2>1, <2>2, <2>3 DEF Current, Looking
    <2>5. log'[call.id].begun = log[call.id].begun \/ Begins(call.id)
        BY <2>1, <2>2, <2>3, <2>4 DEF Begins, Allowed, Words
    <2> QED
        BY <2>1, <2>5, AdvanceRows
<1>5. CASE Propose
    <2>1. /\ About(Head(batch), Tail(batch)) /\ Advance(Head(batch).id, Tail(batch))
          /\ Fresh(log[Head(batch).id]) /\ log'[Head(batch).id].begun = "no"
          /\ manifest' = manifest
        BY <1>5, ProposeEffect
    <2>2. log[Head(batch).id].begun = "no"
        BY <2>1 DEF Fresh
    <2> QED
        BY <2>1, <2>2, AdvanceRows
<1>6. CASE Answer
    <2>1. PICK word \in {"yes", "no", "session"} :
                 \/ /\ pending.id # current.id
                    /\ log' = [log EXCEPT ![pending.id] = [log[pending.id] EXCEPT !.answer = word]]
                 \/ /\ pending.id = current.id /\ Busy /\ About(current, batch)
                    /\ Advance(current.id, batch)
                    /\ \/ log'[current.id].begun = log[current.id].begun
                       \/ /\ pc = "ask" /\ current.abort = "no" /\ word # "no"
                          /\ log'[current.id].begun = word
                          /\ log'[current.id].wrote => file[current.arg] = log'[current.id].seen
        BY <1>6, AnswerEffect
    <2>2. manifest' = manifest /\ pending.id \in 1..Past
        BY <1>6, AnswerEffect
    <2>3. CASE pending.id # current.id
        <3>1. log' = [log EXCEPT ![pending.id] = [log[pending.id] EXCEPT !.answer = word]]
            BY <2>1, <2>3
        <3>2. pending.id \in DOMAIN log /\ log \in Seq(Rows)
            BY <2>2 DEF Typed, Numbered, Lined, Past
        <3>3. log[pending.id] \in Rows
            BY <3>2
        <3>4. DOMAIN log' = DOMAIN log
            BY <3>1, <3>2
        <3>5. \A i \in DOMAIN log : SameRow(i) /\ log'[i].begun = log[i].begun
            BY <3>1, <3>2, <3>3, <3>4 DEF SameRow, Rows
        <3> QED
            BY <2>2, <3>4, <3>5
    <2>4. CASE pending.id = current.id
        <3>1. /\ Busy /\ About(current, batch) /\ Advance(current.id, batch)
              /\ \/ log'[current.id].begun = log[current.id].begun
                 \/ /\ pc = "ask" /\ current.abort = "no"
                    /\ log'[current.id].begun \in {"yes", "session"}
                    /\ log'[current.id].wrote => file[current.arg] = log'[current.id].seen
            BY <2>1, <2>4
        <3>2. log'[current.id].begun = log[current.id].begun \/ Begins(current.id)
            BY <3>1, HandBegins
        <3> QED
            BY <2>2, <3>1, <3>2, AdvanceRows
    <2> QED
        BY <2>3, <2>4
<1>7. CASE LeaseAnswers
    <2>1. /\ pc = "lease" /\ Busy /\ About(current, batch) /\ Advance(current.id, batch)
          /\ \/ log'[current.id].begun = log[current.id].begun
             \/ /\ current.abort = "no" /\ log'[current.id].begun \in {"yes", "session", "lease"}
                /\ log'[current.id].wrote => file[current.arg] = log'[current.id].seen
          /\ manifest' = manifest
        BY <1>7, LeaseAnswersEffect
    <2>2. log'[current.id].begun = log[current.id].begun \/ Begins(current.id)
        BY <2>1, HandBegins
    <2> QED
        BY <2>1, <2>2, AdvanceRows
<1>8. CASE Reports
    <2>1. /\ About(current, batch) /\ Advance(current.id, batch)
          /\ log'[current.id].begun = log[current.id].begun
          /\ manifest' = manifest
        BY <1>8, ReportsEffect
    <2> QED
        BY <2>1, AdvanceRows
<1>9. CASE ClearLeases
    <2>1. /\ manifest' = manifest /\ DOMAIN log' = DOMAIN log
          /\ \A i \in DOMAIN log :
                 log'[i] = [log[i] EXCEPT !.answer = IF log[i].answer = "session" THEN "revoked"
                                                     ELSE log[i].answer]
        BY <1>9, ClearLeasesQueue DEF ClearLeases
    <2>2. \A i \in DOMAIN log : log[i] \in Rows
        BY DEF Typed
    <2> QED
        BY <2>1, <2>2 DEF SameRow, Rows
<1>10. \/ StartTurn \/ ModelEnds \/ BatchDone \/ Cut \/ Expire \/ (Cancel /\ pc \notin {"ask", "plan"})
       \/ EditOutside \/ UNCHANGED vars
       => UNCHANGED <<manifest, log>>
    BY DEF StartTurn, ModelEnds, BatchDone, Cut, Expire, Cancel, EditOutside, vars
<1> QED
    BY <1>1, <1>2, <1>3, <1>4, <1>5, <1>6, <1>7, <1>8, <1>9, <1>10 DEF Next, Reports

-----------------------------------------------------------------------------
(* What has begun was allowed by the gateway, or the user's word stands for it. *)
Decided ==
    \A i \in DOMAIN log :
        Begun(log[i]) => \/ Allowed(log[i])
                         \/ Confirmed(log[i]) /\ log[i].begun \in UsersWord

(* Every step keeps an effect on what the manifest decides and the user said. *)
LEMMA DecidedStep ==
    ASSUME Typed, Numbered, Made, Serving, Decided, [Next]_vars
    PROVE  Decided'
<1>1. /\ manifest' = manifest
      /\ \A i \in DOMAIN log : SameRow(i) /\ (log'[i].begun = log[i].begun \/ Begins(i))
      /\ \A i \in DOMAIN log' \ DOMAIN log : Fresh(log'[i])
    BY BeginStep
<1> SUFFICES ASSUME NEW i \in DOMAIN log', Begun(log'[i])
             PROVE  \/ Check(manifest', log'[i]).decision = "allow"
                    \/ /\ Check(manifest', log'[i]).decision = "confirm"
                       /\ log'[i].begun \in UsersWord
    BY DEF Decided, Allowed, Confirmed, Begun
<1>2. i \in DOMAIN log
    BY <1>1 DEF Fresh, Begun
<1>3. Check(manifest', log'[i]) = Check(manifest, log[i])
    BY <1>1, <1>2, SameCheck DEF SameRow
<1>4. CASE log'[i].begun = log[i].begun
    BY <1>2, <1>3, <1>4 DEF Decided, Allowed, Confirmed, Begun
<1>5. CASE Begins(i)
    BY <1>3, <1>5 DEF Begins, Allowed, Confirmed, Words, UsersWord
<1> QED
    BY <1>1, <1>2, <1>4, <1>5

-----------------------------------------------------------------------------
(***************************************************************************)
(* The user's words, and the leases they gave.                             *)
(***************************************************************************)

(* A lease is what the user said yes to for the session. *)
Grant(lease, row) ==
    /\ row.tool \in LeaseTools /\ lease.tool = row.tool
    /\ row.arg \in Paths /\ lease.scope = Scope(row)

(* Every lease was granted on a call that still says so, and the open       *)
(* question is about a call that waits for its word.                        *)
Granted ==
    /\ \A lease \in leases :
          \E j \in DOMAIN log : log[j].answer = "session" /\ Grant(lease, log[j])
    /\ pending # Nobody =>
          /\ \/ log[pending.id].answer = "asked"
             \/ log[pending.id].answer = "none" /\ log[pending.id].tool = "todo_write"
          /\ pending.lease # None => Grant(pending.lease, log[pending.id])

Touched(row) == Begun(row) \/ row.answer # "none"

(* A lease depends on the tool and the argument of a call alone. *)
LEMMA SameLease ==
    ASSUME NEW c, NEW d, c.tool = d.tool, c.arg = d.arg
    PROVE  /\ Scope(c) = Scope(d) /\ \A w : Proposed(c, w) = Proposed(d, w)
           /\ \A lease, w : Matches(lease, c, w) <=> Matches(lease, d, w)
<1>1. Scope(c) = Scope(d)
    BY DEF Scope
<1>2. \A w : Proposed(c, w) = Proposed(d, w)
    BY <1>1 DEF Proposed
<1> QED
    BY <1>1, <1>2 DEF Matches

(* What a step makes of the answer of a call. *)
Replies(i) ==
    /\ ClearLeases \/ (log[i].answer = "session" => log'[i].answer = "session")
    /\ log[i].answer # "lease" /\ log'[i].answer = "lease" =>
          /\ Looking /\ i = Head(batch).id
          /\ \E lease \in leases : Matches(lease, log[i], "confirm")
    /\ \/ Touched(log'[i]) <=> Touched(log[i])
       \/ log[i].tool = "todo_write"
       \/ Take /\ i = Head(batch).id

(* What a step makes of the open question. *)
Asks ==
    \/ pending' = Nobody
    \/ pending' = pending /\ (pending # Nobody => log'[pending.id].answer = log[pending.id].answer)
    \/ /\ pending'.id \in DOMAIN log
       /\ \/ log'[pending'.id].answer = "asked"
          \/ log'[pending'.id].answer = "none" /\ log'[pending'.id].tool = "todo_write"
       /\ pending'.lease # None => Grant(pending'.lease, log'[pending'.id])

Leases ==
    \/ leases' \subseteq leases
    \/ /\ pending # Nobody /\ pending.lease # None /\ leases' = leases \cup {pending.lease}
       /\ log'[pending.id].answer = "session"

(* A row that stays has its word still. *)
LEMMA SameReplies ==
    ASSUME NEW i, log'[i] = log[i]
    PROVE  Replies(i)
BY DEF Replies, Touched, Begun

(* Every step asks, replies and grants leases only for the call in hand. *)
LEMMA ReplyStep ==
    ASSUME Typed, Numbered, Made, Serving, Granted, [Next]_vars
    PROVE  Asks /\ Leases /\ \A i \in DOMAIN log : Replies(i)
<1>0. /\ Past \in Nat /\ \A i \in DOMAIN log : log[i] \in Rows
      /\ pending = Nobody \/ pending.id \in 1..Past
      /\ 1..Past \subseteq DOMAIN log
    BY DEF Typed, Numbered, Lined, Past
<1>1. CASE ModelCalls
    <2>1. \A i \in DOMAIN log : log'[i] = log[i]
        BY <1>1, ModelCallsQueue
    <2>2. pending' = pending /\ leases' = leases
        BY <1>1 DEF ModelCalls
    <2> QED
        BY <1>0, <2>1, <2>2, SameReplies DEF Asks, Leases
<1>2. CASE /\ log' = log /\ leases' = leases
           /\ pending' \in {pending, Nobody}
    BY <1>2, SameReplies DEF Asks, Leases
<1>3. CASE Block
    <2> DEFINE k == Head(batch).id
    <2>1. /\ About(Head(batch), Tail(batch)) /\ Advance(k, Tail(batch)) /\ k = Past + 1
          /\ Fresh(log[k]) /\ log'[k].begun = "no" /\ log'[k].answer = "none"
          /\ pending' = pending /\ leases' = leases
        BY <1>3, BlockEffect
    <2>2. /\ k \in DOMAIN log /\ \A i \in DOMAIN log : i # k => log'[i] = log[i]
        BY <2>1, AdvanceRows
    <2>3. Replies(k)
        BY <2>1 DEF Replies, Touched, Begun, Fresh
    <2>4. pending # Nobody => log'[pending.id] = log[pending.id]
        BY <1>0, <2>1, <2>2
    <2> QED
        BY <2>1, <2>2, <2>3, <2>4, SameReplies DEF Asks, Leases
<1>4. CASE Take
    <2> DEFINE call == Head(batch)
               k == call.id
               d == Decision(call)
    <2>1. /\ Looking /\ About(call, Tail(batch)) /\ Advance(k, Tail(batch)) /\ k = Past + 1
          /\ d.decision \in {"allow", "confirm"} /\ call.tool # "todo_write" /\ Fresh(log[k])
          /\ \/ pending' = pending /\ log'[k].answer = "none"
             \/ /\ pending' = pending /\ log'[k].answer = "lease"
                /\ \E lease \in leases : Matches(lease, call, "confirm")
             \/ /\ pending' = [id |-> k, lease |-> Proposed(call, "confirm")]
                /\ log'[k].answer = "asked"
          /\ leases' = leases
        BY <1>4, TakeEffect
    <2>2. /\ k \in DOMAIN log /\ \A i \in DOMAIN log : i # k => log'[i] = log[i]
          /\ call.tool = log[k].tool /\ call.arg = log[k].arg
          /\ call.tool = log'[k].tool /\ call.arg = log'[k].arg
        BY <2>1, AdvanceRows DEF About, SameRow
    <2>3. call.tool \in LeaseTools => call.arg \in Paths
        BY <2>1, Through DEF LeaseTools
    <2>4. Replies(k)
        <3>1. \A lease : Matches(lease, call, "confirm") <=> Matches(lease, log[k], "confirm")
            BY <2>2, SameLease
        <3> QED
            BY <1>4, <2>1, <3>1 DEF Replies, Fresh
    <2>5. pending # Nobody => log'[pending.id] = log[pending.id]
        BY <1>0, <2>1, <2>2
    <2>6. Asks
        <3>1. CASE pending' = pending
            BY <2>5, <3>1 DEF Asks
        <3>2. CASE /\ pending' = [id |-> k, lease |-> Proposed(call, "confirm")]
                   /\ log'[k].answer = "asked"
            <4>1. Scope(call) = Scope(log'[k])
                BY <2>2, SameLease
            <4>2. Proposed(call, "confirm") # None => Grant(Proposed(call, "confirm"), log'[k])
                BY <2>2, <2>3, <4>1 DEF Proposed, Grant
            <4> QED
                BY <2>2, <3>2, <4>2 DEF Asks
        <3> QED
            BY <2>1, <3>1, <3>2
    <2> QED
        BY <2>1, <2>2, <2>4, <2>6, SameReplies DEF Leases
<1>5. CASE Propose
    <2> DEFINE k == Head(batch).id
    <2>1. /\ About(Head(batch), Tail(batch)) /\ Advance(k, Tail(batch)) /\ k = Past + 1
          /\ Fresh(log[k]) /\ log'[k].begun = "no" /\ log'[k].answer = "none"
          /\ pending' = pending \/ pending' = [id |-> k, lease |-> None]
          /\ Head(batch).tool = "todo_write"
          /\ leases' = leases
        BY <1>5, ProposeEffect
    <2>2. /\ k \in DOMAIN log /\ \A i \in DOMAIN log : i # k => log'[i] = log[i]
          /\ log'[k].tool = "todo_write"
        BY <2>1, AdvanceRows DEF SameRow, About
    <2>3. Replies(k)
        BY <2>1 DEF Replies, Touched, Begun, Fresh
    <2>4. pending # Nobody => log'[pending.id] = log[pending.id]
        BY <1>0, <2>1, <2>2
    <2> HIDE DEF k
    <2> QED
        BY <2>1, <2>2, <2>3, <2>4, SameReplies DEF Asks, Leases
<1>6. CASE Answer
    <2>1. PICK word \in {"yes", "no", "session"} :
                 /\ word = "session" => pending.lease # None
                 /\ leases' = IF word = "session" THEN leases \cup {pending.lease} ELSE leases
                 /\ log'[pending.id].answer = word
                 /\ \/ /\ pending.id # current.id
                       /\ log' = [log EXCEPT ![pending.id] = [log[pending.id] EXCEPT !.answer = word]]
                    \/ /\ pending.id = current.id /\ About(current, batch)
                       /\ Advance(current.id, batch)
        BY <1>6, AnswerEffect
    <2>2. pending # Nobody /\ pending' = Nobody /\ pending.id \in DOMAIN log
        BY <1>0, <1>6, AnswerEffect
    <2>3. \A i \in DOMAIN log : i # pending.id => log'[i] = log[i]
        <3>1. CASE pending.id # current.id
            BY <2>1, <3>1 DEF Typed
        <3>2. CASE pending.id = current.id
            BY <2>1, <3>2, AdvanceRows
        <3> QED
            BY <3>1, <3>2
    <2>4. \/ log[pending.id].answer = "asked"
          \/ log[pending.id].answer = "none" /\ log[pending.id].tool = "todo_write"
        BY <2>2 DEF Granted
    <2>5. Replies(pending.id)
        BY <2>1, <2>4 DEF Replies, Touched
    <2>6. Leases
        BY <2>1, <2>2 DEF Leases
    <2> QED
        BY <2>2, <2>3, <2>5, <2>6, SameReplies DEF Asks
<1>7. CASE LeaseAnswers
    <2>1. /\ pc = "lease" /\ Busy /\ About(current, batch) /\ Advance(current.id, batch)
          /\ log'[current.id].answer = "lease" /\ pending' = pending /\ leases' = leases
        BY <1>7, LeaseAnswersEffect
    <2>2. log[current.id].answer = "lease" /\ pending.id # current.id
        BY <2>1 DEF Serving, Numbered
    <2>3. \A i \in DOMAIN log : i # current.id => log'[i] = log[i]
        BY <2>1, AdvanceRows
    <2>4. Replies(current.id)
        BY <2>1, <2>2 DEF Replies, Touched
    <2>5. pending # Nobody => log'[pending.id] = log[pending.id]
        BY <1>0, <2>2, <2>3
    <2> QED
        BY <2>1, <2>3, <2>4, <2>5, SameReplies DEF Asks, Leases
<1>8. CASE Reports
    <2>1. /\ About(current, batch) /\ Advance(current.id, batch)
          /\ log'[current.id].begun = log[current.id].begun
          /\ log'[current.id].answer = log[current.id].answer
          /\ pending' \in {pending, Nobody} /\ leases' = leases
        BY <1>8, ReportsEffect
    <2>2. \A i \in DOMAIN log : i # current.id => log'[i] = log[i]
        BY <2>1, AdvanceRows
    <2>3. Replies(current.id)
        BY <2>1 DEF Replies, Touched, Begun
    <2>4. \A i \in DOMAIN log : log'[i].answer = log[i].answer
        BY <2>1, <2>2
    <2>5. pending # Nobody => log'[pending.id].answer = log[pending.id].answer
        BY <1>0, <2>4
    <2> QED
        BY <2>1, <2>2, <2>3, <2>5, SameReplies DEF Asks, Leases
<1>9. CASE ClearLeases
    <2>1. /\ pending = Nobody /\ pending' = pending /\ leases' = {}
          /\ \A i \in DOMAIN log :
                 log'[i] = [log[i] EXCEPT !.answer = IF log[i].answer = "session" THEN "revoked"
                                                     ELSE log[i].answer]
        BY <1>9, ClearLeasesQueue DEF ClearLeases
    <2>2. \A i \in DOMAIN log :
             /\ log'[i].answer = IF log[i].answer = "session" THEN "revoked" ELSE log[i].answer
             /\ log'[i].begun = log[i].begun
        BY <1>0, <2>1 DEF Rows
    <2>3. \A i \in DOMAIN log : Replies(i)
        BY <1>9, <2>2 DEF Replies, Touched, Begun
    <2> QED
        BY <2>1, <2>3 DEF Asks, Leases
<1>10. \/ StartTurn \/ ModelEnds \/ BatchDone \/ Cut \/ Expire \/ (Cancel /\ pc \notin {"ask", "plan"})
       \/ EditOutside \/ UNCHANGED vars
       => log' = log /\ leases' = leases /\ pending' \in {pending, Nobody}
    BY DEF StartTurn, ModelEnds, BatchDone, Cut, Expire, Cancel, EditOutside, vars
<1> QED
    BY <1>1, <1>2, <1>3, <1>4, <1>5, <1>6, <1>7, <1>8, <1>9, <1>10 DEF Next, Reports

(* Every step keeps a word of the user behind every lease. *)
LEMMA GrantedStep ==
    ASSUME Typed, Numbered, Made, Serving, Granted, [Next]_vars
    PROVE  Granted'
<1>1. Asks /\ Leases /\ \A i \in DOMAIN log : Replies(i)
    BY ReplyStep
<1>2. \A i \in DOMAIN log : SameRow(i)
    BY BeginStep
<1>3. pending = Nobody \/ pending.id \in DOMAIN log
    BY DEF Typed, Numbered, Lined, Past
<1>4. \A i \in DOMAIN log : \A lease : Grant(lease, log[i]) => Grant(lease, log'[i])
    BY <1>2, SameLease DEF Grant, SameRow
<1>5. ASSUME NEW lease \in leases'
      PROVE  \E j \in DOMAIN log' : log'[j].answer = "session" /\ Grant(lease, log'[j])
    <2>1. CASE lease \in leases /\ ~ClearLeases
        <3>1. PICK j \in DOMAIN log : log[j].answer = "session" /\ Grant(lease, log[j])
            BY <2>1 DEF Granted
        <3> QED
            BY <1>1, <1>2, <1>4, <2>1, <3>1 DEF Replies, SameRow
    <2>2. CASE lease \notin leases
        <3>1. /\ pending # Nobody /\ pending.lease # None /\ lease = pending.lease
              /\ log'[pending.id].answer = "session"
            BY <1>1, <1>5, <2>2 DEF Leases
        <3>2. Grant(lease, log[pending.id])
            BY <3>1 DEF Granted
        <3> QED
            BY <1>2, <1>3, <1>4, <3>1, <3>2 DEF SameRow
    <2>3. CASE ClearLeases
        BY <1>5, <2>3 DEF ClearLeases
    <2> QED
        BY <2>1, <2>2, <2>3
<1>6. ASSUME pending' # Nobody
      PROVE  /\ \/ log'[pending'.id].answer = "asked"
                \/ log'[pending'.id].answer = "none" /\ log'[pending'.id].tool = "todo_write"
             /\ pending'.lease # None => Grant(pending'.lease, log'[pending'.id])
    <2>1. CASE /\ pending' = pending
               /\ pending # Nobody => log'[pending.id].answer = log[pending.id].answer
        <3>1. pending # Nobody /\ log'[pending.id].answer = log[pending.id].answer
            BY <1>6, <2>1
        <3> QED
            BY <1>2, <1>3, <1>4, <2>1, <3>1 DEF Granted, SameRow
    <2>2. CASE ~(/\ pending' = pending
                 /\ pending # Nobody => log'[pending.id].answer = log[pending.id].answer)
        BY <1>1, <1>6, <2>2 DEF Asks
    <2> QED
        BY <2>1, <2>2
<1> QED
    BY <1>5, <1>6 DEF Granted, Grant, Scope

-----------------------------------------------------------------------------
(***************************************************************************)
(* The limits of a turn.                                                   *)
(***************************************************************************)

(* The calls a turn took from a capability, and the pages it rendered, are  *)
(* counted, and the count never passes the limit.                            *)
Metered ==
    /\ \A c \in DOMAIN manifest :
          manifest[c].max > 0 /\ Counts(c) =>
             Cardinality(Drawn(c)) <= used[c] /\ Cardinality(Drawn(c)) <= manifest[c].max
    /\ Cardinality(Rendered) <= renders /\ Cardinality(Rendered) <= 2

(* The counters are set back with a turn only, and never run back in it. *)
LEMMA CountersStep ==
    ASSUME Typed, Numbered, Made, [Next]_vars, ~StartTurn
    PROVE  /\ left'.turns = left.turns
           /\ \A c \in Counted : used'[c] >= used[c]
           /\ renders' >= renders
<1>0. /\ left \in Left /\ renders \in Nat /\ \A c \in Counted : used[c] \in Nat
      /\ used \in [Counted -> Nat]
    BY DEF Typed
<1>1. CASE Block
    BY <1>1, BlockEffect
<1>2. CASE Take
    <2>1. /\ left' = left /\ used' = Counting(Decision(Head(batch)))
          /\ renders' \in {renders, renders + 1}
        BY <1>2, TakeEffect
    <2> QED
        BY <1>0, <2>1, CountsGrow
<1>3. CASE UNCHANGED <<used, renders>> /\ left'.turns = left.turns
    BY <1>0, <1>3
<1>4. ~Block /\ ~Take => UNCHANGED <<used, renders>>
    BY DEF Next, vars, ModelCalls, ModelEnds, BatchDone, Cut, Propose, Answer, LeaseAnswers, Finish,
           Expire, GiveUp, Cancel, EditOutside, ClearLeases
<1>5. ~Block /\ ~Take => left'.turns = left.turns
    <2>1. ASSUME NEW what \in {"calls", "cancels", "expiries", "edits", "clears"}, NEW n,
                 left' = [left EXCEPT ![what] = n]
          PROVE  left'.turns = left.turns
        BY <1>0, <2>1 DEF Left
    <2>2. ASSUME NEW what \in {"calls", "cancels", "expiries", "edits", "clears"}, Spend(what)
          PROVE  left'.turns = left.turns
        BY <2>1, <2>2 DEF Spend
    <2>3. CASE ModelCalls
        BY <2>1, <2>3 DEF ModelCalls
    <2>4. CASE \/ \E what \in {"cancels", "expiries", "edits", "clears"} : Spend(what)
               \/ left' = left
        BY <2>2, <2>4
    <2> QED
        BY <2>3, <2>4
        DEF Next, vars, ModelEnds, BatchDone, Cut, Propose, Answer, LeaseAnswers, Finish,
            Expire, GiveUp, Cancel, EditOutside, ClearLeases
<1> QED
    BY <1>1, <1>2, <1>3, <1>4, <1>5

(* A step takes one more call at most, the next of the batch. *)
LEMMA TakenStep ==
    ASSUME Typed, Numbered, Made, Serving, Granted, [Next]_vars,
           NEW i \in DOMAIN log', log'[i].turn = left'.turns, Touched(log'[i])
    PROVE  /\ ~StartTurn /\ i \in DOMAIN log /\ SameRow(i)
           /\ \/ Taken(log[i]) \/ log[i].tool = "todo_write"
              \/ Take /\ i = Head(batch).id
<1>1. i \in DOMAIN log /\ SameRow(i) /\ Replies(i)
    <2>1. ~Fresh(log'[i])
        BY DEF Touched, Fresh, Begun
    <2> QED
        BY <2>1, BeginStep, ReplyStep
<1>2. ~StartTurn
    <2> SUFFICES ASSUME StartTurn PROVE FALSE
        OBVIOUS
    <2>1. log' = log /\ log[i].turn > left'.turns /\ log[i] \in Rows /\ left' \in Left
        BY <1>1, StartTurnQueue DEF Typed
    <2> QED
        BY <2>1 DEF Rows, Left
<1>3. log[i].turn = left.turns
    BY <1>1, <1>2, CountersStep DEF SameRow
<1> QED
    BY <1>1, <1>2, <1>3 DEF Replies, Taken, Touched

(* A set of calls that gains one at most. *)
LEMMA OneMore ==
    ASSUME NEW S, NEW T, NEW x, IsFiniteSet(S), T \subseteq S \cup {x}
    PROVE  /\ IsFiniteSet(T) /\ Cardinality(T) \in Nat /\ Cardinality(S) \in Nat
           /\ Cardinality(T) <= Cardinality(S) + 1
           /\ T \subseteq S => Cardinality(T) <= Cardinality(S)
<1>1. IsFiniteSet(S \cup {x}) /\ Cardinality(S \cup {x}) <= Cardinality(S) + 1
    <2>1. Cardinality(S) \in Nat
        BY FS_CardinalityType
    <2> QED
        BY <2>1, FS_AddElement
<1>2. IsFiniteSet(T) /\ Cardinality(T) <= Cardinality(S \cup {x})
    BY <1>1, FS_Subset
<1>3. /\ Cardinality(T) \in Nat /\ Cardinality(S) \in Nat /\ Cardinality(S \cup {x}) \in Nat
    BY <1>1, <1>2, FS_CardinalityType
<1>4. T \subseteq S => Cardinality(T) <= Cardinality(S)
    BY FS_Subset
<1> QED
    BY <1>1, <1>2, <1>3, <1>4

(* There are finitely many calls, so they can be counted. *)
LEMMA CallsFinite ==
    ASSUME Typed
    PROVE  IsFiniteSet(DOMAIN log) /\ IsFiniteSet(Rendered) /\ \A c : IsFiniteSet(Drawn(c))
<1>1. DOMAIN log = 1..Len(log) /\ Len(log) \in Int
    BY DEF Typed
<1>2. IsFiniteSet(DOMAIN log)
    BY <1>1, FS_Interval
<1>3. Rendered \subseteq DOMAIN log /\ \A c : Drawn(c) \subseteq DOMAIN log
    BY DEF Rendered, Drawn
<1> QED
    BY <1>2, <1>3, FS_Subset

(* Nothing is drawn from the counters of the policy by a plan. *)
LEMMA PlansDrawNothing ==
    ASSUME NEW row, row.tool = "todo_write", NEW c \in DOMAIN RuntimeTool
    PROVE  ~Draws(row, c) /\ row.tool # "browser_render"
BY DEF Draws, PolicyOf, RuntimeTool

(* Every step keeps the counters of the turn no lower than the calls taken. *)
LEMMA MeteredStep ==
    ASSUME Typed, Numbered, Made, Serving, Granted, Metered, [Next]_vars
    PROVE  Metered'
<1> DEFINE next == Head(batch).id
<1>1. manifest' = manifest /\ manifest \in Manifests /\ Typed'
    BY BeginStep, QueueStep DEF Typed
<1>2. DOMAIN manifest \subseteq DOMAIN RuntimeTool /\ DOMAIN manifest \subseteq Counted
    BY <1>1, ManifestAssumption DEF Counted
<1>3. ASSUME NEW c \in DOMAIN RuntimeTool
      PROVE  /\ Drawn(c)' \subseteq Drawn(c) \cup {next}
             /\ ~(Take /\ Draws(log[next], c)) => Drawn(c)' \subseteq Drawn(c)
    <2> SUFFICES ASSUME NEW i \in Drawn(c)'
                 PROVE  i \in Drawn(c) \/ (Take /\ i = next /\ Draws(log[next], c))
        OBVIOUS
    <2>1. i \in DOMAIN log' /\ log'[i].turn = left'.turns /\ Touched(log'[i]) /\ Draws(log'[i], c)
        BY DEF Drawn, Taken, Touched, Begun, Draws
    <2>2. /\ i \in DOMAIN log /\ SameRow(i)
          /\ Taken(log[i]) \/ log[i].tool = "todo_write" \/ (Take /\ i = next)
        BY <2>1, TakenStep
    <2>3. Draws(log[i], c)
        BY <2>1, <2>2 DEF Draws, SameRow
    <2> QED
        BY <2>2, <2>3, PlansDrawNothing DEF Drawn
<1>4. /\ Rendered' \subseteq Rendered \cup {next}
      /\ ~(Take /\ log[next].tool = "browser_render") => Rendered' \subseteq Rendered
    <2> SUFFICES ASSUME NEW i \in Rendered'
                 PROVE  i \in Rendered \/ (Take /\ i = next /\ log[next].tool = "browser_render")
        OBVIOUS
    <2>1. /\ i \in DOMAIN log' /\ log'[i].turn = left'.turns /\ Touched(log'[i])
          /\ log'[i].tool = "browser_render"
        BY DEF Rendered, Taken, Touched, Begun
    <2>2. /\ i \in DOMAIN log /\ SameRow(i)
          /\ Taken(log[i]) \/ log[i].tool = "todo_write" \/ (Take /\ i = next)
        BY <2>1, TakenStep
    <2> QED
        BY <2>1, <2>2 DEF Rendered, SameRow
<1>5. CASE StartTurn
    <2>1. ~ \E i \in DOMAIN log' : Taken(log[i])'
        BY <1>5, TakenStep DEF Taken, Touched, Begun
    <2>2. Rendered' = {} /\ \A c : Drawn(c)' = {}
        BY <2>1 DEF Rendered, Drawn
    <2>3. Cardinality({}) = 0
        BY FS_EmptySet
    <2>4. renders' = 0 /\ used' = [c \in Counted |-> 0]
        BY <1>5 DEF StartTurn
    <2>5. \A c \in DOMAIN manifest : manifest[c].max > 0 => 0 <= used'[c] /\ 0 <= manifest[c].max
        <3>1. \A c \in DOMAIN manifest : manifest[c].max \in Nat
            BY <1>1, ManifestAssumption DEF Needs
        <3> QED
            BY <1>2, <2>4, <3>1
    <2> QED
        BY <1>1, <2>2, <2>3, <2>4, <2>5 DEF Metered
<1>6. CASE ~StartTurn
    <2>1. /\ \A c \in Counted : used'[c] >= used[c] /\ used[c] \in Nat /\ used'[c] \in Nat
          /\ renders' >= renders /\ renders \in Nat /\ renders' \in Nat
        BY <1>1, <1>6, CountersStep DEF Typed
    <2>2. ASSUME NEW c \in DOMAIN manifest, manifest[c].max > 0, Counts(c)
          PROVE  Cardinality(Drawn(c)') <= used'[c] /\ Cardinality(Drawn(c)') <= manifest[c].max
        <3>1. /\ Cardinality(Drawn(c)) <= used[c] /\ Cardinality(Drawn(c)) <= manifest[c].max
              /\ manifest[c].max \in Nat
            BY <1>1, <2>2, ManifestAssumption DEF Metered, Needs
        <3>2. /\ Cardinality(Drawn(c)) \in Nat /\ Cardinality(Drawn(c)') \in Nat
              /\ Cardinality(Drawn(c)') <= Cardinality(Drawn(c)) + 1
              /\ Drawn(c)' \subseteq Drawn(c) => Cardinality(Drawn(c)') <= Cardinality(Drawn(c))
            BY <1>2, <1>3, CallsFinite, OneMore
        <3>3. CASE Drawn(c)' \subseteq Drawn(c)
            BY <1>2, <2>1, <3>1, <3>2, <3>3
        <3>4. CASE Take /\ Draws(log[next], c)
            <4> DEFINE d == Decision(Head(batch))
            <4>1. Looking /\ d.decision # "deny" /\ used' = Counting(d)
                BY <3>4, TakeEffect
            <4>2. /\ d = Check(manifest, CallOf(log[next])) /\ CallOf(log[next]) \in Calls
                  /\ ~(d.max > 0 /\ used[d.capability] >= d.max)
                BY <4>1, Through
            <4>3. /\ d.capability = c /\ 0 < d.max /\ d.max <= manifest[c].max /\ d.max \in Nat
                <5>1. /\ PolicyOf(CallOf(log[next]).tool) = RuntimeTool[c]
                      /\ CallOf(log[next]).tool = "web_fetch" =>
                            c = IF CallOf(log[next]).arg = "extract" THEN "web_extract" ELSE "web_fetch"
                    BY <3>4 DEF Draws, CallOf
                <5>2. RuntimeTool[c] = "web_fetch" \/ Ready(manifest, RuntimeTool[c]) = {c}
                    BY <2>2 DEF Counts
                <5> HIDE DEF d
                <5> QED
                    BY <1>1, <2>2, <4>1, <4>2, <5>1, <5>2, Budgeted
            <4>4. used'[c] = used[c] + 1
                BY <1>2, <4>1, <4>3, CountsGrow DEF Typed
            <4> HIDE DEF d
            <4>5. used[c] < d.max
                BY <1>2, <2>1, <4>2, <4>3
            <4> QED
                BY <1>2, <2>1, <3>1, <3>2, <4>3, <4>4, <4>5
        <3> QED
            BY <1>2, <1>3, <3>3, <3>4
    <2>3. Cardinality(Rendered') <= renders' /\ Cardinality(Rendered') <= 2
        <3>1. /\ Cardinality(Rendered) \in Nat /\ Cardinality(Rendered') \in Nat
              /\ Cardinality(Rendered') <= Cardinality(Rendered) + 1
              /\ Rendered' \subseteq Rendered => Cardinality(Rendered') <= Cardinality(Rendered)
            BY <1>4, CallsFinite, OneMore
        <3>2. Cardinality(Rendered) <= renders /\ Cardinality(Rendered) <= 2
            BY DEF Metered
        <3>3. CASE Rendered' \subseteq Rendered
            BY <2>1, <3>1, <3>2, <3>3
        <3>4. CASE Take /\ log[next].tool = "browser_render"
            <4>1. Head(batch).tool = "browser_render" /\ renders' = renders + 1 /\ ~OverRendered(Head(batch))
                BY <3>4, TakeEffect DEF About
            <4> QED
                BY <2>1, <3>1, <3>2, <4>1 DEF OverRendered
        <3> QED
            BY <1>4, <3>3, <3>4
    <2>4. \A c : Counts(c)' <=> Counts(c)
        BY <1>1 DEF Counts
    <2> QED
        BY <1>1, <2>2, <2>3, <2>4 DEF Metered
<1> QED
    BY <1>5, <1>6

-----------------------------------------------------------------------------
(***************************************************************************)
(* The theorems.                                                           *)
(***************************************************************************)

Inv == Typed /\ Numbered /\ Made /\ Serving /\ Decided /\ Granted /\ Metered

(* A session starts with no call, no question and no lease. *)
LEMMA InitInv == Init => Inv
<1> SUFFICES ASSUME Init PROVE Inv
    OBVIOUS
<1>1. log = <<>> /\ batch = <<>> /\ pc = "idle" /\ ~Busy /\ pending = Nobody /\ leases = {}
    BY DEF Init, Busy
<1>2. DOMAIN log = {} /\ Len(log) = 0 /\ Len(batch) = 0 /\ Past = 0
    BY <1>1 DEF Past
<1>3. Typed
    <2>1. left \in Left /\ manifest \in Manifests
        BY BudgetAssumption DEF Init, Left
    <2>2. /\ plan \in [proposed : BOOLEAN, approved : BOOLEAN] /\ (plan.approved => plan.proposed)
          /\ used \in [Counted -> Nat] /\ renders \in Nat
          /\ active \in SUBSET Skills /\ signal \in BOOLEAN /\ file \in [Paths -> Nat]
        BY DEF Init, NoPlan
    <2>3. batch \in Seq(Queued) /\ log \in Seq(Rows) /\ current = NoCall
        BY <1>1 DEF Init
    <2> QED
        BY <1>1, <2>1, <2>2, <2>3 DEF Typed
<1>4. Numbered
    <2>1. Lined(Past, batch)
        BY <1>2 DEF Lined
    <2> QED
        BY <1>1, <2>1 DEF Numbered
<1>5. Made /\ Serving /\ Decided
    BY <1>1, <1>2 DEF Made, Serving, Decided
<1>6. Granted
    BY <1>1 DEF Granted
<1>7. Metered
    <2>1. Rendered = {} /\ \A c : Drawn(c) = {}
        BY <1>2 DEF Rendered, Drawn
    <2>2. Cardinality({}) = 0
        BY FS_EmptySet
    <2>3. renders = 0 /\ \A c \in DOMAIN manifest : used[c] = 0 /\ manifest[c].max \in Nat
        BY ManifestAssumption DEF Init, Counted, Needs
    <2> QED
        BY <2>1, <2>2, <2>3 DEF Metered
<1> QED
    BY <1>3, <1>4, <1>5, <1>6, <1>7 DEF Inv

(* The invariant is inductive. *)
LEMMA NextInv == Inv /\ [Next]_vars => Inv'
<1> SUFFICES ASSUME Inv, [Next]_vars PROVE Inv'
    OBVIOUS
<1>1. Typed /\ Numbered /\ Made /\ Serving /\ Decided /\ Granted /\ Metered
    BY DEF Inv
<1> QED
    BY <1>1, QueueStep, ServingStep, DecidedStep, GrantedStep, MeteredStep DEF Inv

(* The invariant, the conjunction of the parts above, holds throughout: what
   follows reads the properties off it. *)
THEOREM Safety == Spec => []Inv
BY InitInv, NextInv, PTL DEF Spec

(* The types of the session's state (agentLoop, runToolWithDeadline and the  *)
(* bridge's pendingConfirm): a question is open for the call that waits for  *)
(* it, and the loop has a call in hand exactly while it awaits one.          *)
THEOREM TypeCorrect == Spec => []TypeOK
<1>1. Inv => TypeOK
    <2> SUFFICES ASSUME Typed, Numbered PROVE TypeOK
        BY DEF Inv
    <2>1. \A i \in DOMAIN batch : batch[i].id \in DOMAIN log
        BY DEF Typed, Numbered, Lined, Past
    <2>2. Busy <=> current # NoCall
        BY DEF Typed, Numbered, NoCall
    <2> QED
        BY <2>1, <2>2 DEF Typed, Numbered, TypeOK, Busy
<1> QED
    BY <1>1, Safety, PTL

(* Every call is reported once at most, has been when the loop asks the      *)
(* model again, and a refusal is reported of no write and no loading of a    *)
(* skill that had an effect; of the tools that hand on outside text the code *)
(* promises nothing of the kind (agentLoop and runToolWithDeadline of        *)
(* run.mjs).                                                                 *)
THEOREM CallsEndOnce == Spec => []OneEndPerCall
<1>1. Inv => OneEndPerCall
    <2> SUFFICES ASSUME Typed, Numbered, Made, NEW i \in DOMAIN log,
                        pc = "model", log[i].turn = left.turns
                 PROVE  log[i].ends = 1
        BY DEF Inv, Made, OneEndPerCall
    <2>1. i <= Past /\ ~Busy
        BY DEF Typed, Numbered, Past, Busy
    <2> QED
        BY <2>1 DEF Made
<1> QED
    BY <1>1, Safety, PTL

(* Every effect of every employee rests on the manifest, and on the user's   *)
(* word where it, or the platform, asks for it (employee-tools.mjs resolve,  *)
(* tool-gateway.mjs applyEmployeePolicy).                                    *)
THEOREM ManifestsHold == Spec => []ManifestIsObeyed
<1>1. Inv => ManifestIsObeyed
    <2> SUFFICES ASSUME Typed, Made, Decided, NEW i \in DOMAIN log, Begun(log[i])
                 PROVE  LET row == log[i]
                            ready == Ready(manifest, PolicyOf(row.tool))
                        IN  /\ row.tool \notin DOMAIN Intrinsic =>
                                  /\ ready # {} /\ row.arg \notin {"outside", "private", "bad"}
                                  /\ row.tool = "web_fetch" =>
                                        (IF row.arg = "extract" THEN "web_extract" ELSE "web_fetch") \in ready
                                  /\ row.tool = "write_file" =>
                                        \E need \in Bearing(row) : need.permission # "readonly"
                            /\ \/ row.tool \in {"mcp_call", "browser_render", "write_file"}
                               \/ \E need \in Bearing(row) :
                                     \/ need.necessity = "non_default" \/ need.approval = "always"
                                     \/ need.permission = "requires_authorization"
                               => row.begun \in UsersWord
        BY DEF Inv, ManifestIsObeyed
    <2> DEFINE row == log[i]
               call == CallOf(row)
               ready == Ready(manifest, PolicyOf(row.tool))
    <2>1. call \in Calls /\ call.tool = row.tool /\ call.arg = row.arg /\ manifest \in Manifests
        BY DEF Made, CallOf, Typed
    <2>2. Check(manifest, call) = Check(manifest, row)
        BY <2>1, SameCheck
    <2>3. /\ Check(manifest, call).decision # "deny"
          /\ Check(manifest, call).decision = "confirm" => row.begun \in UsersWord
        BY <2>2 DEF Decided, Allowed, Confirmed
    <2> HIDE DEF call
    <2>4. /\ row.tool \notin DOMAIN Intrinsic =>
                /\ ready # {} /\ row.arg \notin {"outside", "private", "bad"}
                /\ row.tool = "web_fetch" =>
                      (IF row.arg = "extract" THEN "web_extract" ELSE "web_fetch") \in ready
                /\ row.tool = "write_file" => \E c \in ready : manifest[c].permission # "readonly"
          /\ \/ row.tool \in {"mcp_call", "browser_render", "write_file"}
             \/ /\ row.tool \notin DOMAIN Intrinsic
                /\ \E c \in ready :
                      \/ manifest[c].necessity = "non_default" \/ manifest[c].approval = "always"
                      \/ manifest[c].permission = "requires_authorization"
             => Check(manifest, call).decision = "confirm"
        BY <2>1, <2>3, Obeyed
    <2>5. ready # {} => row.tool \notin DOMAIN Intrinsic
        <3>1. \A c \in ready : c \in DOMAIN RuntimeTool /\ RuntimeTool[c] = PolicyOf(row.tool)
            BY <2>1, ManifestAssumption DEF Ready
        <3> QED
            BY <3>1 DEF RuntimeTool, PolicyOf, Intrinsic
    <2>6. Bearing(row) = {manifest[c] : c \in ready}
        BY DEF Bearing
    <2> QED
        BY <2>3, <2>4, <2>5, <2>6
<1> QED
    BY <1>1, Safety, PTL

(* No turn passes the limit of a capability or renders a third page          *)
(* (toolCallCounts and renderCount of run.mjs).                              *)
THEOREM LimitsHold == Spec => []CallsStayWithinLimit
<1>1. Inv => CallsStayWithinLimit
    BY DEF Inv, Metered, CallsStayWithinLimit
<1> QED
    BY <1>1, Safety, PTL

(* An effect begins on a state that is still the one it was decided on       *)
(* (executeToolCalls, confirm and write_file of run.mjs).                    *)
THEOREM EffectsAreCurrent == Spec => EffectIsCurrent
<1>1. Inv /\ [Next]_vars =>
         [\A i \in DOMAIN log : ~Begun(log[i]) /\ Begun(log'[i]) =>
             /\ ~signal
             /\ \/ i = current.id /\ current.abort = "no"
                \/ pc = "call" /\ i = Head(batch).id
             /\ plan.proposed => plan.approved
             /\ active = {} \/ log[i].tool \in {"use_skill"} \cup UNION {AllowedTools[s] : s \in active}
             /\ log'[i].wrote => file[log[i].arg] = log'[i].seen]_vars
    <2> SUFFICES ASSUME Inv, [Next]_vars, NEW i \in DOMAIN log, ~Begun(log[i]), Begun(log'[i])
                 PROVE  /\ ~signal
                        /\ \/ i = current.id /\ current.abort = "no"
                           \/ pc = "call" /\ i = Head(batch).id
                        /\ plan.proposed => plan.approved
                        /\ \/ active = {}
                           \/ log[i].tool \in {"use_skill"} \cup UNION {AllowedTools[s] : s \in active}
                        /\ log'[i].wrote => file[log[i].arg] = log'[i].seen
        OBVIOUS
    <2>1. Begins(i)
        BY BeginStep DEF Inv, Begun
    <2> QED
        BY <2>1 DEF Begins, Current, SkillsAllow
<1> QED
    BY <1>1, Safety, PTL DEF Spec, EffectIsCurrent

(* A lease answers only for a call that the user's word for the session      *)
(* covers and that he has not taken back by then, and an effect begins on a  *)
(* lease only for a call answered so (permission-leases.mjs, confirm).       *)
THEOREM LeasesAreTheUsers == Spec => LeaseIsTheUsers
<1>1. Inv /\ [Next]_vars =>
         [\A i \in DOMAIN log :
             /\ log[i].answer # "lease" /\ log'[i].answer = "lease" =>
                   \E j \in 1..(i - 1) : Covers(log[j], log[i])
             /\ log[i].begun # "lease" /\ log'[i].begun = "lease" => log[i].answer = "lease"]_vars
    <2>1. ASSUME Inv, [Next]_vars, NEW i \in DOMAIN log,
                 log[i].answer # "lease", log'[i].answer = "lease"
          PROVE  \E j \in 1..(i - 1) : Covers(log[j], log[i])
        <3>1. Looking /\ i = Head(batch).id /\ \E lease \in leases : Matches(lease, log[i], "confirm")
            BY <2>1, ReplyStep DEF Inv, Replies
        <3>2. PICK lease \in leases : Matches(lease, log[i], "confirm")
            BY <3>1
        <3>3. PICK j \in DOMAIN log : log[j].answer = "session" /\ Grant(lease, log[j])
            BY <2>1, <3>2 DEF Inv, Granted
        <3>4. j \in 1..(i - 1)
            <4>1. i = Past + 1 /\ Past \in Nat
                BY <2>1, <3>1, AboutNext DEF Inv, Numbered, Lined
            <4>2. ~(j > Past)
                BY <2>1, <3>3 DEF Inv, Made, Fresh
            <4>3. j \in 1..Len(log) /\ Len(log) \in Nat
                BY <2>1, <3>3 DEF Inv, Typed
            <4> HIDE DEF Past
            <4> QED
                BY <4>1, <4>2, <4>3
        <3>5. log[j].tool = log[i].tool /\ log[i].arg \in Scope(log[j])
            BY <3>2, <3>3 DEF Matches, Grant
        <3> QED
            BY <3>3, <3>4, <3>5 DEF Scope, Covers
    <2>2. ASSUME Inv, [Next]_vars, NEW i \in DOMAIN log,
                 log[i].begun # "lease", log'[i].begun = "lease"
          PROVE  log[i].answer = "lease"
        BY <2>2, BeginStep DEF Inv, Begins
    <2> QED
        BY <2>1, <2>2
<1> QED
    BY <1>1, Safety, PTL DEF Spec, LeaseIsTheUsers
=============================================================================
