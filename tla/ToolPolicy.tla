------------------------------ MODULE ToolPolicy ------------------------------
(***************************************************************************)
(* What one employee may do with a tool: the needs its manifest declares   *)
(* are merged into one entry per runtime tool (employee-tools.mjs), the    *)
(* gateway combines the entry with the platform's own decision             *)
(* (tool-gateway.mjs), active skills bound the result                      *)
(* (context-runtime.mjs), and a session lease may stand for the user's yes *)
(* (permission-leases.mjs).  Everything here is a function of its          *)
(* arguments; AgentLoop holds the state.                                   *)
(*                                                                         *)
(* A manifest maps each declared capability to its need                    *)
(*   [necessity, permission, approval, granted, max]                       *)
(* with max = 0 when it sets no limit; "granted" is the workspace grant    *)
(* of the hire.  A call is [tool, arg]: arg is a path of the workspace,    *)
(* "outside" it, the form of a fetch, or "bad" for arguments that do not   *)
(* parse.  The tools are one of each kind the gateway tells apart.         *)
(***************************************************************************)
EXTENDS Integers, FiniteSets, FiniteSetsExt

CONSTANTS Paths,         \* workspace paths of the file tools
          Parent,        \* [Paths -> directory], "." for the root
          Skills,        \* installed skills
          AllowedTools   \* [Skills -> set of tools]: allowed-tools of the skill

(* Three arguments that are no path: one outside the workspace, a private   *)
(* address, and arguments that do not parse.                                *)
ASSUME PathAssumption == Paths \cap {"outside", "private", "bad"} = {}
ASSUME ParentAssumption == DOMAIN Parent = Paths
ASSUME SkillAssumption == DOMAIN AllowedTools = Skills

None == [tool |-> "none"]

(* contracts/tool-catalog.json: the capabilities bound to a runtime tool   *)
(* that the model can call.  list_files is no capability's tool.           *)
RuntimeTool == [files_read     |-> "read_file",
                document_read  |-> "read_file",
                files_write    |-> "write_file",
                web_fetch      |-> "web_fetch",
                web_extract    |-> "web_fetch",
                browser_render |-> "browser_render"]

Class(level, scope, action) == [level |-> level, scope |-> scope, action |-> action]

Classification ==
    [read_file      |-> Class("L1", "workspace", "read"),
     list_files     |-> Class("L1", "workspace", "read"),
     write_file     |-> Class("L2", "workspace", "write"),
     web_fetch      |-> Class("L0", "public_web", "read"),
     browser_render |-> Class("L2", "browser", "render"),
     use_skill      |-> Class("L1", "employee_profile", "read"),
     todo_write     |-> Class("L0", "task_plan", "coordinate"),
     mcp_call       |-> Class("L3", "external_mcp", "read")]

Tools == DOMAIN Classification

(* The calls the model may make. *)
Calls ==
    [tool : {"read_file", "list_files", "write_file"}, arg : Paths \cup {"outside", "bad"}]
    \cup [tool : {"web_fetch"}, arg : {"plain", "extract", "private", "bad"}]
    \cup [tool : {"browser_render"}, arg : {"page", "private", "bad"}]
    \cup [tool : {"use_skill"}, arg : Skills \cup {"bad"}]
    \cup [tool : {"todo_write"}, arg : {"long", "short", "bad"}]
    \cup [tool : {"mcp_call"}, arg : {"x", "bad"}]

DefaultPolicy == [L0 |-> "allow", L1 |-> "allow", L2 |-> "confirm", L3 |-> "confirm", L4 |-> "deny"]

-----------------------------------------------------------------------------
(* The merge of the needs that share a runtime tool. *)

Necessity  == <<"disabled", "non_default", "conditional", "required">>
Permission == <<"disabled", "readonly", "write", "requires_authorization">>
Approval   == <<"never", "when_needed", "always">>

(* A need the runtime accepts; one it does not takes no part.               *)
WellFormed(need) ==
    /\ need.necessity = "disabled" <=> need.permission = "disabled"
    /\ need.permission = "requires_authorization" => need.approval # "never"
    /\ need.necessity = "non_default" => need.permission = "requires_authorization"

Needs == {need \in [necessity : Range(Necessity), permission : Range(Permission),
                    approval : Range(Approval), granted : BOOLEAN, max : Nat] : WellFormed(need)}

Strongest(values, rank) == rank[Max({i \in DOMAIN rank : rank[i] \in values})]

(* Enabled by the frozen hire: required ones by the manifest itself, the    *)
(* others only when the hire granted them.                                  *)
Usable(need) ==
    /\ "disabled" \notin {need.necessity, need.permission}
    /\ need.necessity = "required" \/ need.granted

Ready(manifest, tool) ==
    {c \in DOMAIN manifest : RuntimeTool[c] = tool /\ Usable(manifest[c])}

(* Mutant: the weakest permission of the needs stands. *)
MergedWeakest(manifest, ready) ==
    LET Of(field) == {manifest[c][field] : c \in ready}
        limits == Of("max") \ {0}
    IN  [caps       |-> ready,
         necessity  |-> Strongest(Of("necessity"), Necessity),
         permission |-> Permission[Min({i \in DOMAIN Permission : Permission[i] \in Of("permission")})],
         approval   |-> Strongest(Of("approval"), Approval),
         granted    |-> \A c \in ready : Usable(manifest[c]),
         max        |-> IF limits = {} THEN 0 ELSE Min(limits),
         timed      |-> TRUE]

Merged(manifest, ready) ==
    LET Of(field) == {manifest[c][field] : c \in ready}
        limits == Of("max") \ {0}
    IN  [caps       |-> ready,
         necessity  |-> Strongest(Of("necessity"), Necessity),
         permission |-> IF "non_default" \in Of("necessity") THEN "requires_authorization"
                        ELSE Strongest(Of("permission"), Permission),
         approval   |-> Strongest(Of("approval"), Approval),
         granted    |-> \A c \in ready : Usable(manifest[c]),
         max        |-> IF limits = {} THEN 0 ELSE Min(limits),
         timed      |-> TRUE]

(* The tools every employee has; they have no limits. *)
Intrinsic ==
    LET Entry(cap, permission, approval) ==
            [caps |-> {cap}, necessity |-> "required", permission |-> permission,
             approval |-> approval, granted |-> TRUE, max |-> 0, timed |-> FALSE]
    IN  [use_skill  |-> Entry("skills_use", "readonly", "never"),
         todo_write |-> Entry("todo_write", "write", "never"),
         mcp_call   |-> Entry("mcp_read", "requires_authorization", "always")]

(* list_files has the very policy of read_file. *)
PolicyOf(tool) == IF tool = "list_files" THEN "read_file" ELSE tool

HasEntry(manifest, tool) ==
    tool \in DOMAIN Intrinsic \/ Ready(manifest, PolicyOf(tool)) # {}

Entry(manifest, tool) ==
    IF tool \in DOMAIN Intrinsic THEN Intrinsic[tool]
    ELSE Merged(manifest, Ready(manifest, PolicyOf(tool)))

-----------------------------------------------------------------------------
(* The gateway. *)

Refusal == [decision |-> "deny", capability |-> "none", max |-> 0, timed |-> FALSE]

(* A fetch selects its capability by its arguments, a tool with a single    *)
(* capability has that one, any other is counted under its own name.        *)
Selected(entry, call) ==
    IF call.tool = "web_fetch"
    THEN IF call.arg = "extract" THEN "web_extract" ELSE "web_fetch"
    ELSE IF Cardinality(entry.caps) = 1 THEN CHOOSE c \in entry.caps : TRUE
         ELSE "none"

PlatformDecision(call) ==
    LET class == Classification[call.tool]
    IN  IF \/ call.tool \in {"web_fetch", "browser_render"} /\ call.arg = "private"
           \/ class.scope = "workspace" /\ call.arg = "outside"
        THEN "deny"
        ELSE DefaultPolicy[class.level]

ReadonlyAllows(tool) ==
    \/ Classification[tool].action \in {"read", "render"}
    \/ tool = "todo_write"

EmployeeDecision(entry, call, platform) ==
    IF \/ "disabled" \in {entry.necessity, entry.permission}
       \/ entry.necessity # "required" /\ ~entry.granted
       \/ platform = "deny"
    THEN "deny"
    ELSE IF entry.necessity = "non_default" THEN "confirm"
    ELSE IF entry.permission = "readonly" /\ ~ReadonlyAllows(call.tool) THEN "deny"
    ELSE IF entry.permission = "requires_authorization" \/ entry.approval = "always"
         THEN "confirm"
    ELSE platform

Check(manifest, call) ==
    IF call.arg = "bad" \/ ~HasEntry(manifest, call.tool) THEN Refusal
    ELSE LET entry == Entry(manifest, call.tool)
             cap == Selected(entry, call)
         IN  IF call.tool = "web_fetch" /\ cap \notin entry.caps THEN Refusal
             ELSE [decision   |-> EmployeeDecision(entry, call, PlatformDecision(call)),
                   capability |-> IF cap = "none" THEN call.tool ELSE cap,
                   max        |-> entry.max,
                   timed      |-> entry.timed]

(* An active skill that declares tools bounds the turn; several bound it    *)
(* by their union.                                                          *)
SkillsAllow(active, tool) ==
    \/ tool = "use_skill"
    \/ active = {}
    \/ \E s \in active : tool \in AllowedTools[s]

-----------------------------------------------------------------------------
(* Session leases. *)

LeaseTools == {"read_file", "list_files", "write_file"}

(* The paths a lease for this call covers: the whole directory of a file,   *)
(* everything below a listed directory, but a file of the root alone.       *)
Scope(call) ==
    IF call.tool = "list_files" THEN {p \in Paths : Parent[p] = call.arg} \cup {call.arg}
    ELSE IF Parent[call.arg] = "." THEN {call.arg}
    ELSE {p \in Paths : Parent[p] = Parent[call.arg]} \cup {Parent[call.arg]}

Proposed(call, decision) ==
    IF /\ call.tool \in LeaseTools
       /\ decision = "confirm"
       /\ Classification[call.tool].scope = "workspace"
       /\ Classification[call.tool].level \in {"L1", "L2"}
    THEN [tool |-> call.tool, scope |-> Scope(call)]
    ELSE None

(* Mutant: any tool of the path. *)
MatchesPath(lease, call, decision) ==
    /\ Proposed(call, decision) # None
    /\ call.arg \in lease.scope

Matches(lease, call, decision) ==
    /\ Proposed(call, decision) # None
    /\ lease.tool = call.tool
    /\ call.arg \in lease.scope
=============================================================================
