------------------------------ MODULE MCAgentLoop ------------------------------
(***************************************************************************)
(* Instances of AgentLoop: one employee reads by two capabilities of which *)
(* one is non_default, the other has its limits; both may write, fetch and *)
(* render.  One skill allows reading alone.                                *)
(***************************************************************************)
EXTENDS AgentLoop

Files == {"d/a", "d/b", "top", "d"}
ParentOf == [f \in Files |-> IF f \in {"d/a", "d/b"} THEN "d" ELSE "."]
Reader == [s \in {"s"} |-> {"read_file", "use_skill"}]

Call(tool, arg) == [tool |-> tool, arg |-> arg]

AllCalls ==
    {Call("read_file", "d/a"), Call("read_file", "outside"), Call("list_files", "d"),
     Call("read_file", "d"),
     Call("write_file", "d/a"), Call("write_file", "d/b"), Call("write_file", "top"),
     Call("web_fetch", "plain"), Call("web_fetch", "extract"), Call("browser_render", "page"),
     Call("mcp_call", "x"), Call("use_skill", "s"),
     Call("todo_write", "long"), Call("todo_write", "short")}

Need(necessity, permission, approval, granted, max) ==
    [necessity |-> necessity, permission |-> permission, approval |-> approval,
     granted |-> granted, max |-> max]

Two == [files_read     |-> Need("required", "readonly", "never", FALSE, 0),
        document_read  |-> Need("non_default", "requires_authorization", "when_needed", TRUE, 0),
        files_write    |-> Need("required", "write", "when_needed", FALSE, 0),
        web_fetch      |-> Need("required", "readonly", "never", FALSE, 0),
        web_extract    |-> Need("conditional", "readonly", "never", FALSE, 0),
        browser_render |-> Need("required", "readonly", "never", FALSE, 0)]

Limited == [files_read  |-> Need("required", "readonly", "never", FALSE, 1),
            files_write |-> Need("conditional", "write", "always", TRUE, 2),
            web_fetch   |-> Need("required", "readonly", "never", FALSE, 1),
            web_extract |-> Need("required", "readonly", "always", FALSE, 2)]

Employees == {Two, Limited}

Bound(turns, calls, cancels, expiries, edits, clears, menu) ==
    [turns |-> turns, calls |-> calls, cancels |-> cancels, expiries |-> expiries,
     edits |-> edits, clears |-> clears, menu |-> menu]

Of(tools) == {call \in AllCalls : call.tool \in tools}

Sessions ==
    {Bound(1, 2, 1, 1, 0, 0, AllCalls),
     Bound(2, 3, 0, 0, 0, 1, Of({"write_file", "list_files"})),
     Bound(1, 3, 1, 1, 1, 0, Of({"write_file", "mcp_call"})),
     Bound(1, 3, 0, 0, 0, 0, Of({"read_file", "list_files", "web_fetch"})),
     Bound(1, 4, 0, 0, 0, 0, Of({"browser_render", "list_files"})),
     Bound(1, 3, 0, 0, 0, 0, Of({"todo_write", "use_skill", "read_file", "browser_render"}))}

(* A few writes, and leases that are given and taken back. *)
Revoking == {Bound(1, 3, 0, 0, 0, 1, Of({"write_file"}))}

Short == {Bound(1, 2, 0, 0, 0, 0, AllCalls)}
================================================================================
