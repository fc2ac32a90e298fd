---------------------------- MODULE MCWorkspace ----------------------------
(***************************************************************************)
(* Small instances of Workspace.  The program has one function: created    *)
(* with the name "a" and body 1, renamed and given other bodies from       *)
(* there.  A root is a name and a body, "none" is the empty program.       *)
(* Undoing a change returns to the root the program had, as in the code.   *)
(***************************************************************************)
EXTENDS WorkspaceProperties, TLC

CONSTANTS s1, s2, s3

Program ==
    [a1 |-> <<"a", 1>>, a2 |-> <<"a", 2>>, a3 |-> <<"a", 3>>,
     b1 |-> <<"b", 1>>, b2 |-> <<"b", 2>>, b3 |-> <<"b", 3>>,
     c1 |-> <<"c", 1>>, c2 |-> <<"c", 2>>, c3 |-> <<"c", 3>>,
     none |-> <<"none", 0>>]
MCRoots == DOMAIN Program
RootOf(name, body) == CHOOSE r \in MCRoots : Program[r] = <<name, body>>
Name(r) == Program[r][1]
Body(r) == Program[r][2]

(* ab renames a to b; set2 replaces the body of b by body 2.               *)
Rename ==
    [ab |-> <<"a", "b">>, ba |-> <<"b", "a">>, bc |-> <<"b", "c">>,
     cb |-> <<"c", "b">>, ac |-> <<"a", "c">>]
Replace == [set1 |-> 1, set2 |-> 2, set3 |-> 3]

MCOps == {"create"} \cup DOMAIN Rename \cup DOMAIN Replace

MCPre ==
    [op \in MCOps |->
        IF op = "create" THEN {"none"}
        ELSE IF op \in DOMAIN Replace THEN {r \in MCRoots : Name(r) = "b"}
        ELSE {r \in MCRoots : Name(r) = Rename[op][1]}]

MCPost ==
    [op \in MCOps |->
        IF op = "create" THEN {"a1"}
        ELSE IF op \in DOMAIN Replace
          THEN {RootOf("b", Replace[op])}
        ELSE {r \in MCRoots : Name(r) = Rename[op][2]}]

MCEffect ==
    [op \in MCOps |-> [r \in MCRoots |->
        IF r \notin MCPre[op] THEN None
        ELSE IF op = "create" THEN "a1"
        ELSE IF op \in DOMAIN Replace THEN RootOf(Name(r), Replace[op])
        ELSE RootOf(Rename[op][2], Body(r))]]

(* A rename finds its function under the old or the new name.              *)
MCResolve ==
    [op \in MCOps |-> [r \in MCRoots |->
        IF \/ op = "create"
           \/ op \in DOMAIN Replace /\ Name(r) = "b"
           \/ op \in DOMAIN Rename /\ Name(r) \in {Rename[op][1], Rename[op][2]}
          THEN op ELSE None]]

Call(name) == [name |-> name, expect |-> None]
CallAt(name, root) == [name |-> name, expect |-> root]

Ask(kind, id, branch, expect, calls) ==
    [kind |-> kind, id |-> id, branch |-> branch, expect |-> expect,
     calls |-> calls, source |-> None]

Point(kind, branch, expect, source) ==
    [kind |-> kind, id |-> None, branch |-> branch, expect |-> expect,
     calls |-> <<>>, source |-> source]

CreateRequest == Ask("ops.apply", 1, "main", "none", <<Call("create"), Call("ab")>>)

(* Guarded writes with request ids, one id used for two requests, writers *)
(* without an expected root that take the program back, and branches made, *)
(* moved and deleted while someone applies to them.                        *)
SharedRequests ==
    {CreateRequest,
     Ask("ops.apply", 2, "main", "b1", <<Call("ba")>>),
     Ask("ops.apply", 2, "main", "a1", <<Call("ab"), CallAt("set2", "b1")>>),
     Ask("apply", None, "main", None, <<Call("ab")>>),
     Ask("apply", None, "main", None, <<Call("set2"), Call("ba")>>),
     Ask("apply", None, "dev", None, <<Call("ab"), Call("bc")>>),
     Ask("ops.preview", None, "dev", None, <<Call("bc")>>),
     Point("branch.create", "dev", None, "main"),
     Point("branch.create", "dev", None, "b1"),
     Point("branch.fast_forward", "main", "b1", "dev"),
     Point("branch.delete", "dev", "b1", None),
     Point("branch.delete", "main", None, None)}

(* A little of everything, and no way back to a root that main has left.   *)
ForwardRequests ==
    {CreateRequest,
     Ask("ops.apply", 1, "main", "none", <<Call("ab")>>),
     Ask("ops.apply", 2, "main", "b1", <<Call("set2")>>),
     Ask("ops.apply", 3, "main", "b2", <<Call("set3")>>),
     Ask("ops.preview", None, "dev", None, <<Call("create")>>),
     Point("branch.create", "dev", None, "main"),
     Point("branch.delete", "dev", None, None)}

(* A duplicate of a request whose work someone else undoes.                *)
UndoneRequests ==
    {CreateRequest,
     Ask("ops.apply", 2, "main", "b1", <<Call("bc")>>),
     Ask("apply", None, "main", None, <<Call("cb")>>)}

Symmetry == Permutations(Sessions)
=============================================================================
