--------------------------- MODULE MCProgramRoot ---------------------------
(***************************************************************************)
(* Small programs: two modules, two display names.                         *)
(***************************************************************************)
EXTENDS ProgramRootProperties, TLC

CONSTANTS double, square, smoke, edge

MCNames == {double, square}
MCTests == {smoke, edge}
Symmetric == Permutations(MCNames) \cup Permutations(MCTests)

MCParamLists == {<<>>, <<"x">>}

(* Bodies of at most one call; one to another module passes an argument.   *)
Bodies1 ==
    {{}} \cup {{c} : c \in [module : {Here}, name : MCNames, args : 0 .. 1]
                        \cup [module : Modules, name : MCNames, args : {1}]}

Member(n, kind, params, called) ==
    [name |-> n, kind |-> kind, params |-> params,
     body |-> {[module |-> Here, name |-> called, args |-> Len(params)]}]

(* Functions that call themselves or each other.                           *)
MCGroups ==
    UNION {{<<Member(n, "function", <<>>, n)>>, <<Member(n, "generic", <<"x">>, n)>>} :
              n \in MCNames}
    \cup
    {<<Member(n, k, <<"x">>, m), Member(m, k, <<"x">>, n)>> :
        n \in MCNames, m \in MCNames, k \in {"function", "generic"}}
=============================================================================
