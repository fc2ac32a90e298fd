---------------------------- MODULE Verification ----------------------------
(***************************************************************************)
(* `codedb verify` (src/src/verify.rs): what it looks for in a database.   *)
(* That a payload is canonical and hashes to its key, and what it says     *)
(* apart from the objects that it names, are left out.                     *)
(***************************************************************************)
EXTENDS Transfer

\* The fields of an object that are looked up, by kind; of an expression, all.
TypeFields ==
  [Named |-> {"type_symbol", "region_args"}, Reference |-> {"region", "referent"},
   RawPointer |-> {"pointee"}, Slice |-> {"region", "element"}, FixedArray |-> {"element"},
   Record |-> {"fields"}, Enum |-> {"variants"}]
MemberFields ==
  [RecordDef |-> {"type_symbol", "region_params", "fields"},
   EnumDef |-> {"type_symbol", "region_params", "variants"}]
DefinitionFields ==
  [TypeDef |-> {"type_symbol", "definition"},
   FunctionSignature |-> {"region_params", "params", "return"},
   FunctionDef |-> {"symbol", "function_sig_hash", "typed_body_expr_hash"},
   ExternalFunction |-> {"symbol", "function_sig_hash"},
   FunctionInterface |-> {"symbol_hash", "signature_hash"}]
RootFields ==
  [ProgramRoot |-> {"symbols", "definitions", "signatures", "names", "types", "type_defs",
                    "type_names", "param_names", "exports", "tests", "groups"}]
GroupFields == [RecursionGroup |-> {"symbol", "definition", "signature"}]
TypeGroupFields == [TypeRecursionGroup |-> {"type_symbol", "type_def"}]
OtherFields ==
  [MonomorphicFunctionInstance |-> {"generic", "type_args"}, TestCase |-> {"entry_symbol"},
   LinkPlanInput |-> {"entry_symbol_hash", "export_map"}]

Fielded == TypeFields @@ MemberFields @@ DefinitionFields @@ RootFields @@ GroupFields @@ TypeGroupFields
           @@ OtherFields
Known(o) ==
  CASE Kind[o] = "Expression" -> HashStrings(o)
    [] Kind[o] \in DOMAIN Fielded -> RefsIn(o, Fielded[Kind[o]])
    [] OTHER -> {}

RefsStored(d, o) == Known(o) \subseteq d.objects
VerifyObjects(d) == \A o \in d.objects : RefsStored(d, o)

\* The edges are those that the payloads say.
VerifyEdges(d) ==
  /\ \A e \in d.edges : e[1] \in d.objects /\ e[2] \in d.objects
  /\ d.edges = Edges(d.objects, d.objects)

\* Branches are at stored roots that their histories lead to.
VerifyBranches(d) ==
  /\ RootsIn(d.objects) # {} => d.branches[Main] # None
  /\ \A b \in Branches : LET s == d.branches[b] IN
       s # None => s.root \in d.objects /\ HistoryMatchesRoot(s, DOMAIN d.rows)

\* Migrations go from stored roots to stored roots, and a history goes on
\* where its parent ended.
VerifyMigrations(d) ==
  \A h \in DOMAIN d.rows : {h[Len(h)].input, h[Len(h)].output} \subseteq d.objects

\* A root has all that type checking and lowering it reads, and its tables.
VerifyRootIndexes(d, r) == r \in d.indexed
VerifyRoots(d) == \A r \in RootsIn(d.objects) : Below[r] \subseteq d.objects /\ VerifyRootIndexes(d, r)

\* What the cache entries that indexing made were made from is there.
VerifyCaches(d) == \A r \in d.indexed : Interfaces[r] \subseteq d.objects

\* main can be replayed from the empty root, in a transaction rolled back.
VerifyHistoryReplay(d) ==
  d.branches[Main] # None => Replayed(d, HistoryDocument(d, Main), EmptyRoot) # {}

Verifies(d) ==
  /\ VerifyObjects(d) /\ VerifyEdges(d) /\ VerifyBranches(d) /\ VerifyMigrations(d)
  /\ VerifyRoots(d) /\ VerifyCaches(d) /\ VerifyHistoryReplay(d)
=============================================================================
