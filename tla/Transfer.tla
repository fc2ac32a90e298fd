------------------------------ MODULE Transfer ------------------------------
(***************************************************************************)
(* Databases that hand programs to each other: history exports and bundles *)
(* (src/src/migrations.rs, src/src/bundle.rs) over the object store and    *)
(* the root index (src/src/store.rs).                                      *)
(*                                                                         *)
(* An object is its content hash.  What a payload says is which objects    *)
(* each of its fields names.  A document, once exported, may be imported   *)
(* anywhere at any time, and again.  What an operation makes of a root is  *)
(* Histories' part, and which roots a merge may give is Merge's; compiled  *)
(* artifacts, which a bundle may carry too, are left out.                  *)
(***************************************************************************)
EXTENDS Histories, FiniteSets, TLC

CONSTANTS
    Databases, Branches, Main,
    Agents,         \* Agents[d]: who edits in database d
    Submitted,      \* Submitted[d][b]: the operations that they submit to branch b
    Objects,        \* content hashes of stored objects, roots among them
    Kind,           \* Kind[o]: the kind of o; of a type, its type_kind
    Fields,         \* Fields[o]: the objects that each field of o names
    Builtins,       \* what a new database holds besides the empty root
    Interfaces,     \* Interfaces[r]: the FunctionInterface objects of root r
    Merged,         \* Merged[<<t, s>>]: what merging root s into t may give
    Depth,          \* bound: the length of a path from an object to another
    MaxEdits,       \* bound: MaxEdits[d], the migrations recorded by d's agent
    MaxSent         \* bound: the documents exported

ASSUME ObjectsAssumption ==
  /\ Roots \cup Builtins \subseteq Objects
  /\ Kind \in [Objects -> STRING]
  /\ \A o \in Objects : o \in Roots <=> Kind[o] = "ProgramRoot"
  /\ \A o \in Objects : \A f \in DOMAIN Fields[o] : Fields[o][f] \subseteq Objects
  /\ Interfaces \in [Roots -> SUBSET (Objects \ Roots)]
ASSUME OperationsAssumption ==
  /\ \A op \in Ops : op.op # "merge_branch"
  /\ \A d \in Databases, b \in Branches : Submitted[d][b] \subseteq Ops
  /\ Merged \in [Roots \X Roots -> SUBSET Roots]
ASSUME BranchesAssumption == Main \in Branches

\* A migration by an operation, or by a merge, which names what it carries.
MergeOps == [op : {"merge_branch"}, source : Roots, merged : Roots, carried : SUBSET Objects]
Recorded == [op : Ops \cup MergeOps, input : Roots, output : Roots]
ASSUME NoneAssumption == None \notin [root : Roots, history : Seq(Recorded)]

VARIABLES
    db,         \* the databases
    sent,       \* the documents exported so far
    edits       \* edits[d]: the migrations that d's agent recorded

vars == <<db, sent, edits>>

-----------------------------------------------------------------------------
\* Objects that refer to objects.
RefsIn(o, fields) == UNION {Fields[o][f] : f \in fields \cap DOMAIN Fields[o]}

\* Every hash that a payload holds.
HashStrings(o) == RefsIn(o, DOMAIN Fields[o])

Reach(refs, from) ==
  LET within[n \in Nat] == IF n = 0 THEN from
                           ELSE within[n - 1] \cup UNION {refs[o] : o \in within[n - 1]}
  IN  within[Depth]

Refs == [o \in Objects |-> HashStrings(o)]
Below == [o \in Objects |-> Reach(Refs, {o})]

\* No path is longer than the bound; the empty root and the builtins name
\* nothing else, and an interface what its root does.
ASSUME DepthAssumption == /\ Depth \in Nat
                          /\ \A o \in Objects : \A p \in Below[o] : Refs[p] \subseteq Below[o]
ASSUME ReferencesAssumption ==
  /\ Refs[EmptyRoot] = {} /\ Interfaces[EmptyRoot] = {}
  /\ \A o \in Builtins : o \notin Roots /\ Refs[o] \subseteq Builtins
  /\ \A r \in Roots : \A i \in Interfaces[r] : Refs[i] \subseteq Below[r]
StoredRefs(d) == [o \in d.objects |-> Refs[o] \cap d.objects]

\* The fields that an import follows, by kind; of other kinds, all.
Followed ==
  [ProgramRoot |-> {"symbols", "definitions", "signatures", "types", "type_defs", "tests", "groups"},
   Named |-> {"type_symbol", "region_args"}, Reference |-> {"region", "referent"},
   RawPointer |-> {"pointee"}, Box |-> {"element"}, Slice |-> {"region", "element"},
   FixedArray |-> {"element"}, Record |-> {"fields"}, Enum |-> {"variants"},
   Vec |-> {}, String |-> {}, TypeParam |-> {}, Builtin |-> {}, SymbolBirth |-> {},
   FunctionSignature |-> {"region_params", "params", "return"},
   FunctionDef |-> {"symbol", "function_sig_hash", "typed_body_expr_hash"},
   ExternalFunction |-> {"symbol", "function_sig_hash"},
   FunctionInterface |-> {"symbol_hash", "signature_hash"},
   RecursionGroup |-> {"symbol", "definition", "signature"},
   TypeRecursionGroup |-> {"type_symbol", "type_def"}, TestCase |-> {"entry_symbol"}]
BundleRefs ==
  [o \in Objects |-> RefsIn(o, IF Kind[o] \in DOMAIN Followed THEN Followed[Kind[o]] ELSE DOMAIN Fields[o])]
BundleBelow == [o \in Objects |-> Reach(BundleRefs, {o})]

-----------------------------------------------------------------------------
\* The store.
RootsIn(objects) == {o \in objects : Kind[o] = "ProgramRoot"}

Edges(parents, stored) == UNION {{<<p, c>> : c \in (Refs[p] \cap stored) \ {p}} : p \in parents}

\* Mutant: edges are taken while the objects are put, those put later unseen.
StoreOnce(d, new) ==
  [d EXCEPT !.objects = @ \cup new,
            !.edges = {e \in @ : e[1] \notin new} \cup Edges(new, d.objects)]

\* The objects are put, then the edges of each are taken anew.
Store(d, new) ==
  [d EXCEPT !.objects = @ \cup new,
            !.edges = {e \in @ : e[1] \notin new} \cup Edges(new, d.objects \cup new)]

\* Indexing a root reads all of it and stores its interfaces.
Index(d, roots) ==
  IF \A r \in roots : Below[r] \subseteq d.objects
  THEN {[Store(d, UNION {Interfaces[r] : r \in roots}) EXCEPT !.indexed = @ \cup roots]} ELSE {}

StoreAndIndex(d, new) == Index(Store(d, new), RootsIn(new))

Absent == [b \in Branches |-> IF b = Main THEN [root |-> EmptyRoot, history |-> <<>>] ELSE None]
NewDatabase ==
  CHOOSE d \in StoreAndIndex([objects |-> {}, edges |-> {}, indexed |-> {}, rows |-> <<>>, branches |-> Absent],
                             Builtins \cup {EmptyRoot}) : TRUE

\* INSERT OR IGNORE: the first agent to record a migration stays its agent.
Record(d, history, agent) ==
  IF history \in DOMAIN d.rows THEN d
  ELSE [d EXCEPT !.rows = [h \in DOMAIN @ \cup {history} |-> IF h = history THEN agent ELSE @[h]]]

UpdateBranch(d, b, root, history) == [d EXCEPT !.branches[b] = [root |-> root, history |-> history]]

-----------------------------------------------------------------------------
\* Operations, performed by an agent or by a replay.
IsMerge(op) == op.op = "merge_branch"

\* Mutant: the merge carries what the merged root names, not the source.
CarriedByMerged(d, source, merged) == Reach(StoredRefs(d), Refs[merged] \cap d.objects)

\* The objects that a merge carries: the source's, and what the merged root
\* names, as far as they are stored.
Carried(d, source, merged) == Reach(StoredRefs(d), {source} \cup (Refs[merged] \cap d.objects))

MergeOp(d, source, merged) ==
  [op |-> "merge_branch", source |-> source, merged |-> merged, carried |-> Carried(d, source, merged)]

Output(op, input) == IF IsMerge(op) THEN op.merged ELSE Effect[op][input]

\* The database after op was applied to the root input, if it applies.
PerformEdit(d, op, input) ==
  IF input \in d.objects /\ Applies(op, input)
  THEN StoreAndIndex(d, {Output(op, input)} \cup (Below[Output(op, input)] \ Below[input])) ELSE {}
PerformMerge(d, op, input) ==
  IF input \in d.objects
  THEN UNION {StoreAndIndex(e, {op.merged}) : e \in {c \in StoreAndIndex(d, op.carried) : op.source \in c.objects}}
  ELSE {}
Perform(d, op, input) == IF IsMerge(op) THEN PerformMerge(d, op, input) ELSE PerformEdit(d, op, input)

-----------------------------------------------------------------------------
\* Documents.
Prefix(h, n) == SubSeq(h, 1, n)
AgentsOf(d, history) == [i \in DOMAIN history |-> d.rows[Prefix(history, i)]]

HistoryDocument(d, b) ==
  [kind |-> "history", branch |-> b, root |-> d.branches[b].root, history |-> d.branches[b].history,
   agents |-> AgentsOf(d, d.branches[b].history), objects |-> {}]

\* Mutant: the recorded histories are searched before the branches are.
AnyHeadForRoot(d, root) ==
  LET recorded == {h \in DOMAIN d.rows : OutputRoot(h) = root} IN IF recorded = {} THEN {<<>>} ELSE recorded

\* The history that goes with a root: main's, another branch's, then any
\* recorded one (the oldest, and which that is within a second is open).
HistoryHeadForRoot(d, root) ==
  LET at == {b \in Branches : d.branches[b] # None /\ d.branches[b].root = root /\ d.branches[b].history # <<>>}
      recorded == {h \in DOMAIN d.rows : OutputRoot(h) = root}
  IN  CASE Main \in at -> {d.branches[Main].history}
        [] at \ {Main} # {} /\ Main \notin at -> {d.branches[b].history : b \in at}
        [] at = {} /\ recorded # {} -> recorded
        [] OTHER -> {<<>>}

ClosureRoots(root, history) ==
  {root} \cup {history[i].input : i \in DOMAIN history} \cup {history[i].output : i \in DOMAIN history}

BundleDocument(d, root, history) ==
  [kind |-> "bundle", branch |-> Main, root |-> root, history |-> history,
   agents |-> AgentsOf(d, history), objects |-> Reach(StoredRefs(d), ClosureRoots(root, history))]

BundleDocuments(d, root) == {BundleDocument(d, root, h) : h \in HistoryHeadForRoot(d, root)}

\* Replaying migration i of a document at the root and database reached so
\* far.  A bundle may not record it differently than it is recorded.
Conflicts(d, doc, i) ==
  LET h == Prefix(doc.history, i) IN h \in DOMAIN d.rows /\ d.rows[h] # doc.agents[i]

\* Mutant: the rows of a bundle are recorded and nothing is replayed.
TrustRow(s, doc, i) ==
  LET item == doc.history[i]
      after == IF doc.kind = "bundle" THEN {s.db} ELSE Perform(s.db, item.op, item.input)
  IN  IF item.input = s.root /\ ~(doc.kind = "bundle" /\ Conflicts(s.db, doc, i))
      THEN {[db |-> Record(e, Prefix(doc.history, i), doc.agents[i]), root |-> item.output] : e \in after} ELSE {}

ReplayRow(s, doc, i) ==
  LET item == doc.history[i]
  IN  IF item.input = s.root /\ Output(item.op, item.input) = item.output
         /\ ~(doc.kind = "bundle" /\ Conflicts(s.db, doc, i))
      THEN {[db |-> Record(e, Prefix(doc.history, i), doc.agents[i]), root |-> item.output] :
              e \in Perform(s.db, item.op, item.input)} ELSE {}

\* The database with every migration of the document replayed, if they all
\* replay and lead to its root.
Replayed(d, doc, start) ==
  LET after[i \in 0 .. Len(doc.history)] ==
        IF i = 0 THEN {[db |-> d, root |-> start]}
        ELSE UNION {ReplayRow(s, doc, i) : s \in after[i - 1]}
  IN  {s.db : s \in {t \in after[Len(doc.history)] : t.root = doc.root}}

MovedMain(d, doc) == IF doc.history = <<>> THEN d ELSE UpdateBranch(d, Main, doc.root, doc.history)

\* A history is imported into main when main has none.
ImportedHistory(d, doc) ==
  IF doc.branch = Main /\ d.branches[Main].history = <<>>
  THEN {MovedMain(e, doc) : e \in Replayed(d, doc, d.branches[Main].root)} ELSE {}

\* A bundle holds what its roots refer to and nothing else; it is replayed
\* from the empty root and takes main over.
ClosureIsExact(doc) == UNION {BundleBelow[r] : r \in ClosureRoots(doc.root, doc.history)} = doc.objects
ImportedBundle(d, doc) ==
  IF ClosureIsExact(doc)
  THEN {MovedMain(e, doc) : e \in UNION {Replayed(c, doc, EmptyRoot) : c \in StoreAndIndex(d, doc.objects)}} ELSE {}

Imported(d, doc) == IF doc.kind = "bundle" THEN ImportedBundle(d, doc) ELSE ImportedHistory(d, doc)

-----------------------------------------------------------------------------
Init == /\ db = [d \in Databases |-> NewDatabase]
        /\ sent = {}
        /\ edits = [d \in Databases |-> 0]

\* A migration that changes the root of branch b is recorded and b moves.
ApplyAndRecord(d, b, op) ==
  /\ edits[d] < MaxEdits[d]
  /\ \E e \in Perform(db[d], op, db[d].branches[b].root) :
       LET input == db[d].branches[b].root
           output == Output(op, input)
           history == Append(db[d].branches[b].history, [op |-> op, input |-> input, output |-> output])
       IN  /\ output # input
           /\ db' = [db EXCEPT ![d] = UpdateBranch(Record(e, history, Agents[d]), b, output, history)]
  /\ edits' = [edits EXCEPT ![d] = @ + 1]
  /\ UNCHANGED sent

Edit(d, b) == db[d].branches[b] # None /\ \E op \in Submitted[d][b] : ApplyAndRecord(d, b, op)

MergeBranch(d, t, s) ==
  /\ db[d].branches[t] # None /\ db[d].branches[s] # None
  /\ LET source == db[d].branches[s].root
     IN  \E m \in Merged[<<db[d].branches[t].root, source>>] : ApplyAndRecord(d, t, MergeOp(db[d], source, m))

\* A branch starts where another is, at a recorded history, or at a stored root
\* with no history.
BranchSources(d) ==
  {d.branches[b] : b \in {c \in Branches : d.branches[c] # None}}
  \cup {[root |-> OutputRoot(h), history |-> h] : h \in DOMAIN d.rows}
  \cup {[root |-> r, history |-> <<>>] : r \in RootsIn(d.objects)}
CreateBranch(d, b) ==
  /\ db[d].branches[b] = None
  /\ \E state \in BranchSources(db[d]) : db' = [db EXCEPT ![d].branches[b] = state]
  /\ UNCHANGED <<sent, edits>>

Send(docs) ==
  /\ Cardinality(sent) < MaxSent
  /\ \E doc \in docs : sent' = sent \cup {doc}
  /\ UNCHANGED <<db, edits>>
ExportHistory(d, b) == db[d].branches[b] # None /\ Send({HistoryDocument(db[d], b)})
ExportBundle(d) == Send(UNION {BundleDocuments(db[d], r) : r \in RootsIn(db[d].objects)})

Import(d) ==
  /\ \E doc \in sent : \E e \in Imported(db[d], doc) : db' = [db EXCEPT ![d] = e]
  /\ UNCHANGED <<sent, edits>>

Next == \E d \in Databases :
          \/ \E b \in Branches : Edit(d, b) \/ CreateBranch(d, b) \/ ExportHistory(d, b)
          \/ \E t \in Branches : \E s \in Branches \ {t} : MergeBranch(d, t, s)
          \/ ExportBundle(d) \/ Import(d)

Spec == Init /\ [][Next]_vars
=============================================================================
