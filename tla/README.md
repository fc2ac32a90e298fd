# CodeDB in TLA+

CodeDB keeps programs in a SQLite database instead of files. A *program root*
is the content hash of a whole program; a *semantic operation* (rename, replace
a body, add a type...) takes one root to the next and is recorded as a
*migration*; a *branch* is a named pointer to a root and to the history that
led there. Agents and people work on one database at once: server threads and
command line processes, each with a connection of its own. Native builds share
compiled artifacts through the same database.

This directory holds TLA+ models of the parts where that concurrency, and the
bookkeeping it must not spoil, is decided; TLC configurations that check them
on small instances; and proofs, checked by TLAPS, that the main properties
hold for every instance. Paths below are relative to the repository.

    tlc -workers 2 -config Workspace.cfg MCWorkspace     # a run
    tlapm WorkspaceProofs.tla                                 # the proofs

## The system

| component | source | state it keeps | operations |
|---|---|---|---|
| branch store | `src/store.rs`, `src/branches.rs` | tables `branches`, `histories`, `migrations` | create, fast-forward, delete, update a pointer; descent |
| semantic operations | `src/migrations.rs`, `src/op_registry.rs`, `src/model.rs` | program roots (immutable objects) | about 40 operations with pre- and postconditions; apply and record; replay; export and import |
| apply | `src/api.rs` | a transaction | batches, previews, commit hook |
| workspace | `src/workspace.rs`, `src/server.rs` | table `workspace_transactions` | JSON-RPC methods, request ids, snapshots |
| merge | `src/merge.rs` | none | common ancestor, symbol-wise three-way merge, recorded as one operation |
| artifact jobs | `src/jobs.rs`, `src/link.rs`, `src/backend/native.rs` | tables `artifact_jobs`, `compile_cache` | claim, complete, fail, wait, observe |
| object store and index | `src/store.rs`, `src/artifact.rs` | `objects`, `root_*` tables, cache keys | put, index a root, look up and write the cache |
| link plans | `src/link.rs`, `src/build_plan.rs`, `src/tests.rs` | none | closure of an entry, link names, platform symbols; what to build and test again |
| library | `src/lib.rs`, `src/expr.rs` | none | export as source text, parse, import of a file |
| verification | `src/verify.rs` | none | checks of every table |
| bundles, patches, diff, provenance | `src/bundle.rs`, `src/patch.rs`, `src/diff.rs`, `src/provenance.rs` | none | import and export, patches as batches, queries |
| front and back ends | `src/types.rs`, `src/expr.rs`, `src/lowering.rs`, `src/cir.rs`, `src/layout.rs`, `src/backend/` | none | checking, lowering, code |
| debugger, trace | `src/debugger.rs`, `src/trace.rs`, `src/oracle.rs` | a session over a trace | breakpoints, stepping |

How they meet: every mutating workspace method ends in one `BEGIN IMMEDIATE`
transaction on the connection of its thread; `ops.apply`, patches and merges
all run `apply_and_record_expected_in_tx_on_branch_with_agent`; a build reads
roots, which never change, and writes only the two artifact tables. Between
transactions a thread reads what is committed at that moment, one statement at
a time, and this is where the hard behaviour is:

* a snapshot is checked, then the lock is waited for (up to 30 s), then the
  work is done on a branch that may have moved;
* a request may be delivered twice, at the same time or later, and an id may be
  used for another request;
* roots are content hashes: undoing a change brings back the same root, so a
  comparison of roots is open to ABA;
* a process may die, and `COMMIT` may fail, at any point;
* a build acts on cache lookups that may be stale, waits for jobs of processes
  that may be dead, and anyone may delete cache entries.

`PROJECT.json` lists these hazards with the lines where they bite and the
properties that would catch them.

## Modules

| module | what it is |
|---|---|
| `Histories` | roots, operations, migrations, histories, descent, replay: operators only |
| `BranchStore` | the abstract store: atomic batches, pointers, deletions |
| `Workspace` | sessions, snapshots, the lock, apply transactions, request ids, branch methods |
| `WorkspaceProperties` | its invariants, action properties, liveness, refinement of `BranchStore` |
| `WorkspaceProofs` | proofs about `Workspace`: branches and histories, responses and answers |
| `MCWorkspace` | instances of `Workspace` |
| `ProgramRoots` | program roots, names, bodies, type checking, instances: operators only |
| `Operations` | 15 semantic operations: whether one applies to a root and what it gives; operators only |
| `ProgramRoot` | one branch under these operations |
| `BuildPlan` | build impact, link plans and test selection of two roots: operators only |
| `ProgramRootProperties`, `MCProgramRoot` | the properties of both, and the instances |
| `OperationProofs` | every operation, one lemma each, on any root: it keeps what a root must be |
| `ProgramRootProofs`, `BuildPlanProofs` | proofs about one branch, and about what builds and tests make of its steps |
| `Merge` | branches of these operations, merged into each other |
| `MergeProperties`, `MergeProofs`, `MCMerge` | its properties, proofs, instance |
| `Transfer` | databases that edit, branch, merge, export and import: objects, edges, roots, migrations |
| `Verification` | what `codedb verify` looks for in such a database: operators only |
| `TransferProperties`, `TransferProofs`, `MCTransfer` | its properties, proofs, instances |
| `Induction` | induction over bounded numbers, iteration and searches, proved for the proofs that need them |
| `ArtifactJobs` | builds, commands and planners over `artifact_jobs` and `compile_cache` |
| `ArtifactJobsProperties`, `ArtifactJobsProofs`, `MCArtifactJobs` | its properties, proofs, instances |
| `TypedExprs` | types and typed expressions of function bodies: operators only |
| `BorrowRules` | the borrow and move rules: when a body is accepted |
| `DropGlue` | the lowering of a body to operations with explicit drops |
| `Compiler` | the verifier of lowered operations, and the three in their order |
| `CompiledFunction` | a function taken through the compiler and run on a memory of slots and blocks, one action per operation |
| `CompiledFunctionProperties`, `MCCompiledFunction` | its properties and its families of functions |
| `Expressions` | raw and stored expressions, and types: operators only |
| `Elaboration` | typing a raw body into the stored one; the check of a stored one |
| `Evaluation` | the reference evaluator |
| `Rewriting` | stored bodies back to source, under hooks, hygiene and renames |
| `Trace` | the tracer, and what the debugger shows of a recording |
| `Projection` | a program as source text, and the parser |
| `Import` | the order in which a text is imported, and what that makes |
| `Refactoring` | a program under the migrations and patches that rewrite bodies |
| `RefactoringProperties`, `MCRefactoring` | its properties and its programs |

### Histories and the branch store

A history hash covers its parent, its migration and its output root, so it
stands for the chain below it; the model writes the chain out as a sequence of
migrations and takes NULL for the empty one. Hash collisions are left out. The
operations are constants: `Pre`, `Effect` and `Post` say at which roots an
operation's preconditions hold, what it produces and where its postconditions
hold. Nothing is assumed of them, so the theorems hold for every operation set.

One thing this leaves out: the birth hash of a created symbol covers the parent
history, so creating the same symbol on two histories gives two roots. In the
instances symbols are created from the empty history only.

### Workspace

Each session runs the code of one request: `pc` is where it is, `seen` the
snapshot or source it read, `result` what its transaction returned, `resp` the
answer. `branches`, `histories` and `transactions` are the committed tables;
`work` is what the one writer has changed and not yet committed.

| code | actions |
|---|---|
| `execute_workspace_request` | `Receive`, `CacheLookup` |
| `ops_apply` before its transaction | `ReadSnapshot`, `StaleLookup` |
| `apply_batch_with_commit_hook`, `preview_apply_batch` | `Begin`, `BusyTimeout`, `Discard`, `Commit`, `CommitFails` |
| `apply_batch_in_tx`, `apply_and_record_expected_in_tx_on_branch_with_agent` | `ApplyCall`, `SkipCall`, `ConflictCall`, `FailCall`, one per operation |
| `record_workspace_transaction_response` | in `Commit` (`RecordResponse`) |
| `ops_apply`, `ops_preview` after it | `ReadAfter`, `MissLookup`, `ErrorLookup` |
| `workspace.branch.*` | `CheckAbsent`, `ReadSource`, `CreateBranch`, `FastForward`, `RefuseDeleteMain`, `DeleteBranch`, `Show` |
| a thread or process killed | `Crash` |

The transactions of the branch methods are one step each: nothing of them is
visible before `COMMIT` and nothing they read can change under the lock. An
apply transaction is several steps because it computes on its own uncommitted
work. A duplicate or late delivery is the same request received again.

Abstracted: the wording and classification of conflicts (`stale_root` or
`conflict`); the snapshot of an error answer, a read of its own in the code, is
read in the step that answers; a history's `agent_json`, which is not hashed.

### Program roots

`Histories` takes the operations as constants; `ProgramRoots` and `Operations`
say what fifteen of them are, and `ProgramRoot` and `Merge` carry them out. A root is a record of the definitions by symbol,
the name bindings, the export map, the test cases and the modules metadata. An
operation is a record; `Pre`, `Handle` and `Post` are its three parts as the
code writes them, each by itself: `preconditions_for`, the `apply_` function
(with its own checks, elaboration, `type_check_root` and `put_program_root`) and
`postconditions_for`. `Accepted` composes them as
`apply_and_record_expected_in_tx_on_branch_with_agent` does. The actions take
every operation that an agent could submit at the present root.

What a definition keeps is its kind (`function`, `external`, `generic`), its
parameter names and the calls of its body. Bodies are submitted as names and
stored as symbols (`Elaborate`); `change_function_signature` and
`add_parameter` write them out again (`Render`) and elaborate the result, and
creations in the presence of generic functions add instances to the root
(`Monomorphize`).

Abstracted: there is one concrete type; a generic function has one type
parameter, takes its parameters and returns its result in it, passes its
parameters to the generic functions it calls and literals to the others; two
births never have the same hash (a birth covers the parent history); the
evaluation of native-required tests. That the expected root is current is
`Workspace`'s part. Not modelled here: types with fields and variants (see
`Refactoring`), `convert_param_to_reference`, effects and borrows.

### Builds and tests

Objects and link plans are cached under hashes of what they are made from; the
impact of an operation and the tests to run again are computed from the two
roots. `ProgramRoot`'s run asks of each operation whether these agree.

| code | definitions |
|---|---|
| `plan_build_impact`, `transitive_dependents`, `fallback_build_impact` | `RecompileSymbols`, `LinkChanged`, `MetadataChanged`, `ImpactKind`, `FallbackKind` |
| `plan_link_jobs`, `visit_reachable_symbol` | `LinkPlan`, `ReachableSymbols`, `ObjectKey`, `Lowers` |
| `test_impact_json` | `BehaviorSymbols`, `SelectedTests`, `SkippedTests` |

A hash is what it is taken of. Left out: capabilities, targets, conflicts of
link names, and the display names that plans carry along.

### Merge

A branch is the chain of its migrations. An edit is an operation of
`ProgramRoot`, accepted at the tip; the number of births before it stands for
the birth hash, which covers the history and the name: the same name created on
one history is the same symbol on both branches.

| code | definitions |
|---|---|
| `common_ancestor`, `branch_history_points` | `Points`, `SharedPoints`, `CommonAncestor` |
| `symbol_state`, `merge_symbol_state`, `replace_symbol_state` | `SymbolState`, `MergeSymbolState`, `Assembled` |
| `merge_root_payloads`, `validate_*_conflicts` | `MergeRoots`, `UniqueNames`, `UniqueExports` |
| `plan_conservative_merge`, `merge_apply`, `apply_merge_branch` | `Plan`, `MergeApply`, `Recorded` |

Abstracted: the kinds of conflict; a merge is planned and recorded in one
transaction, so it is one step. Left out: types, recursion groups and generic
functions, and what else a branch stores.

### Export and import

A database is its stored objects, the edges between them, its indexed roots,
the recorded migrations with their agents, and its branches. An object is its
hash; `Fields` says which objects each field of its payload names and `Kind`
what it is.

| code | definitions |
|---|---|
| `extract_hash_strings`, `bundle_object_closure` (what an export takes) | `HashStrings`, `StoredRefs`, `Reach` |
| `collect_bundle_object_refs` (what an import expects) | `Followed`, `BundleRefs`, `ClosureIsExact` |
| `put_object`, `refresh_edges`, `index_root` | `Store`, `Index`, `StoreAndIndex` |
| `apply_and_record_...`, `merge_apply_branches_in_tx`, `collect_merge_object_payloads` | `ApplyAndRecord`, `MergeBranch`, `Carried` |
| `export_history_branch`, `export_bundle_root`, `history_head_for_root` | `HistoryDocument`, `BundleDocument`, `HistoryHeadForRoot` |
| `import_history_str_in_tx`, `import_bundle_document`, `validate_and_insert_bundle_migration` | `ImportedHistory`, `ImportedBundle`, `ReplayRow`, `Replayed` |
| `verify` and the checks it calls | `Verification`: `VerifyObjects`, `VerifyEdges`, `VerifyBranches`, `VerifyMigrations`, `VerifyRoots`, `VerifyCaches`, `VerifyHistoryReplay` |

An edit, a merge and an import are one transaction each and so one step; a
document stays in `sent`, so it may arrive late, twice or never. A failing import
rolls back: it is no step. Which roots a merge may give is a constant (it is
`Merge`'s part). Left out: compiled artifacts in a bundle, the cache entries
that indexing writes, and that births made on different histories differ.

### Artifact jobs

A process is a build, the command that emits one object, or a planner. `phase`
says how far it is with each key of its stage; a stage is a batch of objects or
one key. Every statement of SQL outside a transaction is a step; the claim is a
transaction. Preparing inputs, compiling, writing and completing may fail where
the code lets them. Worker ids are unique per claim in the code and are the
process here, since a process claims a key at most once. Abstracted: what the
artifacts are, mismatches found on a hit, and the metadata that a hit on an
object may write back.

### Ownership

CodeDB's language has boxes, buffers and references, no collector and no
run-time drop flags: whether memory is safe is decided by `types.rs` (which
bodies are accepted) and by `lowering.rs` (where drops go). The model follows
one function through both and then runs the result.

| code | definitions |
|---|---|
| `verify_expr_borrows`, `collect_value_loans`, `..._for_store`, `merged_branch_states` | `BorrowRules`: `Verify`, `ValueLoans`, `LoansForStore`, `Merged` |
| `expr_escapes_local_borrow`, `borrow_target_is_local_storage` | `Escapes`, `OfLocalStorage` |
| `validate_return_positions` | `ReturnsPlaced` |
| `lower_*`, `emit_residual_drops`, `emit_merge_compensation`, `lower_return` | `DropGlue` |
| `verify_value_ops` | `Compiler` |
| what the native code of an operation does (`emit_op`, drop helpers) | the actions `Run...` of `CompiledFunction` |

Expressions are trees; a body is accepted or not by recursive operators, so
these modules are for TLC only. `CompiledFunction` then runs the operations on
a memory of slots and blocks in which a place that was moved from or dropped
holds `Gone` and a freed block `Freed`: in the machine the old bytes stay, and
the model makes the use of them show as a fault. Arguments are made in every
shape of their type, owned by nobody else. A call drops what it is given and
may write what it is lent.

Abstracted: one region; names instead of de Bruijn indexes; arrays are records
whose fields are `[0]`, `[1]`; the value of a condition or an index is any; what
a called function does inside. A buffer is a block that is never reallocated: a
push that does not fit traps. Not modelled: `fold`, slices, strings, raw
pointers, scalar `case` patterns and guards, region parameters, the layout of
values, register and stack assignment.

### Refactoring

`ProgramRoot` keeps the calls of a body; `Refactoring` keeps all of it. A
client's body is a raw expression over names. It is stored typed, names as
positions (parameters from the front, locals from the innermost), literals at
the width their place asked for; every refactoring turns a stored body back
into source, changes it on the way, and has it typed and checked anew. The
evaluator says what a program means, so what a refactoring must keep can be
stated.

| code | definitions |
|---|---|
| `type_expr_with_locals_expecting` and the pattern checks (`types.rs`) | `Elaboration`: `Elab`, one operator per form |
| `type_check_root`, `verify_expr_type_with_locals` | `FunctionChecks`, `Verified`, `Makes` |
| `eval_symbol`, `eval_expr_with_locals` (`expr.rs`), `eval_binary_op`, `eval_unary_op` (`op_registry.rs`) | `Evaluation`: `EvalSymbol`, `Eval` |
| `typed_expr_to_raw` with its hook (`expr.rs`) | `ToRaw`, `Source`, `Hook` |
| `inline_call_payload`, `alpha_rename_let_bindings`, `substitute_param_refs` (`patch.rs`) | `InlineCall`, `AlphaRename`, `SubstituteParams` |
| `rewrite_function_bodies_for_member_rename`, `append_default_arg_to_calls` (`migrations.rs`) | `RenameMember`, `AppendDefault` |
| `rename_field`, `rename_variant`, `add_...`, `remove_...`, `add_parameter`, `replace_function_body` | `RenameMemberOf`, `AddMemberTo`, `RemoveMemberFrom`, `AddParameterTo`, `ReplaceBodies` |
| `patch.apply`: its expression matches and their plans | `Matched`, `Patched`, `ExtractFrom` and the actions |

An expression is `[op, kids, binds]`: what it is, its parts, and which names
each part has in scope. One shape for all forms keeps renaming, substitution and
the way back to source at one equation each.

Abstracted: one module, so a name is a function; a patch is planned and applied
in one transaction and so is one step; an extracted function takes the
parameters of the function it was taken from, which the client may choose in
the code; a record's fields have no order. The types here can all be copied, so
`fill` and `array_set` need not ask. Left out: an index that assigns to what
holds the array it is an index of, strings, slices,
boxes, the mutating forms on containers, guards and ranges in `case`,
generic functions, and the borrow rules, which `Ownership` has.

### Trace and debugger

`trace.rs` is an interpreter of its own. A record, an array or an enum holds the addresses
of its parts there and a variable hands them out, so `Trace` keeps a store of
cells; every step pushes an event with its frame. The debugger has the events
only.

| code | definitions |
|---|---|
| `trace_symbol`, `trace_expr`, `trace_loop` | `TraceSymbol`, `TraceExpr` and one operator per form |
| the arguments `trace_symbol` refuses, before there is a frame | `Takes` |
| `push_trap`, the trap at every failing exit | `Finish`, `Trapped`, `Called` |
| the report of a run | `Report` |
| `debug_frames_at`, the backtrace, `next` (`debugger.rs`) | `FramesAt`, `Backtrace`, `NextOne` |

A run deeper than the model's ceiling is `lost`, as the tracer has none of its
own. Left out: breakpoints, the numbering of events, source spans.

### Printing, parsing and import

A text is a sequence of tokens; characters, comments and layout are left out.
The printer and the parser share the table of operators and nothing else: where
parentheses go is decided by one and read by the other, and an arm of a `case`
ends where the operator `|` stands.

| code | definitions |
|---|---|
| `expr_to_source_with_locals`, one branch per form | `Text`, `BinaryText`, `ArmText`, ... |
| `render_source`, `source_projection_order` | `ProgramText`, `ProjectionOrder` |
| `Parser`, one method per form | `ParseExpr`, `ParseBinary`, `ParseArms`, ... |
| `analyze_recursion_groups`, `tarjan_scc` | `Adjacency`, `Components`, `RecursionGroups` |
| `refine_clique_colors`, `clique_label_search` | `Refined`, `Labelings`, `CanonicalCliqueOrder` |
| `canonical_item_order`, `import_file` | `CanonicalOrder`, `Migrations`, `ImportFile` |
| `verify_clique_canonical_ordinals` | `OrdinalsCanonical` |

The parser takes the text and a position and gives what it read and where it
stopped. A birth is a nonce and the history before it, so equal births mean that
the import did the same in the same order. Where the code orders hashes the
model chooses, by the set of what is hashed alone. Left out: the comments that
pin the identity of types, types that refer to one another in a cycle, modules,
the order of members within a type.

## Runs

| run | instance | checks |
|---|---|---|
| `workspace` | 2 servers, 12 kinds of request: guarded batches under ids, an id used for two requests, two writers that undo, `main` and `dev` made, moved and deleted | `BranchesRecorded`, `HistoriesReplay`, `WriterSeesLatest`, `AnswersAreSerial`, `RecordedIffCommitted`, refinement of `BranchStore` |
| `workspace_live` | 2 servers, 4 requests that never lead main back, under fairness | `Answered`, `CommitsOnce` |
| `artifact_jobs` | a build of two objects and a link plan, an emit command, a planner; 1 eviction; under fairness | `JobRowsVerify`, `SucceededIsCached`, `ClaimedIsOwned`, `CachedWorkKept`, `BuildsEnd` |
| `program_root` | two births, two display names, two modules, bodies of at most one call, at most 2 exports and tests | `NamesResolve`, `StoredRootsCheck`, `BodiesRoundTrip`, `ModulesListed`, `LinkComplete`, `PostconditionsAttained`, `RetriesSettle`, `CallGraphKept`, `ImpactSound`, `SkippedTestsKeep` |
| `ownership` | six families of functions, 3,250 bodies, loops of at most 2 turns | `AcceptedIsSafe`, `NothingLeaks`, `CallerFindsAll`, `AcceptedIsVerified` |
| `merge` | two branches that fork from two functions, two further edits on one, one on the other, one merge into each | `TipsAreSound`, `MergesAgree`, `MergeIsReplay` |
| `transfer` | two databases, branches `main` and `dev`, a function with two bodies and a test; 4 edits or merges in one database, 1 in the other, 1 document | `VerifyClean`, `DocumentsImport`, `RoundTrip`, `ImportsAgree` |
| `refactoring` | eight programs of two to six functions, up to two refactorings of each | `EvaluationSound`, `BodiesReread`, `TraceMirrors`, `ImportRestores`, `RefactoringKeepsMeaning`, `RenamesUndo` |

Deadlock checking is off for the stores and the programs: a system that was sent
all its requests, whose builds have ended or whose edits are spent, rightly
stops. It is on in `ownership`,
where only a function that returned, was refused or failed may stop.

What the properties say, beyond types. `AnswersAreSerial`: an answer `applied`
or `already_applied` is the result of carrying out the batch serially at the
root it expects, whatever was skipped because a recorded migration accounts for
it. `RecordedIffCommitted`: a crash cannot part the work from its recorded
response. `CommitsOnce`: work under a request id is committed once (when no
request undoes it, see below). `WriterSeesLatest`: no lost update. The
refinement says that readers only ever observe the abstract store's atomic
changes. `CachedWorkKept`: finished work stays finished although waiters and
planners act on stale lookups. `CallGraphKept`: rewriting bodies through display
names, in the middle of renames, moves and aliases, never redirects a call.
`AcceptedIsSafe`, `NothingLeaks` and
`CallerFindsAll` relate what the borrow rules accept to what the lowered
operations do on every path. `TipsAreSound`: symbols are merged one by one, and the
result is still a program. `MergeIsReplay`: where no part of a symbol (what it
is and calls, its names, its parameters, its exports, and the tests as a whole)
changed on both sides, and the source took nothing back, a merge gives the
program that replaying the source's migrations on the target gives; each is
replayed on the symbol it was recorded for, by the name that symbol has now, and
its body with the names that what it calls has now. `MergesAgree`: either direction gives the same, and merging again
changes nothing, unless the merged root is one that the source has left behind:
that root is then the next common ancestor, and what the source did since is
merged after all. `VerifyClean`: none of the checks of `codedb verify` that are
modelled fails in any database that edits, merges and imports made, in
particular every merge brought what the merged root needs and `main` can be
replayed; and the chain below a recorded history is recorded. `DocumentsImport`: an export can be imported,
later and elsewhere. `RoundTrip`: exporting what was imported gives the same
document. `ImportsAgree`: a bundle and a history of the same chain leave the
same database. `PostconditionsAttained`: where the preconditions hold and the handler succeeds,
the postconditions hold. `RetriesSettle`: an operation submitted again at the
root it produced changes nothing. `EvaluationSound`: what the type checker
accepts never makes the evaluator meet a value of the wrong type, a missing
field or an unmatched case. `BodiesReread`: the source of a stored body types
to a body of the same meaning, whatever was refactored before.
`RefactoringKeepsMeaning`: after a rename of a member every function gives what
it gave, under the new name; after a new parameter, what it gave, whatever is
passed; after a member came or went, what it gave of the values without it;
after an extraction or an inlining, what it gave, when what moves has no early
return, assignment or width of its own. `RenamesUndo`: a rename and its inverse
restore every type and every body to the letter, although each body was
rewritten and typed twice. `TraceMirrors`: a traced call ends as the evaluated
one does and with its value, as long as it meets no literal of a width other than
`i64`; one that does ends as the evaluator would that reads every literal as
`i64`, which is what the tracer does and not what it promises (see below). A
failing one says where unless it is an index that
has no place, and at every event the
debugger's frames, locals and backtrace are those of the run. `ImportRestores`:
the text of a program parses and imports, in whatever order its items are
written, to one program with the same births, which means the same, prints the
same and has the ordinals that `verify` computes. `ImpactSound`: an object that
the impact of an operation does not recompile, and a link plan that it does not
relink, are made from what they were made from. `LinkComplete`: whatever an
object of an executable calls is in it. `SkippedTestsKeep`: a test that is not
selected evaluates nothing that changed.

Bounds. `MaxSubmissions` requests are received in all, duplicates included.
With two sessions each ordered pair of requests is interleaved at every
statement, and the remaining two requests prepare the state and disturb it; four
submissions are what ABA needs (work, its duplicate, a change, its undoing).
The one function of the instance has three names and three bodies, enough for
operations that apply, are skipped, conflict and fail. Since the write lock
serialises writers a third session adds readers only. One eviction is enough
for an entry to vanish between any two steps of a waiter, and for the job to be
claimed and finished again. Sessions are
symmetric in the runs without liveness. In `program_root` two symbols may call
themselves or each other, be generic, external or deleted, and take each other's
names in either module; the names are symmetric. A third birth adds longer
chains of calls, where each call is checked by itself. A family of `ownership`
takes every combination of two or three statements on the same parameters
(parts moved, reassigned, borrowed or bound, in either branch, before or after
a return), which is what the merge of two branches can tell apart; two turns
of a loop are a first one and one that finds what the first left. In `merge` a
second edit on one branch is what lets it use, undo or overwrite its first, and
a merge into each lets the second build on the first.

In `transfer` the second database can be empty, be ahead, or have recorded the
same migration under another agent when the document arrives, and the first can
be at a root that it had before, which makes the history that goes with the
root a choice.

The eight programs of `refactoring` are about one hazard each: a record built
structurally in two widths and read back; an enum in an enum, taken apart level
by level; locals and parameters of the same names in caller and callee; early
returns, assignments and widths at a call; members that may or may not come and
go; operands, conditionals and arms that need their parentheses; functions that
call one another in a cycle, told apart by nothing but their names or only by
where they are called; arrays in a record, filled, copied with an element set,
read at an index that may be out of them, folded under names that hide
parameters, and cast to a narrower width. Two edits let a refactoring act on what another made,
where hygiene, positions and renames meet. Integers are 4 bits and 2 bits wide
(`I64Max`, `U8Max`; 3 and 2 in `inlined_meaning`), so that sums and products overflow and the sum of two of the narrow
ones fits a wide one; functions are called with a
negative number, zero and one, every truth value and every record and enum of
these (`ArgInts`); the evaluator's ceilings on turns of a loop and on nested
calls (`MaxIterations`, `MaxDepth`) are above what the programs use. The items of a
text are imported as printed, reversed, and rotated and reversed.

Fairness. `WF(Serve(s))`: threads are scheduled by the operating system, and a
thread that waits for the lock gets it or its busy timeout. Builds: processes
run, and the wait's deadline of 30 seconds passes. Nothing is assumed of
clients, crashes or evictions.

### Where code and documents differ

| run | what it shows |
|---|---|
| `undone_and_retried` | work under a request id is carried out twice when another writer undoes it between the duplicate's lookup and its transaction: the id is not looked up under the lock when the transaction applied something, and the insert of the response does nothing when the row is there |
| `stale_instances` | a new body for a generic function leaves its instances with the old one: `apply_replace_body` does not instantiate, and a later creation skips instances that are there; a native build runs the old body and `verify` reports `bad_generic_instance` |
| `dangling_return` | a `return` in a branch inside the value of a `let` hands out a reference to a parameter: the escape analysis reads the value as what the local holds |
| `inlined_meaning` | inlining a function with an early return makes the caller return; one that assigns to its parameter writes the caller's; a literal of an unsigned callee is read at the width of the place it comes to |

The passing runs check `CommitsOnce` on requests that never restore a root
(the theorem `ForwardWorkHappensOnce` says that this, or a branch deleted and made
again, is the only cause) and families of functions without those of `dangling_return` and without such
returns: what is
excluded is what is described here. Also seen and not given a run: the first
answer's snapshot, read after `COMMIT`, may differ from the one its retries get;
a batch whose first operation is already on record is applied to a branch that
is not at the expected root, where the specification says `stale_root`; when
`COMMIT` fails there is no `ROLLBACK`, and the error answer shows the
uncommitted branch; `docs/SPEC.md` 14.2 answers `already_applied` whenever the
postconditions hold, the code only when that very operation is on record.

Of builds: one that fails after it claimed objects leaves their jobs running for
ever, and later builds of those keys time out; `FailedBuildsLetGo` in
`ArtifactJobsProperties` states it and does not hold.

Of refactorings: `expr_to_source` prints a parameter by its name also under a
local of that name (`expr.rs` 2922-2932), which inlining can bring about
(`patch.rs` 1311): `ImportRestores`, stated after `docs/PLAN_V1.md:937`, does not
hold of the program `Shadows`, which is not among those of the run. An index with
`|` in it is printed bare in an arm of a `case` (`expr.rs` 3972-4007) and read as the
end of the arm (7046-7057). A record literal under a `return` in a branch
of a `let` value is not renamed with its type and the rename is refused
(`migrations.rs` 6129-6142), where `docs/PATCH.md:157` says every body is
rewritten. `add_parameter` types the callers without the type they return
(`migrations.rs` 5030-5040), so a caller that returns a literal as `u8` makes it
refused.

Of traces: the tracer reads every integer literal as an `i64`, whatever its type
(`trace.rs` 925-930), and the evaluator by its type (`expr.rs` 1590-1607),
which `trace.rs:720` and `docs/PLAN_V3.md:429` say the tracer mirrors. So a `u8`
plus a literal fails in a traced run with "invalid operands" (`op_registry.rs`
482-506; `Records.width` of the run), a sum of `u8` literals does not wrap (`Boundaries.wraps`
gives another truth value), and a call that is passed a `u8` literal, or a record
with one in it, is refused for the type of its argument (`trace.rs` 617-625; `mk`
after `add_parameter`). `TraceMirrors` without its condition on literals does not
hold of the run's programs; with it, it says that nothing else parts them:
the two agree as long as no such literal is met, and a run that meets one is
that of the evaluator with all literals of type `i64`.

The tracer's variables share the parts of a value
(`trace.rs` 981-1018) where the evaluator copies (`expr.rs` 1634, 1644), so after a
record was copied, or after an assignment to what an arm binds, a traced run may
give another value than the evaluated one, which `trace.rs:720` and
`docs/PLAN_V3.md:429` say it mirrors; `TraceMirrors` leaves out programs that
assign to parts. An assignment through an index out of the array, and
a read at one below zero, leave no trap event (`trace.rs` 1448, 2037), so the
report names no place or that of an earlier return; a read out of the array
traces its index twice (1990-2037); `array_set` evaluates its value before it
looks at a negative index (700-705), the evaluator after (`expr.rs` 1390). Every early return leaves a trap event in a trace that ends
well, and again at each loop around it; what an arm binds is not among the debugger's
locals, whose values are those at the time of binding.

Of builds and tests: the selection of tests and the classification of changes
ask for the body of every symbol that both roots have and fail on an external
function (`tests.rs` 992), where the impact of a build does not; a new body for
a generic function skips the tests that run it, since dependencies follow
instances and evaluation the generic function (`docs/SPEC_V1.md` 569-580), which
is `stale_instances` once more; `diff_roots` as text fails on an instance both roots
have (`diff.rs` 62), as JSON it does not; a renamed external of the platform changes
the link plan, although the impact says that only metadata changed; a generic
function's new body or signature may leave a program that does not build
(`lowering.rs` 1331).

Of merges: the ancestor is the pair of equal roots with the largest sum of
places (`merge.rs` 281-306), so a branch that came back to an earlier root may
be merged against a point before the fork: if `main` deletes what was created
last and `agent` did nothing, `merge agent <- main` is already current and the
deletion stays out, where `docs/SPEC_V1.md` 728-740 replays both sequences; and
what was merged and then reverted is merged again or lost. `MergesAgree` is
stated of branches that have their shared roots in the same order. A merge and
a replay part company in three more ways, which `MergeIsReplay` leaves out: a
source that renames `f` and renames it back changed nothing for the merge and
would undo the target's own renaming when it is replayed; operations replayed as
they were written, by name, may mean another symbol (the target renames `g` to
`h` and `k` to `g`: a body that calls `g` now calls the other); and a merge keeps
the instances of generic functions where a replay makes them anew, so it is
stated of programs without any. The modules metadata is merged as a whole (`merge.rs` 589-603): a root
may list a module that nothing is in, or leave one out, which
`verify_module_metadata` would report; `MergeIsReplay` compares the rest.

Of ownership: a `return` inside the operand of `box_new`, or in an arm that does
not bind the payload, drops the locals but not the block or the payload under
way (`lowering.rs` 5281); the verifier does not restore which shells were freed between two
branches (`lowering.rs` 7579-7625), so `if c then return f(h.inner) else
f(h.inner)` is accepted and then refused as verified twice freed;
`push(s, f(s))`, whose target's address is taken before the value is computed,
is accepted although the value consumes the buffer (`types.rs` 9358, 9440-9453);
`let u = (y = &mut h) in y` makes a reference escape through an assignment, at
which the escape analysis does not look (`types.rs` 8486).

Of bundles: the closure that an import computes leaves the element of a `vec`
out (`bundle.rs` 1299), so a bundle of a function that takes a `vec` of a type
named nowhere else is refused, also where it was exported (`docs/PLAN_V1.md`
1079; `DocumentsImport` does not hold with `VecKind` in `MCTransfer`). A root
whose chosen history starts at a branch made from a bare
root cannot be imported, since the import replays from the empty root
(`DocumentsImport` is stated of documents that start there); importing a bundle
moves `main` without an expected root or a descent check; where two agents
recorded the same migration, `import-history` keeps the first and the bundle is
refused (`bad_bundle_conflict`); an export with artifacts reads the cache twice
outside a transaction (`bundle.rs` 162), and an eviction between the two makes the
bundle unimportable.

The exceptions in `PostconditionsAttained` and `RetriesSettle` are what the
model shows of the operations: `delete_test` is refused for a test whose case
another test shares, since its postcondition looks for the case; a body that is
not spelt as the projection would spell it (a qualified name of the own module,
an alias) is elaborated and then refused by the comparison of sources; a
retried `change_function_signature` of a generic function that calls itself
changes the root once more, its calls having been read against the old
signature first. `ModulesListed` is one direction only: deleting the last
function of a module leaves the module listed, which `verify_module_metadata`
would report.

## Proofs

The theorems hold for every value of the constants that satisfies the named
assumptions:

| theorem | property | inductive invariant |
|---|---|---|
| `TypeCorrect` (in `WorkspaceProofs`, `ArtifactJobsProofs`, `ProgramRootProofs`), `MergeTypeCorrect` | `TypeOK`, in no run: the other proofs rest on it | that of `Merge` follows from `Lawful`, each of the others is inductive itself; in `Workspace` it also says what each label knows of `seen` and `result` |
| `NoLostUpdate` | `WriterSeesLatest` | `WriterInv`: the writer is inside its transaction, and only it moves branches |
| `EveryHistoryReplays`, `BranchesAreRecorded`, `MainIsReplayable` | `HistoriesReplay`, `BranchesRecorded`, `MainReplays` | `Inv`: the committed store is well formed (`StoreInv`), and so is the store as the writer sees it, uncommitted histories included (`WorkInv`) |
| `ResponsesStay` | `RecordedResponsesStay`: a recorded response is never changed or lost | none needed |
| `Refinement` | `ImplementsBranchStore` | `BatchInv`: the writer's state extends its start by exactly the histories it added |
| `ResponsesAreCommitted` | `RecordedIffCommitted` | that a row is committed work, and that what a session is about to answer is recorded |
| `EveryAnswerIsSerial` | `AnswersAreSerial` | `AnswersInv`: the writer is where its operations so far lead one by one (`SerialSoFar`); rows and results say where all of them lead |
| `ForwardWorkHappensOnce` | `CommitsOnce`, where the program never comes back | `OnceInv`: histories go forward, the writer has not come back from where it started, and the branch of a recorded response is where its operations led or later |
| `OneOwner` | `ClaimedIsOwned` | itself |
| `RowsVerify` | `JobRowsVerify` | itself |
| `SuccessIsCached` | `SucceededIsCached` | `CacheInv`: who is about to complete has stored; a planner that remembers a hit is right |
| `CachedWorkStays` | `CachedWorkKept` | type correctness |
| `NamesAlwaysResolve`, `EveryRootChecks`, `ModulesAreListed`, `BodiesAlwaysRoundTrip` | `NamesResolve`, `StoredRootsCheck`, `ModulesListed`, `BodiesRoundTrip` | `RootInv`: these (`ModulesListed` apart, which is `Listing`), that bodies call born symbols, and that no symbol has a number beyond the births |
| `CallGraphIsKept` | `CallGraphKept` | `RootInv` |
| `PostconditionsAreAttained`, `RetriesAlwaysSettle` | `PostconditionsAttained`, `RetriesSettle` | `RootInv` |
| `LinksAreComplete`, `ImpactIsSound`, `SkippedTestsAreSafe` | `LinkComplete`, `ImpactSound`, `SkippedTestsKeep` | `RootInv`, and `Solid`: a root has finitely many definitions and generic bodies leave their type arguments open |
| `TipsAlwaysSound` | `TipsAreSound` | `Inv` of `MergeProofs`: all chains together are `Lawful` |
| `MergesAlwaysAgree` | `MergesAgree` | the same |
| `MergesAlwaysReplay` | `MergeIsReplay` | the same, and `Midway` of each root of a replay |
| `DatabasesVerify` | `VerifyClean` | `Inv` of `TransferProofs`: every database is `Sound`, every document `Presentable` |
| `ExportsImport`, `ExportsComeBack`, `BundlesAddNothing` | `DocumentsImport`, `RoundTrip`, `ImportsAgree` | the same |

`HistoriesReplay` is not inductive alone because a commit adds histories built
in private: their replayability must be known while they are uncommitted, and
their first migration must start at the branch's root, which only holds as
nobody else moves the branch (`WriterInv`). `MainReplays` needs that descent
preserves the root a chain starts from (`DescentKeepsFirstRoot`).

`AnswersAreSerial` compares an answer with a recursion over the batch. The
invariant carries the recursion along as a path of roots, one for each
operation done or skipped; a skipped operation takes its step of the path
because what it found recorded was recorded by that same operation
(`RecordedEffect`). Before the first operation the path is at the root the
request expects, which need not be where the branch is when that operation
turns out to be on record; an empty batch answers with the branch's root.

`CommitsOnce` does not hold as it stands (`undone_and_retried`). The theorem says
when it does: there is an order of the roots (`Later`) such that each operation
of a request, at the root it expects, leads to a later one (`NeverBack`), and a branch that
requests with ids are for is not deleted (`NeverDeleted`; made again from an
older root it would come back as well). Then COMMIT of a request with a
recorded response is impossible: something it applied led from where its
branch is to a root (`WorkClimbs`), the same operation led to the same root
the first time (`LeadsOnce`), and the branch has been there or later ever since
(`RowStands`), fast-forwards included (`DescentClimbs`). The requests of
`workspace_live` satisfy both conditions, ordered by name and then by body,
and `OnceInv` was an invariant of that instance before it was proved.

`RootInv` has a lemma for every handler, in `OperationProofs`, which is about
roots and not about a state, so that `ProgramRootProofs` and `MergeProofs` cite the
same. Names stay unique because a handler
checks the name it takes and nothing else takes one; that a newborn symbol has
no name yet needs `Numbered`. The call graph is kept because a name written for
a symbol resolves to it again (`CallRoundTrip`, from unique names and the
preferred binding), which needs that bodies only call symbols with names: an
instance has none, and `CallsBorn` says no body calls one.

An operation submitted again settles for one of two reasons. For most,
the postconditions refute the preconditions (`PostRefutesPre`). A new body, a
new signature and a longer parameter list rebuild from the root they made that
same root, since a body that is read, written out and read again is the same
(`SameDefinition`).

What is reachable from a symbol is found by as many rounds as there are
definitions; that this is the least closed set (`SearchIsLeastClosure`) needs
that there are finitely many. A skipped test evaluates the same because
everything its entry reaches is untouched, and then reaches the same
(`SkippedReachesUntouched`); a plan is kept because the objects of untouched
symbols are.

That a merge of two sound roots is sound (`MergedSound`) follows symbol by symbol
from what a merged symbol can be (`SymbolMerged`) and from the checks of the
code where symbols meet; but that no symbol of the result is one the next
birth would make needs more than sound tips. A birth covers the history before
it, so two branches of one history that create the same thing make the same
symbol, and a branch may meet a symbol that another branch has for long. Hence
`Lawful`, of all chains together: every root on the way is sound, not only the
tips; every migration made its root from the one before; equal histories have
equal roots (an operation gives one root where it is accepted, a merge records
its result); and each symbol was born after a history at whose root there were
only older ones. When the same birth happens again, the history before it is
the recorded one, so the root is too, and the symbol is new to it (`EditLawful`).
`Lawful` was an invariant of the run before it was proved. `MergesAgree` needs
that the common ancestor found from either side is the same root
(`SameAncestor`: the best of finitely many shared points exists, `BestPoint`, and
branches in order rank them alike), that every part is merged the same from
either side (`PlansEitherWay`), and that a root merged with itself is itself
(`PlanAgain`). The attempt to prove that merging again always changes nothing
failed for a reason beyond the bounds of the run: a merge may lead to a root
the source has left behind, and the property now says what happens then.

`MergeIsReplay` compares two ways of combining three roots. `Alike` says that a
root differs from a second one as a third differs from a fourth, part by part: a
part that the step of the source leaves alone is left alone, and one that it changes
becomes the same. The merge is `Alike` by its rule (`MergedAlike`), and so is every
operation replayed on another root (`StepReplayed`, with a lemma for each), as
long as that root says of what the step touches what the source said there
(`Clear`); where the step changes a signature, callers and tests in the other root
must be those of the source too. A replay of any number of migrations is then
an induction along two rows of roots: after each migration the replayed root has,
of the parts that the source changes in the end, what the source has at that
migration, and of the rest what the target has (`Midway`). `Clear` follows from `Midway` because the
source takes nothing back and the changes are disjoint (`ClearOnTheWay`), but for
one case, which is where the merge itself is needed: if the source changes the
signature of a function that the target has come to call or to test, the changes
are disjoint and the replay would add the argument where the merge does not.
Then the merged root has a call or a test with the wrong number of arguments,
does not check, and there is no merge to compare with (`NotCalledThere`). That a
replayed root is a sound root, with symbols that were born, needs of a
replayed creation what `Lawful` says of the first one (`BornHere`).

A database is `Sound` when what its objects name is stored, its edges, index
and interfaces are those of its objects, every recorded migration could be
performed again and every prefix of a recorded history is recorded, and
branches are where their histories lead, `main` from the empty root. Neither
part stands alone: a replay needs that merges carry their source and whatever
else the merged root names (`MergeIsWhole`), which in turn holds because the
database that made the merge was complete. What a migration leaves does not
depend on the database it is performed in (`Made`, `PerformSound`), so a replay
ends with the same objects everywhere; a bundle's objects are among them
(`BundleBringsMade`), and a database is determined by its objects, rows and
branches (`SameDatabase`). That a replay succeeds, and what it leaves, is an
induction over the migrations (`ReplaySucceeds`, `ReplayRowSound`).
`ExportsImport` has a hypothesis, `FollowsAll`: the closure check of an import
follows every field through which a root reaches an object. It holds in the
instance that is checked, with a box, and does not with a vec (see above).

The provers know no induction. `Induction` derives what the proofs need from
the library's theorem that a well-founded order has minimal elements: a set
that has 0 and, with each number below a bound, the next, has all up to the
bound; the repetition of a step is a function; a search that stops growing has
found the least closed set.

The assumptions are those on the constants: main is a branch, sessions and
`None` are different things, `Pre`, `Post`, `Effect` and `Resolve` have their
types, requests are well formed; stages are not empty; main is a module and
`Here` is none; what agents write is typed; there is a branch to merge, and
branches start from created functions; of `Transfer`, that `Depth` is long
enough for every path, and about the objects whatever their hashing gives:
the empty root names nothing, builtins name builtins, and an interface names
what its root does.

Model-checked only: the properties of `CompiledFunction` and of `Refactoring`,
whose modules are recursive over trees, and the liveness properties. Neither
recursion nor liveness is in the prover's reach.

## Not modelled, and what could follow

1. `Workspace`: `patch.apply` and `merge.apply` as further requests; the checks
   that `verify` makes of recorded responses.
2. `ProgramRoot` under `Histories`: its `Pre`, `Handle` and `Post` as the
   constants there; `convert_param_to_reference`.
3. `Refactoring`: strings, slices, guards and ranges; generic functions; types in
   cycles.
4. Layout, effects and the classification of changes (`diff.rs`,
   `provenance.rs`): pure algorithms against reference definitions.

Not modelled and not planned: the characters of a source text, instruction
selection and object formats, the self-hosted compiler in `compiler/`, the
arguments and formats of the command line.
