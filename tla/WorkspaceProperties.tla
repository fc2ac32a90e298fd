------------------------ MODULE WorkspaceProperties ------------------------
(***************************************************************************)
(* What the workspace protocol guarantees to the agents that share a       *)
(* database, and what the repository says of it that it does not keep.     *)
(***************************************************************************)
EXTENDS Workspace

(***************************************************************************)
(* Every history in the database replays: each of its migrations applies   *)
(* where the one before it ended, and the histories it grew from are there *)
(* too.  This is what `codedb replay`, history export and verify rely on,  *)
(* whatever transactions were rolled back or killed on the way             *)
(* (migrations.rs, apply_and_record_expected_in_tx_on_branch_with_agent).  *)
(***************************************************************************)
HistoriesReplay ==
    \A h \in histories : h # <<>> /\ Replays(h) /\ Ancestors(h) \subseteq histories

(***************************************************************************)
(* A branch points at a recorded history and at the root which that        *)
(* history outputs (store.rs, ensure_history_matches_root checks it of the *)
(* states it is given; update_branch relies on it).                        *)
(***************************************************************************)
BranchesRecorded ==
    \A b \in Branches :
        branches[b] # None => HistoryMatchesRoot(branches[b], histories)

(***************************************************************************)
(* Main is never deleted and replays from the empty program, as            *)
(* replay_main_branch expects, although fast-forwards may take it to a     *)
(* history that began on another branch, or on a branch made from a bare   *)
(* root with no history.                                                   *)
(***************************************************************************)
MainReplays ==
    LET main == branches[Main] IN
    /\ main # None
    /\ IF main.history = <<>> THEN main.root = EmptyRoot
       ELSE main.history[1].input = EmptyRoot

(***************************************************************************)
(* No lost update: as long as a session is inside its transaction, its     *)
(* branch is where the session found it, so that COMMIT replaces exactly   *)
(* the state its migrations were computed from.                            *)
(***************************************************************************)
WriterSeesLatest ==
    writer # None => branches[req[writer].branch] = work.start

(***************************************************************************)
(* The root a batch leads to when its operations are carried out one after *)
(* the other, each at the root it expects, an operation whose              *)
(* preconditions do not hold there changing nothing.                       *)
(***************************************************************************)
SerialStep(call, root) ==
    LET expected == IF call.expect # None THEN call.expect ELSE root
        op == Resolve[call.name][expected]
    IN  IF expected \in Pre[op] THEN Effect[op][expected] ELSE expected

SerialRoot(r, start) ==
    LET root[n \in 0 .. Len(r.calls)] ==
          IF n = 0 THEN start ELSE SerialStep(r.calls[n], root[n - 1])
    IN  root[Len(r.calls)]

(***************************************************************************)
(* Where a batch starts: at the root it expects, which its first operation *)
(* compares under the lock (a batch of no operations compares nothing), or *)
(* where the transaction found the branch.                                 *)
(***************************************************************************)
BatchStart(r, found) ==
    IF r.expect # None /\ r.calls # <<>> THEN r.expect ELSE found.root

(***************************************************************************)
(* An answer that says applied or already_applied is the truth: the branch *)
(* was left at the root that the batch produces from the root it expects,  *)
(* even when others moved the branch between the snapshot, the lock and    *)
(* the answer, and whichever operations were skipped as done before.       *)
(***************************************************************************)
Serial(r, res) ==
    res.status \in {"applied", "already_applied"} =>
        res.to.root = SerialRoot(r, BatchStart(r, res.from))

AnswersAreSerial ==
    \A s \in Sessions :
        resp[s] # None /\ resp[s].kind = "ok" /\ req[s].kind \in ApplyKinds =>
            Serial(req[s], resp[s].result)

(***************************************************************************)
(* The response recorded for a request id stands for committed work, and   *)
(* committed work with a request id has its response recorded, from the    *)
(* instant of the commit: a crash cannot separate the two (api.rs, the     *)
(* on_commit hook inside the transaction).                                 *)
(***************************************************************************)
RecordedIffCommitted ==
    /\ \A id \in Ids :
         LET row == transactions[id] IN
         row # None =>
           /\ row.request.id = id
           /\ row.result.status = "applied"
           /\ row.result.to.history \in histories
    /\ \A s \in Sessions :
         LET r == req[s] IN
         /\ pc[s] = "after"
         /\ r.kind = "ops.apply" /\ r.id # None
         /\ result[s].status = "applied"
         => transactions[r.id] # None /\ transactions[r.id].request = r

(***************************************************************************)
(* A recorded response is never replaced or lost (store.rs test            *)
(* workspace_transaction_response_is_immutable_for_request_id).            *)
(***************************************************************************)
KeepsResponses ==
    \A id \in Ids :
        transactions[id] # None => transactions'[id] = transactions[id]

RecordedResponsesStay == [][KeepsResponses]_vars

(***************************************************************************)
(* Work with a request id is committed at most once.                       *)
(* tests/agent_concurrency.rs: "the work happened once".                   *)
(***************************************************************************)
CommitsOnce ==
    [][\A s \in Sessions :
         /\ writer = s /\ branches' # branches
         /\ req[s].kind = "ops.apply" /\ req[s].id # None
         => transactions[req[s].id] = None]_vars

(***************************************************************************)
(* Every request is answered, unless its server dies: nobody waits for     *)
(* ever for the write lock, whoever holds it.                              *)
(***************************************************************************)
Answered == \A s \in Sessions : pc[s] # "idle" ~> pc[s] = "idle"

(***************************************************************************)
(* The store the sessions share behaves as the abstract branch store:      *)
(* whatever the interleaving, readers observe whole batches, pointers that *)
(* only follow recorded migrations, and histories that only grow.          *)
(***************************************************************************)
Store == INSTANCE BranchStore WITH
             branches <- branches, histories <- histories
ImplementsBranchStore == Store!Spec
=============================================================================
