----------------------------- MODULE Workspace -----------------------------
(***************************************************************************)
(* The workspace protocol: several agents submit requests, each served by  *)
(* a thread with a database connection of its own, against one SQLite      *)
(* database.                                                               *)
(*                                                                         *)
(* Reads outside a transaction see the last committed state, one statement *)
(* at a time.  Every write is inside a BEGIN IMMEDIATE transaction, so at  *)
(* most one session writes; its changes are invisible until COMMIT and are *)
(* gone if it rolls back or dies.  An apply transaction is modelled one    *)
(* operation at a time; the transactions of the branch methods, which hold *)
(* the lock for one statement's worth of work, are one step each.          *)
(*                                                                         *)
(* The retried or duplicated delivery of a request is its being received   *)
(* again, by any session, at any time.                                     *)
(***************************************************************************)
EXTENDS Histories

CONSTANTS
    Branches, Main,
    Sessions,       \* server threads and command line processes
    Calls,          \* operations as an apply document spells them, by name
    Resolve,        \* Resolve[call][root]: its names resolved, None if unknown
    Requests,       \* the requests that agents send
    Ids,            \* request ids (idempotency keys)
    MaxSubmissions  \* bound: how many requests are received in all

ASSUME BranchesAssumption == Main \in Branches
ASSUME SessionsAssumption == None \notin Sessions
ASSUME ResolveAssumption == Resolve \in [Calls -> [Roots -> Ops \cup {None}]]
ASSUME SubmissionsAssumption == MaxSubmissions \in Nat

ApplyKinds == {"ops.apply", "ops.preview", "apply"}
BranchKinds == {"branch.create", "branch.fast_forward", "branch.delete"}

(***************************************************************************)
(* "apply" is the command line's apply of a document: no snapshot check,   *)
(* no request id.  A branch source is a branch or a bare root.             *)
(***************************************************************************)
Request ==
    [kind   : ApplyKinds \cup BranchKinds,
     id     : Ids \cup {None},
     branch : Branches,
     expect : Roots \cup {None},
     calls  : Seq([name : Calls, expect : Roots \cup {None}]),
     source : Branches \cup Roots \cup {None}]

ASSUME RequestsAssumption == Requests \subseteq Request

Statuses ==
    {"applied", "already_applied", "conflict", "stale_root", "error",
     "created", "fast_forwarded", "already_current", "deleted"}

Result ==
    [status : Statuses,
     from   : BranchState \cup {None},
     to     : BranchState \cup {None}]

Kinds ==
    {"ok", "invalid_request", "invalid_operation", "invalid_params",
     "name_conflict", "branch_not_found", "dependency_conflict",
     "method_error"} \cup Statuses

Response ==
    [kind     : Kinds,
     result   : Result \cup {None},
     snapshot : BranchState \cup {None}]

Row == [request : Request, result : Result, snapshot : BranchState]

Work ==
    [start   : BranchState,         \* the branch when the lock was taken
     state   : BranchState,         \* the branch as this transaction sees it
     added   : SUBSET (History \ {<<>>}), \* histories inserted by this transaction
     next    : Nat \ {0},           \* index of the next operation
     applied : BOOLEAN]             \* some operation was applied

ASSUME NoneAssumption == None \notin BranchState \cup Result \cup Row

VARIABLES
    branches,       \* committed table branches
    histories,      \* committed tables histories and migrations
    transactions,   \* committed table workspace_transactions
    writer,         \* the session inside BEGIN IMMEDIATE, None if no one is
    work,           \* the writer's uncommitted changes
    pc,             \* where each session is
    req,            \* the request it serves
    seen,           \* the branch state it read
    result,         \* what its transaction returned
    resp,           \* the response it sent
    submissions     \* how many requests were received

store == <<branches, histories, transactions>>
locals == <<req, seen, result>>
vars == <<branches, histories, transactions, writer, work,
          pc, req, seen, result, resp, submissions>>

Labels ==
    {"idle", "lookup", "snapshot", "stale_lookup", "begin", "apply", "after",
     "miss_lookup", "error_lookup", "exists", "source", "create",
     "fast_forward", "delete", "show"}

TypeOK ==
    /\ branches \in [Branches -> BranchState \cup {None}]
    /\ histories \subseteq History \ {<<>>}
    /\ transactions \in [Ids -> Row \cup {None}]
    /\ writer \in Sessions \cup {None}
    /\ work \in IF writer = None THEN {None} ELSE Work
    /\ pc \in [Sessions -> Labels]
    /\ req \in [Sessions -> Requests \cup {None}]
    /\ seen \in [Sessions -> BranchState \cup {None}]
    /\ result \in [Sessions -> Result \cup {None}]
    /\ resp \in [Sessions -> Response \cup {None}]
    /\ submissions \in 0 .. MaxSubmissions
    /\ \A s \in Sessions :
         /\ pc[s] # "idle" => req[s] \in Requests
         /\ pc[s] \in {"create", "fast_forward"} => seen[s] # None
         /\ pc[s] \in {"after", "miss_lookup", "error_lookup"} =>
              result[s] # None

Init ==
    /\ branches = [b \in Branches |->
                     IF b = Main THEN [root |-> EmptyRoot, history |-> <<>>]
                     ELSE None]
    /\ histories = {}
    /\ transactions = [id \in Ids |-> None]
    /\ writer = None
    /\ work = None
    /\ pc = [s \in Sessions |-> "idle"]
    /\ req = [s \in Sessions |-> None]
    /\ seen = [s \in Sessions |-> None]
    /\ result = [s \in Sessions |-> None]
    /\ resp = [s \in Sessions |-> None]
    /\ submissions = 0

-----------------------------------------------------------------------------
(* Receiving, answering, dying.                                            *)

Entry ==
    [k \in ApplyKinds \cup BranchKinds |->
        CASE k = "ops.apply" -> "lookup"
          [] k = "branch.create" -> "exists"
          [] k = "branch.fast_forward" -> "source"
          [] k = "branch.delete" -> "delete"
          [] OTHER -> "begin"]

Receive(s) ==
    /\ pc[s] = "idle"
    /\ submissions < MaxSubmissions
    /\ \E r \in Requests :
         /\ req' = [req EXCEPT ![s] = r]
         /\ pc' = [pc EXCEPT ![s] = Entry[r.kind]]
    /\ resp' = [resp EXCEPT ![s] = None]
    /\ submissions' = submissions + 1
    /\ UNCHANGED <<store, writer, work, seen, result>>

Goto(s, label) ==
    /\ pc' = [pc EXCEPT ![s] = label]
    /\ UNCHANGED resp

Answer(s, kind, res, snap) ==
    /\ pc' = [pc EXCEPT ![s] = "idle"]
    /\ resp' = [resp EXCEPT ![s] =
                  [kind |-> kind, result |-> res, snapshot |-> snap]]

(***************************************************************************)
(* An error that comes without a snapshot gets the main branch's, read     *)
(* last.  The command line shows none.                                     *)
(***************************************************************************)
AnswerError(s, kind, main) ==
    Answer(s, kind, None, IF req[s].kind = "apply" THEN None ELSE main)

(***************************************************************************)
(* The thread or its process dies.  SQLite rolls back what it had not      *)
(* committed; the client gets no response.                                 *)
(***************************************************************************)
Crash(s) ==
    /\ pc[s] # "idle"
    /\ Goto(s, "idle")
    /\ IF writer = s
         THEN writer' = None /\ work' = None
         ELSE UNCHANGED <<writer, work>>
    /\ UNCHANGED <<store, locals, submissions>>

-----------------------------------------------------------------------------
(* ops.apply before its transaction.                                       *)

Cached(r) == IF r.id = None THEN None ELSE transactions[r.id]

CachedAnswer(s) ==
    /\ Cached(req[s]) # None
    /\ LET row == Cached(req[s]) IN
         IF row.request = req[s]
           THEN Answer(s, "ok", row.result, row.snapshot)
           ELSE AnswerError(s, "invalid_request", branches[Main])

CacheLookup(s) ==
    /\ pc[s] = "lookup"
    /\ \/ CachedAnswer(s)
       \/ Cached(req[s]) = None /\ Goto(s, "snapshot")
    /\ UNCHANGED <<store, writer, work, locals, submissions>>

ReadSnapshot(s) ==
    LET b == req[s].branch IN
    /\ pc[s] = "snapshot"
    /\ \/ /\ branches[b] = None
          /\ AnswerError(s, "method_error", branches[Main])
          /\ UNCHANGED seen
       \/ /\ branches[b] # None
          /\ seen' = [seen EXCEPT ![s] = branches[b]]
          /\ Goto(s, IF branches[b].root = req[s].expect
                       THEN "begin" ELSE "stale_lookup")
    /\ UNCHANGED <<store, writer, work, req, result, submissions>>

(***************************************************************************)
(* The branch is not at the expected root: a duplicate of this request may *)
(* have moved it.                                                          *)
(***************************************************************************)
StaleLookup(s) ==
    /\ pc[s] = "stale_lookup"
    /\ \/ CachedAnswer(s)
       \/ /\ Cached(req[s]) = None
          /\ Answer(s, "stale_root", None, seen[s])
    /\ UNCHANGED <<store, writer, work, locals, submissions>>

-----------------------------------------------------------------------------
(* The apply transaction, shared by ops.apply, ops.preview and apply.      *)

(***************************************************************************)
(* BEGIN IMMEDIATE succeeds.  [Mutant: a deferred BEGIN.]                  *)
(***************************************************************************)
DeferredLock == TRUE
LockFree == writer = None

(* [Mutant: the branch is taken to exist.]                                 *)
BeginOnMissing(s) ==
    /\ pc[s] = "begin"
    /\ LockFree
    /\ LET state == branches[req[s].branch] IN
         work' = [start |-> state, state |-> state,
                  added |-> {}, next |-> 1, applied |-> FALSE]
    /\ writer' = s
    /\ Goto(s, "apply")
    /\ UNCHANGED <<store, locals, submissions>>

Begin(s) ==
    LET b == req[s].branch IN
    /\ pc[s] = "begin"
    /\ LockFree
    /\ \/ /\ branches[b] = None
          /\ AnswerError(s, "invalid_operation", branches[Main])
          /\ UNCHANGED <<writer, work>>
       \/ /\ branches[b] # None
          /\ writer' = s
          /\ work' = [start |-> branches[b], state |-> branches[b],
                      added |-> {}, next |-> 1, applied |-> FALSE]
          /\ Goto(s, "apply")
    /\ UNCHANGED <<store, locals, submissions>>

RefusesMain(s) == pc[s] = "delete" /\ req[s].branch = Main

(***************************************************************************)
(* The lock was not free within busy_timeout.                              *)
(***************************************************************************)
BusyTimeout(s) ==
    /\ pc[s] \in {"begin", "create", "fast_forward", "delete"}
    /\ ~RefusesMain(s)
    /\ ~LockFree
    /\ AnswerError(s, IF req[s].kind \in ApplyKinds THEN "invalid_operation"
                      ELSE "method_error", branches[Main])
    /\ UNCHANGED <<store, writer, work, locals, submissions>>

(***************************************************************************)
(* The root an operation expects: its own, for the first operation the     *)
(* batch's, and otherwise the root this transaction has reached.           *)
(***************************************************************************)
(* [Mutant: RootIsCurrent is not checked again under the lock.]             *)
CurrentRoot(s) == work.state.root

ExpectedRoot(s) ==
    LET call == req[s].calls[work.next] IN
    IF call.expect # None THEN call.expect
    ELSE IF work.next = 1 /\ req[s].expect # None THEN req[s].expect
    ELSE work.state.root

CallOp(s) == Resolve[req[s].calls[work.next].name][ExpectedRoot(s)]

Recorded == histories \cup work.added

RecordedOutput(op, input, output) ==
    \E h \in Recorded :
        h[Len(h)] = [op |-> op, input |-> input, output |-> output]

RecordedOperation(op) == \E h \in Recorded : h[Len(h)].op = op

(***************************************************************************)
(* RootIsCurrent is the first precondition of every operation; the others  *)
(* are evaluated on the root this transaction has reached.                 *)
(***************************************************************************)
PreconditionsHold(s) ==
    /\ ExpectedRoot(s) = work.state.root
    /\ work.state.root \in Pre[CallOp(s)]

(***************************************************************************)
(* The work was done before: the postconditions hold and a recorded        *)
(* migration accounts for it, from the expected root when that is not the  *)
(* current one; or the operation leaves the root as it is.                 *)
(***************************************************************************)
(* [Mutant: the postconditions are enough.]                                 *)
IsAlreadyTrue(s) ==
    /\ work.state.root \in Post[CallOp(s)]
    /\ PreconditionsHold(s) =>
         Effect[CallOp(s)][work.state.root] = work.state.root

IsAlreadyApplied(s) ==
    LET op == CallOp(s)
        root == work.state.root
    IN  /\ root \in Post[op]
        /\ IF PreconditionsHold(s) THEN Effect[op][root] = root
           ELSE IF ExpectedRoot(s) # root
                  THEN RecordedOutput(op, ExpectedRoot(s), root)
                  ELSE RecordedOperation(op)

InCall(s) ==
    /\ pc[s] = "apply"
    /\ writer = s
    /\ work.next <= Len(req[s].calls)

(***************************************************************************)
(* One migration on top of a transaction's work: its rows inserted, the    *)
(* branch updated.  [Mutants: only the last history of a batch is kept;    *)
(* every migration of a batch gets the batch's start as its parent.]       *)
(***************************************************************************)
RecordLast(w, m) ==
    LET h == Append(w.state.history, m) IN
    [w EXCEPT !.state = [root |-> m.output, history |-> h],
              !.added = {h}, !.next = @ + 1, !.applied = TRUE]

RecordOnStart(w, m) ==
    LET h == Append(w.start.history, m) IN
    [w EXCEPT !.state = [root |-> m.output, history |-> h],
              !.added = @ \cup {h}, !.next = @ + 1, !.applied = TRUE]

RecordMigration(w, m) ==
    LET h == Append(w.state.history, m) IN
    [w EXCEPT !.state = [root |-> m.output, history |-> h],
              !.added = @ \cup {h}, !.next = @ + 1, !.applied = TRUE]

ApplyCall(s) ==
    /\ InCall(s)
    /\ CallOp(s) # None
    /\ PreconditionsHold(s)
    /\ Applies(CallOp(s), work.state.root)
    /\ work' = RecordMigration(work, Apply(CallOp(s), work.state.root))
    /\ UNCHANGED <<store, writer, pc, locals, resp, submissions>>

SkipCall(s) ==
    /\ InCall(s)
    /\ CallOp(s) # None
    /\ IsAlreadyApplied(s)
    /\ work' = [work EXCEPT !.next = @ + 1]
    /\ UNCHANGED <<store, writer, pc, locals, resp, submissions>>

(***************************************************************************)
(* The transaction is over with this result.  The command line reports it; *)
(* the workspace methods read a snapshot first.                            *)
(***************************************************************************)
Leave(s, res) ==
    /\ writer' = None
    /\ work' = None
    /\ result' = [result EXCEPT ![s] = res]
    /\ IF req[s].kind = "apply" THEN Answer(s, "ok", res, None)
       ELSE Goto(s, "after")

RolledBack(status) ==
    [status |-> status, from |-> work.start, to |-> work.start]

ConflictCall(s) ==
    /\ InCall(s)
    /\ CallOp(s) # None
    /\ ~PreconditionsHold(s)
    /\ ~IsAlreadyApplied(s)
    /\ Leave(s, RolledBack(IF ExpectedRoot(s) # work.state.root
                             THEN "stale_root" ELSE "conflict"))
    /\ UNCHANGED <<store, req, seen, submissions>>

(***************************************************************************)
(* The names do not resolve, the operation bails or its postconditions do  *)
(* not hold of what it produced.                                           *)
(***************************************************************************)
FailCall(s) ==
    /\ InCall(s)
    /\ \/ CallOp(s) = None
       \/ /\ CallOp(s) # None
          /\ PreconditionsHold(s)
          /\ Effect[CallOp(s)][work.state.root] \notin Post[CallOp(s)]
    /\ Leave(s, RolledBack("error"))
    /\ UNCHANGED <<store, req, seen, submissions>>

Done(s) ==
    /\ pc[s] = "apply"
    /\ writer = s
    /\ work.next > Len(req[s].calls)

Finished ==
    [status |-> IF work.applied THEN "applied" ELSE "already_applied",
     from |-> work.start, to |-> work.state]

(***************************************************************************)
(* ROLLBACK: a preview, or nothing was applied.                            *)
(***************************************************************************)
Discard(s) ==
    /\ Done(s)
    /\ req[s].kind = "ops.preview" \/ ~work.applied
    /\ Leave(s, Finished)
    /\ UNCHANGED <<store, req, seen, submissions>>

(***************************************************************************)
(* The commit hook: the response that a retry will get is recorded in the  *)
(* transaction itself.  A row that is there already stays.                 *)
(***************************************************************************)
RecordResponse(s) ==
    LET row == [request |-> req[s], result |-> Finished,
                snapshot |-> work.state]
    IN  IF req[s].kind = "ops.apply" /\ req[s].id # None
             /\ transactions[req[s].id] = None
          THEN transactions' = [transactions EXCEPT ![req[s].id] = row]
          ELSE UNCHANGED transactions

(* [Mutant: the stored request is not compared.]                            *)
HookAccepts(s) == FALSE

HookFails(s) ==
    /\ req[s].kind = "ops.apply"
    /\ Cached(req[s]) # None
    /\ Cached(req[s]).request # req[s]

Commit(s) ==
    /\ Done(s)
    /\ req[s].kind # "ops.preview" /\ work.applied
    /\ ~HookFails(s)
    /\ RecordResponse(s)
    /\ branches' = [branches EXCEPT ![req[s].branch] = work.state]
    /\ histories' = histories \cup work.added
    /\ Leave(s, Finished)
    /\ UNCHANGED <<req, seen, submissions>>

(***************************************************************************)
(* The hook refuses a request id that another request used and rolls back, *)
(* or COMMIT itself fails, with readers in the way past busy_timeout: then *)
(* the main branch is read inside the transaction, which goes away with    *)
(* the connection.                                                         *)
(***************************************************************************)
CommitFails(s) ==
    /\ Done(s)
    /\ req[s].kind # "ops.preview" /\ work.applied
    /\ \/ /\ HookFails(s)
          /\ AnswerError(s, "invalid_operation", branches[Main])
       \/ /\ ~HookFails(s)
          /\ AnswerError(s, "invalid_operation",
               IF req[s].branch = Main THEN work.state ELSE branches[Main])
    /\ writer' = None
    /\ work' = None
    /\ UNCHANGED <<store, locals, submissions>>

-----------------------------------------------------------------------------
(* ops.apply and ops.preview after their transaction.                      *)

(***************************************************************************)
(* A read of its own, after the lock is gone.  ops.apply falls back to the *)
(* main branch when the branch was deleted meanwhile.                      *)
(***************************************************************************)
(* [Mutant: a preview shows the state it previewed.]                        *)
ReadAfterPreviewed(s) ==
    /\ pc[s] = "after"
    /\ Answer(s, "ok", result[s], result[s].to)
    /\ UNCHANGED <<store, writer, work, locals, submissions>>

ReadAfter(s) ==
    LET b == req[s].branch
        shown == IF branches[b] # None THEN b ELSE Main
    IN
    /\ pc[s] = "after"
    /\ \/ /\ req[s].kind = "ops.preview"
          /\ IF branches[b] # None
               THEN Answer(s, "ok", result[s], branches[b])
               ELSE AnswerError(s, "method_error", branches[Main])
          /\ UNCHANGED seen
       \/ /\ req[s].kind = "ops.apply" /\ result[s].status = "applied"
          /\ Answer(s, "ok", result[s], branches[shown])
          /\ UNCHANGED seen
       \/ /\ req[s].kind = "ops.apply" /\ result[s].status # "applied"
          /\ seen' = [seen EXCEPT ![s] = branches[shown]]
          /\ Goto(s, "miss_lookup")
    /\ UNCHANGED <<store, writer, work, req, result, submissions>>

(***************************************************************************)
(* Nothing was committed: perhaps because a duplicate of this request was. *)
(***************************************************************************)
(* [Mutant: what was not carried out is tried again.]                       *)
MissRetries(s) ==
    /\ pc[s] = "miss_lookup"
    /\ \/ CachedAnswer(s)
       \/ /\ Cached(req[s]) = None
          /\ IF result[s].status = "already_applied"
               THEN Answer(s, "ok", result[s], seen[s])
               ELSE Goto(s, "lookup")
    /\ UNCHANGED <<store, writer, work, locals, submissions>>

MissLookup(s) ==
    /\ pc[s] = "miss_lookup"
    /\ \/ CachedAnswer(s)
       \/ /\ Cached(req[s]) = None
          /\ IF result[s].status = "already_applied"
               THEN Answer(s, "ok", result[s], seen[s])
               ELSE Goto(s, "error_lookup")
    /\ UNCHANGED <<store, writer, work, locals, submissions>>

ErrorLookup(s) ==
    /\ pc[s] = "error_lookup"
    /\ \/ CachedAnswer(s)
       \/ /\ Cached(req[s]) = None
          /\ Answer(s, result[s].status, result[s], seen[s])
    /\ UNCHANGED <<store, writer, work, locals, submissions>>

-----------------------------------------------------------------------------
(* workspace.branch.create, fast_forward and delete.                       *)

CheckAbsent(s) ==
    /\ pc[s] = "exists"
    /\ IF branches[req[s].branch] # None
         THEN AnswerError(s, "name_conflict", branches[Main])
         ELSE Goto(s, "source")
    /\ UNCHANGED <<store, writer, work, locals, submissions>>

StoredRoots == {EmptyRoot} \cup {OutputRoot(h) : h \in histories}

(***************************************************************************)
(* The source is read before the transaction that uses it.  With a bare    *)
(* root the client may name a history too; whether it matches is checked   *)
(* later.                                                                  *)
(***************************************************************************)
SourceStates(source) ==
    IF source \in Branches THEN {branches[source]} \ {None}
    ELSE {[root |-> r, history |-> h] :
            r \in {source} \cap StoredRoots, h \in histories \cup {<<>>}}

ReadSource(s) ==
    /\ pc[s] = "source"
    /\ \/ /\ SourceStates(req[s].source) = {}
          /\ AnswerError(s, IF req[s].source \in Branches
                              THEN "branch_not_found" ELSE "method_error",
                         branches[Main])
          /\ UNCHANGED seen
       \/ \E state \in SourceStates(req[s].source) :
            /\ seen' = [seen EXCEPT ![s] = state]
            /\ Goto(s, IF req[s].kind = "branch.create"
                         THEN "create" ELSE "fast_forward")
    /\ UNCHANGED <<store, writer, work, req, result, submissions>>

(***************************************************************************)
(* The pointer of the request's branch moves, with this result to report;  *)
(* or COMMIT fails, and main is read inside the transaction.               *)
(***************************************************************************)
MovePointer(s, status, to) ==
    LET b == req[s].branch IN
    \/ /\ branches' = [branches EXCEPT ![b] = to]
       /\ result' = [result EXCEPT ![s] =
                       [status |-> status, from |-> branches[b], to |-> to]]
       /\ Goto(s, "show")
    \/ /\ AnswerError(s, "method_error",
            IF b = Main THEN to ELSE branches[Main])
       /\ UNCHANGED <<branches, result>>

Refuse(s, kind, shown) ==
    /\ Answer(s, kind, None, branches[shown])
    /\ UNCHANGED <<branches, result>>

(***************************************************************************)
(* What the two pointer operations check of a source under the lock.       *)
(* [Mutants: the client is believed.]                                      *)
(***************************************************************************)
SourceTrusted(s) == TRUE
SourceMatches(s) == HistoryMatchesRoot(seen[s], histories)

DescentTrusted(s) == TRUE
SourceDescends(s) == DescendsFrom(seen[s], branches[req[s].branch])

CreateBranch(s) ==
    LET b == req[s].branch IN
    /\ pc[s] = "create"
    /\ LockFree
    /\ IF branches[b] = None /\ SourceMatches(s)
         THEN MovePointer(s, "created", seen[s])
         ELSE Refuse(s, "method_error", Main)
    /\ UNCHANGED <<histories, transactions, writer, work, req, seen,
                   submissions>>

FastForward(s) ==
    LET b == req[s].branch
        old == branches[b]
    IN
    /\ pc[s] = "fast_forward"
    /\ LockFree
    /\ IF old = None THEN Refuse(s, "method_error", Main)
       ELSE IF old.root # req[s].expect
         THEN Refuse(s, "stale_root", b)
       ELSE IF ~SourceMatches(s)
         THEN Refuse(s, "method_error", Main)
       ELSE IF ~SourceDescends(s)
         THEN Refuse(s, "dependency_conflict", b)
       ELSE MovePointer(s, IF old = seen[s] THEN "already_current"
                           ELSE "fast_forwarded", seen[s])
    /\ UNCHANGED <<histories, transactions, writer, work, req, seen,
                   submissions>>

RefuseDeleteMain(s) ==
    /\ RefusesMain(s)
    /\ AnswerError(s, "invalid_params", branches[Main])
    /\ UNCHANGED <<store, writer, work, locals, submissions>>

DeleteBranch(s) ==
    LET b == req[s].branch IN
    /\ pc[s] = "delete"
    /\ ~RefusesMain(s)
    /\ LockFree
    /\ IF branches[b] = None THEN Refuse(s, "method_error", Main)
       ELSE IF req[s].expect \notin {None, branches[b].root}
         THEN Refuse(s, "stale_root", b)
       ELSE MovePointer(s, "deleted", None)
    /\ UNCHANGED <<histories, transactions, writer, work, req, seen,
                   submissions>>

(***************************************************************************)
(* The snapshot of the answer.  The branch may be gone again by now: then  *)
(* the client is told of an error although its request was carried out.    *)
(***************************************************************************)
Show(s) ==
    LET b == IF req[s].kind = "branch.delete" THEN Main ELSE req[s].branch IN
    /\ pc[s] = "show"
    /\ IF branches[b] # None
         THEN Answer(s, "ok", result[s], branches[b])
         ELSE AnswerError(s, "method_error", branches[Main])
    /\ UNCHANGED <<store, writer, work, locals, submissions>>

-----------------------------------------------------------------------------
ApplyStep(s) ==
    \/ ApplyCall(s) \/ SkipCall(s) \/ ConflictCall(s) \/ FailCall(s)
    \/ Discard(s) \/ Commit(s) \/ CommitFails(s)

Serve(s) ==
    \/ CacheLookup(s) \/ ReadSnapshot(s) \/ StaleLookup(s)
    \/ Begin(s) \/ BusyTimeout(s) \/ ApplyStep(s)
    \/ ReadAfter(s) \/ MissLookup(s) \/ ErrorLookup(s)
    \/ CheckAbsent(s) \/ ReadSource(s)
    \/ CreateBranch(s) \/ FastForward(s) \/ RefuseDeleteMain(s)
    \/ DeleteBranch(s) \/ Show(s)

Next == \E s \in Sessions : Receive(s) \/ Serve(s) \/ Crash(s)

Spec == Init /\ [][Next]_vars

(***************************************************************************)
(* A thread that can run does run; a thread waiting for the lock gets it   *)
(* or its busy timeout.  Nothing is assumed of clients or of crashes.      *)
(***************************************************************************)
FairSpec == Spec /\ \A s \in Sessions : WF_vars(Serve(s))
=============================================================================
