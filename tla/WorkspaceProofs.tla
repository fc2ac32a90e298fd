--------------------------- MODULE WorkspaceProofs ---------------------------
(***************************************************************************)
(* Proofs about the workspace protocol, for any number of sessions,        *)
(* branches, requests and operations and any semantics of the operations:  *)
(* first the branches and their histories, then responses and answers.     *)
(***************************************************************************)
EXTENDS WorkspaceProperties, Induction

(***************************************************************************)
(* Histories as sequences.                                                 *)
(***************************************************************************)
LEMMA OutputIsRoot ==
    ASSUME NEW h \in History \ {<<>>}
    PROVE  OutputRoot(h) \in Roots
<1>1. Len(h) \in DOMAIN h
  BY DEF History
<1>2. h[Len(h)] \in Migration
  BY <1>1 DEF History
<1> QED
  BY <1>2 DEF Migration, OutputRoot

(***************************************************************************)
(* A history with one more migration: its length, elements and output.     *)
(***************************************************************************)
LEMMA AppendHistory ==
    ASSUME NEW h \in History, NEW m \in Migration
    PROVE  /\ Append(h, m) \in History \ {<<>>}
           /\ Len(Append(h, m)) = Len(h) + 1
           /\ \A i \in 1 .. Len(h) : Append(h, m)[i] = h[i]
           /\ Append(h, m)[Len(h) + 1] = m
           /\ OutputRoot(Append(h, m)) = m.output
  BY DEF History, OutputRoot

(***************************************************************************)
(* The NULL history.                                                       *)
(***************************************************************************)
LEMMA EmptyIsHistory == <<>> \in History
  BY DEF History

(***************************************************************************)
(* What a prefix of a history looks like.                                  *)
(***************************************************************************)
LEMMA PrefixIsHistory ==
    ASSUME NEW h \in History, NEW n \in 0 .. Len(h)
    PROVE  /\ SubSeq(h, 1, n) \in History
           /\ Len(SubSeq(h, 1, n)) = n
           /\ \A i \in 1 .. n : SubSeq(h, 1, n)[i] = h[i]
  BY DEF History

(***************************************************************************)
(* A history is a prefix of itself.                                        *)
(***************************************************************************)
LEMMA WholeIsPrefix ==
    ASSUME NEW h \in History
    PROVE  SubSeq(h, 1, Len(h)) = h
  BY DEF History

(***************************************************************************)
(* Appending leaves the prefixes alone.                                    *)
(***************************************************************************)
LEMMA PrefixOfAppend ==
    ASSUME NEW h \in History, NEW m \in Migration, NEW n \in 0 .. Len(h)
    PROVE  SubSeq(Append(h, m), 1, n) = SubSeq(h, 1, n)
  BY DEF History

(***************************************************************************)
(* The walk from a new history meets it and what its parent's walk met.    *)
(***************************************************************************)
LEMMA AncestorsOfAppend ==
    ASSUME NEW h \in History, NEW m \in Migration
    PROVE  Ancestors(Append(h, m)) = Ancestors(h) \cup {Append(h, m)}
<1>1. SubSeq(Append(h, m), 1, Len(h) + 1) = Append(h, m)
  BY AppendHistory, WholeIsPrefix
<1>2. \A n \in 1 .. Len(h) : SubSeq(Append(h, m), 1, n) = SubSeq(h, 1, n)
  BY PrefixOfAppend
<1>3. Len(h) \in Nat /\ Len(Append(h, m)) = Len(h) + 1
  BY AppendHistory DEF History
<1>4. 1 .. Len(h) + 1 = (1 .. Len(h)) \cup {Len(h) + 1}
  BY <1>3
<1>5. Ancestors(Append(h, m)) =
        {SubSeq(Append(h, m), 1, n) : n \in (1 .. Len(h)) \cup {Len(h) + 1}}
  BY <1>3, <1>4 DEF Ancestors
<1> QED
  BY <1>1, <1>2, <1>5 DEF Ancestors

-----------------------------------------------------------------------------
(* Types.                                                                  *)

StoreTypeOK ==
    /\ branches \in [Branches -> BranchState \cup {None}]
    /\ histories \subseteq History \ {<<>>}
    /\ transactions \in [Ids -> Row \cup {None}]
    /\ writer \in Sessions \cup {None}
    /\ work \in IF writer = None THEN {None} ELSE Work

(***************************************************************************)
(* A session that answers, and one that goes on to a place where it has    *)
(* what it needs there.                                                    *)
(***************************************************************************)
Answers(s) ==
    \E kind \in Kinds, res \in Result \cup {None}, snap \in BranchState \cup {None} :
        Answer(s, kind, res, snap)

GoesOn(s) ==
    \E label \in Labels :
        /\ Goto(s, label)
        /\ pc[s] # "idle"
        /\ label \in {"create", "fast_forward"} => seen'[s] # None
        /\ label \in {"after", "miss_lookup", "error_lookup"} => result'[s] # None

(***************************************************************************)
(* A step that keeps the store's types and moves one session to a label    *)
(* whose conditions hold is well typed.                                    *)
(***************************************************************************)
LEMMA SessionStep ==
    ASSUME TypeOK, StoreTypeOK', UNCHANGED <<req, submissions>>,
           NEW s \in Sessions,
           seen' \in [Sessions -> BranchState \cup {None}],
           result' \in [Sessions -> Result \cup {None}],
           \A c \in Sessions \ {s} : seen'[c] = seen[c] /\ result'[c] = result[c],
           Answers(s) \/ GoesOn(s)
    PROVE  TypeOK'
<1>1. pc' \in [Sessions -> Labels]
  BY DEF TypeOK, Answers, Answer, GoesOn, Goto, Labels
<1>2. resp' \in [Sessions -> Response \cup {None}]
  <2>1. CASE Answers(s)
    <3>1. PICK kind \in Kinds, res \in Result \cup {None},
               snap \in BranchState \cup {None} : Answer(s, kind, res, snap)
      BY <2>1 DEF Answers
    <3>2. [kind |-> kind, result |-> res, snapshot |-> snap] \in Response
      BY DEF Response
    <3> QED
      BY <3>1, <3>2 DEF Answer, TypeOK
  <2>2. CASE GoesOn(s)
    BY <2>2 DEF GoesOn, Goto, TypeOK
  <2> QED
    BY <2>1, <2>2
<1>3. ASSUME NEW c \in Sessions
      PROVE  /\ pc'[c] # "idle" => req'[c] \in Requests
             /\ pc'[c] \in {"create", "fast_forward"} => seen'[c] # None
             /\ pc'[c] \in {"after", "miss_lookup", "error_lookup"} =>
                  result'[c] # None
  <2>1. CASE c = s
    BY <2>1 DEF TypeOK, Answers, Answer, GoesOn, Goto
  <2>2. CASE c # s
    <3>1. pc'[c] = pc[c]
      BY <2>2 DEF Answers, Answer, GoesOn, Goto, TypeOK
    <3> QED
      BY <2>2, <3>1 DEF TypeOK
  <2> QED
    BY <2>1, <2>2
<1> QED
  BY <1>1, <1>2, <1>3 DEF TypeOK, StoreTypeOK

(***************************************************************************)
(* The request of a session at work.                                       *)
(***************************************************************************)
LEMMA RequestTyped ==
    ASSUME TypeOK, NEW s \in Sessions, pc[s] # "idle"
    PROVE  /\ req[s] \in Request
           /\ req[s].branch \in Branches
           /\ req[s].expect \in Roots \cup {None}
           /\ req[s].id \in Ids \cup {None}
           /\ req[s].source \in Branches \cup Roots \cup {None}
           /\ req[s].calls \in Seq([name : Calls, expect : Roots \cup {None}])
  BY RequestsAssumption DEF TypeOK, Request

(***************************************************************************)
(* An error is an answer.                                                  *)
(***************************************************************************)
LEMMA ErrorAnswers ==
    ASSUME NEW s \in Sessions, NEW kind \in Kinds,
           NEW main \in BranchState \cup {None}, AnswerError(s, kind, main)
    PROVE  Answers(s)
  BY DEF AnswerError, Answers

(***************************************************************************)
(* A recorded response, or the refusal of a reused id, is an answer.       *)
(***************************************************************************)
LEMMA CachedAnswers ==
    ASSUME TypeOK, NEW s \in Sessions, pc[s] # "idle", CachedAnswer(s)
    PROVE  Answers(s)
<1>1. Cached(req[s]) \in Row
  BY RequestTyped DEF CachedAnswer, Cached, TypeOK
<1>2. branches[Main] \in BranchState \cup {None}
  BY BranchesAssumption DEF TypeOK
<1>3. CASE Cached(req[s]).request = req[s]
  BY <1>1, <1>3 DEF CachedAnswer, Answers, Row, Kinds
<1>4. CASE Cached(req[s]).request # req[s]
  BY <1>2, <1>4, ErrorAnswers DEF CachedAnswer, Kinds
<1> QED
  BY <1>3, <1>4

(***************************************************************************)
(* Steps that read the database.                                           *)
(***************************************************************************)
LEMMA ReadOnlyTyped ==
    ASSUME TypeOK, NEW s \in Sessions,
           UNCHANGED <<store, writer, work, locals, submissions>>,
           Answers(s) \/ GoesOn(s)
    PROVE  TypeOK'
  BY SessionStep DEF TypeOK, StoreTypeOK, store, locals

(***************************************************************************)
(* The lookups and checks before and after a transaction.                  *)
(***************************************************************************)
LEMMA ReadTyped ==
    ASSUME TypeOK, NEW s \in Sessions,
           CacheLookup(s) \/ StaleLookup(s) \/ BusyTimeout(s) \/ MissLookup(s)
             \/ ErrorLookup(s) \/ CheckAbsent(s) \/ RefuseDeleteMain(s) \/ Show(s)
    PROVE  TypeOK'
<1> USE DEF Kinds, Labels, Statuses
<1>1. pc[s] # "idle" /\ UNCHANGED <<store, writer, work, locals, submissions>>
  BY DEF CacheLookup, StaleLookup, BusyTimeout, MissLookup, ErrorLookup,
         CheckAbsent, RefuseDeleteMain, RefusesMain, Show
<1>2. branches[Main] \in BranchState \cup {None}
  BY BranchesAssumption DEF TypeOK
<1>3. branches[req[s].branch] \in BranchState \cup {None}
  BY <1>1, RequestTyped DEF TypeOK
<1>4. CASE CacheLookup(s)
  BY <1>1, <1>4, CachedAnswers, ReadOnlyTyped DEF CacheLookup, GoesOn
<1>5. CASE StaleLookup(s)
  <2>1. seen[s] \in BranchState \cup {None}
    BY DEF TypeOK
  <2> QED
    BY <1>1, <1>5, <2>1, CachedAnswers, ReadOnlyTyped DEF StaleLookup, Answers
<1>6. CASE BusyTimeout(s)
  BY <1>1, <1>2, <1>6, ErrorAnswers, ReadOnlyTyped DEF BusyTimeout
<1>7. CASE MissLookup(s)
  <2>1. seen[s] \in BranchState \cup {None} /\ result[s] \in Result \cup {None}
    BY DEF TypeOK
  <2>2. pc[s] = "miss_lookup" /\ result'[s] # None
    BY <1>7 DEF MissLookup, TypeOK, locals
  <2> QED
    BY <1>1, <1>7, <2>1, <2>2, CachedAnswers, ReadOnlyTyped
    DEF MissLookup, Answers, GoesOn
<1>8. CASE ErrorLookup(s)
  <2>1. seen[s] \in BranchState \cup {None} /\ result[s] \in Result
    BY <1>8 DEF TypeOK, ErrorLookup
  <2>2. result[s].status \in Kinds
    BY <2>1 DEF Result
  <2> QED
    BY <1>1, <1>8, <2>1, <2>2, CachedAnswers, ReadOnlyTyped
    DEF ErrorLookup, Answers
<1>9. CASE CheckAbsent(s)
  BY <1>1, <1>2, <1>9, ErrorAnswers, ReadOnlyTyped DEF CheckAbsent, GoesOn
<1>10. CASE RefuseDeleteMain(s)
  BY <1>1, <1>2, <1>10, ErrorAnswers, ReadOnlyTyped DEF RefuseDeleteMain
<1>11. CASE Show(s)
  <2>1. result[s] \in Result \cup {None}
    BY DEF TypeOK
  <2> QED
    BY <1>1, <1>2, <1>3, <1>11, <2>1, ErrorAnswers, ReadOnlyTyped
    DEF Show, Answers
<1> QED
  BY <1>4, <1>5, <1>6, <1>7, <1>8, <1>9, <1>10, <1>11

(***************************************************************************)
(* Steps that remember what they read.                                     *)
(***************************************************************************)
LEMMA RememberTyped ==
    ASSUME TypeOK, NEW s \in Sessions, NEW state \in BranchState \cup {None},
           UNCHANGED <<store, writer, work, req, result, submissions>>,
           UNCHANGED seen \/ seen' = [seen EXCEPT ![s] = state],
           Answers(s) \/ GoesOn(s)
    PROVE  TypeOK'
<1>1. seen' \in [Sessions -> BranchState \cup {None}]
  BY DEF TypeOK
<1>2. \A c \in Sessions \ {s} : seen'[c] = seen[c]
  BY DEF TypeOK
<1>3. StoreTypeOK'
  BY DEF TypeOK, StoreTypeOK, store
<1> QED
  BY <1>1, <1>2, <1>3, SessionStep DEF TypeOK

(***************************************************************************)
(* ops.apply's two snapshots and the read of a branch source.              *)
(***************************************************************************)
LEMMA RememberingTyped ==
    ASSUME TypeOK, NEW s \in Sessions,
           ReadSnapshot(s) \/ ReadAfter(s) \/ ReadSource(s)
    PROVE  TypeOK'
<1> USE DEF Kinds, Labels, Statuses
<1>1. pc[s] # "idle" /\ UNCHANGED <<store, writer, work, req, result, submissions>>
  BY DEF ReadSnapshot, ReadAfter, ReadSource
<1>2. branches[Main] \in BranchState \cup {None}
  BY BranchesAssumption DEF TypeOK
<1>3. branches[req[s].branch] \in BranchState \cup {None}
  BY <1>1, RequestTyped DEF TypeOK
<1>4. CASE ReadSnapshot(s)
  BY <1>1, <1>2, <1>3, <1>4, ErrorAnswers, RememberTyped
  DEF ReadSnapshot, GoesOn
<1>5. CASE ReadAfter(s)
  <2>1. result[s] \in Result \cup {None} /\ result'[s] # None
    BY <1>1, <1>5 DEF TypeOK, ReadAfter
  <2>2. \E state \in BranchState \cup {None} :
          /\ UNCHANGED seen \/ seen' = [seen EXCEPT ![s] = state]
          /\ Answers(s) \/ GoesOn(s)
    BY <1>1, <1>2, <1>3, <1>5, <2>1, ErrorAnswers DEF ReadAfter, Answers, GoesOn
  <2> QED
    BY <1>1, <2>2, RememberTyped
<1>6. CASE ReadSource(s)
  <2>1. CASE ReadSource(s)!2!1
    BY <1>1, <1>2, <2>1, ErrorAnswers, RememberTyped
  <2>2. ASSUME NEW state \in SourceStates(req[s].source),
               ReadSource(s)!2!2!(state)
        PROVE  TypeOK'
    <3>1. state \in BranchState
      <4>1. CASE req[s].source \in Branches
        BY <2>2, <4>1 DEF SourceStates, TypeOK
      <4>2. CASE req[s].source \notin Branches
        <5>1. StoredRoots \subseteq Roots
          BY RootsAssumption, OutputIsRoot DEF StoredRoots, TypeOK
        <5>2. histories \cup {<<>>} \subseteq History
          BY EmptyIsHistory DEF TypeOK
        <5> QED
          BY <2>2, <4>2, <5>1, <5>2 DEF SourceStates, BranchState
      <4> QED
        BY <4>1, <4>2
    <3>2. seen'[s] # None
      BY <2>2, <3>1, NoneAssumption DEF TypeOK
    <3>3. GoesOn(s)
      BY <1>1, <2>2, <3>2 DEF GoesOn
    <3> QED
      BY <1>1, <2>2, <3>1, <3>3, RememberTyped
  <2> QED
    BY <1>6, <2>1, <2>2 DEF ReadSource
<1> QED
  BY <1>4, <1>5, <1>6

(***************************************************************************)
(* A request is received; a session dies.                                  *)
(***************************************************************************)
LEMMA ReceiveTyped ==
    ASSUME TypeOK, NEW s \in Sessions, Receive(s)
    PROVE  TypeOK'
<1>1. PICK r \in Requests : /\ req' = [req EXCEPT ![s] = r]
                            /\ pc' = [pc EXCEPT ![s] = Entry[r.kind]]
  BY DEF Receive
<1>2. Entry[r.kind] \in {"lookup", "exists", "source", "delete", "begin"}
  BY RequestsAssumption DEF Entry, Request, ApplyKinds, BranchKinds
<1>3. submissions' \in 0 .. MaxSubmissions
  BY SubmissionsAssumption DEF Receive, TypeOK
<1> QED
  BY <1>1, <1>2, <1>3 DEF Receive, TypeOK, store, Labels

(***************************************************************************)
(* Dying: the writer's lock and work go with it.                           *)
(***************************************************************************)
LEMMA CrashTyped ==
    ASSUME TypeOK, NEW s \in Sessions, Crash(s)
    PROVE  TypeOK'
<1>1. StoreTypeOK'
  BY DEF Crash, TypeOK, StoreTypeOK, store
<1>2. GoesOn(s)
  BY DEF Crash, GoesOn, Labels
<1> QED
  BY <1>1, <1>2, SessionStep DEF Crash, TypeOK, locals

-----------------------------------------------------------------------------
(* Steps inside a transaction.                                             *)

(***************************************************************************)
(* What the writer works on, and the operation it is at.                   *)
(***************************************************************************)
LEMMA WriterTyped ==
    ASSUME TypeOK, NEW s \in Sessions, writer = s
    PROVE  /\ work \in Work
           /\ work.start \in BranchState /\ work.state \in BranchState
           /\ work.start # None /\ work.state # None
           /\ work.added \subseteq History \ {<<>>}
           /\ work.next \in Nat \ {0}
           /\ work.applied \in BOOLEAN
  BY SessionsAssumption, NoneAssumption DEF TypeOK, Work

(***************************************************************************)
(* An element of a sequence over a set is in the set.                      *)
(***************************************************************************)
LEMMA ElementTyped ==
    ASSUME NEW S, NEW seq \in Seq(S), NEW i \in DOMAIN seq
    PROVE  seq[i] \in S
  OBVIOUS

(***************************************************************************)
(* The operation at hand, once its names are resolved.                     *)
(***************************************************************************)
LEMMA CallTyped ==
    ASSUME TypeOK, NEW s \in Sessions, writer = s, pc[s] = "apply",
           work.next \in DOMAIN req[s].calls, CallOp(s) # None
    PROVE  CallOp(s) \in Ops
<1>1. req[s].calls[work.next] \in [name : Calls, expect : Roots \cup {None}]
  <2>1. req[s].calls \in Seq([name : Calls, expect : Roots \cup {None}])
    BY RequestTyped
  <2> QED
    BY <2>1, ElementTyped
<1>2. ExpectedRoot(s) \in Roots
  BY <1>1, RequestTyped, WriterTyped DEF ExpectedRoot, BranchState
<1> QED
  BY <1>1, <1>2, ResolveAssumption DEF CallOp

(***************************************************************************)
(* An operation that applies yields a migration.                           *)
(***************************************************************************)
LEMMA MigrationTyped ==
    ASSUME NEW op \in Ops, NEW input \in Roots, Applies(op, input)
    PROVE  Apply(op, input) \in Migration
  BY OpsAssumption DEF Applies, Apply, Migration

(***************************************************************************)
(* A transaction's work with one more migration.                           *)
(***************************************************************************)
LEMMA RecordTyped ==
    ASSUME NEW w \in Work, NEW m \in Migration
    PROVE  RecordMigration(w, m) \in Work
<1>1. w.state.history \in History
  BY DEF Work, BranchState
<1>2. Append(w.state.history, m) \in History \ {<<>>} /\ m.output \in Roots
  BY <1>1, AppendHistory DEF Migration
<1> DEFINE h == Append(w.state.history, m)
<1>3. [root |-> m.output, history |-> h] \in BranchState
  BY <1>2 DEF BranchState
<1>4. w.next + 1 \in Nat \ {0}
  BY DEF Work
<1> HIDE DEF h
<1>5. w.added \cup {h} \in SUBSET (History \ {<<>>})
  <2>1. h \in History \ {<<>>}
    BY <1>2 DEF h
  <2>2. w.added \in SUBSET (History \ {<<>>})
    BY DEF Work
  <2> QED
    BY <2>1, <2>2
<1>6. RecordMigration(w, m) =
        [w EXCEPT !.state = [root |-> m.output, history |-> h],
                  !.added = w.added \cup {h}, !.next = w.next + 1,
                  !.applied = TRUE]
  BY DEF RecordMigration, h
<1> QED
  BY <1>3, <1>4, <1>5, <1>6 DEF Work

(***************************************************************************)
(* The operation at hand is one of the request's.                          *)
(***************************************************************************)
LEMMA InCallTyped ==
    ASSUME TypeOK, NEW s \in Sessions, InCall(s)
    PROVE  work.next \in DOMAIN req[s].calls
  BY RequestTyped, WriterTyped DEF InCall

(***************************************************************************)
(* The end of a transaction.                                               *)
(***************************************************************************)
LEMMA ResultsTyped ==
    ASSUME TypeOK, NEW s \in Sessions, writer = s, NEW st \in Statuses
    PROVE  RolledBack(st) \in Result /\ Finished \in Result
<1> USE WriterTyped
<1>1. RolledBack(st) \in Result
  BY DEF RolledBack, Result
<1>2. Finished \in Result
  BY DEF Finished, Result, Statuses
<1> QED
  BY <1>1, <1>2

(***************************************************************************)
(* The end of a transaction answers the command line or goes on to the     *)
(* snapshot.                                                               *)
(***************************************************************************)
LEMMA LeaveTyped ==
    ASSUME TypeOK, NEW s \in Sessions, pc[s] = "apply", NEW res \in Result,
           Leave(s, res), UNCHANGED <<req, seen, submissions>>,
           branches' \in [Branches -> BranchState \cup {None}],
           histories' \subseteq History \ {<<>>},
           transactions' \in [Ids -> Row \cup {None}]
    PROVE  TypeOK'
<1>1. StoreTypeOK'
  BY DEF Leave, StoreTypeOK
<1>2. /\ result' \in [Sessions -> Result \cup {None}]
      /\ result'[s] = res
      /\ \A c \in Sessions \ {s} : result'[c] = result[c]
  BY DEF Leave, TypeOK
<1>3. res # None
  BY NoneAssumption
<1>4. Answers(s) \/ GoesOn(s)
  BY <1>2, <1>3 DEF Leave, Answers, GoesOn, Kinds, Labels
<1> QED
  BY <1>1, <1>2, <1>4, SessionStep DEF TypeOK

(***************************************************************************)
(* Every step of an apply transaction, COMMIT and its failures included.   *)
(***************************************************************************)
LEMMA ApplyTyped ==
    ASSUME TypeOK, NEW s \in Sessions, ApplyStep(s)
    PROVE  TypeOK'
<1>1. /\ pc[s] = "apply" /\ writer = s /\ s # None
      /\ UNCHANGED <<req, seen, submissions>>
  BY SessionsAssumption
  DEF ApplyStep, ApplyCall, SkipCall, ConflictCall, FailCall, Discard, Commit,
      CommitFails, InCall, Done, locals
<1>2. ASSUME work' \in Work, UNCHANGED <<store, writer, pc, locals, resp, submissions>>
      PROVE  TypeOK'
  BY <1>1, <1>2 DEF TypeOK, store, locals
<1>3. CASE ApplyCall(s)
  <2>1. CallOp(s) \in Ops
    BY <1>1, <1>3, CallTyped, InCallTyped DEF ApplyCall
  <2>2. Apply(CallOp(s), work.state.root) \in Migration
    BY <1>1, <1>3, <2>1, MigrationTyped, WriterTyped DEF ApplyCall, BranchState
  <2>3. work' \in Work
    BY <1>1, <1>3, <2>2, RecordTyped, WriterTyped DEF ApplyCall
  <2> QED
    BY <1>2, <1>3, <2>3 DEF ApplyCall
<1>4. CASE SkipCall(s)
  <2>1. work' \in Work
    BY <1>1, <1>4, WriterTyped DEF SkipCall, Work
  <2> QED
    BY <1>2, <1>4, <2>1 DEF SkipCall
<1>5. CASE ConflictCall(s) \/ FailCall(s)
  <2>1. \E st \in Statuses : Leave(s, RolledBack(st))
    BY <1>5 DEF ConflictCall, FailCall, Statuses
  <2> QED
    BY <1>1, <1>5, <2>1, ResultsTyped, LeaveTyped
    DEF ConflictCall, FailCall, store, TypeOK
<1>6. CASE Discard(s)
  BY <1>1, <1>6, ResultsTyped, LeaveTyped DEF Discard, store, TypeOK, Statuses
<1>7. CASE Commit(s)
  <2>1. Finished \in Result
    BY <1>1, ResultsTyped DEF Statuses
  <2>2. [request |-> req[s], result |-> Finished, snapshot |-> work.state] \in Row
    BY <1>1, <2>1, RequestTyped, WriterTyped DEF Row
  <2>3. transactions' \in [Ids -> Row \cup {None}]
    BY <1>1, <1>7, <2>2, RequestTyped DEF Commit, RecordResponse, TypeOK
  <2>4. branches' \in [Branches -> BranchState \cup {None}]
    BY <1>1, <1>7, WriterTyped DEF Commit, TypeOK
  <2>5. histories' \subseteq History \ {<<>>}
    BY <1>1, <1>7, WriterTyped DEF Commit, TypeOK
  <2> QED
    BY <1>1, <1>7, <2>1, <2>3, <2>4, <2>5, LeaveTyped DEF Commit
<1>8. CASE CommitFails(s)
  <2>1. branches[Main] \in BranchState \cup {None}
    BY BranchesAssumption DEF TypeOK
  <2>2. Answers(s)
    BY <1>1, <1>8, <2>1, ErrorAnswers, WriterTyped DEF CommitFails, Kinds
  <2>3. StoreTypeOK'
    BY <1>8 DEF CommitFails, StoreTypeOK, TypeOK, store
  <2> QED
    BY <1>8, <2>2, <2>3, SessionStep DEF CommitFails, TypeOK, locals
<1> QED
  BY <1>3, <1>4, <1>5, <1>6, <1>7, <1>8 DEF ApplyStep

(***************************************************************************)
(* BEGIN IMMEDIATE.                                                        *)
(***************************************************************************)
LEMMA BeginTyped ==
    ASSUME TypeOK, NEW s \in Sessions, Begin(s)
    PROVE  TypeOK'
<1>1. branches[Main] \in BranchState \cup {None}
  BY BranchesAssumption DEF TypeOK
<1>2. pc[s] = "begin" /\ branches[req[s].branch] \in BranchState \cup {None}
  BY RequestTyped DEF Begin, TypeOK
<1>3. Answers(s) \/ GoesOn(s)
  BY <1>1, <1>2, ErrorAnswers DEF Begin, GoesOn, Kinds, Labels
<1>4. StoreTypeOK'
  <2>1. CASE UNCHANGED <<writer, work>>
    BY <2>1 DEF Begin, StoreTypeOK, TypeOK, store
  <2>2. CASE /\ branches[req[s].branch] # None
             /\ writer' = s
             /\ work' = [start |-> branches[req[s].branch],
                         state |-> branches[req[s].branch],
                         added |-> {}, next |-> 1, applied |-> FALSE]
    <3>1. work' \in Work /\ writer' = s
      BY <1>2, <2>2 DEF Work
    <3> QED
      BY <3>1, SessionsAssumption DEF Begin, StoreTypeOK, TypeOK, store
  <2> QED
    BY <2>1, <2>2 DEF Begin
<1> QED
  BY <1>3, <1>4, SessionStep DEF Begin, TypeOK, locals

-----------------------------------------------------------------------------
(* The branch methods' transactions.                                       *)

(***************************************************************************)
(* What a pointer operation does to the store: nothing, or it moves the    *)
(* request's branch, while nobody writes.                                  *)
(***************************************************************************)
PointerStep(s) == CreateBranch(s) \/ FastForward(s) \/ DeleteBranch(s)

(***************************************************************************)
(* What the three pointer operations have in common.                       *)
(***************************************************************************)
LEMMA PointerSteps ==
    ASSUME TypeOK, NEW s \in Sessions, PointerStep(s)
    PROVE  /\ pc[s] \in {"create", "fast_forward", "delete"}
           /\ LockFree
           /\ UNCHANGED <<histories, transactions, writer, work, req, seen,
                          submissions>>
           /\ \/ \E kind \in Kinds, shown \in Branches : Refuse(s, kind, shown)
              \/ \E st \in Statuses, to \in BranchState \cup {None} :
                   MovePointer(s, st, to)
<1> USE DEF PointerStep, Kinds, Statuses
<1>1. CASE CreateBranch(s)
  <2>1. seen[s] \in BranchState \cup {None}
    BY DEF TypeOK
  <2> QED
    BY <1>1, <2>1, BranchesAssumption DEF CreateBranch
<1>2. CASE FastForward(s)
  <2>1. seen[s] \in BranchState \cup {None} /\ req[s].branch \in Branches
    BY <1>2, RequestTyped DEF TypeOK, FastForward
  <2> QED
    BY <1>2, <2>1, BranchesAssumption DEF FastForward
<1>3. CASE DeleteBranch(s)
  <2>1. req[s].branch \in Branches
    BY <1>3, RequestTyped DEF DeleteBranch
  <2> QED
    BY <1>3, <2>1, BranchesAssumption DEF DeleteBranch
<1> QED
  BY <1>1, <1>2, <1>3

(***************************************************************************)
(* The transactions of the branch methods.                                 *)
(***************************************************************************)
LEMMA PointerTyped ==
    ASSUME TypeOK, NEW s \in Sessions, PointerStep(s)
    PROVE  TypeOK'
<1>1. pc[s] # "idle" /\ req[s].branch \in Branches
  BY PointerSteps, RequestTyped
<1>2. branches[Main] \in BranchState \cup {None}
  BY BranchesAssumption DEF TypeOK
<1>3. ASSUME NEW kind \in Kinds, NEW shown \in Branches, Refuse(s, kind, shown)
      PROVE  TypeOK'
  <2>1. Answers(s)
    BY <1>3 DEF Refuse, Answers, TypeOK
  <2>2. StoreTypeOK'
    BY <1>3, PointerSteps DEF Refuse, StoreTypeOK, TypeOK
  <2> QED
    BY <1>3, <2>1, <2>2, PointerSteps, SessionStep DEF Refuse, TypeOK
<1>4. ASSUME NEW st \in Statuses, NEW to \in BranchState \cup {None},
             MovePointer(s, st, to)
      PROVE  TypeOK'
  <2> DEFINE res == [status |-> st, from |-> branches[req[s].branch], to |-> to]
  <2>1. branches[req[s].branch] \in BranchState \cup {None}
    BY <1>1 DEF TypeOK
  <2>2. res \in Result
    BY <2>1 DEF Result
  <2>3. /\ UNCHANGED result \/ result' = [result EXCEPT ![s] = res]
        /\ branches' \in [Branches -> BranchState \cup {None}]
    BY <1>4 DEF MovePointer, TypeOK
  <2>4. Answers(s) \/ GoesOn(s)
    BY <1>1, <1>2, <1>4, ErrorAnswers
    DEF MovePointer, GoesOn, Labels, Kinds
  <2>5. StoreTypeOK'
    BY <2>3, PointerSteps DEF StoreTypeOK, TypeOK
  <2> HIDE DEF res
  <2> QED
    BY <2>2, <2>3, <2>4, <2>5, PointerSteps, SessionStep DEF TypeOK
<1> QED
  BY <1>3, <1>4, PointerSteps

(***************************************************************************)
(* A new database is well typed.                                           *)
(***************************************************************************)
LEMMA TypeInit == Init => TypeOK
<1>1. [root |-> EmptyRoot, history |-> <<>>] \in BranchState
  BY RootsAssumption, EmptyIsHistory DEF BranchState
<1> QED
  BY <1>1, SubmissionsAssumption DEF Init, TypeOK, Labels

(***************************************************************************)
(* Every step of a session keeps the types.                                *)
(***************************************************************************)
LEMMA TypeStep == TypeOK /\ [Next]_vars => TypeOK'
<1> SUFFICES ASSUME TypeOK, [Next]_vars PROVE TypeOK'
  OBVIOUS
<1>1. ASSUME NEW s \in Sessions, Receive(s) PROVE TypeOK'
  BY <1>1, ReceiveTyped
<1>2. ASSUME NEW s \in Sessions, Crash(s) PROVE TypeOK'
  BY <1>2, CrashTyped
<1>3. ASSUME NEW s \in Sessions, Serve(s) PROVE TypeOK'
  BY <1>3, ReadTyped, RememberingTyped, BeginTyped, ApplyTyped, PointerTyped
  DEF Serve, PointerStep
<1>4. CASE UNCHANGED vars
  BY <1>4 DEF vars, store, locals, TypeOK
<1> QED
  BY <1>1, <1>2, <1>3, <1>4 DEF Next

(***************************************************************************)
(* Every variable keeps its type (schema.sql, tables branches, histories,  *)
(* migrations and workspace_transactions).                                 *)
(***************************************************************************)
THEOREM TypeCorrect == Spec => []TypeOK
  BY TypeInit, TypeStep, PTL DEF Spec

-----------------------------------------------------------------------------
(* Who changes the store.                                                  *)

(***************************************************************************)
(* A step that changes the committed tables, the writer or its work is one *)
(* of a session at work that takes the lock, writes under it, gives it up, *)
(* or moves a pointer while it is free.                                    *)
(***************************************************************************)
LEMMA StoreSteps ==
    ASSUME TypeOK, [Next]_vars
    PROVE  \/ UNCHANGED <<store, writer, work>>
           \/ \E s \in Sessions :
                \/ Begin(s) \/ ApplyStep(s) \/ PointerStep(s)
                \/ Crash(s) /\ writer = s
<1>1. ASSUME NEW s \in Sessions, Receive(s) \/ Crash(s)
      PROVE  UNCHANGED <<store, writer, work>> \/ (Crash(s) /\ writer = s)
  BY <1>1 DEF Receive, Crash
<1>2. ASSUME NEW s \in Sessions, Serve(s)
      PROVE  \/ UNCHANGED <<store, writer, work>>
             \/ Begin(s) \/ ApplyStep(s) \/ PointerStep(s)
  BY <1>2
  DEF Serve, PointerStep, CacheLookup, ReadSnapshot, StaleLookup, BusyTimeout,
      ReadAfter, MissLookup, ErrorLookup, CheckAbsent, ReadSource,
      RefuseDeleteMain, Show
<1> SUFFICES ASSUME ~UNCHANGED <<store, writer, work>>
             PROVE  \E s \in Sessions :
                      \/ Begin(s) \/ ApplyStep(s) \/ PointerStep(s)
                      \/ Crash(s) /\ writer = s
  OBVIOUS
<1>3. PICK s \in Sessions : Receive(s) \/ Serve(s) \/ Crash(s)
  BY DEF Next, vars, store
<1> QED
  BY <1>1, <1>2, <1>3

(***************************************************************************)
(* No step but the writer's own moves the writer or gives it another       *)
(* request.                                                                *)
(***************************************************************************)
LEMMA OtherSessions ==
    ASSUME TypeOK, [Next]_vars, NEW w \in Sessions, pc[w] = "apply"
    PROVE  \/ pc'[w] = "apply" /\ req'[w] = req[w]
           \/ ApplyStep(w) \/ Crash(w)
<1>1. ASSUME NEW s \in Sessions, Receive(s)
      PROVE  pc'[w] = "apply" /\ req'[w] = req[w]
  BY <1>1 DEF Receive, TypeOK
<1>2. ASSUME NEW s \in Sessions, Crash(s), s # w
      PROVE  pc'[w] = "apply" /\ req'[w] = req[w]
  BY <1>2 DEF Crash, Goto, TypeOK, locals
<1>3. ASSUME NEW s \in Sessions, Serve(s) PROVE req' = req
  BY <1>3, PointerSteps
  DEF Serve, PointerStep, CacheLookup, ReadSnapshot, StaleLookup, BusyTimeout,
      ReadAfter, MissLookup, ErrorLookup, CheckAbsent, ReadSource,
      RefuseDeleteMain, Show, Begin, ApplyStep, ApplyCall, SkipCall,
      ConflictCall, FailCall, Discard, Commit, CommitFails, locals
<1>4. ASSUME NEW s \in Sessions, Serve(s), s # w PROVE pc'[w] = pc[w]
  <2>1. UNCHANGED pc \/ \E label : pc' = [pc EXCEPT ![s] = label]
    <3>1. CASE CacheLookup(s) \/ StaleLookup(s) \/ BusyTimeout(s) \/ MissLookup(s)
               \/ ErrorLookup(s) \/ CheckAbsent(s) \/ RefuseDeleteMain(s) \/ Show(s)
      BY <3>1
      DEF CacheLookup, StaleLookup, BusyTimeout, MissLookup, ErrorLookup,
          CheckAbsent, RefuseDeleteMain, Show, CachedAnswer, AnswerError, Answer,
          Goto
    <3>2. CASE ReadSnapshot(s) \/ ReadAfter(s) \/ ReadSource(s) \/ Begin(s)
      BY <3>2
      DEF ReadSnapshot, ReadAfter, ReadSource, Begin, AnswerError, Answer, Goto
    <3>3. CASE ApplyStep(s)
      BY <3>3
      DEF ApplyStep, ApplyCall, SkipCall, ConflictCall, FailCall, Discard,
          Commit, CommitFails, Leave, AnswerError, Answer, Goto
    <3>4. CASE PointerStep(s)
      BY <3>4, PointerSteps DEF Refuse, MovePointer, AnswerError, Answer, Goto
    <3> QED
      BY <1>4, <3>1, <3>2, <3>3, <3>4 DEF Serve, PointerStep
  <2> QED
    BY <1>4, <2>1 DEF TypeOK
<1>5. ASSUME Serve(w) PROVE ApplyStep(w)
  BY <1>5, PointerSteps
  DEF Serve, PointerStep, CacheLookup, ReadSnapshot, StaleLookup, BusyTimeout,
      ReadAfter, MissLookup, ErrorLookup, CheckAbsent, ReadSource,
      RefuseDeleteMain, RefusesMain, Show, Begin
<1> QED
  BY <1>1, <1>2, <1>3, <1>4, <1>5 DEF Next, vars

(***************************************************************************)
(* The writer's own steps: it goes on, or it gives up the lock.            *)
(***************************************************************************)
LEMMA WriterSteps ==
    ASSUME TypeOK, NEW s \in Sessions, ApplyStep(s)
    PROVE  /\ writer = s /\ pc[s] = "apply" /\ req' = req
           /\ \/ /\ UNCHANGED <<store, writer, pc>>
                 /\ work'.start = work.start
                 /\ ApplyCall(s) \/ SkipCall(s)
              \/ /\ writer' = None
                 /\ UNCHANGED store \/ Commit(s)
<1>1. writer = s /\ pc[s] = "apply" /\ req' = req
  BY DEF ApplyStep, ApplyCall, SkipCall, ConflictCall, FailCall, Discard, Commit,
         CommitFails, InCall, Done, locals
<1>2. CASE ApplyCall(s) \/ SkipCall(s)
  <2>1. work \in Work
    BY <1>1, WriterTyped
  <2>2. work'.start = work.start
    BY <1>2, <2>1 DEF ApplyCall, SkipCall, RecordMigration, Work
  <2> QED
    BY <1>1, <1>2, <2>2 DEF ApplyCall, SkipCall
<1>3. CASE ConflictCall(s) \/ FailCall(s) \/ Discard(s) \/ Commit(s) \/ CommitFails(s)
  BY <1>1, <1>3
  DEF ConflictCall, FailCall, Discard, Commit, CommitFails, Leave
<1> QED
  BY <1>1, <1>2, <1>3 DEF ApplyStep

-----------------------------------------------------------------------------
(* No lost update.                                                         *)

(***************************************************************************)
(* The writer is inside its transaction and its branch is where the        *)
(* transaction found it.                                                   *)
(***************************************************************************)
WriterInv == writer # None => pc[writer] = "apply" /\ WriterSeesLatest

(***************************************************************************)
(* While a session writes, nobody else moves a branch or takes the lock.   *)
(***************************************************************************)
LEMMA WriterInvStep == TypeOK /\ WriterInv /\ [Next]_vars => WriterInv'
<1> SUFFICES ASSUME TypeOK, WriterInv, [Next]_vars, writer' # None
             PROVE  WriterInv'
  BY DEF WriterInv
<1>0. writer' \in Sessions /\ writer \in Sessions \cup {None}
  BY TypeStep DEF TypeOK
<1>1. CASE UNCHANGED <<store, writer, work>>
  <2>1. writer \in Sessions /\ pc[writer] = "apply"
    BY <1>0, <1>1 DEF WriterInv
  <2>2. ~Crash(writer)
    BY <1>1, <2>1, SessionsAssumption DEF Crash
  <2>3. ApplyStep(writer) => pc'[writer] = "apply" /\ req'[writer] = req[writer]
    BY <1>1, <2>1, WriterSteps, SessionsAssumption
  <2>4. pc'[writer] = "apply" /\ req'[writer] = req[writer]
    BY <2>1, <2>2, <2>3, OtherSessions
  <2> QED
    BY <1>1, <2>4 DEF WriterInv, WriterSeesLatest, store
<1>2. ASSUME NEW s \in Sessions, Begin(s) PROVE WriterInv'
  BY <1>2 DEF Begin, WriterInv, WriterSeesLatest, Goto, TypeOK, LockFree, store,
              locals
<1>3. ASSUME NEW s \in Sessions, ApplyStep(s) PROVE WriterInv'
  BY <1>3, WriterSteps DEF WriterInv, WriterSeesLatest, store
<1>4. ASSUME NEW s \in Sessions, PointerStep(s) PROVE WriterInv'
  BY <1>4, PointerSteps DEF LockFree
<1>5. ASSUME NEW s \in Sessions, Crash(s), writer = s PROVE WriterInv'
  BY <1>5 DEF Crash
<1> QED
  BY <1>1, <1>2, <1>3, <1>4, <1>5, StoreSteps

(***************************************************************************)
(* No lost update: COMMIT replaces exactly the state of the branch that    *)
(* the transaction's migrations were computed from (api.rs, BEGIN          *)
(* IMMEDIATE before the branch is read).                                   *)
(***************************************************************************)
THEOREM NoLostUpdate == Spec => []WriterSeesLatest
<1>1. Init => WriterInv
  BY DEF Init, WriterInv
<1>2. WriterInv => WriterSeesLatest
  BY DEF WriterInv, WriterSeesLatest
<1> QED
  BY <1>1, <1>2, TypeCorrect, WriterInvStep, PTL DEF Spec

-----------------------------------------------------------------------------
(* Histories.                                                              *)

(***************************************************************************)
(* A set of histories that can be replayed, and the root where replaying a *)
(* state's history starts.                                                 *)
(***************************************************************************)
WellFormed(H) == \A h \in H : Replays(h) /\ Ancestors(h) \subseteq H

FirstRoot(state) ==
    IF state.history = <<>> THEN state.root ELSE state.history[1].input

(***************************************************************************)
(* One more migration on a state of a well-formed set.                     *)
(***************************************************************************)
LEMMA AppendReplays ==
    ASSUME NEW h \in History, Replays(h), NEW op \in Ops, NEW input \in Roots,
           Applies(op, input), h # <<>> => OutputRoot(h) = input
    PROVE  Replays(Append(h, Apply(op, input)))
<1> DEFINE m == Apply(op, input)
           g == Append(h, m)
<1>1. m \in Migration
  BY MigrationTyped
<1>2. /\ Len(h) \in Nat /\ Len(g) = Len(h) + 1
      /\ \A i \in 1 .. Len(h) : g[i] = h[i]
      /\ g[Len(h) + 1] = m
  BY <1>1, AppendHistory DEF History
<1> HIDE DEF g
<1>3. ASSUME NEW i \in 1 .. Len(h) PROVE ReplaysAt(g, i)
  <2>1. ReplaysAt(h, i)
    BY DEF Replays
  <2>2. g[i] = h[i] /\ (i > 1 => g[i - 1] = h[i - 1])
    BY <1>2
  <2> QED
    BY <2>1, <2>2 DEF ReplaysAt
<1>4. ReplaysAt(g, Len(h) + 1)
  <2>1. m.op = op /\ m.input = input /\ m = Apply(m.op, m.input)
    BY DEF Apply
  <2>2. Len(h) + 1 > 1 => g[Len(h)].output = input
    <3> SUFFICES ASSUME Len(h) > 0 PROVE g[Len(h)].output = input
      BY <1>2
    <3>1. h # <<>> /\ g[Len(h)] = h[Len(h)]
      BY <1>2
    <3> QED
      BY <3>1 DEF OutputRoot
  <2> HIDE DEF m
  <2> QED
    BY <1>2, <2>1, <2>2 DEF ReplaysAt
<1>5. \A i \in 1 .. Len(g) : ReplaysAt(g, i)
  BY <1>2, <1>3, <1>4
<1> QED
  BY <1>5 DEF Replays, g

(***************************************************************************)
(* Recording a migration keeps the set of histories well formed and the    *)
(* state one of them.                                                      *)
(***************************************************************************)
LEMMA RecordKeeps ==
    ASSUME NEW H \in SUBSET (History \ {<<>>}), WellFormed(H),
           NEW w \in Work, HistoryMatchesRoot(w.state, H),
           NEW op \in Ops, Applies(op, w.state.root),
           NEW new \in {RecordMigration(w, Apply(op, w.state.root))}
    PROVE  /\ new.start = w.start
           /\ new.state.history \in History \ {<<>>}
           /\ new.added = w.added \cup {new.state.history}
           /\ WellFormed(H \cup {new.state.history})
           /\ OutputRoot(new.state.history) = new.state.root
           /\ FirstRoot(new.state) = FirstRoot(w.state)
<1> DEFINE m == Apply(op, w.state.root)
           h == Append(w.state.history, m)
<1>1. w.state.history \in History /\ w.state.root \in Roots
  BY DEF Work, BranchState
<1>2. m \in Migration
  BY <1>1, MigrationTyped
<1>3. /\ new.start = w.start /\ new.added = w.added \cup {h}
      /\ new.state = [root |-> m.output, history |-> h]
  BY DEF RecordMigration, Work
<1>4. h \in History \ {<<>>} /\ OutputRoot(h) = m.output
  BY <1>1, <1>2, AppendHistory
<1>5. /\ w.state.history # <<>> => /\ w.state.history \in H
                                   /\ OutputRoot(w.state.history) = w.state.root
      /\ w.state.history = <<>> => /\ Replays(w.state.history)
                                   /\ Ancestors(w.state.history) = {}
  BY DEF HistoryMatchesRoot, Replays, Ancestors
<1>6. Replays(w.state.history) /\ Ancestors(w.state.history) \subseteq H
  BY <1>5 DEF WellFormed
<1>7. Replays(h)
  BY <1>1, <1>5, <1>6, AppendReplays
<1>8. Ancestors(h) \subseteq H \cup {h}
  BY <1>1, <1>2, <1>6, AncestorsOfAppend
<1>9. FirstRoot([root |-> m.output, history |-> h]) = FirstRoot(w.state)
  <2>1. CASE w.state.history = <<>>
    <3>1. h[1] = m
      BY <1>1, <1>2, <2>1, AppendHistory
    <3> QED
      BY <1>4, <2>1, <3>1 DEF FirstRoot, Apply
  <2>2. CASE w.state.history # <<>>
    <3>1. 1 \in 1 .. Len(w.state.history)
      BY <1>1, <2>2 DEF History
    <3>2. h[1] = w.state.history[1]
      BY <1>1, <1>2, <3>1, AppendHistory
    <3> QED
      BY <1>4, <2>2, <3>2 DEF FirstRoot
  <2> QED
    BY <2>1, <2>2
<1> HIDE DEF h, m
<1> QED
  BY <1>3, <1>4, <1>7, <1>8, <1>9 DEF WellFormed

(***************************************************************************)
(* A state that descends from another started where that one did.          *)
(***************************************************************************)
LEMMA DescentKeepsFirstRoot ==
    ASSUME NEW source \in BranchState, NEW target \in BranchState,
           DescendsFrom(source, target)
    PROVE  FirstRoot(source) = FirstRoot(target)
<1>1. source.history \in History /\ target.history \in History
  BY DEF BranchState
<1>2. CASE source = target
  BY <1>2
<1>3. CASE target.history \in Ancestors(source.history)
  <2>1. PICK n \in 1 .. Len(source.history) :
               target.history = SubSeq(source.history, 1, n)
    BY <1>3 DEF Ancestors
  <2>2. n \in 0 .. Len(source.history) /\ n >= 1
    BY <1>1 DEF History
  <2>3. Len(target.history) = n /\ target.history[1] = source.history[1]
    BY <1>1, <2>1, <2>2, PrefixIsHistory
  <2>4. source.history # <<>> /\ target.history # <<>>
    BY <1>1, <2>2, <2>3 DEF History
  <2> QED
    BY <2>3, <2>4 DEF FirstRoot
<1>4. CASE /\ target.history = <<>> /\ source.history # <<>>
           /\ source.history[1].input = target.root
  BY <1>4 DEF FirstRoot
<1> QED
  BY <1>2, <1>3, <1>4 DEF DescendsFrom

(***************************************************************************)
(* The committed store, and the store as its writer sees it: with the      *)
(* writer's own histories added, replayable too, and the writer's state    *)
(* one of them that begins where its branch begins.                        *)
(***************************************************************************)
StoreInv ==
    /\ WellFormed(histories)
    /\ BranchesRecorded
    /\ branches[Main] # None /\ FirstRoot(branches[Main]) = EmptyRoot

WorkInv ==
    writer # None =>
        /\ WellFormed(Recorded)
        /\ HistoryMatchesRoot(work.state, Recorded)
        /\ FirstRoot(work.state) = FirstRoot(work.start)

Inv == TypeOK /\ WriterInv /\ StoreInv /\ WorkInv

(***************************************************************************)
(* A pointer operation leads its branch to a recorded state, and main to   *)
(* one that starts at the empty program.                                   *)
(***************************************************************************)
LEMMA PointerMoves ==
    ASSUME Inv, NEW s \in Sessions, PointerStep(s), UNCHANGED branches => FALSE
    PROVE  \E to :
             /\ branches' = [branches EXCEPT ![req[s].branch] = to]
             /\ to # None => HistoryMatchesRoot(to, histories)
             /\ req[s].branch = Main => to # None /\ FirstRoot(to) = EmptyRoot
<1> USE DEF Refuse, MovePointer, Inv
<1>1. CASE CreateBranch(s)
  <2>1. /\ branches[req[s].branch] = None
        /\ HistoryMatchesRoot(seen[s], histories)
        /\ branches' = [branches EXCEPT ![req[s].branch] = seen[s]]
    BY <1>1 DEF CreateBranch, SourceMatches
  <2> QED
    BY <2>1 DEF StoreInv
<1>2. CASE FastForward(s)
  <2>1. /\ branches[req[s].branch] # None
        /\ HistoryMatchesRoot(seen[s], histories)
        /\ DescendsFrom(seen[s], branches[req[s].branch])
        /\ branches' = [branches EXCEPT ![req[s].branch] = seen[s]]
        /\ pc[s] = "fast_forward"
    BY <1>2 DEF FastForward, SourceMatches, SourceDescends
  <2>2. /\ seen[s] \in BranchState /\ seen[s] # None
        /\ branches[req[s].branch] \in BranchState
    BY <2>1, RequestTyped DEF TypeOK
  <2>3. FirstRoot(seen[s]) = FirstRoot(branches[req[s].branch])
    BY <2>1, <2>2, DescentKeepsFirstRoot
  <2> QED
    BY <2>1, <2>2, <2>3 DEF StoreInv
<1>3. CASE DeleteBranch(s)
  <2>1. /\ pc[s] = "delete" /\ req[s].branch # Main
        /\ branches' = [branches EXCEPT ![req[s].branch] = None]
    BY <1>3 DEF DeleteBranch, RefusesMain
  <2> QED
    BY <2>1
<1> QED
  BY <1>1, <1>2, <1>3 DEF PointerStep

(***************************************************************************)
(* The committed store stays well formed.                                  *)
(***************************************************************************)
LEMMA StoreInvStep == Inv /\ [Next]_vars => StoreInv'
<1> SUFFICES ASSUME Inv, [Next]_vars PROVE StoreInv'
  OBVIOUS
<1> USE DEF Inv
<1>1. CASE UNCHANGED store
  BY <1>1 DEF store, StoreInv, BranchesRecorded
<1>2. ASSUME NEW s \in Sessions, PointerStep(s), ~UNCHANGED branches
      PROVE  StoreInv'
  <2>1. PICK to : /\ branches' = [branches EXCEPT ![req[s].branch] = to]
                  /\ to # None => HistoryMatchesRoot(to, histories)
                  /\ req[s].branch = Main => to # None /\ FirstRoot(to) = EmptyRoot
    BY <1>2, PointerMoves
  <2>2. histories' = histories
    BY <1>2, PointerSteps
  <2>3. \A b \in Branches : branches'[b] = IF b = req[s].branch THEN to ELSE branches[b]
    BY <2>1 DEF TypeOK
  <2>4. BranchesRecorded'
    BY <2>1, <2>2, <2>3 DEF StoreInv, BranchesRecorded
  <2>5. branches'[Main] # None /\ FirstRoot(branches'[Main]) = EmptyRoot
    BY <2>1, <2>3, BranchesAssumption DEF StoreInv
  <2> QED
    BY <2>2, <2>4, <2>5 DEF StoreInv
<1>3. ASSUME NEW s \in Sessions, Commit(s) PROVE StoreInv'
  <2>1. /\ writer = s /\ s # None /\ pc[s] = "apply"
        /\ branches' = [branches EXCEPT ![req[s].branch] = work.state]
        /\ histories' = Recorded
    BY <1>3, SessionsAssumption DEF Commit, Done, Recorded
  <2>2. WellFormed(histories')
    BY <2>1 DEF WorkInv
  <2>3. \A b \in Branches :
          branches'[b] = IF b = req[s].branch THEN work.state ELSE branches[b]
    BY <2>1 DEF TypeOK
  <2>4. BranchesRecorded'
    <3>1. HistoryMatchesRoot(work.state, histories')
      BY <2>1 DEF WorkInv
    <3>2. \A state : HistoryMatchesRoot(state, histories)
                       => HistoryMatchesRoot(state, histories')
      BY <2>1 DEF HistoryMatchesRoot, Recorded
    <3> QED
      BY <2>3, <3>1, <3>2 DEF BranchesRecorded, StoreInv
  <2>5. branches'[Main] # None /\ FirstRoot(branches'[Main]) = EmptyRoot
    <3>1. CASE req[s].branch = Main
      <4>1. branches[Main] = work.start
        BY <2>1, <3>1 DEF WriterInv, WriterSeesLatest
      <4>2. FirstRoot(work.state) = EmptyRoot /\ work.state # None
        BY <2>1, <4>1, WriterTyped DEF WorkInv, StoreInv
      <4> QED
        BY <2>3, <3>1, <4>2, BranchesAssumption
    <3>2. CASE req[s].branch # Main
      BY <2>3, <3>2, BranchesAssumption DEF StoreInv
    <3> QED
      BY <3>1, <3>2
  <2> QED
    BY <2>2, <2>4, <2>5 DEF StoreInv
<1>4. ASSUME NEW s \in Sessions, Begin(s) \/ Crash(s) PROVE UNCHANGED store
  BY <1>4 DEF Begin, Crash
<1>5. ASSUME NEW s \in Sessions, ApplyStep(s) PROVE UNCHANGED store \/ Commit(s)
  BY <1>5, WriterSteps
<1>6. ASSUME NEW s \in Sessions, PointerStep(s), UNCHANGED branches
      PROVE  UNCHANGED store
  BY <1>6, PointerSteps DEF store
<1> QED
  BY <1>1, <1>2, <1>3, <1>4, <1>5, <1>6, StoreSteps DEF store

(***************************************************************************)
(* The store as its writer sees it stays well formed.                      *)
(***************************************************************************)
LEMMA WorkInvStep == Inv /\ [Next]_vars => WorkInv'
<1> SUFFICES ASSUME Inv, [Next]_vars, writer' # None PROVE WorkInv'
  BY DEF WorkInv
<1> USE DEF Inv
<1>1. CASE UNCHANGED <<store, writer, work>>
  BY <1>1 DEF store, WorkInv, Recorded
<1>2. ASSUME NEW s \in Sessions, Begin(s) PROVE WorkInv'
  <2>1. /\ branches[req[s].branch] # None
        /\ work' = [start |-> branches[req[s].branch],
                    state |-> branches[req[s].branch],
                    added |-> {}, next |-> 1, applied |-> FALSE]
        /\ histories' = histories /\ pc[s] = "begin"
    BY <1>2 DEF Begin, LockFree, store
  <2>2. Recorded' = histories
    BY <2>1 DEF Recorded
  <2>3. HistoryMatchesRoot(branches[req[s].branch], histories)
    BY <2>1, RequestTyped DEF StoreInv, BranchesRecorded
  <2> QED
    BY <2>1, <2>2, <2>3 DEF WorkInv, StoreInv
<1>3. ASSUME NEW s \in Sessions, ApplyCall(s) PROVE WorkInv'
  <2>1. /\ writer = s /\ s # None /\ pc[s] = "apply" /\ InCall(s)
        /\ CallOp(s) # None /\ histories' = histories
        /\ Applies(CallOp(s), work.state.root)
        /\ work' = RecordMigration(work, Apply(CallOp(s), work.state.root))
    BY <1>3, SessionsAssumption DEF ApplyCall, InCall, store
  <2>2. /\ work \in Work /\ Recorded \in SUBSET (History \ {<<>>})
        /\ WellFormed(Recorded) /\ HistoryMatchesRoot(work.state, Recorded)
    BY <2>1, WriterTyped DEF Recorded, TypeOK, WorkInv
  <2>3. CallOp(s) \in Ops
    BY <2>1, CallTyped, InCallTyped
  <2>4. /\ work'.start = work.start
        /\ work'.state.history \in History \ {<<>>}
        /\ work'.added = work.added \cup {work'.state.history}
        /\ WellFormed(Recorded \cup {work'.state.history})
        /\ OutputRoot(work'.state.history) = work'.state.root
        /\ FirstRoot(work'.state) = FirstRoot(work.state)
    <3>1. work' \in {RecordMigration(work, Apply(CallOp(s), work.state.root))}
      BY <2>1
    <3>2. Applies(CallOp(s), work.state.root)
      BY <2>1
    <3> QED
      BY <2>2, <2>3, <3>1, <3>2, RecordKeeps
  <2>5. Recorded' = Recorded \cup {work'.state.history}
    BY <2>1, <2>4 DEF Recorded
  <2> QED
    BY <2>1, <2>4, <2>5 DEF WorkInv, HistoryMatchesRoot
<1>4. ASSUME NEW s \in Sessions, SkipCall(s) PROVE WorkInv'
  <2>1. writer = s /\ s # None /\ histories' = histories
    BY <1>4, SessionsAssumption DEF SkipCall, InCall, store
  <2>2. work'.start = work.start /\ work'.state = work.state /\ work'.added = work.added
    BY <1>4, <2>1, WriterTyped DEF SkipCall, Work
  <2> QED
    BY <2>1, <2>2 DEF WorkInv, Recorded
<1>5. ASSUME NEW s \in Sessions, PointerStep(s) \/ (Crash(s) /\ writer = s)
      PROVE  FALSE
  BY <1>5, PointerSteps DEF Crash, LockFree
<1>6. ASSUME NEW s \in Sessions, ApplyStep(s) PROVE ApplyCall(s) \/ SkipCall(s)
  BY <1>6, WriterSteps
<1> QED
  BY <1>1, <1>2, <1>3, <1>4, <1>5, <1>6, StoreSteps

(***************************************************************************)
(* A new database satisfies the invariant.                                 *)
(***************************************************************************)
LEMMA InvInit == Init => Inv
<1> SUFFICES ASSUME Init PROVE Inv
  OBVIOUS
<1>1. TypeOK
  BY TypeInit
<1>2. WriterInv /\ WorkInv
  BY DEF Init, WriterInv, WorkInv
<1>3. StoreInv
  <2>1. branches[Main] = [root |-> EmptyRoot, history |-> <<>>]
    BY BranchesAssumption DEF Init
  <2>2. branches[Main] \in BranchState
    BY <2>1, RootsAssumption, EmptyIsHistory DEF BranchState
  <2>3. BranchesRecorded
    BY DEF Init, BranchesRecorded, HistoryMatchesRoot
  <2> QED
    BY <2>1, <2>2, <2>3, NoneAssumption DEF Init, StoreInv, WellFormed, FirstRoot
<1> QED
  BY <1>1, <1>2, <1>3 DEF Inv

(***************************************************************************)
(* The four parts of the invariant together.                               *)
(***************************************************************************)
LEMMA InvStep == Inv /\ [Next]_vars => Inv'
  BY TypeStep, WriterInvStep, StoreInvStep, WorkInvStep DEF Inv

(***************************************************************************)
(* The invariant that the theorems below share.                            *)
(***************************************************************************)
LEMMA Invariance == Spec => []Inv
  BY InvInit, InvStep, PTL DEF Spec

(***************************************************************************)
(* Every history in the database replays, whatever was rolled back or      *)
(* killed on the way (migrations.rs, replay and import_history rely on     *)
(* it).                                                                    *)
(***************************************************************************)
THEOREM EveryHistoryReplays == Spec => []HistoriesReplay
<1>1. Inv => HistoriesReplay
  BY DEF Inv, TypeOK, StoreInv, WellFormed, HistoriesReplay
<1> QED
  BY <1>1, Invariance, PTL

(***************************************************************************)
(* A branch points at a recorded history and at the root it outputs        *)
(* (store.rs, ensure_history_matches_root).                                *)
(***************************************************************************)
THEOREM BranchesAreRecorded == Spec => []BranchesRecorded
<1>1. Inv => BranchesRecorded
  BY DEF Inv, StoreInv
<1> QED
  BY <1>1, Invariance, PTL

(***************************************************************************)
(* Main is there and replays from the empty program, wherever it was       *)
(* fast-forwarded to (migrations.rs, replay_main_branch).                  *)
(***************************************************************************)
THEOREM MainIsReplayable == Spec => []MainReplays
<1>1. Inv => MainReplays
  BY DEF Inv, StoreInv, FirstRoot, MainReplays
<1> QED
  BY <1>1, Invariance, PTL

-----------------------------------------------------------------------------
(* Recorded responses.                                                     *)

(***************************************************************************)
(* A step keeps every recorded response.                                   *)
(***************************************************************************)
LEMMA ResponsesKept ==
    ASSUME TypeOK, [Next]_vars, NEW id \in Ids, transactions[id] # None
    PROVE  transactions'[id] = transactions[id]
<1>1. CASE UNCHANGED transactions
  BY <1>1
<1>2. ASSUME NEW s \in Sessions, Commit(s)
      PROVE  transactions'[id] = transactions[id]
  BY <1>2 DEF Commit, RecordResponse, TypeOK
<1>3. ASSUME NEW s \in Sessions, Begin(s) \/ Crash(s) PROVE UNCHANGED transactions
  BY <1>3 DEF Begin, Crash, store
<1>4. ASSUME NEW s \in Sessions, PointerStep(s) PROVE UNCHANGED transactions
  BY <1>4, PointerSteps
<1>5. ASSUME NEW s \in Sessions, ApplyStep(s)
      PROVE  UNCHANGED transactions \/ Commit(s)
  BY <1>5, WriterSteps DEF store
<1> QED
  BY <1>1, <1>2, <1>3, <1>4, <1>5, StoreSteps DEF store

(***************************************************************************)
(* A recorded response is never replaced or lost (store.rs,                *)
(* record_workspace_transaction_response, ON CONFLICT DO NOTHING).         *)
(***************************************************************************)
THEOREM ResponsesStay == Spec => RecordedResponsesStay
<1>1. TypeOK /\ [Next]_vars => [KeepsResponses]_vars
  BY ResponsesKept DEF KeepsResponses
<1> QED
  BY <1>1, TypeCorrect, PTL DEF Spec, RecordedResponsesStay

-----------------------------------------------------------------------------
(* The workspace implements the branch store.                              *)

(***************************************************************************)
(* The writer's batch extends the state it started from by exactly the     *)
(* histories it added.                                                     *)
(***************************************************************************)
NewPrefixes(new, old) ==
    {SubSeq(new.history, 1, n) : n \in Len(old.history) + 1 .. Len(new.history)}

BatchInv ==
    writer # None =>
        /\ work.added = NewPrefixes(work.state, work.start)
        /\ IF work.applied THEN Extends(work.state, work.start)
           ELSE work.state = work.start

Grown(state, m) == Append(state.history, m)

(***************************************************************************)
(* A batch with one more migration extends the state it started from.      *)
(***************************************************************************)
LEMMA BatchGrows ==
    ASSUME NEW old \in BranchState, NEW state \in BranchState,
           Extends(state, old) \/ state = old,
           NEW m \in Migration, m.input = state.root,
           NEW new \in BranchState, new.history = Grown(state, m),
           Replays(new.history), OutputRoot(new.history) = new.root
    PROVE  /\ Extends(new, old)
           /\ NewPrefixes(new, old) = NewPrefixes(state, old) \cup {new.history}
<1> DEFINE h == state.history
           g == new.history
           n == Len(old.history)
<1>1. h \in History /\ old.history \in History /\ g \in History
  BY DEF BranchState
<1>2. Len(h) \in Nat /\ n \in Nat /\ Len(g) \in Nat
  BY <1>1 DEF History
<1>3. /\ Len(g) = Len(h) + 1 /\ g[Len(h) + 1] = m
      /\ \A i \in 1 .. Len(h) : g[i] = h[i]
  BY <1>1, AppendHistory DEF Grown
<1>4. \A i \in 0 .. Len(h) : SubSeq(g, 1, i) = SubSeq(h, 1, i)
  BY <1>1, PrefixOfAppend DEF Grown
<1>5. n <= Len(h) /\ SubSeq(h, 1, n) = old.history
  <2>1. CASE Extends(state, old)
    BY <1>2, <2>1 DEF Extends
  <2>2. CASE state = old
    BY <1>1, <1>2, <2>2, WholeIsPrefix
  <2> QED
    BY <2>1, <2>2
<1>6. g[n + 1].input = old.root
  <2>1. CASE Extends(state, old)
    BY <1>2, <1>3, <2>1 DEF Extends
  <2>2. CASE state = old
    BY <1>3, <2>2
  <2> QED
    BY <2>1, <2>2
<1>7. \A i \in n + 1 .. Len(g) : ReplaysAt(g, i)
  BY <1>2 DEF Replays
<1>8. SubSeq(g, 1, n) = old.history
  BY <1>2, <1>4, <1>5
<1>9. Extends(new, old)
  BY <1>2, <1>3, <1>5, <1>6, <1>7, <1>8 DEF Extends
<1>10. n + 1 .. Len(g) = (n + 1 .. Len(h)) \cup {Len(g)}
  BY <1>2, <1>3, <1>5
<1>11. SubSeq(g, 1, Len(g)) = g
  BY <1>1, WholeIsPrefix
<1>12. \A i \in n + 1 .. Len(h) : SubSeq(g, 1, i) = SubSeq(h, 1, i)
  BY <1>2, <1>4
<1>13. NewPrefixes(new, old) =
         {SubSeq(g, 1, i) : i \in (n + 1 .. Len(h)) \cup {Len(g)}}
  BY <1>10 DEF NewPrefixes
<1> QED
  BY <1>9, <1>11, <1>12, <1>13 DEF NewPrefixes

(***************************************************************************)
(* The writer's state and histories stay those of one batch on top of its  *)
(* start.                                                                  *)
(***************************************************************************)
LEMMA BatchInvStep == Inv /\ Inv' /\ BatchInv /\ [Next]_vars => BatchInv'
<1> SUFFICES ASSUME Inv, Inv', BatchInv, [Next]_vars, writer' # None
             PROVE  BatchInv'
  BY DEF BatchInv
<1> USE DEF Inv
<1>1. CASE UNCHANGED <<store, writer, work>>
  BY <1>1 DEF BatchInv
<1>2. ASSUME NEW s \in Sessions, Begin(s) PROVE BatchInv'
  <2>1. PICK state \in BranchState :
           work' = [start |-> state, state |-> state,
                    added |-> {}, next |-> 1, applied |-> FALSE]
    BY <1>2, RequestTyped DEF Begin, LockFree, TypeOK
  <2>2. Len(state.history) \in Nat
    BY DEF BranchState, History
  <2>3. NewPrefixes(state, state) = {}
    BY <2>2 DEF NewPrefixes
  <2> QED
    BY <2>1, <2>3 DEF BatchInv
<1>3. ASSUME NEW s \in Sessions, ApplyCall(s) PROVE BatchInv'
  <2> DEFINE m == Apply(CallOp(s), work.state.root)
  <2>1. /\ writer = s /\ s # None /\ pc[s] = "apply" /\ InCall(s)
        /\ CallOp(s) # None /\ Applies(CallOp(s), work.state.root)
        /\ work' = RecordMigration(work, m)
    BY <1>3, SessionsAssumption DEF ApplyCall, InCall
  <2>2. work \in Work /\ work.state \in BranchState /\ work.start \in BranchState
    BY <2>1, WriterTyped
  <2>3. m \in Migration /\ m.input = work.state.root
    BY <2>1, <2>2, CallTyped, InCallTyped, MigrationTyped DEF BranchState, Apply
  <2>4. /\ work'.start = work.start /\ work'.applied = TRUE
        /\ work'.added = work.added \cup {Append(work.state.history, m)}
        /\ work'.state = [root |-> m.output, history |-> Append(work.state.history, m)]
    BY <2>1, <2>2 DEF RecordMigration, Work
  <2>5. Append(work.state.history, m) \in History \ {<<>>}
    BY <2>2, <2>3, AppendHistory DEF BranchState
  <2>6. work'.state \in BranchState
    BY <2>3, <2>4, <2>5 DEF BranchState, Migration
  <2>7. /\ Replays(work'.state.history)
        /\ OutputRoot(work'.state.history) = work'.state.root
    BY <2>4, <2>5 DEF WorkInv, HistoryMatchesRoot, WellFormed
  <2>8. Extends(work.state, work.start) \/ work.state = work.start
    BY <2>1 DEF BatchInv
  <2>9. work.added = NewPrefixes(work.state, work.start)
    BY <2>1 DEF BatchInv
  <2> HIDE DEF m
  <2>10. work'.state.history = Grown(work.state, m)
    BY <2>4 DEF Grown
  <2>11. /\ Extends(work'.state, work.start)
         /\ NewPrefixes(work'.state, work.start) =
              NewPrefixes(work.state, work.start) \cup {work'.state.history}
    BY <2>2, <2>3, <2>6, <2>7, <2>8, <2>10, BatchGrows
  <2>12. work'.added = work.added \cup {work'.state.history}
    BY <2>4
  <2> QED
    BY <2>4, <2>9, <2>11, <2>12 DEF BatchInv
<1>4. ASSUME NEW s \in Sessions, SkipCall(s) PROVE BatchInv'
  <2>1. writer = s /\ s # None
    BY <1>4, SessionsAssumption DEF SkipCall, InCall
  <2>2. /\ work'.start = work.start /\ work'.state = work.state
        /\ work'.added = work.added /\ work'.applied = work.applied
    BY <1>4, <2>1, WriterTyped DEF SkipCall, Work
  <2> QED
    BY <2>1, <2>2 DEF BatchInv
<1>5. ASSUME NEW s \in Sessions, PointerStep(s) \/ (Crash(s) /\ writer = s)
      PROVE  FALSE
  BY <1>5, PointerSteps DEF Crash, LockFree
<1>6. ASSUME NEW s \in Sessions, ApplyStep(s) PROVE ApplyCall(s) \/ SkipCall(s)
  BY <1>6, WriterSteps
<1> QED
  BY <1>1, <1>2, <1>3, <1>4, <1>5, <1>6, StoreSteps

(***************************************************************************)
(* A transaction's work is always one batch on top of its start.           *)
(***************************************************************************)
LEMMA BatchInvariance == Spec => []BatchInv
<1>1. Init => BatchInv
  BY DEF Init, BatchInv
<1> QED
  BY <1>1, BatchInvStep, Invariance, PTL DEF Spec

(***************************************************************************)
(* The operators of the abstract store are those of the workspace.         *)
(***************************************************************************)
LEMMA SameStates ==
    /\ \A new, old : Extends(new, old) => Store!Extends(new, old)
    /\ \A state, known : HistoryMatchesRoot(state, known)
                           <=> Store!HistoryMatchesRoot(state, known)
    /\ \A new, old : DescendsFrom(new, old) <=> Store!DescendsFrom(new, old)
<1>1. ASSUME NEW new, NEW old, Extends(new, old) PROVE Store!Extends(new, old)
  BY <1>1
  DEF Extends, Store!Extends, ReplaysAt, Store!ReplaysAt, Applies, Store!Applies,
      Apply, Store!Apply, OutputRoot, Store!OutputRoot
<1>2. ASSUME NEW state, NEW known
      PROVE  HistoryMatchesRoot(state, known)
               <=> Store!HistoryMatchesRoot(state, known)
  BY DEF HistoryMatchesRoot, Store!HistoryMatchesRoot, OutputRoot, Store!OutputRoot
<1>3. ASSUME NEW new, NEW old
      PROVE  DescendsFrom(new, old) <=> Store!DescendsFrom(new, old)
  BY DEF DescendsFrom, Store!DescendsFrom, Ancestors, Store!Ancestors
<1> QED
  BY <1>1, <1>2, <1>3

(***************************************************************************)
(* COMMIT of a batch is the abstract store's Commit.                       *)
(***************************************************************************)
LEMMA CommitRefines ==
    ASSUME Inv, BatchInv, NEW s \in Sessions, Commit(s)
    PROVE  Store!Next
<1> DEFINE b == req[s].branch
<1>1. /\ writer = s /\ s # None /\ pc[s] = "apply" /\ work.applied
      /\ branches' = [branches EXCEPT ![b] = work.state]
      /\ histories' = histories \cup work.added
  BY SessionsAssumption DEF Commit, Done
<1>2. b \in Branches /\ work.state # None /\ work.start # None
  BY <1>1, RequestTyped, WriterTyped DEF Inv
<1>3. branches[b] = work.start /\ branches'[b] = work.state
  BY <1>1, <1>2 DEF Inv, WriterInv, WriterSeesLatest, TypeOK
<1>4. Extends(work.state, work.start)
      /\ work.added = NewPrefixes(work.state, work.start)
  BY <1>1 DEF BatchInv
<1>5. Store!Extends(branches'[b], branches[b])
  BY <1>3, <1>4, SameStates
<1>6. Store!Commit(b, branches'[b])
  BY <1>1, <1>2, <1>3, <1>4, <1>5 DEF Store!Commit, NewPrefixes
<1> QED
  BY <1>2, <1>6 DEF Store!Next

(***************************************************************************)
(* The branch methods are the abstract store's pointer actions, or change  *)
(* nothing.                                                                *)
(***************************************************************************)
LEMMA PointerRefines ==
    ASSUME Inv, NEW s \in Sessions, PointerStep(s)
    PROVE  Store!Next \/ UNCHANGED <<branches, histories>>
<1> SUFFICES ASSUME ~UNCHANGED branches PROVE Store!Next
  BY PointerSteps DEF Inv
<1> USE DEF Inv, Refuse, MovePointer
<1> DEFINE b == req[s].branch
<1>1. b \in Branches /\ histories' = histories
  BY PointerSteps, RequestTyped
<1>2. CASE CreateBranch(s)
  <2>1. /\ pc[s] = "create" /\ branches[b] = None
        /\ HistoryMatchesRoot(seen[s], histories)
        /\ branches' = [branches EXCEPT ![b] = seen[s]]
    BY <1>2 DEF CreateBranch, SourceMatches
  <2>2. seen[s] # None /\ branches'[b] = seen[s]
    BY <1>1, <2>1 DEF TypeOK
  <2>3. Store!CreateBranch(b, branches'[b])
    BY <1>1, <2>1, <2>2, SameStates DEF Store!CreateBranch
  <2> QED
    BY <1>1, <2>3 DEF Store!Next
<1>3. CASE FastForward(s)
  <2>1. /\ pc[s] = "fast_forward" /\ branches[b] # None
        /\ HistoryMatchesRoot(seen[s], histories)
        /\ DescendsFrom(seen[s], branches[b])
        /\ branches' = [branches EXCEPT ![b] = seen[s]]
    BY <1>3 DEF FastForward, SourceMatches, SourceDescends
  <2>2. seen[s] # None /\ branches'[b] = seen[s]
    BY <1>1, <2>1 DEF TypeOK
  <2>3. Store!FastForward(b, branches'[b])
    BY <1>1, <2>1, <2>2, SameStates DEF Store!FastForward
  <2> QED
    BY <1>1, <2>3 DEF Store!Next
<1>4. CASE DeleteBranch(s)
  <2>1. /\ pc[s] = "delete" /\ b # Main /\ branches[b] # None
        /\ branches' = [branches EXCEPT ![b] = None]
    BY <1>4 DEF DeleteBranch, RefusesMain
  <2>2. Store!DeleteBranch(b)
    BY <1>1, <2>1 DEF Store!DeleteBranch
  <2> QED
    BY <1>1, <2>2 DEF Store!Next
<1> QED
  BY <1>2, <1>3, <1>4 DEF PointerStep

(***************************************************************************)
(* Every step is a step of the abstract store or leaves it alone.          *)
(***************************************************************************)
LEMMA StepRefines ==
    Inv /\ BatchInv /\ [Next]_vars => [Store!Next]_(Store!vars)
<1> SUFFICES ASSUME Inv, BatchInv, [Next]_vars
             PROVE  Store!Next \/ UNCHANGED <<branches, histories>>
  BY DEF Store!vars
<1>1. CASE UNCHANGED store
  BY <1>1 DEF store
<1>2. ASSUME NEW s \in Sessions, Begin(s) \/ Crash(s) PROVE UNCHANGED store
  BY <1>2 DEF Begin, Crash
<1>3. ASSUME NEW s \in Sessions, ApplyStep(s) PROVE UNCHANGED store \/ Commit(s)
  BY <1>3, WriterSteps DEF Inv
<1>4. ASSUME NEW s \in Sessions, PointerStep(s)
      PROVE  Store!Next \/ UNCHANGED <<branches, histories>>
  BY <1>4, PointerRefines
<1>5. ASSUME NEW s \in Sessions, Commit(s) PROVE Store!Next
  BY <1>5, CommitRefines
<1>6. \/ UNCHANGED store
      \/ \E s \in Sessions : Begin(s) \/ ApplyStep(s) \/ PointerStep(s) \/ Crash(s)
  BY StoreSteps DEF Inv, store
<1> QED
  BY <1>1, <1>2, <1>3, <1>4, <1>5, <1>6

(***************************************************************************)
(* The store that the sessions share behaves as the abstract branch store: *)
(* readers observe whole batches, pointers that follow only recorded       *)
(* migrations, and histories that only grow.                               *)
(***************************************************************************)
THEOREM Refinement == Spec => ImplementsBranchStore
<1>1. Init => Store!Init
  BY DEF Init, Store!Init
<1> QED
  BY <1>1, BatchInvariance, StepRefines, Invariance, PTL
  DEF Spec, ImplementsBranchStore, Store!Spec

(***************************************************************************)
(* What the workspace tells its clients: a response is recorded exactly    *)
(* for committed work, and an answer agrees with carrying the operations   *)
(* of the request out one after the other.                                 *)
(***************************************************************************)
Rests(s) ==
    /\ pc'[s] = pc[s] /\ req'[s] = req[s]
    /\ result'[s] = result[s] /\ resp'[s] = resp[s]

(***************************************************************************)
(* A step touches the locals of the session that takes it and no others.   *)
(***************************************************************************)
LEMMA OthersRest ==
    ASSUME TypeOK, NEW t \in Sessions, NEW s \in Sessions, s # t,
           Receive(t) \/ Serve(t) \/ Crash(t)
    PROVE  Rests(s)
<1> USE DEF TypeOK, Rests, locals
<1>1. CASE Receive(t)
  BY <1>1 DEF Receive
<1>2. CASE Crash(t)
  BY <1>2 DEF Crash, Goto
<1>3. CASE CacheLookup(t) \/ StaleLookup(t) \/ BusyTimeout(t) \/ MissLookup(t)
           \/ ErrorLookup(t) \/ CheckAbsent(t) \/ RefuseDeleteMain(t) \/ Show(t)
  BY <1>3
  DEF CacheLookup, StaleLookup, BusyTimeout, MissLookup, ErrorLookup,
      CheckAbsent, RefuseDeleteMain, Show, CachedAnswer, AnswerError, Answer, Goto
<1>4. CASE ReadSnapshot(t) \/ ReadAfter(t) \/ ReadSource(t) \/ Begin(t)
  BY <1>4
  DEF ReadSnapshot, ReadAfter, ReadSource, Begin, AnswerError, Answer, Goto
<1>5. CASE ApplyStep(t)
  BY <1>5
  DEF ApplyStep, ApplyCall, SkipCall, ConflictCall, FailCall, Discard,
      Commit, CommitFails, Leave, AnswerError, Answer, Goto
<1>6. CASE PointerStep(t)
  <2>1. req' = req
    BY <1>6, PointerSteps
  <2>2. \/ \E kind \in Kinds, shown \in Branches : Refuse(t, kind, shown)
        \/ \E st \in Statuses, to \in BranchState \cup {None} :
             MovePointer(t, st, to)
    BY <1>6, PointerSteps
  <2> QED
    BY <2>1, <2>2 DEF Refuse, MovePointer, AnswerError, Answer, Goto
<1> QED
  BY <1>1, <1>2, <1>3, <1>4, <1>5, <1>6 DEF Serve, PointerStep

(***************************************************************************)
(* So a session rests, is given a request, serves it or dies.              *)
(***************************************************************************)
LEMMA SessionSteps ==
    ASSUME TypeOK, [Next]_vars, NEW s \in Sessions
    PROVE  Rests(s) \/ Receive(s) \/ Serve(s) \/ Crash(s)
<1>1. CASE UNCHANGED vars
  BY <1>1 DEF vars, Rests, locals
<1>2. CASE Next
  BY <1>2, OthersRest DEF Next
<1> QED
  BY <1>1, <1>2

Unsuccessful == {"conflict", "stale_root", "error"}

(***************************************************************************)
(* How a transaction ends: with a result that says it was rolled back, or  *)
(* with what it did, discarded or committed; or its COMMIT fails.          *)
(***************************************************************************)
LEMMA Endings ==
    ASSUME TypeOK, NEW s \in Sessions, ApplyStep(s)
    PROVE  \/ UNCHANGED <<pc, req, result, resp>> /\ (ApplyCall(s) \/ SkipCall(s))
           \/ \E st \in Unsuccessful : Leave(s, RolledBack(st))
           \/ Discard(s) /\ Leave(s, Finished)
           \/ Commit(s) /\ Leave(s, Finished)
           \/ CommitFails(s) /\ UNCHANGED <<req, result>>
  BY DEF ApplyStep, ApplyCall, SkipCall, ConflictCall, FailCall, Discard, Commit,
         CommitFails, Unsuccessful, locals
(***************************************************************************)
(* What the other steps of a request do for its session: it is refused,    *)
(* gets a recorded response again, gets the result of its transaction,     *)
(* goes on, or has moved a pointer.                                        *)
(***************************************************************************)
Outcomes == {"after", "miss_lookup", "error_lookup"}

Refused(s) == pc'[s] = "idle" /\ resp'[s].kind # "ok"

Repeated(s) ==
    /\ pc'[s] = "idle"
    /\ req[s].id \in Ids /\ transactions[req[s].id] # None
    /\ transactions[req[s].id].request = req[s]
    /\ resp'[s].result = transactions[req[s].id].result

Reported(s) ==
    /\ pc[s] \in Outcomes \cup {"show"} /\ pc'[s] = "idle"
    /\ resp'[s].result = result[s]

Continued(s) ==
    /\ result'[s] = result[s] /\ resp'[s] = resp[s]
    /\ pc'[s] \notin {"after", "show"}
    /\ pc'[s] \in Outcomes => pc[s] \in Outcomes

Moved(s) ==
    /\ pc'[s] = "show" /\ resp'[s] = resp[s]
    /\ result'[s].status \notin {"applied", "already_applied"}

(***************************************************************************)
(* An error is no ok answer.                                               *)
(***************************************************************************)
LEMMA ErrorRefuses ==
    ASSUME TypeOK, NEW s \in Sessions, NEW kind, kind # "ok", NEW main,
           AnswerError(s, kind, main)
    PROVE  Refused(s)
  BY DEF AnswerError, Answer, TypeOK, Refused

(***************************************************************************)
(* An answer from the table of recorded responses.                         *)
(***************************************************************************)
LEMMA CachedRepeats ==
    ASSUME TypeOK, NEW s \in Sessions, pc[s] # "idle", CachedAnswer(s)
    PROVE  Refused(s) \/ Repeated(s)
<1>1. req[s].id # None /\ req[s].id \in Ids /\ transactions[req[s].id] # None
  BY RequestTyped DEF CachedAnswer, Cached
<1>2. CASE transactions[req[s].id].request = req[s]
  BY <1>1, <1>2 DEF CachedAnswer, Cached, Answer, Repeated, TypeOK
<1>3. CASE transactions[req[s].id].request # req[s]
  BY <1>1, <1>3, ErrorRefuses DEF CachedAnswer, Cached
<1> QED
  BY <1>2, <1>3

(***************************************************************************)
(* Every step of a request outside its transaction is one of the five.     *)
(***************************************************************************)
LEMMA Replies ==
    ASSUME TypeOK, NEW s \in Sessions, Serve(s), ~ApplyStep(s)
    PROVE  /\ req'[s] = req[s]
           /\ Refused(s) \/ Repeated(s) \/ Reported(s) \/ Continued(s) \/ Moved(s)
<1> USE DEF TypeOK, locals, Goto, Outcomes
<1>1. CASE CacheLookup(s)
  BY <1>1, CachedRepeats DEF CacheLookup, Continued
<1>2. CASE ReadSnapshot(s)
  BY <1>2, ErrorRefuses DEF ReadSnapshot, Continued
<1>3. CASE StaleLookup(s)
  BY <1>3, CachedRepeats DEF StaleLookup, Answer, Refused
<1>4. CASE Begin(s)
  BY <1>4, ErrorRefuses DEF Begin, Continued
<1>5. CASE BusyTimeout(s)
  BY <1>5, ErrorRefuses DEF BusyTimeout
<1>6. CASE ReadAfter(s)
  <2>1. CASE req[s].kind = "ops.preview"
    BY <1>6, <2>1, ErrorRefuses DEF ReadAfter, Answer, Reported
  <2>2. CASE req[s].kind = "ops.apply" /\ result[s].status = "applied"
    BY <1>6, <2>2 DEF ReadAfter, Answer, Reported
  <2>3. CASE req[s].kind = "ops.apply" /\ result[s].status # "applied"
    BY <1>6, <2>3 DEF ReadAfter, Continued
  <2> QED
    BY <1>6, <2>1, <2>2, <2>3 DEF ReadAfter
<1>7. CASE MissLookup(s)
  BY <1>7, CachedRepeats DEF MissLookup, Answer, Reported, Continued
<1>8. CASE ErrorLookup(s)
  BY <1>8, CachedRepeats DEF ErrorLookup, Answer, Reported
<1>9. CASE CheckAbsent(s)
  BY <1>9, ErrorRefuses DEF CheckAbsent, Continued
<1>10. CASE ReadSource(s)
  BY <1>10, ErrorRefuses DEF ReadSource, Continued
<1>11. CASE RefuseDeleteMain(s)
  BY <1>11, ErrorRefuses DEF RefuseDeleteMain
<1>12. CASE Show(s)
  BY <1>12, ErrorRefuses DEF Show, Answer, Reported
<1>13. CASE PointerStep(s)
  <2>1. req' = req
    BY <1>13, PointerSteps
  <2>2. ASSUME NEW kind, kind # "ok", NEW shown, Refuse(s, kind, shown)
        PROVE  Refused(s)
    BY <2>2 DEF Refuse, Answer, Refused
  <2>3. ASSUME NEW st, st \notin {"applied", "already_applied"}, NEW to,
               MovePointer(s, st, to)
        PROVE  Refused(s) \/ Moved(s)
    BY <2>3, ErrorRefuses DEF MovePointer, Moved
  <2>4. CASE CreateBranch(s)
    BY <2>2, <2>3, <2>4 DEF CreateBranch
  <2>5. CASE FastForward(s)
    BY <2>2, <2>3, <2>5 DEF FastForward
  <2>6. CASE DeleteBranch(s)
    BY <2>2, <2>3, <2>6 DEF DeleteBranch
  <2> QED
    BY <1>13, <2>1, <2>4, <2>5, <2>6 DEF PointerStep
<1> QED
  BY <1>1, <1>2, <1>3, <1>4, <1>5, <1>6, <1>7, <1>8, <1>9, <1>10, <1>11, <1>12,
     <1>13
  DEF Serve, PointerStep

(***************************************************************************)
(* A session that is given a request, or dies, has nothing to report.      *)
(***************************************************************************)
LEMMA StartsAfresh ==
    ASSUME TypeOK, NEW s \in Sessions, Receive(s) \/ Crash(s)
    PROVE  /\ pc'[s] \notin Outcomes \cup {"show"}
           /\ resp'[s] = None \/ (resp'[s] = resp[s] /\ req'[s] = req[s])
<1>1. CASE Crash(s)
  BY <1>1 DEF Crash, Goto, TypeOK, Outcomes, locals
<1>2. CASE Receive(s)
  <2>1. PICK r \in Requests : pc' = [pc EXCEPT ![s] = Entry[r.kind]]
    BY <1>2 DEF Receive
  <2>2. Entry[r.kind] \in {"lookup", "exists", "source", "delete", "begin"}
    BY RequestsAssumption DEF Entry, Request, ApplyKinds, BranchKinds
  <2> QED
    BY <1>2, <2>1, <2>2 DEF Receive, TypeOK, Outcomes
<1> QED
  BY <1>1, <1>2

-----------------------------------------------------------------------------
(* Recorded responses.                                                     *)

(***************************************************************************)
(* COMMIT makes the history that its response names one of the database's. *)
(***************************************************************************)
LEMMA CommittedHistory ==
    ASSUME Inv, BatchInv, NEW s \in Sessions, Commit(s)
    PROVE  work.state.history \in histories'
<1>1. writer = s /\ s # None /\ work.applied /\ histories' = Recorded
  BY SessionsAssumption DEF Commit, Done, Recorded
<1>2. work.state.history # <<>>
  <2>1. work.state \in BranchState /\ work.start \in BranchState
    BY <1>1, WriterTyped DEF Inv
  <2>2. Len(work.state.history) > Len(work.start.history)
    BY <1>1 DEF BatchInv, Extends
  <2> QED
    BY <2>1, <2>2 DEF BranchState, History
<1> QED
  BY <1>1, <1>2 DEF Inv, WorkInv, HistoryMatchesRoot

(***************************************************************************)
(* The hook records the response of the transaction it is in, unless the   *)
(* same request has one.                                                   *)
(***************************************************************************)
LEMMA HookRecords ==
    ASSUME TypeOK, NEW s \in Sessions, Commit(s),
           req[s].kind = "ops.apply", req[s].id # None
    PROVE  transactions'[req[s].id] # None /\ transactions'[req[s].id].request = req[s]
<1>1. req[s].id \in Ids /\ pc[s] # "idle"
  BY RequestTyped DEF Commit, Done
<1>2. CASE transactions[req[s].id] = None
  <2> DEFINE row == [request |-> req[s], result |-> Finished, snapshot |-> work.state]
  <2>1. transactions' = [transactions EXCEPT ![req[s].id] = row]
    BY <1>2 DEF Commit, RecordResponse
  <2>2. transactions'[req[s].id] = row
    BY <1>1, <2>1 DEF TypeOK
  <2>3. row \in Row
    BY <1>1, ResultsTyped, RequestTyped, WriterTyped DEF Row, Commit, Done, Statuses
  <2> QED
    BY <2>2, <2>3, NoneAssumption
<1>3. CASE transactions[req[s].id] # None
  BY <1>1, <1>3 DEF Commit, RecordResponse, HookFails, Cached
<1> QED
  BY <1>2, <1>3

RowIsCommitted(id) ==
    transactions[id] # None =>
        /\ transactions[id].request.id = id
        /\ transactions[id].result.status = "applied"
        /\ transactions[id].result.to.history \in histories

ResultIsRecorded(s) ==
    /\ pc[s] = "after"
    /\ req[s].kind = "ops.apply" /\ req[s].id # None
    /\ result[s].status = "applied"
    => /\ transactions[req[s].id] # None
       /\ transactions[req[s].id].request = req[s]

(***************************************************************************)
(* A row is written by a COMMIT, with the history that it commits.         *)
(***************************************************************************)
LEMMA RowStep ==
    ASSUME Inv, BatchInv, [Next]_vars, NEW id \in Ids, RowIsCommitted(id)
    PROVE  RowIsCommitted(id)'
<1> USE DEF Inv, RowIsCommitted
<1>1. CASE UNCHANGED transactions /\ histories \subseteq histories'
  BY <1>1
<1>2. ASSUME NEW s \in Sessions, Commit(s) PROVE RowIsCommitted(id)'
  <2>1. histories \subseteq histories'
    BY <1>2 DEF Commit
  <2>2. CASE transactions'[id] = transactions[id]
    BY <2>1, <2>2
  <2>3. CASE transactions'[id] # transactions[id]
    <3>1. /\ id = req[s].id
          /\ transactions'[id] =
               [request |-> req[s], result |-> Finished, snapshot |-> work.state]
      BY <1>2, <2>3 DEF Commit, RecordResponse, TypeOK
    <3>2. work.applied /\ work.state.history \in histories'
      BY <1>2, CommittedHistory DEF Commit
    <3> QED
      BY <3>1, <3>2 DEF Finished
  <2> QED
    BY <2>2, <2>3
<1>3. ASSUME NEW s \in Sessions, Begin(s) \/ Crash(s) PROVE UNCHANGED store
  BY <1>3 DEF Begin, Crash
<1>4. ASSUME NEW s \in Sessions, PointerStep(s)
      PROVE  UNCHANGED <<transactions, histories>>
  BY <1>4, PointerSteps
<1>5. ASSUME NEW s \in Sessions, ApplyStep(s) PROVE UNCHANGED store \/ Commit(s)
  BY <1>5, WriterSteps
<1> QED
  BY <1>1, <1>2, <1>3, <1>4, <1>5, StoreSteps DEF store

(***************************************************************************)
(* A session that goes on to read its snapshot with work committed has     *)
(* recorded its response.                                                  *)
(***************************************************************************)
LEMMA AfterStep ==
    ASSUME TypeOK, TypeOK', [Next]_vars, NEW s \in Sessions, ResultIsRecorded(s)
    PROVE  ResultIsRecorded(s)'
<1> SUFFICES ASSUME pc'[s] = "after", req'[s].kind = "ops.apply",
                    req'[s].id # None, result'[s].status = "applied"
             PROVE  /\ transactions'[req'[s].id] # None
                    /\ transactions'[req'[s].id].request = req'[s]
  BY DEF ResultIsRecorded
<1>1. CASE Rests(s)
  <2>1. req[s].id \in Ids /\ transactions[req[s].id] # None
        /\ transactions[req[s].id].request = req[s]
    BY <1>1, RequestTyped DEF Rests, ResultIsRecorded
  <2> QED
    BY <1>1, <2>1, ResponsesKept DEF Rests
<1>2. CASE Receive(s) \/ Crash(s)
  BY <1>2, StartsAfresh DEF Outcomes
<1>3. CASE ApplyStep(s)
  <2>1. req' = req /\ pc[s] = "apply" /\ writer = s
    BY <1>3, WriterSteps
  <2>2. CASE UNCHANGED pc \/ CommitFails(s)
    BY <2>1, <2>2 DEF CommitFails, AnswerError, Answer, TypeOK
  <2>3. ASSUME NEW res, Leave(s, res) PROVE result'[s] = res
    BY <2>3 DEF Leave, TypeOK
  <2>4. ASSUME NEW st \in Unsuccessful, Leave(s, RolledBack(st)) PROVE FALSE
    BY <2>3, <2>4 DEF RolledBack, Unsuccessful
  <2>5. ASSUME Discard(s), Leave(s, Finished) PROVE FALSE
    BY <2>1, <2>3, <2>5 DEF Discard, Finished
  <2>6. CASE Commit(s)
    BY <2>1, <2>6, HookRecords
  <2> QED
    BY <1>3, <2>2, <2>4, <2>5, <2>6, Endings
<1>4. ASSUME Serve(s), ~ApplyStep(s) PROVE pc'[s] # "after"
  BY <1>4, Replies DEF Refused, Repeated, Reported, Continued, Moved
<1> QED
  BY <1>1, <1>2, <1>3, <1>4, SessionSteps

(***************************************************************************)
(* The response recorded for a request id stands for committed work, and   *)
(* committed work with a request id has its response recorded, whatever    *)
(* dies in between (api.rs, on_commit inside the transaction).             *)
(***************************************************************************)
THEOREM ResponsesAreCommitted == Spec => []RecordedIffCommitted
<1>1. Init => RecordedIffCommitted
  BY DEF Init, RecordedIffCommitted
<1>2. Inv /\ Inv' /\ BatchInv /\ RecordedIffCommitted /\ [Next]_vars
        => RecordedIffCommitted'
  <2> SUFFICES ASSUME Inv, Inv', BatchInv, RecordedIffCommitted, [Next]_vars
               PROVE  RecordedIffCommitted'
    OBVIOUS
  <2>1. \A id \in Ids : RowIsCommitted(id)'
    BY RowStep DEF RecordedIffCommitted, RowIsCommitted
  <2>2. \A s \in Sessions : ResultIsRecorded(s)'
    BY AfterStep DEF Inv, RecordedIffCommitted, ResultIsRecorded
  <2> QED
    BY <2>1, <2>2 DEF RecordedIffCommitted, RowIsCommitted, ResultIsRecorded
<1> QED
  BY <1>1, <1>2, Invariance, BatchInvariance, PTL DEF Spec

-----------------------------------------------------------------------------
(* A batch as its operations one after the other.                          *)

(***************************************************************************)
(* root is the roots that the first n operations of a request lead         *)
(* through.                                                                *)
(***************************************************************************)
Path(r, start, n, root) ==
    /\ root \in [0 .. n -> Roots]
    /\ root[0] = start
    /\ \A i \in 1 .. n : root[i] = SerialStep(r.calls[i], root[i - 1])

(***************************************************************************)
(* The last root of a path through all operations is the serial one.       *)
(***************************************************************************)
LEMMA PathIsSerial ==
    ASSUME NEW r, NEW C, r.calls \in Seq(C), NEW start, NEW root,
           Path(r, start, Len(r.calls), root)
    PROVE  SerialRoot(r, start) = root[Len(r.calls)]
<1> DEFINE N == Len(r.calls)
           Grow(f) == [n \in 0 .. N |->
                         IF n = 0 THEN start ELSE SerialStep(r.calls[n], f[n - 1])]
           serial == CHOOSE f : f = Grow(f)
<1>1. N \in Nat
  OBVIOUS
<1>2. root = Grow(root)
  BY <1>1 DEF Path
<1>3. serial = Grow(serial)
  BY <1>2
<1> DEFINE S == {n \in 0 .. N : serial[n] = root[n]}
<1> HIDE DEF serial
<1>4. 0 \in S
  BY <1>1, <1>2, <1>3
<1>5. \A k \in 1 .. N : k - 1 \in S => k \in S
  BY <1>1, <1>2, <1>3
<1>6. \A k \in 0 .. N : k \in S
  <2> HIDE DEF S, N
  <2> QED
    BY <1>1, <1>4, <1>5, BoundedInduction
<1>7. serial[N] = root[N]
  BY <1>1, <1>6
<1> QED
  BY <1>7 DEF SerialRoot, serial

(***************************************************************************)
(* The writer's state is where the operations it has been through lead.    *)
(***************************************************************************)
SerialSoFar ==
    writer # None =>
        LET r == req[writer]
            n == work.next - 1
        IN  /\ n <= Len(r.calls)
            /\ n = 0 => work.state = work.start
            /\ \E root : /\ Path(r, BatchStart(r, work.start), n, root)
                         /\ n > 0 => root[n] = work.state.root

(***************************************************************************)
(* A migration that the database or this transaction recorded is one that  *)
(* the operation takes from its input.                                     *)
(***************************************************************************)
LEMMA RecordedEffect ==
    ASSUME Inv, writer # None, NEW op, NEW input, NEW output,
           RecordedOutput(op, input, output)
    PROVE  input \in Pre[op] /\ Effect[op][input] = output
<1>1. PICK h \in Recorded :
         h[Len(h)] = [op |-> op, input |-> input, output |-> output]
  BY DEF RecordedOutput
<1>2. h \in History \ {<<>>} /\ Replays(h)
  BY <1>1, WriterTyped DEF Inv, WorkInv, WellFormed, Recorded, TypeOK
<1>3. ReplaysAt(h, Len(h))
  BY <1>2 DEF Replays, History
<1> QED
  BY <1>1, <1>3 DEF ReplaysAt, Applies, Apply

(***************************************************************************)
(* Carrying out an operation, or skipping it as done before, leads where   *)
(* the operation leads from the root it expects.                           *)
(***************************************************************************)
LEMMA CallIsSerial ==
    ASSUME Inv, NEW s \in Sessions, ApplyCall(s) \/ SkipCall(s),
           work.next = 1 => work.state = work.start,
           NEW root,
           root = IF work.next = 1 THEN BatchStart(req[s], work.start)
                  ELSE work.state.root
    PROVE  /\ work'.start = work.start /\ work'.next = work.next + 1
           /\ work'.state.root = SerialStep(req[s].calls[work.next], root)
<1> USE DEF Inv
<1>1. /\ writer = s /\ s # None /\ pc[s] = "apply" /\ InCall(s)
      /\ CallOp(s) # None /\ work \in Work
  BY SessionsAssumption, WriterTyped DEF ApplyCall, SkipCall, InCall
<1>2. req[s].calls # <<>> /\ work.next \in DOMAIN req[s].calls
  BY <1>1, InCallTyped, RequestTyped
<1> DEFINE call == req[s].calls[work.next]
           now == work.state.root
           op == CallOp(s)
<1>3. ExpectedRoot(s) = IF call.expect # None THEN call.expect ELSE root
  BY <1>2 DEF ExpectedRoot, BatchStart
<1>4. SerialStep(call, root) =
        IF ExpectedRoot(s) \in Pre[op] THEN Effect[op][ExpectedRoot(s)]
        ELSE ExpectedRoot(s)
  BY <1>3 DEF SerialStep, CallOp
<1>5. CASE ApplyCall(s)
  <2>1. ExpectedRoot(s) = now /\ now \in Pre[op]
    BY <1>5 DEF ApplyCall, PreconditionsHold
  <2>2. /\ work'.start = work.start /\ work'.next = work.next + 1
        /\ work'.state.root = Effect[op][now]
    BY <1>1, <1>5 DEF ApplyCall, RecordMigration, Apply, Work
  <2> QED
    BY <1>4, <2>1, <2>2
<1>6. CASE SkipCall(s)
  <2>1. /\ work'.start = work.start /\ work'.next = work.next + 1
        /\ work'.state.root = now
    BY <1>1, <1>6 DEF SkipCall, Work
  <2>2. CASE PreconditionsHold(s)
    BY <1>4, <1>6, <2>1, <2>2 DEF SkipCall, IsAlreadyApplied, PreconditionsHold
  <2>3. CASE ExpectedRoot(s) # now
    <3>1. RecordedOutput(op, ExpectedRoot(s), now)
      BY <1>6, <2>3 DEF SkipCall, IsAlreadyApplied, PreconditionsHold
    <3> QED
      BY <1>1, <1>4, <2>1, <3>1, RecordedEffect
  <2>4. CASE ~PreconditionsHold(s) /\ ExpectedRoot(s) = now
    BY <1>4, <2>1, <2>4 DEF PreconditionsHold
  <2> QED
    BY <2>2, <2>3, <2>4
<1> QED
  BY <1>5, <1>6

(***************************************************************************)
(* A path with one more operation.                                         *)
(***************************************************************************)
LEMMA PathExtends ==
    ASSUME NEW r, NEW start, NEW n \in Nat, NEW root, Path(r, start, n, root),
           NEW next \in Roots, next = SerialStep(r.calls[n + 1], root[n])
    PROVE  \E longer : Path(r, start, n + 1, longer) /\ longer[n + 1] = next
<1> DEFINE longer == [i \in 0 .. n + 1 |-> IF i = n + 1 THEN next ELSE root[i]]
<1>1. longer \in [0 .. n + 1 -> Roots]
  BY DEF Path
<1>2. longer[0] = start
  BY DEF Path
<1>3. \A i \in 1 .. n + 1 : longer[i] = SerialStep(r.calls[i], longer[i - 1])
  BY DEF Path
<1>4. longer[n + 1] = next
  OBVIOUS
<1> HIDE DEF longer
<1>5. Path(r, start, n + 1, longer)
  BY <1>1, <1>2, <1>3 DEF Path
<1> QED
  BY <1>4, <1>5

(***************************************************************************)
(* Every step of a transaction keeps to the serial path.                   *)
(***************************************************************************)
LEMMA SerialSoFarStep ==
    Inv /\ Inv' /\ SerialSoFar /\ [Next]_vars => SerialSoFar'
<1> SUFFICES ASSUME Inv, Inv', SerialSoFar, [Next]_vars, writer' # None
             PROVE  SerialSoFar'
  BY DEF SerialSoFar
<1> USE DEF Inv
<1>1. CASE UNCHANGED <<store, writer, work>>
  <2>1. writer \in Sessions /\ writer # None /\ pc[writer] = "apply"
    BY <1>1 DEF TypeOK, WriterInv
  <2>2. ~Crash(writer) /\ (ApplyStep(writer) => req' = req)
    BY <1>1, <2>1, WriterSteps DEF Crash
  <2>3. req'[writer] = req[writer]
    BY <2>1, <2>2, OtherSessions
  <2> QED
    BY <1>1, <2>1, <2>3 DEF SerialSoFar
<1>2. ASSUME NEW s \in Sessions, Begin(s) PROVE SerialSoFar'
  <2>1. /\ pc[s] = "begin" /\ branches[req[s].branch] # None
        /\ writer' = s /\ req' = req
        /\ work' = [start |-> branches[req[s].branch],
                    state |-> branches[req[s].branch],
                    added |-> {}, next |-> 1, applied |-> FALSE]
    BY <1>2 DEF Begin, LockFree, locals
  <2>2. branches[req[s].branch] \in BranchState /\ req[s] \in Request
    BY <2>1, RequestTyped DEF TypeOK
  <2> DEFINE start == BatchStart(req[s], branches[req[s].branch])
  <2>3. start \in Roots /\ Len(req[s].calls) \in Nat
    BY <2>2 DEF BatchStart, BranchState, Request
  <2> HIDE DEF start
  <2>4. Path(req[s], start, 0, [i \in 0 .. 0 |-> start])
    BY <2>3 DEF Path
  <2> QED
    BY <2>1, <2>3, <2>4 DEF SerialSoFar, start
<1>3. ASSUME NEW s \in Sessions, ApplyCall(s) \/ SkipCall(s) PROVE SerialSoFar'
  <2>1. /\ writer = s /\ s # None /\ pc[s] = "apply" /\ InCall(s)
        /\ writer' = s /\ req' = req
    BY <1>3, SessionsAssumption DEF ApplyCall, SkipCall, InCall, locals
  <2> DEFINE n == work.next - 1
             start == BatchStart(req[s], work.start)
  <2>2. n \in Nat /\ work.next = n + 1 /\ work'.state.root \in Roots
    BY <2>1, WriterTyped DEF TypeOK, Work, BranchState
  <2>3. PICK root : Path(req[s], start, n, root) /\ (n > 0 => root[n] = work.state.root)
    BY <2>1 DEF SerialSoFar
  <2>4. n = 0 => work.state = work.start
    BY <2>1 DEF SerialSoFar
  <2>5. root[n] = IF work.next = 1 THEN start ELSE work.state.root
    BY <2>2, <2>3 DEF Path
  <2>6. /\ work'.start = work.start /\ work'.next = work.next + 1
        /\ work'.state.root = SerialStep(req[s].calls[n + 1], root[n])
    BY <1>3, <2>2, <2>4, <2>5, CallIsSerial
  <2>7. \E longer : /\ Path(req[s], start, n + 1, longer)
                    /\ longer[n + 1] = work'.state.root
    <3> HIDE DEF n, start
    <3> QED
      BY <2>2, <2>3, <2>6, PathExtends
  <2>8. n + 1 <= Len(req[s].calls)
    BY <2>1, <2>2 DEF InCall
  <2> QED
    BY <2>1, <2>2, <2>6, <2>7, <2>8 DEF SerialSoFar
<1>4. ASSUME NEW s \in Sessions, PointerStep(s) \/ (Crash(s) /\ writer = s)
      PROVE  FALSE
  BY <1>4, PointerSteps DEF Crash, LockFree
<1>5. ASSUME NEW s \in Sessions, ApplyStep(s) PROVE ApplyCall(s) \/ SkipCall(s)
  BY <1>5, WriterSteps
<1> QED
  BY <1>1, <1>2, <1>3, <1>4, <1>5, StoreSteps

(***************************************************************************)
(* What a finished transaction returns is serial.                          *)
(***************************************************************************)
LEMMA FinishedIsSerial ==
    ASSUME Inv, SerialSoFar, NEW s \in Sessions, Done(s)
    PROVE  Serial(req[s], Finished)
<1> DEFINE N == Len(req[s].calls)
           start == BatchStart(req[s], work.start)
<1>1. /\ writer = s /\ s # None /\ pc[s] = "apply" /\ work.next > N
      /\ Finished.from = work.start /\ Finished.to = work.state
  BY SessionsAssumption DEF Done, Finished
<1>2. req[s] \in Request /\ work.next \in Nat
  BY <1>1, RequestTyped, WriterTyped DEF Inv
<1>3. PICK C : req[s].calls \in Seq(C)
  BY <1>2 DEF Request
<1>4. work.next - 1 = N
  BY <1>1, <1>2, <1>3 DEF SerialSoFar
<1>5. PICK root : Path(req[s], start, N, root) /\ (N > 0 => root[N] = work.state.root)
  BY <1>1, <1>4 DEF SerialSoFar
<1>6. root[N] = work.state.root
  <2>1. CASE N = 0
    <3>1. work.state = work.start /\ req[s].calls = <<>>
      BY <1>1, <1>3, <1>4, <2>1 DEF SerialSoFar
    <3> QED
      BY <1>5, <2>1, <3>1 DEF Path, BatchStart
  <2>2. CASE N # 0
    BY <1>3, <1>5, <2>2
  <2> QED
    BY <2>1, <2>2
<1>7. SerialRoot(req[s], start) = root[N]
  BY <1>3, <1>5, PathIsSerial
<1> QED
  BY <1>1, <1>6, <1>7 DEF Serial

(***************************************************************************)
(* What a session was told or is about to be told, and what the table of   *)
(* responses would tell it, is serial.                                     *)
(***************************************************************************)
RowIsSerial(id) ==
    transactions[id] # None =>
        Serial(transactions[id].request, transactions[id].result)

SessionIsSerial(s) ==
    /\ resp[s] # None /\ resp[s].kind = "ok" /\ req[s].kind \in ApplyKinds =>
         Serial(req[s], resp[s].result)
    /\ pc[s] \in Outcomes => Serial(req[s], result[s])
    /\ pc[s] = "show" =>
         result[s].status \notin {"applied", "already_applied"}

AnswersInv ==
    /\ SerialSoFar
    /\ \A id \in Ids : RowIsSerial(id)
    /\ \A s \in Sessions : SessionIsSerial(s)

(***************************************************************************)
(* The rows that COMMIT writes are serial.                                 *)
(***************************************************************************)
LEMMA RowIsSerialStep ==
    ASSUME Inv, SerialSoFar, [Next]_vars, NEW id \in Ids, RowIsSerial(id)
    PROVE  RowIsSerial(id)'
<1> USE DEF Inv, RowIsSerial
<1>1. CASE transactions'[id] = transactions[id]
  BY <1>1
<1>2. ASSUME NEW s \in Sessions, Commit(s), transactions'[id] # transactions[id]
      PROVE  RowIsSerial(id)'
  <2>1. transactions'[id] =
          [request |-> req[s], result |-> Finished, snapshot |-> work.state]
    BY <1>2 DEF Commit, RecordResponse, TypeOK
  <2>2. Serial(req[s], Finished)
    BY <1>2, FinishedIsSerial DEF Commit
  <2> QED
    BY <2>1, <2>2
<1>3. ASSUME NEW s \in Sessions, Begin(s) \/ Crash(s) PROVE UNCHANGED store
  BY <1>3 DEF Begin, Crash
<1>4. ASSUME NEW s \in Sessions, PointerStep(s) PROVE UNCHANGED transactions
  BY <1>4, PointerSteps
<1>5. ASSUME NEW s \in Sessions, ApplyStep(s) PROVE UNCHANGED store \/ Commit(s)
  BY <1>5, WriterSteps
<1> QED
  BY <1>1, <1>2, <1>3, <1>4, <1>5, StoreSteps DEF store

(***************************************************************************)
(* The end of a transaction hands its session a serial result.             *)
(***************************************************************************)
LEMMA LeaveIsSerial ==
    ASSUME TypeOK, NEW s \in Sessions, NEW res, Leave(s, res), Serial(req[s], res),
           req' = req, pc[s] = "apply", SessionIsSerial(s)
    PROVE  SessionIsSerial(s)'
<1>1. result'[s] = res
  BY DEF Leave, TypeOK
<1>2. CASE req[s].kind = "apply"
  <2>1. pc'[s] = "idle" /\ resp'[s].result = res
    BY <1>2 DEF Leave, Answer, TypeOK
  <2> QED
    BY <2>1 DEF SessionIsSerial, Outcomes
<1>3. CASE req[s].kind # "apply"
  <2>1. pc'[s] = "after" /\ resp'[s] = resp[s]
    BY <1>3 DEF Leave, Goto, TypeOK
  <2> QED
    BY <1>1, <2>1 DEF SessionIsSerial
<1> QED
  BY <1>2, <1>3

(***************************************************************************)
(* Every step of a session keeps what it is told serial.                   *)
(***************************************************************************)
LEMMA SessionIsSerialStep ==
    ASSUME Inv, AnswersInv, [Next]_vars, NEW s \in Sessions
    PROVE  SessionIsSerial(s)'
<1> USE DEF Inv
<1>0. SessionIsSerial(s) /\ \A id \in Ids : RowIsSerial(id)
  BY DEF AnswersInv
<1>1. CASE Rests(s)
  BY <1>0, <1>1 DEF Rests, SessionIsSerial
<1>2. CASE Receive(s) \/ Crash(s)
  BY <1>0, <1>2, StartsAfresh DEF SessionIsSerial
<1>3. CASE Serve(s) /\ ~ApplyStep(s)
  <2>1. /\ req'[s] = req[s]
        /\ Refused(s) \/ Repeated(s) \/ Reported(s) \/ Continued(s) \/ Moved(s)
    BY <1>3, Replies
  <2>2. CASE Refused(s)
    BY <2>2 DEF Refused, SessionIsSerial, Outcomes
  <2>3. CASE Repeated(s)
    BY <1>0, <2>1, <2>3 DEF Repeated, RowIsSerial, SessionIsSerial, Outcomes
  <2>4. CASE Reported(s)
    BY <1>0, <2>1, <2>4 DEF Reported, SessionIsSerial, Outcomes, Serial
  <2>5. CASE Continued(s)
    BY <1>0, <2>1, <2>5 DEF Continued, SessionIsSerial
  <2>6. CASE Moved(s)
    BY <1>0, <2>1, <2>6 DEF Moved, SessionIsSerial, Outcomes
  <2> QED
    BY <2>1, <2>2, <2>3, <2>4, <2>5, <2>6
<1>4. CASE ApplyStep(s)
  <2>1. writer = s /\ pc[s] = "apply" /\ req' = req
    BY <1>4, WriterSteps
  <2>2. CASE UNCHANGED <<pc, req, result, resp>>
    BY <1>0, <2>2 DEF SessionIsSerial
  <2>3. ASSUME NEW st \in Unsuccessful, Leave(s, RolledBack(st))
        PROVE  SessionIsSerial(s)'
    <3>1. Serial(req[s], RolledBack(st))
      BY DEF Serial, RolledBack, Unsuccessful
    <3> QED
      BY <1>0, <2>1, <2>3, <3>1, LeaveIsSerial
  <2>4. ASSUME Discard(s) \/ Commit(s), Leave(s, Finished)
        PROVE  SessionIsSerial(s)'
    <3>1. Serial(req[s], Finished)
      BY <2>4, FinishedIsSerial DEF Discard, Commit, AnswersInv
    <3> QED
      BY <1>0, <2>1, <2>4, <3>1, LeaveIsSerial
  <2>5. CASE CommitFails(s)
    <3>1. Refused(s)
      BY <2>5, ErrorRefuses DEF CommitFails
    <3> QED
      BY <3>1 DEF Refused, SessionIsSerial, Outcomes
  <2> QED
    BY <1>4, <2>2, <2>3, <2>4, <2>5, Endings
<1> QED
  BY <1>1, <1>2, <1>3, <1>4, SessionSteps

(***************************************************************************)
(* An answer that says applied or already_applied tells where the request's*)
(* operations lead one after the other from the root it expects, whatever  *)
(* others did meanwhile and whichever operations were skipped              *)
(* (migrations.rs, recorded_operation_output_matches; api.rs,              *)
(* apply_batch_in_tx).                                                     *)
(***************************************************************************)
THEOREM EveryAnswerIsSerial == Spec => []AnswersAreSerial
<1>1. Init => AnswersInv
  BY DEF Init, AnswersInv, SerialSoFar, RowIsSerial, SessionIsSerial, Outcomes
<1>2. Inv /\ Inv' /\ AnswersInv /\ [Next]_vars => AnswersInv'
  <2> SUFFICES ASSUME Inv, Inv', AnswersInv, [Next]_vars PROVE AnswersInv'
    OBVIOUS
  <2>1. SerialSoFar'
    BY SerialSoFarStep DEF AnswersInv
  <2>2. \A id \in Ids : RowIsSerial(id)'
    BY RowIsSerialStep DEF AnswersInv
  <2>3. \A s \in Sessions : SessionIsSerial(s)'
    BY SessionIsSerialStep
  <2> QED
    BY <2>1, <2>2, <2>3 DEF AnswersInv
<1>3. AnswersInv => AnswersAreSerial
  BY DEF AnswersInv, SessionIsSerial, AnswersAreSerial
<1> QED
  BY <1>1, <1>2, <1>3, Invariance, PTL DEF Spec

(***************************************************************************)
(* Work under a request id is committed once, unless the program comes     *)
(* back to a root that it had left.  Later orders the roots: where an      *)
(* operation of a request may be carried out, it leads to a later root.    *)
(***************************************************************************)
Expected(r, i, root) ==
    IF r.calls[i].expect # None THEN root = r.calls[i].expect
    ELSE i = 1 /\ r.expect # None => root = r.expect

NeverBack(Later) ==
    /\ Later \subseteq Roots \X Roots
    /\ \A p \in Roots : <<p, p>> \notin Later
    /\ \A p, q, r \in Roots :
         <<p, q>> \in Later /\ <<q, r>> \in Later => <<p, r>> \in Later
    /\ \A r \in Requests : \A i \in DOMAIN r.calls : \A root \in Roots :
         LET op == Resolve[r.calls[i].name][root] IN
         Expected(r, i, root) /\ op # None /\ Applies(op, root) =>
             <<root, Effect[op][root]>> \in Later

(***************************************************************************)
(* Nobody deletes a branch that a request with an id is for: made again    *)
(* from an earlier root it would have come back as well.  Main stays.      *)
(***************************************************************************)
NeverDeleted ==
    \A r, q \in Requests :
        r.kind = "ops.apply" /\ r.id # None /\ q.kind = "branch.delete"
        => q.branch # r.branch \/ q.branch = Main

AtMost(Later, p, q) == p = q \/ <<p, q>> \in Later

(***************************************************************************)
(* The first i operations of a request lead to this root.                  *)
(***************************************************************************)
Leads(r, i, end) == \E root : Path(r, r.expect, i, root) /\ root[i] = end

(***************************************************************************)
(* Everything recorded goes forward.  The writer has not come back, and    *)
(* what it applied went on from where it started; a branch whose work has  *)
(* a recorded response is still where that work led, or later.             *)
(***************************************************************************)
Climbs(Later, h) ==
    \A i, j \in 1 .. Len(h) : i <= j => <<h[i].input, h[j].output>> \in Later

WorkClimbs(Later) ==
    LET r == req[writer] IN
    /\ \A h \in work.added : Climbs(Later, h)
    /\ AtMost(Later, work.start.root, work.state.root)
    /\ r.kind = "ops.apply" =>
         /\ \A i \in 1 .. work.next - 1 : \E end :
              Leads(r, i, end) /\ AtMost(Later, end, work.state.root)
         /\ work.applied => \E i \in 1 .. work.next - 1 : \E end :
              Leads(r, i, end) /\ <<work.start.root, end>> \in Later

RowStands(Later, id) ==
    transactions[id] # None =>
        LET r == transactions[id].request IN
        /\ r \in Requests /\ r.kind = "ops.apply" /\ r.id # None
        /\ branches[r.branch] # None
        /\ \A i \in 1 .. Len(r.calls) : \E end :
             Leads(r, i, end) /\ AtMost(Later, end, branches[r.branch].root)

Labelled(s) ==
    /\ pc[s] = "delete" => req[s].kind = "branch.delete"
    /\ pc[s] \in {"begin", "apply"} /\ req[s].kind = "ops.apply" => req[s].expect # None

OnceInv(Later) ==
    /\ \A h \in histories : Climbs(Later, h)
    /\ writer # None => WorkClimbs(Later)
    /\ \A id \in Ids : RowStands(Later, id)
    /\ \A s \in Sessions : Labelled(s)

(***************************************************************************)
(* What the order gives: nothing is before itself, and it goes on.         *)
(***************************************************************************)
LEMMA Order ==
    ASSUME NEW Later, NeverBack(Later)
    PROVE  /\ \A p : <<p, p>> \notin Later
           /\ \A p, q, r : <<p, q>> \in Later /\ AtMost(Later, q, r) => <<p, r>> \in Later
           /\ \A p, q, r : AtMost(Later, p, q) /\ <<q, r>> \in Later => <<p, r>> \in Later
           /\ \A p, q, r : AtMost(Later, p, q) /\ AtMost(Later, q, r) => AtMost(Later, p, r)
<1>1. \A p, q : <<p, q>> \in Later => p \in Roots /\ q \in Roots
  BY DEF NeverBack
<1>2. \A p : <<p, p>> \notin Later
  BY <1>1 DEF NeverBack
<1>3. \A p, q, r : <<p, q>> \in Later /\ <<q, r>> \in Later => <<p, r>> \in Later
  BY <1>1 DEF NeverBack
<1> QED
  BY <1>2, <1>3 DEF AtMost

(***************************************************************************)
(* The operations of a request lead to one root.                           *)
(***************************************************************************)
LEMMA LeadsOnce ==
    ASSUME NEW r, NEW i \in Nat, NEW p, NEW q, Leads(r, i, p), Leads(r, i, q)
    PROVE  p = q
<1>1. PICK one : Path(r, r.expect, i, one) /\ one[i] = p
  BY DEF Leads
<1>2. PICK two : Path(r, r.expect, i, two) /\ two[i] = q
  BY DEF Leads
<1> DEFINE S == {n \in 0 .. i : one[n] = two[n]}
<1>3. 0 \in S
  BY <1>1, <1>2 DEF Path
<1>4. \A k \in 1 .. i : k - 1 \in S => k \in S
  BY <1>1, <1>2 DEF Path
<1>5. \A k \in 0 .. i : k \in S
  <2> HIDE DEF S
  <2> QED
    BY <1>3, <1>4, BoundedInduction
<1> QED
  BY <1>1, <1>2, <1>5

(***************************************************************************)
(* An operation that is carried out leads to a later root.                 *)
(***************************************************************************)
LEMMA CallClimbs ==
    ASSUME Inv, NEW Later, NeverBack(Later), NEW s \in Sessions, ApplyCall(s)
    PROVE  /\ work'.start = work.start /\ work'.next = work.next + 1 /\ work'.applied
           /\ <<work.state.root, work'.state.root>> \in Later
<1> USE DEF Inv
<1>1. /\ writer = s /\ s # None /\ pc[s] = "apply" /\ InCall(s)
      /\ CallOp(s) # None /\ ExpectedRoot(s) = work.state.root
      /\ Applies(CallOp(s), work.state.root)
      /\ work' = RecordMigration(work, Apply(CallOp(s), work.state.root))
  BY SessionsAssumption DEF ApplyCall, InCall, PreconditionsHold
<1>2. /\ work \in Work /\ work.state.root \in Roots
      /\ req[s] \in Requests /\ work.next \in DOMAIN req[s].calls
  BY <1>1, WriterTyped, InCallTyped DEF TypeOK, BranchState
<1>3. /\ work'.start = work.start /\ work'.next = work.next + 1 /\ work'.applied
      /\ work'.state.root = Effect[CallOp(s)][work.state.root]
  BY <1>1, <1>2 DEF RecordMigration, Apply, Work
<1>4. Expected(req[s], work.next, work.state.root)
  BY <1>1 DEF Expected, ExpectedRoot
<1>5. CallOp(s) = Resolve[req[s].calls[work.next].name][work.state.root]
  BY <1>1 DEF CallOp
<1>6. <<work.state.root, Effect[CallOp(s)][work.state.root]>> \in Later
  <2>1. ASSUME NEW r \in Requests, NEW i \in DOMAIN r.calls, NEW root \in Roots, NEW op,
               op = Resolve[r.calls[i].name][root], Expected(r, i, root), op # None, Applies(op, root)
        PROVE  <<root, Effect[op][root]>> \in Later
    BY <2>1 DEF NeverBack
  <2> QED
    BY <1>1, <1>2, <1>4, <1>5, <2>1
<1> QED
  BY <1>3, <1>6

(***************************************************************************)
(* A history that goes forward and one more migration.                     *)
(***************************************************************************)
LEMMA AppendClimbs ==
    ASSUME NEW Later, NeverBack(Later), NEW h \in History, Climbs(Later, h),
           NEW m \in Migration, <<m.input, m.output>> \in Later,
           h # <<>> => OutputRoot(h) = m.input
    PROVE  Climbs(Later, Append(h, m))
<1> DEFINE g == Append(h, m)
           n == Len(h)
<1>1. /\ n \in Nat /\ Len(g) = n + 1
      /\ \A i \in 1 .. n : g[i] = h[i]
      /\ g[n + 1] = m
  BY AppendHistory DEF History
<1>2. n > 0 => h[n].output = m.input
  BY <1>1 DEF OutputRoot
<1> HIDE DEF g, n
<1> SUFFICES ASSUME NEW i \in 1 .. n + 1, NEW j \in 1 .. n + 1, i <= j
             PROVE  <<g[i].input, g[j].output>> \in Later
  BY <1>1 DEF Climbs, g
<1>3. CASE j \in 1 .. n
  BY <1>1, <1>3 DEF Climbs, n
<1>4. CASE j = n + 1 /\ i = n + 1
  BY <1>1, <1>4
<1>5. CASE j = n + 1 /\ i \in 1 .. n
  <2>1. <<h[i].input, h[n].output>> \in Later
    BY <1>1, <1>5 DEF Climbs, n
  <2>2. h[n].output = m.input
    BY <1>1, <1>2, <1>5
  <2> QED
    BY <1>1, <1>5, <2>1, <2>2, Order DEF AtMost
<1> QED
  BY <1>1, <1>3, <1>4, <1>5

(***************************************************************************)
(* A state that descends from another is there or later.                   *)
(***************************************************************************)
LEMMA DescentClimbs ==
    ASSUME NEW Later, NEW H, \A h \in H : Replays(h) /\ Climbs(Later, h),
           NEW source \in BranchState, HistoryMatchesRoot(source, H),
           NEW target \in BranchState, HistoryMatchesRoot(target, H),
           DescendsFrom(source, target)
    PROVE  AtMost(Later, target.root, source.root)
<1> DEFINE h == source.history
           N == Len(h)
<1>1. h \in History /\ N \in Nat /\ (h # <<>> <=> N > 0)
  BY DEF BranchState, History
<1>2. h # <<>> => Replays(h) /\ Climbs(Later, h) /\ source.root = h[N].output
  BY DEF HistoryMatchesRoot, OutputRoot
<1>3. CASE source = target
  BY <1>3 DEF AtMost
<1>4. CASE target.history \in Ancestors(h)
  <2>1. PICK n \in 1 .. N : target.history = SubSeq(h, 1, n)
    BY <1>4 DEF Ancestors
  <2>2. n \in 0 .. N /\ n >= 1 /\ h # <<>>
    BY <1>1
  <2>3. Len(target.history) = n /\ target.history[n] = h[n]
    BY <1>1, <2>1, <2>2, PrefixIsHistory
  <2>4. target.root = h[n].output
    BY <2>2, <2>3 DEF HistoryMatchesRoot, OutputRoot
  <2>5. CASE n = N
    BY <1>2, <2>2, <2>4, <2>5 DEF AtMost
  <2>6. CASE n + 1 \in 1 .. N
    <3>1. ReplaysAt(h, n + 1) /\ <<h[n + 1].input, h[N].output>> \in Later
      BY <1>1, <1>2, <2>2, <2>6 DEF Replays, Climbs
    <3>2. n + 1 > 1 /\ (n + 1) - 1 = n
      BY <1>1
    <3>3. h[n + 1].input = h[n].output
      BY <3>1, <3>2 DEF ReplaysAt
    <3> QED
      BY <1>2, <2>2, <2>4, <3>1, <3>3 DEF AtMost
  <2> QED
    BY <1>1, <2>5, <2>6
<1>5. CASE h # <<>> /\ h[1].input = target.root
  BY <1>1, <1>2, <1>5 DEF Climbs, AtMost
<1> QED
  BY <1>3, <1>4, <1>5 DEF DescendsFrom

(***************************************************************************)
(* An operation that is skipped leaves the transaction where it is.        *)
(***************************************************************************)
LEMMA SkipStands ==
    ASSUME Inv, NEW s \in Sessions, SkipCall(s)
    PROVE  /\ work'.start = work.start /\ work'.state = work.state /\ work'.added = work.added
           /\ work'.next = work.next + 1 /\ work'.applied = work.applied
<1>1. work \in Work
  BY WriterTyped DEF SkipCall, InCall, Inv
<1> QED
  BY <1>1 DEF SkipCall, Work

(***************************************************************************)
(* A transaction that goes on goes forward, to where its operations lead.  *)
(***************************************************************************)
LEMMA CallWorkClimbs ==
    ASSUME Inv, Inv', SerialSoFar', NEW Later, NeverBack(Later), OnceInv(Later),
           NEW s \in Sessions, ApplyCall(s) \/ SkipCall(s)
    PROVE  WorkClimbs(Later)'
<1> USE DEF Inv
<1>1. /\ writer = s /\ s # None /\ pc[s] = "apply" /\ InCall(s)
      /\ writer' = s /\ req' = req /\ histories' = histories
  BY SessionsAssumption DEF ApplyCall, SkipCall, InCall, locals, store
<1> DEFINE r == req[s]
           n == work.next
<1>2. /\ n \in Nat \ {0} /\ n \in DOMAIN r.calls /\ r.calls # <<>>
      /\ work.state \in BranchState /\ r \in Requests
  BY <1>1, WriterTyped, InCallTyped, RequestTyped DEF TypeOK
<1>3. /\ work'.start = work.start /\ work'.next = n + 1
      /\ AtMost(Later, work.state.root, work'.state.root)
      /\ \/ <<work.state.root, work'.state.root>> \in Later
         \/ work'.applied = work.applied
  BY CallClimbs, SkipStands DEF AtMost
<1>4. /\ \A h \in work.added : Climbs(Later, h)
      /\ AtMost(Later, work.start.root, work.state.root)
      /\ r.kind = "ops.apply" =>
           /\ \A i \in 1 .. n - 1 : \E end :
                Leads(r, i, end) /\ AtMost(Later, end, work.state.root)
           /\ work.applied => \E i \in 1 .. n - 1 : \E end :
                Leads(r, i, end) /\ <<work.start.root, end>> \in Later
  BY <1>1 DEF OnceInv, WorkClimbs
<1>5. r.kind = "ops.apply" => Leads(r, n, work'.state.root)
  <2> SUFFICES ASSUME r.kind = "ops.apply" PROVE Leads(r, n, work'.state.root)
    OBVIOUS
  <2>1. r.expect # None
    BY <1>1 DEF OnceInv, Labelled
  <2>2. (work'.next - 1) = n /\ n > 0
    BY <1>2, <1>3
  <2>3. \E root : Path(r, BatchStart(r, work'.start), n, root) /\ root[n] = work'.state.root
    BY <1>1, <2>2 DEF SerialSoFar
  <2> QED
    BY <1>2, <2>1, <2>3 DEF Leads, BatchStart
<1>6. \A h \in work'.added : Climbs(Later, h)
  <2>1. CASE SkipCall(s)
    BY <1>4, <2>1, SkipStands
  <2>2. CASE ApplyCall(s)
    <3> DEFINE m == Apply(CallOp(s), work.state.root)
               g == work.state.history
    <3>1. /\ CallOp(s) # None /\ Applies(CallOp(s), work.state.root)
          /\ work' = RecordMigration(work, m)
      BY <2>2 DEF ApplyCall
    <3>2. CallOp(s) \in Ops /\ m \in Migration /\ g \in History
      BY <1>1, <1>2, <3>1, CallTyped, MigrationTyped DEF BranchState
    <3>3. work \in Work
      BY <1>1, WriterTyped
    <3>4. /\ work'.added = work.added \cup {Append(g, m)}
          /\ work'.state.root = m.output /\ m.input = work.state.root
      BY <3>1, <3>3 DEF RecordMigration, Work, Apply
    <3>5. <<m.input, m.output>> \in Later
      BY <2>2, <3>4, CallClimbs
    <3>6. g # <<>> => Climbs(Later, g) /\ OutputRoot(g) = m.input
      BY <1>1, <1>4, <3>4 DEF WorkInv, HistoryMatchesRoot, Recorded, OnceInv
    <3>7. Climbs(Later, g)
      BY <3>6 DEF Climbs
    <3> HIDE DEF m, g
    <3>8. Climbs(Later, Append(g, m))
      BY <3>2, <3>5, <3>6, <3>7, AppendClimbs
    <3> QED
      BY <1>4, <3>4, <3>8
  <2> QED
    BY <2>1, <2>2
<1>7. AtMost(Later, work'.start.root, work'.state.root)
  BY <1>3, <1>4, Order
<1>8. ASSUME r.kind = "ops.apply", NEW i \in 1 .. work'.next - 1
      PROVE  \E end : Leads(r, i, end) /\ AtMost(Later, end, work'.state.root)
  <2>1. CASE i \in 1 .. n - 1
    BY <1>3, <1>4, <1>8, <2>1, Order
  <2>2. CASE i = n
    BY <1>5, <1>8, <2>2 DEF AtMost
  <2> QED
    BY <1>2, <1>3, <2>1, <2>2
<1>9. ASSUME r.kind = "ops.apply", work'.applied
      PROVE  \E i \in 1 .. work'.next - 1 : \E end :
               Leads(r, i, end) /\ <<work'.start.root, end>> \in Later
  <2>1. n \in 1 .. work'.next - 1 /\ 1 .. n - 1 \subseteq 1 .. work'.next - 1
    BY <1>2, <1>3
  <2>2. CASE <<work.state.root, work'.state.root>> \in Later
    BY <1>3, <1>4, <1>5, <1>9, <2>1, <2>2, Order
  <2>3. CASE work'.applied = work.applied
    BY <1>3, <1>4, <1>9, <2>1, <2>3
  <2> QED
    BY <1>3, <2>2, <2>3
<1> QED
  BY <1>1, <1>6, <1>7, <1>8, <1>9 DEF WorkClimbs

(***************************************************************************)
(* What is recorded of the writer, from BEGIN on.                          *)
(***************************************************************************)
LEMMA WorkClimbsStep ==
    ASSUME Inv, Inv', SerialSoFar', NEW Later, NeverBack(Later), OnceInv(Later),
           [Next]_vars, writer' # None
    PROVE  WorkClimbs(Later)'
<1> USE DEF Inv
<1>1. CASE UNCHANGED <<store, writer, work>>
  <2>1. writer \in Sessions /\ writer # None /\ pc[writer] = "apply"
    BY <1>1 DEF TypeOK, WriterInv
  <2>2. ~Crash(writer) /\ (ApplyStep(writer) => req' = req)
    BY <1>1, <2>1, WriterSteps DEF Crash
  <2>3. req'[writer] = req[writer]
    BY <2>1, <2>2, OtherSessions
  <2> QED
    BY <1>1, <2>1, <2>3 DEF OnceInv, WorkClimbs
<1>2. ASSUME NEW s \in Sessions, Begin(s) PROVE WorkClimbs(Later)'
  <2>1. work' = [start |-> branches[req[s].branch], state |-> branches[req[s].branch],
                 added |-> {}, next |-> 1, applied |-> FALSE]
    BY <1>2 DEF Begin, LockFree
  <2> QED
    BY <2>1 DEF WorkClimbs, AtMost
<1>3. ASSUME NEW s \in Sessions, ApplyStep(s) PROVE ApplyCall(s) \/ SkipCall(s)
  BY <1>3, WriterSteps
<1>4. ASSUME NEW s \in Sessions, PointerStep(s) \/ (Crash(s) /\ writer = s)
      PROVE  FALSE
  BY <1>4, PointerSteps DEF Crash, LockFree
<1> QED
  BY <1>1, <1>2, <1>3, <1>4, CallWorkClimbs, StoreSteps

(***************************************************************************)
(* A session deletes only for a request to delete, and carries out only    *)
(* guarded requests among those that may have an id.                       *)
(***************************************************************************)
LEMMA LabelledStep ==
    ASSUME TypeOK, [Next]_vars, NEW s \in Sessions, Labelled(s)
    PROVE  Labelled(s)'
<1> USE DEF Labelled, TypeOK
<1>1. CASE Rests(s)
  BY <1>1 DEF Rests
<1>2. CASE Receive(s)
  <2>1. PICK r \in Requests : req' = [req EXCEPT ![s] = r] /\ pc' = [pc EXCEPT ![s] = Entry[r.kind]]
    BY <1>2 DEF Receive
  <2>2. r.kind \in ApplyKinds \cup BranchKinds
    BY RequestsAssumption DEF Request
  <2>3. req'[s] = r /\ pc'[s] = Entry[r.kind]
    BY <2>1
  <2> QED
    BY <2>2, <2>3 DEF Entry, ApplyKinds, BranchKinds
<1>3. CASE Crash(s)
  BY <1>3 DEF Crash, Goto, locals
<1>4. CASE Serve(s)
  <2>1. req' = req
    BY <1>4, PointerSteps
    DEF Serve, PointerStep, CacheLookup, ReadSnapshot, StaleLookup, BusyTimeout,
        ReadAfter, MissLookup, ErrorLookup, CheckAbsent, ReadSource,
        RefuseDeleteMain, Show, Begin, ApplyStep, ApplyCall, SkipCall,
        ConflictCall, FailCall, Discard, Commit, CommitFails, locals
  <2>2. CASE ReadSnapshot(s)
    <3>1. req[s].branch \in Branches
      BY <2>2, RequestTyped DEF ReadSnapshot
    <3>2. CASE pc'[s] = "begin"
      <4>1. branches[req[s].branch] # None /\ branches[req[s].branch].root = req[s].expect
        BY <2>2, <3>2 DEF ReadSnapshot, AnswerError, Answer, Goto
      <4>2. branches[req[s].branch].root \in Roots
        BY <3>1, <4>1 DEF BranchState
      <4> QED
        BY <2>1, <3>2, <4>1, <4>2, RootsAssumption
    <3>3. CASE pc'[s] # "begin"
      BY <2>2, <3>3 DEF ReadSnapshot, AnswerError, Answer, Goto
    <3> QED
      BY <3>2, <3>3
  <2>3. CASE Begin(s)
    BY <2>1, <2>3 DEF Begin, AnswerError, Answer, Goto
  <2>4. CASE ApplyStep(s)
    <3>1. pc[s] = "apply" /\ pc'[s] \in {"apply", "idle", "after"}
      BY <2>4, WriterSteps DEF ApplyStep, ApplyCall, SkipCall, ConflictCall, FailCall, Discard, Commit,
         CommitFails, Leave, AnswerError, Answer, Goto
    <3> QED
      BY <2>1, <3>1
  <2>5. ASSUME Serve(s), ~ReadSnapshot(s), ~Begin(s), ~ApplyStep(s)
        PROVE  pc'[s] \notin {"begin", "apply", "delete"}
    <3>1. CASE CacheLookup(s) \/ StaleLookup(s) \/ BusyTimeout(s) \/ MissLookup(s)
               \/ ErrorLookup(s) \/ CheckAbsent(s) \/ RefuseDeleteMain(s) \/ Show(s)
      BY <3>1
      DEF CacheLookup, StaleLookup, BusyTimeout, MissLookup, ErrorLookup,
          CheckAbsent, RefuseDeleteMain, Show, CachedAnswer, AnswerError, Answer,
          Goto
    <3>2. CASE ReadAfter(s) \/ ReadSource(s)
      BY <3>2 DEF ReadAfter, ReadSource, AnswerError, Answer, Goto
    <3>3. CASE PointerStep(s)
      BY <3>3, PointerSteps DEF Refuse, MovePointer, AnswerError, Answer, Goto
    <3> QED
      BY <2>5, <3>1, <3>2, <3>3 DEF Serve, PointerStep
  <2> QED
    BY <1>4, <2>1, <2>2, <2>3, <2>4, <2>5
<1> QED
  BY <1>1, <1>2, <1>3, <1>4, SessionSteps

(***************************************************************************)
(* A branch that requests with an id are for stays, and goes forward.      *)
(***************************************************************************)
LEMMA PointerClimbs ==
    ASSUME Inv, NEW Later, OnceInv(Later), NeverDeleted, NEW s \in Sessions, PointerStep(s),
           NEW r \in Requests, r.kind = "ops.apply", r.id # None, branches[r.branch] # None
    PROVE  /\ branches'[r.branch] # None
           /\ AtMost(Later, branches[r.branch].root, branches'[r.branch].root)
<1> USE DEF Inv
<1>1. /\ pc[s] # "idle" /\ req[s] \in Requests /\ req[s].branch \in Branches
      /\ r.branch \in Branches
  BY PointerSteps, RequestTyped, RequestsAssumption DEF TypeOK, Request
<1>2. CASE branches'[r.branch] = branches[r.branch]
  BY <1>2 DEF AtMost
<1>3. ASSUME NEW to, branches' = [branches EXCEPT ![req[s].branch] = to]
      PROVE  branches'[r.branch] = IF r.branch = req[s].branch THEN to ELSE branches[r.branch]
  <2>1. DOMAIN branches = Branches
    BY DEF TypeOK
  <2> QED
    BY <1>1, <1>3, <2>1
<1>4. CASE CreateBranch(s)
  <2>1. CASE branches[req[s].branch] = None
    <3>1. branches' = branches \/ \E to : branches' = [branches EXCEPT ![req[s].branch] = to]
      BY <1>4 DEF CreateBranch, MovePointer, Refuse
    <3>2. r.branch # req[s].branch
      BY <2>1
    <3> QED
      BY <1>2, <1>3, <3>1, <3>2
  <2>2. CASE branches[req[s].branch] # None
    <3>1. branches' = branches
      BY <1>4, <2>2 DEF CreateBranch, Refuse
    <3> QED
      BY <1>2, <3>1
  <2> QED
    BY <2>1, <2>2
<1>5. CASE FastForward(s) /\ branches'[r.branch] # branches[r.branch]
  <2>1. /\ req[s].branch = r.branch /\ branches'[r.branch] = seen[s]
        /\ HistoryMatchesRoot(seen[s], histories)
        /\ DescendsFrom(seen[s], branches[r.branch])
        /\ pc[s] = "fast_forward"
    <3>1. branches' # branches
      BY <1>5
    <3>2. /\ branches' = [branches EXCEPT ![req[s].branch] = seen[s]]
          /\ HistoryMatchesRoot(seen[s], histories)
          /\ DescendsFrom(seen[s], branches[req[s].branch])
          /\ pc[s] = "fast_forward"
      BY <1>5, <3>1 DEF FastForward, SourceMatches, SourceDescends, MovePointer, Refuse
    <3>3. req[s].branch = r.branch
      BY <1>5, <1>3, <3>2
    <3> QED
      BY <1>3, <3>2, <3>3
  <2>2. /\ seen[s] \in BranchState /\ seen[s] # None
        /\ branches[r.branch] \in BranchState
    BY <1>1, <2>1 DEF TypeOK
  <2>3. /\ \A h \in histories : Replays(h) /\ Climbs(Later, h)
        /\ HistoryMatchesRoot(branches[r.branch], histories)
    BY <1>1 DEF StoreInv, WellFormed, BranchesRecorded, OnceInv
  <2> QED
    BY <2>1, <2>2, <2>3, DescentClimbs
<1>6. CASE DeleteBranch(s) /\ branches'[r.branch] # branches[r.branch]
  <2>1. pc[s] = "delete" /\ req[s].branch # Main /\ req[s].branch = r.branch
    <3>1. branches' # branches
      BY <1>6
    <3>2. /\ pc[s] = "delete" /\ req[s].branch # Main
          /\ branches' = [branches EXCEPT ![req[s].branch] = None]
      BY <1>6, <3>1 DEF DeleteBranch, RefusesMain, MovePointer, Refuse
    <3> QED
      BY <1>6, <1>3, <3>2
  <2>2. req[s].kind = "branch.delete"
    BY <2>1 DEF OnceInv, Labelled
  <2> QED
    BY <1>1, <2>1, <2>2 DEF NeverDeleted
<1> QED
  BY <1>2, <1>4, <1>5, <1>6 DEF PointerStep

(***************************************************************************)
(* What COMMIT puts on a branch is where the transaction found it or later.*)
(***************************************************************************)
LEMMA CommitClimbs ==
    ASSUME Inv, NEW Later, OnceInv(Later), NEW s \in Sessions, Commit(s)
    PROVE  /\ writer = s /\ s # None /\ req[s] \in Requests /\ req[s].branch \in Branches
           /\ branches[req[s].branch] = work.start
           /\ branches' = [branches EXCEPT ![req[s].branch] = work.state]
           /\ histories' = histories \cup work.added
           /\ work.start # None /\ work.state # None /\ work.applied
           /\ WorkClimbs(Later)
<1> USE DEF Inv
<1>1. writer = s /\ s # None /\ pc[s] = "apply"
  BY SessionsAssumption DEF Commit, Done
<1> QED
  BY <1>1, WriterTyped, RequestTyped DEF Commit, WriterInv, WriterSeesLatest, OnceInv, TypeOK

(***************************************************************************)
(* The branch of a recorded response stays where its work led, or later.   *)
(***************************************************************************)
LEMMA RowStandsStep ==
    ASSUME Inv, Inv', SerialSoFar, NEW Later, NeverBack(Later), NeverDeleted, OnceInv(Later),
           [Next]_vars, NEW id \in Ids
    PROVE  RowStands(Later, id)'
<1> USE DEF Inv
<1>1. RowStands(Later, id)
  BY DEF OnceInv
<1>2. ASSUME transactions[id] # None, transactions'[id] = transactions[id],
             \A r \in Requests : r.kind = "ops.apply" /\ r.id # None /\ branches[r.branch] # None =>
                 /\ branches'[r.branch] # None
                 /\ AtMost(Later, branches[r.branch].root, branches'[r.branch].root)
      PROVE  RowStands(Later, id)'
  BY <1>1, <1>2, Order DEF RowStands
<1>3. CASE UNCHANGED store
  BY <1>1, <1>3 DEF RowStands, store
<1>4. ASSUME NEW s \in Sessions, PointerStep(s) PROVE RowStands(Later, id)'
  <2>1. transactions' = transactions
    BY <1>4, PointerSteps
  <2>2. CASE transactions[id] = None
    BY <2>1, <2>2 DEF RowStands
  <2>3. CASE transactions[id] # None
    BY <1>2, <1>4, <2>1, <2>3, PointerClimbs
  <2> QED
    BY <2>2, <2>3
<1>5. ASSUME NEW s \in Sessions, Commit(s) PROVE RowStands(Later, id)'
  <2>1. /\ writer = s /\ s # None /\ req[s] \in Requests /\ req[s].branch \in Branches
        /\ branches[req[s].branch] = work.start
        /\ branches' = [branches EXCEPT ![req[s].branch] = work.state]
        /\ work.start # None /\ work.state # None /\ WorkClimbs(Later)
    BY <1>5, CommitClimbs
  <2>2. CASE transactions[id] # None
    <3>1. transactions'[id] = transactions[id]
      BY <2>2, ResponsesKept
    <3>2. ASSUME NEW r \in Requests, branches[r.branch] # None
          PROVE  /\ branches'[r.branch] # None
                 /\ AtMost(Later, branches[r.branch].root, branches'[r.branch].root)
      <4>1. r.branch \in Branches
        BY RequestsAssumption DEF Request
      <4>2. CASE r.branch = req[s].branch
        BY <2>1, <4>1, <4>2 DEF WorkClimbs, TypeOK
      <4>3. CASE r.branch # req[s].branch
        BY <2>1, <3>2, <4>1, <4>3 DEF AtMost, TypeOK
      <4> QED
        BY <4>2, <4>3
    <3> QED
      BY <1>2, <2>2, <3>1, <3>2
  <2>3. CASE transactions[id] = None /\ transactions'[id] # None
    <3> DEFINE r == req[s]
    <3>1. /\ id = r.id /\ r.kind = "ops.apply" /\ r.id # None
          /\ transactions'[id].request = r
      BY <1>5, <2>3 DEF Commit, RecordResponse, TypeOK
    <3>2. branches'[r.branch] = work.state
      BY <2>1 DEF TypeOK
    <3>3. \A i \in 1 .. Len(r.calls) : i \in 1 .. work.next - 1
      <4>1. work.next \in Nat /\ work.next > Len(r.calls)
        BY <1>5, <2>1, WriterTyped DEF Commit, Done
      <4>2. Len(r.calls) \in Nat
        BY <2>1, RequestsAssumption DEF Request
      <4> QED
        BY <4>1, <4>2
    <3> QED
      BY <2>1, <3>1, <3>2, <3>3 DEF RowStands, WorkClimbs
  <2> QED
    BY <2>2, <2>3 DEF RowStands
<1>6. ASSUME NEW s \in Sessions, Begin(s) \/ Crash(s) PROVE UNCHANGED store
  BY <1>6 DEF Begin, Crash
<1>7. ASSUME NEW s \in Sessions, ApplyStep(s) PROVE UNCHANGED store \/ Commit(s)
  BY <1>7, WriterSteps
<1> QED
  BY <1>3, <1>4, <1>5, <1>6, <1>7, StoreSteps DEF store

(***************************************************************************)
(* A request whose response is recorded applies nothing again: that would  *)
(* lead from where its branch is to where its operations led before.       *)
(***************************************************************************)
LEMMA NotTwice ==
    ASSUME Inv, SerialSoFar, NEW Later, NeverBack(Later), OnceInv(Later),
           NEW s \in Sessions, Commit(s), req[s].kind = "ops.apply", req[s].id # None
    PROVE  transactions[req[s].id] = None
<1> DEFINE r == req[s]
           now == work.start.root
<1> SUFFICES ASSUME transactions[r.id] # None PROVE FALSE
  OBVIOUS
<1>1. /\ writer = s /\ s # None /\ r \in Requests
      /\ branches[r.branch] = work.start /\ work.applied /\ WorkClimbs(Later)
  BY CommitClimbs
<1>2. r.id \in Ids /\ Len(r.calls) \in Nat
  BY <1>1, RequestsAssumption DEF Request
<1>3. transactions[r.id].request = r
  BY DEF Commit, HookFails, Cached
<1>4. \A i \in 1 .. Len(r.calls) : \E end : Leads(r, i, end) /\ AtMost(Later, end, now)
  BY <1>1, <1>2, <1>3 DEF OnceInv, RowStands
<1>5. PICK i \in 1 .. work.next - 1 : \E end : Leads(r, i, end) /\ <<now, end>> \in Later
  BY <1>1 DEF WorkClimbs
<1>6. i \in 1 .. Len(r.calls)
  <2>1. work.next \in Nat /\ work.next - 1 <= Len(r.calls)
    BY <1>1, WriterTyped DEF SerialSoFar, Inv
  <2> QED
    BY <1>2, <2>1
<1>7. PICK p : Leads(r, i, p) /\ <<now, p>> \in Later
  BY <1>5
<1>8. PICK q : Leads(r, i, q) /\ AtMost(Later, q, now)
  BY <1>4, <1>6
<1>9. p = q
  BY <1>2, <1>6, <1>7, <1>8, LeadsOnce
<1>10. <<now, now>> \in Later
  <2> HIDE DEF now
  <2> QED
    BY <1>7, <1>8, <1>9, Order
<1> QED
  BY <1>10, Order

(***************************************************************************)
(* Every recorded history goes forward.                                    *)
(***************************************************************************)
LEMMA HistoriesClimb ==
    ASSUME Inv, NEW Later, OnceInv(Later), [Next]_vars, NEW h \in histories'
    PROVE  Climbs(Later, h)
<1> USE DEF Inv
<1>1. CASE histories' = histories
  BY <1>1 DEF OnceInv
<1>2. ASSUME NEW s \in Sessions, Commit(s) PROVE Climbs(Later, h)
  BY <1>2, CommitClimbs DEF OnceInv, WorkClimbs
<1>3. ASSUME NEW s \in Sessions, Begin(s) \/ Crash(s) PROVE UNCHANGED store
  BY <1>3 DEF Begin, Crash
<1>4. ASSUME NEW s \in Sessions, ApplyStep(s) PROVE UNCHANGED store \/ Commit(s)
  BY <1>4, WriterSteps
<1>5. ASSUME NEW s \in Sessions, PointerStep(s) PROVE histories' = histories
  BY <1>5, PointerSteps
<1> QED
  BY <1>1, <1>2, <1>3, <1>4, <1>5, StoreSteps DEF store

(***************************************************************************)
(* Only COMMIT changes a branch while there is a writer.                   *)
(***************************************************************************)
LEMMA WriterCommits ==
    ASSUME TypeOK, [Next]_vars, NEW s \in Sessions, writer = s, branches' # branches
    PROVE  Commit(s)
<1>1. s # None
  BY SessionsAssumption
<1>2. ASSUME NEW c \in Sessions, Begin(c) \/ Crash(c) PROVE UNCHANGED store
  BY <1>2 DEF Begin, Crash
<1>3. ASSUME NEW c \in Sessions, ApplyStep(c) PROVE c = s /\ (UNCHANGED store \/ Commit(c))
  BY <1>3, WriterSteps
<1>4. ASSUME NEW c \in Sessions, PointerStep(c) PROVE FALSE
  BY <1>1, <1>4, PointerSteps DEF LockFree
<1> QED
  BY <1>2, <1>3, <1>4, StoreSteps DEF store

(***************************************************************************)
(* Work with a request id is committed at most once, however often the     *)
(* request is delivered and whatever others do meanwhile, as long as the   *)
(* operations that are asked for never lead the program back to a root     *)
(* that it had left and nobody deletes the branch (tests/                  *)
(* agent_concurrency.rs: "the work happened once"; api.rs, ops_apply).     *)
(***************************************************************************)
THEOREM ForwardWorkHappensOnce ==
    ASSUME NEW Later, NeverBack(Later), NeverDeleted
    PROVE  Spec => CommitsOnce
<1>1. Init => SerialSoFar /\ OnceInv(Later)
  BY DEF Init, SerialSoFar, OnceInv, RowStands, Labelled
<1>2. /\ Inv /\ Inv' /\ SerialSoFar /\ OnceInv(Later) /\ [Next]_vars
      => SerialSoFar' /\ OnceInv(Later)'
  <2> SUFFICES ASSUME Inv, Inv', SerialSoFar, OnceInv(Later), [Next]_vars
               PROVE  SerialSoFar' /\ OnceInv(Later)'
    OBVIOUS
  <2>1. SerialSoFar'
    BY SerialSoFarStep
  <2>2. \A h \in histories' : Climbs(Later, h)
    BY HistoriesClimb
  <2>3. writer' # None => WorkClimbs(Later)'
    BY <2>1, WorkClimbsStep
  <2>4. \A id \in Ids : RowStands(Later, id)'
    BY RowStandsStep
  <2>5. \A s \in Sessions : Labelled(s)'
    BY LabelledStep DEF OnceInv, Inv
  <2> QED
    BY <2>1, <2>2, <2>3, <2>4, <2>5 DEF OnceInv
<1>3. /\ Inv /\ SerialSoFar /\ OnceInv(Later) /\ [Next]_vars
      => [\A s \in Sessions :
            /\ writer = s /\ branches' # branches
            /\ req[s].kind = "ops.apply" /\ req[s].id # None
            => transactions[req[s].id] = None]_vars
  <2> SUFFICES ASSUME Inv, SerialSoFar, OnceInv(Later), [Next]_vars,
                      NEW s \in Sessions, writer = s, branches' # branches,
                      req[s].kind = "ops.apply", req[s].id # None
               PROVE  transactions[req[s].id] = None
    OBVIOUS
  <2>1. Commit(s)
    BY WriterCommits DEF Inv
  <2> QED
    BY <2>1, NotTwice
<1> QED
  BY <1>1, <1>2, <1>3, Invariance, PTL DEF Spec, CommitsOnce
=============================================================================
