------------------------- MODULE ArtifactJobsProofs -------------------------
(***************************************************************************)
(* Proofs about the job table for any number of builds, keys, stages and   *)
(* cache evictions.                                                        *)
(***************************************************************************)
EXTENDS ArtifactJobsProperties, TLAPS

(***************************************************************************)
(* What the statements write is a row of the table.                        *)
(***************************************************************************)
LEMMA RowsAreJobs ==
    /\ Queued \in Job
    /\ Observed \in Job
    /\ \A b \in Builders : Running(b) \in Job
    /\ \A job \in Job : Seen(job) \in Job
    /\ \A job \in Job, e \in BOOLEAN, st \in Statuses : Ending(job, st, e) \in Job
<1>1. Queued \in Job /\ Observed \in Job
  BY DEF Queued, Observed, Job, Statuses
<1>2. ASSUME NEW b \in Builders PROVE Running(b) \in Job
  BY DEF Running, Job, Statuses
<1>3. ASSUME NEW job \in Job PROVE Seen(job) \in Job
  BY DEF Seen, Job, Statuses
<1>4. ASSUME NEW job \in Job, NEW e \in BOOLEAN, NEW st \in Statuses
      PROVE Ending(job, st, e) \in Job
  BY DEF Ending, Job
<1> QED
  BY <1>1, <1>2, <1>3, <1>4

(***************************************************************************)
(* A job that somebody owns is a row of the table.                         *)
(***************************************************************************)
LEMMA OwnedIsJob ==
    ASSUME TypeOK, NEW k \in Keys, StatusOf(k) # "absent"
    PROVE  jobs[k] \in Job
  BY DEF TypeOK, StatusOf

(***************************************************************************)
(* The three kinds of assignment that the steps are made of keep types.    *)
(***************************************************************************)
LEMMA GotoTyped ==
    ASSUME TypeOK, NEW b \in Builders, NEW label \in Labels, Goto(b, label)
    PROVE  pc' \in [Builders -> Labels]
  BY DEF TypeOK, Goto

(***************************************************************************)
(* A step that moves one key of one process to another phase.              *)
(***************************************************************************)
LEMMA SetTyped ==
    ASSUME TypeOK, NEW b \in Builders, NEW k \in Keys, NEW p \in Phases,
           Set(b, k, p)
    PROVE  phase' \in [Builders -> [Keys -> Phases]]
  BY DEF TypeOK, Set

(***************************************************************************)
(* A step that writes one row.                                             *)
(***************************************************************************)
LEMMA WriteTyped ==
    ASSUME TypeOK, NEW k \in Keys, NEW job \in Job,
           jobs' = [jobs EXCEPT ![k] = job]
    PROVE  jobs' \in [Keys -> Job \cup {None}]
  BY DEF TypeOK

(***************************************************************************)
(* The start of the builds is well typed.                                  *)
(***************************************************************************)
LEMMA TypeInit == Init => TypeOK
  BY EvictionsAssumption, StagesAssumption DEF Init, TypeOK, Labels, Ended, Phases

(***************************************************************************)
(* Every statement of a build, a waiter or a planner keeps the types.      *)
(***************************************************************************)
LEMMA TypeStep == TypeOK /\ [Next]_vars => TypeOK'
<1> SUFFICES ASSUME TypeOK, [Next]_vars PROVE TypeOK'
  OBVIOUS
<1> USE DEF Labels, Ended, Phases, tables, locals
<1>1. ASSUME NEW b \in Builders, Lookup(b) PROVE TypeOK'
  <2>1. PICK k \in Keys : Lookup(b)!2!(k)
    BY <1>1 DEF Lookup
  <2>2. phase' \in [Builders -> [Keys -> Phases]]
    BY <2>1, SetTyped DEF TypeOK
  <2>3. pc' \in [Builders -> Labels]
    BY <2>1, GotoTyped DEF TypeOK
  <2>4. cached' \subseteq Builders
    BY <2>1 DEF TypeOK
  <2> QED
    BY <1>1, <2>2, <2>3, <2>4 DEF TypeOK, Lookup
<1>2. ASSUME NEW b \in Builders, Claim(b) PROVE TypeOK'
  <2>1. PICK k \in Keys : Claim(b)!2!(k)
    BY <1>2 DEF Claim
  <2>2. phase' \in [Builders -> [Keys -> Phases]]
    BY <2>1, SetTyped DEF TypeOK
  <2>3. jobs' \in [Keys -> Job \cup {None}]
    BY <2>1, WriteTyped, RowsAreJobs DEF TypeOK
  <2>4. pc' \in [Builders -> Labels]
    BY <1>2, GotoTyped DEF Claim
  <2> QED
    BY <1>2, <2>2, <2>3, <2>4 DEF TypeOK, Claim
<1>3. ASSUME NEW b \in Builders, LookedUp(b) PROVE TypeOK'
  BY <1>3, GotoTyped DEF LookedUp, TypeOK
<1>4. ASSUME NEW b \in Builders, Compile(b) PROVE TypeOK'
  BY <1>4, GotoTyped DEF Compile, TypeOK
<1>5. ASSUME NEW b \in Builders, Complete(b) PROVE TypeOK'
  <2>1. PICK k \in Keys : Complete(b)!2!(k)
    BY <1>5 DEF Complete
  <2>2. phase' \in [Builders -> [Keys -> Phases]]
    BY <2>1, SetTyped DEF TypeOK
  <2>3. jobs' \in [Keys -> Job \cup {None}]
    <3>1. CASE Complete(b)!2!(k)!2!1
      <4>1. Ending(jobs[k], "succeeded", FALSE) \in Job
        BY <3>1, OwnedIsJob, RowsAreJobs DEF Owns, Statuses
      <4> QED
        BY <3>1, <4>1, WriteTyped
    <3>2. CASE UNCHANGED jobs
      BY <3>2 DEF TypeOK
    <3> QED
      BY <2>1, <3>1, <3>2
  <2>4. pc' \in [Builders -> Labels]
    BY <2>1, GotoTyped
  <2> QED
    BY <1>5, <2>2, <2>3, <2>4 DEF TypeOK, Complete
<1>6. ASSUME NEW b \in Builders, Fail(b) PROVE TypeOK'
  <2>1. PICK k \in Keys : Fail(b)!2!(k)
    BY <1>6 DEF Fail
  <2>2. phase' \in [Builders -> [Keys -> Phases]]
    BY <2>1, SetTyped
  <2>3. jobs' \in [Keys -> Job \cup {None}]
    <3>1. CASE Fail(b)!2!(k)!2!1
      <4>1. Ending(jobs[k], "failed", TRUE) \in Job
        BY <3>1, OwnedIsJob, RowsAreJobs DEF Owns, Statuses
      <4> QED
        BY <3>1, <4>1, WriteTyped
    <3>2. CASE UNCHANGED jobs
      BY <3>2 DEF TypeOK
    <3> QED
      BY <2>1, <3>1, <3>2
  <2>4. pc' \in [Builders -> Labels]
    BY <1>6, GotoTyped DEF Fail
  <2> QED
    BY <1>6, <2>2, <2>3, <2>4 DEF TypeOK, Fail
<1>7. ASSUME NEW b \in Builders, Compiled(b) PROVE TypeOK'
  BY <1>7, GotoTyped DEF Compiled, TypeOK
<1>8. ASSUME NEW b \in Builders, Wait(b) PROVE TypeOK'
  <2>1. PICK k \in Keys : Wait(b)!2!(k)
    BY <1>8 DEF Wait
  <2>2. phase' \in [Builders -> [Keys -> Phases]]
    BY <2>1, SetTyped DEF TypeOK
  <2>3. pc' \in [Builders -> Labels]
    BY <2>1, GotoTyped DEF TypeOK
  <2>4. expired' \subseteq Builders
    BY <2>1 DEF TypeOK
  <2> QED
    BY <1>8, <2>2, <2>3, <2>4 DEF TypeOK, Wait
<1>9. ASSUME NEW b \in Builders, Record(b) PROVE TypeOK'
  <2>1. pc' \in [Builders -> Labels]
    BY <1>9 DEF Record, Goto, TypeOK
  <2> QED
    BY <1>9, <2>1 DEF Record, TypeOK
<1>10. ASSUME NEW b \in Builders, Requeue(b) PROVE TypeOK'
  BY <1>10, RowsAreJobs, GotoTyped, WriteTyped DEF Requeue, TypeOK
<1>11. ASSUME NEW b \in Builders, NextStage(b) PROVE TypeOK'
  <2>1. pc' \in [Builders -> Labels]
    BY <1>11, GotoTyped DEF NextStage
  <2>2. phase' \in [Builders -> [Keys -> Phases]]
    <3>1. [k \in Keys |-> "todo"] \in [Keys -> Phases]
      OBVIOUS
    <3>2. CASE UNCHANGED phase
      BY <3>2 DEF TypeOK
    <3>3. CASE phase' = [phase EXCEPT ![b] = [k \in Keys |-> "todo"]]
      <4> HIDE DEF Phases
      <4> QED
        BY <3>1, <3>3 DEF TypeOK
    <3> QED
      BY <1>11, <3>2, <3>3 DEF NextStage
  <2>3. stage' \in [Builders -> Nat]
    BY <1>11 DEF NextStage, TypeOK
  <2>4. \A c \in Builders : stage'[c] \in DOMAIN Stages[c]
    BY <1>11, StagesAssumption DEF NextStage, TypeOK
  <2> QED
    BY <1>11, <2>1, <2>2, <2>3, <2>4 DEF NextStage, TypeOK
<1>12. ASSUME NEW b \in Builders, Insert(b) PROVE TypeOK'
  <2>1. PICK k \in Keys : Insert(b)!2!(k)
    BY <1>12 DEF Insert
  <2>2. phase' \in [Builders -> [Keys -> Phases]]
    BY <2>1, SetTyped DEF TypeOK
  <2>3. jobs' \in [Keys -> Job \cup {None}]
    BY <2>1, WriteTyped, RowsAreJobs DEF TypeOK
  <2>4. pc' \in [Builders -> Labels]
    BY <2>1, GotoTyped
  <2> QED
    BY <1>12, <2>2, <2>3, <2>4 DEF TypeOK, Insert
<1>13. ASSUME NEW b \in Builders, Observe(b) PROVE TypeOK'
  <2>1. PICK k \in Keys : Observe(b)!2!(k)
    BY <1>13 DEF Observe
  <2>2. phase' \in [Builders -> [Keys -> Phases]]
    BY <2>1, SetTyped
  <2>3. jobs' \in [Keys -> Job \cup {None}]
    <3>1. CASE Observable(jobs[k])
      <4>1. Seen(jobs[k]) \in Job
        BY <3>1, RowsAreJobs DEF TypeOK, Observable
      <4> QED
        BY <2>1, <3>1, <4>1, WriteTyped
    <3>2. CASE ~Observable(jobs[k])
      BY <2>1, <3>2 DEF TypeOK
    <3> QED
      BY <3>1, <3>2
  <2>4. pc' \in [Builders -> Labels]
    BY <1>13, GotoTyped DEF Observe
  <2> QED
    BY <1>13, <2>2, <2>3, <2>4 DEF TypeOK, Observe
<1>14. ASSUME NEW b \in Builders, Expire(b) PROVE TypeOK'
  BY <1>14 DEF Expire, TypeOK
<1>15. ASSUME NEW b \in Builders, Crash(b) PROVE TypeOK'
  BY <1>15, GotoTyped DEF Crash, TypeOK
<1>16. ASSUME NEW k \in Keys, Evict(k) PROVE TypeOK'
  BY <1>16, EvictionsAssumption DEF Evict, TypeOK
<1>17. CASE UNCHANGED vars
  BY <1>17 DEF vars, TypeOK
<1> QED
  BY <1>1, <1>2, <1>3, <1>4, <1>5, <1>6, <1>7, <1>8, <1>9, <1>10, <1>11,
     <1>12, <1>13, <1>14, <1>15, <1>16, <1>17 DEF Next, Step

(***************************************************************************)
(* Every variable keeps its type (schema.sql, tables artifact_jobs and     *)
(* compile_cache).                                                         *)
(***************************************************************************)
THEOREM TypeCorrect == Spec => []TypeOK
  BY TypeInit, TypeStep, PTL DEF Spec

-----------------------------------------------------------------------------
(***************************************************************************)
(* A step of b starts where b is not over, and it touches the stage, the   *)
(* phases and the place of no other process.                               *)
(***************************************************************************)
LEMMA StepFrame ==
    ASSUME TypeOK, NEW b \in Builders, Step(b), NEW c \in Builders
    PROVE  /\ pc[b] \notin Ended
           /\ c # b => pc'[c] = pc[c] /\ phase'[c] = phase[c] /\ stage'[c] = stage[c]
<1> USE DEF Ended, Goto, Set, locals, TypeOK
<1>1. CASE Lookup(b) \/ Claim(b) \/ LookedUp(b)
  BY <1>1 DEF Lookup, Claim, LookedUp
<1>2. CASE Compile(b) \/ Complete(b) \/ Fail(b) \/ Compiled(b)
  BY <1>2 DEF Compile, Complete, Fail, Compiled
<1>3. CASE Wait(b) \/ Record(b) \/ Requeue(b) \/ NextStage(b)
  BY <1>3 DEF Wait, Record, Requeue, NextStage
<1>4. CASE Insert(b) \/ Observe(b)
  BY <1>4 DEF Insert, Observe
<1> QED
  BY <1>1, <1>2, <1>3, <1>4 DEF Step

(***************************************************************************)
(* What a step may do to a row: claim it when it is claimable, end it when *)
(* the process owns it, queue it again when its artifact is missing, or    *)
(* write what a planner saw when nobody is at work on it.                  *)
(***************************************************************************)
RowStep(b, k) ==
    \/ /\ Claim(b) /\ Claimable(k)
       /\ First(b, "todo", k)
       /\ jobs' = [jobs EXCEPT ![k] = Running(b)]
    \/ /\ Complete(b) /\ Owns(b, k)
       /\ First(b, "claimed", k) /\ phase' = [phase EXCEPT ![b][k] = "ready"]
       /\ jobs' = [jobs EXCEPT ![k] = Ending(@, "succeeded", FALSE)]
    \/ /\ Fail(b) /\ Owns(b, k)
       /\ First(b, "claimed", k) /\ phase' = [phase EXCEPT ![b][k] = "ready"]
       /\ jobs' = [jobs EXCEPT ![k] = Ending(@, "failed", TRUE)]
    \/ /\ Requeue(b) /\ Missing(k)
       /\ jobs' = [jobs EXCEPT ![k] = Queued]
    \/ /\ Insert(b) /\ First(b, "todo", k) /\ jobs[k] = None
       /\ jobs' = [jobs EXCEPT ![k] = IF b \in cached THEN Observed ELSE Queued]
    \/ /\ Observe(b) /\ First(b, "todo", k) /\ Observable(jobs[k])
       /\ jobs' = [jobs EXCEPT ![k] = Seen(@)]

(***************************************************************************)
(* The statements that change a row, each with the process that runs it    *)
(* and what it knows of the row.                                           *)
(***************************************************************************)
LEMMA JobsChange ==
    ASSUME TypeOK, NEW b \in Builders, Step(b), jobs' # jobs
    PROVE  \E k \in Keys : RowStep(b, k)
<1>1. Claim(b) \/ Complete(b) \/ Fail(b) \/ Requeue(b) \/ Insert(b) \/ Observe(b)
  BY DEF Step, Lookup, LookedUp, Compile, Compiled, Wait, Record, NextStage,
         tables
<1>2. CASE Claim(b)
  BY <1>2 DEF Claim, RowStep
<1>3. CASE Complete(b)
  BY <1>3 DEF Complete, RowStep, Set
<1>4. CASE Fail(b)
  BY <1>4 DEF Fail, RowStep, Set
<1>5. CASE Requeue(b)
  BY <1>5 DEF Requeue, RowStep
<1>6. CASE Insert(b)
  BY <1>6 DEF Insert, RowStep
<1>7. CASE Observe(b)
  BY <1>7 DEF Observe, RowStep
<1> QED
  BY <1>1, <1>2, <1>3, <1>4, <1>5, <1>6, <1>7

(***************************************************************************)
(* Only a step of a process changes the job table.                         *)
(***************************************************************************)
LEMMA OthersKeepJobs ==
    ASSUME [Next]_vars, jobs' # jobs
    PROVE  \E b \in Builders : Step(b)
  BY DEF Next, Expire, Crash, Evict, tables, vars

(***************************************************************************)
(* A row that changes changes by one of the above.                         *)
(***************************************************************************)
LEMMA RowChanges ==
    ASSUME TypeOK, [Next]_vars, NEW k \in Keys, jobs'[k] # jobs[k]
    PROVE  \E b \in Builders : RowStep(b, k)
<1>1. PICK b \in Builders : Step(b)
  BY OthersKeepJobs
<1>2. PICK key \in Keys : RowStep(b, key)
  BY <1>1, JobsChange
<1>3. \A j \in Keys \ {key} : jobs'[j] = jobs[j]
  BY <1>2 DEF RowStep, TypeOK
<1> QED
  BY <1>2, <1>3

-----------------------------------------------------------------------------
(* One owner per job.                                                      *)

(***************************************************************************)
(* Whoever is past a claim after a step was past it before, the claimer    *)
(* aside.                                                                  *)
(***************************************************************************)
Holds(c, k) == pc[c] \notin Ended /\ phase[c][k] = "claimed"

(***************************************************************************)
(* What a process holds after its own step it held before, or has just     *)
(* claimed.                                                                *)
(***************************************************************************)
LEMMA HoldsBefore ==
    ASSUME TypeOK, NEW b \in Builders, Step(b),
           NEW c \in Builders, NEW k \in Keys, Holds(c, k)'
    PROVE  Holds(c, k) \/ (c = b /\ jobs' = [jobs EXCEPT ![k] = Running(b)])
<1>1. pc[c] \notin Ended
  BY StepFrame DEF Holds
<1>2. CASE c # b
  BY <1>1, <1>2, StepFrame DEF Holds
<1>3. CASE c = b
  <2> USE DEF Set, Holds, locals, TypeOK
  <2>1. CASE Claim(b)
    BY <1>1, <1>3, <2>1 DEF Claim
  <2>2. CASE Lookup(b) \/ LookedUp(b) \/ Compile(b) \/ Compiled(b)
    BY <1>1, <1>3, <2>2 DEF Lookup, LookedUp, Compile, Compiled
  <2>3. CASE Complete(b) \/ Fail(b)
    <3>1. PICK key \in Keys : UNCHANGED phase \/ Set(b, key, "ready")
      BY <2>3 DEF Complete, Fail
    <3>2. phase'[b][k] = phase[b][k] \/ phase'[b][k] = "ready"
      BY <3>1
    <3> QED
      BY <1>1, <1>3, <3>2
  <2>4. CASE Wait(b) \/ Record(b) \/ Requeue(b) \/ NextStage(b)
    BY <1>1, <1>3, <2>4 DEF Wait, Record, Requeue, NextStage
  <2>5. CASE Insert(b) \/ Observe(b)
    BY <1>1, <1>3, <2>5 DEF Insert, Observe
  <2> QED
    BY <2>1, <2>2, <2>3, <2>4, <2>5 DEF Step
<1> QED
  BY <1>2, <1>3

(***************************************************************************)
(* No statement takes a running job from its worker.                       *)
(***************************************************************************)
LEMMA OwnershipStep ==
    TypeOK /\ ClaimedIsOwned /\ [Next]_vars => ClaimedIsOwned'
<1> SUFFICES ASSUME TypeOK, ClaimedIsOwned, [Next]_vars,
                    NEW c \in Builders, NEW k \in Keys, Holds(c, k)'
             PROVE  Owns(c, k)'
  BY DEF ClaimedIsOwned, Holds
<1>1. ASSUME NEW b \in Builders, Step(b) PROVE Owns(c, k)'
  <2>1. CASE c = b /\ jobs' = [jobs EXCEPT ![k] = Running(b)]
    BY <2>1, RowsAreJobs, JobsAssumption
    DEF Owns, StatusOf, Running, TypeOK, Job
  <2>2. CASE Holds(c, k)
    <3>1. Owns(c, k)
      BY <2>2 DEF ClaimedIsOwned, Holds
    <3>2. CASE jobs'[k] = jobs[k]
      BY <3>1, <3>2 DEF Owns, StatusOf
    <3>3. CASE jobs'[k] # jobs[k]
      <4>1. PICK a \in Builders : RowStep(a, k)
        BY <3>3, RowChanges
      <4>2. ~Claimable(k) /\ ~Missing(k) /\ jobs[k] # None /\ ~Observable(jobs[k])
        BY <3>1 DEF Owns, StatusOf, Claimable, Missing, Observable
      <4>3. Owns(a, k) /\ phase' = [phase EXCEPT ![a][k] = "ready"]
        BY <4>1, <4>2 DEF RowStep
      <4>4. a = c
        BY <3>1, <4>3 DEF Owns
      <4> QED
        BY <4>3, <4>4 DEF Holds, TypeOK
    <3> QED
      BY <3>2, <3>3
  <2> QED
    BY <1>1, <2>1, <2>2, HoldsBefore
<1>2. CASE ~\E b \in Builders : Step(b)
  <2>1. UNCHANGED jobs
    BY <1>2, OthersKeepJobs
  <2>2. Holds(c, k)
    BY <1>2 DEF Next, Expire, Crash, Evict, Goto, Ended, locals, vars, Holds,
                TypeOK
  <2> QED
    BY <2>1, <2>2 DEF ClaimedIsOwned, Holds, Owns, StatusOf
<1> QED
  BY <1>1, <1>2

(***************************************************************************)
(* As long as a process has a claimed job, the row says that this process  *)
(* runs it (jobs.rs, claim_artifact_job): never two owners.                *)
(***************************************************************************)
THEOREM OneOwner == Spec => []ClaimedIsOwned
<1>1. Init => ClaimedIsOwned
  BY DEF Init, ClaimedIsOwned
<1> QED
  BY <1>1, TypeCorrect, OwnershipStep, PTL DEF Spec

-----------------------------------------------------------------------------
(* What the rows say.                                                      *)

(***************************************************************************)
(* Every statement that writes a row writes one that verify accepts.       *)
(***************************************************************************)
LEMMA RowsVerifyStep ==
    TypeOK /\ JobRowsVerify /\ [Next]_vars => JobRowsVerify'
<1> SUFFICES ASSUME TypeOK, JobRowsVerify, [Next]_vars,
                    NEW k \in Keys, jobs'[k] # None
             PROVE  JobVerifies(jobs'[k])
  BY DEF JobRowsVerify
<1>1. CASE jobs'[k] = jobs[k]
  BY <1>1 DEF JobRowsVerify
<1>2. CASE jobs'[k] # jobs[k]
  <2>1. PICK b \in Builders : RowStep(b, k)
    BY <1>2, RowChanges
  <2>2. jobs[k] # None => jobs[k] \in Job /\ JobVerifies(jobs[k])
    BY DEF JobRowsVerify, TypeOK
  <2>3. CASE jobs'[k] = Running(b)
    BY <2>3, BuildersAssumption DEF Running, JobVerifies
  <2>4. CASE jobs'[k] \in {Queued, Observed}
    BY <2>4, BuildersAssumption DEF Queued, Observed, JobVerifies
  <2>5. CASE Owns(b, k) /\ jobs'[k] \in {Ending(jobs[k], "succeeded", FALSE),
                                         Ending(jobs[k], "failed", TRUE)}
    BY <2>2, <2>5 DEF Owns, StatusOf, Ending, JobVerifies, Job
  <2>6. CASE Observable(jobs[k]) /\ jobs'[k] = Seen(jobs[k])
    BY <2>2, <2>6, BuildersAssumption DEF Observable, Seen, JobVerifies, Job, Statuses
  <2> QED
    BY <2>1, <2>3, <2>4, <2>5, <2>6 DEF RowStep, TypeOK
<1> QED
  BY <1>1, <1>2

(***************************************************************************)
(* Every row is one that `codedb verify` accepts, whoever wrote it.        *)
(***************************************************************************)
THEOREM RowsVerify == Spec => []JobRowsVerify
<1>1. Init => JobRowsVerify
  BY DEF Init, JobRowsVerify
<1> QED
  BY <1>1, TypeCorrect, RowsVerifyStep, PTL DEF Spec

(***************************************************************************)
(* A job that succeeded and whose artifact is in the cache stays so,       *)
(* although builds and waiters act on lookups made earlier.                *)
(***************************************************************************)
THEOREM CachedWorkStays == Spec => CachedWorkKept
<1>1. ASSUME TypeOK, [Next]_vars, NEW k \in Keys,
             StatusOf(k) = "succeeded", k \in cache
      PROVE  StatusOf(k)' = "succeeded"
  <2>1. jobs'[k] = jobs[k]
    <3> SUFFICES ASSUME jobs'[k] # jobs[k] PROVE FALSE
      OBVIOUS
    <3>1. PICK b \in Builders : RowStep(b, k)
      BY <1>1, RowChanges
    <3> QED
      BY <1>1, <3>1
      DEF RowStep, Claimable, Missing, Owns, Observable, StatusOf
  <2> QED
    BY <1>1, <2>1 DEF StatusOf
<1>2. TypeOK /\ [Next]_vars => [KeepsCachedWork]_vars
  BY <1>1 DEF KeepsCachedWork
<1> QED
  BY <1>2, TypeCorrect, PTL DEF Spec, CachedWorkKept

-----------------------------------------------------------------------------
(* Success means cached.                                                   *)

(***************************************************************************)
(* A stage has one first key in a phase.                                   *)
(***************************************************************************)
LEMMA FirstIsOne ==
    ASSUME TypeOK, NEW b \in Builders, NEW p, NEW k, NEW j,
           First(b, p, k), First(b, p, j)
    PROVE  k = j
<1> DEFINE keys == Stages[b][stage[b]]
<1>1. keys \in Seq(Keys)
  BY StagesAssumption DEF TypeOK
<1>2. PICK m \in DOMAIN keys : /\ keys[m] = k /\ phase[b][keys[m]] = p
                               /\ \A i \in 1 .. m - 1 : phase[b][keys[i]] # p
  BY DEF First
<1>3. PICK n \in DOMAIN keys : /\ keys[n] = j /\ phase[b][keys[n]] = p
                               /\ \A i \in 1 .. n - 1 : phase[b][keys[i]] # p
  BY DEF First
<1>4. m \in 1 .. Len(keys) /\ n \in 1 .. Len(keys)
  BY <1>1
<1>5. m = n
  <2> HIDE DEF keys
  <2>1. ~(m < n) /\ ~(n < m)
    BY <1>2, <1>3, <1>4
  <2> QED
    BY <1>4, <2>1
<1> QED
  BY <1>2, <1>3, <1>5

(***************************************************************************)
(* SucceededIsCached is not inductive: it needs what a process knows       *)
(* between storing an artifact and completing its job, and a planner       *)
(* between its lookup and its two statements.                              *)
(***************************************************************************)
Stored(b) ==
    pc[b] = "complete" => \A k \in Keys : First(b, "claimed", k) => k \in cache

Looked(b) ==
    /\ pc[b] = "observe" => b \in cached
    /\ b \in cached /\ pc[b] \in {"insert", "observe"} =>
         \A k \in Keys : First(b, "todo", k) => k \in cache

CacheInv ==
    evictions = 0 =>
        /\ \A k \in Keys : StatusOf(k) = "succeeded" => k \in cache
        /\ \A b \in Builders : Stored(b) /\ Looked(b)

(***************************************************************************)
(* The cache only grows, as long as nobody deletes from it.                *)
(***************************************************************************)
LEMMA CacheGrows ==
    ASSUME TypeOK, [Next]_vars, evictions' = 0
    PROVE  evictions = 0 /\ cache \subseteq cache'
<1>1. CASE \E k \in Keys : Evict(k)
  BY <1>1 DEF Evict, TypeOK
<1>2. CASE UNCHANGED <<cache, evictions>>
  BY <1>2
<1>3. ASSUME NEW b \in Builders, Compile(b)
      PROVE  cache \subseteq cache' /\ UNCHANGED evictions
  BY <1>3 DEF Compile
<1> QED
  BY <1>1, <1>2, <1>3
  DEF Next, Step, Lookup, Claim, LookedUp, Complete, Fail, Compiled, Wait,
      Record, Requeue, NextStage, Insert, Observe, Expire, Crash, tables, vars

(***************************************************************************)
(* A process that is about to complete a job has stored its artifact.      *)
(***************************************************************************)
LEMMA StoredStep ==
    ASSUME TypeOK, CacheInv, [Next]_vars, evictions' = 0, NEW b \in Builders
    PROVE  Stored(b)'
<1> SUFFICES ASSUME pc'[b] = "complete", NEW k \in Keys, First(b, "claimed", k)'
             PROVE  k \in cache'
  BY DEF Stored
<1>1. CASE Compile(b)
  <2>1. PICK key \in Keys : First(b, "claimed", key) /\ key \in cache'
    BY <1>1 DEF Compile, Goto, TypeOK
  <2>2. First(b, "claimed", k)
    BY <1>1 DEF Compile, First, locals
  <2> QED
    BY <2>1, <2>2, FirstIsOne
<1>2. CASE ~Compile(b)
  <2>1. pc[b] = "complete" /\ phase'[b] = phase[b] /\ stage'[b] = stage[b]
    <3>1. CASE Step(b)
      BY <1>2, <3>1
      DEF Step, Lookup, Claim, LookedUp, Complete, Fail, Compiled, Wait, Record,
          Requeue, NextStage, Insert, Observe, Goto, TypeOK
    <3>2. ASSUME NEW c \in Builders, c # b, Step(c)
          PROVE  <2>1
      BY <3>2, StepFrame
    <3>3. CASE ~\E c \in Builders : Step(c)
      BY <3>3 DEF Next, Expire, Crash, Evict, Goto, locals, vars, TypeOK
    <3> QED
      BY <3>1, <3>2, <3>3
  <2>2. First(b, "claimed", k)
    BY <2>1 DEF First
  <2> QED
    BY <2>1, <2>2, CacheGrows DEF CacheInv, Stored
<1> QED
  BY <1>1, <1>2

(***************************************************************************)
(* A planner that remembers a hit is at a key that is cached.              *)
(***************************************************************************)
LEMMA LookedStep ==
    ASSUME TypeOK, CacheInv, [Next]_vars, evictions' = 0, NEW b \in Builders
    PROVE  Looked(b)'
<1>3. ASSUME NEW c \in Builders, c # b, Step(c)
      PROVE  b \in cached' <=> b \in cached
  BY <1>3
  DEF Step, Lookup, Claim, LookedUp, Compile, Complete, Fail, Compiled,
      Wait, Record, Requeue, NextStage, Insert, Observe, locals
<1>4. pc'[b] = "observe" => b \in cached'
  <2>1. CASE Step(b)
    BY <2>1
    DEF CacheInv, Looked, Step, Lookup, Claim, LookedUp, Compile, Complete, Fail,
        Compiled, Wait, Record, Requeue, NextStage, Insert, Observe, Goto,
        TypeOK, locals
  <2>2. ASSUME NEW c \in Builders, c # b, Step(c)
        PROVE  <1>4
    BY <1>3, <2>2, StepFrame, CacheGrows DEF CacheInv, Looked
  <2>3. CASE ~\E c \in Builders : Step(c)
    BY <2>3, CacheGrows
    DEF CacheInv, Looked, Next, Expire, Crash, Evict, Goto, locals, vars, TypeOK
  <2> QED
    BY <2>1, <2>2, <2>3
<1> SUFFICES ASSUME b \in cached', pc'[b] \in {"insert", "observe"},
                    NEW k \in Keys, First(b, "todo", k)'
             PROVE  k \in cache'
  BY <1>4 DEF Looked
<1>1. CASE Lookup(b)
  <2>1. PICK key \in Keys : /\ First(b, "todo", key)
                            /\ cached' = IF key \in cache THEN cached \cup {b}
                                         ELSE cached \ {b}
                            /\ UNCHANGED phase
    BY <1>1 DEF Lookup, Goto, TypeOK
  <2>2. First(b, "todo", k)
    BY <1>1, <2>1 DEF Lookup, First
  <2> QED
    BY <2>1, <2>2, FirstIsOne, CacheGrows
<1>2. CASE ~Lookup(b)
  <2>1. /\ b \in cached /\ pc[b] \in {"insert", "observe"}
        /\ phase'[b] = phase[b] /\ stage'[b] = stage[b]
    <3>1. CASE Step(b)
      BY <1>2, <3>1
      DEF Step, Claim, LookedUp, Compile, Complete, Fail, Compiled, Wait, Record,
          Requeue, NextStage, Insert, Observe, Goto, locals, TypeOK
    <3>2. ASSUME NEW c \in Builders, c # b, Step(c)
          PROVE  <2>1
      BY <1>3, <3>2, StepFrame
    <3>3. CASE ~\E c \in Builders : Step(c)
      BY <3>3 DEF Next, Expire, Crash, Evict, Goto, locals, vars, TypeOK
    <3> QED
      BY <3>1, <3>2, <3>3
  <2>2. First(b, "todo", k)
    BY <2>1 DEF First
  <2> QED
    BY <2>1, <2>2, CacheGrows DEF CacheInv, Looked
<1> QED
  BY <1>1, <1>2

(***************************************************************************)
(* The three parts of the invariant together, while nothing is evicted.    *)
(***************************************************************************)
LEMMA CacheInvStep == TypeOK /\ CacheInv /\ [Next]_vars => CacheInv'
<1> SUFFICES ASSUME TypeOK, CacheInv, [Next]_vars, evictions' = 0
             PROVE  CacheInv'
  BY DEF CacheInv
<1>1. ASSUME NEW k \in Keys, StatusOf(k)' = "succeeded" PROVE k \in cache'
  <2>1. CASE jobs'[k] = jobs[k]
    BY <1>1, <2>1, CacheGrows DEF CacheInv, StatusOf
  <2>2. CASE jobs'[k] # jobs[k]
    <3>1. PICK b \in Builders : RowStep(b, k)
      BY <2>2, RowChanges
    <3>2. CASE jobs'[k] \in {Running(b), Queued}
      BY <1>1, <3>2 DEF StatusOf, Running, Queued
    <3>6. CASE Owns(b, k) /\ jobs'[k] = Ending(jobs[k], "failed", TRUE)
      <4>1. jobs[k] \in Job
        BY <3>6, OwnedIsJob DEF Owns
      <4> QED
        BY <1>1, <3>6, <4>1 DEF StatusOf, Ending, Job
    <3>3. CASE Complete(b) /\ First(b, "claimed", k)
      BY <3>3, CacheGrows DEF Complete, CacheInv, Stored
    <3>4. CASE Insert(b) /\ First(b, "todo", k) /\ b \in cached
      BY <3>4, CacheGrows DEF Insert, CacheInv, Looked
    <3>5. CASE Observe(b) /\ First(b, "todo", k)
      BY <3>5, CacheGrows DEF Observe, CacheInv, Looked
    <3> QED
      BY <3>1, <3>2, <3>3, <3>4, <3>5, <3>6 DEF RowStep, TypeOK
  <2> QED
    BY <2>1, <2>2
<1> QED
  BY <1>1, StoredStep, LookedStep DEF CacheInv

(***************************************************************************)
(* Unless somebody deleted an artifact, a job counts as succeeded only     *)
(* when its artifact can be read (jobs.rs, complete_artifact_job after     *)
(* write_cache_entry; ensure_artifact_job_for_cache_state).                *)
(***************************************************************************)
THEOREM SuccessIsCached == Spec => []SucceededIsCached
<1>1. Init => CacheInv
  BY DEF Init, CacheInv, Stored, Looked, StatusOf
<1>2. CacheInv => SucceededIsCached
  BY DEF CacheInv, SucceededIsCached
<1> QED
  BY <1>1, <1>2, TypeCorrect, CacheInvStep, PTL DEF Spec
=============================================================================
