---------------------------- MODULE ArtifactJobs ----------------------------
(***************************************************************************)
(* Artifact jobs: builds running in several processes share the work of    *)
(* compiling a program through two tables.  compile_cache holds finished   *)
(* artifacts and may be emptied by anybody at any time; artifact_jobs has  *)
(* one row per cache key that says who is working on it.                   *)
(*                                                                         *)
(* A build runs in stages: its native objects, then its link plan, then    *)
(* its executable.  In a stage it looks up and claims each key in order,   *)
(* then compiles and stores what it claimed, then waits for the others.    *)
(* The stage of the objects is emit_objects_for_symbols_parallel; for one  *)
(* key the same steps are those of the link plan, of the executable and of *)
(* the command that emits one object.  Every statement of SQL outside a    *)
(* transaction is a step.  A process is started once: a retry is another   *)
(* process.                                                                *)
(***************************************************************************)
EXTENDS Naturals, Sequences

CONSTANTS
    Keys,           \* cache keys
    Objects,        \* those of native objects
    Builders,       \* processes
    Kind,           \* Kind[b]: what b was started to do
    Stages,         \* Stages[b]: the keys b needs, stage by stage, in order
    MaxEvictions,   \* bound: cache entries deleted in all
    None

Observer == "worker:cache-observed"

ASSUME KeysAssumption == Objects \subseteq Keys
ASSUME BuildersAssumption == None \notin Builders /\ Observer \notin Builders
                             /\ None # Observer
ASSUME KindAssumption == Kind \in [Builders -> {"build", "emit", "plan"}]
ASSUME StagesAssumption == Stages \in [Builders -> Seq(Seq(Keys)) \ {<<>>}]
ASSUME EvictionsAssumption == MaxEvictions \in Nat

Statuses == {"queued", "running", "succeeded", "failed", "abandoned"}

(***************************************************************************)
(* A row of artifact_jobs.  The timestamps and the error are there or not. *)
(***************************************************************************)
Job == [status : Statuses, worker : Builders \cup {Observer, None},
        started : BOOLEAN, finished : BOOLEAN, error : BOOLEAN]

ASSUME JobsAssumption == None \notin Job

VARIABLES
    cache,      \* table compile_cache: the keys with an entry
    jobs,       \* table artifact_jobs: jobs[k] is a Job or None
    pc,         \* where each process is
    stage,      \* the stage it is in
    phase,      \* phase[b][k]: how far b is with k in this stage
    cached,     \* the planners whose last lookup found an entry
    failed,     \* the builds of which a job failed in this stage
    expired,    \* the builds whose wait is past the deadline
    evictions

tables == <<cache, jobs>>
locals == <<stage, phase, cached, failed, expired>>
vars == <<cache, jobs, pc, stage, phase, cached, failed, expired, evictions>>

Ended == {"done", "error", "dead"}
Labels == {"lookup", "claim", "insert", "observe", "compile", "complete",
           "fail", "wait", "record", "requeue"} \cup Ended
Phases == {"todo", "claimed", "waiting", "ready"}

TypeOK ==
    /\ cache \subseteq Keys
    /\ jobs \in [Keys -> Job \cup {None}]
    /\ pc \in [Builders -> Labels]
    /\ stage \in [Builders -> Nat]
    /\ \A b \in Builders : stage[b] \in DOMAIN Stages[b]
    /\ phase \in [Builders -> [Keys -> Phases]]
    /\ cached \subseteq Builders
    /\ failed \subseteq Builders
    /\ expired \subseteq Builders
    /\ evictions \in 0 .. MaxEvictions

(***************************************************************************)
(* What `codedb verify` asks of a row.                                     *)
(***************************************************************************)
JobVerifies(job) ==
    CASE job.status = "queued" ->
           job.worker = None /\ ~job.started /\ ~job.finished /\ ~job.error
      [] job.status = "running" ->
           job.worker # None /\ job.started /\ ~job.finished /\ ~job.error
      [] job.status = "succeeded" ->
           job.worker # None /\ job.started /\ job.finished /\ ~job.error
      [] OTHER ->
           job.worker # None /\ job.started /\ job.finished /\ job.error

Init ==
    /\ cache = {}
    /\ jobs = [k \in Keys |-> None]
    /\ pc = [b \in Builders |-> "lookup"]
    /\ stage = [b \in Builders |-> 1]
    /\ phase = [b \in Builders |-> [k \in Keys |-> "todo"]]
    /\ cached = {}
    /\ failed = {}
    /\ expired = {}
    /\ evictions = 0

-----------------------------------------------------------------------------
Goto(b, label) == pc' = [pc EXCEPT ![b] = label]

Set(b, k, p) == phase' = [phase EXCEPT ![b][k] = p]

(***************************************************************************)
(* k is the first key of b's stage that is in phase p.                     *)
(***************************************************************************)
First(b, p, k) ==
    LET keys == Stages[b][stage[b]] IN
    \E i \in DOMAIN keys :
        /\ keys[i] = k
        /\ phase[b][k] = p
        /\ \A j \in 1 .. i - 1 : phase[b][keys[j]] # p

NoneIn(b, p) ==
    \A i \in DOMAIN Stages[b][stage[b]] : phase[b][Stages[b][stage[b]][i]] # p

(***************************************************************************)
(* The row as the UPDATE and INSERT statements write it.                   *)
(***************************************************************************)
Queued == [status |-> "queued", worker |-> None,
           started |-> FALSE, finished |-> FALSE, error |-> FALSE]

Running(b) == [status |-> "running", worker |-> b,
               started |-> TRUE, finished |-> FALSE, error |-> FALSE]

Observed == [status |-> "succeeded", worker |-> Observer,
             started |-> TRUE, finished |-> TRUE, error |-> FALSE]

(* [Mutant: a success is spelt in a way nobody else knows.]                *)
EndingMisspelt(job, status, error) ==
    [job EXCEPT !.status = IF error THEN status ELSE "complete",
                !.finished = TRUE, !.error = error]

Ending(job, status, error) ==
    [job EXCEPT !.status = status, !.finished = TRUE, !.error = error]

StatusOf(k) == IF jobs[k] = None THEN "absent" ELSE jobs[k].status

Owns(b, k) == StatusOf(k) = "running" /\ jobs[k].worker = b

-----------------------------------------------------------------------------
(* Lookup and claim.                                                       *)

(***************************************************************************)
(* lookup_cache for the next key.  Preparing the key's input may fail, for *)
(* one object after others were claimed: the build returns at once, and    *)
(* the threads that compile those have nobody to report to.                *)
(***************************************************************************)
Lookup(b) ==
    /\ pc[b] = "lookup"
    /\ \E k \in Keys :
         /\ First(b, "todo", k)
         /\ \/ /\ Kind[b] # "plan" /\ k \in cache
               /\ Set(b, k, "ready")
               /\ UNCHANGED <<pc, cached>>
            \/ /\ Kind[b] # "plan" /\ k \notin cache
               /\ Goto(b, "claim")
               /\ UNCHANGED <<phase, cached>>
            \/ /\ Kind[b] = "plan"
               /\ cached' = IF k \in cache THEN cached \cup {b}
                            ELSE cached \ {b}
               /\ Goto(b, "insert")
               /\ UNCHANGED phase
            \/ /\ Goto(b, "error")
               /\ UNCHANGED <<phase, cached>>
    /\ UNCHANGED <<tables, stage, failed, expired, evictions>>

(***************************************************************************)
(* A job may be taken when nobody works on it, or when it succeeded and    *)
(* its cache entry is gone.  [Mutant: a running job may be taken.]         *)
(***************************************************************************)
StealableJob(k) == StatusOf(k) # "succeeded" \/ k \notin cache

Claimable(k) ==
    \/ StatusOf(k) \in {"absent", "queued", "failed", "abandoned"}
    \/ StatusOf(k) = "succeeded" /\ k \notin cache

(***************************************************************************)
(* claim_artifact_job, in a transaction.                                   *)
(***************************************************************************)
Claim(b) ==
    /\ pc[b] = "claim"
    /\ \E k \in Keys :
         /\ First(b, "todo", k)
         /\ \/ /\ Claimable(k)
               /\ jobs' = [jobs EXCEPT ![k] = Running(b)]
               /\ Set(b, k, "claimed")
            \/ /\ ~Claimable(k)
               /\ Set(b, k, "waiting")
               /\ UNCHANGED jobs
    /\ Goto(b, "lookup")
    /\ UNCHANGED <<cache, stage, cached, failed, expired, evictions>>

LookedUp(b) ==
    /\ pc[b] = "lookup"
    /\ NoneIn(b, "todo")
    /\ Goto(b, IF Kind[b] = "plan" THEN "done" ELSE "compile")
    /\ UNCHANGED <<tables, locals, evictions>>

-----------------------------------------------------------------------------
(* Compiling and storing what was claimed.                                 *)

(* [Mutant: the job is completed before its artifact is stored.]           *)
CompleteFirst(b) ==
    /\ pc[b] = "compile"
    /\ \E k \in Keys :
         /\ First(b, "claimed", k)
         /\ jobs' = [jobs EXCEPT ![k] = Ending(@, "succeeded", FALSE)]
         /\ Goto(b, "complete")
    /\ UNCHANGED <<cache, locals, evictions>>

(***************************************************************************)
(* The artifact is compiled and written to the cache, or one of the two    *)
(* fails.  The command that emits one object records a failed compilation, *)
(* not a failed write.                                                     *)
(***************************************************************************)
Compile(b) ==
    /\ pc[b] = "compile"
    /\ \E k \in Keys :
         /\ First(b, "claimed", k)
         /\ \/ cache' = cache \cup {k} /\ Goto(b, "complete")
            \/ Goto(b, "fail") /\ UNCHANGED cache
            \/ Kind[b] = "emit" /\ Goto(b, "error") /\ UNCHANGED cache
    /\ UNCHANGED <<jobs, locals, evictions>>

(***************************************************************************)
(* complete_artifact_job.  It is an error when b does not own the job; the *)
(* database may refuse too.  Only a batch of objects then records it.      *)
(***************************************************************************)
Complete(b) ==
    /\ pc[b] = "complete"
    /\ \E k \in Keys :
         /\ First(b, "claimed", k)
         /\ \/ /\ Owns(b, k)
               /\ jobs' = [jobs EXCEPT ![k] = Ending(@, "succeeded", FALSE)]
               /\ Set(b, k, "ready")
               /\ Goto(b, "compile")
            \/ /\ Goto(b, IF Kind[b] = "build" /\ k \in Objects
                            THEN "fail" ELSE "error")
               /\ UNCHANGED <<jobs, phase>>
    /\ UNCHANGED <<cache, stage, cached, failed, expired, evictions>>

(***************************************************************************)
(* fail_artifact_job, its own failure ignored.                             *)
(***************************************************************************)
Fail(b) ==
    /\ pc[b] = "fail"
    /\ \E k \in Keys :
         /\ First(b, "claimed", k)
         /\ \/ /\ Owns(b, k)
               /\ jobs' = [jobs EXCEPT ![k] = Ending(@, "failed", TRUE)]
            \/ UNCHANGED jobs
         /\ Set(b, k, "ready")
    /\ failed' = failed \cup {b}
    /\ Goto(b, "compile")
    /\ UNCHANGED <<cache, stage, cached, expired, evictions>>

Compiled(b) ==
    /\ pc[b] = "compile"
    /\ NoneIn(b, "claimed")
    /\ Goto(b, IF b \in failed THEN "error" ELSE "wait")
    /\ UNCHANGED <<tables, locals, evictions>>

-----------------------------------------------------------------------------
(* Waiting for what others claimed: wait_for_artifact_cache.               *)

Wait(b) ==
    /\ pc[b] = "wait"
    /\ \E k \in Keys :
         /\ First(b, "waiting", k)
         /\ \/ /\ k \in cache
               /\ Set(b, k, "ready")
               /\ expired' = expired \ {b}
               /\ UNCHANGED pc
            \/ /\ k \notin cache
               /\ Goto(b, "record")
               /\ UNCHANGED <<phase, expired>>
    /\ UNCHANGED <<tables, stage, cached, failed, evictions>>

(***************************************************************************)
(* The deadline of 30 seconds passes.  [Mutant: there is none.]            *)
(***************************************************************************)
NeverExpire(b) == FALSE

Expire(b) ==
    /\ pc[b] \in {"wait", "record", "requeue"}
    /\ ~NoneIn(b, "waiting")
    /\ b \notin expired
    /\ expired' = expired \cup {b}
    /\ UNCHANGED <<tables, pc, stage, phase, cached, failed, evictions>>

Record(b) ==
    /\ pc[b] = "record"
    /\ \E k \in Keys :
         /\ First(b, "waiting", k)
         /\ Goto(b, IF b \in expired THEN "error"
                    ELSE CASE StatusOf(k) \in {"failed", "abandoned"} -> "error"
                           [] StatusOf(k) = "succeeded" -> "requeue"
                           [] OTHER -> "wait")
    /\ UNCHANGED <<tables, locals, evictions>>

(***************************************************************************)
(* The job succeeded and the cache had no entry: it was deleted, or it was *)
(* stored after the lookup.  Deleted, the job is queued again and the      *)
(* build is told to be retried.  [Mutant: the lookup is believed.]         *)
(***************************************************************************)
Entryless(k) == StatusOf(k) = "succeeded"

Missing(k) == StatusOf(k) = "succeeded" /\ k \notin cache

Requeue(b) ==
    /\ pc[b] = "requeue"
    /\ \E k \in Keys :
         /\ First(b, "waiting", k)
         /\ \/ /\ Missing(k)
               /\ jobs' = [jobs EXCEPT ![k] = Queued]
               /\ Goto(b, "error")
            \/ /\ ~Missing(k)
               /\ Goto(b, "wait")
               /\ UNCHANGED jobs
    /\ UNCHANGED <<cache, locals, evictions>>

(***************************************************************************)
(* The stage is over: the next one, or the build is done.                  *)
(***************************************************************************)
NextStage(b) ==
    /\ pc[b] = "wait"
    /\ NoneIn(b, "waiting")
    /\ IF stage[b] = Len(Stages[b])
         THEN Goto(b, "done") /\ UNCHANGED <<stage, phase>>
         ELSE /\ stage' = [stage EXCEPT ![b] = @ + 1]
              /\ phase' = [phase EXCEPT ![b] = [k \in Keys |-> "todo"]]
              /\ Goto(b, "lookup")
    /\ UNCHANGED <<tables, cached, failed, expired, evictions>>

-----------------------------------------------------------------------------
(* Planning: ensure_artifact_job_for_cache_state, two statements.          *)

Insert(b) ==
    /\ pc[b] = "insert"
    /\ \E k \in Keys :
         /\ First(b, "todo", k)
         /\ IF jobs[k] = None
              THEN jobs' = [jobs EXCEPT ![k] =
                              IF b \in cached THEN Observed ELSE Queued]
              ELSE UNCHANGED jobs
         /\ IF b \in cached THEN Goto(b, "observe") /\ UNCHANGED phase
            ELSE Goto(b, "lookup") /\ Set(b, k, "ready")
    /\ UNCHANGED <<cache, stage, cached, failed, expired, evictions>>

(***************************************************************************)
(* What the UPDATE makes of a row: COALESCE keeps what is there.           *)
(* [Mutant: the error stays.]                                              *)
(***************************************************************************)
SeenKeepingError(job) ==
    [job EXCEPT !.status = "succeeded", !.started = TRUE, !.finished = TRUE,
                !.worker = IF @ = None THEN Observer ELSE @]

Seen(job) ==
    [job EXCEPT !.status = "succeeded", !.started = TRUE, !.finished = TRUE,
                !.worker = IF @ = None THEN Observer ELSE @, !.error = FALSE]

Observable(job) ==
    job # None /\ job.status \notin {"succeeded", "running"}

Observe(b) ==
    /\ pc[b] = "observe"
    /\ \E k \in Keys :
         /\ First(b, "todo", k)
         /\ IF Observable(jobs[k])
              THEN jobs' = [jobs EXCEPT ![k] = Seen(@)]
              ELSE UNCHANGED jobs
         /\ Set(b, k, "ready")
    /\ Goto(b, "lookup")
    /\ UNCHANGED <<cache, stage, cached, failed, expired, evictions>>

-----------------------------------------------------------------------------
(* The world around the builds.                                            *)

Crash(b) ==
    /\ pc[b] \notin Ended
    /\ Goto(b, "dead")
    /\ UNCHANGED <<tables, locals, evictions>>

(***************************************************************************)
(* A cache entry is deleted.                                               *)
(***************************************************************************)
Evict(k) ==
    /\ k \in cache
    /\ evictions < MaxEvictions
    /\ evictions' = evictions + 1
    /\ cache' = cache \ {k}
    /\ UNCHANGED <<jobs, pc, locals>>

Step(b) ==
    \/ Lookup(b) \/ Claim(b) \/ LookedUp(b)
    \/ Compile(b) \/ Complete(b) \/ Fail(b) \/ Compiled(b)
    \/ Wait(b) \/ Record(b) \/ Requeue(b) \/ NextStage(b)
    \/ Insert(b) \/ Observe(b)

Next ==
    \/ \E b \in Builders : Step(b) \/ Expire(b) \/ Crash(b)
    \/ \E k \in Keys : Evict(k)

Spec == Init /\ [][Next]_vars

(***************************************************************************)
(* Processes run and time passes.                                          *)
(***************************************************************************)
FairSpec == Spec /\ \A b \in Builders : WF_vars(Step(b)) /\ WF_vars(Expire(b))
=============================================================================
