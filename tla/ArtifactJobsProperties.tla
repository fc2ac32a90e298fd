----------------------- MODULE ArtifactJobsProperties -----------------------
(***************************************************************************)
(* What the job table guarantees to concurrent builds, and what is said of *)
(* it that the code does not keep.                                         *)
(***************************************************************************)
EXTENDS ArtifactJobs

(***************************************************************************)
(* Every row is one that `codedb verify` accepts (verify.rs,               *)
(* verify_artifact_jobs): whatever the builds, planners, waiters and       *)
(* crashes that wrote it, its worker, times and error fit its status.      *)
(***************************************************************************)
JobRowsVerify == \A k \in Keys : jobs[k] # None => JobVerifies(jobs[k])

(***************************************************************************)
(* As long as a process has a claimed job, the row says that this process  *)
(* is running it: no other claims it, no planner or waiter takes the row   *)
(* away, so that complete_artifact_job finds the job its worker's          *)
(* ("two workers claiming the same cache_key result in one owner").        *)
(***************************************************************************)
ClaimedIsOwned ==
    \A b \in Builders, k \in Keys :
        pc[b] \notin Ended /\ phase[b][k] = "claimed" => Owns(b, k)

(***************************************************************************)
(* A job counts as succeeded only when its artifact can be read, unless    *)
(* somebody deleted it from the cache: a waiter that reads the row after   *)
(* the cache does not give up for nothing.                                 *)
(***************************************************************************)
SucceededIsCached ==
    evictions = 0 =>
        \A k \in Keys :
            StatusOf(k) = "succeeded" => k \in cache

(***************************************************************************)
(* Finished work is not done again: a job that succeeded and whose         *)
(* artifact is in the cache stays so, although builds and waiters act on   *)
(* lookups made earlier (jobs.rs, the two NOT EXISTS conditions).          *)
(***************************************************************************)
KeepsCachedWork ==
    \A k \in Keys :
        /\ StatusOf(k) = "succeeded"
        /\ k \in cache /\ k \in cache'
        => StatusOf(k)' = "succeeded"

CachedWorkKept == [][KeepsCachedWork]_vars

(***************************************************************************)
(* Every build ends, whoever died with a job that it waits for             *)
(* (wait_for_artifact_cache, JOB_WAIT_TIMEOUT).                            *)
(***************************************************************************)
BuildsEnd == \A b \in Builders : <>(pc[b] \in Ended)

-----------------------------------------------------------------------------
(***************************************************************************)
(* "failed jobs record structured error_json / subsequent builds can retry *)
(* failed or abandoned jobs" (docs/PLAN_V1.md, phase 5).  A build that     *)
(* reports an error may leave a job running that nobody runs, and every    *)
(* later build of that key waits for it until it times out.                *)
(***************************************************************************)
FailedBuildsLetGo ==
    \A b \in Builders : pc[b] = "error" => \A k \in Keys : ~Owns(b, k)
=============================================================================
