---------------------------- MODULE SchedulerTick ----------------------------
(***************************************************************************)
(* The scheduler tick of Pulse (engine/scheduler.py): promotion of due     *)
(* jobs and of jobs whose prerequisites are over, by several replicas of   *)
(* the scheduler, beside the requests and the workers that change the same *)
(* rows.                                                                   *)
(*                                                                         *)
(* A tick is one transaction of several statements at READ COMMITTED: each *)
(* statement reads what is committed when it starts, an UPDATE takes row   *)
(* locks that last until the commit, and the rows the ORM changed in       *)
(* resolve_dependencies are written at the commit by primary key, without  *)
(* looking at what they hold by then.  So a tick is a step per statement.  *)
(* Promotion of cron templates is another component.                       *)
(*                                                                         *)
(* A job is due whenever a tick finds it; the workers are abstracted to    *)
(* taking a queued job and ending with it (JobEngine has the details).     *)
(***************************************************************************)
EXTENDS Naturals, FiniteSets

CONSTANTS
    Jobs,
    Replicas,    \* the scheduler processes
    Limited,     \* the jobs of queues with a rate_limit_per_sec
    MaxDeps,     \* bound: prerequisites per job
    MaxDeletes,  \* bound: jobs deleted with their queue
    MaxAborts    \* bound: ticks that fail or whose process dies

ASSUME TickAssumption == Limited \subseteq Jobs /\ MaxDeps \in Nat /\ MaxDeletes \in Nat /\ MaxAborts \in Nat

VARIABLES
    status,   \* the committed jobs.status
    deps,     \* deps[j]: jobs.depends_on
    gone,     \* the jobs deleted with their queue; status keeps what a row was last
    tick,     \* tick[r]: the transaction replica r has open
    aborts    \* the ticks that failed so far

vars == <<status, deps, gone, tick, aborts>>

Statuses == {"absent", "scheduled", "queued", "taken", "retrying", "completed", "dead", "cancelled"}
Ended    == {"completed", "dead", "cancelled"}

(* due: rows the rate limited statement selected; lifted: rows the tick has*)
(* updated and holds locked; gated: pending jobs with prerequisites; done, *)
(* lost, missing: prerequisites it found completed, dead or cancelled, or  *)
(* did not find.                                                           *)
Idle == [pc |-> "idle", due |-> {}, lifted |-> {}, gated |-> {}, done |-> {}, lost |-> {}, missing |-> {}]
Ticks == [pc : {"idle", "leading", "found", "limited", "promoted", "gated", "resolved"},
          due : SUBSET Jobs, lifted : SUBSET Jobs, gated : SUBSET Jobs,
          done : SUBSET Jobs, lost : SUBSET Jobs, missing : SUBSET Jobs]

Init == /\ status = [j \in Jobs |-> "absent"] /\ deps = [j \in Jobs |-> {}] /\ gone = {}
        /\ tick = [r \in Replicas |-> Idle] /\ aborts = 0
-----------------------------------------------------------------------------
(* Requests and workers.  Each is a transaction that waits for the row.    *)
Locked(j) == \E r \in Replicas : j \in tick[r].lifted

(* create_job: with prerequisites the job waits for them whatever its      *)
(* run_at; they must exist.                                                *)
Create(j) ==
    /\ status[j] = "absent"
    /\ \E D \in SUBSET {d \in Jobs \ gone : status[d] # "absent"} :
         /\ Cardinality(D) <= MaxDeps
         /\ deps' = [deps EXCEPT ![j] = D]
         /\ \/ D = {} /\ status' = [status EXCEPT ![j] = "queued"]
            \/ status' = [status EXCEPT ![j] = "scheduled"]
    /\ UNCHANGED <<gone, tick, aborts>>

Becomes(j, From, s) == /\ j \notin gone /\ status[j] \in From /\ ~Locked(j)
                       /\ status' = [status EXCEPT ![j] = s]
                       /\ UNCHANGED <<deps, gone, tick, aborts>>

Cancel(j) == Becomes(j, {"scheduled", "queued", "retrying"}, "cancelled")
Take(j)   == Becomes(j, {"queued"}, "taken")
Finish(j) == \E s \in {"completed", "retrying", "dead"} : Becomes(j, {"taken"}, s)
Replay(j) == Becomes(j, {"dead"}, "queued")

(* delete_queue takes the jobs of the queue with it, whatever their status.*)
Delete(j) == /\ Cardinality(gone) < MaxDeletes
             /\ j \notin gone /\ status[j] # "absent" /\ ~Locked(j)
             /\ gone' = gone \union {j}
             /\ UNCHANGED <<status, deps, tick, aborts>>
-----------------------------------------------------------------------------
(* The tick.                                                               *)

(* pg_try_advisory_xact_lock: a replica that does not get the lock skips   *)
(* the tick.                                                               *)
LockIgnored == TRUE  \* mutant
Leaderless == \A r \in Replicas : tick[r].pc = "idle"

Lead(r) == /\ tick[r].pc = "idle" /\ Leaderless
           /\ tick' = [tick EXCEPT ![r].pc = "leading"]
           /\ UNCHANGED <<status, deps, gone, aborts>>

(* _DUE_FILTER.                                                            *)
Due(j) == /\ j \notin gone
          /\ \/ status[j] = "scheduled" /\ deps[j] = {}
             \/ status[j] = "retrying"

(* The subquery of _promote_rate_limited_queue: as many of the due jobs as *)
(* the token bucket allows.                                                *)
FindLimited(r) ==
    /\ tick[r].pc = "leading"
    /\ \E S \in SUBSET {j \in Limited : Due(j)} :
         tick' = [tick EXCEPT ![r].pc = "found", ![r].due = S]
    /\ UNCHANGED <<status, deps, gone, aborts>>

(* Its UPDATE takes the rows the subquery found.  For a row changed in the *)
(* meantime only id IN (...) is checked again, and still holds.            *)
PromoteLimited(r) ==
    /\ tick[r].pc = "found" /\ ~\E j \in tick[r].due : Locked(j)
    /\ tick' = [tick EXCEPT ![r].pc = "limited", ![r].lifted = tick[r].due \ gone, ![r].due = {}]
    /\ UNCHANGED <<status, deps, gone, aborts>>

(* The UPDATE of promote_due_jobs tests the filter on the locked row.      *)
PromoteDue(r) ==
    /\ tick[r].pc = "limited"
    /\ \E S \in SUBSET {j \in Jobs \ Limited : Due(j) /\ ~Locked(j)} :
         tick' = [tick EXCEPT ![r].pc = "promoted", ![r].lifted = @ \union S]
    /\ UNCHANGED <<status, deps, gone, aborts>>

(* resolve_dependencies: the pending jobs, then the statuses of their      *)
(* prerequisites, then the decision.                                       *)
ReadGated(r) ==
    /\ tick[r].pc = "promoted"
    /\ tick' = [tick EXCEPT ![r].pc = "gated",
                            ![r].gated = {j \in Jobs \ gone : status[j] = "scheduled" /\ deps[j] # {}}]
    /\ UNCHANGED <<status, deps, gone, aborts>>

Prerequisites(r) == UNION {deps[j] : j \in tick[r].gated}

ReadStatuses(r) ==
    /\ tick[r].pc = "gated"
    /\ tick' = [tick EXCEPT ![r].pc = "resolved",
                            ![r].done = {d \in Prerequisites(r) \ gone : status[d] = "completed"},
                            ![r].lost = {d \in Prerequisites(r) \ (tick[r].lifted \union gone) :
                                           status[d] \in {"dead", "cancelled"}},
                            ![r].missing = Prerequisites(r) \intersect gone]
    /\ UNCHANGED <<status, deps, gone, aborts>>

(* A job with a prerequisite that is gone stays as it is.                  *)
DoomedIfAllLost(r) == {j \in tick[r].gated : deps[j] \subseteq tick[r].lost}  \* mutant
Doomed(r) == {j \in tick[r].gated : deps[j] \intersect tick[r].missing = {} /\ deps[j] \intersect tick[r].lost # {}}
ReadyIfAnyDone(r) == {j \in tick[r].gated \ Doomed(r) : deps[j] \intersect tick[r].done # {}}  \* mutant
Ready(r)  == {j \in tick[r].gated \ Doomed(r) : deps[j] \subseteq tick[r].done}

Commit(r) ==
    /\ tick[r].pc = "resolved"
    /\ status' = [j \in Jobs |-> IF j \in gone THEN status[j]
                                 ELSE IF j \in tick[r].lifted \union Ready(r) THEN "queued"
                                 ELSE IF j \in Doomed(r) THEN "cancelled" ELSE status[j]]
    /\ tick' = [tick EXCEPT ![r] = Idle]
    /\ UNCHANGED <<deps, gone, aborts>>

(* The write of a row that is gone by now fails the commit, wherever the   *)
(* ORM counts the rows it has written.                                     *)
Stale(r) ==
    /\ tick[r].pc = "resolved" /\ (Ready(r) \union Doomed(r)) \intersect gone # {}
    /\ tick' = [tick EXCEPT ![r] = Idle]
    /\ UNCHANGED <<status, deps, gone, aborts>>

(* A statement fails, or the replica dies and its connection with it: the  *)
(* transaction is rolled back and the lock is free.                        *)
Abort(r) ==
    /\ tick[r].pc # "idle" /\ aborts < MaxAborts
    /\ tick' = [tick EXCEPT ![r] = Idle]
    /\ aborts' = aborts + 1
    /\ UNCHANGED <<status, deps, gone>>

TickStep(r) == \/ FindLimited(r) \/ PromoteLimited(r) \/ PromoteDue(r)
               \/ ReadGated(r) \/ ReadStatuses(r) \/ Commit(r) \/ Stale(r)

Next == \/ \E j \in Jobs : Create(j) \/ Cancel(j) \/ Take(j) \/ Finish(j) \/ Replay(j) \/ Delete(j)
        \/ \E r \in Replicas : Lead(r) \/ TickStep(r) \/ Abort(r)

Spec == Init /\ [][Next]_vars

(* run_forever ticks again after every tick, also after one that failed.   *)
Fairness == /\ WF_vars(\E r \in Replicas : Lead(r))
            /\ \A r \in Replicas : WF_vars(TickStep(r))

FairSpec == Spec /\ Fairness
-----------------------------------------------------------------------------
TypeOK ==
    /\ status \in [Jobs -> Statuses] /\ deps \in [Jobs -> SUBSET Jobs] /\ gone \subseteq Jobs
    /\ tick \in [Replicas -> Ticks] /\ aborts \in 0..MaxAborts

(* A job is let out of the gate only when every prerequisite has completed:*)
(* no later step of the prerequisites or of another tick can undo that.    *)
GateHolds ==
    \A j \in Jobs : status[j] \in {"queued", "taken", "retrying", "completed", "dead"}
                    => \A d \in deps[j] : status[d] = "completed"

(* A tick commits what it decided some statements earlier, and still never *)
(* moves a job that is queued, in a worker's hands, completed or dead.     *)
TickSparesWork ==
    [][\A r \in Replicas : tick[r].pc = "resolved" /\ tick'[r].pc = "idle" =>
         \A j \in Jobs : status[j] \in {"queued", "taken", "completed", "dead"} => status'[j] = status[j]]_vars

(* cancelled --> [*] in docs/architecture.md: a cancelled job never runs.  *)
(* The code does not keep this, and no run checks it: resolve_dependencies *)
(* may have read the job before a request cancels it, and writes it after. *)
CancelIsFinal ==
    [][\A j \in Jobs : status[j] = "cancelled" => status'[j] = "cancelled"]_vars

(* No limbo: a gated job whose prerequisites are all there and over,       *)
(* however they ended, is queued or cancelled, unless one of them is       *)
(* replayed or deleted.  (After a deletion the job stays gated for ever:   *)
(* resolve_dependencies will not guess.)                                   *)
Settled(d) == d \notin gone /\ status[d] \in Ended
GateMoves ==
    \A j \in Jobs :
        status[j] = "scheduled" /\ j \notin gone /\ deps[j] # {} /\ (\A d \in deps[j] : Settled(d))
        ~> status[j] # "scheduled" \/ j \in gone \/ \E d \in deps[j] : ~Settled(d)

-----------------------------------------------------------------------------
(* Why a tick may trust what it read: an inductive invariant.              *)

(* The lock: one tick at a time is past Lead.                              *)
OneLeader == \A q, r \in Replicas : tick[q].pc # "idle" /\ tick[r].pc # "idle" => q = r

(* What an open tick has decided from is still so, but for cancellations.  *)
ReadsHold ==
    \A r \in Replicas :
        /\ tick[r].pc = "idle" => tick[r] = Idle
        /\ \A j \in tick[r].due \union tick[r].lifted :
             /\ status[j] \in {"scheduled", "retrying", "cancelled"}
             /\ \A d \in deps[j] : status[d] = "completed"
        /\ \A j \in tick[r].gated : status[j] \in {"scheduled", "cancelled"} /\ deps[j] # {}
        /\ \A d \in tick[r].done : status[d] = "completed"

TickInv == TypeOK /\ OneLeader /\ ReadsHold /\ GateHolds
=============================================================================
