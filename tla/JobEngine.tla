------------------------------ MODULE JobEngine ------------------------------
(***************************************************************************)
(* The job engine of Pulse: the rows of jobs, job_executions,              *)
(* dead_letter_queue and workers, and the processes that move them -- the  *)
(* workers (worker/main.py, engine/claim.py), the reaper                   *)
(* (engine/reaper.py), the promotion step of the scheduler and the retry,  *)
(* cancel and replay requests of the API.                                  *)
(*                                                                         *)
(* A database transaction that first takes the row lock of the job it      *)
(* changes is one step, and so is the reaper's sweep.  What a process does *)
(* between two transactions, or reads in one and uses in a later one, is   *)
(* kept apart: the free slots a poll reads and the claim that uses them,   *)
(* a claim and the re-read of the claimed rows, the start and the end of a *)
(* handler, what the scheduler finds waiting and what it then promotes.    *)
(*                                                                         *)
(* Heartbeats and their timeout are the matter of WorkerRegistry.  Here    *)
(* the row of a worker may be declared dead at any time, and a live worker *)
(* may find that out at any time and revive it.  A waiting job is due      *)
(* whenever the scheduler finds it.                                        *)
(***************************************************************************)
EXTENDS Naturals, FiniteSets, Functions

CONSTANTS
    Jobs,          \* the jobs of one queue
    Workers,       \* worker processes, one per registration: a restarted worker is another element
    Tokens,        \* the lock tokens gen_random_uuid() may return; each names one claim, its task and its execution row
    NoJob, NoWorker, NoToken,   \* NULL
    MaxAttempts,   \* jobs.max_attempts
    Concurrency,   \* slots of a worker (worker_concurrency)
    QueueLimit,    \* queues.concurrency_limit
    PromptRead,    \* TRUE: no reaper sweep falls between the commit of a claim and the re-read of the claimed rows
    DbErrors       \* TRUE: a worker's transaction may fail and be rolled back

ASSUME EngineAssumption ==
    /\ NoJob \notin Jobs /\ NoWorker \notin Workers /\ NoToken \notin Tokens /\ IsFiniteSet(Tokens)
    /\ MaxAttempts \in Nat \ {0} /\ Concurrency \in Nat \ {0} /\ QueueLimit \in Nat \ {0}
    /\ PromptRead \in BOOLEAN /\ DbErrors \in BOOLEAN

VARIABLES
    status, workerId, lockToken, attempts,  \* columns of jobs
    found,      \* the jobs the scheduler's open tick has read as waiting and will promote
    pending,    \* pending[j]: dead_letter_queue entries of j with replayed_at NULL
    exec,       \* exec[t]: status of the execution row inserted under claim t
    task,       \* task[t]: what the claiming process remembers of claim t
    asking,     \* asking[w]: the limit of the claim statement w has under way, 0 if none
    proc,       \* the life of the process of w
    row         \* workers.status of w; idle, active and draining are one value: the engine tests only for dead

jobVars    == <<status, workerId, lockToken, attempts, pending, found>>
claimVars  == <<exec, task, asking>>
workerVars == <<proc, row>>
vars == <<jobVars, claimVars, workerVars>>

Statuses == {"absent", "scheduled", "queued", "claimed", "running", "retrying", "completed", "dead", "cancelled"}
Unclaimed == [job |-> NoJob, worker |-> NoWorker, pc |-> "unused", token |-> NoToken, attempt |-> 0]
ClaimedTasks == [job : Jobs, worker : Workers, pc : {"claimed", "ready", "running", "ended"},
                 token : Tokens \union {NoToken}, attempt : Nat]
Tasks == {Unclaimed} \union ClaimedTasks

Active == {j \in Jobs : status[j] \in {"claimed", "running"}}
Alive(w) == proc[w] \in {"up", "stopping"}
(* The claims of w whose rows it has not re-read yet, and the tasks its    *)
(* runtime has in flight.                                                  *)
Unread(w)   == {t \in Tokens : task[t].worker = w /\ task[t].pc = "claimed"}
InFlight(w) == {t \in Tokens : task[t].worker = w /\ task[t].pc \in {"ready", "running"}}

Init ==
    /\ status = [j \in Jobs |-> "absent"] /\ workerId = [j \in Jobs |-> NoWorker]
    /\ lockToken = [j \in Jobs |-> NoToken] /\ attempts = [j \in Jobs |-> 0]
    /\ pending = [j \in Jobs |-> 0] /\ found = {}
    /\ exec = [t \in Tokens |-> "none"] /\ task = [t \in Tokens |-> Unclaimed]
    /\ asking = [w \in Workers |-> 0]
    /\ proc = [w \in Workers |-> "unborn"] /\ row = [w \in Workers |-> "none"]
-----------------------------------------------------------------------------
(* The API and the scheduler.                                              *)

(* create_job without prerequisites: queued when due, scheduled otherwise. *)
Submit(j) ==
    /\ status[j] = "absent"
    /\ \E s \in {"queued", "scheduled"} : status' = [status EXCEPT ![j] = s]
    /\ UNCHANGED <<workerId, lockToken, attempts, pending, found, claimVars, workerVars>>

(* The subquery of a rate limited queue, or the pending jobs that          *)
(* resolve_dependencies reads.                                             *)
FindDue(S) ==
    /\ found = {} /\ S # {} /\ \A j \in S : status[j] \in {"scheduled", "retrying"}
    /\ found' = S
    /\ UNCHANGED <<status, workerId, lockToken, attempts, pending, claimVars, workerVars>>

(* The UPDATE of the rows the subquery found, or the commit of what        *)
(* resolve_dependencies decided: by primary key, whatever the rows say by  *)
(* now.  (The UPDATE of the other queues looks at the status again, as if  *)
(* it had just found its rows.)  A tick may also give rows up, or fail.    *)
Promote(S) ==
    /\ found # {} /\ S \subseteq found
    /\ status' = [j \in Jobs |-> IF j \in S THEN "queued" ELSE status[j]]
    /\ found' = {}
    /\ UNCHANGED <<workerId, lockToken, attempts, pending, claimVars, workerVars>>

CancellableTooMuch == {"scheduled", "queued", "retrying", "claimed"}  \* mutant
Cancellable == {"scheduled", "queued", "retrying"}
Cancel(j) ==
    /\ status[j] \in Cancellable
    /\ status' = [status EXCEPT ![j] = "cancelled"]
    /\ UNCHANGED <<workerId, lockToken, attempts, pending, found, claimVars, workerVars>>

(* What retry_job and replay_from_dlq both do to the job row.              *)
Requeue(j) ==
    /\ status' = [status EXCEPT ![j] = "queued"]
    /\ attempts' = [attempts EXCEPT ![j] = 0]
    /\ workerId' = [workerId EXCEPT ![j] = NoWorker]
    /\ lockToken' = [lockToken EXCEPT ![j] = NoToken]
    /\ UNCHANGED <<found, claimVars, workerVars>>

(* POST /jobs/{id}/retry supersedes every pending entry of the job.        *)
SupersedesNothing(j) == pending  \* mutant
Superseded(j) == [pending EXCEPT ![j] = 0]
Retry(j) ==
    /\ status[j] = "dead"
    /\ pending' = Superseded(j)
    /\ Requeue(j)

(* POST /dlq/{id}/replay of one pending entry of the job.                  *)
Replay(j) ==
    /\ pending[j] > 0 /\ status[j] = "dead"
    /\ pending' = [pending EXCEPT ![j] = @ - 1]
    /\ Requeue(j)
-----------------------------------------------------------------------------
(* A worker's poll loop: free_slots is read before the claim statement is  *)
(* sent, and the claimed rows are re-read in a transaction of their own.   *)

(* The loop awaits one poll before the next.                               *)
PollNotAwaited(w) == asking[w] = 0  \* mutant
Between(w) == asking[w] = 0 /\ Unread(w) = {}

PollOnce(w) ==
    /\ proc[w] = "up" /\ Between(w)
    /\ Cardinality(InFlight(w)) < Concurrency
    /\ asking' = [asking EXCEPT ![w] = Concurrency - Cardinality(InFlight(w))]
    /\ UNCHANGED <<jobVars, exec, task, workerVars>>

(* LEAST(:limit, GREATEST(free_slots, 0)), under the queue's advisory lock.*)
MayClaim(w, S) ==
    /\ Cardinality(S) <= asking[w]
    /\ S # {} => Cardinality(Active) + Cardinality(S) <= QueueLimit

(* gen_random_uuid() for every row claimed.                                *)
SameToken(S, g) == [j \in Jobs |-> IF j \in S THEN CHOOSE t \in Tokens : TRUE ELSE lockToken[j]]  \* mutant
NewTokens(S, g) == [j \in Jobs |-> IF j \in S THEN g[j] ELSE lockToken[j]]

(* The claim transaction takes the queued rows S (fewer than it may when   *)
(* SKIP LOCKED passes over locked rows), each under a token of its own.    *)
ClaimJobs(w, S) ==
    /\ Alive(w) /\ asking[w] > 0 /\ MayClaim(w, S)
    /\ S \subseteq {j \in Jobs : status[j] = "queued"}
    /\ \E g \in Injection(S, {t \in Tokens : task[t].pc = "unused"}) :
         /\ lockToken' = NewTokens(S, g)
         /\ task' = [t \in Tokens |->
                       IF \E j \in S : g[j] = t
                       THEN [Unclaimed EXCEPT !.job = CHOOSE j \in S : g[j] = t, !.worker = w, !.pc = "claimed"]
                       ELSE task[t]]
    /\ status' = [j \in Jobs |-> IF j \in S THEN "claimed" ELSE status[j]]
    /\ workerId' = [j \in Jobs |-> IF j \in S THEN w ELSE workerId[j]]
    /\ asking' = [asking EXCEPT ![w] = 0]
    /\ UNCHANGED <<attempts, pending, found, exec, workerVars>>

(* select(Job).where(Job.id.in_(claimed_ids)), then submit each job: the   *)
(* task keeps the token and the attempts the rows have now.                *)
ReadBack(w) ==
    /\ Alive(w) /\ Unread(w) # {}
    /\ task' = [t \in Tokens |->
                  IF t \in Unread(w)
                  THEN [task[t] EXCEPT !.pc = "ready", !.token = lockToken[task[t].job],
                                       !.attempt = attempts[task[t].job] + 1]
                  ELSE task[t]]
    /\ UNCHANGED <<jobVars, exec, asking, workerVars>>

(* The tasks of the claims C are over, and what they remembered is gone.   *)
End(C) == [t \in Tokens |-> IF t \in C THEN [task[t] EXCEPT !.pc = "ended", !.token = NoToken, !.attempt = 0]
                            ELSE task[t]]

(* load_for_transition: the row is found only under the token the task     *)
(* remembers; a NULL token is compared with IS NULL.                       *)
AlwaysOwns(c) == TRUE  \* mutant
Owns(c) == lockToken[task[c].job] = task[c].token

(* The first transaction of _execute.                                      *)
Start(c) ==
    /\ task[c].pc = "ready" /\ Owns(c)
    /\ status' = [status EXCEPT ![task[c].job] = "running"]
    /\ exec' = [exec EXCEPT ![c] = "running"]
    /\ task' = [task EXCEPT ![c].pc = "running"]
    /\ UNCHANGED <<workerId, lockToken, attempts, pending, found, asking, workerVars>>

(* The handler succeeds and the second transaction commits.                *)
Succeed(c) ==
    /\ task[c].pc = "running" /\ Owns(c)
    /\ status' = [status EXCEPT ![task[c].job] = "completed"]
    /\ lockToken' = [lockToken EXCEPT ![task[c].job] = NoToken]
    /\ exec' = [exec EXCEPT ![c] = "completed"]
    /\ task' = End({c})
    /\ UNCHANGED <<workerId, attempts, pending, found, asking, workerVars>>

(* job.attempts >= job.max_attempts.                                       *)
UsedUp(attempt) == attempt >= MaxAttempts

(* apply_failure and move_to_dlq: with the attempts it has used up the job *)
(* goes to the dead letter queue or back to waiting.                       *)
Fail(c) ==
    LET j == task[c].job
    IN  /\ task[c].pc = "running" /\ Owns(c)
        /\ attempts' = [attempts EXCEPT ![j] = task[c].attempt]
        /\ \/ /\ UsedUp(task[c].attempt)
              /\ status' = [status EXCEPT ![j] = "dead"]
              /\ pending' = [pending EXCEPT ![j] = @ + 1]
           \/ /\ ~UsedUp(task[c].attempt)
              /\ status' = [status EXCEPT ![j] = "retrying"]
              /\ UNCHANGED pending
        /\ workerId' = [workerId EXCEPT ![j] = NoWorker]
        /\ lockToken' = [lockToken EXCEPT ![j] = NoToken]
        /\ exec' = [exec EXCEPT ![c] = "failed"]
        /\ task' = End({c})
        /\ UNCHANGED <<found, asking, workerVars>>

(* Either transaction finds no row under the remembered token: the task    *)
(* gives up and the result is discarded.                                   *)
Discard(c) ==
    /\ task[c].pc \in {"ready", "running"} /\ ~Owns(c)
    /\ task' = End({c})
    /\ UNCHANGED <<jobVars, exec, asking, workerVars>>

(* A transaction of the task raises and is rolled back: the runtime logs   *)
(* the error and nobody tries again.                                       *)
TaskError(c) ==
    /\ DbErrors
    /\ task[c].pc \in {"ready", "running"}
    /\ task' = End({c})
    /\ UNCHANGED <<jobVars, exec, asking, workerVars>>

(* The re-read of the claimed rows raises: the poll loop logs the error    *)
(* and forgets the claims, which are committed.                            *)
ReadError(w) ==
    /\ DbErrors
    /\ Alive(w) /\ Unread(w) # {}
    /\ task' = End(Unread(w))
    /\ UNCHANGED <<jobVars, exec, asking, workerVars>>
-----------------------------------------------------------------------------
(* The worker process and its row in workers.                              *)

Register(w) ==
    /\ proc[w] = "unborn"
    /\ proc' = [proc EXCEPT ![w] = "up"]
    /\ row' = [row EXCEPT ![w] = "alive"]
    /\ UNCHANGED <<jobVars, claimVars>>

(* A heartbeat (or the draining mark of a shutdown) overwrites a death that*)
(* the reaper declared too early.                                          *)
Revive(w) ==
    /\ Alive(w) /\ row[w] = "dead"
    /\ row' = [row EXCEPT ![w] = "alive"]
    /\ UNCHANGED <<jobVars, claimVars, proc>>

(* shutdown sets the flag that keeps the poll loop from claiming again; a  *)
(* claim under way and the tasks in flight go on.                          *)
BeginShutdown(w) ==
    /\ proc[w] = "up"
    /\ proc' = [proc EXCEPT ![w] = "stopping"]
    /\ UNCHANGED <<jobVars, claimVars, row>>

(* The grace period is over, with or without tasks in flight.              *)
MarkSelfDead(w) ==
    /\ proc[w] = "stopping"
    /\ row' = [row EXCEPT ![w] = "dead"]
    /\ UNCHANGED <<jobVars, claimVars, proc>>

(* The process ends: after its shutdown, by a crash, or by the chaos button*)
(* (_chaos_exit).  Its tasks and its claim end with it.                    *)
Crash(w) ==
    /\ Alive(w)
    /\ proc' = [proc EXCEPT ![w] = "down"]
    /\ asking' = [asking EXCEPT ![w] = 0]
    /\ task' = End(Unread(w) \union InFlight(w))
    /\ UNCHANGED <<jobVars, exec, row>>
-----------------------------------------------------------------------------
(* Any dead worker's jobs are swept, not only those of the workers D marked*)
(* dead in this pass.                                                      *)
NoneDeadBefore == {}  \* mutant
Dead == {w \in Workers : row[w] = "dead"}
Orphans(D) == {j \in Active : workerId[j] \in Dead \union D}

(* The jobs whose claimer is between its claim and the re-read.            *)
BeingRead == {j \in Jobs : \E t \in Tokens : /\ task[t].job = j /\ task[t].pc = "claimed"
                                             /\ lockToken[j] = t}

(* A job whose handler had started is charged an attempt, and its running  *)
(* executions are closed.                                                  *)
WasHeld(j) == status[j] \in {"claimed", "running"}  \* mutant
WasRunning(j) == status[j] = "running"
Buried(j) == WasRunning(j) /\ UsedUp(attempts[j] + 1)
CloseNothing(S) == exec  \* mutant
CloseExecutions(S) ==
    [t \in Tokens |-> IF \E j \in S : WasRunning(j) /\ task[t].job = j /\ exec[t] = "running"
                      THEN "failed" ELSE exec[t]]

(* reap_dead_workers: the worker rows D are found stale and marked dead,   *)
(* the orphans S of dead workers are swept (those that another transaction *)
(* has locked are skipped).                                                *)
ReapSweep(D, S) ==
    /\ \A w \in D : row[w] = "alive"
    /\ S \subseteq Orphans(D)
    /\ PromptRead => S \intersect BeingRead = {}
    /\ row' = [w \in Workers |-> IF w \in D THEN "dead" ELSE row[w]]
    /\ exec' = CloseExecutions(S)
    /\ attempts' = [j \in Jobs |-> IF j \in S /\ WasRunning(j) THEN attempts[j] + 1 ELSE attempts[j]]
    /\ pending' = [j \in Jobs |-> IF j \in S /\ Buried(j) THEN pending[j] + 1 ELSE pending[j]]
    /\ status' = [j \in Jobs |-> IF j \notin S THEN status[j] ELSE IF Buried(j) THEN "dead" ELSE "queued"]
    /\ workerId' = [j \in Jobs |-> IF j \in S THEN NoWorker ELSE workerId[j]]
    /\ lockToken' = [j \in Jobs |-> IF j \in S THEN NoToken ELSE lockToken[j]]
    /\ UNCHANGED <<found, task, asking, proc>>
-----------------------------------------------------------------------------
JobStep == \/ \E j \in Jobs : Submit(j) \/ Cancel(j) \/ Retry(j) \/ Replay(j)
           \/ \E S \in SUBSET Jobs : FindDue(S) \/ Promote(S)
TaskStep == \E c \in Tokens : Start(c) \/ Succeed(c) \/ Fail(c) \/ Discard(c) \/ TaskError(c)
WorkerStep == \E w \in Workers :
    \/ PollOnce(w) \/ (\E S \in SUBSET Jobs : ClaimJobs(w, S)) \/ ReadBack(w) \/ ReadError(w)
    \/ Register(w) \/ Revive(w) \/ BeginShutdown(w) \/ MarkSelfDead(w) \/ Crash(w)
ReaperStep == \E D \in SUBSET Workers, S \in SUBSET Jobs : ReapSweep(D, S)

Next == JobStep \/ TaskStep \/ WorkerStep \/ ReaperStep

Spec == Init /\ [][Next]_vars

(* Handlers return, a live process runs its tasks, a shutdown ends with the*)
(* process, a crashed worker's heartbeat goes stale, and a job that is an  *)
(* orphan again and again is not locked at every single reaper tick.       *)
Fairness ==
    /\ \A c \in Tokens : /\ WF_vars(Start(c)) /\ WF_vars(Discard(c))
                         /\ WF_vars(Succeed(c) \/ Fail(c))
    /\ \A w \in Workers :
         /\ WF_vars(ReadBack(w))
         /\ WF_vars(\E D \in SUBSET Workers, S \in SUBSET Jobs :
                     proc[w] = "down" /\ w \in D /\ ReapSweep(D, S))
         /\ WF_vars(proc[w] = "stopping" /\ Crash(w))
    /\ \A j \in Jobs : SF_vars(\E D \in SUBSET Workers, S \in SUBSET Jobs :
                                 j \in S /\ workerId[j] \in Dead /\ ReapSweep(D, S))

FairSpec == Spec /\ Fairness
-----------------------------------------------------------------------------
TypeOK ==
    /\ status \in [Jobs -> Statuses] /\ attempts \in [Jobs -> Nat] /\ pending \in [Jobs -> Nat]
    /\ workerId \in [Jobs -> Workers \union {NoWorker}]
    /\ lockToken \in [Jobs -> Tokens \union {NoToken}]
    /\ found \subseteq Jobs
    /\ exec \in [Tokens -> {"none", "running", "completed", "failed"}]
    /\ task \in [Tokens -> Tasks]
    /\ asking \in [Workers -> 0..Concurrency]
    /\ proc \in [Workers -> {"unborn", "up", "stopping", "down"}]
    /\ row \in [Workers -> {"none", "alive", "dead"}]

(* A worker and the reaper, or two workers, never hold the same job: no two*)
(* tasks in flight would both find its row under their token.              *)
SoleOwner ==
    \A c, d \in Tokens :
        /\ {task[c].pc, task[d].pc} \subseteq {"ready", "running"}
        /\ task[c].job = task[d].job
        /\ lockToken[task[c].job] = task[c].token /\ lockToken[task[d].job] = task[d].token
        => c = d

(* A claimed or running job names the worker whose death will release it,  *)
(* and the claim it is held under is that worker's.                        *)
Recoverable ==
    \A j \in Active : \E t \in Tokens :
        /\ lockToken[j] = t /\ task[t].job = j
        /\ workerId[j] \in Workers /\ task[t].worker = workerId[j]

(* The execution history of a job agrees with its row: one running         *)
(* execution, that of the current claim, exactly while the job is running. *)
ExecutionLedger ==
    \A j \in Jobs :
        {t \in Tokens : task[t].job = j /\ exec[t] = "running"} =
            IF status[j] = "running" THEN {lockToken[j]} ELSE {}

(* A job is in the dead letter queue once when it is dead, and not at all  *)
(* otherwise: no failure, sweep, replay or retry loses or doubles an entry.*)
DlqExact ==
    \A j \in Jobs : pending[j] = IF status[j] = "dead" THEN 1 ELSE 0

(* Retries end: a job that may run again has attempts left, a dead one has *)
(* used them all.                                                          *)
AttemptBudget ==
    \A j \in Jobs :
        /\ status[j] = "dead" => attempts[j] = MaxAttempts
        /\ status[j] \notin {"dead", "completed"} => attempts[j] < MaxAttempts

(* A worker never claims more than it has slots for, so submit never waits *)
(* with a claimed job in its hands.                                        *)
NeverOverclaims ==
    \A w \in Workers : Cardinality(InFlight(w)) + Cardinality(Unread(w)) + asking[w] <= Concurrency

(* What a step does to the attempts of job j: they grow by the executions  *)
(* it closes as failed, and start anew when the dead job is requeued.      *)
ChargedOnce(j) ==
    LET failures == {t \in Tokens : task[t].job = j /\ exec[t] = "running" /\ exec'[t] = "failed"}
    IN  attempts'[j] = IF failures = {} /\ status[j] = "dead" /\ status'[j] = "queued" THEN 0
                       ELSE attempts[j] + Cardinality(failures)

(* A failed execution costs one attempt and nothing else does, whether the *)
(* worker or the reaper records it (dispatcher.py, reaper.py).             *)
FailureChargedOnce == [][\A j \in Jobs : ChargedOnce(j)]_vars

-----------------------------------------------------------------------------
(* Why the above holds when the re-read is prompt: an inductive invariant. *)

(* A job is held exactly while it is claimed or running, by the claim its  *)
(* token names, and a task never remembers the token of another claim.     *)
LeaseInv ==
    /\ \A j \in Jobs :
         /\ status[j] \in {"claimed", "running"} <=> lockToken[j] # NoToken
         /\ lockToken[j] # NoToken => /\ task[lockToken[j]].job = j
                                      /\ task[lockToken[j]].worker = workerId[j]
    /\ \A t \in Tokens :
         /\ task[t].pc = "claimed" => lockToken[task[t].job] = t
         /\ task[t].pc \in {"ready", "running"} => task[t].token = t

(* The running executions are those of the running jobs' current claims.   *)
ExecInv ==
    /\ \A t \in Tokens : exec[t] = "running" => /\ task[t].pc # "unused"
                                                /\ lockToken[task[t].job] = t
                                                /\ status[task[t].job] = "running"
    /\ \A j \in Jobs : status[j] = "running" => exec[lockToken[j]] = "running"

(* The attempt a lease holder is making is the next one of its job.        *)
AttemptInv ==
    \A t \in Tokens :
        task[t].pc \in {"ready", "running"} /\ lockToken[task[t].job] = t
        => task[t].attempt = attempts[task[t].job] + 1

(* Until a tick writes what it has found, only a cancellation gets there   *)
(* before it.                                                              *)
FoundInv == \A j \in found : status[j] \in {"scheduled", "retrying", "cancelled"}

EngineInv == TypeOK /\ FoundInv /\ LeaseInv /\ ExecInv /\ AttemptInv /\ AttemptBudget /\ DlqExact
-----------------------------------------------------------------------------
(* The engine keeps the promises of JobLifecycle: the lease of a job is its*)
(* lock token.                                                             *)
Lifecycle == INSTANCE JobLifecycle WITH
    phase <- status, lease <- lockToken, picked <- found, spent <- {t \in Tokens : task[t].pc # "unused"},
    Leases <- Tokens, NoLease <- NoToken

(* Every step of the engine is a step of the documented status diagram,    *)
(* but for a cancellation that a promotion decided before it undoes.       *)
ImplementsLifecycle == Lifecycle!Spec

(* A failed transaction of a live worker has made it forget the job: it is *)
(* at no task for it.  (Nobody ever sweeps the jobs of a live worker.)     *)
Forgotten(j) == /\ workerId[j] \in Workers /\ Alive(workerId[j])
                /\ \A t \in Unread(workerId[j]) \union InFlight(workerId[j]) : task[t].job # j

(* Self-healing: whatever crashes, a claimed or running job is settled by  *)
(* its worker or taken back by the reaper, unless and until a failed       *)
(* transaction makes its worker forget it.                                 *)
LeaseEnds == \A j \in Jobs : j \in Active ~> j \notin Active \/ Forgotten(j)
=============================================================================
