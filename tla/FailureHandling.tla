--------------------------- MODULE FailureHandling ---------------------------
(***************************************************************************)
(* What becomes of one job that fails: the delay before it is tried again  *)
(* (engine/retry.py), under a policy that is edited or deleted meanwhile,  *)
(* its dead letter entries (engine/dispatcher.py), and the requests that   *)
(* bring it back, lock by lock: a retry locks the job and then its pending *)
(* entries (api/jobs.py), a replay locks its entry and then the job        *)
(* (api/dlq.py).  JobEngine has many jobs and workers, without delays, and *)
(* takes each request as one step.                                         *)
(*                                                                         *)
(* Time is in seconds.  run_at is written by the clock of a worker and     *)
(* compared with the database's, which may differ by Skew.                 *)
(***************************************************************************)
EXTENDS Integers, Sequences, FiniteSets

CONSTANTS
    Requests, Entry,  \* as in DeadLetters
    NoRequest,
    Policies,     \* the policies the queue may be given, one after another
    DefaultPolicy, \* DEFAULT_BASE_DELAY_SEC and DEFAULT_MAX_DELAY_SEC: what holds without a policy
    MaxAttempts,  \* jobs.max_attempts, set when the job was created
    Skew,         \* how far the clocks may differ
    MaxEdits      \* bound: changes of the policy

PolicyType == [strategy : {"fixed", "linear", "exponential"}, base : Nat, max : Nat, jitter : 0 .. 100]
ASSUME FailureAssumption ==
    /\ NoRequest \notin Requests /\ Entry \in [Requests -> Nat]
    /\ Policies \subseteq PolicyType /\ DefaultPolicy \in PolicyType
    /\ MaxAttempts \in Nat \ {0} /\ Skew \in Nat /\ MaxEdits \in Nat

VARIABLES
    status, attempts,  \* columns of the job
    wait,       \* run_at as a distance: seconds until the database's clock reaches it
    drawn, elapsed,    \* the delay of the last failure, and the seconds waited so far (no variables of the code)
    before, steady,    \* the delay of the failure before it, if the policy was the same, else 0; whether
                \* the policy is still the one of the last failure (no variables of the code)
    policy,     \* the row of retry_policies the queue points to, or the defaults
    replayed,   \* replayed[e]: replayed_at of the e-th entry is set
    jobLock, entryLock,  \* row locks of requests
    pc, answer, \* the requests
    edits

work  == <<status, attempts, wait, drawn, elapsed, before, steady>>
locks == <<jobLock, entryLock>>
vars == <<work, policy, replayed, locks, pc, answer, edits>>

Entries == {Entry[r] : r \in Requests} \ {0}
Pending == {e \in DOMAIN replayed : ~replayed[e]}
Least(a, b) == IF a <= b THEN a ELSE b

Init ==
    /\ status = "queued" /\ attempts = 0 /\ wait = 0 /\ drawn = 0 /\ elapsed = 0 /\ before = 0 /\ steady = FALSE
    /\ policy \in Policies \union {DefaultPolicy}
    /\ replayed = <<>> /\ jobLock = NoRequest /\ entryLock = [e \in Entries |-> NoRequest]
    /\ pc = [r \in Requests |-> "new"] /\ answer = [r \in Requests |-> "none"] /\ edits = 0
-----------------------------------------------------------------------------
(* compute_delay_sec                                                       *)
Strategy(p, n) == CASE p.strategy = "fixed"       -> p.base
                    [] p.strategy = "linear"      -> p.base * n
                    [] p.strategy = "exponential" -> Least(p.base * 2^(n - 1), p.max)
UncappedDelay(p, n) == Strategy(p, n)  \* mutant
CappedDelay(p, n) == Least(Strategy(p, n), p.max)
(* random.uniform around the delay, after the cap; in whole seconds.       *)
Delays(p, n) == LET d == CappedDelay(p, n)
                    range == (d * p.jitter) \div 100
                IN {x \in (d - range) .. (d + range) : x >= 0}

Others == UNCHANGED <<policy, locks, pc, answer, edits>>
Delayless == UNCHANGED <<drawn, elapsed, before, steady>>

(* The task of the job: the claim, a success, and the two ends of          *)
(* apply_failure, each in a transaction that locks the job.                *)
Run ==
    /\ status = "queued" /\ wait = 0 /\ jobLock = NoRequest /\ status' = "running"
    /\ Others /\ Delayless /\ UNCHANGED <<attempts, wait, replayed>>

Succeed ==
    /\ status = "running" /\ jobLock = NoRequest /\ status' = "completed"
    /\ Others /\ Delayless /\ UNCHANGED <<attempts, wait, replayed>>

RetryLater ==
    /\ status = "running" /\ jobLock = NoRequest /\ attempts + 1 < MaxAttempts
    /\ attempts' = attempts + 1 /\ status' = "retrying"
    /\ \E d \in Delays(policy, attempts'), skew \in -Skew .. Skew :
         drawn' = d /\ wait' = IF d + skew < 0 THEN 0 ELSE d + skew
    /\ elapsed' = 0 /\ before' = (IF steady THEN drawn ELSE 0) /\ steady' = TRUE
    /\ Others /\ UNCHANGED replayed

MoveToDlq ==
    /\ status = "running" /\ jobLock = NoRequest /\ attempts + 1 >= MaxAttempts
    /\ attempts' = attempts + 1 /\ status' = "dead"
    /\ replayed' = Append(replayed, FALSE)
    /\ Others /\ Delayless /\ UNCHANGED wait

Tock ==
    /\ status \in {"retrying", "queued"} /\ wait > 0
    /\ wait' = wait - 1
    /\ elapsed' = IF status = "retrying" THEN elapsed + 1 ELSE elapsed
    /\ Others /\ UNCHANGED <<status, attempts, drawn, before, steady, replayed>>

(* promote_due_jobs                                                        *)
Promote ==
    /\ status = "retrying" /\ wait = 0 /\ jobLock = NoRequest /\ status' = "queued" /\ elapsed' = 0
    /\ Others /\ UNCHANGED <<attempts, wait, drawn, before, steady, replayed>>

(* PATCH and DELETE of the policy, or another one for the queue: a failure *)
(* reads what is there then.                                               *)
EditPolicy ==
    /\ edits < MaxEdits /\ edits' = edits + 1
    /\ policy' \in (Policies \union {DefaultPolicy}) \ {policy}
    /\ steady' = FALSE
    /\ UNCHANGED <<status, attempts, wait, drawn, elapsed, before, replayed, locks, pc, answer>>
-----------------------------------------------------------------------------
(* The requests.  A row lock that is taken is waited for; a transaction    *)
(* keeps its locks to its end.                                             *)

IsRetry(r) == Entry[r] = 0
Go(r, p) == pc' = [pc EXCEPT ![r] = p]
Reply(r, code) == Go(r, "done") /\ answer' = [answer EXCEPT ![r] = code]
Request == UNCHANGED <<policy, edits>>

Arrive(r) ==
    /\ pc[r] = "new"
    /\ IF IsRetry(r) \/ Entry[r] \in DOMAIN replayed THEN Go(r, "first") /\ UNCHANGED answer
       ELSE Reply(r, "notfound")
    /\ Request /\ UNCHANGED <<work, replayed, locks>>

(* retry_job: _lock_job reads the job anew under its lock.                 *)
LockJob(r) ==
    /\ pc[r] = "first" /\ IsRetry(r) /\ jobLock = NoRequest
    /\ IF status = "dead" THEN jobLock' = r /\ Go(r, "second") /\ UNCHANGED answer
       ELSE UNCHANGED jobLock /\ Reply(r, "conflict")
    /\ Request /\ UNCHANGED <<work, replayed, entryLock>>

(* replay_dlq_entry: the entry, under its lock.                            *)
LockStaleEntry(r) ==  \* mutant
    /\ pc[r] = "first" /\ ~IsRetry(r) /\ entryLock[Entry[r]] = NoRequest
    /\ entryLock' = [entryLock EXCEPT ![Entry[r]] = r] /\ Go(r, "second") /\ UNCHANGED answer
    /\ Request /\ UNCHANGED <<work, replayed, jobLock>>
LockEntry(r) ==
    /\ pc[r] = "first" /\ ~IsRetry(r) /\ entryLock[Entry[r]] = NoRequest
    /\ IF replayed[Entry[r]] THEN UNCHANGED entryLock /\ Reply(r, "conflict")
       ELSE entryLock' = [entryLock EXCEPT ![Entry[r]] = r] /\ Go(r, "second") /\ UNCHANGED answer
    /\ Request /\ UNCHANGED <<work, replayed, jobLock>>

(* The job back in the queue, with a run_at by the clock of the API.       *)
Requeued ==
    /\ status' = "queued" /\ attempts' = 0 /\ wait' \in 0 .. Skew
    /\ drawn' = 0 /\ elapsed' = 0 /\ before' = 0 /\ steady' = FALSE
Unlock(r) == /\ jobLock' = (IF jobLock = r THEN NoRequest ELSE jobLock)
             /\ entryLock' = [e \in Entries |-> IF entryLock[e] = r THEN NoRequest ELSE entryLock[e]]

(* The UPDATE waits for the entries others have locked, then sets those    *)
(* that are still pending, and the transaction commits.                    *)
NoneLocked == {}  \* mutant
EntriesLocked == {e \in Pending \cap Entries : entryLock[e] # NoRequest}
NotSuperseded == replayed  \* mutant
Superseded == [e \in DOMAIN replayed |-> TRUE]
RetryJob(r) ==
    /\ pc[r] = "second" /\ IsRetry(r) /\ EntriesLocked = {}
    /\ Requeued /\ replayed' = Superseded
    /\ Unlock(r) /\ Reply(r, "requeued") /\ Request

(* replay_from_dlq                                                         *)
Replay(r) ==
    /\ pc[r] = "second" /\ ~IsRetry(r) /\ jobLock = NoRequest
    /\ IF status = "dead"
       THEN Requeued /\ replayed' = [replayed EXCEPT ![Entry[r]] = TRUE] /\ Reply(r, "requeued")
       ELSE UNCHANGED <<work, replayed>> /\ Reply(r, "conflict")
    /\ Unlock(r) /\ Request

(* A retry that waits for the entry of a replay that waits for the job:    *)
(* PostgreSQL aborts one of them.                                          *)
NoCircle == {}  \* mutant
Circle == IF jobLock = NoRequest THEN {}
          ELSE {entryLock[e] : e \in EntriesLocked} \union (IF EntriesLocked = {} THEN {} ELSE {jobLock})
DeadlockDetected(r) ==
    /\ r \in Circle
    /\ Unlock(r) /\ Reply(r, "error")
    /\ Request /\ UNCHANGED <<work, replayed>>

Proceed(r) == LockJob(r) \/ LockEntry(r) \/ RetryJob(r) \/ Replay(r) \/ DeadlockDetected(r)
Task == Run \/ Succeed \/ RetryLater \/ MoveToDlq
Next == \/ Task \/ Tock \/ Promote \/ EditPolicy
        \/ \E r \in Requests : Arrive(r) \/ Proceed(r)

Spec == Init /\ [][Next]_vars
(* Workers, scheduler and clock go on, handlers end, and so do requests    *)
(* once they have come in.                                                 *)
Fairness == /\ WF_vars(Task) /\ WF_vars(Tock) /\ WF_vars(Promote)
            /\ \A r \in Requests : WF_vars(Proceed(r))
FairSpec == Spec /\ Fairness
-----------------------------------------------------------------------------
TypeOK ==
    /\ status \in {"queued", "running", "retrying", "completed", "dead"} /\ attempts \in 0 .. MaxAttempts
    /\ wait \in Nat /\ drawn \in Nat /\ elapsed \in Nat /\ before \in Nat /\ steady \in BOOLEAN
    /\ policy \in Policies \union {DefaultPolicy} /\ replayed \in Seq(BOOLEAN)
    /\ jobLock \in Requests \union {NoRequest} /\ entryLock \in [Entries -> Requests \union {NoRequest}]
    /\ pc \in [Requests -> {"new", "first", "second", "done"}]
    /\ answer \in [Requests -> {"none", "requeued", "conflict", "notfound", "error"}] /\ edits \in Nat
(* A request between its two statements holds its first lock, and what it  *)
(* has read under it is still so.                                          *)
LocksHeld == \A r \in Requests :
    /\ jobLock = r <=> pc[r] = "second" /\ IsRetry(r)
    /\ jobLock = r => status = "dead"
    /\ \A e \in Entries : entryLock[e] = r <=> pc[r] = "second" /\ Entry[r] = e
    /\ pc[r] = "second" /\ ~IsRetry(r) => Entry[r] \in Pending
    /\ pc[r] = "first" /\ ~IsRetry(r) => Entry[r] \in DOMAIN replayed
    /\ pc[r] = "done" <=> answer[r] # "none"
(* A job that is not dead has an attempt left.                             *)
AttemptLeft == status # "dead" => attempts < MaxAttempts
FailureInv == TypeOK /\ LocksHeld /\ AttemptLeft

(* The last entry is pending while the job is dead, and nothing else ever  *)
(* is: whichever of retry and replay comes first, and whoever is aborted,  *)
(* no entry is left from which a job could be run again that has been      *)
(* brought back (jobs.py:352-359, dispatcher.py:35).                       *)
EntriesExact == Pending = IF status = "dead" THEN {Len(replayed)} ELSE {}

(* A delay is never over the cap of the policy by more than its jitter,    *)
(* never shorter than the one before it under the same policy without      *)
(* jitter, and the job waits it out, up to the skew of the clocks,         *)
(* whatever is done to the policy meanwhile (retry.py:16-65).              *)
Backoff == [][
    /\ status = "running" /\ status' = "retrying" =>
         /\ 100 * drawn' <= policy.max * (100 + policy.jitter)
         /\ policy.jitter = 0 => drawn' >= before'
    /\ status = "retrying" /\ status' = "queued" => elapsed + Skew >= drawn]_vars

(* A job that fails is tried again, or given up, in the end: no wait and   *)
(* no lock keeps it for ever, and a request that came in is answered.      *)
ComesToAnEnd == /\ status \in {"queued", "running", "retrying"} ~> status \in {"completed", "dead"}
                /\ \A r \in Requests : pc[r] = "first" ~> pc[r] = "done"

(* Locked row by row, the requests have the effect of requests carried out *)
(* one at a time.                                                          *)
Letters == INSTANCE DeadLetters WITH dead <- status = "dead"
ImplementsDeadLetters == Letters!Spec
=============================================================================
