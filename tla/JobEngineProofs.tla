--------------------------- MODULE JobEngineProofs ---------------------------
(***************************************************************************)
(* What holds of JobEngine for any number of jobs, workers and claims.     *)
(***************************************************************************)
EXTENDS JobEngine, FiniteSetTheorems, TLAPS

(* Initially every variable has its type.                                  *)
LEMMA TypeInit == Init => TypeOK
BY EngineAssumption DEF Init, TypeOK, EngineAssumption, Statuses, Tasks, Unclaimed

(* Ending tasks that were claimed leaves tasks.                            *)
LEMMA EndType ==
    ASSUME TypeOK, NEW C \in SUBSET Tokens, \A t \in C : task[t].pc # "unused"
    PROVE  End(C) \in [Tokens -> Tasks]
<1> SUFFICES ASSUME NEW t \in Tokens PROVE End(C)[t] \in Tasks
  BY DEF End
<1>1. CASE t \notin C
  BY <1>1 DEF TypeOK, End
<1>2. CASE t \in C
  <2>1. task[t] \in ClaimedTasks
    BY <1>2 DEF TypeOK, Tasks, Unclaimed
  <2> QED
    BY <1>2, <2>1 DEF End, Tasks, ClaimedTasks
<1> QED
  BY <1>1, <1>2

(* A poll that finds fewer tasks in flight than slots asks for 1 to        *)
(* Concurrency jobs.                                                       *)
LEMMA FreeSlots ==
    ASSUME NEW w \in Workers, Cardinality(InFlight(w)) < Concurrency
    PROVE  Concurrency - Cardinality(InFlight(w)) \in 0..Concurrency
<1>1. InFlight(w) \subseteq Tokens
  BY DEF InFlight
<1>2. IsFiniteSet(InFlight(w))
  BY <1>1, FS_Subset, EngineAssumption DEF EngineAssumption
<1>3. Cardinality(InFlight(w)) \in Nat
  BY <1>2, FS_CardinalityType
<1> QED
  BY <1>3, EngineAssumption DEF EngineAssumption

(* Every step keeps the types: one step below for each action.             *)
LEMMA TypeStep == TypeOK /\ [Next]_vars => TypeOK'
<1> SUFFICES ASSUME TypeOK, [Next]_vars PROVE TypeOK'
  OBVIOUS
<1> USE EngineAssumption DEF EngineAssumption, TypeOK, Statuses, jobVars, claimVars, workerVars
<1>1. CASE JobStep
  <2>1. ASSUME NEW j \in Jobs, Submit(j) PROVE TypeOK'
    BY <2>1 DEF Submit
  <2>2. ASSUME NEW j \in Jobs, Cancel(j) PROVE TypeOK'
    BY <2>2 DEF Cancel, Cancellable
  <2>3. ASSUME NEW j \in Jobs, Retry(j) PROVE TypeOK'
    BY <2>3 DEF Retry, Requeue, Superseded
  <2>4. ASSUME NEW j \in Jobs, Replay(j) PROVE TypeOK'
    BY <2>4 DEF Replay, Requeue
  <2>5. ASSUME NEW S \in SUBSET Jobs, Promote(S) PROVE TypeOK'
    BY <2>5 DEF Promote
  <2>6. ASSUME NEW S \in SUBSET Jobs, FindDue(S) PROVE TypeOK'
    BY <2>6 DEF FindDue
  <2> QED
    BY <1>1, <2>1, <2>2, <2>3, <2>4, <2>5, <2>6 DEF JobStep
<1>2. CASE TaskStep
  <2>1. ASSUME NEW c \in Tokens, Start(c) PROVE TypeOK'
    BY <2>1 DEF Start, Tasks, ClaimedTasks, Unclaimed
  <2>2. ASSUME NEW c \in Tokens, Succeed(c) PROVE TypeOK'
    BY <2>2, EndType DEF Succeed
  <2>3. ASSUME NEW c \in Tokens, Fail(c) PROVE TypeOK'
    <3>1. task[c].attempt \in Nat
      BY DEF Tasks, ClaimedTasks, Unclaimed
    <3>2. pending' \in [Jobs -> Nat]
      BY <2>3 DEF Fail
    <3> QED
      BY <2>3, <3>1, <3>2, EndType DEF Fail
  <2>4. ASSUME NEW c \in Tokens, Discard(c) PROVE TypeOK'
    BY <2>4, EndType DEF Discard
  <2>5. ASSUME NEW c \in Tokens, TaskError(c) PROVE TypeOK'
    BY <2>5, EndType DEF TaskError
  <2> QED
    BY <1>2, <2>1, <2>2, <2>3, <2>4, <2>5 DEF TaskStep
<1>3. CASE WorkerStep
  <2>1. ASSUME NEW w \in Workers, PollOnce(w) PROVE TypeOK'
    BY <2>1, FreeSlots DEF PollOnce
  <2>2. ASSUME NEW w \in Workers, NEW S \in SUBSET Jobs, ClaimJobs(w, S) PROVE TypeOK'
    <3>1. PICK g \in Injection(S, {t \in Tokens : task[t].pc = "unused"}) :
            /\ lockToken' = [j \in Jobs |-> IF j \in S THEN g[j] ELSE lockToken[j]]
            /\ task' = [t \in Tokens |->
                          IF \E j \in S : g[j] = t
                          THEN [Unclaimed EXCEPT !.job = CHOOSE j \in S : g[j] = t, !.worker = w, !.pc = "claimed"]
                          ELSE task[t]]
      BY <2>2 DEF ClaimJobs, NewTokens
    <3>2. g \in [S -> Tokens]
      BY <3>1 DEF Injection
    <3>3. lockToken' \in [Jobs -> Tokens \union {NoToken}]
      BY <3>1, <3>2
    <3>4. ASSUME NEW t \in Tokens, \E j \in S : g[j] = t
          PROVE  (CHOOSE j \in S : g[j] = t) \in Jobs
      BY <3>4
    <3>9. ASSUME NEW k \in Jobs
          PROVE  [Unclaimed EXCEPT !.job = k, !.worker = w, !.pc = "claimed"] \in Tasks
      BY DEF Tasks, ClaimedTasks, Unclaimed
    <3>5. task' \in [Tokens -> Tasks]
      BY <3>1, <3>4, <3>9
    <3>6. /\ status' = [j \in Jobs |-> IF j \in S THEN "claimed" ELSE status[j]]
          /\ workerId' = [j \in Jobs |-> IF j \in S THEN w ELSE workerId[j]]
          /\ asking' = [asking EXCEPT ![w] = 0]
          /\ UNCHANGED <<attempts, pending, found, exec, workerVars>>
      BY <2>2, Zenon DEF ClaimJobs
    <3>7. status' \in [Jobs -> Statuses] /\ workerId' \in [Jobs -> Workers \union {NoWorker}]
      BY <3>6
    <3>8. asking' \in [Workers -> 0..Concurrency]
      BY <3>6
    <3> QED
      BY <3>3, <3>5, <3>6, <3>7, <3>8
  <2>3. ASSUME NEW w \in Workers, ReadBack(w) PROVE TypeOK'
    <3>1. ASSUME NEW t \in Unread(w)
          PROVE  [task[t] EXCEPT !.pc = "ready", !.token = lockToken[task[t].job],
                                 !.attempt = attempts[task[t].job] + 1] \in Tasks
      <4>1. task[t] \in ClaimedTasks
        BY DEF Unread, Tasks, Unclaimed
      <4>2. task[t].job \in Jobs
        BY <4>1 DEF ClaimedTasks
      <4>3. lockToken[task[t].job] \in Tokens \union {NoToken} /\ attempts[task[t].job] + 1 \in Nat
        BY <4>2
      <4> QED
        BY <4>1, <4>3 DEF Tasks, ClaimedTasks
    <3>2. task' \in [Tokens -> Tasks]
      BY <2>3, <3>1 DEF ReadBack
    <3> QED
      BY <2>3, <3>2 DEF ReadBack
  <2>4. ASSUME NEW w \in Workers, ReadError(w) PROVE TypeOK'
    BY <2>4, EndType DEF ReadError, Unread
  <2>5. ASSUME NEW w \in Workers, Register(w) PROVE TypeOK'
    BY <2>5 DEF Register
  <2>6. ASSUME NEW w \in Workers, Revive(w) PROVE TypeOK'
    BY <2>6 DEF Revive
  <2>7. ASSUME NEW w \in Workers, BeginShutdown(w) PROVE TypeOK'
    BY <2>7 DEF BeginShutdown
  <2>8. ASSUME NEW w \in Workers, MarkSelfDead(w) PROVE TypeOK'
    BY <2>8 DEF MarkSelfDead
  <2>9. ASSUME NEW w \in Workers, Crash(w) PROVE TypeOK'
    BY <2>9, EndType DEF Crash, Unread, InFlight
  <2> QED
    BY <1>3, <2>1, <2>2, <2>3, <2>4, <2>5, <2>6, <2>7, <2>8, <2>9 DEF WorkerStep
<1>4. CASE ReaperStep
  <2>1. PICK D \in SUBSET Workers, S \in SUBSET Jobs : ReapSweep(D, S)
    BY <1>4 DEF ReaperStep
  <2>2. /\ attempts' \in [Jobs -> Nat] /\ pending' \in [Jobs -> Nat]
        /\ exec' \in [Tokens -> {"none", "running", "completed", "failed"}]
    BY <2>1 DEF ReapSweep, CloseExecutions
  <2> QED
    BY <2>1, <2>2 DEF ReapSweep
<1>5. CASE UNCHANGED vars
  BY <1>5 DEF vars
<1> QED
  BY <1>1, <1>2, <1>3, <1>4, <1>5 DEF Next

(* The variables keep their types: in particular no entry count or free    *)
(* slot count of the engine goes below zero.                               *)
THEOREM TypeCorrect == Spec => []TypeOK
BY TypeInit, TypeStep, PTL DEF Spec

-----------------------------------------------------------------------------
(* The steps, one lemma each, preserve the inductive invariant.  TypeOK'   *)
(* is TypeStep's; the other parts are proved here together.                *)
Held == LeaseInv /\ ExecInv /\ AttemptInv /\ AttemptBudget /\ DlqExact

(* Nothing is held before the first claim.                                 *)
LEMMA HeldInit == Init => Held
BY EngineAssumption DEF Init, Held, LeaseInv, ExecInv, AttemptInv, AttemptBudget, DlqExact, EngineAssumption, Unclaimed

(* Steps that leave the jobs, the tasks and the executions alone.          *)
LEMMA HeldQuiet ==
    ASSUME Held, UNCHANGED <<status, workerId, lockToken, attempts, pending, exec, task>>
    PROVE  Held'
BY DEF Held, LeaseInv, ExecInv, AttemptInv, AttemptBudget, DlqExact

(* Steps that only end tasks.                                              *)
LEMMA HeldEnd ==
    ASSUME Held, TypeOK, NEW C \in SUBSET Tokens, \A t \in C : task[t].pc # "unused",
           UNCHANGED <<jobVars, exec>>, task' = End(C)
    PROVE  Held'
<1>1. ASSUME NEW t \in Tokens
      PROVE  /\ task'[t].job = task[t].job /\ task'[t].worker = task[t].worker
             /\ task'[t].pc = "unused" <=> task[t].pc = "unused"
             /\ task'[t].pc \in {"claimed", "ready", "running"} => task'[t] = task[t]
  <2>1. CASE t \notin C
    BY <2>1 DEF End
  <2>2. CASE t \in C
    <3>1. task[t] \in ClaimedTasks
      BY <2>2 DEF TypeOK, Tasks, Unclaimed
    <3> QED
      BY <2>2, <3>1 DEF End, ClaimedTasks
  <2> QED
    BY <2>1, <2>2
<1> QED
  BY <1>1 DEF Held, LeaseInv, ExecInv, AttemptInv, AttemptBudget, DlqExact, jobVars, TypeOK

(* Steps that move the jobs S, which nobody holds, and leave them unheld.  *)
Moved(S) ==
    /\ UNCHANGED <<exec, task>>
    /\ \A j \in Jobs \ S : /\ status'[j] = status[j] /\ lockToken'[j] = lockToken[j] /\ workerId'[j] = workerId[j]
                           /\ attempts'[j] = attempts[j] /\ pending'[j] = pending[j]
    /\ \A j \in S : /\ status[j] \notin {"claimed", "running"}
                    /\ status'[j] \in {"scheduled", "queued", "cancelled"}
                    /\ lockToken'[j] = NoToken /\ pending'[j] = 0
                    /\ attempts'[j] < MaxAttempts

(* Such a move keeps Held: an unheld job has no task that could find it.   *)
LEMMA HeldMove ==
    ASSUME Held, TypeOK, NEW S \in SUBSET Jobs, Moved(S)
    PROVE  Held'
<1> USE DEF Moved
<1>1. \A j \in S : lockToken[j] = NoToken
  BY DEF Held, LeaseInv
<1>2. ASSUME NEW t \in Tokens, task[t].pc # "unused"
      PROVE  task[t].job \in Jobs
  BY <1>2 DEF TypeOK, Tasks, ClaimedTasks, Unclaimed
<1>3. NoToken \notin Tokens
  BY EngineAssumption DEF EngineAssumption
<1>4. LeaseInv'
  BY <1>1, <1>2, <1>3 DEF Held, LeaseInv, TypeOK
<1>5. ExecInv'
  BY <1>1, <1>2, <1>3 DEF Held, ExecInv, LeaseInv, TypeOK
<1>6. AttemptInv'
  BY <1>1, <1>2, <1>3 DEF Held, AttemptInv, TypeOK
<1>7. AttemptBudget' /\ DlqExact'
  BY DEF Held, AttemptBudget, DlqExact
<1> QED
  BY <1>4, <1>5, <1>6, <1>7 DEF Held

(* The API and promotion.                                                  *)
LEMMA HeldJobStep ==
    ASSUME Held, TypeOK, FoundInv, JobStep
    PROVE  Held'
<1>1. ASSUME NEW j \in Jobs, Submit(j) PROVE Held'
  <2>1. pending[j] = 0 /\ attempts[j] < MaxAttempts /\ lockToken[j] = NoToken
    BY <1>1, EngineAssumption DEF Submit, Held, DlqExact, AttemptBudget, LeaseInv, EngineAssumption, TypeOK, claimVars
  <2>2. Moved({j})
    BY <1>1, <2>1, EngineAssumption DEF Moved, Submit, EngineAssumption, TypeOK, claimVars
  <2> QED
    BY <2>2, HeldMove
<1>2. ASSUME NEW j \in Jobs, Cancel(j) PROVE Held'
  <2>1. pending[j] = 0 /\ attempts[j] < MaxAttempts /\ lockToken[j] = NoToken
    BY <1>2, EngineAssumption
       DEF Cancel, Cancellable, Held, DlqExact, AttemptBudget, LeaseInv, EngineAssumption, TypeOK, claimVars
  <2>2. Moved({j})
    BY <1>2, <2>1, EngineAssumption DEF Moved, Cancel, Cancellable, EngineAssumption, TypeOK, claimVars
  <2> QED
    BY <2>2, HeldMove
<1>3. ASSUME NEW j \in Jobs, Retry(j) PROVE Held'
  <2>2. Moved({j})
    BY <1>3, EngineAssumption DEF Moved, Retry, Requeue, Superseded, EngineAssumption, TypeOK, claimVars
  <2> QED
    BY <2>2, HeldMove
<1>4. ASSUME NEW j \in Jobs, Replay(j) PROVE Held'
  <2>1. pending[j] = 1
    BY <1>4, EngineAssumption DEF Replay, Held, DlqExact, EngineAssumption, TypeOK, claimVars
  <2>2. Moved({j})
    BY <1>4, <2>1, EngineAssumption DEF Moved, Replay, Requeue, EngineAssumption, TypeOK, claimVars
  <2> QED
    BY <2>2, HeldMove
<1>5. ASSUME NEW S \in SUBSET Jobs, Promote(S) PROVE Held'
  <2>1. \A j \in S : pending[j] = 0 /\ attempts[j] < MaxAttempts /\ lockToken[j] = NoToken
    BY <1>5, EngineAssumption
       DEF Promote, FoundInv, Held, DlqExact, AttemptBudget, LeaseInv, EngineAssumption, TypeOK, claimVars
  <2>2. Moved(S)
    BY <1>5, <2>1, EngineAssumption DEF Moved, Promote, FoundInv, EngineAssumption, TypeOK, claimVars
  <2> QED
    BY <2>2, HeldMove
<1>6. ASSUME NEW S \in SUBSET Jobs, FindDue(S) PROVE Held'
  BY <1>6, HeldQuiet DEF FindDue, claimVars
<1> QED
  BY <1>1, <1>2, <1>3, <1>4, <1>5, <1>6 DEF JobStep

(* A task that finds its row holds the job under its own claim.            *)
LEMMA Holder ==
    ASSUME Held, TypeOK, NEW c \in Tokens, task[c].pc \in {"ready", "running"}, Owns(c)
    PROVE  /\ task[c] \in ClaimedTasks /\ task[c].job \in Jobs
           /\ lockToken[task[c].job] = c
           /\ status[task[c].job] \in {"claimed", "running"}
           /\ task[c].attempt = attempts[task[c].job] + 1
           /\ pending[task[c].job] = 0
           /\ attempts[task[c].job] \in 0..(MaxAttempts - 1)
<1>1. task[c] \in ClaimedTasks /\ task[c].job \in Jobs
  BY DEF TypeOK, Tasks, ClaimedTasks, Unclaimed
<1>2. lockToken[task[c].job] = c /\ c # NoToken
  BY <1>1, EngineAssumption DEF Held, LeaseInv, Owns, EngineAssumption
<1>3. status[task[c].job] \in {"claimed", "running"}
  BY <1>1, <1>2 DEF Held, LeaseInv
<1> QED
  BY <1>1, <1>2, <1>3, EngineAssumption DEF Held, AttemptInv, AttemptBudget, DlqExact, TypeOK, EngineAssumption

(* The first transaction of a task opens the execution of its claim.       *)
LEMMA HeldStart ==
    ASSUME Held, TypeOK, NEW c \in Tokens, Start(c)
    PROVE  Held'
<1> DEFINE j == task[c].job
<1>1. /\ task[c] \in ClaimedTasks /\ j \in Jobs /\ lockToken[j] = c /\ pending[j] = 0
      /\ status[j] \in {"claimed", "running"} /\ attempts[j] < MaxAttempts
  BY Holder, EngineAssumption DEF Start, EngineAssumption
<1>2. /\ status' = [status EXCEPT ![j] = "running"] /\ exec' = [exec EXCEPT ![c] = "running"]
      /\ UNCHANGED <<workerId, lockToken, attempts, pending>>
  BY DEF Start
<1>3. \A t \in Tokens :
        /\ task'[t].job = task[t].job /\ task'[t].worker = task[t].worker
        /\ task'[t].token = task[t].token /\ task'[t].attempt = task[t].attempt
        /\ task'[t].pc = IF t = c THEN "running" ELSE task[t].pc
  BY <1>1 DEF Start, ClaimedTasks, TypeOK
<1>4. task[c].pc = "ready"
  BY DEF Start
<1>5. \A i \in Jobs : lockToken[i] = c => i = j
  BY <1>1, EngineAssumption DEF Held, LeaseInv, EngineAssumption
<1> HIDE DEF j
<1>6. LeaseInv'
  <2>1. LeaseInv /\ lockToken' = lockToken /\ workerId' = workerId /\ \A i \in Jobs : lockToken[i] \in Tokens \union {NoToken}
    BY <1>2 DEF Held, TypeOK
  <2>2. \A i \in Jobs : status'[i] = IF i = j THEN "running" ELSE status[i]
    BY <1>1, <1>2 DEF TypeOK
  <2>3. \A i \in Jobs : status'[i] \in {"claimed", "running"} <=> status[i] \in {"claimed", "running"}
    BY <1>1, <2>2
  <2>4. \A t \in Tokens : task'[t].pc = "claimed" => lockToken[task[t].job] = t
    BY <1>3, <2>1 DEF LeaseInv
  <2>5. \A t \in Tokens : task'[t].pc \in {"ready", "running"} => task[t].token = t
    BY <1>3, <1>4, <2>1 DEF LeaseInv
  <2> QED BY <1>3, <2>1, <2>3, <2>4, <2>5 DEF LeaseInv
<1>7. ExecInv'
  BY <1>1, <1>2, <1>3, <1>4, <1>5 DEF Held, LeaseInv, ExecInv, TypeOK, j
<1>8. AttemptInv'
  BY <1>1, <1>2, <1>3, <1>4 DEF Held, AttemptInv, TypeOK
<1>9. AttemptBudget' /\ DlqExact'
  BY <1>1, <1>2 DEF Held, AttemptBudget, DlqExact, TypeOK
<1> QED
  BY <1>6, <1>7, <1>8, <1>9 DEF Held

(* The end of a handler: its claim c gives the job up.                     *)
Settled(c) ==
    LET j == task[c].job
    IN  /\ lockToken' = [lockToken EXCEPT ![j] = NoToken]
        /\ task' = End({c})
        /\ \A t \in Tokens \ {c} : exec'[t] = exec[t]
        /\ exec'[c] # "running"
        /\ \A i \in Jobs \ {j} : /\ status'[i] = status[i] /\ workerId'[i] = workerId[i]
                                 /\ attempts'[i] = attempts[i] /\ pending'[i] = pending[i]
        /\ \/ status'[j] = "completed" /\ pending'[j] = 0
           \/ status'[j] = "retrying" /\ pending'[j] = 0 /\ attempts'[j] < MaxAttempts
           \/ status'[j] = "dead" /\ pending'[j] = 1 /\ attempts'[j] = MaxAttempts

(* Such an end keeps Held: the job, its execution and its lease are        *)
(* settled together.                                                       *)
LEMMA HeldSettle ==
    ASSUME Held, TypeOK, NEW c \in Tokens, task[c].pc = "running", Owns(c), Settled(c)
    PROVE  Held'
<1> DEFINE j == task[c].job
<1>1. task[c] \in ClaimedTasks /\ j \in Jobs /\ lockToken[j] = c
  BY Holder
<1>2. /\ \A i \in Jobs : lockToken'[i] = IF i = j THEN NoToken ELSE lockToken[i]
      /\ \A i \in Jobs \ {j} : /\ status'[i] = status[i] /\ workerId'[i] = workerId[i]
                               /\ attempts'[i] = attempts[i] /\ pending'[i] = pending[i]
      /\ status'[j] \in {"completed", "retrying", "dead"}
  BY <1>1 DEF Settled, TypeOK
<1>3. \A t \in Tokens :
        /\ task'[t].job = task[t].job /\ task'[t].worker = task[t].worker
        /\ t # c => task'[t] = task[t]
        /\ task'[t].pc = IF t = c THEN "ended" ELSE task[t].pc
  BY <1>1 DEF Settled, End, ClaimedTasks, TypeOK
<1>4. \A t \in Tokens \ {c} : exec'[t] = exec[t]
  BY DEF Settled
<1>5. exec'[c] # "running"
  BY DEF Settled
<1>6. \A i \in Jobs : lockToken[i] = c => i = j
  BY <1>1, EngineAssumption DEF Held, LeaseInv, EngineAssumption
<1>7. \A t \in Tokens : task[t].pc # "unused" => task[t].job \in Jobs
  BY DEF TypeOK, Tasks, ClaimedTasks, Unclaimed
<1>8. AttemptBudget' /\ DlqExact'
  BY <1>1, <1>2 DEF Held, AttemptBudget, DlqExact, Settled
<1> HIDE DEF j
<1>9. LeaseInv'
  BY <1>1, <1>2, <1>3, <1>6, <1>7, EngineAssumption DEF Held, LeaseInv, TypeOK, EngineAssumption
<1>10. ExecInv'
  BY <1>1, <1>2, <1>3, <1>4, <1>5, <1>6, <1>7 DEF Held, LeaseInv, ExecInv, TypeOK
<1>11. AttemptInv'
  BY <1>1, <1>2, <1>3, <1>7, EngineAssumption DEF Held, AttemptInv, TypeOK, EngineAssumption
<1> QED
  BY <1>8, <1>9, <1>10, <1>11 DEF Held

(* The steps of the tasks.                                                 *)
LEMMA HeldTaskStep ==
    ASSUME Held, TypeOK, TaskStep
    PROVE  Held'
<1>1. ASSUME NEW c \in Tokens, Start(c) PROVE Held'
  BY <1>1, HeldStart
<1>2. ASSUME NEW c \in Tokens, Succeed(c) PROVE Held'
  <2>1. task[c].pc = "running" /\ Owns(c)
    BY <1>2 DEF Succeed
  <2>2. task[c].job \in Jobs /\ pending[task[c].job] = 0
    BY <2>1, Holder
  <2>3. Settled(c)
    BY <1>2, <2>2 DEF Settled, Succeed, TypeOK
  <2> QED
    BY <2>1, <2>3, HeldSettle
<1>3. ASSUME NEW c \in Tokens, Fail(c) PROVE Held'
  <2>1. task[c].pc = "running" /\ Owns(c)
    BY <1>3 DEF Fail
  <2>2. /\ task[c].job \in Jobs /\ pending[task[c].job] = 0
        /\ task[c].attempt = attempts[task[c].job] + 1
        /\ attempts[task[c].job] \in 0..(MaxAttempts - 1)
    BY <2>1, Holder
  <2>3. Settled(c)
    BY <1>3, <2>2, EngineAssumption DEF Settled, Fail, UsedUp, TypeOK, EngineAssumption
  <2> QED
    BY <2>1, <2>3, HeldSettle
<1>4. ASSUME NEW c \in Tokens, Discard(c) PROVE Held'
  BY <1>4, HeldEnd DEF Discard
<1>5. ASSUME NEW c \in Tokens, TaskError(c) PROVE Held'
  BY <1>5, HeldEnd DEF TaskError
<1> QED
  BY <1>1, <1>2, <1>3, <1>4, <1>5 DEF TaskStep

(* The claim transaction gives every job a token no task has used.         *)
LEMMA HeldClaim ==
    ASSUME Held, TypeOK, NEW w \in Workers, NEW S \in SUBSET Jobs, ClaimJobs(w, S)
    PROVE  Held'
<1>1. PICK g \in Injection(S, {t \in Tokens : task[t].pc = "unused"}) :
        /\ lockToken' = [j \in Jobs |-> IF j \in S THEN g[j] ELSE lockToken[j]]
        /\ task' = [t \in Tokens |->
                      IF \E j \in S : g[j] = t
                      THEN [Unclaimed EXCEPT !.job = CHOOSE j \in S : g[j] = t, !.worker = w, !.pc = "claimed"]
                      ELSE task[t]]
  BY DEF ClaimJobs, NewTokens
<1>2. /\ \A j \in S : g[j] \in Tokens /\ task[g[j]].pc = "unused"
      /\ \A i, j \in S : g[i] = g[j] => i = j
  BY <1>1 DEF Injection, IsInjective
<1>3. ASSUME NEW j \in S
      PROVE  task'[g[j]].job = j /\ task'[g[j]].worker = w /\ task'[g[j]].pc = "claimed"
  <2>1. (CHOOSE i \in S : g[i] = g[j]) = j
    BY <1>2
  <2> QED
    BY <1>1, <1>2, <2>1 DEF Unclaimed
<1>4. \A t \in Tokens : (\E j \in S : t = g[j]) \/ task'[t] = task[t]
  BY <1>1
<1>5. /\ \A j \in S : status[j] = "queued" /\ status'[j] = "claimed" /\ lockToken'[j] = g[j] /\ workerId'[j] = w
      /\ \A j \in Jobs \ S : status'[j] = status[j] /\ lockToken'[j] = lockToken[j] /\ workerId'[j] = workerId[j]
      /\ UNCHANGED <<attempts, pending, exec>>
  BY <1>1, Zenon DEF ClaimJobs
<1>6. \A j \in S : lockToken[j] = NoToken
  BY <1>5 DEF Held, LeaseInv
<1>7. \A t \in Tokens : task[t].pc # "unused" => task[t].job \in Jobs
  BY DEF TypeOK, Tasks, ClaimedTasks, Unclaimed
<1>8. \A j \in Jobs : lockToken[j] # NoToken => lockToken[j] \in Tokens /\ task[lockToken[j]].pc # "unused"
  BY EngineAssumption DEF Held, LeaseInv, TypeOK, Tasks, Unclaimed, ClaimedTasks, EngineAssumption
<1>9. NoToken \notin Tokens
  BY EngineAssumption DEF EngineAssumption
<1>10. LeaseInv'
  <2>1. ASSUME NEW j \in Jobs
        PROVE  /\ status'[j] \in {"claimed", "running"} <=> lockToken'[j] # NoToken
               /\ lockToken'[j] # NoToken => /\ task'[lockToken'[j]].job = j
                                             /\ task'[lockToken'[j]].worker = workerId'[j]
    <3>1. CASE j \in S
      BY <3>1, <1>2, <1>3, <1>5, <1>9
    <3>2. CASE j \notin S
      <4>1. lockToken[j] # NoToken => task'[lockToken[j]] = task[lockToken[j]]
        BY <1>2, <1>4, <1>8
      <4> QED
        BY <3>2, <4>1, <1>5 DEF Held, LeaseInv
    <3> QED
      BY <3>1, <3>2
  <2>2. ASSUME NEW t \in Tokens
        PROVE  /\ task'[t].pc = "claimed" => lockToken'[task'[t].job] = t
               /\ task'[t].pc \in {"ready", "running"} => task'[t].token = t
    <3>1. CASE \E j \in S : t = g[j]
      BY <3>1, <1>3, <1>5
    <3>2. CASE task'[t] = task[t]
      <4>1. task[t].pc = "claimed" => task[t].job \in Jobs \ S
        BY <1>6, <1>7, <1>9 DEF Held, LeaseInv
      <4> QED
        BY <3>2, <4>1, <1>5 DEF Held, LeaseInv
    <3> QED
      BY <3>1, <3>2, <1>4
  <2> QED
    BY <2>1, <2>2 DEF LeaseInv
<1>11. ASSUME NEW t \in Tokens, exec[t] = "running" \/ task[t].pc \in {"ready", "running"}
       PROVE  task'[t] = task[t] /\ task[t].job \in Jobs
  <2>1. task[t].pc # "unused"
    BY <1>11 DEF Held, ExecInv
  <2> QED
    BY <2>1, <1>2, <1>4, <1>7
<1>12. ExecInv'
  <2>1. ASSUME NEW t \in Tokens, exec'[t] = "running"
        PROVE  task'[t].pc # "unused" /\ lockToken'[task'[t].job] = t /\ status'[task'[t].job] = "running"
    <3>1. /\ exec[t] = "running" /\ task'[t] = task[t] /\ task[t].job \in Jobs
          /\ task[t].pc # "unused" /\ lockToken[task[t].job] = t /\ status[task[t].job] = "running"
      BY <2>1, <1>5, <1>11 DEF Held, ExecInv
    <3> QED
      BY <3>1, <1>5
  <2>2. ASSUME NEW j \in Jobs, status'[j] = "running"
        PROVE  exec'[lockToken'[j]] = "running"
    BY <2>2, <1>5 DEF Held, ExecInv
  <2> QED
    BY <2>1, <2>2 DEF ExecInv
<1>13. AttemptInv'
  <2>1. ASSUME NEW t \in Tokens, task'[t].pc \in {"ready", "running"}, lockToken'[task'[t].job] = t
        PROVE  task'[t].attempt = attempts'[task'[t].job] + 1
    <3>1. task'[t] = task[t]
      BY <2>1, <1>3, <1>4
    <3>2. task[t].job \in Jobs
      BY <3>1, <2>1, <1>7
    <3>3. task[t].job \notin S
      BY <3>1, <2>1, <1>2, <1>5
    <3> QED
      BY <2>1, <3>1, <3>2, <3>3, <1>5 DEF Held, AttemptInv
  <2> QED
    BY <2>1 DEF AttemptInv
<1>14. AttemptBudget' /\ DlqExact'
  BY <1>5 DEF Held, AttemptBudget, DlqExact
<1> QED
  BY <1>10, <1>12, <1>13, <1>14 DEF Held

(* The re-read finds the tokens the claim wrote.                           *)
LEMMA HeldReadBack ==
    ASSUME Held, TypeOK, NEW w \in Workers, ReadBack(w)
    PROVE  Held'
<1>1. ASSUME NEW t \in Unread(w)
      PROVE  /\ task[t] \in ClaimedTasks /\ lockToken[task[t].job] = t
             /\ task'[t].job = task[t].job /\ task'[t].worker = task[t].worker
             /\ task'[t].pc = "ready" /\ task'[t].token = t
             /\ task'[t].attempt = attempts[task[t].job] + 1
  <2>1. t \in Tokens /\ task[t] \in ClaimedTasks /\ lockToken[task[t].job] = t
    BY DEF Unread, Held, LeaseInv, TypeOK, Tasks, Unclaimed
  <2>2. task'[t] = [task[t] EXCEPT !.pc = "ready", !.token = lockToken[task[t].job],
                                   !.attempt = attempts[task[t].job] + 1]
    BY <2>1 DEF ReadBack
  <2> QED
    BY <2>1, <2>2 DEF ClaimedTasks
<1>2. \A t \in Tokens : t \notin Unread(w) => task'[t] = task[t]
  BY DEF ReadBack
<1>3. UNCHANGED <<jobVars, exec>>
  BY DEF ReadBack
<1>4. \A t \in Unread(w) : task[t].pc = "claimed"
  BY DEF Unread
<1> QED
  BY <1>1, <1>2, <1>3, <1>4 DEF Held, LeaseInv, ExecInv, AttemptInv, AttemptBudget, DlqExact, jobVars, TypeOK

(* The steps of the worker processes.                                      *)
LEMMA HeldWorkerStep ==
    ASSUME Held, TypeOK, WorkerStep
    PROVE  Held'
<1>1. ASSUME NEW w \in Workers, PollOnce(w) PROVE Held'
  BY <1>1, HeldQuiet DEF PollOnce, jobVars
<1>2. ASSUME NEW w \in Workers, NEW S \in SUBSET Jobs, ClaimJobs(w, S) PROVE Held'
  BY <1>2, HeldClaim
<1>3. ASSUME NEW w \in Workers, ReadBack(w) PROVE Held'
  BY <1>3, HeldReadBack
<1>4. ASSUME NEW w \in Workers, ReadError(w) PROVE Held'
  BY <1>4, HeldEnd DEF ReadError, Unread
<1>5. ASSUME NEW w \in Workers,
             Register(w) \/ Revive(w) \/ BeginShutdown(w) \/ MarkSelfDead(w)
      PROVE  Held'
  BY <1>5, HeldQuiet DEF Register, Revive, BeginShutdown, MarkSelfDead, jobVars, claimVars
<1>6. ASSUME NEW w \in Workers, Crash(w) PROVE Held'
  BY <1>6, HeldEnd DEF Crash, Unread, InFlight
<1> QED
  BY <1>1, <1>2, <1>3, <1>4, <1>5, <1>6 DEF WorkerStep

(* The sweep takes no job from a claim that has yet to be re-read.         *)
LEMMA HeldReap ==
    ASSUME Held, TypeOK, PromptRead, ReaperStep
    PROVE  Held'
<1>1. PICK D \in SUBSET Workers, S \in SUBSET Jobs : ReapSweep(D, S)
  BY DEF ReaperStep
<1>2. /\ S \subseteq Active
      /\ S \intersect BeingRead = {}
  BY <1>1 DEF ReapSweep, Orphans
<1>3. UNCHANGED task
  BY <1>1 DEF ReapSweep
<1>4. /\ \A j \in Jobs \ S : /\ status'[j] = status[j] /\ lockToken'[j] = lockToken[j] /\ workerId'[j] = workerId[j]
                             /\ attempts'[j] = attempts[j] /\ pending'[j] = pending[j]
      /\ \A j \in S : lockToken'[j] = NoToken
      /\ \A j \in S : status'[j] = "queued" \/ (status'[j] = "dead" /\ status[j] = "running")
  BY <1>1 DEF ReapSweep, Buried, WasRunning
<1>5. \A j \in S : \/ status[j] = "running" /\ attempts'[j] = attempts[j] + 1 /\ attempts[j] + 1 >= MaxAttempts
                       /\ status'[j] = "dead" /\ pending'[j] = pending[j] + 1
                   \/ status[j] = "running" /\ attempts'[j] = attempts[j] + 1 /\ ~(attempts[j] + 1 >= MaxAttempts)
                       /\ status'[j] = "queued" /\ pending'[j] = pending[j]
                   \/ status[j] # "running" /\ attempts'[j] = attempts[j]
                       /\ status'[j] = "queued" /\ pending'[j] = pending[j]
  BY <1>1 DEF ReapSweep, Buried, WasRunning, UsedUp
<1>6. \A t \in Tokens :
        exec'[t] = IF \E j \in S : status[j] = "running" /\ task[t].job = j /\ exec[t] = "running"
                   THEN "failed" ELSE exec[t]
  BY <1>1 DEF ReapSweep, CloseExecutions, WasRunning
<1>7. \A j \in S : /\ status[j] \in {"claimed", "running"} /\ pending[j] = 0
                   /\ attempts[j] \in Nat /\ attempts[j] < MaxAttempts
  BY <1>2 DEF Active, Held, AttemptBudget, DlqExact, TypeOK
<1>8. \A t \in Tokens : task[t].pc # "unused" => task[t].job \in Jobs
  BY DEF TypeOK, Tasks, ClaimedTasks, Unclaimed
<1>9. NoToken \notin Tokens /\ MaxAttempts \in Nat
  BY EngineAssumption DEF EngineAssumption
<1>10. ASSUME NEW t \in Tokens, task[t].pc = "claimed"
       PROVE  lockToken[task[t].job] = t /\ task[t].job \in Jobs \ S
  BY <1>2, <1>8, <1>10 DEF BeingRead, Held, LeaseInv
<1>11. LeaseInv'
  BY <1>3, <1>4, <1>9, <1>10 DEF Held, LeaseInv
<1>12. ExecInv'
  <2>1. ASSUME NEW t \in Tokens, exec'[t] = "running"
        PROVE  task[t].pc # "unused" /\ lockToken'[task[t].job] = t /\ status'[task[t].job] = "running"
    <3>1. /\ exec[t] = "running" /\ task[t].pc # "unused"
          /\ lockToken[task[t].job] = t /\ status[task[t].job] = "running"
      BY <2>1, <1>6 DEF Held, ExecInv
    <3>2. task[t].job \in Jobs \ S
      BY <2>1, <3>1, <1>6, <1>8
    <3> QED
      BY <3>1, <3>2, <1>4
  <2>2. ASSUME NEW j \in Jobs, status'[j] = "running"
        PROVE  exec'[lockToken'[j]] = "running"
    <3>1. j \notin S /\ status[j] = "running" /\ lockToken'[j] = lockToken[j]
      BY <2>2, <1>4
    <3>2. lockToken[j] \in Tokens /\ task[lockToken[j]].job = j /\ exec[lockToken[j]] = "running"
      BY <3>1 DEF Held, LeaseInv, ExecInv, TypeOK
    <3> QED
      BY <3>1, <3>2, <1>6
  <2> QED
    BY <2>1, <2>2, <1>3 DEF ExecInv
<1>13. AttemptInv'
  BY <1>3, <1>4, <1>8, <1>9 DEF Held, AttemptInv
<1>14. AttemptBudget' /\ DlqExact'
  BY <1>4, <1>5, <1>7, <1>9 DEF Held, AttemptBudget, DlqExact
<1> QED
  BY <1>11, <1>12, <1>13, <1>14 DEF Held
-----------------------------------------------------------------------------
(* Of the jobs a tick has found, none is claimed, settled or swept before  *)
(* it writes them: they are not queued, and nobody holds them.             *)
LEMMA FoundStep ==
    ASSUME Held, TypeOK, FoundInv, [Next]_vars
    PROVE  FoundInv'
<1>1. \A j \in found : j \in Jobs /\ status[j] \in {"scheduled", "retrying", "cancelled"}
  BY DEF FoundInv, TypeOK
<1>2. CASE JobStep
  <2>1. ASSUME NEW j \in Jobs, Submit(j) \/ Cancel(j) PROVE FoundInv'
    BY <1>1, <2>1 DEF Submit, Cancel, FoundInv, TypeOK
  <2>2. ASSUME NEW j \in Jobs, Retry(j) \/ Replay(j) PROVE FoundInv'
    BY <1>1, <2>2 DEF Retry, Replay, Requeue, FoundInv, TypeOK
  <2>3. ASSUME NEW S \in SUBSET Jobs, FindDue(S) \/ Promote(S) PROVE FoundInv'
    BY <2>3 DEF FindDue, Promote, FoundInv, TypeOK
  <2> QED
    BY <1>2, <2>1, <2>2, <2>3 DEF JobStep
<1>3. CASE TaskStep
  <2>1. PICK c \in Tokens : Start(c) \/ Succeed(c) \/ Fail(c) \/ Discard(c) \/ TaskError(c)
    BY <1>3 DEF TaskStep
  <2>2. CASE Discard(c) \/ TaskError(c)
    BY <2>2 DEF Discard, TaskError, jobVars, FoundInv
  <2>3. CASE Start(c) \/ Succeed(c) \/ Fail(c)
    <3>1. status[task[c].job] \in {"claimed", "running"}
      BY <2>3, Holder DEF Start, Succeed, Fail
    <3>2. found' = found /\ \A j \in Jobs : j # task[c].job => status'[j] = status[j]
      BY <2>3 DEF Start, Succeed, Fail, TypeOK
    <3> QED
      BY <1>1, <3>1, <3>2 DEF FoundInv
  <2> QED
    BY <2>1, <2>2, <2>3
<1>4. CASE WorkerStep
  <2>1. ASSUME NEW w \in Workers, NEW S \in SUBSET Jobs, ClaimJobs(w, S) PROVE FoundInv'
    <3>1. /\ S \subseteq {j \in Jobs : status[j] = "queued"} /\ found' = found
          /\ status' = [j \in Jobs |-> IF j \in S THEN "claimed" ELSE status[j]]
      BY <2>1, Zenon DEF ClaimJobs
    <3> QED
      BY <1>1, <3>1 DEF FoundInv
  <2>2. ASSUME NEW w \in Workers,
               \/ PollOnce(w) \/ ReadBack(w) \/ ReadError(w)
               \/ Register(w) \/ Revive(w) \/ BeginShutdown(w) \/ MarkSelfDead(w) \/ Crash(w)
        PROVE  FoundInv'
    BY <2>2 DEF PollOnce, ReadBack, ReadError, Register, Revive, BeginShutdown, MarkSelfDead, Crash, jobVars,
                FoundInv
  <2> QED
    BY <1>4, <2>1, <2>2 DEF WorkerStep
<1>5. CASE ReaperStep
  BY <1>1, <1>5 DEF ReaperStep, ReapSweep, Orphans, Active, FoundInv
<1>6. CASE UNCHANGED vars
  BY <1>6 DEF vars, jobVars, FoundInv
<1> QED
  BY <1>2, <1>3, <1>4, <1>5, <1>6 DEF Next

(* The invariant holds initially.                                          *)
LEMMA EngineInvInit == Init => EngineInv
<1>1. Init => FoundInv
  BY DEF Init, FoundInv
<1> QED
  BY <1>1, TypeInit, HeldInit DEF EngineInv, Held

(* Every step keeps the invariant, if re-reads are prompt.                 *)
LEMMA EngineInvStep ==
    ASSUME PromptRead
    PROVE  EngineInv /\ [Next]_vars => EngineInv'
<1> SUFFICES ASSUME EngineInv, [Next]_vars PROVE EngineInv'
  OBVIOUS
<1>1. Held /\ TypeOK /\ FoundInv
  BY DEF EngineInv, Held
<1>2. TypeOK' /\ FoundInv'
  BY <1>1, TypeStep, FoundStep
<1>3. ASSUME UNCHANGED vars PROVE Held'
  <2>1. UNCHANGED <<status, workerId, lockToken, attempts, pending, exec, task>>
    BY <1>3 DEF vars, jobVars, claimVars
  <2> QED
    BY <1>1, <2>1, HeldQuiet
<1>4. ASSUME JobStep PROVE Held'
  BY <1>1, <1>4, HeldJobStep
<1>5. ASSUME TaskStep PROVE Held'
  BY <1>1, <1>5, HeldTaskStep
<1>6. ASSUME WorkerStep PROVE Held'
  BY <1>1, <1>6, HeldWorkerStep
<1>7. ASSUME ReaperStep PROVE Held'
  BY <1>1, <1>7, HeldReap
<1>8. Held'
  BY <1>3, <1>4, <1>5, <1>6, <1>7 DEF Next
<1> QED
  BY <1>2, <1>8 DEF EngineInv, Held

(* With prompt re-reads the invariant of the engine holds, however workers *)
(* crash, stall, are declared dead and come back, and whatever fails.      *)
THEOREM EngineCorrect ==
    ASSUME PromptRead
    PROVE  Spec => []EngineInv
<1>1. Init => EngineInv
  BY EngineInvInit
<1>2. EngineInv /\ [Next]_vars => EngineInv'
  BY EngineInvStep
<1> QED
  BY <1>1, <1>2, PTL DEF Spec

(* No two tasks hold the same job: docs/design-decisions.md, "Will two     *)
(* workers ever both think they own the same job at the same time? no".    *)
THEOREM OwnerIsUnique ==
    ASSUME PromptRead
    PROVE  Spec => []SoleOwner
<1>1. EngineInv => SoleOwner
  BY DEF EngineInv, LeaseInv, SoleOwner
<1> QED
  BY <1>1, EngineCorrect, PTL

(* A claimed or running job always names the worker it is recovered from.  *)
THEOREM JobsAreRecoverable ==
    ASSUME PromptRead
    PROVE  Spec => []Recoverable
<1>1. ASSUME EngineInv, NEW j \in Active
      PROVE  \E t \in Tokens : /\ lockToken[j] = t /\ task[t].job = j
                               /\ workerId[j] \in Workers /\ task[t].worker = workerId[j]
  <2>1. j \in Jobs /\ lockToken[j] \in Tokens
    BY <1>1 DEF Active, EngineInv, LeaseInv, TypeOK
  <2>2. task[lockToken[j]].job = j /\ task[lockToken[j]].worker = workerId[j]
    BY <1>1, <2>1, EngineAssumption DEF EngineInv, LeaseInv, EngineAssumption
  <2>3. task[lockToken[j]].worker \in Workers
    BY <1>1, <2>1, <2>2, EngineAssumption
       DEF EngineInv, TypeOK, Tasks, ClaimedTasks, Unclaimed, EngineAssumption
  <2> QED
    BY <2>1, <2>2, <2>3
<1>2. EngineInv => Recoverable
  BY <1>1 DEF Recoverable
<1> QED
  BY <1>2, EngineCorrect, PTL

(* Executions and job rows agree.                                          *)
THEOREM LedgerIsExact ==
    ASSUME PromptRead
    PROVE  Spec => []ExecutionLedger
<1>1. ASSUME EngineInv, NEW j \in Jobs
      PROVE  {t \in Tokens : task[t].job = j /\ exec[t] = "running"} =
                 IF status[j] = "running" THEN {lockToken[j]} ELSE {}
  <2>1. status[j] = "running" => /\ lockToken[j] \in Tokens /\ task[lockToken[j]].job = j
                                 /\ exec[lockToken[j]] = "running"
    BY <1>1 DEF EngineInv, LeaseInv, ExecInv, TypeOK
  <2>2. \A t \in Tokens : task[t].job = j /\ exec[t] = "running" => lockToken[j] = t /\ status[j] = "running"
    BY <1>1 DEF EngineInv, ExecInv
  <2> QED
    BY <2>1, <2>2
<1>2. EngineInv => ExecutionLedger
  BY <1>1 DEF ExecutionLedger
<1> QED
  BY <1>2, EngineCorrect, PTL

(* The dead letter queue holds each dead job once and no other job.        *)
THEOREM DeadLettersAreExact ==
    ASSUME PromptRead
    PROVE  Spec => []DlqExact
BY EngineCorrect, PTL DEF EngineInv

(* No job runs more often than its attempts allow.                         *)
THEOREM RetriesAreBounded ==
    ASSUME PromptRead
    PROVE  Spec => []AttemptBudget
BY EngineCorrect, PTL DEF EngineInv
-----------------------------------------------------------------------------
(* The engine implements JobLifecycle.                                     *)

(* A task that has entered its handler and still owns its row is the one   *)
(* that made the job running.                                              *)
HandlerInv ==
    \A t \in Tokens : task[t].pc = "running" /\ lockToken[task[t].job] = t
                     => status[task[t].job] = "running"

Spent == {t \in Tokens : task[t].pc # "unused"}

(* What one step does to job j, a claim apart.                             *)
Walks(j) == Lifecycle!Unleased(j) \/ Lifecycle!Begin(j) \/ Lifecycle!Stays(j)

(* A tick finds waiting jobs only.                                         *)
Picks == found' \subseteq found \union {j \in Jobs : status[j] \in {"scheduled", "retrying"}}

(* A step in which no job is claimed and no task begins.                   *)
LEMMA WalkStep ==
    ASSUME TypeOK', LeaseInv', Spent' = Spent, Picks, \A j \in Jobs : Walks(j)
    PROVE  Lifecycle!Next
<1>1. DOMAIN status' = Jobs /\ DOMAIN lockToken' = Jobs
  BY DEF TypeOK
<1>2. \A i, j \in Jobs : i # j /\ lockToken'[i] = lockToken'[j] => lockToken'[i] = NoToken
  BY DEF LeaseInv
<1>3. ASSUME NEW j \in Jobs PROVE ~Lifecycle!Acquire(j)
  BY DEF Walks, Lifecycle!Acquire, Lifecycle!Unleased, Lifecycle!Begin, Lifecycle!Stays, Lifecycle!Moves,
         Lifecycle!Create, Lifecycle!Promote, Lifecycle!Cancel, Lifecycle!Settle, Lifecycle!Revoke,
         Lifecycle!Replay, Lifecycle!Active, Lifecycle!Waiting
<1>4. {lockToken'[j] : j \in {i \in Jobs : Lifecycle!Acquire(i)}} = {}
  BY <1>3
<1> QED
  BY <1>1, <1>2, <1>4 DEF Lifecycle!Next, Walks, Spent, Picks

(* A job that nobody holds and that is moved between the stages of waiting *)
(* keeps holding no lease.                                                 *)
LEMMA LifeJobStep ==
    ASSUME Held, TypeOK, FoundInv, TypeOK', LeaseInv', JobStep
    PROVE  Lifecycle!Next
<1> USE DEF Walks, Lifecycle!Unleased, Lifecycle!Stays, Lifecycle!Moves, Lifecycle!Waiting
<1>1. Spent' = Spent
  BY DEF JobStep, Submit, FindDue, Promote, Cancel, Retry, Replay, Requeue, claimVars, Spent
<1>2. \A j \in Jobs : status[j] \notin {"claimed", "running"} => lockToken[j] = NoToken
  BY DEF Held, LeaseInv
<1>3. ASSUME NEW j \in Jobs, Submit(j), NEW i \in Jobs PROVE Walks(i)
  BY <1>2, <1>3 DEF Submit, Lifecycle!Create, TypeOK
<1>4. ASSUME NEW j \in Jobs, Cancel(j), NEW i \in Jobs PROVE Walks(i)
  BY <1>2, <1>4 DEF Cancel, Cancellable, Lifecycle!Cancel, TypeOK
<1>5. ASSUME NEW j \in Jobs, Retry(j) \/ Replay(j), NEW i \in Jobs PROVE Walks(i)
  BY <1>2, <1>5 DEF Retry, Replay, Requeue, Lifecycle!Replay, TypeOK
<1>6. ASSUME NEW S \in SUBSET Jobs, Promote(S), NEW i \in Jobs PROVE Walks(i)
  BY <1>2, <1>6 DEF Promote, FoundInv, Lifecycle!Promote, TypeOK
<1>7. ASSUME NEW S \in SUBSET Jobs, FindDue(S), NEW i \in Jobs PROVE Walks(i)
  BY <1>7 DEF FindDue
<1>8. \A i \in Jobs : Walks(i)
  BY <1>3, <1>4, <1>5, <1>6, <1>7 DEF JobStep
<1>9. Picks
  BY DEF JobStep, Submit, FindDue, Promote, Cancel, Retry, Replay, Requeue, Picks
<1> QED
  BY <1>1, <1>8, <1>9, WalkStep

(* Ending tasks frees no token for another claim.                          *)
LEMMA EndSpends ==
    ASSUME TypeOK, NEW C \in SUBSET Tokens, \A t \in C : task[t].pc # "unused", task' = End(C)
    PROVE  Spent' = Spent
<1>1. ASSUME NEW t \in Tokens PROVE task'[t].pc = "unused" <=> task[t].pc = "unused"
  <2>1. CASE t \notin C
    BY <2>1 DEF End
  <2>2. CASE t \in C
    <3>1. task[t] \in ClaimedTasks
      BY <2>2 DEF TypeOK, Tasks, Unclaimed
    <3> QED
      BY <2>2, <3>1 DEF End, ClaimedTasks
  <2> QED
    BY <2>1, <2>2
<1> QED
  BY <1>1 DEF Spent

(* A task begins, settles or leaves its job.                               *)
LEMMA LifeTaskStep ==
    ASSUME Held, TypeOK, HandlerInv, TypeOK', LeaseInv', TaskStep
    PROVE  Lifecycle!Next
<1> USE DEF Walks, Lifecycle!Unleased, Lifecycle!Begin, Lifecycle!Stays, Lifecycle!Moves
<1>0. Picks
  BY DEF TaskStep, Start, Succeed, Fail, Discard, TaskError, jobVars, Picks
<1>1. ASSUME NEW c \in Tokens, Start(c) PROVE Lifecycle!Next
  <2>1. task[c] \in ClaimedTasks /\ task[c].job \in Jobs /\ status[task[c].job] \in {"claimed", "running"}
    BY <1>1, Holder DEF Start
  <2>2. Spent' = Spent
    BY <1>1 DEF Start, Spent, TypeOK
  <2>3. \A i \in Jobs : Walks(i)
    BY <1>1, <2>1 DEF Start, TypeOK
  <2> QED
    BY <1>0, <2>2, <2>3, WalkStep
<1>2. ASSUME NEW c \in Tokens, Succeed(c) \/ Fail(c) PROVE Lifecycle!Next
  <2>1. task[c].job \in Jobs /\ status[task[c].job] = "running"
    BY <1>2, Holder DEF Succeed, Fail, HandlerInv
  <2>2. Spent' = Spent
    BY <1>2, EndSpends DEF Succeed, Fail
  <2>3. \A i \in Jobs : Walks(i)
    BY <1>2, <2>1 DEF Succeed, Fail, Lifecycle!Settle, TypeOK
  <2> QED
    BY <1>0, <2>2, <2>3, WalkStep
<1>3. ASSUME NEW c \in Tokens, Discard(c) \/ TaskError(c) PROVE Lifecycle!Next
  <2>1. Spent' = Spent
    BY <1>3, EndSpends DEF Discard, TaskError
  <2>2. \A i \in Jobs : Walks(i)
    BY <1>3 DEF Discard, TaskError, jobVars
  <2> QED
    BY <1>0, <2>1, <2>2, WalkStep
<1> QED
  BY <1>1, <1>2, <1>3 DEF TaskStep

(* The jobs of a claim statement acquire tokens that no claim has had.     *)
LEMMA LifeClaim ==
    ASSUME Held, TypeOK, TypeOK', LeaseInv', NEW w \in Workers, NEW S \in SUBSET Jobs, ClaimJobs(w, S)
    PROVE  Lifecycle!Next
<1> USE DEF Lifecycle!Acquire, Lifecycle!Stays, Lifecycle!Moves
<1>1. PICK g \in Injection(S, {t \in Tokens : task[t].pc = "unused"}) :
        /\ lockToken' = [j \in Jobs |-> IF j \in S THEN g[j] ELSE lockToken[j]]
        /\ task' = [t \in Tokens |->
                      IF \E j \in S : g[j] = t
                      THEN [Unclaimed EXCEPT !.job = CHOOSE j \in S : g[j] = t, !.worker = w, !.pc = "claimed"]
                      ELSE task[t]]
  BY DEF ClaimJobs, NewTokens
<1>2. \A j \in S : g[j] \in Tokens \ Spent
  BY <1>1 DEF Injection, Spent
<1>3. /\ \A j \in S : status[j] = "queued" /\ status'[j] = "claimed" /\ lockToken'[j] = g[j]
      /\ \A j \in Jobs \ S : status'[j] = status[j] /\ lockToken'[j] = lockToken[j]
  BY <1>1, Zenon DEF ClaimJobs
<1>4. \A j \in Jobs : Lifecycle!Acquire(j) <=> j \in S
  BY <1>2, <1>3 DEF Spent
<1>5. Spent' = Spent \union {lockToken'[j] : j \in S}
  <2>1. ASSUME NEW t \in Tokens
        PROVE  task'[t].pc # "unused" <=> task[t].pc # "unused" \/ \E j \in S : g[j] = t
    BY <1>1 DEF Unclaimed
  <2> QED
    BY <1>2, <1>3, <2>1 DEF Spent
<1>6. DOMAIN status' = Jobs /\ DOMAIN lockToken' = Jobs
  BY DEF TypeOK
<1>7. \A i, j \in Jobs : i # j /\ lockToken'[i] = lockToken'[j] => lockToken'[i] = NoToken
  BY DEF LeaseInv
<1>8. \A j \in Jobs : Lifecycle!Acquire(j) \/ Lifecycle!Stays(j)
  BY <1>3, <1>4
<1>9. {j \in Jobs : Lifecycle!Acquire(j)} = S
  BY <1>4
<1>10. found' = found
  BY Zenon DEF ClaimJobs
<1> HIDE DEF Lifecycle!Acquire, Lifecycle!Stays
<1> QED
  BY <1>5, <1>6, <1>7, <1>8, <1>9, <1>10 DEF Lifecycle!Next, Spent

(* Of the steps of a worker process only the claim moves a job.            *)
LEMMA LifeWorkerStep ==
    ASSUME Held, TypeOK, TypeOK', LeaseInv', WorkerStep
    PROVE  Lifecycle!Next
<1>1. ASSUME NEW w \in Workers, NEW S \in SUBSET Jobs, ClaimJobs(w, S) PROVE Lifecycle!Next
  BY <1>1, LifeClaim
<1>2. ASSUME UNCHANGED jobVars, Spent' = Spent PROVE Lifecycle!Next
  <2>1. \A j \in Jobs : Walks(j)
    BY <1>2 DEF jobVars, Walks, Lifecycle!Stays
  <2>2. Picks
    BY <1>2 DEF jobVars, Picks
  <2> QED
    BY <1>2, <2>1, <2>2, WalkStep
<1>3. ASSUME NEW w \in Workers,
             PollOnce(w) \/ Register(w) \/ Revive(w) \/ BeginShutdown(w) \/ MarkSelfDead(w)
      PROVE  Lifecycle!Next
  BY <1>2, <1>3 DEF PollOnce, Register, Revive, BeginShutdown, MarkSelfDead, claimVars, Spent
<1>4. ASSUME NEW w \in Workers, ReadBack(w) PROVE Lifecycle!Next
  <2>1. ASSUME NEW t \in Tokens PROVE task'[t].pc = "unused" <=> task[t].pc = "unused"
    <3>1. CASE t \notin Unread(w)
      BY <1>4, <3>1 DEF ReadBack
    <3>2. CASE t \in Unread(w)
      <4>1. task[t] \in ClaimedTasks /\ task[t].pc = "claimed"
        BY <3>2 DEF Unread, TypeOK, Tasks, Unclaimed
      <4> QED
        BY <1>4, <3>2, <4>1 DEF ReadBack, ClaimedTasks
    <3> QED
      BY <3>1, <3>2
  <2>2. Spent' = Spent
    BY <2>1 DEF Spent
  <2> QED
    BY <1>2, <1>4, <2>2 DEF ReadBack
<1>5. ASSUME NEW w \in Workers, ReadError(w) PROVE Lifecycle!Next
  BY <1>2, <1>5, EndSpends DEF ReadError, Unread
<1>6. ASSUME NEW w \in Workers, Crash(w) PROVE Lifecycle!Next
  BY <1>2, <1>6, EndSpends DEF Crash, Unread, InFlight
<1> QED
  BY <1>1, <1>3, <1>4, <1>5, <1>6 DEF WorkerStep

(* The reaper takes leases away and gives none.                            *)
LEMMA LifeReap ==
    ASSUME Held, TypeOK, TypeOK', LeaseInv', ReaperStep
    PROVE  Lifecycle!Next
<1>1. PICK D \in SUBSET Workers, S \in SUBSET Jobs : ReapSweep(D, S)
  BY DEF ReaperStep
<1>2. Spent' = Spent
  BY <1>1 DEF ReapSweep, Spent
<1>3. S \subseteq Active
  BY <1>1 DEF ReapSweep, Orphans
<1>4. ASSUME NEW j \in S PROVE Walks(j)
  BY <1>1, <1>3, <1>4
     DEF ReapSweep, Active, Buried, WasRunning, Walks, Lifecycle!Unleased, Lifecycle!Revoke, Lifecycle!Moves,
         Lifecycle!Active
<1>5. ASSUME NEW j \in Jobs \ S PROVE Walks(j)
  BY <1>1, <1>5 DEF ReapSweep, Walks, Lifecycle!Stays
<1>6. Picks
  BY <1>1 DEF ReapSweep, Picks
<1> QED
  BY <1>2, <1>4, <1>5, <1>6, WalkStep

(* Every step of the engine is a step of the lifecycle.                    *)
LEMMA LifecycleStep ==
    ASSUME EngineInv, HandlerInv, EngineInv', [Next]_vars
    PROVE  Lifecycle!Next
<1>1. Held /\ TypeOK /\ FoundInv /\ TypeOK' /\ LeaseInv'
  BY DEF EngineInv, Held
<1>2. ASSUME UNCHANGED vars PROVE Lifecycle!Next
  <2>1. Spent' = Spent /\ Picks /\ \A j \in Jobs : Walks(j)
    BY <1>2 DEF vars, jobVars, claimVars, Spent, Picks, Walks, Lifecycle!Stays
  <2> QED
    BY <1>1, <2>1, WalkStep
<1> QED
  BY <1>1, <1>2, LifeJobStep, LifeTaskStep, LifeWorkerStep, LifeReap DEF Next

(* A task enters its handler, or stays in it, and keeps its job.           *)
LEMMA HandlerTask ==
    ASSUME TypeOK, [Next]_vars, NEW t \in Tokens, task'[t].pc = "running"
    PROVE  /\ task'[t].job = task[t].job /\ task[t].pc # "unused"
           /\ task[t].pc = "running" \/ status'[task[t].job] = "running"
<1> DEFINE Kept == /\ task'[t].job = task[t].job /\ task[t].pc # "unused"
                   /\ task[t].pc = "running" \/ status'[task[t].job] = "running"
<1>1. ASSUME task'[t] = task[t] PROVE Kept
  BY <1>1
<1>2. ASSUME NEW C \in SUBSET Tokens, \A s \in C : task[s].pc # "unused", task' = End(C) PROVE Kept
  <2>1. CASE t \in C
    <3>1. task[t] \in ClaimedTasks
      BY <1>2, <2>1 DEF TypeOK, Tasks, Unclaimed
    <3> QED
      BY <1>2, <2>1, <3>1 DEF End, ClaimedTasks
  <2>2. CASE t \notin C
    BY <1>1, <1>2, <2>2 DEF End
  <2> QED
    BY <2>1, <2>2
<1>3. ASSUME NEW c \in Tokens, Start(c) PROVE Kept
  <2>1. CASE t = c
    <3>1. task[c] \in ClaimedTasks /\ task[c].job \in Jobs
      BY <1>3 DEF Start, TypeOK, Tasks, ClaimedTasks, Unclaimed
    <3> QED
      BY <1>3, <2>1, <3>1 DEF Start, ClaimedTasks, TypeOK
  <2>2. CASE t # c
    BY <1>1, <1>3, <2>2 DEF Start, TypeOK
  <2> QED
    BY <2>1, <2>2
<1>4. ASSUME NEW w \in Workers, NEW S \in SUBSET Jobs, ClaimJobs(w, S) PROVE Kept
  <2>1. PICK g \in Injection(S, {s \in Tokens : task[s].pc = "unused"}) :
          task' = [s \in Tokens |->
                     IF \E j \in S : g[j] = s
                     THEN [Unclaimed EXCEPT !.job = CHOOSE j \in S : g[j] = s, !.worker = w, !.pc = "claimed"]
                     ELSE task[s]]
    BY <1>4 DEF ClaimJobs
  <2> QED
    BY <1>1, <2>1 DEF Unclaimed
<1>5. ASSUME NEW w \in Workers, ReadBack(w) PROVE Kept
  <2>1. CASE t \in Unread(w)
    <3>1. task[t] \in ClaimedTasks
      BY <2>1 DEF Unread, TypeOK, Tasks, Unclaimed
    <3> QED
      BY <1>5, <2>1, <3>1 DEF ReadBack, ClaimedTasks
  <2>2. CASE t \notin Unread(w)
    BY <1>1, <1>5, <2>2 DEF ReadBack
  <2> QED
    BY <2>1, <2>2
<1> HIDE DEF Kept
<1>6. ASSUME TaskStep PROVE Kept
  BY <1>2, <1>3, <1>6 DEF TaskStep, Succeed, Fail, Discard, TaskError
<1>7. ASSUME WorkerStep PROVE Kept
  <2>1. ASSUME NEW w \in Workers, ReadError(w) \/ Crash(w) PROVE Kept
    BY <1>2, <2>1 DEF ReadError, Crash, Unread, InFlight
  <2>2. ASSUME NEW w \in Workers,
               PollOnce(w) \/ Register(w) \/ Revive(w) \/ BeginShutdown(w) \/ MarkSelfDead(w)
        PROVE  Kept
    BY <1>1, <2>2 DEF PollOnce, Register, Revive, BeginShutdown, MarkSelfDead, claimVars
  <2> QED
    BY <1>4, <1>5, <1>7, <2>1, <2>2 DEF WorkerStep
<1>8. ASSUME JobStep \/ ReaperStep \/ UNCHANGED vars PROVE Kept
  BY <1>1, <1>8 DEF JobStep, Submit, Cancel, Retry, Replay, Requeue, FindDue, Promote, ReaperStep, ReapSweep,
                    claimVars, vars
<1> QED
  BY <1>6, <1>7, <1>8 DEF Next, Kept

(* A lease is given up, or goes on with a running job still running.       *)
LEMMA HandlerStep ==
    ASSUME EngineInv, HandlerInv, EngineInv', [Next]_vars
    PROVE  HandlerInv'
<1> SUFFICES ASSUME NEW t \in Tokens, task'[t].pc = "running", lockToken'[task'[t].job] = t
             PROVE  status'[task'[t].job] = "running"
  BY DEF HandlerInv
<1> DEFINE j == task[t].job
<1>1. /\ task'[t].job = j /\ task[t].pc # "unused"
      /\ task[t].pc = "running" \/ status'[j] = "running"
  BY HandlerTask DEF EngineInv
<1>2. j \in Jobs
  BY <1>1 DEF EngineInv, TypeOK, Tasks, ClaimedTasks, Unclaimed
<1>3. Lifecycle!Unleased(j) \/ Lifecycle!Acquire(j) \/ Lifecycle!Begin(j) \/ Lifecycle!Stays(j)
  BY <1>2, LifecycleStep DEF Lifecycle!Next
<1>4. lockToken'[j] # NoToken /\ t \in Spent
  BY <1>1, EngineAssumption DEF Spent, EngineAssumption
<1>5. Lifecycle!Begin(j) \/ Lifecycle!Stays(j)
  BY <1>1, <1>3, <1>4 DEF Lifecycle!Unleased, Lifecycle!Acquire, Spent
<1>6. CASE Lifecycle!Begin(j)
  BY <1>1, <1>6 DEF Lifecycle!Begin, Lifecycle!Moves
<1>7. CASE Lifecycle!Stays(j)
  BY <1>1, <1>2, <1>7 DEF Lifecycle!Stays, HandlerInv
<1> QED
  BY <1>5, <1>6, <1>7

(* The engine keeps the promises of JobLifecycle: whoever moves a job, and *)
(* in whatever order, every step is one of the status diagram, under a     *)
(* lease that is given once and given up on leaving 'running'.  The one    *)
(* step that the documented diagram lacks, out of 'cancelled', is taken    *)
(* only by a promotion for which a tick had read the job as waiting        *)
(* (scheduler.py: the UPDATE over a subquery, and resolve_dependencies).   *)
THEOREM LifecycleImplemented ==
    ASSUME PromptRead
    PROVE  Spec => ImplementsLifecycle
<1>1. Init => Lifecycle!Init /\ HandlerInv
  BY DEF Init, Lifecycle!Init, HandlerInv, Unclaimed
<1>2. EngineInv /\ HandlerInv /\ EngineInv' /\ [Next]_vars => HandlerInv' /\ Lifecycle!Next
  BY HandlerStep, LifecycleStep
<1>3. Spec => []EngineInv
  BY EngineCorrect
<1> QED
  BY <1>1, <1>2, <1>3, PTL DEF Spec, ImplementsLifecycle, Lifecycle!Spec
-----------------------------------------------------------------------------
(* Attempts.                                                               *)

(* A step that closes no execution as failed and leaves the attempts alone *)
(* charges nothing, if it requeues no dead job.                            *)
LEMMA NothingCharged ==
    ASSUME TypeOK, NEW j \in Jobs, attempts'[j] = attempts[j], ~(status[j] = "dead" /\ status'[j] = "queued"),
           \A t \in Tokens : ~(task[t].job = j /\ exec[t] = "running" /\ exec'[t] = "failed")
    PROVE  ChargedOnce(j)
<1>1. {t \in Tokens : task[t].job = j /\ exec[t] = "running" /\ exec'[t] = "failed"} = {}
  OBVIOUS
<1>2. attempts[j] + 0 = attempts[j]
  BY DEF TypeOK
<1> QED
  BY <1>1, <1>2, FS_EmptySet DEF ChargedOnce

(* The one running execution of a job fails and is charged.                *)
LEMMA OneCharged ==
    ASSUME EngineInv, NEW j \in Jobs, status[j] = "running", exec'[lockToken[j]] = "failed",
           attempts'[j] = attempts[j] + 1
    PROVE  ChargedOnce(j)
<1>1. /\ lockToken[j] \in Tokens /\ task[lockToken[j]].job = j
      /\ exec[lockToken[j]] = "running"
      /\ \A t \in Tokens : task[t].job = j /\ exec[t] = "running" => lockToken[j] = t
  BY DEF EngineInv, LeaseInv, ExecInv, TypeOK
<1>2. {t \in Tokens : task[t].job = j /\ exec[t] = "running" /\ exec'[t] = "failed"} = {lockToken[j]}
  BY <1>1
<1>3. Cardinality({lockToken[j]}) = 1
  BY FS_Singleton
<1> QED
  BY <1>2, <1>3 DEF ChargedOnce

(* The worker charges a failed handler, and no other step of a task does.  *)
LEMMA ChargeTaskStep ==
    ASSUME EngineInv, HandlerInv, TaskStep, NEW j \in Jobs
    PROVE  ChargedOnce(j)
<1>1. Held /\ TypeOK
  BY DEF EngineInv, Held
<1>2. ASSUME NEW c \in Tokens, Start(c) \/ Succeed(c) PROVE ChargedOnce(j)
  <2>1. \A t \in Tokens : exec'[t] = "failed" => exec'[t] = exec[t]
    BY <1>1, <1>2 DEF Start, Succeed, TypeOK
  <2>2. attempts'[j] = attempts[j] /\ (status'[j] = status[j] \/ status'[j] \in {"running", "completed"})
    BY <1>1, <1>2 DEF Start, Succeed, TypeOK
  <2> QED
    BY <1>1, <2>1, <2>2, NothingCharged
<1>3. ASSUME NEW c \in Tokens, Fail(c) PROVE ChargedOnce(j)
  <2>1. /\ task[c].job \in Jobs /\ lockToken[task[c].job] = c /\ status[task[c].job] = "running"
        /\ task[c].attempt = attempts[task[c].job] + 1
    BY <1>1, <1>3, Holder DEF Fail, HandlerInv
  <2>2. /\ attempts' = [attempts EXCEPT ![task[c].job] = task[c].attempt]
        /\ exec' = [exec EXCEPT ![c] = "failed"]
        /\ \A i \in Jobs : i # task[c].job => status'[i] = status[i]
    BY <1>1, <1>3, <2>1 DEF Fail, TypeOK
  <2>3. CASE j = task[c].job
    BY <1>1, <2>1, <2>2, <2>3, OneCharged DEF TypeOK
  <2>4. CASE j # task[c].job
    BY <1>1, <2>1, <2>2, <2>4, NothingCharged DEF TypeOK
  <2> QED
    BY <2>3, <2>4
<1>4. ASSUME NEW c \in Tokens, Discard(c) \/ TaskError(c) PROVE ChargedOnce(j)
  BY <1>1, <1>4, NothingCharged DEF Discard, TaskError, jobVars
<1> QED
  BY <1>2, <1>3, <1>4 DEF TaskStep

(* The reaper charges the running jobs it takes, and only those.           *)
LEMMA ChargeReap ==
    ASSUME EngineInv, ReaperStep, NEW j \in Jobs
    PROVE  ChargedOnce(j)
<1>1. PICK D \in SUBSET Workers, S \in SUBSET Jobs : ReapSweep(D, S)
  BY DEF ReaperStep
<1>2. \A t \in Tokens :
        exec'[t] = IF \E i \in S : status[i] = "running" /\ task[t].job = i /\ exec[t] = "running"
                   THEN "failed" ELSE exec[t]
  BY <1>1 DEF ReapSweep, CloseExecutions, WasRunning
<1>3. CASE j \in S /\ status[j] = "running"
  <2>1. attempts'[j] = attempts[j] + 1
    BY <1>1, <1>3 DEF ReapSweep, WasRunning
  <2>2. /\ lockToken[j] \in Tokens /\ task[lockToken[j]].job = j /\ exec[lockToken[j]] = "running"
    BY <1>3 DEF EngineInv, LeaseInv, ExecInv, TypeOK
  <2> QED
    BY <1>2, <1>3, <2>1, <2>2, OneCharged
<1>4. CASE ~(j \in S /\ status[j] = "running")
  <2>1. attempts'[j] = attempts[j]
    BY <1>1, <1>4 DEF ReapSweep, WasRunning
  <2>2. ~(status[j] = "dead" /\ status'[j] = "queued")
    BY <1>1 DEF ReapSweep, Orphans, Active
  <2>3. \A t \in Tokens : ~(task[t].job = j /\ exec[t] = "running" /\ exec'[t] = "failed")
    BY <1>2, <1>4
  <2> QED
    BY <2>1, <2>2, <2>3, NothingCharged DEF EngineInv
<1> QED
  BY <1>3, <1>4

(* A failed execution costs one attempt, whoever records it, and only the  *)
(* requeueing of a dead job gives attempts back.                           *)
THEOREM FailuresAreChargedOnce ==
    ASSUME PromptRead
    PROVE  Spec => FailureChargedOnce
<1>1. ASSUME EngineInv, HandlerInv, [Next]_vars PROVE [\A j \in Jobs : ChargedOnce(j)]_vars
  <2>1. TypeOK
    BY <1>1 DEF EngineInv
  <2> SUFFICES ASSUME NEW j \in Jobs, Next PROVE ChargedOnce(j)
    BY <1>1
  <2>2. ASSUME JobStep PROVE ChargedOnce(j)
    <3>1. ASSUME NEW i \in Jobs, Submit(i) \/ Cancel(i) PROVE ChargedOnce(j)
      BY <2>1, <3>1, NothingCharged DEF Submit, Cancel, Cancellable, claimVars, TypeOK
    <3>2. ASSUME NEW S \in SUBSET Jobs, FindDue(S) \/ Promote(S) PROVE ChargedOnce(j)
      <4>1. exec' = exec /\ attempts' = attempts
        BY <3>2 DEF FindDue, Promote, claimVars
      <4>2. ~(status[j] = "dead" /\ status'[j] = "queued")
        BY <1>1, <3>2 DEF FindDue, Promote, EngineInv, FoundInv
      <4> QED
        BY <2>1, <4>1, <4>2, NothingCharged
    <3>3. ASSUME NEW i \in Jobs, Retry(i) \/ Replay(i) PROVE ChargedOnce(j)
      <4>1. /\ status[i] = "dead" /\ status' = [status EXCEPT ![i] = "queued"]
            /\ attempts' = [attempts EXCEPT ![i] = 0] /\ exec' = exec
        BY <3>3 DEF Retry, Replay, Requeue, claimVars
      <4>2. {t \in Tokens : task[t].job = j /\ exec[t] = "running" /\ exec'[t] = "failed"} = {}
        BY <4>1
      <4>3. CASE j = i
        BY <2>1, <4>1, <4>2, <4>3 DEF ChargedOnce, TypeOK
      <4>4. CASE j # i
        <5>1. status'[j] = status[j] /\ attempts'[j] = attempts[j]
          BY <2>1, <4>1, <4>4 DEF TypeOK
        <5> QED
          BY <2>1, <4>1, <5>1, NothingCharged
      <4> QED
        BY <4>3, <4>4
    <3> QED
      BY <2>2, <3>1, <3>2, <3>3 DEF JobStep
  <2>3. ASSUME WorkerStep PROVE ChargedOnce(j)
    <3>1. exec' = exec /\ attempts' = attempts
      BY <2>3 DEF WorkerStep, PollOnce, ClaimJobs, ReadBack, ReadError, Register, Revive, BeginShutdown,
                  MarkSelfDead, Crash, jobVars, claimVars
    <3>2. status' = status \/ \E S \in SUBSET Jobs : status' = [i \in Jobs |-> IF i \in S THEN "claimed" ELSE status[i]]
      BY <2>3 DEF WorkerStep, PollOnce, ClaimJobs, ReadBack, ReadError, Register, Revive, BeginShutdown,
                  MarkSelfDead, Crash, jobVars
    <3> QED
      BY <2>1, <3>1, <3>2, NothingCharged
  <2> QED
    BY <1>1, <2>2, <2>3, ChargeTaskStep, ChargeReap DEF Next
<1>2. Init => HandlerInv
  BY DEF Init, HandlerInv, Unclaimed
<1>3. EngineInv /\ HandlerInv /\ EngineInv' /\ [Next]_vars => HandlerInv'
  BY HandlerStep
<1>4. Spec => []EngineInv
  BY EngineCorrect
<1> QED
  BY <1>1, <1>2, <1>3, <1>4, PTL DEF Spec, FailureChargedOnce
-----------------------------------------------------------------------------
(* Slots.                                                                  *)

(* The claims of w that its process still works on.                        *)
Busy(w) == InFlight(w) \union Unread(w)

(* NeverOverclaims as it is preserved: a worker's claims and the claim     *)
(* statement it has under way fit its slots.                               *)
WithinSlots(w) == Cardinality(Busy(w)) + asking[w] <= Concurrency

(* Subsets of the claims are finite.                                       *)
LEMMA ClaimsFinite ==
    ASSUME NEW T \in SUBSET Tokens
    PROVE  IsFiniteSet(T) /\ Cardinality(T) \in Nat
<1>1. IsFiniteSet(T)
  BY FS_Subset, EngineAssumption DEF EngineAssumption
<1> QED
  BY <1>1, FS_CardinalityType

(* The claims of a worker are those in flight and those not re-read yet.   *)
LEMMA BusyParts ==
    ASSUME NEW w \in Workers
    PROVE  Cardinality(Busy(w)) = Cardinality(InFlight(w)) + Cardinality(Unread(w))
<1>1. InFlight(w) \subseteq Tokens /\ Unread(w) \subseteq Tokens /\ InFlight(w) \cap Unread(w) = {}
  BY DEF InFlight, Unread
<1>2. /\ IsFiniteSet(InFlight(w)) /\ IsFiniteSet(Unread(w))
      /\ Cardinality(InFlight(w)) \in Nat /\ Cardinality(Unread(w)) \in Nat
  BY <1>1, ClaimsFinite
<1>3. Cardinality(Busy(w)) =
        Cardinality(InFlight(w)) + Cardinality(Unread(w)) - Cardinality(InFlight(w) \cap Unread(w))
  BY <1>2, FS_Union DEF Busy
<1>4. Cardinality(InFlight(w) \cap Unread(w)) = 0
  BY <1>1, FS_EmptySet
<1> QED
  BY <1>2, <1>3, <1>4

(* A step after which a worker has no new claim and asks for no more.      *)
LEMMA FewerClaims ==
    ASSUME TypeOK, TypeOK', NEW w \in Workers, WithinSlots(w), Busy(w)' \subseteq Busy(w),
           asking'[w] <= asking[w]
    PROVE  WithinSlots(w)'
<1>1. Busy(w) \subseteq Tokens
  BY DEF Busy, InFlight, Unread
<1>2. IsFiniteSet(Busy(w)) /\ Cardinality(Busy(w)) \in Nat /\ Cardinality(Busy(w)') \in Nat
  BY <1>1, ClaimsFinite
<1>3. Cardinality(Busy(w)') <= Cardinality(Busy(w))
  BY <1>2, FS_Subset
<1>4. asking[w] \in Nat /\ asking'[w] \in Nat /\ Concurrency \in Nat
  BY EngineAssumption DEF TypeOK, EngineAssumption
<1> QED
  BY <1>2, <1>3, <1>4 DEF WithinSlots

(* The claim statement takes no more jobs than the poll asked for.         *)
LEMMA SlotsClaim ==
    ASSUME TypeOK, TypeOK', NEW w \in Workers, NEW S \in SUBSET Jobs, ClaimJobs(w, S),
           NEW v \in Workers, WithinSlots(v)
    PROVE  WithinSlots(v)'
<1>1. PICK g \in Injection(S, {t \in Tokens : task[t].pc = "unused"}) :
        task' = [t \in Tokens |->
                   IF \E j \in S : g[j] = t
                   THEN [Unclaimed EXCEPT !.job = CHOOSE j \in S : g[j] = t, !.worker = w, !.pc = "claimed"]
                   ELSE task[t]]
  BY DEF ClaimJobs
<1> DEFINE G == {t \in Tokens : \E j \in S : g[j] = t}
<1>2. \A t \in Tokens : t \notin G => task'[t] = task[t]
  BY <1>1
<1>3. \A t \in G : task'[t].worker = w
  BY <1>1 DEF Unclaimed
<1>4. asking' = [asking EXCEPT ![w] = 0] /\ Cardinality(S) <= asking[w]
  BY Zenon DEF ClaimJobs, MayClaim
<1>5. CASE v # w
  <2>1. Busy(v)' \subseteq Busy(v)
    BY <1>2, <1>3, <1>5 DEF Busy, InFlight, Unread
  <2>2. asking'[v] = asking[v] /\ asking[v] \in Nat
    BY <1>4, <1>5 DEF TypeOK
  <2> QED
    BY <2>1, <2>2, FewerClaims
<1>6. CASE v = w
  <2>1. IsFiniteSet(S) /\ Cardinality(S) \in Nat
    <3>1. {t \in Tokens : task[t].pc = "unused"} \subseteq Tokens
      OBVIOUS
    <3>2. IsFiniteSet({t \in Tokens : task[t].pc = "unused"})
      BY <3>1, ClaimsFinite
    <3>3. IsFiniteSet(S)
      BY <1>1, <3>2, FS_Injection
    <3> QED
      BY <3>3, FS_CardinalityType
  <2>2. Cardinality(G) <= Cardinality(S) /\ IsFiniteSet(G) /\ Cardinality(G) \in Nat
    <3>1. g \in Surjection(S, G)
      BY <1>1 DEF Injection, Surjection
    <3>2. IsFiniteSet(G) /\ Cardinality(G) <= Cardinality(S)
      BY <2>1, <3>1, FS_Surjection
    <3> QED
      BY <3>2, FS_CardinalityType
  <2>3. Busy(w) \subseteq Tokens /\ Busy(w)' \subseteq Busy(w) \union G
    BY <1>2 DEF Busy, InFlight, Unread
  <2>4. IsFiniteSet(Busy(w)) /\ Cardinality(Busy(w)) \in Nat
    BY <2>3, ClaimsFinite
  <2>5. /\ IsFiniteSet(Busy(w) \union G)
        /\ Cardinality(Busy(w) \union G) = Cardinality(Busy(w)) + Cardinality(G) - Cardinality(Busy(w) \cap G)
    BY <2>2, <2>4, FS_Union
  <2>6. Cardinality(Busy(w) \cap G) \in Nat
    BY <2>4, FS_Intersection, FS_CardinalityType
  <2>7. Cardinality(Busy(w)') <= Cardinality(Busy(w) \union G) /\ Cardinality(Busy(w)') \in Nat
    BY <2>3, <2>5, FS_Subset, FS_CardinalityType
  <2>8. asking'[w] = 0 /\ asking[w] \in Nat /\ Concurrency \in Nat
    BY <1>4, EngineAssumption DEF TypeOK, EngineAssumption
  <2>9. Cardinality(Busy(w)) + asking[w] <= Concurrency
    BY <1>6 DEF WithinSlots
  <2>10. Cardinality(Busy(w)') + asking'[w] <= Concurrency
    BY <1>4, <2>1, <2>2, <2>4, <2>5, <2>6, <2>7, <2>8, <2>9
  <2> QED
    BY <1>6, <2>10 DEF WithinSlots
<1> QED
  BY <1>5, <1>6

(* A poll asks only when every earlier claim is in flight or over.         *)
LEMMA SlotsPoll ==
    ASSUME TypeOK, NEW w \in Workers, PollOnce(w), NEW v \in Workers, WithinSlots(v)
    PROVE  WithinSlots(v)'
<1>1. task' = task /\ Unread(w) = {} /\ asking' = [asking EXCEPT ![w] = Concurrency - Cardinality(InFlight(w))]
  BY DEF PollOnce, Between
<1>2. Busy(v)' = Busy(v)
  BY <1>1 DEF Busy, InFlight, Unread
<1>3. CASE v # w
  BY <1>1, <1>2, <1>3 DEF WithinSlots, TypeOK
<1>4. CASE v = w
  <2>1. Busy(w) = InFlight(w) /\ InFlight(w) \subseteq Tokens
    BY <1>1 DEF Busy, InFlight
  <2>2. Cardinality(InFlight(w)) \in Nat
    BY <2>1, ClaimsFinite
  <2>3. Concurrency \in Nat
    BY EngineAssumption DEF EngineAssumption
  <2>4. asking'[w] = Concurrency - Cardinality(InFlight(w))
    BY <1>1 DEF TypeOK
  <2> QED
    BY <1>2, <1>4, <2>1, <2>2, <2>3, <2>4 DEF WithinSlots
<1> QED
  BY <1>3, <1>4

(* A step that only ends tasks ends claims.                                *)
LEMMA EndFrees ==
    ASSUME NEW C \in SUBSET Tokens, TypeOK, \A t \in C : task[t].pc # "unused", task' = End(C), NEW w \in Workers
    PROVE  Busy(w)' \subseteq Busy(w)
<1>1. ASSUME NEW t \in Tokens PROVE task'[t] = task[t] \/ task'[t].pc = "ended"
  <2>1. CASE t \in C
    <3>1. task[t] \in ClaimedTasks
      BY <2>1 DEF TypeOK, Tasks, Unclaimed
    <3> QED
      BY <2>1, <3>1 DEF End, ClaimedTasks
  <2>2. CASE t \notin C
    BY <2>2 DEF End
  <2> QED
    BY <2>1, <2>2
<1> QED
  BY <1>1 DEF Busy, InFlight, Unread

(* Every step keeps the claims of a worker within its slots.               *)
LEMMA SlotsStep ==
    ASSUME TypeOK, TypeOK', [Next]_vars, NEW v \in Workers, WithinSlots(v)
    PROVE  WithinSlots(v)'
<1>1. ASSUME Busy(v)' \subseteq Busy(v), asking' = asking PROVE WithinSlots(v)'
  BY <1>1, FewerClaims DEF TypeOK
<1>2. ASSUME task' = task, asking' = asking PROVE WithinSlots(v)'
  BY <1>1, <1>2 DEF Busy, InFlight, Unread
<1>3. ASSUME JobStep \/ ReaperStep \/ UNCHANGED vars PROVE WithinSlots(v)'
  BY <1>2, <1>3 DEF JobStep, Submit, Cancel, Retry, Replay, Requeue, FindDue, Promote, ReaperStep, ReapSweep, claimVars, vars
<1>4. ASSUME TaskStep PROVE WithinSlots(v)'
  <2>1. ASSUME NEW c \in Tokens, Start(c) PROVE WithinSlots(v)'
    <3>1. \A t \in Tokens : task'[t].worker = task[t].worker
      BY <2>1 DEF Start, TypeOK, Tasks, ClaimedTasks, Unclaimed
    <3>2. \A t \in Tokens : t # c => task'[t] = task[t]
      BY <2>1 DEF Start, TypeOK
    <3>3. Busy(v)' \subseteq Busy(v)
      BY <2>1, <3>1, <3>2 DEF Start, Busy, InFlight, Unread
    <3> QED
      BY <1>1, <2>1, <3>3 DEF Start
  <2>2. ASSUME NEW c \in Tokens, Succeed(c) \/ Fail(c) \/ Discard(c) \/ TaskError(c) PROVE WithinSlots(v)'
    BY <1>1, <2>2, EndFrees DEF Succeed, Fail, Discard, TaskError
  <2> QED
    BY <1>4, <2>1, <2>2 DEF TaskStep
<1>5. ASSUME WorkerStep PROVE WithinSlots(v)'
  <2>1. ASSUME NEW w \in Workers, Register(w) \/ Revive(w) \/ BeginShutdown(w) \/ MarkSelfDead(w)
        PROVE  WithinSlots(v)'
    BY <1>2, <2>1 DEF Register, Revive, BeginShutdown, MarkSelfDead, claimVars
  <2>2. ASSUME NEW w \in Workers, ReadBack(w) PROVE WithinSlots(v)'
    <3>1. ASSUME NEW t \in Tokens
          PROVE  /\ task'[t].worker = task[t].worker
                 /\ task'[t] = task[t] \/ t \in Unread(w)
      <4>1. CASE t \in Unread(w)
        <5>1. task[t] \in ClaimedTasks
          BY <4>1 DEF Unread, TypeOK, Tasks, Unclaimed
        <5> QED
          BY <2>2, <4>1, <5>1 DEF ReadBack, ClaimedTasks
      <4>2. CASE t \notin Unread(w)
        BY <2>2, <4>2 DEF ReadBack
      <4> QED
        BY <4>1, <4>2
    <3>2. Busy(v)' \subseteq Busy(v)
      BY <3>1 DEF Busy, InFlight, Unread
    <3> QED
      BY <1>1, <2>2, <3>2 DEF ReadBack
  <2>3. ASSUME NEW w \in Workers, ReadError(w) PROVE WithinSlots(v)'
    <3>1. Busy(v)' \subseteq Busy(v)
      BY <2>3, EndFrees DEF ReadError, Unread
    <3> QED
      BY <1>1, <2>3, <3>1 DEF ReadError
  <2>4. ASSUME NEW w \in Workers, Crash(w) PROVE WithinSlots(v)'
    <3>1. Busy(v)' \subseteq Busy(v)
      BY <2>4, EndFrees DEF Crash, Unread, InFlight
    <3>2. asking'[v] <= asking[v]
      BY <2>4 DEF Crash, TypeOK
    <3> QED
      BY <3>1, <3>2, FewerClaims
  <2> QED
    BY <1>5, <2>1, <2>2, <2>3, <2>4, SlotsClaim, SlotsPoll DEF WorkerStep
<1> QED
  BY <1>3, <1>4, <1>5 DEF Next

(* A worker has at most Concurrency jobs claimed, in flight or asked for:  *)
(* the semaphore of its runtime never makes submit wait with a job that is *)
(* claimed in the database, whether or not re-reads are prompt.            *)
THEOREM SlotsSuffice == Spec => []NeverOverclaims
<1> DEFINE Slots == \A w \in Workers : WithinSlots(w)
<1>1. Init => Slots
  <2> SUFFICES ASSUME Init, NEW w \in Workers PROVE WithinSlots(w)
    OBVIOUS
  <2>1. Busy(w) = {} /\ asking[w] = 0
    BY DEF Init, Busy, InFlight, Unread, Unclaimed
  <2> QED
    BY <2>1, FS_EmptySet, EngineAssumption DEF WithinSlots, EngineAssumption
<1>2. TypeOK /\ TypeOK' /\ Slots /\ [Next]_vars => Slots'
  BY SlotsStep
<1>3. Slots => NeverOverclaims
  BY BusyParts DEF WithinSlots, NeverOverclaims
<1> HIDE DEF Slots
<1> QED
  BY <1>1, <1>2, <1>3, TypeCorrect, PTL DEF Spec
-----------------------------------------------------------------------------
(* The limit of the queue.                                                 *)

(* Only a claim statement makes a job active: whoever starts or settles a  *)
(* job holds it.                                                           *)
LEMMA OnlyClaims ==
    ASSUME EngineInv, [Next]_vars, NEW j \in Jobs, status'[j] \in {"claimed", "running"}
    PROVE  \/ status[j] \in {"claimed", "running"}
           \/ \E w \in Workers, S \in SUBSET Jobs : ClaimJobs(w, S) /\ j \in S
<1>1. Held /\ TypeOK /\ status \in [Jobs -> Statuses]
  BY DEF EngineInv, Held, TypeOK
<1>2. CASE status'[j] = status[j]
  BY <1>2
<1>3. CASE JobStep
  BY <1>1, <1>3 DEF JobStep, Submit, FindDue, Promote, Cancel, Retry, Replay, Requeue
<1>4. CASE TaskStep
  <2>1. ASSUME NEW c \in Tokens, Start(c) PROVE j = task[c].job \/ status'[j] = status[j]
    BY <1>1, <2>1 DEF Start
  <2>2. ASSUME NEW c \in Tokens, Start(c) PROVE status[task[c].job] \in {"claimed", "running"}
    BY <1>1, <2>2, Holder DEF Start
  <2>3. ASSUME NEW c \in Tokens, Succeed(c) \/ Fail(c) \/ Discard(c) \/ TaskError(c)
        PROVE  status'[j] = status[j]
    BY <1>1, <2>3 DEF Succeed, Fail, Discard, TaskError, jobVars
  <2> QED
    BY <1>2, <1>4, <2>1, <2>2, <2>3 DEF TaskStep
<1>5. CASE WorkerStep
  <2>1. ASSUME NEW w \in Workers, NEW S \in SUBSET Jobs, ClaimJobs(w, S)
        PROVE  j \in S \/ status'[j] = status[j]
    BY <2>1, Zenon DEF ClaimJobs
  <2>2. ASSUME NEW w \in Workers,
               \/ PollOnce(w) \/ ReadBack(w) \/ ReadError(w)
               \/ Register(w) \/ Revive(w) \/ BeginShutdown(w) \/ MarkSelfDead(w) \/ Crash(w)
        PROVE  status'[j] = status[j]
    BY <2>2 DEF PollOnce, ReadBack, ReadError, Register, Revive, BeginShutdown, MarkSelfDead, Crash, jobVars
  <2> QED
    BY <1>2, <1>5, <2>1, <2>2 DEF WorkerStep
<1>6. CASE ReaperStep
  BY <1>6 DEF ReaperStep, ReapSweep
<1>7. CASE UNCHANGED vars
  BY <1>2, <1>7 DEF vars, jobVars
<1> QED
  BY <1>3, <1>4, <1>5, <1>6, <1>7 DEF Next

(* The active jobs of the queue are at most what it admits.                *)
WithinLimit == IsFiniteSet(Active) /\ Cardinality(Active) <= QueueLimit

(* A claim counts the active jobs, and nothing else adds to them.          *)
LEMMA LimitStep ==
    ASSUME EngineInv, WithinLimit, [Next]_vars
    PROVE  WithinLimit'
<1>1. QueueLimit \in Nat /\ Cardinality(Active) \in Nat
  BY FS_CardinalityType, EngineAssumption DEF WithinLimit, EngineAssumption
<1>2. CASE Active' \subseteq Active
  <2>1. IsFiniteSet(Active') /\ Cardinality(Active') <= Cardinality(Active)
    BY <1>2, FS_Subset DEF WithinLimit
  <2>2. Cardinality(Active') \in Nat
    BY <2>1, FS_CardinalityType
  <2> QED
    BY <1>1, <2>1, <2>2 DEF WithinLimit
<1>3. CASE ~(Active' \subseteq Active)
  <2>1. PICK j \in Jobs : status'[j] \in {"claimed", "running"} /\ status[j] \notin {"claimed", "running"}
    BY <1>3 DEF Active
  <2>2. PICK w \in Workers, S \in SUBSET Jobs : ClaimJobs(w, S) /\ j \in S
    BY <2>1, OnlyClaims
  <2>3. Cardinality(Active) + Cardinality(S) <= QueueLimit
    <3>1. S # {} /\ MayClaim(w, S)
      BY <2>2 DEF ClaimJobs
    <3> QED
      BY <3>1 DEF MayClaim
  <2>4. IsFiniteSet(S) /\ Cardinality(S) \in Nat
    <3>1. PICK g : g \in Injection(S, {t \in Tokens : task[t].pc = "unused"})
      BY <2>2 DEF ClaimJobs
    <3>2. IsFiniteSet({t \in Tokens : task[t].pc = "unused"})
      BY ClaimsFinite
    <3>3. IsFiniteSet(S)
      BY <3>1, <3>2, FS_Injection
    <3> QED
      BY <3>3, FS_CardinalityType
  <2>5. Active' = Active \union S
    <3>1. status' = [i \in Jobs |-> IF i \in S THEN "claimed" ELSE status[i]]
      BY <2>2 DEF ClaimJobs
    <3> QED
      BY <3>1 DEF Active
  <2>6. /\ IsFiniteSet(Active \union S) /\ Cardinality(Active \cap S) \in Nat
        /\ Cardinality(Active \union S) = Cardinality(Active) + Cardinality(S) - Cardinality(Active \cap S)
    BY <2>4, FS_Union, FS_Intersection, FS_CardinalityType DEF WithinLimit
  <2>7. Cardinality(Active') <= QueueLimit
    BY <1>1, <2>3, <2>4, <2>5, <2>6
  <2> QED
    BY <2>5, <2>6, <2>7 DEF WithinLimit
<1> QED
  BY <1>2, <1>3

(* A queue never has more jobs claimed or running than its limit, whoever  *)
(* claims, crashes and is swept: a job that has been taken back does not   *)
(* become active again but by another claim (claim.py).                    *)
THEOREM LimitIsKept ==
    ASSUME PromptRead
    PROVE  Spec => []WithinLimit
<1>1. Init => WithinLimit
  <2> SUFFICES ASSUME Init PROVE WithinLimit
    OBVIOUS
  <2>1. Active = {}
    BY DEF Init, Active
  <2> QED
    BY <2>1, FS_EmptySet, EngineAssumption DEF WithinLimit, EngineAssumption
<1>2. EngineInv /\ WithinLimit /\ [Next]_vars => WithinLimit'
  BY LimitStep
<1> QED
  BY <1>1, <1>2, EngineCorrect, PTL DEF Spec
-----------------------------------------------------------------------------
(* The workers of the engine.                                              *)
Presence == INSTANCE WorkerPresence

(* A sweep declares the workers it found stale; the other steps of jobs and*)
(* tasks leave processes and rows alone.                                   *)
LEMMA PresenceStep ==
    ASSUME TypeOK, [Next]_vars
    PROVE  [Presence!Next]_<<proc, row>>
<1>1. CASE JobStep \/ TaskStep \/ UNCHANGED vars
  BY <1>1 DEF JobStep, Submit, FindDue, Promote, Cancel, Retry, Replay, Requeue, TaskStep, Start, Succeed, Fail, Discard,
              TaskError, vars, workerVars
<1>2. ASSUME NEW w \in Workers,
             PollOnce(w) \/ (\E S \in SUBSET Jobs : ClaimJobs(w, S)) \/ ReadBack(w) \/ ReadError(w)
      PROVE  UNCHANGED <<proc, row>>
  BY <1>2, Zenon DEF PollOnce, ClaimJobs, ReadBack, ReadError, workerVars
<1>3. ASSUME NEW w \in Workers, Register(w) \/ Revive(w) \/ BeginShutdown(w) \/ MarkSelfDead(w) \/ Crash(w)
      PROVE  Presence!Next
  <2>1. \/ Presence!Register(w) \/ Presence!Revive(w) \/ Presence!BeginShutdown(w)
        \/ Presence!MarkSelfDead(w) \/ Presence!Crash(w)
    BY <1>3 DEF Register, Revive, BeginShutdown, MarkSelfDead, Crash, Alive, Presence!Register, Presence!Revive,
                Presence!BeginShutdown, Presence!MarkSelfDead, Presence!Crash, Presence!Alive, Presence!Proc,
                Presence!Row
  <2> QED
    BY <2>1 DEF Presence!Next
<1>4. ASSUME NEW D \in SUBSET Workers, NEW S \in SUBSET Jobs, ReapSweep(D, S)
      PROVE  Presence!Next
  BY <1>4 DEF ReapSweep, Presence!Declare, Presence!Next
<1> QED
  BY <1>1, <1>2, <1>3, <1>4 DEF Next, WorkerStep, ReaperStep

(* A worker's process and row take the steps of WorkerPresence in the      *)
(* engine, as they do in WorkerRegistry, and no others: neither jobs nor   *)
(* tasks nor a sweep touch them otherwise.                                 *)
THEOREM WorkersArePresent == Spec => Presence!Init /\ [][Presence!Next]_<<proc, row>>
<1>1. Init => Presence!Init
  BY DEF Init, Presence!Init
<1>2. TypeOK /\ [Next]_vars => [Presence!Next]_<<proc, row>>
  BY PresenceStep
<1> QED
  BY <1>1, <1>2, TypeCorrect, PTL DEF Spec
-----------------------------------------------------------------------------
(* Who has a held job in hand.                                             *)
Underway == {"claimed", "ready", "running"}

(* A task is under way in a live process only, and a held job is that of a *)
(* task under way, or of a process that is down.                           *)
LiveTasks == \A t \in Tokens : task[t].pc \in Underway => Alive(task[t].worker)
InGoodHands == \A j \in Active : task[lockToken[j]].pc \in Underway \/ proc[workerId[j]] = "down"

(* What a task remembers of the claim itself never changes.                *)
SameClaim(t) == task'[t].worker = task[t].worker /\ task'[t].job = task[t].job

(* What ending tasks does to one of them.                                  *)
LEMMA EndOne ==
    ASSUME TypeOK, NEW C \in SUBSET Tokens, \A t \in C : task[t].pc # "unused", task' = End(C),
           NEW t \in Tokens
    PROVE  /\ SameClaim(t)
           /\ IF t \in C THEN task'[t].pc = "ended" ELSE task'[t] = task[t]
<1>1. CASE t \in C
  <2>1. task[t] \in ClaimedTasks
    BY <1>1 DEF TypeOK, Tasks, Unclaimed
  <2> QED
    BY <1>1, <2>1 DEF End, ClaimedTasks, SameClaim
<1>2. CASE t \notin C
  BY <1>2 DEF End, SameClaim
<1> QED
  BY <1>1, <1>2

(* No process rises from the dead, and none ends but by Crash.             *)
LEMMA ProcStep ==
    ASSUME TypeOK, [Next]_vars, NEW w \in Workers
    PROVE  /\ proc[w] = "down" => proc'[w] = "down"
           /\ Alive(w) => Alive(w)' \/ Crash(w)
<1>1. CASE UNCHANGED proc
  BY <1>1 DEF Alive
<1>2. CASE JobStep \/ TaskStep \/ ReaperStep \/ UNCHANGED vars
  <2>1. UNCHANGED proc
    BY <1>2 DEF JobStep, Submit, FindDue, Promote, Cancel, Retry, Replay, Requeue, TaskStep, Start, Succeed, Fail, Discard,
                TaskError, ReaperStep, ReapSweep, vars, workerVars
  <2> QED
    BY <1>1, <2>1
<1>3. ASSUME NEW v \in Workers,
             \/ PollOnce(v) \/ (\E S \in SUBSET Jobs : ClaimJobs(v, S)) \/ ReadBack(v) \/ ReadError(v)
             \/ Revive(v) \/ MarkSelfDead(v)
      PROVE  UNCHANGED proc
  BY <1>3, Zenon DEF PollOnce, ClaimJobs, ReadBack, ReadError, Revive, MarkSelfDead, workerVars
<1>4. ASSUME NEW v \in Workers, Register(v) \/ BeginShutdown(v) \/ Crash(v)
      PROVE  /\ proc[w] = "down" => proc'[w] = "down"
             /\ Alive(w) => Alive(w)' \/ Crash(w)
  <2>1. proc \in [Workers -> {"unborn", "up", "stopping", "down"}]
    BY DEF TypeOK
  <2>2. CASE Register(v)
    BY <2>1, <2>2 DEF Register, Alive
  <2>3. CASE BeginShutdown(v)
    BY <2>1, <2>3 DEF BeginShutdown, Alive
  <2>4. CASE Crash(v)
    <3>1. proc' = [proc EXCEPT ![v] = "down"]
      BY <2>4 DEF Crash
    <3> QED
      BY <2>1, <2>4, <3>1 DEF Alive
  <2> QED
    BY <1>4, <2>2, <2>3, <2>4
<1> QED
  BY <1>1, <1>2, <1>3, <1>4 DEF Next, WorkerStep

(* A task that no longer owns its row.                                     *)
LetGo(t) == lockToken'[task[t].job] # t

(* How a task changes: a live process begins it or takes it further; it    *)
(* gives up the row, or its process goes down.                             *)
LEMMA TaskMoves ==
    ASSUME EngineInv, ~DbErrors, [Next]_vars, NEW t \in Tokens
    PROVE  \/ task'[t] = task[t]
           \/ task'[t].pc \in Underway /\ task[t].pc = "unused" /\ task'[t].worker \in Workers /\ Alive(task'[t].worker)
           \/ task'[t].pc \in Underway /\ task[t].pc \in Underway /\ SameClaim(t)
           \/ task'[t].pc = "ended" /\ SameClaim(t) /\ task[t].pc \in Underway
              /\ (LetGo(t) \/ proc'[task[t].worker] = "down")
<1>1. TypeOK /\ Held
  BY DEF EngineInv, Held
<1>2. CASE JobStep \/ ReaperStep \/ UNCHANGED vars
  BY <1>2 DEF JobStep, Submit, Cancel, Retry, Replay, Requeue, FindDue, Promote, ReaperStep, ReapSweep, claimVars, vars
<1>3. ASSUME NEW c \in Tokens, Start(c)
      PROVE  \/ task'[t] = task[t]
             \/ task'[t].pc \in Underway /\ task[t].pc \in Underway /\ SameClaim(t)
  <2>1. task[c] \in ClaimedTasks /\ task[c].pc = "ready"
    BY <1>1, <1>3, Holder DEF Start
  <2>2. task' = [task EXCEPT ![c].pc = "running"]
    BY <1>3 DEF Start
  <2> QED
    BY <1>1, <2>1, <2>2 DEF TypeOK, ClaimedTasks, Underway, SameClaim
<1>4. ASSUME NEW c \in Tokens, Succeed(c) \/ Fail(c) \/ Discard(c)
      PROVE  \/ task'[t] = task[t]
             \/ task'[t].pc = "ended" /\ SameClaim(t) /\ task[t].pc \in Underway /\ LetGo(t)
  <2>1. task' = End({c}) /\ task[c].pc \in {"ready", "running"}
    BY <1>4 DEF Succeed, Fail, Discard
  <2>2. /\ SameClaim(t)
        /\ IF t = c THEN task'[t].pc = "ended" ELSE task'[t] = task[t]
    BY <1>1, <2>1, EndOne
  <2>3. LetGo(c)
    <3>1. task[c].job \in Jobs
      BY <1>1, <2>1 DEF TypeOK, Tasks, ClaimedTasks, Unclaimed
    <3>2. CASE Succeed(c) \/ Fail(c)
      <4>1. lockToken' = [lockToken EXCEPT ![task[c].job] = NoToken]
        BY <3>2 DEF Succeed, Fail
      <4> QED
        BY <1>1, <3>1, <4>1, EngineAssumption DEF LetGo, TypeOK, EngineAssumption
    <3>3. CASE Discard(c)
      <4>1. lockToken' = lockToken /\ lockToken[task[c].job] # task[c].token
        BY <3>3 DEF Discard, Owns, jobVars
      <4>2. task[c].token = c
        BY <1>1, <2>1 DEF Held, LeaseInv
      <4> QED
        BY <4>1, <4>2 DEF LetGo
    <3> QED
      BY <1>4, <3>2, <3>3
  <2> QED
    BY <2>1, <2>2, <2>3 DEF Underway
<1>5. ASSUME NEW w \in Workers, NEW S \in SUBSET Jobs, ClaimJobs(w, S)
      PROVE  \/ task'[t] = task[t]
             \/ task'[t].pc \in Underway /\ task[t].pc = "unused" /\ task'[t].worker \in Workers /\ Alive(task'[t].worker)
  <2>1. PICK g \in Injection(S, {s \in Tokens : task[s].pc = "unused"}) :
          task' = [s \in Tokens |->
                     IF \E j \in S : g[j] = s
                     THEN [Unclaimed EXCEPT !.job = CHOOSE j \in S : g[j] = s, !.worker = w, !.pc = "claimed"]
                     ELSE task[s]]
    BY <1>5 DEF ClaimJobs
  <2>2. \A j \in S : task[g[j]].pc = "unused"
    BY <2>1 DEF Injection
  <2>3. Alive(w)
    BY <1>5 DEF ClaimJobs
  <2> QED
    BY <2>1, <2>2, <2>3 DEF Unclaimed, Underway
<1>6. ASSUME NEW w \in Workers, ReadBack(w)
      PROVE  \/ task'[t] = task[t]
             \/ task'[t].pc \in Underway /\ task[t].pc \in Underway /\ SameClaim(t)
  <2>1. CASE t \in Unread(w)
    <3>1. task[t] \in ClaimedTasks /\ task[t].pc = "claimed"
      BY <1>1, <2>1 DEF Unread, TypeOK, Tasks, Unclaimed
    <3> QED
      BY <1>6, <2>1, <3>1 DEF ReadBack, ClaimedTasks, Underway, SameClaim
  <2>2. CASE t \notin Unread(w)
    BY <1>6, <2>2 DEF ReadBack
  <2> QED
    BY <2>1, <2>2
<1>7. ASSUME NEW w \in Workers, Crash(w)
      PROVE  \/ task'[t] = task[t]
             \/ /\ task'[t].pc = "ended" /\ SameClaim(t) /\ task[t].pc \in Underway
                /\ proc'[task[t].worker] = "down"
  <2>1. task' = End(Busy(w)) /\ Busy(w) \in SUBSET Tokens /\ \A s \in Busy(w) : task[s].pc # "unused"
    <3>1. Busy(w) = Unread(w) \union InFlight(w)
      BY DEF Busy
    <3> QED
      BY <1>7, <3>1 DEF Crash, Unread, InFlight
  <2>2. /\ SameClaim(t)
        /\ IF t \in Busy(w) THEN task'[t].pc = "ended" ELSE task'[t] = task[t]
    BY <1>1, <2>1, EndOne
  <2>3. t \in Busy(w) => task[t].worker = w /\ task[t].pc \in Underway
    BY DEF Busy, Unread, InFlight, Underway
  <2>4. proc'[w] = "down"
    BY <1>1, <1>7 DEF Crash, TypeOK
  <2> QED
    BY <2>2, <2>3, <2>4 DEF SameClaim
<1>8. ASSUME NEW w \in Workers, PollOnce(w) \/ Register(w) \/ Revive(w) \/ BeginShutdown(w) \/ MarkSelfDead(w)
      PROVE  task'[t] = task[t]
  BY <1>8 DEF PollOnce, Register, Revive, BeginShutdown, MarkSelfDead, claimVars
<1>9. ASSUME NEW w \in Workers, ReadError(w) PROVE FALSE
  BY <1>9 DEF ReadError
<1>10. ASSUME NEW c \in Tokens, TaskError(c) PROVE FALSE
  BY <1>10 DEF TaskError
<1> QED
  BY <1>2, <1>3, <1>4, <1>5, <1>6, <1>7, <1>8, <1>9, <1>10 DEF Next, TaskStep, WorkerStep

(* Tasks end with their process.                                           *)
LEMMA LiveStep ==
    ASSUME EngineInv, ~DbErrors, LiveTasks, [Next]_vars
    PROVE  LiveTasks'
<1> SUFFICES ASSUME NEW t \in Tokens, task'[t].pc \in Underway
             PROVE  proc'[task'[t].worker] \in {"up", "stopping"}
  BY DEF LiveTasks, Alive
<1>1. TypeOK
  BY DEF EngineInv
<1>2. /\ task'[t].worker \in Workers /\ Alive(task'[t].worker)
      /\ \/ task[t].pc = "unused"
         \/ task[t].pc \in Underway /\ SameClaim(t)
  <2>1. task[t].pc \in Underway => task[t].worker \in Workers /\ Alive(task[t].worker)
    BY <1>1 DEF TypeOK, Tasks, ClaimedTasks, Unclaimed, Underway, LiveTasks
  <2> QED
    BY <2>1, TaskMoves DEF Underway, SameClaim
<1>3. ASSUME Crash(task'[t].worker) PROVE FALSE
  <2> DEFINE w == task'[t].worker
  <2>1. /\ task' = End(Unread(w) \union InFlight(w)) /\ Unread(w) \union InFlight(w) \in SUBSET Tokens
        /\ \A s \in Unread(w) \union InFlight(w) : task[s].pc # "unused"
    BY <1>3 DEF Crash, Unread, InFlight
  <2>2. IF t \in Unread(w) \union InFlight(w) THEN task'[t].pc = "ended" ELSE task'[t] = task[t]
    BY <1>1, <2>1, EndOne
  <2>3. task[t].pc \in Underway /\ task[t].worker = w => t \in Unread(w) \union InFlight(w)
    BY DEF Unread, InFlight, Underway
  <2> QED
    BY <1>2, <2>2, <2>3 DEF Underway, SameClaim
<1> QED
  BY <1>1, <1>2, <1>3, ProcStep DEF Alive

(* Whoever lets a task go while its process lives has given up the job.    *)
LEMMA HandsStep ==
    ASSUME EngineInv, HandlerInv, EngineInv', ~DbErrors, InGoodHands, [Next]_vars
    PROVE  InGoodHands'
<1> SUFFICES ASSUME NEW j \in Jobs, status'[j] \in {"claimed", "running"}
             PROVE  task'[lockToken'[j]].pc \in Underway \/ proc'[workerId'[j]] = "down"
  BY DEF InGoodHands, Active
<1> DEFINE t == lockToken'[j]
<1>1. TypeOK /\ TypeOK' /\ LeaseInv /\ LeaseInv'
  BY DEF EngineInv
<1>2. t \in Tokens /\ task'[t].job = j /\ task'[t].worker = workerId'[j]
  BY <1>1 DEF LeaseInv, TypeOK
<1>3. task'[t].pc # "unused" /\ task'[t].worker \in Workers
  BY <1>1, <1>2, EngineAssumption DEF TypeOK, Tasks, ClaimedTasks, Unclaimed, EngineAssumption
<1>4. CASE task'[t].pc \in Underway
  BY <1>4
<1>5. CASE task'[t] = task[t] /\ task[t].pc \notin Underway
  <2>1. t \in Spent /\ t # NoToken
    BY <1>2, <1>3, <1>5, EngineAssumption DEF Spent, EngineAssumption
  <2>2. Lifecycle!Unleased(j) \/ Lifecycle!Acquire(j) \/ Lifecycle!Begin(j) \/ Lifecycle!Stays(j)
    BY LifecycleStep DEF Lifecycle!Next
  <2>3. Lifecycle!Begin(j) \/ Lifecycle!Stays(j)
    BY <2>1, <2>2 DEF Lifecycle!Unleased, Lifecycle!Acquire, Spent
  <2>4. lockToken[j] = t /\ status[j] \in {"claimed", "running"}
    BY <2>3 DEF Lifecycle!Begin, Lifecycle!Stays, Lifecycle!Moves
  <2>5. proc[workerId[j]] = "down" /\ workerId[j] = task[t].worker
    BY <1>1, <1>5, <2>1, <2>4 DEF InGoodHands, Active, LeaseInv
  <2> QED
    BY <1>1, <1>2, <1>3, <1>5, <2>5, ProcStep
<1>6. CASE task'[t].pc = "ended" /\ SameClaim(t) /\ task[t].pc \in Underway
           /\ (LetGo(t) \/ proc'[task[t].worker] = "down")
  <2>1. task[t].job = j /\ task[t].worker = workerId'[j]
    BY <1>2, <1>6 DEF SameClaim
  <2> QED
    BY <1>6, <2>1 DEF LetGo
<1>7. task[t].pc \in Underway \/ task[t].pc \notin Underway
  OBVIOUS
<1> QED
  BY <1>2, <1>4, <1>5, <1>6, <1>7, TaskMoves

(* What self-healing rests on: while transactions do not fail and the      *)
(* re-read of a claim is prompt, a claimed or running job is always in the *)
(* hands of a live worker with a task under way for it, or its worker is   *)
(* down and its row is the reaper's to sweep. None is lost in a live       *)
(* process (_execute, poll_once, shutdown; reap_dead_workers).             *)
THEOREM NobodyForgets ==
    ASSUME PromptRead, ~DbErrors
    PROVE  Spec => [](LiveTasks /\ InGoodHands)
<1>1. Init => HandlerInv /\ LiveTasks /\ InGoodHands
  BY DEF Init, HandlerInv, LiveTasks, InGoodHands, Active, Underway, Unclaimed
<1>2. EngineInv /\ HandlerInv /\ EngineInv' /\ [Next]_vars => HandlerInv'
  BY HandlerStep
<1>3. EngineInv /\ LiveTasks /\ [Next]_vars => LiveTasks'
  BY LiveStep
<1>4. EngineInv /\ HandlerInv /\ EngineInv' /\ InGoodHands /\ [Next]_vars => InGoodHands'
  BY HandsStep
<1>5. Spec => []EngineInv
  BY EngineCorrect
<1> QED
  BY <1>1, <1>2, <1>3, <1>4, <1>5, PTL DEF Spec
=============================================================================
