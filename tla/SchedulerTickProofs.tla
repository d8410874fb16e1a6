------------------------- MODULE SchedulerTickProofs -------------------------
(* Proofs about SchedulerTick, for any number of jobs and replicas.        *)
EXTENDS SchedulerTick, TLAPS

(* Initially nothing is open and nothing is gated.                         *)
LEMMA TickInit == Init => TickInv
BY TickAssumption DEF Init, TickInv, TypeOK, OneLeader, ReadsHold, GateHolds, Statuses, Ticks, Idle

(* A new job is no prerequisite of any other yet, and no tick has seen it. *)
LEMMA CreateKeepsTickInv ==
    ASSUME TickInv, NEW j \in Jobs, Create(j)
    PROVE  TickInv'
<1>1. PICK D \in SUBSET {d \in Jobs \ gone : status[d] # "absent"} :
        /\ deps' = [deps EXCEPT ![j] = D]
        /\ \/ D = {} /\ status' = [status EXCEPT ![j] = "queued"]
           \/ status' = [status EXCEPT ![j] = "scheduled"]
  BY DEF Create
<1>2. status[j] = "absent" /\ tick' = tick /\ aborts' = aborts /\ gone' = gone
  BY DEF Create
<1>3. TypeOK'
  BY <1>1, <1>2 DEF TickInv, TypeOK, Statuses
<1>4. \A k \in Jobs : k # j => status'[k] = status[k] /\ deps'[k] = deps[k]
  BY <1>1 DEF TickInv, TypeOK
<1>5. (status'[j] = "queued" /\ deps'[j] = {}) \/ status'[j] = "scheduled"
  BY <1>1 DEF TickInv, TypeOK
<1>6. deps \in [Jobs -> SUBSET Jobs] /\ tick \in [Replicas -> Ticks]
  BY DEF TickInv, TypeOK
<1>7. OneLeader'
  BY <1>2 DEF TickInv, OneLeader
<1>8. ReadsHold'
  BY <1>2, <1>4, <1>6 DEF TickInv, ReadsHold, Ticks
<1>9. GateHolds'
  BY <1>2, <1>4, <1>5, <1>6 DEF TickInv, GateHolds
<1> QED
  BY <1>3, <1>7, <1>8, <1>9 DEF TickInv

(* The other requests and the workers leave completed jobs alone, and move *)
(* a waiting job only to cancel it.                                        *)
LEMMA BecomesKeepsTickInv ==
    ASSUME TickInv, NEW j \in Jobs, NEW From, NEW s \in Statuses,
           "completed" \notin From, s = "cancelled" \/ From \subseteq {"queued", "taken", "dead"},
           Becomes(j, From, s)
    PROVE  TickInv'
<1>1. status[j] \in From /\ status' = [status EXCEPT ![j] = s] /\ UNCHANGED <<deps, gone, tick, aborts>>
  BY DEF Becomes
<1>2. TypeOK'
  BY <1>1 DEF TickInv, TypeOK
<1>3. \A k \in Jobs : k # j => status'[k] = status[k]
  BY <1>1 DEF TickInv, TypeOK
<1>4. status'[j] = s
  BY <1>1 DEF TickInv, TypeOK
<1>5. deps \in [Jobs -> SUBSET Jobs] /\ tick \in [Replicas -> Ticks]
  BY DEF TickInv, TypeOK
<1>6. OneLeader'
  BY <1>1 DEF TickInv, OneLeader
<1>7. \A k \in Jobs : status[k] = "completed" => status'[k] = "completed"
  BY <1>1, <1>3
<1>8. ReadsHold'
  <2> SUFFICES ASSUME NEW r \in Replicas
               PROVE  /\ tick[r].pc = "idle" => tick[r] = Idle
                      /\ \A k \in tick[r].due \union tick[r].lifted :
                           /\ status'[k] \in {"scheduled", "retrying", "cancelled"}
                           /\ \A d \in deps[k] : status'[d] = "completed"
                      /\ \A k \in tick[r].gated : status'[k] \in {"scheduled", "cancelled"} /\ deps[k] # {}
                      /\ \A d \in tick[r].done : status'[d] = "completed"
    BY <1>1 DEF ReadsHold
  <2> QED
    BY <1>1, <1>3, <1>4, <1>5, <1>7 DEF TickInv, ReadsHold, Ticks
<1>9. GateHolds'
  BY <1>1, <1>3, <1>4, <1>5, <1>7 DEF TickInv, GateHolds
<1> QED
  BY <1>2, <1>6, <1>8, <1>9 DEF TickInv

(* A step of a tick before its commit only adds to what the tick has seen. *)
LEMMA TickStepKeepsTickInv ==
    ASSUME TickInv, NEW r \in Replicas, Lead(r) \/ TickStep(r) \/ Abort(r)
    PROVE  TickInv'
<1>1. status \in [Jobs -> Statuses] /\ deps \in [Jobs -> SUBSET Jobs] /\ tick \in [Replicas -> Ticks]
  BY DEF TickInv, TypeOK
<1>2. Idle \in Ticks
  BY DEF Idle, Ticks
<1>3. ASSUME Lead(r)
      PROVE  TickInv'
  <2>1. Leaderless /\ tick' = [tick EXCEPT ![r].pc = "leading"] /\ UNCHANGED <<status, deps, gone, aborts>>
    BY <1>3 DEF Lead
  <2>2. TypeOK'
    BY <1>1, <2>1 DEF TickInv, TypeOK, Ticks
  <2>3. OneLeader'
    BY <1>1, <2>1 DEF OneLeader, Leaderless
  <2>4. ReadsHold' /\ GateHolds'
    BY <1>1, <2>1 DEF TickInv, ReadsHold, GateHolds, Ticks
  <2> QED
    BY <2>2, <2>3, <2>4 DEF TickInv
<1>4. ASSUME tick[r].pc # "idle", UNCHANGED <<status, deps, gone, aborts>>, NEW t \in Ticks, t.pc # "idle",
             tick' = [tick EXCEPT ![r] = t],
             \A k \in t.due \union t.lifted :
               /\ status[k] \in {"scheduled", "retrying", "cancelled"}
               /\ \A d \in deps[k] : status[d] = "completed",
             \A k \in t.gated : status[k] \in {"scheduled", "cancelled"} /\ deps[k] # {},
             \A d \in t.done : status[d] = "completed"
      PROVE  TickInv'
  <2>1. TypeOK'
    BY <1>1, <1>4 DEF TickInv, TypeOK
  <2>2. \A q \in Replicas : tick'[q] = IF q = r THEN t ELSE tick[q]
    BY <1>1, <1>4
  <2>3. OneLeader'
    BY <1>4, <2>2 DEF TickInv, OneLeader
  <2>4. ReadsHold'
    BY <1>4, <2>2 DEF TickInv, ReadsHold
  <2>5. GateHolds'
    BY <1>4 DEF TickInv, GateHolds
  <2> QED
    BY <2>1, <2>3, <2>4, <2>5 DEF TickInv
<1>5. ASSUME FindLimited(r)
      PROVE  TickInv'
  <2>1. PICK S \in SUBSET {j \in Limited : Due(j)} : tick' = [tick EXCEPT ![r].pc = "found", ![r].due = S]
    BY <1>5 DEF FindLimited
  <2>2. S \subseteq Jobs
    BY TickAssumption, <2>1
  <2> DEFINE t == [tick[r] EXCEPT !.pc = "found", !.due = S]
  <2>3. t \in Ticks /\ tick' = [tick EXCEPT ![r] = t]
    BY <1>1, <2>1, <2>2 DEF Ticks
  <2>4. t.pc # "idle" /\ t.due = S /\ t.lifted = tick[r].lifted /\ t.gated = tick[r].gated /\ t.done = tick[r].done
    BY <1>1 DEF Ticks
  <2>5. \A k \in S : /\ status[k] \in {"scheduled", "retrying"}
                     /\ \A d \in deps[k] : status[d] = "completed"
    BY <2>1, <2>2 DEF Due, TickInv, GateHolds
  <2>6. tick[r].pc # "idle" /\ UNCHANGED <<status, deps, gone, aborts>>
    BY <1>5 DEF FindLimited
  <2> HIDE DEF t
  <2> QED
    BY <1>4, <2>3, <2>4, <2>5, <2>6 DEF TickInv, ReadsHold
<1>6. ASSUME PromoteLimited(r)
      PROVE  TickInv'
  <2> DEFINE t == [tick[r] EXCEPT !.pc = "limited", !.lifted = tick[r].due \ gone, !.due = {}]
  <2>1. t \in Ticks /\ tick' = [tick EXCEPT ![r] = t]
    BY <1>1, <1>6 DEF Ticks, PromoteLimited
  <2>2. t.pc # "idle" /\ t.due = {} /\ t.lifted = tick[r].due \ gone /\ t.gated = tick[r].gated /\ t.done = tick[r].done
    BY <1>1 DEF Ticks
  <2>3. tick[r].pc # "idle" /\ UNCHANGED <<status, deps, gone, aborts>>
    BY <1>6 DEF PromoteLimited
  <2> HIDE DEF t
  <2> QED
    BY <1>4, <2>1, <2>2, <2>3 DEF TickInv, ReadsHold
<1>7. ASSUME PromoteDue(r)
      PROVE  TickInv'
  <2>1. PICK S \in SUBSET {j \in Jobs \ Limited : Due(j) /\ ~Locked(j)} :
          tick' = [tick EXCEPT ![r].pc = "promoted", ![r].lifted = @ \union S]
    BY <1>7 DEF PromoteDue
  <2> DEFINE t == [tick[r] EXCEPT !.pc = "promoted", !.lifted = tick[r].lifted \union S]
  <2>2. t \in Ticks /\ tick' = [tick EXCEPT ![r] = t]
    BY <1>1, <2>1 DEF Ticks
  <2>3. t.pc # "idle" /\ t.due = tick[r].due /\ t.lifted = tick[r].lifted \union S
        /\ t.gated = tick[r].gated /\ t.done = tick[r].done
    BY <1>1 DEF Ticks
  <2>4. \A k \in S : /\ status[k] \in {"scheduled", "retrying"}
                     /\ \A d \in deps[k] : status[d] = "completed"
    BY <2>1 DEF Due, TickInv, GateHolds
  <2>5. tick[r].pc # "idle" /\ UNCHANGED <<status, deps, gone, aborts>>
    BY <1>7 DEF PromoteDue
  <2> HIDE DEF t
  <2> QED
    BY <1>4, <2>2, <2>3, <2>4, <2>5 DEF TickInv, ReadsHold
<1>8. ASSUME ReadGated(r)
      PROVE  TickInv'
  <2> DEFINE G == {j \in Jobs \ gone : status[j] = "scheduled" /\ deps[j] # {}}
             t == [tick[r] EXCEPT !.pc = "gated", !.gated = G]
  <2>1. t \in Ticks /\ tick' = [tick EXCEPT ![r] = t]
    BY <1>1, <1>8 DEF Ticks, ReadGated
  <2>2. t.pc # "idle" /\ t.due = tick[r].due /\ t.lifted = tick[r].lifted /\ t.gated = G /\ t.done = tick[r].done
    BY <1>1 DEF Ticks
  <2>3. tick[r].pc # "idle" /\ UNCHANGED <<status, deps, gone, aborts>>
    BY <1>8 DEF ReadGated
  <2> HIDE DEF t
  <2> QED
    BY <1>4, <2>1, <2>2, <2>3 DEF TickInv, ReadsHold
<1>9. ASSUME ReadStatuses(r)
      PROVE  TickInv'
  <2> DEFINE D == {d \in Prerequisites(r) \ gone : status[d] = "completed"}
             L == {d \in Prerequisites(r) \ (tick[r].lifted \union gone) : status[d] \in {"dead", "cancelled"}}
             K == Prerequisites(r) \intersect gone
             t == [tick[r] EXCEPT !.pc = "resolved", !.done = D, !.lost = L, !.missing = K]
  <2>1. Prerequisites(r) \subseteq Jobs
    BY <1>1 DEF Prerequisites, Ticks
  <2>2. t \in Ticks /\ tick' = [tick EXCEPT ![r] = t]
    BY <1>1, <1>9, <2>1 DEF Ticks, ReadStatuses
  <2>3. t.pc # "idle" /\ t.due = tick[r].due /\ t.lifted = tick[r].lifted /\ t.gated = tick[r].gated /\ t.done = D
    BY <1>1 DEF Ticks
  <2>4. tick[r].pc # "idle" /\ UNCHANGED <<status, deps, gone, aborts>>
    BY <1>9 DEF ReadStatuses
  <2> HIDE DEF t
  <2> QED
    BY <1>4, <2>2, <2>3, <2>4 DEF TickInv, ReadsHold
<1>10. ASSUME Commit(r)
       PROVE  TickInv'
  <2>1. tick' = [tick EXCEPT ![r] = Idle] /\ UNCHANGED <<deps, gone, aborts>>
    BY <1>10 DEF Commit
  <2>2. \A k \in Jobs : status'[k] = IF k \in gone THEN status[k]
                                     ELSE IF k \in tick[r].lifted \union Ready(r) THEN "queued"
                                     ELSE IF k \in Doomed(r) THEN "cancelled" ELSE status[k]
    BY <1>10 DEF Commit
  <2>3. TypeOK'
    BY <1>1, <1>2, <1>10, <2>1 DEF Commit, TickInv, TypeOK, Statuses
  <2>4. tick[r].pc # "idle"
    BY <1>10 DEF Commit
  <2>5. \A q \in Replicas : tick'[q].pc = "idle"
    BY <1>1, <2>1, <2>4 DEF TickInv, OneLeader, Idle
  <2>6. \A q \in Replicas : tick[q].pc = "idle" \/ q = r
    BY <2>4 DEF TickInv, OneLeader
  <2>7. \A k \in Jobs : status[k] = "completed" => status'[k] = "completed"
    BY <1>1, <2>2 DEF TickInv, ReadsHold, Ready, Doomed, Ticks
  <2>8. \A k \in tick[r].lifted \union Ready(r) : \A d \in deps[k] : status[d] = "completed"
    BY <1>1 DEF TickInv, ReadsHold, Ready
  <2>9. OneLeader'
    BY <2>5 DEF OneLeader
  <2>10. GateHolds'
    BY <1>1, <2>1, <2>2, <2>7, <2>8 DEF TickInv, GateHolds
  <2>11. \A q \in Replicas : tick'[q] = Idle
    BY <1>1, <2>1, <2>6 DEF TickInv, ReadsHold
  <2>12. ReadsHold'
    BY <2>11 DEF ReadsHold, Idle
  <2> QED
    BY <2>3, <2>9, <2>10, <2>12 DEF TickInv
<1>11. ASSUME Abort(r) \/ Stale(r)
       PROVE  TickInv'
  <2>1. /\ tick' = [tick EXCEPT ![r] = Idle] /\ UNCHANGED <<status, deps, gone>>
        /\ (aborts < MaxAborts /\ aborts' = aborts + 1) \/ aborts' = aborts
    BY <1>11 DEF Abort, Stale
  <2>2. \A q \in Replicas : tick'[q] = IF q = r THEN Idle ELSE tick[q]
    BY <1>1, <2>1
  <2>3. TypeOK'
    BY <1>1, <1>2, <2>1, TickAssumption DEF TickInv, TypeOK
  <2>4. OneLeader'
    BY <2>2 DEF TickInv, OneLeader, Idle
  <2>5. ReadsHold' /\ GateHolds'
    BY <2>1, <2>2 DEF TickInv, ReadsHold, GateHolds, Idle
  <2> QED
    BY <2>3, <2>4, <2>5 DEF TickInv
<1> QED
  BY <1>3, <1>5, <1>6, <1>7, <1>8, <1>9, <1>10, <1>11 DEF TickStep

(* A deletion changes no status and takes no row a tick has locked.        *)
LEMMA DeleteKeepsTickInv ==
    ASSUME TickInv, NEW j \in Jobs, Delete(j)
    PROVE  TickInv'
<1>1. UNCHANGED <<status, deps, tick, aborts>> /\ gone' \subseteq Jobs
  BY DEF Delete, TickInv, TypeOK
<1> QED
  BY <1>1 DEF TickInv, TypeOK, OneLeader, ReadsHold, GateHolds

(* Every step of the scheduler, the API and the workers keeps TickInv.     *)
LEMMA TickInvStep == TickInv /\ [Next]_vars => TickInv'
<1> SUFFICES ASSUME TickInv, [Next]_vars
             PROVE  TickInv'
  OBVIOUS
<1>1. ASSUME NEW j \in Jobs, Cancel(j) \/ Take(j) \/ Finish(j) \/ Replay(j)
      PROVE  TickInv'
  <2>1. ASSUME Cancel(j) PROVE TickInv'
    BY <2>1, BecomesKeepsTickInv DEF Cancel, Statuses
  <2>2. ASSUME Take(j) PROVE TickInv'
    BY <2>2, BecomesKeepsTickInv DEF Take, Statuses
  <2>3. ASSUME Finish(j) PROVE TickInv'
    <3>1. PICK s \in {"completed", "retrying", "dead"} : Becomes(j, {"taken"}, s)
      BY <2>3 DEF Finish
    <3> QED
      BY <3>1, BecomesKeepsTickInv DEF Statuses
  <2>4. ASSUME Replay(j) PROVE TickInv'
    BY <2>4, BecomesKeepsTickInv DEF Replay, Statuses
  <2> QED
    BY <1>1, <2>1, <2>2, <2>3, <2>4
<1>2. CASE UNCHANGED vars
  BY <1>2 DEF vars, TickInv, TypeOK, OneLeader, ReadsHold, GateHolds
<1> QED
  BY <1>1, <1>2, CreateKeepsTickInv, DeleteKeepsTickInv, TickStepKeepsTickInv DEF Next

(* What a tick has read stays true until it commits, and so every job that *)
(* is let out of the gate has only completed prerequisites.                *)
THEOREM TickCorrect == Spec => []TickInv
<1>1. Init => TickInv
  BY TickInit
<1>2. TickInv /\ [Next]_vars => TickInv'
  BY TickInvStep
<1> QED
  BY <1>1, <1>2, PTL DEF Spec

(* A job never runs before its prerequisites have completed.               *)
THEOREM GateIsSafe == Spec => []GateHolds
BY TickCorrect, PTL DEF TickInv

(* The commit of a tick moves no job that is queued, in a worker's hands,  *)
(* completed or dead.                                                      *)
THEOREM TicksSpareWork == Spec => TickSparesWork
<1>1. ASSUME TickInv, [Next]_vars, NEW r \in Replicas, tick[r].pc = "resolved", tick'[r].pc = "idle",
             NEW j \in Jobs, status[j] \in {"queued", "taken", "completed", "dead"}
      PROVE  status'[j] = status[j]
  <2>1. tick \in [Replicas -> Ticks] /\ status \in [Jobs -> Statuses] /\ deps \in [Jobs -> SUBSET Jobs]
    BY <1>1 DEF TickInv, TypeOK
  <2>2. ASSUME NEW k \in Jobs, Create(k) \/ Cancel(k) \/ Take(k) \/ Finish(k) \/ Replay(k) \/ Delete(k)
        PROVE  FALSE
    BY <1>1, <2>2 DEF Create, Cancel, Take, Finish, Replay, Becomes, Delete
  <2>3. ASSUME NEW q \in Replicas, Commit(q)
        PROVE  status'[j] = status[j]
    BY <1>1, <2>1, <2>3 DEF Commit, Ready, Doomed, TickInv, ReadsHold, Ticks
  <2>4. ASSUME NEW q \in Replicas, Lead(q) \/ FindLimited(q) \/ PromoteLimited(q) \/ PromoteDue(q)
                                   \/ ReadGated(q) \/ ReadStatuses(q) \/ Stale(q) \/ Abort(q)
        PROVE  status'[j] = status[j]
    BY <2>4 DEF Lead, FindLimited, PromoteLimited, PromoteDue, ReadGated, ReadStatuses, Stale, Abort
  <2>5. CASE UNCHANGED vars
    BY <2>5 DEF vars
  <2> QED
    BY <1>1, <2>2, <2>3, <2>4, <2>5 DEF Next, TickStep
<1>2. TickInv /\ [Next]_vars =>
        [\A r \in Replicas : tick[r].pc = "resolved" /\ tick'[r].pc = "idle" =>
           \A j \in Jobs : status[j] \in {"queued", "taken", "completed", "dead"} => status'[j] = status[j]]_vars
  BY <1>1
<1> QED
  BY <1>2, TickCorrect, PTL DEF Spec, TickSparesWork
=============================================================================
