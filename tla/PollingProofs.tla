---------------------------- MODULE PollingProofs -----------------------------
(***************************************************************************)
(* For any workers, queues, jobs and limits: claims keep the limit they    *)
(* read and the slots they have, and no wake-up is lost.                   *)
(***************************************************************************)
EXTENDS Polling, TLAPS, FiniteSetTheorems

(* The bounds are numbers, and jobs can be counted.                        *)
LEMMA Settings ==
  /\ Concurrency \in Nat /\ Concurrency > 0 /\ IsFiniteSet(Jobs)
  /\ Limits \in SUBSET Nat /\ NoWorker \notin Workers
  BY PollingAssumption DEF PollingAssumption

(* The workers of a setup are workers, and every job has a queue.          *)
LEMMA SetupType ==
  ASSUME setup \in Setups
  PROVE  setup.up \in SUBSET Workers /\ \A j \in Jobs : QueueOf(j) \in Queues
  BY PollingAssumption DEF PollingAssumption, QueueOf

(* Sets of jobs have sizes, and a part is not larger than the whole.       *)
LEMMA PartIsSmaller ==
  ASSUME NEW T \in SUBSET Jobs, NEW S \in SUBSET T
  PROVE  /\ IsFiniteSet(S) /\ IsFiniteSet(T) /\ Cardinality(S) \in Nat /\ Cardinality(T) \in Nat
         /\ Cardinality(S) <= Cardinality(T)
  <1>1. IsFiniteSet(T) BY Settings, FS_Subset
  <1>2. IsFiniteSet(S) /\ Cardinality(S) <= Cardinality(T) BY <1>1, FS_Subset
  <1> QED BY <1>1, <1>2, FS_CardinalityType

(* Two sets of jobs together are no larger than the sum of both.           *)
LEMMA UnionIsBounded ==
  ASSUME NEW S \in SUBSET Jobs, NEW T \in SUBSET Jobs
  PROVE  Cardinality(S \union T) <= Cardinality(S) + Cardinality(T)
  <1>1. IsFiniteSet(S) /\ IsFiniteSet(T) /\ Cardinality(S) \in Nat /\ Cardinality(T) \in Nat
    BY PartIsSmaller
  <1>2. Cardinality(S \intersect T) \in Nat BY PartIsSmaller
  <1>3. Cardinality(S \union T) = Cardinality(S) + Cardinality(T) - Cardinality(S \intersect T)
    BY <1>1, FS_Union
  <1> QED BY <1>1, <1>2, <1>3

(* What a claim writes: some queued, unlocked jobs of its queue, no more   *)
(* than it has slots for, nor than the queue it read had room for.         *)
LEMMA ClaimTakes ==
  ASSUME PollInv, NEW w \in Workers, Claim(w)
  PROVE  \E S \in SUBSET Jobs :
           /\ \A j \in S : QueueOf(j) = at[w].queue /\ status[j] = "queued" /\ j \notin touched
           /\ status' = [j \in Jobs |-> IF j \in S THEN "active" ELSE status[j]]
           /\ holder' = [j \in Jobs |-> IF j \in S THEN w ELSE holder[j]]
           /\ Cardinality(S) <= at[w].free
           /\ S # {} => ~at[w].view.paused /\ at[w].view.used + Cardinality(S) <= at[w].view.limit
  <1>1. at[w].pc = "read" /\ at[w] \in Places /\ at[w].view.rows \subseteq Jobs
    BY Settings DEF Claim, PollInv, TypeOK, Places, Views
  <1>2. PICK S \in SUBSET Eligible(at[w]) :
          /\ Cardinality(S) = Least(Room(at[w]), Cardinality(Eligible(at[w])))
          /\ status' = [j \in Jobs |-> IF j \in S THEN "active" ELSE status[j]]
          /\ holder' = [j \in Jobs |-> IF j \in S THEN w ELSE holder[j]]
    BY DEF Claim
  <1>3. S \in SUBSET Jobs /\ Eligible(at[w]) \in SUBSET Jobs
    BY <1>1 DEF Eligible
  <1>4. \A j \in S : QueueOf(j) = at[w].queue /\ status[j] = "queued" /\ j \notin touched
    BY <1>1 DEF Eligible, PollInv, CountHolds, Claiming
  <1>5. Cardinality(S) \in Nat /\ Cardinality(Eligible(at[w])) \in Nat /\ IsFiniteSet(S)
    BY <1>3, PartIsSmaller
  <1>6. at[w].free \in Nat /\ at[w].view.used \in Nat /\ at[w].view.limit \in Nat
    <2>1. at[w].free \in 0 .. Concurrency /\ at[w].view \in Views
      BY <1>1 DEF Places
    <2>2. at[w].view.used \in Nat /\ at[w].view.limit \in Limits \union {0}
      BY <2>1 DEF Views
    <2>3. Limits \union {0} \subseteq Nat /\ 0 .. Concurrency \subseteq Nat
      BY Settings
    <2> QED BY <2>1, <2>2, <2>3
  <1>7. Cardinality(S) <= Room(at[w]) /\ Room(at[w]) \in Nat
    BY <1>2, <1>5, <1>6 DEF Least, Room
  <1>8. Room(at[w]) <= at[w].free
    BY <1>6 DEF Least, Room
  <1>9. ASSUME S # {} PROVE ~at[w].view.paused /\ at[w].view.used + Cardinality(S) <= at[w].view.limit
    <2>1. Cardinality(S) > 0
      BY <1>5, <1>9, FS_EmptySet
    <2> QED BY <1>5, <1>6, <1>7, <2>1 DEF Least, Room
  <1> QED BY <1>2, <1>3, <1>4, <1>5, <1>6, <1>7, <1>8, <1>9
-----------------------------------------------------------------------------
(* A worker between two polls is in a proper place.                        *)
LEMMA AwayType ==
  /\ Nothing \in Views
  /\ \A qs \in SUBSET Queues : [Away EXCEPT !.pc = "next", !.todo = qs] \in Places
  /\ Away \in Places
  <1>1. Nothing \in Views
    BY DEF Nothing, Views
  <1>2. 0 \in 0 .. Concurrency
    BY Settings
  <1> QED BY <1>1, <1>2 DEF Away, Places

(* Nothing is claimed or locked at first.                                  *)
LEMMA PollInit == ASSUME Init PROVE PollInv
  <1>1. Existing \in SUBSET Queues /\ NoWorker \notin Workers /\ DefaultLimit \in Limits
    BY PollingAssumption DEF PollingAssumption
  <1>2. TypeOK
    <2>1. [Away EXCEPT !.pc = "next", !.todo = Existing] \in Places
      BY <1>1, AwayType
    <2>2. at \in [Workers -> Places]
      BY <2>1 DEF Init
    <2> QED BY <1>1, <2>2 DEF Init, TypeOK
  <1>3. \A w \in Workers : at[w].pc = "next"
    BY DEF Init, Away
  <1>4. LockHeld
    BY <1>1, <1>3 DEF Init, LockHeld
  <1>5. CountHolds
    BY <1>3 DEF CountHolds, Claiming
  <1>6. ASSUME NEW w \in Workers PROVE Running(w) = {}
    BY <1>1 DEF Init, Running
  <1>7. SlotsKept
    BY <1>3, <1>6, Settings, FS_EmptySet DEF SlotsKept, Claiming
  <1> QED BY <1>2, <1>4, <1>5, <1>7 DEF PollInv

(* The jobs a worker has dealt with in this poll; looking into queues and  *)
(* passing over them adds those that are queued there.                     *)
Known(w) == looked[w] \union passed[w]
NotedFor(w, qs) == (\E q \in qs : qs = {q} /\ LooksInto(w, q)) \/ PassesOver(w, qs)
SetsOfJobs == [Workers -> SUBSET Jobs]
LEMMA NotedIs ==
  ASSUME TypeOK, NEW w \in Workers, NEW qs \in SUBSET Queues, NotedFor(w, qs)
  PROVE  /\ looked' \in SetsOfJobs /\ passed' \in SetsOfJobs
         /\ conn[w] = "up" => Known(w) \union AllQueued(qs) \subseteq Known(w)'
         /\ \A v \in Workers \ {w} : looked'[v] = looked[v] /\ passed'[v] = passed[v]
  BY DEF TypeOK, NotedFor, LooksInto, PassesOver, AllQueued, Known, SetsOfJobs

(* A worker that gives up passes over the queues it has left.              *)
LEMMA GivenUp ==
  ASSUME PollInv, NEW w \in Workers, Park(w) \/ Fail(w)
  PROVE  \E qs \in SUBSET Queues : NotedFor(w, qs) /\ at[w].todo \subseteq qs
  <1>1. at[w].todo \in SUBSET Queues
    BY DEF PollInv, TypeOK, Places
  <1>2. CASE Park(w)
    BY <1>1, <1>2 DEF Park, GivesUp, NotedFor
  <1>3. CASE Fail(w)
    <2>1. at[w].queue \in Queues
      BY <1>3 DEF Fail, PollInv, CountHolds, Claiming
    <2> QED BY <1>1, <1>3, <2>1 DEF Fail, GivesUp, NotedFor
  <1> QED BY <1>2, <1>3

(* Every step keeps the types.                                             *)
LEMMA TypeStep ==
  ASSUME PollInv, Step, UNCHANGED setup
  PROVE  TypeOK'
  <1>1. TypeOK /\ setup.up \in SUBSET Workers
    BY SetupType DEF PollInv, TypeOK
  <1>2. \A q \in Queues : Queued(q) \in SUBSET Jobs /\ Cardinality(Active(q)) \in Nat
    BY PartIsSmaller DEF Queued, Active
  <1>3. Away \in Places /\ Nothing \in Views
    BY AwayType
  <1>4. ASSUME NEW j \in Jobs, Enqueue(j) PROVE TypeOK'
    <2>1. at' \in [Workers -> Places]
      <3>1. ASSUME NEW w \in Workers PROVE [at[w] EXCEPT !.view.rows = @ \ {j}] \in Places
        <4>1. at[w] \in Places BY <1>1 DEF TypeOK
        <4>2. [at[w].view EXCEPT !.rows = @ \ {j}] \in Views BY <4>1 DEF Places, Views
        <4> QED BY <4>1, <4>2 DEF Places
      <3> QED BY <1>1, <1>4, <3>1 DEF TypeOK, Enqueue
    <2>2. status' \in [Jobs -> {"idle", "queued", "active"}]
      BY <1>1, <1>4 DEF TypeOK, Enqueue
    <2>3. due' \in [Jobs -> BOOLEAN]
      BY <1>1, <1>4 DEF TypeOK, Enqueue
    <2>5. requests' \in Nat
      BY <1>1, <1>4 DEF TypeOK, Enqueue, Another
    <2>4. looked' \in SetsOfJobs /\ passed' \in SetsOfJobs /\ mail' \in [Workers -> BOOLEAN]
      BY <1>1, <1>4 DEF TypeOK, Enqueue, Forgotten, SetsOfJobs, Notify
    <2> QED BY <1>1, <1>4, <2>1, <2>2, <2>3, <2>4, <2>5 DEF TypeOK, Enqueue, SetsOfJobs, queueVars
  <1>5. ASSUME NEW j \in Jobs, ComesDue(j) \/ Finish(j) \/ Touch(j) \/ Release(j) PROVE TypeOK'
    <2>1. status' \in [Jobs -> {"idle", "queued", "active"}]
      BY <1>1, <1>5 DEF TypeOK, ComesDue, Finish, Touch, Release
    <2>2. holder' \in [Jobs -> Workers \union {NoWorker}] /\ due' \in [Jobs -> BOOLEAN]
      BY <1>1, <1>5 DEF TypeOK, ComesDue, Finish, Touch, Release
    <2>3. touched' \subseteq Jobs /\ requests' \in Nat
      BY <1>1, <1>5 DEF TypeOK, ComesDue, Finish, Touch, Release, Another
    <2> QED
      BY <1>1, <1>5, <2>1, <2>2, <2>3 DEF TypeOK, ComesDue, Finish, Touch, Release, queueVars, wakeVars, lookVars
  <1>6. ASSUME NEW q \in Queues, PauseQueue(q) \/ ResumeQueue(q) \/ \E n \in Limits : UpdateLimit(q, n)
        PROVE  TypeOK'
    <2>1. limit' \in [Queues -> Limits] /\ paused' \in [Queues -> BOOLEAN]
      BY <1>1, <1>6 DEF TypeOK, PauseQueue, ResumeQueue, UpdateLimit
    <2>2. looked' \in SetsOfJobs /\ passed' \in SetsOfJobs
      BY <1>1, <1>6 DEF TypeOK, PauseQueue, ResumeQueue, UpdateLimit, Forgotten, SetsOfJobs, lookVars
    <2>4. mail' \in [Workers -> BOOLEAN]
      BY <1>1, <1>6 DEF TypeOK, PauseQueue, ResumeQueue, UpdateLimit, Notify
    <2>3. requests' \in Nat
      BY <1>1, <1>6 DEF TypeOK, PauseQueue, ResumeQueue, UpdateLimit, Another
    <2> QED
      BY <1>1, <1>6, <2>1, <2>2, <2>3, <2>4
      DEF TypeOK, PauseQueue, ResumeQueue, UpdateLimit, QueueRow, SetsOfJobs, jobVars
  <1>7. ASSUME NEW w \in Workers, NEW qs \in SUBSET Queues, NotedFor(w, qs)
        PROVE  looked' \in [Workers -> SUBSET Jobs] /\ passed' \in [Workers -> SUBSET Jobs]
    BY <1>1, <1>7, NotedIs DEF SetsOfJobs
  <1>8. ASSUME NEW w \in Workers, Park(w) \/ Fail(w) PROVE TypeOK'
    <2>1. \E qs \in SUBSET Queues : NotedFor(w, qs)
      BY <1>1, <1>8, GivenUp
    <2>2. /\ looked' \in [Workers -> SUBSET Jobs] /\ passed' \in [Workers -> SUBSET Jobs]
          /\ at' \in [Workers -> Places]
      BY <1>1, <1>3, <1>7, <1>8, <2>1 DEF TypeOK, Park, Fail, GivesUp
    <2>3. lock' \in [Queues -> Workers \union {NoWorker}]
      BY <1>1, <1>8 DEF TypeOK, Park, Fail, Idle, queueVars, Unlocked
    <2> QED BY <1>1, <1>8, <2>2, <2>3 DEF TypeOK, Park, Fail, Idle, jobVars, queueVars, wakeVars
  <1>9. ASSUME NEW w \in Workers, PollQueue(w) PROVE TypeOK'
    <2>1. PICK q \in at[w].todo : at' = [at EXCEPT ![w] = Begun(w, q)] /\ LooksInto(w, q)
      BY <1>9 DEF PollQueue
    <2>2. q \in Queues /\ at[w].todo \ {q} \in SUBSET Queues /\ at[w] \in Places
      BY <1>1 DEF TypeOK, Places
    <2>3. Cardinality(Running(w)) \in Nat /\ Cardinality(Running(w)) < Concurrency
      BY <1>9, PartIsSmaller DEF PollQueue, Running
    <2>4. Concurrency - Cardinality(Running(w)) \in 0 .. Concurrency
      BY <2>3, Settings
    <2>5. [Nothing EXCEPT !.rows = {j \in Queued(q) : due[j]}] \in Views
      BY <1>2, <1>3, <2>2 DEF Views
    <2>6. at' \in [Workers -> Places]
      <3>1. Begun(w, q) \in Places
        BY <2>2, <2>4, <2>5 DEF Places, Begun
      <3> QED BY <1>1, <2>1, <3>1 DEF TypeOK
    <2>7. looked' \in [Workers -> SUBSET Jobs] /\ passed' \in [Workers -> SUBSET Jobs]
      <3>1. NotedFor(w, {q}) /\ {q} \in SUBSET Queues
        BY <2>1, <2>2 DEF NotedFor
      <3> QED BY <1>7, <3>1
    <2> QED BY <1>1, <1>9, <2>6, <2>7 DEF TypeOK, PollQueue, Idle, jobVars, queueVars
  <1>10. ASSUME NEW w \in Workers, TakeLock(w) PROVE TypeOK'
    <2>1. [at[w] EXCEPT !.pc = "locked"] \in Places
      <3>1. at[w] \in Places BY <1>1 DEF TypeOK
      <3> QED BY <3>1 DEF Places
    <2>2. at' \in [Workers -> Places] /\ lock' \in [Queues -> Workers \union {NoWorker}]
      BY <1>1, <1>10, <2>1 DEF TypeOK, TakeLock
    <2> QED BY <1>1, <1>10, <2>2 DEF TypeOK, TakeLock, jobVars, wakeVars, lookVars
  <1>11. ASSUME NEW w \in Workers, ReadQueue(w) PROVE TypeOK'
    <2> DEFINE q == at[w].queue
    <2>1. q \in Queues /\ at[w] \in Places
      BY <1>1, <1>11 DEF TypeOK, ReadQueue, PollInv, CountHolds, Claiming
    <2>2. ASSUME NEW rows \in SUBSET Jobs PROVE Snapshot(q, rows) \in Views
      BY <1>1, <1>2, <2>1 DEF TypeOK, Snapshot, Views
    <2>3. ASSUME NEW rows, NEW since PROVE Claimable(q, rows, since) \in SUBSET Jobs
      BY DEF Claimable, Queued
    <2>4. \E v \in Views : at' = [at EXCEPT ![w] = [@ EXCEPT !.pc = "read", !.view = v]]
      BY <1>11, <2>2, <2>3 DEF ReadQueue
    <2>5. at' \in [Workers -> Places]
      <3>1. ASSUME NEW v \in Views PROVE [at[w] EXCEPT !.pc = "read", !.view = v] \in Places
        BY <2>1 DEF Places
      <3> QED BY <1>1, <2>4, <3>1 DEF TypeOK
    <2> QED BY <1>1, <1>11, <2>5 DEF TypeOK, ReadQueue, Idle, jobVars, queueVars, lookVars
  <1>12. ASSUME NEW w \in Workers, Claim(w) PROVE TypeOK'
    <2>1. status' \in [Jobs -> {"idle", "queued", "active"}] /\ holder' \in [Jobs -> Workers \union {NoWorker}]
      BY <1>1, <1>12, ClaimTakes DEF TypeOK
    <2>2. at[w].todo \in SUBSET Queues
      BY <1>1 DEF TypeOK, Places
    <2>3. at' \in [Workers -> Places]
      BY <1>1, <1>3, <1>12, <2>2 DEF TypeOK, Claim, Places, Away
    <2> QED BY <1>1, <1>12, <2>1, <2>3 DEF TypeOK, Claim, wakeVars, lookVars, Unlocked
  <1>13. ASSUME NEW w \in Workers, Woken(w) \/ TimedOut(w) PROVE TypeOK'
    <2>1. ids[w] \in SUBSET Queues
      BY <1>1 DEF TypeOK
    <2>2. at' \in [Workers -> Places]
      <3>1. [Away EXCEPT !.pc = "next", !.todo = ids[w]] \in Places
        BY <2>1, AwayType
      <3> QED BY <1>1, <1>13, <3>1 DEF TypeOK, Woken, TimedOut, Resumed
    <2> QED BY <1>1, <1>13, <2>2 DEF TypeOK, Woken, TimedOut, Resumed, Idle, jobVars, queueVars
  <1>14. ASSUME NEW w \in Workers, OnNotify(w) \/ Listen(w) \/ Listened(w) \/ Disconnect(w) PROVE TypeOK'
    <2>1. /\ conn' \in [Workers -> {"down", "listening", "up"}]
          /\ looked' \in [Workers -> SUBSET Jobs] /\ passed' \in [Workers -> SUBSET Jobs]
      BY <1>1, <1>14 DEF TypeOK, OnNotify, Listen, Listened, Disconnect, lookVars
    <2>2. mail' \in [Workers -> BOOLEAN]
      BY <1>1, <1>14 DEF TypeOK, OnNotify, Listen, Listened, Disconnect
    <2>3. wake' \in [Workers -> BOOLEAN]
      BY <1>1, <1>14 DEF TypeOK, OnNotify, Listen, Listened, Disconnect
    <2>4. faults' \in Nat
      BY <1>1, <1>14 DEF TypeOK, OnNotify, Listen, Listened, Disconnect
    <2> QED
      BY <1>1, <1>14, <2>1, <2>2, <2>3, <2>4
      DEF TypeOK, OnNotify, Listen, Listened, Disconnect, Listening, jobVars, queueVars
  <1>15. ASSUME NEW w \in Workers, RefreshQueueIds(w) PROVE TypeOK'
    <2>1. looked' \in [Workers -> SUBSET Jobs] /\ passed' \in [Workers -> SUBSET Jobs]
      BY <1>7, <1>15 DEF RefreshQueueIds, NotedFor
    <2> QED BY <1>1, <1>15, <2>1 DEF TypeOK, RefreshQueueIds, jobVars, queueVars, wakeVars
  <1> QED
    BY <1>1, <1>4, <1>5, <1>6, <1>8, <1>9, <1>10, <1>11, <1>12, <1>13, <1>14, <1>15 DEF Step, Loop
-----------------------------------------------------------------------------
(* Without a claim, active and running jobs only become fewer.             *)
LEMMA OnlyFewer ==
  ASSUME setup' = setup,
         \A j \in Jobs : /\ status'[j] = "active" => status[j] = "active"
                         /\ holder'[j] \in Workers => holder[j] = holder'[j]
  PROVE  /\ \A q \in Queues : /\ Cardinality(Active(q)') <= Cardinality(Active(q))
                              /\ Cardinality(Active(q)) \in Nat /\ Cardinality(Active(q)') \in Nat
         /\ \A w \in Workers : /\ Cardinality(Running(w)') <= Cardinality(Running(w))
                               /\ Cardinality(Running(w)) \in Nat /\ Cardinality(Running(w)') \in Nat
  <1>1. \A q \in Queues : Active(q)' \subseteq Active(q) /\ Active(q) \subseteq Jobs
    BY DEF Active, QueueOf
  <1>2. \A w \in Workers : Running(w)' \subseteq Running(w) /\ Running(w) \subseteq Jobs
    BY DEF Running
  <1> QED BY <1>1, <1>2, PartIsSmaller

(* What the invariant says of a worker is kept if its claim stays where it *)
(* is and nothing is claimed.                                              *)
Stays(w) ==
  /\ at'[w].pc = at[w].pc /\ at'[w].queue = at[w].queue /\ at'[w].free = at[w].free
  /\ at'[w].view.rows \subseteq at[w].view.rows /\ at'[w].view.used = at[w].view.used
Counted(w) ==
  /\ Claiming(w) => at[w].queue \in Queues /\ \A j \in at[w].view.rows : QueueOf(j) = at[w].queue
  /\ at[w].pc = "read" => Cardinality(Active(at[w].queue)) <= at[w].view.used
  /\ Cardinality(Running(w)) <= Concurrency
  /\ Claiming(w) => Cardinality(Running(w)) + at[w].free <= Concurrency

(* It is the invariant, one worker at a time.                              *)
LEMMA CountedIs == CountHolds /\ SlotsKept <=> \A w \in Workers : Counted(w)
  BY DEF CountHolds, SlotsKept, Counted

(* What a claim counts with are numbers.                                   *)
LEMMA PlaceNumbers ==
  ASSUME TypeOK, NEW w \in Workers
  PROVE  at[w].free \in Nat /\ at[w].view.used \in Nat
  <1>1. at[w].free \in 0 .. Concurrency /\ at[w].view \in Views
    BY DEF TypeOK, Places
  <1>2. at[w].view.used \in Nat
    BY <1>1 DEF Views
  <1> QED BY <1>1, <1>2, Settings

(* A claim that stays where it is is counted as before.                    *)
LEMMA StaysCounted ==
  ASSUME PollInv, NEW w \in Workers, Stays(w), setup' = setup,
         \A j \in Jobs : /\ status'[j] = "active" => status[j] = "active"
                         /\ holder'[j] \in Workers => holder[j] = holder'[j]
  PROVE  Counted(w)'
  <1>1. Counted(w) /\ at[w].free \in Nat /\ at[w].view.used \in Nat
    BY CountedIs, PlaceNumbers DEF PollInv
  <1>2. Cardinality(Running(w)') <= Cardinality(Running(w)) /\ Cardinality(Running(w)) \in Nat
        /\ Cardinality(Running(w)') \in Nat /\ Concurrency \in Nat
    BY OnlyFewer, Settings
  <1>3. ASSUME at[w].pc = "read" PROVE Cardinality(Active(at[w].queue)') <= at[w].view.used
    <2>1. PICK q \in Queues : q = at[w].queue /\ Cardinality(Active(q)) <= at[w].view.used
      BY <1>1, <1>3 DEF Counted, Claiming
    <2>2. Active(at[w].queue)' = Active(q)'
      BY <2>1 DEF Stays, Active
    <2>3. /\ Cardinality(Active(q)') <= Cardinality(Active(q))
          /\ Cardinality(Active(q)) \in Nat /\ Cardinality(Active(q)') \in Nat
      BY OnlyFewer
    <2> QED BY <1>1, <2>1, <2>2, <2>3
  <1> QED BY <1>1, <1>2, <1>3 DEF Stays, Counted, Claiming, QueueOf, Active

(* The requests, the listener and the heartbeat leave the claims alone.    *)
LEMMA OutsideKeeps ==
  ASSUME PollInv, setup' = setup,
         \/ \E j \in Jobs : Enqueue(j) \/ ComesDue(j) \/ Finish(j) \/ Touch(j) \/ Release(j)
         \/ \E q \in Queues : PauseQueue(q) \/ ResumeQueue(q) \/ \E n \in Limits : UpdateLimit(q, n)
         \/ \E w \in Workers : \/ OnNotify(w) \/ Listen(w) \/ Listened(w) \/ Disconnect(w)
                               \/ RefreshQueueIds(w)
  PROVE  LockHeld' /\ \A w \in Workers : Counted(w)'
  <1>1. TypeOK /\ LockHeld
    BY DEF PollInv
  <1>2. \A w \in Workers : Stays(w) /\ lock' = lock
    <2>1. ASSUME NEW j \in Jobs, Enqueue(j) PROVE \A w \in Workers : Stays(w) /\ lock' = lock
      <3>1. ASSUME NEW w \in Workers PROVE at[w] \in Places /\ at[w].view \in Views
        BY <1>1 DEF TypeOK, Places
      <3> QED BY <2>1, <3>1 DEF Enqueue, Stays, queueVars, Places, Views
    <2>2. ASSUME at' = at, lock' = lock PROVE \A w \in Workers : Stays(w) /\ lock' = lock
      BY <2>2 DEF Stays
    <2> QED
      BY <2>1, <2>2 DEF ComesDue, Finish, Touch, Release, PauseQueue, ResumeQueue, UpdateLimit, QueueRow,
         OnNotify, Listen, Listened, Disconnect, Listening, RefreshQueueIds, queueVars
  <1>3. \A j \in Jobs : /\ status'[j] = "active" => status[j] = "active"
                        /\ holder'[j] \in Workers => holder[j] = holder'[j]
    BY <1>1, Settings DEF TypeOK, Enqueue, ComesDue, Finish, Touch, Release, PauseQueue, ResumeQueue, UpdateLimit,
       QueueRow, OnNotify, Listen, Listened, Disconnect, Listening, RefreshQueueIds, jobVars
  <1>4. \A j \in touched' : status'[j] = "queued"
    <2>1. ASSUME NEW j \in Jobs, Enqueue(j) \/ ComesDue(j) \/ Finish(j) \/ Touch(j) \/ Release(j)
          PROVE  \A k \in touched' : status'[k] = "queued"
      BY <1>1, <2>1 DEF TypeOK, LockHeld, Enqueue, ComesDue, Finish, Touch, Release
    <2>2. ASSUME status' = status, touched' = touched PROVE \A k \in touched' : status'[k] = "queued"
      BY <1>1, <2>2 DEF LockHeld
    <2> QED
      BY <2>1, <2>2 DEF PauseQueue, ResumeQueue, UpdateLimit, QueueRow,
         OnNotify, Listen, Listened, Disconnect, Listening, RefreshQueueIds, jobVars
  <1>5. LockHeld'
    BY <1>1, <1>2, <1>4 DEF LockHeld, Stays
  <1> QED BY <1>2, <1>3, <1>5, StaysCounted
-----------------------------------------------------------------------------
(* Nothing is claimed or freed while a worker moves about in a poll.       *)
LEMMA MovesKeep ==
  ASSUME PollInv, setup' = setup, NEW v \in Workers,
         \/ Park(v) \/ Woken(v) \/ TimedOut(v) \/ Fail(v)
         \/ PollQueue(v) \/ TakeLock(v) \/ ReadQueue(v)
  PROVE  /\ status' = status /\ holder' = holder /\ touched' = touched
         /\ \A w \in Workers \ {v} : at'[w] = at[w]
         /\ \A w \in Workers \ {v} : Counted(w)'
  <1>1. status' = status /\ holder' = holder /\ touched' = touched
    BY DEF Park, Woken, TimedOut, Resumed, Fail, PollQueue, TakeLock, ReadQueue, Idle, jobVars
  <1>2. \A w \in Workers \ {v} : at'[w] = at[w]
    BY DEF PollInv, TypeOK, Park, Woken, TimedOut, Resumed, GivesUp, Fail, PollQueue, TakeLock, ReadQueue
  <1>3. ASSUME NEW w \in Workers \ {v} PROVE Stays(w)
    BY <1>2 DEF Stays
  <1>4. \A j \in Jobs : /\ status'[j] = "active" => status[j] = "active"
                        /\ holder'[j] \in Workers => holder[j] = holder'[j]
    BY <1>1
  <1> QED BY <1>1, <1>2, <1>3, <1>4, StaysCounted

(* A worker that goes, or a claim that fails, leaves no lock behind.       *)
LEMMA LeavesKeep ==
  ASSUME PollInv, setup' = setup, NEW v \in Workers, Park(v) \/ Woken(v) \/ TimedOut(v) \/ Fail(v)
  PROVE  LockHeld' /\ \A w \in Workers : Counted(w)'
  <1>1. TypeOK /\ LockHeld /\ Counted(v) /\ NoWorker \notin Workers
    BY CountedIs, Settings DEF PollInv
  <1>2. at'[v].pc \in {"next", "wait"}
    <2>1. at'[v] = Away \/ at'[v] = [Away EXCEPT !.pc = "next", !.todo = ids[v]]
      BY <1>1 DEF TypeOK, Park, Woken, TimedOut, Resumed, GivesUp, Fail
    <2>2. Away.pc = "wait" /\ \A qs : [Away EXCEPT !.pc = "next", !.todo = qs].pc = "next"
      BY DEF Away
    <2> QED BY <2>1, <2>2
  <1>3. \A q \in Queues : lock'[q] = IF lock[q] = v THEN NoWorker ELSE lock[q]
    BY <1>1 DEF TypeOK, LockHeld, Park, Woken, TimedOut, Resumed, Fail, Idle, queueVars, Unlocked
  <1>4. LockHeld'
    BY <1>1, <1>2, <1>3, MovesKeep DEF LockHeld
  <1>5. Counted(v)'
    <2>1. Running(v)' = Running(v)
      BY MovesKeep DEF Running
    <2> QED BY <1>1, <1>2, <2>1 DEF Counted, Claiming
  <1> QED BY <1>4, <1>5, MovesKeep

(* A transaction begins with the jobs of its queue and the slots there are.*)
LEMMA PollQueueKeeps ==
  ASSUME PollInv, setup' = setup, NEW v \in Workers, PollQueue(v)
  PROVE  LockHeld' /\ \A w \in Workers : Counted(w)'
  <1>1. TypeOK /\ LockHeld /\ Counted(v) /\ at[v].todo \subseteq Queues
    BY CountedIs DEF PollInv, TypeOK, Places
  <1>2. PICK q \in at[v].todo : at' = [at EXCEPT ![v] = Begun(v, q)]
    BY DEF PollQueue
  <1>3. /\ at'[v].pc = "lock" /\ at'[v].queue = q /\ q \in Queues
        /\ at'[v].free = Concurrency - Cardinality(Running(v))
        /\ at'[v].view.rows = {j \in Queued(q) : due[j]}
    <2>1. at'[v] = Begun(v, q)
      BY <1>1, <1>2 DEF TypeOK
    <2>2. at[v] \in Places
      BY <1>1 DEF TypeOK
    <2> QED BY <1>1, <2>1, <2>2 DEF Begun, Places, Nothing
  <1>4. LockHeld'
    <2>1. lock' = lock /\ at[v].pc = "next"
      BY DEF PollQueue, Idle, queueVars
    <2> QED BY <1>1, <1>3, <2>1, MovesKeep DEF LockHeld
  <1>5. Counted(v)'
    <2>1. Running(v)' = Running(v) /\ Cardinality(Running(v)) \in Nat
      BY MovesKeep, PartIsSmaller DEF Running
    <2>2. \A j \in at'[v].view.rows : QueueOf(j)' = q
      BY <1>3 DEF Queued, QueueOf
    <2> QED BY <1>1, <1>3, <2>1, <2>2, Settings DEF Counted, Claiming
  <1> QED BY <1>4, <1>5, MovesKeep

(* The lock goes to one transaction, and the queue is counted under it.    *)
LEMMA LockedKeeps ==
  ASSUME PollInv, setup' = setup, NEW v \in Workers, TakeLock(v) \/ ReadQueue(v)
  PROVE  LockHeld' /\ \A w \in Workers : Counted(w)'
  <1>1. TypeOK /\ LockHeld /\ Counted(v) /\ NoWorker \notin Workers /\ at[v] \in Places
    BY CountedIs, Settings DEF PollInv, TypeOK
  <1>2. PICK q \in Queues : q = at[v].queue
    BY <1>1 DEF Counted, Claiming, TakeLock, ReadQueue
  <1>3. Running(v)' = Running(v) /\ Active(q)' = Active(q)
    BY MovesKeep DEF Running, Active, QueueOf
  <1>4. CASE TakeLock(v)
    <2>1. at'[v] = [at[v] EXCEPT !.pc = "locked"]
      BY <1>1, <1>4 DEF TypeOK, TakeLock
    <2>2. /\ at'[v].pc = "locked" /\ at'[v].queue = q /\ at'[v].free = at[v].free
          /\ at'[v].view = at[v].view
      BY <1>1, <1>2, <2>1 DEF Places
    <2>3. lock' = [lock EXCEPT ![q] = v] /\ lock[q] = NoWorker /\ at[v].pc = "lock"
      BY <1>2, <1>4 DEF TakeLock, LockFree
    <2>4. LockHeld'
      BY <1>1, <1>2, <2>2, <2>3, MovesKeep DEF LockHeld, TypeOK
    <2>5. Counted(v)'
      BY <1>1, <1>2, <1>3, <2>2, <2>3 DEF Counted, Claiming, QueueOf
    <2> QED BY <2>4, <2>5, MovesKeep
  <1>5. CASE ReadQueue(v)
    <2>1. PICK rows \in SUBSET Queued(q) : at'[v] = [at[v] EXCEPT !.pc = "read", !.view = Snapshot(q, rows)]
      <3>1. \A b, s : Claimable(q, b, s) \in SUBSET Queued(q)
        BY DEF Claimable
      <3>2. \E rows \in SUBSET Queued(q) :
              at' = [at EXCEPT ![v] = [at[v] EXCEPT !.pc = "read", !.view = Snapshot(q, rows)]]
        BY <1>2, <1>5, <3>1 DEF ReadQueue
      <3> QED BY <1>1, <3>2 DEF TypeOK
    <2>2. /\ at'[v].pc = "read" /\ at'[v].queue = q /\ at'[v].free = at[v].free
          /\ at'[v].view.rows = rows /\ at'[v].view.used = Cardinality(Active(q))
      BY <1>1, <1>2, <2>1 DEF Places, Snapshot
    <2>3. lock' = lock /\ at[v].pc = "locked"
      BY <1>5 DEF ReadQueue, Idle, queueVars
    <2>4. LockHeld'
      BY <1>1, <1>2, <2>2, <2>3, MovesKeep DEF LockHeld
    <2>5. Counted(v)'
      <3>1. Cardinality(Active(q)) \in Nat
        BY PartIsSmaller DEF Active
      <3>2. \A j \in rows : QueueOf(j)' = q
        BY DEF Queued, QueueOf
      <3>3. Active(at[v].queue)' = Active(q)
        BY <1>3, <2>2 DEF Active
      <3> QED BY <1>1, <1>3, <2>2, <2>3, <3>1, <3>2, <3>3 DEF Counted, Claiming
    <2> QED BY <2>4, <2>5, MovesKeep
  <1> QED BY <1>4, <1>5

(* A claim adds to the jobs of its worker and of its queue, and nowhere    *)
(* else, what fits into the slots and the room it read.                    *)
LEMMA ClaimAdds ==
  ASSUME PollInv, setup' = setup, NEW v \in Workers, Claim(v)
  PROVE  \E q \in Queues, S \in SUBSET Jobs :
           /\ q = at[v].queue /\ lock[q] = v /\ at[v].pc = "read"
           /\ \A j \in S : QueueOf(j) = q /\ status[j] = "queued" /\ j \notin touched
           /\ \A j \in Jobs : /\ status'[j] = IF j \in S THEN "active" ELSE status[j]
                              /\ holder'[j] = IF j \in S THEN v ELSE holder[j]
           /\ Cardinality(Running(v)') <= Concurrency
           /\ \A w \in Workers \ {v} : Cardinality(Running(w)') <= Cardinality(Running(w))
           /\ \A p \in Queues \ {q} : Active(p)' = Active(p)
           /\ Active(q)' = Active(q) \union S
           /\ S # {} => ~at[v].view.paused /\ Cardinality(Active(q)') <= at[v].view.limit
  <1>1. TypeOK /\ LockHeld /\ Counted(v) /\ at[v].pc = "read" /\ at[v].view \in Views
    BY CountedIs DEF PollInv, TypeOK, Places, Claim
  <1>2. PICK q \in Queues : q = at[v].queue
    BY <1>1 DEF Counted, Claiming
  <1>3. PICK S \in SUBSET Jobs :
           /\ \A j \in S : QueueOf(j) = at[v].queue /\ status[j] = "queued" /\ j \notin touched
           /\ status' = [j \in Jobs |-> IF j \in S THEN "active" ELSE status[j]]
           /\ holder' = [j \in Jobs |-> IF j \in S THEN v ELSE holder[j]]
           /\ Cardinality(S) <= at[v].free
           /\ S # {} => ~at[v].view.paused /\ at[v].view.used + Cardinality(S) <= at[v].view.limit
    BY ClaimTakes
  <1>4. lock[q] = v
    BY <1>1, <1>2 DEF LockHeld
  <1>5. \A j \in Jobs : /\ status'[j] = IF j \in S THEN "active" ELSE status[j]
                        /\ holder'[j] = IF j \in S THEN v ELSE holder[j]
    BY <1>3
  <1>6. Running(v)' = Running(v) \union S
    BY <1>5 DEF Running
  <1>7. Cardinality(Running(v)') <= Concurrency
    <2>1. Cardinality(Running(v) \union S) <= Cardinality(Running(v)) + Cardinality(S)
      BY UnionIsBounded DEF Running
    <2>2. Cardinality(Running(v)) + at[v].free <= Concurrency
      BY <1>1 DEF Counted, Claiming
    <2>3. /\ Cardinality(Running(v)) \in Nat /\ Cardinality(S) \in Nat /\ at[v].free \in Nat
          /\ Cardinality(Running(v) \union S) \in Nat
      BY <1>1, PlaceNumbers, PartIsSmaller DEF Running
    <2> QED BY <1>3, <1>6, <2>1, <2>2, <2>3, Settings
  <1>8. ASSUME NEW w \in Workers \ {v} PROVE Cardinality(Running(w)') <= Cardinality(Running(w))
    <2>1. Running(w)' \subseteq Running(w) /\ Running(w) \in SUBSET Jobs
      BY <1>5 DEF Running
    <2> QED BY <2>1, PartIsSmaller
  <1>9. \A p \in Queues \ {q} : Active(p)' = Active(p)
    BY <1>2, <1>3, <1>5 DEF Active, QueueOf
  <1>10. Active(q)' = Active(q) \union S
    BY <1>2, <1>3, <1>5 DEF Active, QueueOf
  <1>11. ASSUME S # {} PROVE ~at[v].view.paused /\ Cardinality(Active(q)') <= at[v].view.limit
    <2>1. Cardinality(Active(q) \union S) <= Cardinality(Active(q)) + Cardinality(S)
      BY UnionIsBounded DEF Active
    <2>2. Cardinality(Active(q)) <= at[v].view.used
      BY <1>1, <1>2 DEF Counted
    <2>3. /\ Cardinality(Active(q)) \in Nat /\ Cardinality(S) \in Nat /\ at[v].view.used \in Nat
          /\ Cardinality(Active(q) \union S) \in Nat
      BY <1>1, PlaceNumbers, PartIsSmaller DEF Active
    <2>4. at[v].view.limit \in Nat
      <3>1. at[v].view.limit \in Limits \union {0}
        BY <1>1 DEF Views
      <3>2. Limits \union {0} \subseteq Nat
        BY Settings
      <3> QED BY <3>1, <3>2
    <2> QED BY <1>3, <1>10, <1>11, <2>1, <2>2, <2>3, <2>4
  <1> QED BY <1>1, <1>2, <1>3, <1>4, <1>5, <1>7, <1>8, <1>9, <1>10, <1>11

(* A claim leaves every worker and every lock as the invariant says.       *)
LEMMA ClaimKeeps ==
  ASSUME PollInv, setup' = setup, NEW v \in Workers, Claim(v)
  PROVE  LockHeld' /\ \A w \in Workers : Counted(w)'
  <1>1. TypeOK /\ LockHeld /\ NoWorker \notin Workers /\ Counted(v)
    BY CountedIs, Settings DEF PollInv
  <1>2. PICK q \in Queues, S \in SUBSET Jobs :
           /\ q = at[v].queue /\ lock[q] = v /\ at[v].pc = "read"
           /\ \A j \in S : QueueOf(j) = q /\ status[j] = "queued" /\ j \notin touched
           /\ \A j \in Jobs : /\ status'[j] = IF j \in S THEN "active" ELSE status[j]
                              /\ holder'[j] = IF j \in S THEN v ELSE holder[j]
           /\ Cardinality(Running(v)') <= Concurrency
           /\ \A w \in Workers \ {v} : Cardinality(Running(w)') <= Cardinality(Running(w))
           /\ \A p \in Queues \ {q} : Active(p)' = Active(p)
    BY ClaimAdds
  <1>3. /\ at'[v].pc = "next" /\ \A w \in Workers \ {v} : at'[w] = at[w]
        /\ touched' = touched /\ \A p \in Queues : lock'[p] = IF lock[p] = v THEN NoWorker ELSE lock[p]
    BY <1>1 DEF Claim, TypeOK, Away, Unlocked
  <1>4. LockHeld'
    BY <1>1, <1>2, <1>3 DEF LockHeld, TypeOK
  <1>5. Counted(v)'
    BY <1>2, <1>3 DEF Counted, Claiming
  <1>6. ASSUME NEW w \in Workers \ {v} PROVE Counted(w)'
    <2>1. Counted(w) /\ at[w].free \in Nat
      BY CountedIs, PlaceNumbers DEF PollInv
    <2>2. Cardinality(Running(w)) \in Nat /\ Cardinality(Running(w)') \in Nat
      BY PartIsSmaller DEF Running
    <2>3. ASSUME at[w].pc = "read" PROVE Active(at[w].queue)' = Active(at[w].queue)
      <3>1. at[w].queue \in Queues /\ at[w].queue # q
        BY <1>1, <1>2, <2>1, <2>3 DEF LockHeld, Counted, Claiming
      <3>2. PICK p \in Queues \ {q} : p = at[w].queue
        BY <3>1
      <3> QED BY <1>2, <1>3, <3>2 DEF Active
    <2> QED BY <1>2, <1>3, <2>1, <2>2, <2>3, Settings DEF Counted, Claiming, QueueOf
  <1> QED BY <1>4, <1>5, <1>6
-----------------------------------------------------------------------------
(* Every step keeps the invariant.                                         *)
LEMMA PollStep ==
  ASSUME PollInv, [Next]_vars
  PROVE  PollInv'
  <1>1. CASE UNCHANGED vars
    <2>1. TypeOK'
      BY <1>1 DEF vars, jobVars, queueVars, wakeVars, lookVars, PollInv, TypeOK
    <2>2. LockHeld'
      BY <1>1 DEF vars, jobVars, queueVars, PollInv, LockHeld
    <2>3. CountHolds'
      BY <1>1 DEF vars, jobVars, PollInv, CountHolds, Claiming, Active, QueueOf
    <2>4. SlotsKept'
      BY <1>1 DEF vars, jobVars, PollInv, SlotsKept, Claiming, Running
    <2> QED BY <2>1, <2>2, <2>3, <2>4 DEF PollInv
  <1>2. CASE Next
    <2>1. Step /\ setup' = setup /\ setup.up \subseteq Workers
      BY <1>2, SetupType DEF Next, PollInv, TypeOK
    <2>2. TypeOK'
      BY <2>1, TypeStep
    <2>3. LockHeld' /\ \A w \in Workers : Counted(w)'
      BY <2>1, OutsideKeeps, LeavesKeep, PollQueueKeeps, LockedKeeps, ClaimKeeps DEF Step, Loop
    <2>4. CountHolds' /\ SlotsKept'
      BY <2>3 DEF Counted, CountHolds, SlotsKept
    <2> QED BY <2>2, <2>3, <2>4 DEF PollInv
  <1> QED BY <1>1, <1>2

(* The advisory lock has one holder, a claim counts its queue while no     *)
(* other claims from it, and no worker runs more jobs than it has slots:   *)
(* whatever the workers, the queues, their limits and the requests.        *)
THEOREM PollCorrect == Spec => []PollInv
  <1>1. Init => PollInv
    BY PollInit
  <1>2. PollInv /\ [Next]_vars => PollInv'
    BY PollStep
  <1> QED BY <1>1, <1>2, PTL DEF Spec

(* A step that makes a job of a queue active is a claim from that queue.   *)
LEMMA OnlyClaims ==
  ASSUME PollInv, Next, NEW q \in Queues, Active(q)' \ Active(q) # {}
  PROVE  \E w \in Workers : Claim(w)
  <1>1. TypeOK /\ setup.up \subseteq Workers /\ setup' = setup
    BY SetupType DEF PollInv, TypeOK, Next
  <1>2. PICK j \in Jobs : status'[j] = "active" /\ status[j] # "active"
    BY <1>1 DEF Active, QueueOf
  <1>3. SUFFICES ASSUME \A w \in Workers : ~Claim(w) PROVE FALSE
    OBVIOUS
  <1>4. \E k \in Jobs : Enqueue(k) \/ Finish(k) \/ Release(k)
    <2>1. status' # status
      BY <1>2
    <2> QED
      BY <1>1, <1>3, <2>1 DEF Next, Step, Loop, ComesDue, Touch, PauseQueue, ResumeQueue, UpdateLimit, QueueRow,
         TimedOut, Woken, Resumed, Park, PollQueue, Idle, TakeLock, ReadQueue, Fail, OnNotify, Listen, Listened,
         Disconnect, Listening, RefreshQueueIds, jobVars
  <1> QED BY <1>1, <1>2, <1>4 DEF TypeOK, Enqueue, Finish, Release

(* Of every step of every instance: claims are by the holder of the lock,  *)
(* of queued and unlocked jobs, and leave no more active than the limit    *)
(* read.                                                                   *)
THEOREM ClaimsSound == Spec => ClaimsAreSound
  <1> DEFINE Sound == \A q \in Queues : Active(q)' \ Active(q) # {} =>
                /\ Active(q)' \ Active(q) \subseteq Queued(q) \ touched
                /\ \E w \in Workers : /\ lock[q] = w /\ at[w].pc = "read" /\ ~at[w].view.paused
                                      /\ Cardinality(Active(q)') <= at[w].view.limit
  <1>1. ASSUME PollInv, [Next]_vars PROVE [Sound]_vars
    <2>1. SUFFICES ASSUME Next, NEW q \in Queues, Active(q)' \ Active(q) # {}
          PROVE /\ Active(q)' \ Active(q) \subseteq Queued(q) \ touched
                /\ \E w \in Workers : /\ lock[q] = w /\ at[w].pc = "read" /\ ~at[w].view.paused
                                      /\ Cardinality(Active(q)') <= at[w].view.limit
      BY <1>1
    <2>2. PICK w \in Workers : Claim(w)
      BY <1>1, <2>1, OnlyClaims
    <2>3. PICK p \in Queues, S \in SUBSET Jobs :
           /\ p = at[w].queue /\ lock[p] = w /\ at[w].pc = "read"
           /\ \A j \in S : QueueOf(j) = p /\ status[j] = "queued" /\ j \notin touched
           /\ \A r \in Queues \ {p} : Active(r)' = Active(r)
           /\ Active(p)' = Active(p) \union S
           /\ S # {} => ~at[w].view.paused /\ Cardinality(Active(p)') <= at[w].view.limit
      BY <1>1, <2>1, <2>2, ClaimAdds DEF Next
    <2>4. q = p
      BY <2>1, <2>3
    <2>5. S # {} /\ Active(q)' \ Active(q) \subseteq S
      BY <2>1, <2>3, <2>4
    <2>6. S \subseteq Queued(q) \ touched
      BY <2>3, <2>4 DEF Queued
    <2> QED BY <2>3, <2>4, <2>5, <2>6
  <1> QED BY <1>1, PollCorrect, PTL DEF Spec, ClaimsAreSound
-----------------------------------------------------------------------------
(* What WakeInv says of one worker.                                        *)
Waked(w) ==
  /\ at[w].pc = "wait" => at[w].todo = {}
  /\ conn[w] = "up" /\ ~wake[w] /\ ~mail[w] =>
       \A j \in Jobs : status[j] = "queued" /\ QueueOf(j) \in ids[w] => Turned(w, j)

(* The two say the same.                                                   *)
LEMMA WakedIs == WakeInv <=> \A w \in Workers : Waked(w)
  BY DEF WakeInv, Waked

(* It is kept while nothing is queued, no event is cleared, and the worker *)
(* stays where it is.                                                      *)
Undisturbed(w) ==
  /\ at'[w].pc = at[w].pc /\ at'[w].todo = at[w].todo /\ ids'[w] = ids[w]
  /\ Known(w) \subseteq Known(w)'
  /\ conn'[w] = "up" /\ ~wake'[w] /\ ~mail'[w] => conn[w] = "up" /\ ~wake[w] /\ ~mail[w]
NoneQueued == \A j \in Jobs : status'[j] = "queued" => status[j] = "queued"

(* Then it knows what it knew.                                             *)
LEMMA UndisturbedKeeps ==
  ASSUME NEW w \in Workers, Waked(w), Undisturbed(w), NoneQueued, setup' = setup
  PROVE  Waked(w)'
  BY DEF Waked, Undisturbed, NoneQueued, Turned, Known, QueueOf

(* What makes a job claimable again notifies every worker that listens.    *)
LEMMA NotifyKeeps ==
  ASSUME TypeOK, NEW w \in Workers, Waked(w), Notify, conn' = conn, TypeOK',
         at'[w].pc = at[w].pc, at'[w].todo = at[w].todo
  PROVE  Waked(w)'
  BY DEF Waked, Notify, TypeOK

(* The other requests make no job claimable.                               *)
LEMMA RequestsKeepWake ==
  ASSUME PollInv, TypeOK', setup' = setup, \A w \in Workers : Waked(w),
         \/ \E j \in Jobs : Enqueue(j) \/ ComesDue(j) \/ Finish(j) \/ Touch(j) \/ Release(j)
         \/ \E q \in Queues : PauseQueue(q) \/ ResumeQueue(q) \/ \E n \in Limits : UpdateLimit(q, n)
  PROVE  \A w \in Workers : Waked(w)'
  <1>1. TypeOK /\ \A j \in touched : status[j] = "queued"
    BY DEF PollInv, LockHeld
  <1>2. ASSUME NEW j \in Jobs, Enqueue(j) PROVE \A w \in Workers : Waked(w)'
    <2>1. ASSUME NEW w \in Workers PROVE at'[w].pc = at[w].pc /\ at'[w].todo = at[w].todo
      <3>1. at[w] \in Places
        BY <1>1 DEF TypeOK
      <3> QED BY <1>2, <3>1 DEF Enqueue, Places
    <2> QED BY <1>1, <1>2, <2>1, NotifyKeeps DEF Enqueue
  <1>3. ASSUME NEW q \in Queues, ResumeQueue(q) PROVE \A w \in Workers : Waked(w)'
    BY <1>1, <1>3, NotifyKeeps DEF ResumeQueue, QueueRow
  <1>4. ASSUME NEW j \in Jobs, ComesDue(j) \/ Finish(j) \/ Touch(j) \/ Release(j)
        PROVE  \A w \in Workers : Waked(w)'
    <2>1. NoneQueued
      BY <1>1, <1>4 DEF TypeOK, NoneQueued, ComesDue, Finish, Touch, Release
    <2>2. \A w \in Workers : Undisturbed(w)
      BY <1>4 DEF Undisturbed, Known, ComesDue, Finish, Touch, Release, wakeVars, lookVars
    <2> QED BY <2>1, <2>2, UndisturbedKeeps
  <1>5. ASSUME NEW q \in Queues, PauseQueue(q) \/ \E n \in Limits : UpdateLimit(q, n)
        PROVE  \A w \in Workers : Waked(w)'
    <2>1. NoneQueued /\ \A w \in Workers : Undisturbed(w)
      BY <1>5 DEF NoneQueued, Undisturbed, Known, PauseQueue, UpdateLimit, QueueRow, jobVars, lookVars
    <2> QED BY <2>1, UndisturbedKeeps
  <1> QED BY <1>2, <1>3, <1>4, <1>5

(* A worker that comes to a queue in a poll, or leaves a poll, deals with  *)
(* the jobs that are queued then.                                          *)
LEMMA PollsKeepWake ==
  ASSUME PollInv, TypeOK', setup' = setup, NEW v \in Workers, Waked(v),
         Park(v) \/ PollQueue(v) \/ Fail(v)
  PROVE  Waked(v)'
  <1>1. TypeOK
    BY DEF PollInv
  <1>2. /\ status' = status /\ ids' = ids /\ conn' = conn /\ wake' = wake /\ mail' = mail
    BY DEF Park, PollQueue, Fail, Idle, jobVars, wakeVars
  <1>3. \E qs \in SUBSET Queues : /\ NotedFor(v, qs) /\ at[v].todo \subseteq at'[v].todo \union qs
                                  /\ at'[v].pc = "wait" => at'[v].todo = {}
    <2>1. at[v] \in Places /\ at[v].todo \in SUBSET Queues
      BY <1>1 DEF TypeOK, Places
    <2>2. CASE PollQueue(v)
      <3>1. PICK q \in at[v].todo : at' = [at EXCEPT ![v] = Begun(v, q)] /\ LooksInto(v, q)
        BY <2>2 DEF PollQueue
      <3>2. at'[v] = Begun(v, q) /\ {q} \in SUBSET Queues /\ NotedFor(v, {q})
        BY <1>1, <2>1, <3>1 DEF TypeOK, NotedFor
      <3>3. at'[v].pc = "lock" /\ at'[v].todo = at[v].todo \ {q}
        BY <2>1, <3>2 DEF Begun, Places
      <3> QED BY <2>1, <3>2, <3>3
    <2>3. CASE Park(v) \/ Fail(v)
      <3>1. at'[v] = Away
        BY <1>1, <2>3 DEF TypeOK, Park, Fail, GivesUp
      <3>2. Away.todo = {}
        BY DEF Away
      <3> QED BY <2>3, <3>1, <3>2, GivenUp
    <2> QED BY <2>2, <2>3
  <1>4. PICK qs \in SUBSET Queues : /\ NotedFor(v, qs) /\ at[v].todo \subseteq at'[v].todo \union qs
                                    /\ at'[v].pc = "wait" => at'[v].todo = {}
    BY <1>3
  <1>5. conn[v] = "up" => Known(v) \union AllQueued(qs) \subseteq Known(v)'
    BY <1>1, <1>4, NotedIs
  <1>6. ASSUME conn[v] = "up", ~wake[v], ~mail[v],
               NEW j \in Jobs, status[j] = "queued", QueueOf(j) \in ids[v]
        PROVE Turned(v, j)'
    <2>1. j \in Known(v) \/ QueueOf(j) \in at[v].todo
      BY <1>6 DEF Waked, Turned, Known
    <2>2. QueueOf(j) \in qs => j \in AllQueued(qs)
      BY <1>6 DEF AllQueued
    <2> QED BY <1>4, <1>5, <1>6, <2>1, <2>2 DEF Turned, Known, QueueOf
  <1> QED BY <1>2, <1>4, <1>6 DEF Waked, QueueOf

(* The other steps of a worker, its listener and its heartbeat.            *)
LEMMA WorkerKeepsWake ==
  ASSUME PollInv, TypeOK', setup' = setup, NEW v \in Workers, Waked(v),
         \/ Loop(v) \/ Fail(v) \/ Woken(v) \/ OnNotify(v) \/ Listen(v) \/ Listened(v) \/ Disconnect(v)
         \/ RefreshQueueIds(v)
  PROVE  Waked(v)'
  <1>1. TypeOK /\ at[v] \in Places
    BY DEF PollInv, TypeOK
  <1>2. CASE TimedOut(v) \/ Woken(v)
    <2>1. /\ at'[v] = [Away EXCEPT !.pc = "next", !.todo = ids[v]] /\ ids' = ids
      BY <1>1, <1>2 DEF TypeOK, TimedOut, Woken, Resumed, Idle
    <2>2. at'[v].pc = "next" /\ at'[v].todo = ids[v]
      BY <2>1 DEF Away
    <2> QED BY <2>1, <2>2 DEF Waked, Turned
  <1>3. CASE Park(v) \/ PollQueue(v) \/ Fail(v)
    BY <1>3, PollsKeepWake
  <1>4. CASE TakeLock(v) \/ ReadQueue(v) \/ Claim(v)
    <2>1. at'[v].pc # "wait" /\ at'[v].todo = at[v].todo
      <3>1. CASE TakeLock(v)
        <4>1. at'[v] = [at[v] EXCEPT !.pc = "locked"]
          BY <1>1, <3>1 DEF TypeOK, TakeLock
        <4> QED BY <1>1, <4>1 DEF Places
      <3>2. CASE ReadQueue(v)
        <4>1. \E r : at' = [at EXCEPT ![v] = [at[v] EXCEPT !.pc = "read", !.view = r]]
          BY <3>2 DEF ReadQueue
        <4>2. PICK r : at' = [at EXCEPT ![v] = [at[v] EXCEPT !.pc = "read", !.view = r]]
          BY <4>1
        <4>3. at'[v] = [at[v] EXCEPT !.pc = "read", !.view = r]
          BY <1>1, <4>2 DEF TypeOK
        <4> QED BY <1>1, <4>3 DEF Places
      <3>3. CASE Claim(v)
        <4>1. at'[v] = [Away EXCEPT !.pc = "next", !.todo = at[v].todo]
          BY <1>1, <3>3 DEF TypeOK, Claim
        <4> QED BY <4>1 DEF Away
      <3> QED BY <1>4, <3>1, <3>2, <3>3
    <2>2. NoneQueued
      <3>1. CASE Claim(v)
        BY <3>1, ClaimAdds DEF NoneQueued
      <3>2. CASE TakeLock(v) \/ ReadQueue(v)
        BY <3>2 DEF NoneQueued, TakeLock, ReadQueue, Idle, jobVars
      <3> QED BY <1>4, <3>1, <3>2
    <2>3. /\ ids' = ids /\ looked' = looked /\ passed' = passed /\ conn' = conn /\ wake' = wake /\ mail' = mail
      BY <1>4 DEF TakeLock, ReadQueue, Claim, Idle, wakeVars, lookVars
    <2> QED BY <2>1, <2>2, <2>3 DEF Waked, NoneQueued, Turned, QueueOf
  <1>5. CASE OnNotify(v) \/ Listened(v)
    <2>1. wake'[v] /\ at' = at
      BY <1>1, <1>5 DEF TypeOK, OnNotify, Listened, Listening
    <2> QED BY <2>1 DEF Waked
  <1>6. CASE Listen(v) \/ Disconnect(v)
    <2>1. conn'[v] # "up" /\ at' = at
      BY <1>1, <1>6 DEF TypeOK, Listen, Disconnect, Listening
    <2> QED BY <2>1 DEF Waked
  <1>7. CASE RefreshQueueIds(v)
    <2>1. /\ at' = at /\ status' = status /\ conn' = conn /\ wake' = wake /\ mail' = mail
      BY <1>7 DEF RefreshQueueIds, jobVars, wakeVars
    <2>2. conn[v] = "up" => Known(v) \union AllQueued(Queues \ ids[v]) \subseteq Known(v)'
      BY <1>1, <1>7, NotedIs DEF RefreshQueueIds, NotedFor
    <2>3. \A j \in Jobs : QueueOf(j) \in Queues
      BY <1>1, SetupType DEF TypeOK
    <2>4. \A j \in Jobs : status[j] = "queued" /\ QueueOf(j) \notin ids[v] => j \in AllQueued(Queues \ ids[v])
      BY <2>3 DEF AllQueued
    <2> QED BY <2>1, <2>2, <2>3, <2>4 DEF Waked, Turned, Known, QueueOf
  <1> QED BY <1>2, <1>3, <1>4, <1>5, <1>6, <1>7 DEF Loop

(* What one worker does disturbs no other.                                 *)
LEMMA OthersUndisturbed ==
  ASSUME PollInv, setup' = setup, NEW v \in Workers, NEW w \in Workers \ {v},
         \/ Loop(v) \/ Fail(v) \/ Woken(v) \/ OnNotify(v) \/ Listen(v) \/ Listened(v) \/ Disconnect(v)
         \/ RefreshQueueIds(v)
  PROVE  Undisturbed(w) /\ NoneQueued
  <1>1. TypeOK
    BY DEF PollInv
  <1>2. CASE TimedOut(v) \/ Woken(v) \/ Park(v) \/ PollQueue(v) \/ Fail(v)
    <2>1. at'[w] = at[w] /\ wake'[w] = wake[w]
      BY <1>1, <1>2 DEF TypeOK, TimedOut, Woken, Resumed, Park, PollQueue, Fail, GivesUp, Idle, wakeVars
    <2>2. looked'[w] = looked[w] /\ passed'[w] = passed[w]
      BY <1>1, <1>2 DEF TypeOK, TimedOut, Woken, Resumed, Park, PollQueue, Fail, GivesUp, LooksInto, PassesOver
    <2>3. status' = status /\ ids' = ids /\ conn' = conn /\ mail' = mail
      BY <1>2 DEF TimedOut, Woken, Resumed, Park, PollQueue, Fail, Idle, jobVars, wakeVars
    <2> QED BY <2>1, <2>2, <2>3 DEF Undisturbed, Known, NoneQueued
  <1>3. CASE TakeLock(v) \/ ReadQueue(v) \/ Claim(v)
    <2>1. NoneQueued
      <3>1. CASE Claim(v)
        BY <3>1, ClaimAdds DEF NoneQueued
      <3>2. CASE TakeLock(v) \/ ReadQueue(v)
        BY <3>2 DEF NoneQueued, TakeLock, ReadQueue, Idle, jobVars
      <3> QED BY <1>3, <3>1, <3>2
    <2>2. at'[w] = at[w]
      BY <1>1, <1>3 DEF TypeOK, TakeLock, ReadQueue, Claim
    <2>3. /\ ids' = ids /\ looked' = looked /\ passed' = passed /\ conn' = conn /\ wake' = wake /\ mail' = mail
      BY <1>3 DEF TakeLock, ReadQueue, Claim, Idle, wakeVars, lookVars
    <2> QED BY <2>1, <2>2, <2>3 DEF Undisturbed, Known
  <1>4. CASE OnNotify(v) \/ Listen(v) \/ Listened(v) \/ Disconnect(v)
    BY <1>1, <1>4
    DEF TypeOK, Undisturbed, Known, NoneQueued, OnNotify, Listen, Listened, Disconnect, Listening, jobVars, lookVars
  <1>5. CASE RefreshQueueIds(v)
    BY <1>1, <1>5 DEF TypeOK, Undisturbed, Known, NoneQueued, RefreshQueueIds, PassesOver, jobVars, wakeVars
  <1> QED BY <1>2, <1>3, <1>4, <1>5 DEF Loop

(* Every step keeps the wake-ups.                                          *)
LEMMA WakeStep ==
  ASSUME PollInv, PollInv', WakeInv, [Next]_vars
  PROVE  WakeInv'
  <1>1. CASE UNCHANGED vars
    BY <1>1 DEF WakeInv, Turned, QueueOf, vars, jobVars, wakeVars, lookVars
  <1>2. CASE Next
    <2>1. Step /\ setup' = setup /\ setup.up \subseteq Workers /\ TypeOK'
      BY <1>2, SetupType DEF Next, PollInv, TypeOK
    <2>2. \A w \in Workers : Waked(w)
      BY WakedIs
    <2>3. ASSUME NEW v \in Workers,
                 \/ Loop(v) \/ Fail(v) \/ Woken(v) \/ OnNotify(v) \/ Listen(v) \/ Listened(v) \/ Disconnect(v)
                 \/ RefreshQueueIds(v)
          PROVE  \A w \in Workers : Waked(w)'
      <3>1. Waked(v)'
        BY <2>1, <2>2, <2>3, WorkerKeepsWake
      <3>2. ASSUME NEW w \in Workers \ {v} PROVE Waked(w)'
        BY <2>1, <2>2, <2>3, OthersUndisturbed, UndisturbedKeeps
      <3> QED BY <3>1, <3>2
    <2>4. \A w \in Workers : Waked(w)'
      BY <2>1, <2>2, <2>3, RequestsKeepWake DEF Step
    <2> QED BY <2>4 DEF WakeInv, Waked
  <1> QED BY <1>1, <1>2

(* No worker waits, with its listener up and nothing on its way to it, and *)
(* has neither begun a claim for a queued job of its queues since the job  *)
(* was queued nor left it deliberately: whatever is lost, refused, paused  *)
(* or disconnected.                                                        *)
THEOREM NoWakeIsLost == Spec => []NoLostWake
  <1>1. Init => WakeInv
    <2>1. ASSUME Init PROVE \A w \in Workers : conn[w] = "down" /\ at[w].pc = "next"
      BY <2>1 DEF Init, Away
    <2> QED BY <2>1 DEF WakeInv
  <1>2. PollInv /\ PollInv' /\ WakeInv /\ [Next]_vars => WakeInv'
    BY WakeStep
  <1>3. WakeInv => NoLostWake
    BY DEF WakeInv, NoLostWake, Turned
  <1> QED BY <1>1, <1>2, <1>3, PollCorrect, PTL DEF Spec
=============================================================================
