------------------------------- MODULE Polling -------------------------------
(***************************************************************************)
(* How the workers of Pulse come by their jobs, statement by statement:    *)
(* the poll loop and its wake-up by notifications (worker/main.py,         *)
(* core/notify.py, the trigger on jobs), the claim transaction with the    *)
(* advisory lock of its queue (engine/claim.py), and the requests that     *)
(* pause, resume, resize and create queues or hold the row of a job        *)
(* meanwhile.  JobEngine takes a claim as one step of one queue; here are  *)
(* its statements, each with a snapshot of its own (READ COMMITTED), over  *)
(* several queues.                                                         *)
(*                                                                         *)
(* Of the life of a job only what a claim can tell apart is kept: queued,  *)
(* active (claimed or running) and idle (anything else, not created yet    *)
(* included).  Of the order in which a claim prefers jobs the priority is  *)
(* kept; which of two jobs of one priority has the earlier run_at is not.  *)
(***************************************************************************)
EXTENDS Naturals, FiniteSets

CONSTANTS
    Jobs, Workers, Queues,
    NoWorker, NoQueue,  \* nobody, nothing
    Existing,     \* the queues that are there when the workers register
    Limits, DefaultLimit,  \* values of queues.concurrency_limit; the one of a new queue
    Concurrency,  \* slots of a worker (worker_concurrency)
    Setups,       \* bound: which workers run, which of them can set up a listening connection, and
                  \* the queue and the priority each job is created with
    MaxRequests,  \* bound: requests about queues, and requests that lock the row of a job
    MaxFaults     \* bound: failed claims and lost connections

ASSUME PollingAssumption ==
    /\ NoWorker \notin Workers /\ NoQueue \notin Queues
    /\ Existing \subseteq Queues
    /\ IsFiniteSet(Jobs) /\ Limits \subseteq Nat \ {0} /\ DefaultLimit \in Limits
    /\ Setups \subseteq [up : SUBSET Workers, listeners : SUBSET Workers, queueOf : [Jobs -> Queues],
                      priority : [Jobs -> Nat]]
    /\ Concurrency \in Nat \ {0} /\ MaxRequests \in Nat /\ MaxFaults \in Nat

VARIABLES
    setup,           \* the one of Setups, for good
    status, holder,  \* status[j], and the worker whose task j is while active
    due,             \* due[j]: run_at, written by the clock of an API process, is past by the database's
    touched,         \* jobs whose rows an open request has locked
    limit, paused,   \* columns of queues
    lock,            \* lock[q]: the worker whose transaction holds the advisory lock
    at,              \* at[w]: the poll loop of w
    ids,             \* ids[w]: queue_ids
    conn, mail,      \* the listening connection of w; a notification on its way on it
    wake,            \* _wake_event of w
    looked, passed,  \* history, noted while the listener of w is up: the jobs queued ever since w began a
                     \* claim from their queue in this poll; and those w left without one
    requests, faults             \* what the bounds count

jobVars   == <<status, holder, due, touched>>
queueVars == <<limit, paused, lock>>
wakeVars  == <<conn, mail, wake>>
lookVars  == <<looked, passed>>
vars == <<setup, jobVars, queueVars, at, ids, wakeVars, lookVars, requests, faults>>

Nothing == [limit |-> 0, paused |-> TRUE, used |-> 0, rows |-> {}]
Views == [limit : Limits \union {0}, paused : BOOLEAN, used : Nat, rows : SUBSET Jobs]
Places == [pc : {"next", "lock", "locked", "read", "wait"}, todo : SUBSET Queues,
           queue : Queues \union {NoQueue}, free : 0 .. Concurrency,
           view : Views]
Away == [pc |-> "wait", todo |-> {}, queue |-> NoQueue, free |-> 0, view |-> Nothing]

QueueOf(j) == setup.queueOf[j]
Queued(q) == {j \in Jobs : QueueOf(j) = q /\ status[j] = "queued"}
Active(q) == {j \in Jobs : QueueOf(j) = q /\ status[j] = "active"}
Running(w) == {j \in Jobs : holder[j] = w}

(* pg_notify: sent at the commit, to whoever is listening then.            *)
Notify == mail' = [w \in Workers |-> mail[w] \/ conn[w] # "down"]

Init ==
    /\ setup \in Setups
    /\ status = [j \in Jobs |-> "idle"] /\ holder = [j \in Jobs |-> NoWorker]
    /\ due = [j \in Jobs |-> TRUE] /\ touched = {}
    /\ limit = [q \in Queues |-> DefaultLimit] /\ paused = [q \in Queues |-> FALSE]
    /\ lock = [q \in Queues |-> NoWorker]
    /\ at = [w \in Workers |-> [Away EXCEPT !.pc = "next", !.todo = Existing]]
    /\ ids = [w \in Workers |-> Existing]
    /\ conn = [w \in Workers |-> "down"] /\ mail = [w \in Workers |-> FALSE]
    /\ wake = [w \in Workers |-> FALSE] /\ looked = [w \in Workers |-> {}]
    /\ passed = [w \in Workers |-> {}] /\ requests = 0 /\ faults = 0
-----------------------------------------------------------------------------
(* The jobs and the requests.                                              *)

(* Within the bound on requests.                                           *)
Another == requests < MaxRequests /\ requests' = requests + 1

Forgotten(js) == looked' = [w \in Workers |-> looked[w] \ js] /\ passed' = [w \in Workers |-> passed[w] \ js]

(* Whatever makes a job queued -- a creation, a promotion, a retry, a      *)
(* replay, a requeue: the trigger or the code notifies.  Where run_at is   *)
(* the clock of the API it may be a moment ahead of the database's.  A     *)
(* claim that knew the job from before may find the new run_at too late.   *)
Enqueue(j) ==
    /\ status[j] = "idle"
    /\ status' = [status EXCEPT ![j] = "queued"]
    /\ \/ UNCHANGED <<due, requests>>
       \/ due' = [due EXCEPT ![j] = FALSE] /\ Another
    /\ Forgotten({j})
    /\ at' \in {at, [w \in Workers |-> [at[w] EXCEPT !.view.rows = @ \ {j}]]}
    /\ Notify
    /\ UNCHANGED <<holder, touched, queueVars, ids, conn, wake, faults>>

ComesDue(j) ==
    /\ ~due[j]
    /\ due' = [due EXCEPT ![j] = TRUE]
    /\ UNCHANGED <<status, holder, touched, queueVars, at, ids, wakeVars, lookVars, requests, faults>>

(* The task of the job ends, well or badly, and its slot and the queue's   *)
(* are free.  Nothing is notified.                                         *)
Finish(j) ==
    /\ status[j] = "active"
    /\ status' = [status EXCEPT ![j] = "idle"] /\ holder' = [holder EXCEPT ![j] = NoWorker]
    /\ UNCHANGED <<due, touched, queueVars, at, ids, wakeVars, lookVars, requests, faults>>

(* A retry or cancel request locks the row of a queued job ...             *)
Touch(j) ==
    /\ Another
    /\ status[j] = "queued" /\ j \notin touched
    /\ touched' = touched \union {j}
    /\ UNCHANGED <<status, holder, due, queueVars, at, ids, wakeVars, lookVars, faults>>

(* ... and cancels the job, or is refused and leaves it as it is.          *)
Release(j) ==
    /\ j \in touched /\ touched' = touched \ {j}
    /\ \E s \in {"queued", "idle"} : status' = [status EXCEPT ![j] = s]
    /\ UNCHANGED <<holder, due, queueVars, at, ids, wakeVars, lookVars, requests, faults>>

QueueRow(q) == UNCHANGED <<jobVars, lock, at, ids, conn, wake, faults>>

PauseQueue(q) ==
    /\ Another
    /\ paused' = [paused EXCEPT ![q] = TRUE]
    /\ QueueRow(q) /\ UNCHANGED <<limit, mail, lookVars>>

ResumeQueue(q) ==
    /\ \/ paused[q] /\ UNCHANGED requests
       \/ ~paused[q] /\ Another
    /\ paused' = [paused EXCEPT ![q] = FALSE]
    /\ Forgotten(Queued(q))
    /\ Notify
    /\ QueueRow(q) /\ UNCHANGED limit

UpdateLimit(q, n) ==
    /\ Another
    /\ limit' = [limit EXCEPT ![q] = n]
    /\ QueueRow(q) /\ UNCHANGED <<paused, mail, lookVars>>
-----------------------------------------------------------------------------
(* The poll loop.                                                          *)

Idle(w) == UNCHANGED <<jobVars, queueVars, ids, conn, mail, requests, faults>>
AllQueued(qs) == {j \in Jobs : status[j] = "queued" /\ QueueOf(j) \in qs}

(* From these queues a claim begins; these get none, or one that fails.    *)
LooksInto(w, q) == /\ looked' = [looked EXCEPT ![w] = IF conn[w] = "up" THEN @ \union AllQueued({q}) ELSE @]
                   /\ UNCHANGED passed
PassesOver(w, qs) == /\ passed' = [passed EXCEPT ![w] = IF conn[w] = "up" THEN @ \union AllQueued(qs) ELSE @]
                     /\ looked' = [looked EXCEPT ![w] = @ \ AllQueued(qs)]

(* The poll is over, without a claim from these queues.                    *)
GivesUp(w, qs) ==
    /\ at' = [at EXCEPT ![w] = Away]
    /\ PassesOver(w, qs)

(* _poll_once: the next queue, in the order the database has returned      *)
(* them, which nothing fixes, if a slot is free; else the loop waits.      *)
ParkCleared(w) ==  \* mutant
    /\ at[w].pc = "next" /\ (at[w].todo = {} \/ Cardinality(Running(w)) >= Concurrency)
    /\ GivesUp(w, at[w].todo) /\ wake' = [wake EXCEPT ![w] = FALSE] /\ Idle(w)
Park(w) ==
    /\ at[w].pc = "next" /\ (at[w].todo = {} \/ Cardinality(Running(w)) >= Concurrency)
    /\ GivesUp(w, at[w].todo)
    /\ Idle(w) /\ UNCHANGED wake

(* The transaction of a claim begins, and now() is its time to the end:    *)
(* what is not due yet, this claim will not take.                          *)
Begun(w, q) == [at[w] EXCEPT !.pc = "lock", !.todo = @ \ {q}, !.queue = q,
                             !.free = Concurrency - Cardinality(Running(w)),
                             !.view = [Nothing EXCEPT !.rows = {j \in Queued(q) : due[j]}]]
PollQueue(w) ==
    /\ at[w].pc = "next" /\ Cardinality(Running(w)) < Concurrency
    /\ \E q \in at[w].todo : at' = [at EXCEPT ![w] = Begun(w, q)] /\ LooksInto(w, q)
    /\ Idle(w) /\ UNCHANGED wake

(* pg_advisory_xact_lock, a statement of its own.                          *)
LockFreeIgnored(q) == TRUE  \* mutant
LockFree(q) == lock[q] = NoWorker

TakeLock(w) ==
    /\ at[w].pc = "lock" /\ LockFree(at[w].queue)
    /\ lock' = [lock EXCEPT ![at[w].queue] = w]
    /\ at' = [at EXCEPT ![w] = [@ EXCEPT !.pc = "locked"]]
    /\ UNCHANGED <<jobVars, limit, paused, ids, wakeVars, lookVars, requests, faults>>

(* The snapshot of the claim statement: the settings of the queue, the     *)
(* jobs that count against it, the jobs it may claim.  One that was queued *)
(* since the transaction began may have been due by then or not.           *)
Claimable(q, before, since) == {j \in Queued(q) : due[j] /\ (j \in before \/ j \in since)}
Snapshot(q, rows) == [limit |-> limit[q], paused |-> paused[q], used |-> Cardinality(Active(q)), rows |-> rows]
ReadQueue(w) ==
    /\ at[w].pc = "locked"
    /\ \E since \in SUBSET {j \in Queued(at[w].queue) \ at[w].view.rows : due[j]} :
         at' = [at EXCEPT ![w] = [@ EXCEPT !.pc = "read",
                    !.view = Snapshot(at[w].queue, Claimable(at[w].queue, at[w].view.rows, since))]]
    /\ Idle(w) /\ UNCHANGED <<wake, lookVars>>

(* LEAST(:limit, GREATEST(free_slots, 0)); a paused queue has no free_slots*)
Least(a, b) == IF a <= b THEN a ELSE b
Room(p) == IF p.view.paused \/ p.view.used >= p.view.limit THEN 0
           ELSE Least(p.free, p.view.limit - p.view.used)

(* FOR UPDATE OF j SKIP LOCKED: a row another transaction has locked is    *)
(* passed over, one that has changed since the snapshot is checked again.  *)
EligibleUnchecked(p) == p.view.rows \ touched  \* mutant
Eligible(p) == {j \in p.view.rows : status[j] = "queued"} \ touched

(* ORDER BY priority DESC, run_at ASC                                      *)
Above(j, k) == setup.priority[j] > setup.priority[k]
Preferred(S, T) == \A j \in S, k \in T \ S : ~Above(k, j)

(* The end of the transaction lets the advisory lock go.                   *)
Unlocked(w) == [q \in Queues |-> IF lock[q] = w THEN NoWorker ELSE lock[q]]

(* The statement locks its rows and updates them, the transaction commits, *)
(* and the jobs are submitted to the runtime.                              *)
Claim(w) ==
    /\ at[w].pc = "read"
    /\ \E S \in SUBSET Eligible(at[w]) :
         /\ Cardinality(S) = Least(Room(at[w]), Cardinality(Eligible(at[w])))
         /\ Preferred(S, Eligible(at[w]))
         /\ status' = [j \in Jobs |-> IF j \in S THEN "active" ELSE status[j]]
         /\ holder' = [j \in Jobs |-> IF j \in S THEN w ELSE holder[j]]
    /\ lock' = Unlocked(w)
    /\ at' = [at EXCEPT ![w] = [Away EXCEPT !.pc = "next", !.todo = at[w].todo]]
    /\ UNCHANGED <<due, touched, limit, paused, ids, wakeVars, lookVars, requests, faults>>

(* An error in the claim is rolled back and logged, and ends the poll.     *)
Fail(w) ==
    /\ at[w].pc \in {"lock", "locked", "read"}
    /\ faults < MaxFaults /\ faults' = faults + 1
    /\ GivesUp(w, at[w].todo \union {at[w].queue})
    /\ lock' = Unlocked(w)
    /\ UNCHANGED <<jobVars, limit, paused, ids, wakeVars, requests>>

(* The wait ends, the event is cleared, and the next poll takes the queues *)
(* known then: no await comes between.                                     *)
Resumed(w) ==
    /\ at' = [at EXCEPT ![w] = [Away EXCEPT !.pc = "next", !.todo = ids[w]]]
    /\ wake' = [wake EXCEPT ![w] = FALSE]
    /\ looked' = [looked EXCEPT ![w] = {}] /\ passed' = [passed EXCEPT ![w] = {}]
    /\ Idle(w)
Woken(w) == at[w].pc = "wait" /\ wake[w] /\ Resumed(w)
TimedOutNever(w) == at[w].pc = "wait" /\ wake[w] /\ Resumed(w)  \* mutant
TimedOut(w) == at[w].pc = "wait" /\ Resumed(w)
-----------------------------------------------------------------------------
(* The listening connection and the heartbeat.                             *)

Listening(w) == UNCHANGED <<jobVars, queueVars, at, ids, requests>>

(* _on_notify                                                              *)
OnNotify(w) ==
    /\ mail[w]
    /\ mail' = [mail EXCEPT ![w] = FALSE] /\ wake' = [wake EXCEPT ![w] = TRUE]
    /\ Listening(w) /\ UNCHANGED <<conn, lookVars, faults>>

(* _ensure_notify_listener: LISTEN takes effect, and after that the worker *)
(* polls for what it may have missed.                                      *)
Listen(w) ==
    /\ w \in setup.listeners /\ conn[w] = "down" /\ conn' = [conn EXCEPT ![w] = "listening"]
    /\ Listening(w) /\ UNCHANGED <<mail, wake, lookVars, faults>>
Listened(w) ==
    /\ conn[w] = "listening" /\ conn' = [conn EXCEPT ![w] = "up"]
    /\ wake' = [wake EXCEPT ![w] = TRUE]
    /\ Listening(w) /\ UNCHANGED <<mail, lookVars, faults>>
Disconnect(w) ==
    /\ conn[w] # "down" /\ faults < MaxFaults /\ faults' = faults + 1
    /\ conn' = [conn EXCEPT ![w] = "down"] /\ mail' = [mail EXCEPT ![w] = FALSE]
    /\ looked' = [looked EXCEPT ![w] = {}] /\ passed' = [passed EXCEPT ![w] = {}]
    /\ Listening(w) /\ UNCHANGED wake

(* _refresh_queue_ids in a heartbeat: queues created since are found, and  *)
(* nothing is woken for them.                                              *)
RefreshQueueIds(w) ==
    /\ ids[w] # Queues
    /\ ids' = [ids EXCEPT ![w] = Queues]
    /\ PassesOver(w, Queues \ ids[w])
    /\ UNCHANGED <<jobVars, queueVars, at, wakeVars, requests, faults>>

(* poll_loop, left to itself.                                              *)
Loop(w) == TimedOut(w) \/ Park(w) \/ PollQueue(w) \/ TakeLock(w) \/ ReadQueue(w) \/ Claim(w)
Step ==
    \/ \E j \in Jobs : Enqueue(j) \/ ComesDue(j) \/ Finish(j) \/ Touch(j) \/ Release(j)
    \/ \E q \in Queues : PauseQueue(q) \/ ResumeQueue(q) \/ \E n \in Limits : UpdateLimit(q, n)
    \/ \E w \in setup.up : \/ Loop(w) \/ Fail(w) \/ Woken(w)
                           \/ OnNotify(w) \/ Listen(w) \/ Listened(w) \/ Disconnect(w) \/ RefreshQueueIds(w)
Next == Step /\ UNCHANGED setup

Spec == Init /\ [][Next]_vars
(* asyncio and PostgreSQL go on; handlers, requests and clocks too; the    *)
(* interval of a wait and the heartbeats come round.  Nothing is assumed   *)
(* of notifications or of the connection they come by.                     *)
Fairness ==
    /\ \A w \in Workers : /\ WF_vars(w \in setup.up /\ Loop(w) /\ UNCHANGED setup)
                          /\ WF_vars(w \in setup.up /\ RefreshQueueIds(w) /\ UNCHANGED setup)
    /\ \A j \in Jobs : WF_vars((Finish(j) \/ Release(j) \/ ComesDue(j)) /\ UNCHANGED setup)
FairSpec == Spec /\ Fairness
-----------------------------------------------------------------------------
TypeOK ==
    /\ setup \in Setups
    /\ status \in [Jobs -> {"idle", "queued", "active"}] /\ holder \in [Jobs -> Workers \union {NoWorker}]
    /\ due \in [Jobs -> BOOLEAN] /\ touched \subseteq Jobs 
    /\ limit \in [Queues -> Limits] /\ paused \in [Queues -> BOOLEAN]
    /\ lock \in [Queues -> Workers \union {NoWorker}]
    /\ at \in [Workers -> Places] /\ ids \in [Workers -> SUBSET Queues]
    /\ conn \in [Workers -> {"down", "listening", "up"}] /\ mail \in [Workers -> BOOLEAN]
    /\ wake \in [Workers -> BOOLEAN] /\ looked \in [Workers -> SUBSET Jobs]
    /\ passed \in [Workers -> SUBSET Jobs]
    /\ requests \in Nat /\ faults \in Nat

Claiming(w) == at[w].pc \in {"lock", "locked", "read"}
(* The lock of a queue is held by the one transaction that is claiming     *)
(* from it, and requests lock the rows of queued jobs only.                *)
LockHeld ==
    /\ \A w \in Workers, q \in Queues : lock[q] = w <=> at[w].pc \in {"locked", "read"} /\ at[w].queue = q
    /\ \A j \in touched : status[j] = "queued"
(* A claim is about jobs of its queue, and since its snapshot the active   *)
(* ones of these can only have become fewer.                               *)
CountHolds == \A w \in Workers :
    /\ Claiming(w) => at[w].queue \in Queues /\ \A j \in at[w].view.rows : QueueOf(j) = at[w].queue
    /\ at[w].pc = "read" => Cardinality(Active(at[w].queue)) <= at[w].view.used
(* A worker takes no more jobs than it has slots for, across all the       *)
(* queues of a poll: free_slots is read anew for each (main.py:237), and   *)
(* while the claim is awaited the worker takes nothing else.               *)
SlotsKept == \A w \in Workers :
    /\ Cardinality(Running(w)) <= Concurrency
    /\ Claiming(w) => Cardinality(Running(w)) + at[w].free <= Concurrency
PollInv == TypeOK /\ LockHeld /\ CountHolds /\ SlotsKept

(* The next property in an inductive form: the queues of todo are yet to   *)
(* be polled.                                                              *)
Turned(w, j) == j \in looked[w] \/ j \in passed[w] \/ QueueOf(j) \in at[w].todo
WakeInv == \A w \in Workers :
    /\ at[w].pc = "wait" => at[w].todo = {}
    /\ conn[w] = "up" /\ ~wake[w] /\ ~mail[w] =>
         \A j \in Jobs : status[j] = "queued" /\ QueueOf(j) \in ids[w] => Turned(w, j)

(* No wake-up is lost: a worker that waits with its listener up, no event  *)
(* set and no notification on its way, has either begun a claim from the   *)
(* queue of a job after the job was queued (or its queue resumed), for     *)
(* each job that is queued in the queues it knows -- after, because a claim*)
(* that has begun may not take the job any more -- or has left the job     *)
(* deliberately: for lack of a slot, after an error of its claim, or since *)
(* it has learned of the queue only after the poll began.  These wait for  *)
(* the poll interval, or for the next wake-up.  The order of poll, wait and*)
(* clear in poll_loop, and the poll after every reconnection, are what this*)
(* rests on.                                                               *)
NoLostWake == \A w \in Workers : conn[w] = "up" /\ ~wake[w] /\ ~mail[w] /\ at[w].pc = "wait" =>
    \A j \in Jobs : status[j] = "queued" /\ QueueOf(j) \in ids[w] => j \in looked[w] \union passed[w]

(* Whatever else happens to a queue while a claim is under way, the claim  *)
(* leaves no more jobs active than the limit it read, takes none from a    *)
(* queue it found paused, and none that was cancelled or locked meanwhile: *)
(* the advisory lock makes counting and claiming one (claim.py:46), and    *)
(* SKIP LOCKED looks at the rows anew.                                     *)
ClaimsAreSound == [][\A q \in Queues : Active(q)' \ Active(q) # {} =>
    /\ Active(q)' \ Active(q) \subseteq Queued(q) \ touched
    /\ \E w \in Workers : /\ lock[q] = w /\ at[w].pc = "read" /\ ~at[w].view.paused
                          /\ Cardinality(Active(q)') <= at[w].view.limit]_vars

(* Work goes on however often jobs are queued again, though slots are      *)
(* freed, limits raised, queues created and rows unlocked without a        *)
(* notification, and though notifications may never come: the poll interval*)
(* alone brings every worker back.  While any job is left waiting in a     *)
(* queue that is not paused, jobs keep being claimed; and a job of the     *)
(* highest priority, in the one queue that has jobs, is claimed itself.    *)
(* Nothing more is certain: a job of a lower priority, or of a queue that  *)
(* comes later in a poll, can wait for ever while others keep coming.      *)
Waits(j) == status[j] = "queued" /\ ~paused[QueueOf(j)]
First(j) == \A k \in Jobs \ {j} : QueueOf(k) = QueueOf(j) /\ Above(j, k)
Claimed == \A j \in Jobs :
    /\ []<>~Waits(j) \/ []<><<\E k \in Jobs : status[k] = "queued" /\ status'[k] = "active">>_vars
    /\ First(j) /\ Waits(j) ~> ~Waits(j)
=============================================================================
