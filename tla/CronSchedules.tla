---------------------------- MODULE CronSchedules -----------------------------
(***************************************************************************)
(* Recurring jobs: the templates in scheduled_jobs, the part of the        *)
(* scheduler's tick that runs them (engine/scheduler.py) and the requests  *)
(* that create, pause, resume and delete them (api/jobs.py).               *)
(*                                                                         *)
(* A tick reads the due templates without locking them, asks its own clock *)
(* what time it is, and writes jobs and templates at its end; a request to *)
(* resume reads, computes by the clock of its own host and writes likewise,*)
(* and others run beside it.  What a cron expression means is a set of     *)
(* slots.                                                                  *)
(***************************************************************************)
EXTENDS Naturals

CONSTANTS
    Schedules,
    Replicas,     \* scheduler processes
    Requests,     \* requests to resume a schedule, each made once at most
    Slots,        \* Slots[s]: the times the cron expression of s names, in its time zone
    Broken,       \* the templates whose expression or time zone is invalid, written straight to the table
    Behind,       \* how far the clock of a host of a scheduler or an API process may be behind the database's
    MaxTime       \* the time at which the clock stops

Time == 0..MaxTime
IsNext(s, t, u) == u \in Slots[s] /\ u > t /\ \A v \in Slots[s] : v > t => u <= v

ASSUME CronAssumption ==
    /\ MaxTime \in Nat /\ Behind \in Nat
    /\ Broken \subseteq Schedules
    /\ Slots \in [Schedules -> SUBSET Nat]
    /\ \A s \in Schedules, t \in Time : \E u \in Slots[s] : IsNext(s, t, u)

VARIABLES
    clock,      \* now() of the database
    row,        \* row[s]: "unborn", "active", "paused", "deleted"
    next,       \* next[s]: next_run_at
    tick,       \* tick[r]: what the open tick of r knows
    resuming,   \* resuming[q]: what request q has read and computed; overtaken, behind are history
    spawned,    \* history: spawned[s][t], how many jobs s has spawned for slot t
    served,     \* history: served[s], the time at which the last tick that spawned a job of s read the table
    again,      \* history: again[s][t], how often an errant resume has set s back over slot t after it was run
    errant      \* history: the schedules whose next_run_at is from a resume overtaken by another one

history == <<spawned, served, again, errant>>
vars == <<clock, row, next, tick, resuming, history>>

NoRequest == [at |-> "none"]
Idle == [phase |-> "idle", slot |-> [s \in Schedules |-> 0], at |-> 0, now |-> 0]

Init == /\ clock = 0
        /\ row = [s \in Schedules |-> IF s \in Broken THEN "active" ELSE "unborn"]
        /\ next = [s \in Schedules |-> 1]
        /\ tick = [r \in Replicas |-> Idle]
        /\ resuming = [q \in Requests |-> NoRequest]
        /\ spawned = [s \in Schedules |-> [t \in Time |-> 0]]
        /\ again = [s \in Schedules |-> [t \in Time |-> 0]]
        /\ served = [s \in Schedules |-> 0] /\ errant = {}

(* datetime.now of a scheduler or an API process.                          *)
HostTimes == {t \in Time : t <= clock /\ clock <= t + Behind}

(* croniter(...).get_next                                                  *)
get_next(s, t) == CHOOSE u \in Slots[s] : IsNext(s, t, u)
-----------------------------------------------------------------------------
(* The requests.  An invalid expression or time zone is refused.           *)
CreateSchedule(s) ==
    /\ row[s] = "unborn"
    /\ row' = [row EXCEPT ![s] = "active"]
    /\ \E t \in HostTimes : next' = [next EXCEPT ![s] = get_next(s, t)]
    /\ UNCHANGED <<clock, tick, resuming, history>>

Pause(s) == /\ row[s] = "active"
            /\ row' = [row EXCEPT ![s] = "paused"]
            /\ UNCHANGED <<clock, next, tick, resuming, history>>

(* A request to resume, in three steps; nothing is locked between them.    *)
ResumeLoad(q, s) ==
    /\ resuming[q] = NoRequest /\ row[s] = "paused" /\ s \notin Broken
    /\ resuming' = [resuming EXCEPT ![q] = [at |-> "loaded", sched |-> s, was |-> next[s], overtaken |-> FALSE]]
    /\ UNCHANGED <<clock, row, next, tick, history>>

ResumeDecide(q) ==
    /\ resuming[q].at = "loaded"
    /\ \E t \in HostTimes : LET rq == resuming[q] IN
         resuming' = [resuming EXCEPT ![q] =
             [at |-> "decided", sched |-> rq.sched, was |-> rq.was, overtaken |-> rq.overtaken,
              to |-> get_next(rq.sched, t), behind |-> t < clock]]
    /\ UNCHANGED <<clock, row, next, tick, history>>

(* The UPDATE has the columns whose values differ from those that were     *)
(* loaded; that of a deleted row fails.                                    *)
NextOf(rq) == IF rq.to = rq.was THEN next[rq.sched] ELSE rq.to
Errs(rq) == rq.behind \/ rq.overtaken
Overtake(p, s) == IF resuming[p].at \in {"loaded", "decided"} /\ resuming[p].sched = s
                  THEN [resuming[p] EXCEPT !.overtaken = TRUE] ELSE resuming[p]

ResumeWrite(q) ==
    /\ resuming[q].at = "decided"
    /\ LET rq == resuming[q]
           s  == rq.sched
       IN IF row[s] = "deleted"
          THEN resuming' = [resuming EXCEPT ![q] = [at |-> "done"]] /\ UNCHANGED <<row, next, again, errant>>
          ELSE /\ row' = [row EXCEPT ![s] = "active"]
               /\ next' = [next EXCEPT ![s] = NextOf(rq)]
               /\ resuming' = [p \in Requests |-> IF p = q THEN [at |-> "done"] ELSE Overtake(p, s)]
               /\ again' = [again EXCEPT ![s] = [t \in Time |->
                      IF Errs(rq) /\ NextOf(rq) <= t /\ t < next[s] /\ spawned[s][t] > 0 THEN @[t] + 1 ELSE @[t]]]
               /\ errant' = IF rq.to = rq.was THEN errant ELSE IF rq.overtaken THEN errant \cup {s} ELSE errant \ {s}
    /\ UNCHANGED <<clock, tick, spawned, served>>

(* Also by the deletion of its queue.                                      *)
Delete(s) == /\ row[s] \in {"active", "paused"}
             /\ row' = [row EXCEPT ![s] = "deleted"]
             /\ UNCHANGED <<clock, next, tick, resuming, history>>
-----------------------------------------------------------------------------
(* The tick of a scheduler replica.                                        *)
LockIgnored == TRUE  \* mutant
Leaderless == \A r \in Replicas : tick[r].phase = "idle"

Due(s) == row[s] = "active" /\ next[s] <= clock

ReadDue(r) ==
    /\ tick[r].phase = "idle" /\ Leaderless
    /\ tick' = [tick EXCEPT ![r] = [phase |-> "read", at |-> clock, now |-> 0,
                                    slot |-> [s \in Schedules |-> IF Due(s) THEN next[s] ELSE 0]]]
    /\ UNCHANGED <<clock, row, next, resuming, history>>

DueIn(r) == {s \in Schedules : tick[r].slot[s] > 0}

(* datetime.now, once the rows have arrived.                               *)
AskClock(r) ==
    /\ tick[r].phase = "read"
    /\ \E t \in HostTimes : tick' = [tick EXCEPT ![r].now = t, ![r].phase = "decided"]
    /\ UNCHANGED <<clock, row, next, resuming, history>>

SlotOnly(slot, now) == slot  \* mutant
Base(slot, now) == IF slot > now THEN slot ELSE now

(* The UPDATE of a deleted template fails, and with it the tick.           *)
BrokenFails(r) == \A s \in DueIn(r) : row[s] # "deleted" /\ s \notin Broken  \* mutant
Writable(r) == \A s \in DueIn(r) : row[s] # "deleted"

Commit(r) ==
    /\ tick[r].phase = "decided" /\ Writable(r)
    /\ LET sane == DueIn(r) \ Broken IN
         /\ row' = [s \in Schedules |-> IF s \in DueIn(r) \cap Broken THEN "paused" ELSE row[s]]
         /\ next' = [s \in Schedules |-> IF s \in sane THEN get_next(s, Base(tick[r].slot[s], tick[r].now))
                                         ELSE next[s]]
         /\ spawned' = [s \in Schedules |-> IF s \in sane THEN [spawned[s] EXCEPT ![tick[r].slot[s]] = @ + 1]
                                            ELSE spawned[s]]
         /\ served' = [s \in Schedules |-> IF s \in sane THEN tick[r].at ELSE served[s]]
         /\ errant' = errant \ sane
    /\ tick' = [tick EXCEPT ![r] = Idle]
    /\ UNCHANGED <<clock, resuming, again>>

(* The tick fails somewhere, or its process ends.                          *)
Abort(r) == /\ tick[r].phase # "idle"
            /\ tick' = [tick EXCEPT ![r] = Idle]
            /\ UNCHANGED <<clock, row, next, resuming, history>>
-----------------------------------------------------------------------------
Tock == /\ clock < MaxTime /\ clock' = clock + 1
        /\ UNCHANGED <<row, next, tick, resuming, history>>

Next == \/ \E s \in Schedules : \/ CreateSchedule(s) \/ Pause(s) \/ Delete(s)
                                \/ \E q \in Requests : ResumeLoad(q, s)
        \/ \E q \in Requests : ResumeDecide(q) \/ ResumeWrite(q)
        \/ \E r \in Replicas : ReadDue(r) \/ AskClock(r) \/ Commit(r) \/ Abort(r)
        \/ Tock

Spec == Init /\ [][Next]_vars

(* Some replica ticks, and not every tick fails that could succeed.        *)
Fairness == /\ WF_vars(\E r \in Replicas : ReadDue(r))
            /\ \A r \in Replicas : WF_vars(AskClock(r)) /\ WF_vars(Abort(r) \/ Commit(r))
            /\ SF_vars(\E r \in Replicas : AskClock(r))
            /\ SF_vars(\E r \in Replicas : Commit(r))

FairSpec == Spec /\ Fairness
-----------------------------------------------------------------------------
Resumes == {NoRequest, [at |-> "done"]}
    \cup [at : {"loaded"}, sched : Schedules, was : Nat, overtaken : BOOLEAN]
    \cup [at : {"decided"}, sched : Schedules, was : Nat, overtaken : BOOLEAN, to : Nat \ {0}, behind : BOOLEAN]

TypeOK ==
    /\ clock \in Time
    /\ row \in [Schedules -> {"unborn", "active", "paused", "deleted"}]
    /\ next \in [Schedules -> Nat \ {0}] /\ resuming \in [Requests -> Resumes]
    /\ tick \in [Replicas -> [phase : {"idle", "read", "decided"}, slot : [Schedules -> Time],
                              at : Time, now : Time]]
    /\ spawned \in [Schedules -> [Time -> Nat]] /\ again \in [Schedules -> [Time -> Nat]]
    /\ served \in [Schedules -> Time] /\ errant \subseteq Schedules

(* A slot is run once, whatever replicas, failing ticks, pauses and        *)
(* resumes do, and once more only for each resume that set the schedule    *)
(* back over it and that erred: the clock of its host was behind the       *)
(* database's, or another request resumed the schedule while it was open.  *)
SlotOnce == \A s \in Schedules, t \in Time : spawned[s][t] <= 1 + again[s][t]

(* Missed slots collapse into one run: the slot an active schedule runs    *)
(* next is later than the tick that ran it last, as far as the clocks      *)
(* agree.  After an outage there is no burst.  A resume that another one   *)
(* has overtaken may bring back an older slot.                             *)
Collapsed == \A s \in Schedules \ errant : row[s] = "active" => next[s] + Behind > served[s]

(* Why: nobody is ahead of the templates.  Slots from next_run_at, and from*)
(* the slot an open tick is running, may be run once more; those from what *)
(* a resume will write have not been run at all, unless it errs.           *)
FreshFrom(s, t) == \A u \in Time : u >= t => spawned[s][u] = 0
OpenFrom(s, t) == \A u \in Time : u >= t => spawned[s][u] <= again[s][u]

RowInv(s) ==
    /\ FreshFrom(s, clock + 1) /\ OpenFrom(s, next[s])
    /\ served[s] <= clock /\ (s \notin errant => next[s] + Behind > served[s])
    /\ \A t \in Time : spawned[s][t] <= 1 + again[s][t]
    /\ row[s] = "unborn" => FreshFrom(s, 0)

DueInv(r, s) ==
    /\ row[s] # "unborn" /\ OpenFrom(s, tick[r].slot[s]) /\ tick[r].slot[s] <= tick[r].at /\ tick[r].at <= clock
    /\ tick[r].phase = "decided" => tick[r].at <= tick[r].now + Behind

(* What a resume that was not overtaken will write is later than the ticks *)
(* that are over or open, for nobody runs a paused schedule.               *)
DecidedInv(rq) ==
    /\ rq.to + Behind > served[rq.sched] /\ (~rq.behind => FreshFrom(rq.sched, rq.to))
    /\ \A r \in Replicas : rq.sched \in DueIn(r) =>
         rq.to + Behind > tick[r].at /\ (~rq.behind => rq.to > tick[r].at)

ResumeInv(rq) ==
    /\ rq.at \in {"loaded", "decided"} /\ ~rq.overtaken => row[rq.sched] \in {"paused", "deleted"}
    /\ rq.at = "decided" /\ ~rq.overtaken => DecidedInv(rq)

OneTick == /\ \A r \in Replicas : tick[r].phase = "idle" => DueIn(r) = {}
           /\ \A r, q \in Replicas : tick[r].phase # "idle" /\ tick[q].phase # "idle" => r = q

CronInv == /\ TypeOK /\ OneTick
           /\ \A s \in Schedules : RowInv(s)
           /\ \A r \in Replicas : \A s \in DueIn(r) : DueInv(r, s)
           /\ \A q \in Requests : ResumeInv(resuming[q])

(* A schedule that is due is run (or paused, deleted, found to be broken): *)
(* neither a broken template nor one that is deleted under the tick's hand *)
(* keeps the others from running for ever.                                 *)
Served == \A s \in Schedules :
    row[s] = "active" /\ next[s] <= clock ~> row[s] # "active" \/ next[s] > clock
=============================================================================
