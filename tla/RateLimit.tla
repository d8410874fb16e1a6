------------------------------ MODULE RateLimit -------------------------------
(***************************************************************************)
(* The rate at which the scheduler lets out the due jobs of one queue      *)
(* (core/ratelimit.py, engine/scheduler.py): every scheduler process keeps *)
(* a token bucket of its own in memory, whichever of them leads a tick.    *)
(*                                                                         *)
(* Time advances in steps of 1/Unit seconds and tokens are counted in      *)
(* units of 1/Unit, so that a bucket gains its rate at every step and a    *)
(* whole token is Unit.  Rates are whole numbers from 1: the column is an  *)
(* integer and the requests that set it refuse less (schemas/queue.py:12,  *)
(* 24), so that the capacity max(rate, 1.0) of a bucket is its rate.       *)
(***************************************************************************)
EXTENDS Integers

CONSTANTS
    Replicas,     \* scheduler processes
    Rates,        \* the values rate_limit_per_sec is set to
    Unit,         \* steps of time in a second
    MaxDue,       \* due jobs that wait at most
    Window,       \* how many steps a rate is watched for at most
    Restarts,     \* how many times processes restart meanwhile at most
    None          \* no tick; nobody watches

ASSUME RateAssumption ==
    /\ Rates \subseteq Nat \ {0} /\ Unit \in Nat \ {0}
    /\ {MaxDue, Window, Restarts} \subseteq Nat
    /\ None \notin Nat

VARIABLES
    rate,       \* queues.rate_limit_per_sec of the queue, NoLimit if it is NULL
    due,        \* how many of its jobs are due
    reading,    \* reading[r]: the rate the open tick of r has read
    bucket,     \* bucket[r]: rate and tokens of r's bucket; a process that has none yet is as good as full
    idle,       \* idle[r]: time since _last_refill, up to a second
    watch,      \* history: how long the present rate has been watched, None if it is not
    count,      \* history: count[r], the jobs r has let out since
    credit,     \* history: the tokens a bucket has gained since if it was never full
    grant,      \* history: grant[r], the full buckets r has brought along since
    restarts    \* history: how many processes have restarted since

queueVars == <<rate, due>>
history   == <<watch, count, credit, grant, restarts>>
vars == <<queueVars, reading, bucket, idle, history>>

NoLimit == 0
capacity(q) == q * Unit
Least(m, n) == IF m < n THEN m ELSE n

Init == /\ rate \in Rates \cup {NoLimit} /\ due = 0
        /\ reading = [r \in Replicas |-> None]
        /\ bucket = [r \in Replicas |-> [rate |-> NoLimit, tokens |-> 0]]
        /\ idle = [r \in Replicas |-> 0]
        /\ watch = None /\ credit = 0 /\ restarts = 0
        /\ count = [r \in Replicas |-> 0] /\ grant = [r \in Replicas |-> 0]

(* Nobody counts any more.                                                 *)
Unwatched == /\ watch' = None /\ credit' = 0 /\ restarts' = 0
             /\ count' = [r \in Replicas |-> 0] /\ grant' = [r \in Replicas |-> 0]
-----------------------------------------------------------------------------
(* The queue: jobs become due, an administrator sets the rate.             *)
Arrive == /\ due < MaxDue /\ due' = due + 1
          /\ UNCHANGED <<rate, reading, bucket, idle, history>>

SetRate == /\ rate' \in (Rates \cup {NoLimit}) \ {rate}
           /\ Unwatched
           /\ UNCHANGED <<due, reading, bucket, idle>>

(* The tick of a replica, which leads while no other has one open.         *)
ReadRate(r) == /\ \A q \in Replicas : reading[q] = None
               /\ reading' = [reading EXCEPT ![r] = rate]
               /\ UNCHANGED <<queueVars, bucket, idle, history>>

Uncapped(r) == bucket[r].tokens + idle[r] * bucket[r].rate  \* mutant
Refilled(r) == Least(capacity(bucket[r].rate), bucket[r].tokens + idle[r] * bucket[r].rate)

(* The bucket as RateLimiterRegistry finds it: one of another rate is      *)
(* replaced by a full one.                                                 *)
Level(r, q) == IF bucket[r].rate = q THEN Refilled(r) ELSE capacity(q)
Allowance(r, q) == Level(r, q) \div Unit

AllGone(level, n) == 0  \* mutant
Rest(level, n) == level - n * Unit

take_available(r, q) ==
    /\ bucket' = [bucket EXCEPT ![r] = [rate |-> q, tokens |-> Rest(Level(r, q), Allowance(r, q))]]
    /\ idle' = [idle EXCEPT ![r] = 0]

LetOut(r, n) == /\ due' = due - n
                /\ count' = [count EXCEPT ![r] = IF watch = None THEN @ ELSE @ + n]

Promote(r) ==
    /\ reading[r] # None
    /\ IF reading[r] = NoLimit THEN LetOut(r, due) /\ UNCHANGED <<bucket, idle>>
       ELSE /\ take_available(r, reading[r])
            /\ LetOut(r, Least(Allowance(r, reading[r]), due))
    /\ reading' = [reading EXCEPT ![r] = None]
    /\ UNCHANGED <<rate, watch, credit, grant, restarts>>

(* The tick fails after the tokens were taken: they are lost.              *)
TickFails(r) ==
    /\ reading[r] # None
    /\ IF reading[r] = NoLimit THEN UNCHANGED <<bucket, idle>> ELSE take_available(r, reading[r])
    /\ reading' = [reading EXCEPT ![r] = None]
    /\ UNCHANGED <<queueVars, history>>

Restart(r) ==
    /\ watch = None \/ restarts < Restarts
    /\ reading' = [reading EXCEPT ![r] = None]
    /\ bucket' = [bucket EXCEPT ![r] = [rate |-> NoLimit, tokens |-> 0]]
    /\ idle' = [idle EXCEPT ![r] = 0]
    /\ IF watch = None THEN UNCHANGED <<grant, restarts>>
       ELSE grant' = [grant EXCEPT ![r] = @ + capacity(rate)] /\ restarts' = restarts + 1
    /\ UNCHANGED <<queueVars, watch, count, credit>>

Tock == /\ idle' = [r \in Replicas |-> Least(idle[r] + 1, Unit)]
        /\ IF watch = None \/ watch = Window THEN Unwatched
           ELSE watch' = watch + 1 /\ credit' = credit + rate /\ UNCHANGED <<count, grant, restarts>>
        /\ UNCHANGED <<queueVars, reading, bucket>>

(* Someone starts to count, once no open tick knows an older rate.         *)
Watch == /\ watch = None /\ rate # NoLimit
         /\ \A r \in Replicas : reading[r] \in {None, rate}
         /\ watch' = 0 /\ credit' = 0 /\ restarts' = 0
         /\ count' = [r \in Replicas |-> 0]
         /\ grant' = [r \in Replicas |-> capacity(rate)]
         /\ UNCHANGED <<queueVars, reading, bucket, idle>>

Next == \/ Arrive \/ SetRate \/ Tock \/ Watch
        \/ \E r \in Replicas : ReadRate(r) \/ Promote(r) \/ TickFails(r) \/ Restart(r)

Spec == Init /\ [][Next]_vars

(* Time passes, somebody ticks, and not every tick fails that lets out     *)
(* jobs.                                                                   *)
LetsOut(r) == Promote(r) /\ due' < due
Fairness == /\ WF_vars(Tock) /\ WF_vars(\E r \in Replicas : ReadRate(r))
            /\ WF_vars(\E r \in Replicas : Promote(r) \/ TickFails(r))
            /\ SF_vars(\E r \in Replicas : LetsOut(r))

FairSpec == Spec /\ Fairness
-----------------------------------------------------------------------------
TypeOK ==
    /\ rate \in Rates \cup {NoLimit} /\ due \in Nat
    /\ reading \in [Replicas -> Rates \cup {NoLimit, None}]
    /\ bucket \in [Replicas -> [rate : Rates \cup {NoLimit}, tokens : Nat]]
    /\ idle \in [Replicas -> 0..Unit]
    /\ watch \in 0..Window \cup {None} /\ credit \in Nat /\ restarts \in Nat
    /\ count \in [Replicas -> Nat] /\ grant \in [Replicas -> Nat]

(* Over any stretch of time with one rate, a process lets out no more than *)
(* its rate and the full buckets it came with: one, and one more for each  *)
(* restart.  With one scheduler process that never restarts this is the    *)
(* documented limit; N of them let out N times as much.                    *)
RateBound == watch # None => \A r \in Replicas : count[r] * Unit <= grant[r] + credit

(* Why: what a bucket holds has not been let out yet.                      *)
Held(r) == /\ reading[r] \in {None, rate}
           /\ count[r] * Unit + Level(r, rate) <= grant[r] + credit

RateInv ==
    /\ TypeOK
    /\ watch # None => rate # NoLimit /\ \A r \in Replicas : Held(r)

(* A backlog is worked off, although buckets lose what they hold to failed *)
(* ticks and to ticks with fewer due jobs than tokens.                     *)
BacklogMoves == due = MaxDue ~> due < MaxDue
=============================================================================
