----------------------------- MODULE EventFeed -------------------------------
(***************************************************************************)
(* How an open dashboard learns that jobs have changed (ws/publisher.py,   *)
(* ws/manager.py, ws/router.py): the publisher of an API process polls for *)
(* jobs whose updated_at is above a watermark it keeps for each project    *)
(* somebody watches, and sends at most Cap of them to the sockets of the   *)
(* project.  Several sockets of a project are as good as one.              *)
(*                                                                         *)
(* Times are PostgreSQL's now(), the start of a transaction; the rows one  *)
(* transaction writes all have its time.  The clock advances whenever a    *)
(* transaction commits or a tick starts.                                   *)
(***************************************************************************)
EXTENDS Naturals, FiniteSets

CONSTANTS
    Jobs,
    Projects,
    ProjectOf,    \* ProjectOf[j]: the project of job j
    Cap,          \* JOB_UPDATES_PER_TICK
    Window,       \* what a project's first poll looks back: POLL_INTERVAL_SEC * 2
    Bulk,         \* how many jobs one transaction writes at most
    Lag,          \* how long before its commit a transaction may have started
    Failures,     \* how many ticks in a row may fail
    MaxTime,      \* the time at which changes end, and time with them
    None          \* no watermark

ASSUME FeedAssumption ==
    /\ IsFiniteSet(Jobs) /\ ProjectOf \in [Jobs -> Projects]
    /\ {Cap, Window, Bulk, MaxTime} \subseteq Nat \ {0} /\ {Failures, Lag} \subseteq Nat
    /\ None \notin Nat

VARIABLES
    clock,      \* the time the last statement ran
    stamp,      \* stamp[j]: updated_at of j
    watched,    \* active_project_ids: the projects with an open socket
    last,       \* last[p]: _last_check
    todo,       \* the projects the running tick has still to poll, {} if none is running
    now,        \* the time the tick started
    failed,     \* how many ticks have failed since one ended well
    owed,       \* history: the jobs changed under an open socket that has not been sent the change
    missed      \* history: the jobs whose last change was Late, Torn or TooOld, see below

feedVars == <<clock, stamp, watched, last, todo, now, failed, owed, missed>>

JobsOf(p) == {j \in Jobs : ProjectOf[j] = p}

FeedInit ==
    /\ clock = 1 /\ now = 1
    /\ stamp = [j \in Jobs |-> 1]
    /\ watched = {} /\ todo = {} /\ failed = 0
    /\ last = [p \in Projects |-> None]
    /\ owed = {} /\ missed = {}
-----------------------------------------------------------------------------
(* Workers, the scheduler, the reaper and the API change jobs, one or many *)
(* (a promotion, a sweep) in a transaction.                                *)
Writable == {J \in (SUBSET Jobs) \ {{}} : Cardinality(J) <= Bulk}
Times == {t \in 1..clock + 1 : clock + 1 - t <= Lag}

(* The commit comes when the publisher has already looked past its time.   *)
Late(J, t) == {j \in J : last[ProjectOf[j]] # None /\ t <= last[ProjectOf[j]]}

Update == /\ clock < MaxTime /\ clock' = clock + 1
          /\ \E J \in Writable, t \in Times :
               /\ stamp' = [j \in Jobs |-> IF j \in J THEN t ELSE stamp[j]]
               /\ owed' = owed \cup {j \in J : ProjectOf[j] \in watched}
               /\ missed' = (missed \ J) \cup Late(J, t)
          /\ UNCHANGED <<watched, last, todo, now, failed>>
-----------------------------------------------------------------------------
(* The sockets.  The page behind one has just loaded its project.          *)
Connect(p) == /\ p \notin watched
              /\ watched' = watched \cup {p}
              /\ UNCHANGED <<clock, stamp, last, todo, now, failed, owed, missed>>

Disconnect(p) == /\ p \in watched
                 /\ watched' = watched \ {p}
                 /\ owed' = owed \ JobsOf(p)
                 /\ UNCHANGED <<clock, stamp, last, todo, now, failed, missed>>
-----------------------------------------------------------------------------
(* The publisher.  A tick without any socket ends before it forgets.       *)
TickStart ==
    /\ todo = {}
    /\ clock' = (IF clock < MaxTime THEN clock + 1 ELSE clock) /\ now' = clock'
    /\ todo' = watched
    /\ last' = [p \in Projects |-> IF watched = {} \/ p \in watched THEN last[p] ELSE None]
    /\ UNCHANGED <<stamp, watched, failed, owed, missed>>

FirstTime == now  \* mutant
FromNowOn == now - Window

(* What project p was last told about.                                     *)
Ago == IF now > Window THEN FromNowOn ELSE 0
Watermark(p) == IF last[p] = None THEN Ago ELSE last[p]

(* The first Cap rows above the watermark, in the order of updated_at,     *)
(* those of equal times in any order.                                      *)
Above(p) == {j \in JobsOf(p) : stamp[j] > Watermark(p)}
Page(p, rows) ==
    /\ rows \subseteq Above(p)
    /\ IF Cardinality(Above(p)) <= Cap THEN rows = Above(p)
       ELSE Cardinality(rows) = Cap /\ \A j \in rows, k \in Above(p) \ rows : stamp[j] <= stamp[k]

NowAnyway(rows) == now  \* mutant
AppClock(rows) == clock + 1  \* mutant
Resume(rows) == IF Cardinality(rows) = Cap
                THEN CHOOSE t \in {stamp[j] : j \in rows} : \A j \in rows : stamp[j] <= t
                ELSE now

Broadcast(p, rows) == owed' = IF p \in watched THEN owed \ rows ELSE owed

(* Rows that share the time of a row sent and did not go into the page.    *)
Torn(p, rows) == {j \in Above(p) \ rows : Cardinality(rows) = Cap /\ \E i \in rows : stamp[i] = stamp[j]}

(* Changes a first poll comes too late for.                                *)
TooOld(p) == {j \in JobsOf(p) : last[p] = None /\ stamp[j] + Window <= now}

(* One project of the tick.                                                *)
Poll(p) ==
    /\ p \in todo
    /\ \E rows \in SUBSET JobsOf(p) :
         /\ Page(p, rows) /\ Broadcast(p, rows)
         /\ last' = [last EXCEPT ![p] = Resume(rows)]
         /\ missed' = missed \cup ((Torn(p, rows) \cup TooOld(p)) \cap owed)
    /\ todo' = todo \ {p}
    /\ failed' = IF todo' = {} THEN 0 ELSE failed
    /\ UNCHANGED <<clock, stamp, watched, now>>

(* A query fails, before the jobs were sent or after: so does the tick.    *)
PollFails(p) ==
    /\ failed < Failures /\ p \in todo
    /\ \E rows \in SUBSET JobsOf(p) : (Page(p, rows) \/ rows = {}) /\ Broadcast(p, rows)
    /\ todo' = {} /\ failed' = failed + 1
    /\ UNCHANGED <<clock, stamp, watched, last, now, missed>>

FeedNext == \/ Update \/ TickStart
            \/ \E p \in Projects : Connect(p) \/ Disconnect(p) \/ Poll(p) \/ PollFails(p)

FeedSpec == FeedInit /\ [][FeedNext]_feedVars

(* The publisher keeps ticking.                                            *)
FeedFairness == WF_feedVars(TickStart) /\ \A p \in Projects : WF_feedVars(Poll(p) \/ PollFails(p))
FairFeedSpec == FeedSpec /\ FeedFairness
-----------------------------------------------------------------------------
FeedTypeOK ==
    /\ clock \in 1..MaxTime /\ now \in 1..clock
    /\ stamp \in [Jobs -> 1..clock]
    /\ watched \subseteq Projects /\ todo \subseteq Projects
    /\ last \in [Projects -> 0..clock \cup {None}]
    /\ failed \in 0..Failures
    /\ owed \subseteq {j \in Jobs : ProjectOf[j] \in watched} /\ missed \subseteq Jobs

(* Once the watermark has passed a change, every open page has been sent   *)
(* it: bursts above the cap, ticks that fail or are late, and reconnections*)
(* skip nothing, but for three kinds of change.  A comment in the code     *)
(* (ws/publisher.py:72) has no exception; these are lost for good:         *)
(* - Late: committed after the watermark had reached the start of its      *)
(*   transaction, which is what updated_at says;                           *)
(* - Torn: of a transaction of which only a part went into a full page;    *)
(* - TooOld: made more than Window before the first poll of its project.   *)
NothingSkipped == \A j \in owed :
    LET mark == last[ProjectOf[j]] IN mark # None /\ stamp[j] <= mark => j \in missed

(* An open page is sent every other change of its project's jobs in the    *)
(* end, without asking.                                                    *)
CatchesUp == \A j \in Jobs : j \in owed ~> j \notin owed \/ j \in missed
=============================================================================
