------------------------- MODULE CronSchedulesProofs --------------------------
(***************************************************************************)
(* CronInv is inductive, so that no slot is run twice unless a resume errs *)
(* and missed slots collapse, for any schedules, cron expressions,         *)
(* replicas, requests and clocks of their hosts.                           *)
(***************************************************************************)
EXTENDS CronSchedules, TLAPS

(* The next slot is a later one.                                           *)
LEMMA NextIsLater ==
  ASSUME NEW s \in Schedules, NEW t \in Time
  PROVE  get_next(s, t) \in Nat \ {0} /\ get_next(s, t) > t
  <1>1. \E u \in Slots[s] : IsNext(s, t, u) /\ u \in Nat
    BY CronAssumption DEF CronAssumption
  <1>2. get_next(s, t) \in Slots[s] /\ IsNext(s, t, get_next(s, t))
    BY <1>1 DEF get_next
  <1>3. get_next(s, t) \in Nat /\ t \in Nat
    BY <1>2, CronAssumption DEF CronAssumption, Time
  <1> QED BY <1>2, <1>3 DEF IsNext

(* MaxTime and Behind are numbers.                                         *)
LEMMA TimeIsNat == MaxTime \in Nat /\ Behind \in Nat
  BY CronAssumption DEF CronAssumption

(* What an open request has read and computed.                             *)
LEMMA RequestType ==
  ASSUME TypeOK, NEW q \in Requests
  PROVE  /\ resuming[q] \in Resumes
         /\ resuming[q].at \in {"loaded", "decided"} =>
              resuming[q].sched \in Schedules /\ resuming[q].was \in Nat /\ resuming[q].overtaken \in BOOLEAN
         /\ resuming[q].at = "decided" => resuming[q].to \in Nat \ {0} /\ resuming[q].behind \in BOOLEAN
  BY DEF TypeOK, Resumes, NoRequest

(* The clock starts at 0, before every next_run_at, and nothing has run.   *)
LEMMA CronInit == ASSUME Init PROVE CronInv
  <1> USE TimeIsNat DEF Time
  <1>1. TypeOK
    <2>1. resuming \in [Requests -> Resumes]
      BY DEF Init, Resumes
    <2> QED BY <2>1 DEF Init, TypeOK, Idle
  <1>2. OneTick /\ \A r \in Replicas : DueIn(r) = {}
    BY DEF Init, OneTick, DueIn, Idle
  <1>3. ASSUME NEW s \in Schedules PROVE RowInv(s)
    <2>1. \A u \in Time : spawned[s][u] = 0 /\ again[s][u] = 0
      BY DEF Init
    <2>2. \A n : FreshFrom(s, n) /\ OpenFrom(s, n)
      BY <2>1 DEF FreshFrom, OpenFrom
    <2>3. served[s] = 0 /\ next[s] = 1 /\ clock = 0
      BY DEF Init
    <2> QED BY <2>1, <2>2, <2>3 DEF RowInv
  <1>4. \A q \in Requests : ResumeInv(resuming[q])
    BY DEF Init, NoRequest, ResumeInv
  <1> QED BY <1>1, <1>2, <1>3, <1>4 DEF CronInv

(* Creating, pausing and deleting a template disturbs no other; nothing has*)
(* been run of one that is created.                                        *)
LEMMA RequestKeeps ==
  ASSUME CronInv, NEW s \in Schedules, CreateSchedule(s) \/ Pause(s) \/ Delete(s)
  PROVE  CronInv'
  <1> USE TimeIsNat DEF Time
  <1>0. TypeOK /\ OneTick /\ (\A z \in Schedules : RowInv(z)) /\ clock \in Time
    BY DEF CronInv, TypeOK
  <1>1. UNCHANGED <<clock, tick, resuming, history>> /\ (\A z \in Schedules \ {s} : next'[z] = next[z] /\ row'[z] = row[z])
    BY <1>0 DEF TypeOK, CreateSchedule, Pause, Delete
  <1>2. UNCHANGED <<spawned, served, again, errant>>
    BY <1>1 DEF history
  <1>3. \/ /\ row[s] = "unborn" /\ next'[s] \in Nat \ {0} /\ next'[s] + Behind > clock /\ row'[s] = "active"
           /\ next' \in [Schedules -> Nat \ {0}]
        \/ next' = next /\ row[s] # "unborn" /\ row'[s] \in {"paused", "deleted"}
    <2>1. CASE CreateSchedule(s)
      <3>1. PICK t \in HostTimes : next' = [next EXCEPT ![s] = get_next(s, t)]
        BY <2>1 DEF CreateSchedule
      <3>2. t \in Time /\ clock <= t + Behind /\ get_next(s, t) \in Nat \ {0} /\ get_next(s, t) > t
        BY <3>1, NextIsLater DEF HostTimes
      <3> QED BY <1>0, <2>1, <3>1, <3>2 DEF CreateSchedule, TypeOK
    <2>2. CASE Pause(s) BY <1>0, <2>2 DEF Pause, TypeOK
    <2>3. CASE Delete(s) BY <1>0, <2>3 DEF Delete, TypeOK
    <2> QED BY <2>1, <2>2, <2>3
  <1>4. TypeOK'
    <2>1. row' \in [Schedules -> {"unborn", "active", "paused", "deleted"}]
      BY <1>0 DEF TypeOK, CreateSchedule, Pause, Delete
    <2>2. next' \in [Schedules -> Nat \ {0}]
      BY <1>0, <1>3 DEF TypeOK
    <2> QED BY <1>0, <1>1, <1>2, <2>1, <2>2 DEF TypeOK
  <1>5. OneTick' /\ \A r \in Replicas : DueIn(r)' = DueIn(r)
    BY <1>0, <1>1 DEF OneTick, DueIn
  <1>6. ASSUME NEW z \in Schedules PROVE RowInv(z)'
    <2>1. CASE z # s
      BY <1>0, <1>1, <1>2, <2>1 DEF RowInv, FreshFrom, OpenFrom
    <2>2. CASE z = s /\ row[s] = "unborn"
      <3>1. next'[s] \in Nat \ {0} /\ next'[s] + Behind > clock /\ row'[s] = "active"
        BY <1>3, <2>2
      <3>2. served[s] \in Nat /\ served[s] <= clock /\ FreshFrom(s, 0)
        BY <1>0, <2>2 DEF RowInv, TypeOK
      <3>3. \A u \in Time : spawned[s][u] = 0 /\ again[s][u] \in Nat
        <4>1. \A u \in Time : u >= 0 /\ again[s][u] \in Nat
          BY <1>0 DEF TypeOK
        <4> QED BY <3>2, <4>1 DEF FreshFrom
      <3> QED BY <1>0, <1>1, <1>2, <2>2, <3>1, <3>2, <3>3 DEF RowInv, FreshFrom, OpenFrom
    <2>3. CASE z = s /\ row[s] # "unborn"
      BY <1>0, <1>1, <1>2, <1>3, <2>3 DEF RowInv, FreshFrom, OpenFrom
    <2> QED BY <2>1, <2>2, <2>3
  <1>7. ASSUME NEW r \in Replicas, NEW z \in DueIn(r) PROVE DueInv(r, z)'
    <2>1. DueInv(r, z) /\ z \in Schedules
      BY DEF CronInv, DueIn
    <2>2. row'[z] # "unborn"
      BY <1>1, <1>3, <2>1 DEF DueInv
    <2> QED BY <1>1, <1>2, <2>1, <2>2 DEF DueInv, OpenFrom
  <1>8. ASSUME NEW q \in Requests PROVE ResumeInv(resuming[q])'
    <2>1. ResumeInv(resuming[q])
      BY DEF CronInv
    <2>2. resuming[q].at \in {"loaded", "decided"} /\ ~resuming[q].overtaken =>
            row'[resuming[q].sched] \in {"paused", "deleted"}
      BY <1>0, <1>1, <1>3, <2>1, RequestType DEF ResumeInv
    <2>3. DecidedInv(resuming[q]) => DecidedInv(resuming[q])'
      BY <1>1, <1>2, <1>5 DEF DecidedInv, FreshFrom
    <2> QED BY <1>1, <2>1, <2>2, <2>3 DEF ResumeInv
  <1> QED BY <1>4, <1>5, <1>6, <1>7, <1>8 DEF CronInv

(* A resume that has read a paused row, or has computed its next slot by a *)
(* clock that is behind the database's by no more than it may.             *)
LEMMA ResumeKeeps ==
  ASSUME CronInv, NEW q \in Requests, (\E s \in Schedules : ResumeLoad(q, s)) \/ ResumeDecide(q)
  PROVE  CronInv'
  <1> USE TimeIsNat DEF Time
  <1>0. TypeOK /\ OneTick /\ (\A z \in Schedules : RowInv(z)) /\ clock \in Time
    BY DEF CronInv, TypeOK
  <1>1. UNCHANGED <<clock, row, next, tick, spawned, served, again, errant>>
    BY DEF ResumeLoad, ResumeDecide, history
  <1>2. OneTick' /\ \A r \in Replicas : DueIn(r)' = DueIn(r)
    BY <1>0, <1>1 DEF OneTick, DueIn
  <1>3. \A s \in Schedules : RowInv(s)'
    BY <1>0, <1>1 DEF RowInv, FreshFrom, OpenFrom
  <1>4. \A r \in Replicas : \A s \in DueIn(r) : DueInv(r, s) /\ DueInv(r, s)'
    BY <1>1 DEF CronInv, DueInv, OpenFrom
  <1>5. /\ \A p \in Requests \ {q} : resuming'[p] = resuming[p]
        /\ resuming'[q] \in Resumes /\ resuming' = [resuming EXCEPT ![q] = resuming'[q]]
        /\ ResumeInv(resuming[q])'
    <2>1. ASSUME NEW s \in Schedules, ResumeLoad(q, s) PROVE <1>5
      <3> DEFINE new == [at |-> "loaded", sched |-> s, was |-> next[s], overtaken |-> FALSE]
      <3>1. resuming' = [resuming EXCEPT ![q] = new] /\ row[s] = "paused"
        BY <2>1 DEF ResumeLoad
      <3>2. new \in Resumes
        BY <1>0 DEF TypeOK, Resumes
      <3>3. resuming'[q] = new /\ \A p \in Requests \ {q} : resuming'[p] = resuming[p]
        BY <1>0, <3>1 DEF TypeOK
      <3>4. resuming'[q].at = "loaded" /\ row'[resuming'[q].sched] = "paused"
        BY <1>1, <3>1, <3>3
      <3>5. ResumeInv(resuming[q])'
        BY <3>4 DEF ResumeInv
      <3> QED BY <3>1, <3>2, <3>3, <3>5
    <2>2. CASE ResumeDecide(q)
      <3> DEFINE rq == resuming[q]
                 s == rq.sched
      <3>1. PICK t \in HostTimes : resuming' = [resuming EXCEPT ![q] =
               [at |-> "decided", sched |-> rq.sched, was |-> rq.was, overtaken |-> rq.overtaken,
                to |-> get_next(rq.sched, t), behind |-> t < clock]]
        BY <2>2 DEF ResumeDecide
      <3> DEFINE n == get_next(s, t)
                 new == [at |-> "decided", sched |-> s, was |-> rq.was, overtaken |-> rq.overtaken,
                         to |-> n, behind |-> t < clock]
      <3>2. /\ rq.at = "loaded" /\ s \in Schedules /\ rq.was \in Nat /\ rq.overtaken \in BOOLEAN
            /\ ResumeInv(rq)
        BY <1>0, <2>2, RequestType DEF ResumeDecide, CronInv
      <3>3. /\ t \in Time /\ t <= clock /\ clock <= t + Behind
            /\ n \in Nat \ {0} /\ n > t
        BY <3>2, NextIsLater DEF HostTimes
      <3> HIDE DEF n
      <3>4. new \in Resumes
        BY <3>2, <3>3 DEF Resumes
      <3>5. resuming'[q] = new /\ \A p \in Requests \ {q} : resuming'[p] = resuming[p]
        BY <1>0, <3>1 DEF TypeOK, n
      <3>6. RowInv(s) /\ served[s] \in Nat
        BY <1>0, <3>2 DEF TypeOK
      <3>7. n + Behind > served[s]
        BY <1>0, <3>3, <3>6 DEF RowInv
      <3>8. ~(t < clock) => FreshFrom(s, n)
        BY <1>0, <3>3, <3>6 DEF RowInv, FreshFrom
      <3>9. ASSUME NEW r \in Replicas, s \in DueIn(r)
            PROVE  n + Behind > tick[r].at /\ (~(t < clock) => n > tick[r].at)
        <4>1. tick[r].at \in Nat /\ tick[r].at <= clock
          BY <1>0, <1>4, <3>9 DEF DueInv, TypeOK
        <4> QED BY <1>0, <3>3, <4>1
      <3>10. /\ resuming'[q].at = "decided" /\ resuming'[q].sched = s /\ resuming'[q].to = n
             /\ resuming'[q].behind = (t < clock) /\ resuming'[q].overtaken = rq.overtaken
        BY <3>5
      <3>11. DecidedInv(resuming[q])'
        BY <1>1, <1>2, <3>7, <3>8, <3>9, <3>10 DEF DecidedInv, FreshFrom
      <3>12. ~rq.overtaken => row[s] \in {"paused", "deleted"}
        BY <3>2 DEF ResumeInv
      <3>13. ResumeInv(resuming[q])'
        <4> HIDE DEF rq, s
        <4> QED BY <1>1, <3>10, <3>11, <3>12 DEF ResumeInv
      <3> QED BY <3>1, <3>4, <3>5, <3>13 DEF n
    <2> QED BY <2>1, <2>2
  <1>6. TypeOK'
    BY <1>0, <1>1, <1>5 DEF TypeOK
  <1>7. ASSUME NEW p \in Requests \ {q} PROVE ResumeInv(resuming[p])'
    <2>1. ResumeInv(resuming[p]) /\ resuming'[p] = resuming[p]
      BY <1>5 DEF CronInv
    <2>2. DecidedInv(resuming[p]) => DecidedInv(resuming[p])'
      BY <1>1, <1>2, <2>1 DEF DecidedInv, FreshFrom
    <2> QED BY <1>1, <2>1, <2>2 DEF ResumeInv
  <1> QED BY <1>2, <1>3, <1>4, <1>5, <1>6, <1>7 DEF CronInv

(* A resume writes.  If it is not overtaken and its clock is right, nothing*)
(* from its slot on has been run; if it is, its error is counted.          *)
LEMMA WriteKeeps == ASSUME CronInv, NEW q \in Requests, ResumeWrite(q) PROVE CronInv'
  <1> USE TimeIsNat DEF Time
  <1> DEFINE rq == resuming[q]
             s == rq.sched
  <1>0. /\ TypeOK /\ OneTick /\ (\A z \in Schedules : RowInv(z)) /\ clock \in Time
        /\ rq.at = "decided" /\ s \in Schedules /\ ResumeInv(rq)
        /\ rq.was \in Nat /\ rq.to \in Nat \ {0} /\ rq.overtaken \in BOOLEAN /\ rq.behind \in BOOLEAN
    BY RequestType DEF CronInv, TypeOK, ResumeWrite
  <1>1. UNCHANGED <<clock, tick, spawned, served>>
    BY DEF ResumeWrite
  <1>2. OneTick' /\ \A r \in Replicas : DueIn(r)' = DueIn(r)
    BY <1>0, <1>1 DEF OneTick, DueIn
  <1>3. CASE row[s] = "deleted"
    <2>1. resuming' = [resuming EXCEPT ![q] = [at |-> "done"]] /\ UNCHANGED <<row, next, again, errant>>
      BY <1>3 DEF ResumeWrite
    <2>2. TypeOK'
      BY <1>0, <1>1, <2>1 DEF TypeOK, Resumes
    <2>3. \A z \in Schedules : RowInv(z)'
      BY <1>0, <1>1, <2>1 DEF RowInv, FreshFrom, OpenFrom
    <2>4. \A r \in Replicas : \A z \in DueIn(r) : DueInv(r, z)'
      BY <1>1, <2>1 DEF CronInv, DueInv, OpenFrom
    <2>5. ASSUME NEW p \in Requests PROVE ResumeInv(resuming[p])'
      <3>1. CASE p = q
        <4>1. resuming'[p].at = "done"
          BY <1>0, <2>1, <3>1 DEF TypeOK
        <4> QED BY <4>1 DEF ResumeInv
      <3>2. CASE p # q
        <4>1. ResumeInv(resuming[p]) /\ resuming'[p] = resuming[p]
          BY <1>0, <2>1, <3>2 DEF CronInv, TypeOK
        <4>2. DecidedInv(resuming[p]) => DecidedInv(resuming[p])'
          BY <1>1, <1>2, <2>1, <4>1 DEF DecidedInv, FreshFrom
        <4> QED BY <2>1, <4>1, <4>2 DEF ResumeInv
      <3> QED BY <3>1, <3>2
    <2> QED BY <1>2, <2>2, <2>3, <2>4, <2>5 DEF CronInv
  <1>4. CASE row[s] # "deleted"
    <2> DEFINE n == NextOf(rq)
    <2>1. /\ row' = [row EXCEPT ![s] = "active"] /\ next' = [next EXCEPT ![s] = n]
          /\ resuming' = [p \in Requests |-> IF p = q THEN [at |-> "done"] ELSE Overtake(p, s)]
          /\ again' = [again EXCEPT ![s] = [t \in Time |->
                 IF Errs(rq) /\ n <= t /\ t < next[s] /\ spawned[s][t] > 0 THEN @[t] + 1 ELSE @[t]]]
          /\ errant' = IF rq.to = rq.was THEN errant ELSE IF rq.overtaken THEN errant \cup {s} ELSE errant \ {s}
      BY <1>4 DEF ResumeWrite
    <2>2. n \in Nat \ {0} /\ (IF rq.to = rq.was THEN n = next[s] ELSE n = rq.to)
      <3>1. next[s] \in Nat \ {0} BY <1>0 DEF TypeOK
      <3> QED BY <1>0, <3>1 DEF NextOf
    <2> HIDE DEF n
    <2>3. \A p \in Requests : Overtake(p, s) \in Resumes
      <3> SUFFICES ASSUME NEW p \in Requests
                   PROVE  Overtake(p, s) \in Resumes
        OBVIOUS
      <3> DEFINE rp == resuming[p]
      <3>1. rp \in Resumes
        BY <1>0, RequestType
      <3>2. CASE rp \in [at : {"loaded"}, sched : Schedules, was : Nat, overtaken : BOOLEAN]
        <4>1. [rp EXCEPT !.overtaken = TRUE] \in [at : {"loaded"}, sched : Schedules, was : Nat, overtaken : BOOLEAN]
          BY <3>2
        <4> QED BY <3>1, <4>1 DEF Overtake, Resumes
      <3>3. CASE rp \in [at : {"decided"}, sched : Schedules, was : Nat, overtaken : BOOLEAN, to : Nat \ {0}, behind : BOOLEAN]
        <4>1. [rp EXCEPT !.overtaken = TRUE] \in [at : {"decided"}, sched : Schedules, was : Nat, overtaken : BOOLEAN,
                                                  to : Nat \ {0}, behind : BOOLEAN]
          BY <3>3
        <4> QED BY <3>1, <4>1 DEF Overtake, Resumes
      <3>4. CASE rp \in {NoRequest, [at |-> "done"]}
        <4>1. rp.at \notin {"loaded", "decided"}
          BY <3>4 DEF NoRequest
        <4> QED BY <3>1, <4>1 DEF Overtake
      <3> QED BY <3>1, <3>2, <3>3, <3>4 DEF Resumes
    <2>4. ASSUME NEW t \in Time
          PROVE /\ spawned[s][t] \in Nat /\ again[s][t] \in Nat
                /\ again'[s][t] = IF Errs(rq) /\ n <= t /\ t < next[s] /\ spawned[s][t] > 0
                                  THEN again[s][t] + 1 ELSE again[s][t]
      BY <1>0, <2>1 DEF TypeOK
    <2>5. again' \in [Schedules -> [Time -> Nat]]
      <3>1. [t \in Time |-> IF Errs(rq) /\ n <= t /\ t < next[s] /\ spawned[s][t] > 0
                            THEN again[s][t] + 1 ELSE again[s][t]] \in [Time -> Nat]
        BY <2>4
      <3> QED BY <1>0, <2>1, <3>1 DEF TypeOK
    <2>6. TypeOK'
      BY <1>0, <1>1, <2>1, <2>2, <2>3, <2>5 DEF TypeOK, Resumes
    <2>7. ASSUME NEW z \in Schedules PROVE RowInv(z)'
      <3>1. CASE z # s
        <4>1. next'[z] = next[z] /\ row'[z] = row[z] /\ again'[z] = again[z] /\ (z \in errant' <=> z \in errant)
          BY <1>0, <2>1, <3>1 DEF TypeOK
        <4> QED BY <1>0, <1>1, <4>1 DEF RowInv, FreshFrom, OpenFrom
      <3>2. CASE z = s
        <4>1. next'[z] = n /\ row'[z] = "active"
          BY <1>0, <2>1, <3>2 DEF TypeOK
        <4>2. RowInv(z)
          BY <1>0
        <4>3. ~Errs(rq) /\ n # next[z] => FreshFrom(z, n)
          BY <3>2, <1>0, <2>2 DEF Errs, ResumeInv, DecidedInv
        <4>4. ASSUME NEW u \in Time, u >= n PROVE spawned[z][u] <= again'[z][u]
          <5>1. CASE u >= next[z] BY <3>2, <4>2, <2>4, <5>1 DEF RowInv, OpenFrom
          <5>2. CASE u < next[z] /\ Errs(rq) /\ spawned[z][u] > 0
            BY <3>2, <4>2, <2>4, <4>4, <5>2, <2>2 DEF RowInv
          <5>3. CASE spawned[z][u] = 0 BY <3>2, <2>4, <5>3
          <5>4. CASE u < next[z] /\ ~Errs(rq)
            <6>1. spawned[z][u] = 0
              BY <3>2, <4>3, <4>4, <5>4, <2>2 DEF FreshFrom
            <6> QED BY <3>2, <2>4, <6>1
          <5>5. next[z] \in Nat /\ spawned[z][u] \in Nat
            BY <3>2, <1>0 DEF TypeOK
          <5> QED BY <3>2, <5>1, <5>2, <5>3, <5>4, <5>5
        <4>5. \A t \in Time : spawned[z][t] <= 1 + again'[z][t]
          BY <3>2, <4>2, <2>4 DEF RowInv
        <4>6. z \notin errant' => n + Behind > served[z]
          <5>1. CASE rq.to = rq.was BY <3>2, <2>1, <2>2, <4>2, <5>1 DEF RowInv
          <5>2. CASE rq.to # rq.was /\ rq.overtaken BY <3>2, <2>1, <5>2
          <5>3. CASE rq.to # rq.was /\ ~rq.overtaken
            <6>1. rq.to + Behind > served[z] BY <3>2, <1>0, <5>3 DEF ResumeInv, DecidedInv
            <6>2. n = rq.to BY <2>2, <5>3
            <6> QED BY <6>1, <6>2
          <5> QED BY <3>2, <5>1, <5>2, <5>3, <1>0
        <4>7. FreshFrom(z, clock + 1) /\ served[z] <= clock
          BY <3>2, <4>2 DEF RowInv
        <4>8. OpenFrom(z, next[z])'
          BY <3>2, <1>1, <4>1, <4>4 DEF OpenFrom
        <4>9. FreshFrom(z, clock + 1)'
          BY <3>2, <1>1, <4>7 DEF FreshFrom
        <4> QED BY <1>1, <4>1, <4>5, <4>6, <4>7, <4>8, <4>9 DEF RowInv
      <3> QED BY <3>1, <3>2
    <2>8. ASSUME NEW r \in Replicas, NEW z \in DueIn(r) PROVE DueInv(r, z)'
      <3>1. DueInv(r, z) /\ z \in Schedules
        BY DEF CronInv, DueIn
      <3>2. row'[z] # "unborn"
        BY <1>0, <2>1, <3>1 DEF TypeOK, DueInv
      <3>3. \A u \in Time : spawned[z][u] \in Nat /\ again[z][u] \in Nat /\ again'[z][u] \in Nat
                             /\ again'[z][u] >= again[z][u]
        <4>1. CASE z = s BY <2>4, <4>1
        <4>2. CASE z # s
          <5>1. again'[z] = again[z] BY <1>0, <2>1, <3>1, <4>2 DEF TypeOK
          <5>2. spawned[z] \in [Time -> Nat] /\ again[z] \in [Time -> Nat]
            BY <1>0, <3>1 DEF TypeOK
          <5> QED BY <5>1, <5>2
        <4> QED BY <4>1, <4>2
      <3>4. OpenFrom(z, tick[r].slot[z])'
        BY <1>1, <3>1, <3>3 DEF DueInv, OpenFrom
      <3> QED BY <1>1, <3>1, <3>2, <3>4 DEF DueInv
    <2>9. ASSUME NEW p \in Requests PROVE ResumeInv(resuming[p])'
      <3>1. CASE p = q
        <4>1. resuming'[p].at = "done"
          BY <2>1, <3>1
        <4> QED BY <4>1 DEF ResumeInv
      <3>2. CASE p # q /\ resuming[p].at \in {"loaded", "decided"} /\ resuming[p].sched = s
        <4>1. resuming'[p] = [resuming[p] EXCEPT !.overtaken = TRUE]
          BY <2>1, <3>2 DEF Overtake
        <4>2. resuming'[p].overtaken
          <5>1. resuming[p] \in Resumes BY RequestType, <1>0
          <5> QED BY <3>2, <4>1, <5>1 DEF Resumes, NoRequest
        <4> QED BY <4>2 DEF ResumeInv
      <3>3. CASE p # q /\ resuming[p].at \in {"loaded", "decided"} /\ resuming[p].sched # s
        <4>1. ResumeInv(resuming[p]) /\ resuming'[p] = resuming[p] /\ resuming[p].sched \in Schedules
          BY <1>0, <2>1, <3>3, RequestType DEF CronInv, Overtake
        <4>2. row'[resuming[p].sched] = row[resuming[p].sched]
          BY <1>0, <2>1, <3>3, <4>1 DEF TypeOK
        <4>3. DecidedInv(resuming[p]) => DecidedInv(resuming[p])'
          BY <1>1, <1>2, <4>1 DEF DecidedInv, FreshFrom
        <4> QED BY <4>1, <4>2, <4>3 DEF ResumeInv
      <3>4. CASE p # q /\ resuming[p].at \notin {"loaded", "decided"}
        <4>1. resuming'[p] = resuming[p]
          BY <2>1, <3>4 DEF Overtake
        <4> QED BY <3>4, <4>1 DEF ResumeInv
      <3> QED BY <3>1, <3>2, <3>3, <3>4
    <2> QED BY <1>2, <2>6, <2>7, <2>8, <2>9 DEF CronInv
  <1> QED BY <1>3, <1>4

(* Reading the due rows: no resume that was not overtaken is about one.    *)
LEMMA ReadKeeps == ASSUME CronInv, NEW r \in Replicas, ReadDue(r) PROVE CronInv'
  <1> USE TimeIsNat DEF Time
  <1>0. TypeOK /\ clock \in Time /\ (\A s \in Schedules : RowInv(s) /\ next[s] \in Nat)
    BY DEF CronInv, TypeOK
  <1> DEFINE new == [phase |-> "read", at |-> clock, now |-> 0,
                     slot |-> [s \in Schedules |-> IF Due(s) THEN next[s] ELSE 0]]
  <1>1. tick' = [tick EXCEPT ![r] = new] /\ UNCHANGED <<clock, row, next, resuming, spawned, served, again, errant>>
    BY DEF ReadDue, history
  <1>2. \A s \in Schedules : Due(s) => next[s] \in Time
    BY <1>0 DEF Due, Time
  <1>3. new \in [phase : {"idle", "read", "decided"}, slot : [Schedules -> Time], at : Time, now : Time]
    BY <1>0, <1>2
  <1>4. TypeOK'
    BY <1>0, <1>1, <1>3 DEF TypeOK
  <1>5. tick'[r] = new /\ \A q \in Replicas : q # r => tick'[q] = tick[q]
    BY <1>0, <1>1 DEF TypeOK
  <1>6. \A q \in Replicas : q # r => tick[q].phase = "idle" /\ DueIn(q) = {}
    BY DEF ReadDue, Leaderless, CronInv, OneTick
  <1>7. OneTick'
    BY <1>5, <1>6 DEF OneTick, DueIn
  <1>8. \A s \in Schedules : RowInv(s)'
    BY <1>0, <1>1 DEF RowInv, FreshFrom, OpenFrom
  <1>9. ASSUME NEW q \in Replicas, NEW s \in DueIn(q)' PROVE DueInv(q, s)' /\ row[s] = "active"
    <2>1. q = r /\ s \in Schedules
      BY <1>5, <1>6, <1>9 DEF DueIn
    <2>2. Due(s) /\ tick'[q].slot[s] = next[s] /\ tick'[q].at = clock /\ tick'[q].phase = "read"
      BY <1>5, <2>1, <1>9 DEF DueIn
    <2> QED BY <1>0, <1>1, <2>1, <2>2 DEF DueInv, RowInv, OpenFrom, Due
  <1>10. ASSUME NEW q \in Requests PROVE ResumeInv(resuming[q])'
    <2>1. ResumeInv(resuming[q])
      BY DEF CronInv
    <2>2. ASSUME resuming[q].at = "decided", ~resuming[q].overtaken PROVE DecidedInv(resuming[q])'
      <3>1. DecidedInv(resuming[q]) /\ row[resuming[q].sched] # "active"
        BY <2>1, <2>2 DEF ResumeInv
      <3>2. \A p \in Replicas : resuming[q].sched \notin DueIn(p)'
        BY <1>9, <3>1
      <3> QED BY <1>1, <3>1, <3>2 DEF DecidedInv, FreshFrom
    <2> QED BY <1>1, <2>1, <2>2 DEF ResumeInv
  <1> QED BY <1>4, <1>7, <1>8, <1>9, <1>10 DEF CronInv

(* Asking for the time, giving up and the clock.                           *)
LEMMA ClockKeeps ==
  ASSUME CronInv, Tock \/ \E r \in Replicas : AskClock(r) \/ Abort(r)
  PROVE  CronInv'
  <1> USE TimeIsNat DEF Time
  <1>0. TypeOK /\ OneTick /\ clock \in Time /\ (\A s \in Schedules : RowInv(s))
    BY DEF CronInv, TypeOK
  <1>1. UNCHANGED <<row, next, resuming, spawned, served, again, errant>> /\ clock' \in Time /\ clock' >= clock
    BY <1>0 DEF Tock, AskClock, Abort, history
  <1>2. TypeOK'
    <2>1. CASE Tock BY <1>0, <1>1, <2>1 DEF Tock, TypeOK
    <2>2. ASSUME NEW r \in Replicas, AskClock(r) PROVE TypeOK'
      <3>1. PICK t \in HostTimes : tick' = [tick EXCEPT ![r].now = t, ![r].phase = "decided"]
        BY <2>2 DEF AskClock
      <3>2. [tick[r] EXCEPT !.now = t, !.phase = "decided"]
              \in [phase : {"idle", "read", "decided"}, slot : [Schedules -> Time], at : Time, now : Time]
        <4>1. t \in Time
          BY <3>1 DEF HostTimes
        <4>2. tick[r] \in [phase : {"idle", "read", "decided"}, slot : [Schedules -> Time], at : Time, now : Time]
          BY <1>0 DEF TypeOK
        <4> QED BY <4>1, <4>2
      <3> QED BY <1>0, <1>1, <3>1, <3>2 DEF TypeOK
    <2>3. ASSUME NEW r \in Replicas, Abort(r) PROVE TypeOK'
      <3>1. Idle \in [phase : {"idle", "read", "decided"}, slot : [Schedules -> Time], at : Time, now : Time]
        BY DEF Idle
      <3> QED BY <1>0, <1>1, <2>3, <3>1 DEF Abort, TypeOK
    <2> QED BY <2>1, <2>2, <2>3
  <1>3. ASSUME NEW s \in Schedules PROVE RowInv(s)'
    <2>1. FreshFrom(s, clock + 1)'
      <3>1. FreshFrom(s, clock + 1) BY <1>0 DEF RowInv
      <3>2. clock \in Nat /\ clock' \in Nat /\ clock' >= clock BY <1>0, <1>1
      <3>3. ASSUME NEW u \in Nat, u >= clock' + 1 PROVE u >= clock + 1 /\ u >= clock' + 1
        <4>1. \A a, b \in Nat : b >= a /\ u >= b + 1 => u >= a + 1 OBVIOUS
        <4> QED BY <3>2, <3>3, <4>1
      <3>4. \A u \in Time : u \in Nat OBVIOUS
      <3> QED BY <1>1, <3>1, <3>3, <3>4 DEF FreshFrom
    <2>2. served[s] \in Nat BY <1>0 DEF TypeOK
    <2>3. served[s] <= clock'
      BY <1>0, <1>1, <2>2 DEF RowInv
    <2>4. RowInv(s) /\ (FreshFrom(s, 0) => FreshFrom(s, 0)') /\ (OpenFrom(s, next[s]) => OpenFrom(s, next[s])')
      BY <1>0, <1>1 DEF FreshFrom, OpenFrom
    <2> QED BY <1>1, <2>1, <2>3, <2>4 DEF RowInv
  <1>4. \A q \in Replicas : \/ /\ tick'[q].slot = tick[q].slot /\ tick'[q].at = tick[q].at
                               /\ (tick'[q].phase = "idle" <=> tick[q].phase = "idle")
                               /\ tick'[q].phase = "decided" =>
                                    \/ tick[q].phase = "decided" /\ tick'[q].now = tick[q].now
                                    \/ clock <= tick'[q].now + Behind
                            \/ tick'[q] = Idle
    <2>1. CASE Tock BY <2>1 DEF Tock
    <2>2. ASSUME NEW r \in Replicas, AskClock(r) PROVE <1>4
      <3>1. PICK t \in HostTimes : tick' = [tick EXCEPT ![r].now = t, ![r].phase = "decided"]
        BY <2>2 DEF AskClock
      <3>2. t \in Time /\ clock <= t + Behind /\ tick[r].phase = "read"
        BY <2>2, <3>1 DEF AskClock, HostTimes
      <3>3. tick'[r] = [tick[r] EXCEPT !.now = t, !.phase = "decided"] /\ \A q \in Replicas \ {r} : tick'[q] = tick[q]
        BY <1>0, <3>1 DEF TypeOK
      <3>4. tick'[r].slot = tick[r].slot /\ tick'[r].at = tick[r].at /\ tick'[r].now = t /\ tick'[r].phase = "decided"
        BY <1>0, <3>3 DEF TypeOK
      <3> QED BY <3>2, <3>3, <3>4
    <2>3. ASSUME NEW r \in Replicas, Abort(r) PROVE <1>4
      BY <1>0, <2>3 DEF Abort, TypeOK
    <2> QED BY <2>1, <2>2, <2>3
  <1>5. ASSUME NEW q \in Replicas
        PROVE \/ DueIn(q)' = {} /\ tick'[q] = Idle
              \/ /\ DueIn(q)' = DueIn(q) /\ tick'[q].slot = tick[q].slot /\ tick'[q].at = tick[q].at
                 /\ (tick'[q].phase = "idle" <=> tick[q].phase = "idle")
    <2>1. CASE tick'[q] = Idle
      <3>1. \A s \in Schedules : tick'[q].slot[s] = 0 BY <2>1 DEF Idle
      <3> QED BY <2>1, <3>1 DEF DueIn
    <2>2. CASE tick'[q] # Idle
      <3>1. tick'[q].slot = tick[q].slot BY <1>4, <2>2
      <3>2. DueIn(q)' = DueIn(q) BY <3>1 DEF DueIn
      <3> QED BY <1>4, <2>2, <3>1, <3>2
    <2> QED BY <2>1, <2>2
  <1>6. OneTick'
    <2>1. \A q \in Replicas : tick'[q].phase # "idle" =>
            tick[q].phase # "idle" /\ tick'[q] # Idle
      BY <1>5 DEF Idle
    <2>2. \A q \in Replicas : tick'[q].phase = "idle" => DueIn(q)' = {}
      BY <1>0, <1>5 DEF OneTick
    <2> QED BY <1>0, <2>1, <2>2 DEF OneTick
  <1>7. ASSUME NEW q \in Replicas, NEW s \in DueIn(q)' PROVE DueInv(q, s)'
    <2>1. s \in DueIn(q) /\ DueInv(q, s) /\ tick'[q].slot = tick[q].slot /\ tick'[q].at = tick[q].at /\ s \in Schedules
      BY <1>5, <1>7 DEF CronInv, DueIn
    <2>2. tick[q].at \in Nat /\ tick[q].at <= clock /\ clock \in Nat /\ tick[q].slot[s] > 0
      BY <1>0, <2>1 DEF DueInv, TypeOK, DueIn
    <2>3. tick'[q].phase = "decided" => tick[q].at <= tick'[q].now + Behind
      <3>1. tick'[q] # Idle BY <2>1, <2>2 DEF Idle
      <3>2. tick'[q].now \in Nat BY <1>2 DEF TypeOK
      <3> QED BY <1>4, <2>1, <2>2, <3>1, <3>2 DEF DueInv
    <2> QED BY <1>1, <2>1, <2>2, <2>3 DEF DueInv, OpenFrom
  <1>8. ASSUME NEW q \in Requests PROVE ResumeInv(resuming[q])'
    <2>1. ResumeInv(resuming[q])
      BY DEF CronInv
    <2>2. DecidedInv(resuming[q]) => DecidedInv(resuming[q])'
      BY <1>1, <1>5 DEF DecidedInv, FreshFrom
    <2> QED BY <1>1, <2>1, <2>2 DEF ResumeInv
  <1> QED BY <1>2, <1>3, <1>6, <1>7, <1>8 DEF CronInv

(* The commit runs slots that may be run, and moves the templates past     *)
(* them; what a resume computed is later than the slot.                    *)
LEMMA CommitKeeps == ASSUME CronInv, NEW r \in Replicas, Commit(r) PROVE CronInv'
  <1> USE TimeIsNat DEF Time
  <1>0. TypeOK /\ clock \in Time /\ (\A s \in Schedules : RowInv(s))
    BY DEF CronInv, TypeOK
  <1>1. clock' = clock /\ resuming' = resuming /\ again' = again
    BY DEF Commit
  <1>2. tick'[r] = Idle /\ \A q \in Replicas : q # r => tick'[q] = tick[q] /\ DueIn(q) = {}
    <2>1. tick' = [tick EXCEPT ![r] = Idle] /\ tick[r].phase = "decided"
      BY DEF Commit
    <2> QED BY <1>0, <2>1 DEF TypeOK, CronInv, OneTick
  <1>3. \A q \in Replicas : DueIn(q)' = {}
    BY <1>2 DEF DueIn, Idle
  <1>4. OneTick'
    BY <1>2, <1>3 DEF OneTick, CronInv, Idle, Commit
  <1>5. tick' \in [Replicas -> [phase : {"idle", "read", "decided"}, slot : [Schedules -> Time],
                                at : Time, now : Time]]
    BY <1>0 DEF Commit, TypeOK, Idle
  <1> DEFINE sane == DueIn(r) \ Broken
  <1>e. errant' = errant \ sane
    BY DEF Commit
  <1>6. ASSUME NEW s \in Schedules
        PROVE /\ RowInv(s)' /\ next'[s] \in Nat \ {0} /\ spawned'[s] \in [Time -> Nat] /\ served'[s] \in Time
              /\ row'[s] \in {"unborn", "active", "paused", "deleted"}
    <2>1. CASE s \in sane
      <3> DEFINE slot == tick[r].slot[s]
                 at == tick[r].at
                 n == get_next(s, Base(slot, tick[r].now))
      <3>1. /\ slot \in Time /\ at \in Time /\ tick[r].now \in Time
            /\ spawned[s] \in [Time -> Nat] /\ again[s] \in [Time -> Nat]
            /\ row[s] \in {"unborn", "active", "paused", "deleted"}
        BY <1>0 DEF TypeOK
      <3>2. DueInv(r, s) /\ tick[r].phase = "decided" /\ RowInv(s)
        BY <1>0, <2>1 DEF CronInv, Commit
      <3>3. Base(slot, tick[r].now) \in Time /\ Base(slot, tick[r].now) >= slot
            /\ Base(slot, tick[r].now) >= tick[r].now
        BY <3>1 DEF Base
      <3>4. n \in Nat \ {0} /\ n > slot /\ n > tick[r].now
        <4> DEFINE b == Base(slot, tick[r].now)
        <4>1. n \in Nat \ {0} /\ n > b
          BY <3>3, NextIsLater
        <4> HIDE DEF b, n, slot
        <4>2. b \in Nat /\ b >= slot /\ b >= tick[r].now /\ slot \in Nat /\ tick[r].now \in Nat
          BY <3>1, <3>3 DEF b
        <4> QED BY <4>1, <4>2
      <3>5. /\ next'[s] = n /\ spawned'[s] = [spawned[s] EXCEPT ![slot] = @ + 1]
            /\ served'[s] = at /\ row'[s] = row[s]
        BY <2>1 DEF Commit
      <3>6. /\ spawned[s][slot] <= again[s][slot] /\ slot <= at /\ at <= clock /\ at <= tick[r].now + Behind
            /\ row[s] # "unborn"
        <4>1. spawned[s][slot] <= again[s][slot]
          <5>1. OpenFrom(s, slot) BY <3>2 DEF DueInv
          <5> HIDE DEF slot
          <5>2. slot >= slot BY <3>1
          <5> QED BY <3>1, <5>1, <5>2 DEF OpenFrom
        <4> QED BY <4>1, <3>2 DEF DueInv
      <3> HIDE DEF n, slot, at
      <3>7. \A u \in Time : spawned'[s][u] = IF u = slot THEN spawned[s][u] + 1 ELSE spawned[s][u]
        BY <3>1, <3>5
      <3>8. FreshFrom(s, clock + 1)'
        <4>1. \A u \in Time : u >= clock + 1 => spawned[s][u] = 0 /\ u # slot
          BY <1>0, <3>1, <3>2, <3>6 DEF RowInv, FreshFrom
        <4> QED BY <1>1, <3>7, <4>1 DEF FreshFrom
      <3>9. OpenFrom(s, next[s])'
        <4>1. \A u \in Time : u >= slot => spawned[s][u] <= again[s][u]
          BY <3>2 DEF DueInv, OpenFrom, slot
        <4>2. \A u \in Time : u >= n => u >= slot /\ u # slot
          BY <3>1, <3>4
        <4> QED BY <1>1, <3>5, <3>7, <4>1, <4>2 DEF OpenFrom
      <3>10. \A t \in Time : spawned'[s][t] <= 1 + again[s][t]
        <4>1. \A t \in Time : spawned[s][t] <= 1 + again[s][t] /\ spawned[s][t] \in Nat /\ again[s][t] \in Nat
          BY <3>1, <3>2 DEF RowInv
        <4>2. spawned[s][slot] + 1 <= 1 + again[s][slot]
          BY <3>1, <3>6
        <4>3. ASSUME NEW t \in Time
              PROVE  spawned'[s][t] <= 1 + again[s][t]
          <5>1. CASE t = slot BY <3>7, <4>2, <5>1
          <5>2. CASE t # slot BY <3>7, <4>1, <5>2
          <5> QED BY <5>1, <5>2
        <4> QED BY <4>3
      <3>11. served'[s] <= clock /\ next'[s] + Behind > served'[s]
        BY <3>1, <3>4, <3>5, <3>6
      <3>12. RowInv(s)'
        BY <1>1, <3>5, <3>6, <3>8, <3>9, <3>10, <3>11 DEF RowInv
      <3>13. [spawned[s] EXCEPT ![slot] = @ + 1] \in [Time -> Nat]
        <4>1. spawned[s][slot] + 1 \in Nat
          BY <3>1
        <4> QED BY <4>1, <3>1
      <3> QED BY <3>1, <3>4, <3>5, <3>12, <3>13
    <2>2. CASE s \notin sane
      <3>1. /\ next'[s] = next[s] /\ spawned'[s] = spawned[s] /\ served'[s] = served[s]
            /\ row'[s] = row[s] \/ row'[s] = "paused"
            /\ (s \in errant' <=> s \in errant)
        BY <2>2, <1>e DEF Commit
      <3>2. RowInv(s)'
        BY <1>0, <1>1, <3>1 DEF RowInv, FreshFrom, OpenFrom
      <3> QED BY <1>0, <3>1, <3>2 DEF TypeOK
    <2> QED BY <2>1, <2>2
  <1>7. TypeOK'
    <2>1. /\ row' = [s \in Schedules |-> row'[s]] /\ next' = [s \in Schedules |-> next'[s]]
          /\ spawned' = [s \in Schedules |-> spawned'[s]] /\ served' = [s \in Schedules |-> served'[s]]
      BY DEF Commit
    <2> HIDE DEF sane
    <2> QED BY <1>0, <1>1, <1>5, <1>6, <1>e, <2>1 DEF TypeOK
  <1>8. ASSUME NEW q \in Requests PROVE ResumeInv(resuming[q])'
    <2> DEFINE rq == resuming[q]
               z == rq.sched
    <2>1. ResumeInv(rq)
      BY DEF CronInv
    <2>2. ASSUME rq.at \in {"loaded", "decided"}, ~rq.overtaken
          PROVE  z \in Schedules /\ row'[z] \in {"paused", "deleted"}
      <3>1. z \in Schedules /\ row[z] \in {"paused", "deleted"}
        BY <1>0, <2>1, <2>2, RequestType DEF ResumeInv
      <3> QED BY <3>1 DEF Commit
    <2>3. ASSUME rq.at = "decided", ~rq.overtaken PROVE DecidedInv(resuming[q])'
      <3>1. DecidedInv(rq) /\ z \in Schedules /\ rq.to \in Nat
        BY <1>0, <2>1, <2>2, <2>3, RequestType DEF ResumeInv
      <3>2. CASE z \in sane
        <4> DEFINE slot == tick[r].slot[z]
        <4>1. /\ served'[z] = tick[r].at /\ spawned'[z] = [spawned[z] EXCEPT ![slot] = @ + 1]
          BY <3>1, <3>2 DEF Commit
        <4>2. slot <= tick[r].at /\ slot \in Time /\ tick[r].at \in Time /\ spawned[z] \in [Time -> Nat]
          BY <1>0, <3>1, <3>2 DEF CronInv, DueInv, TypeOK
        <4>3. rq.to + Behind > tick[r].at /\ (~rq.behind => rq.to > tick[r].at)
          BY <3>1, <3>2 DEF DecidedInv
        <4>4. ASSUME ~rq.behind, NEW u \in Time, u >= rq.to PROVE spawned'[z][u] = 0
          <5>1. u # slot
            <6>1. tick[r].at \in Nat /\ slot \in Nat /\ slot <= tick[r].at /\ rq.to > tick[r].at /\ u >= rq.to /\ u \in Nat
              BY <4>2, <4>3, <4>4
            <6> HIDE DEF slot, rq
            <6> QED BY <3>1, <6>1
          <5> QED BY <3>1, <4>1, <4>2, <4>4, <5>1 DEF DecidedInv, FreshFrom
        <4> QED BY <1>1, <1>3, <4>1, <4>3, <4>4 DEF DecidedInv, FreshFrom
      <3>3. CASE z \notin sane
        <4>1. served'[z] = served[z] /\ spawned'[z] = spawned[z]
          BY <3>1, <3>3 DEF Commit
        <4> QED BY <1>1, <1>3, <3>1, <4>1 DEF DecidedInv, FreshFrom
      <3> QED BY <3>2, <3>3
    <2> QED BY <1>1, <2>2, <2>3 DEF ResumeInv
  <1> QED BY <1>3, <1>4, <1>6, <1>7, <1>8 DEF CronInv

(* The invariant of the schedules.                                         *)
THEOREM CronCorrect == Spec => []CronInv
  <1>1. Init => CronInv BY CronInit
  <1>2. ASSUME CronInv, Next PROVE CronInv'
    BY <1>2, RequestKeeps, ResumeKeeps, WriteKeeps, ReadKeeps, ClockKeeps, CommitKeeps DEF Next
  <1>3. ASSUME CronInv, UNCHANGED vars PROVE CronInv'
    BY <1>3 DEF vars, history, CronInv, TypeOK, OneTick, RowInv, DueInv, DueIn, FreshFrom, OpenFrom,
       ResumeInv, DecidedInv
  <1>4. CronInv /\ [Next]_vars => CronInv' BY <1>2, <1>3
  <1> QED BY <1>1, <1>4, PTL DEF Spec

(* A slot of a schedule is run once, whatever replicas, failing ticks,     *)
(* pauses and resumes do, and again only for a resume that erred.          *)
THEOREM SlotsRunOnce == Spec => []SlotOnce
  <1>1. CronInv => SlotOnce BY DEF CronInv, RowInv, SlotOnce
  <1> QED BY <1>1, CronCorrect, PTL

(* What an outage has missed collapses into one run.                       *)
THEOREM MissedRunsCollapse == Spec => []Collapsed
  <1>1. CronInv => Collapsed BY DEF CronInv, RowInv, Collapsed
  <1> QED BY <1>1, CronCorrect, PTL
=============================================================================
