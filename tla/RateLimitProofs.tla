--------------------------- MODULE RateLimitProofs ----------------------------
(***************************************************************************)
(* RateInv is inductive: the rate is bounded for any rates, any fineness   *)
(* of time and any number of processes and restarts.                       *)
(***************************************************************************)
EXTENDS RateLimit, TLAPS

(* The parameters are numbers, and so is what a bucket holds at most.      *)
LEMMA Numbers ==
  /\ Unit \in Nat /\ Unit > 0 /\ NoLimit = 0 /\ NoLimit \notin Rates /\ Rates \subseteq Nat
  /\ Window \in Nat /\ None \notin Nat
  /\ \A q \in Rates \cup {NoLimit} : q \in Nat /\ capacity(q) \in Nat
  BY RateAssumption DEF RateAssumption, NoLimit, capacity

(* Whole tokens are no more than tokens.                                   *)
LEMMA WholeTokens ==
  ASSUME NEW level \in Nat
  PROVE  LET n == level \div Unit IN n \in Nat /\ n * Unit <= level /\ Rest(level, n) \in Nat
  BY Numbers DEF Rest

(* What a bucket holds when it is found.                                   *)
LEMMA LevelBound ==
  ASSUME TypeOK, NEW r \in Replicas, NEW q \in Rates
  PROVE  Level(r, q) \in Nat /\ Level(r, q) <= capacity(q)
  <1>1. bucket[r].tokens \in Nat /\ idle[r] \in Nat
    BY Numbers DEF TypeOK
  <1>2. idle[r] * q \in Nat /\ capacity(q) \in Nat
    BY <1>1, Numbers
  <1> HIDE DEF capacity
  <1> QED BY <1>1, <1>2 DEF Level, Refilled, Least

(* A tick that takes tokens leaves the others' buckets alone, and its own  *)
(* bucket holds less by what it was allowed.                               *)
LEMMA Taking ==
  ASSUME TypeOK, NEW r \in Replicas, NEW q \in Rates, take_available(r, q)
  PROVE  /\ bucket' \in [Replicas -> [rate : Rates \cup {NoLimit}, tokens : Nat]]
         /\ idle' \in [Replicas -> 0..Unit]
         /\ \A z \in Replicas : z # r => bucket'[z] = bucket[z] /\ idle'[z] = idle[z]
         /\ Allowance(r, q) \in Nat
         /\ Level(r, q)' + Allowance(r, q) * Unit <= Level(r, q)
  <1> DEFINE n == Allowance(r, q)
             rest == Rest(Level(r, q), n)
  <1>1. Level(r, q) \in Nat
    BY LevelBound
  <1>2. n \in Nat /\ n * Unit <= Level(r, q) /\ rest \in Nat
    BY <1>1, WholeTokens DEF Allowance
  <1>3. bucket' = [bucket EXCEPT ![r] = [rate |-> q, tokens |-> rest]] /\ idle' = [idle EXCEPT ![r] = 0]
    BY DEF take_available
  <1>4. bucket'[r] = [rate |-> q, tokens |-> rest] /\ idle'[r] = 0
    BY <1>3 DEF TypeOK
  <1>5. rest + n * Unit = Level(r, q)
    BY <1>1, <1>2, Numbers DEF Rest
  <1> HIDE DEF rest, n
  <1>6. Level(r, q)' <= rest
    <2>1. 0 * q = 0 /\ capacity(q) \in Nat
      BY Numbers
    <2>2. Level(r, q)' = Least(capacity(q), rest + 0 * q)
      BY <1>4 DEF Level, Refilled
    <2> QED BY <2>1, <2>2, <1>2 DEF Least
  <1>7. Level(r, q)' \in Nat
    <2>1. 0 * q = 0 /\ capacity(q) \in Nat
      BY Numbers
    <2> QED BY <1>4, <1>2, <2>1 DEF Level, Refilled, Least
  <1>8. n * Unit \in Nat
    BY <1>2, Numbers
  <1>9. Level(r, q)' + n * Unit <= Level(r, q)
    BY <1>1, <1>2, <1>5, <1>6, <1>7, <1>8
  <1>10. bucket' \in [Replicas -> [rate : Rates \cup {NoLimit}, tokens : Nat]] /\ idle' \in [Replicas -> 0..Unit]
    BY <1>2, <1>3, Numbers DEF TypeOK
  <1>11. \A z \in Replicas : z # r => bucket'[z] = bucket[z] /\ idle'[z] = idle[z]
    BY <1>3 DEF TypeOK
  <1> QED BY <1>2, <1>9, <1>10, <1>11 DEF n

(* One more step of time, in tokens.                                       *)
LEMMA OneMore == ASSUME NEW i \in Nat, NEW q \in Nat PROVE (i + 1) * q = i * q + q /\ i * q \in Nat
  OBVIOUS

(* A step of time brings a bucket its rate, or less.                             *)
LEMMA Refilling ==
  ASSUME TypeOK, NEW r \in Replicas, NEW q \in Rates,
         bucket' = bucket, idle'[r] = Least(idle[r] + 1, Unit)
  PROVE  Level(r, q)' \in Nat /\ Level(r, q)' <= Level(r, q) + q
  <1>1. bucket[r].tokens \in Nat /\ idle[r] \in Nat /\ Unit \in Nat /\ q \in Nat /\ capacity(q) \in Nat
    BY Numbers DEF TypeOK
  <1>2. (idle[r] + 1) * q = idle[r] * q + q /\ idle[r] * q \in Nat
    BY <1>1, OneMore
  <1>3. idle'[r] * q <= idle[r] * q + q /\ idle'[r] * q \in Nat
    <2>1. CASE idle[r] + 1 < Unit
      BY <1>1, <1>2, <2>1 DEF Least
    <2>2. CASE ~(idle[r] + 1 < Unit)
      <3>1. idle[r] \in 0..Unit
        BY DEF TypeOK
      <3>2. idle'[r] = Unit /\ (idle[r] = Unit \/ idle[r] + 1 = Unit)
        BY <1>1, <2>2, <3>1 DEF Least
      <3> QED BY <1>1, <1>2, <3>2
    <2> QED BY <2>1, <2>2
  <1> HIDE DEF capacity
  <1>4. CASE bucket[r].rate = q
    <2>1. Level(r, q) = Least(capacity(q), bucket[r].tokens + idle[r] * q)
      BY <1>4 DEF Level, Refilled
    <2>2. Level(r, q)' = Least(capacity(q), bucket[r].tokens + idle'[r] * q)
      BY <1>4 DEF Level, Refilled
    <2> QED BY <1>1, <1>2, <1>3, <2>1, <2>2 DEF Least
  <1>5. CASE bucket[r].rate # q
    <2>1. Level(r, q) = capacity(q) /\ Level(r, q)' = capacity(q)
      BY <1>5 DEF Level, capacity
    <2> QED BY <1>1, <2>1
  <1> QED BY <1>4, <1>5

(* The processes start without buckets and nobody watches.                 *)
LEMMA RateInit == ASSUME Init PROVE RateInv
  BY Numbers, RateAssumption DEF RateAssumption, Init, RateInv, TypeOK

(* Steps that touch neither buckets nor history.                           *)
LEMMA QuietKeeps ==
  ASSUME RateInv, Arrive \/ \E r \in Replicas : ReadRate(r)
  PROVE  RateInv'
  <1>1. UNCHANGED <<rate, bucket, idle, history>>
    BY DEF Arrive, ReadRate, queueVars
  <1>2. \A r \in Replicas : reading'[r] = reading[r] \/ reading'[r] = rate
    BY DEF RateInv, TypeOK, Arrive, ReadRate
  <1>3. TypeOK'
    <2>1. CASE Arrive BY <2>1 DEF RateInv, TypeOK, Arrive, history
    <2>2. ASSUME NEW r \in Replicas, ReadRate(r) PROVE TypeOK'
      BY <2>2 DEF RateInv, TypeOK, ReadRate, history, queueVars
    <2> QED BY <2>1, <2>2
  <1>4. \A r \in Replicas : Level(r, rate)' = Level(r, rate)
    BY <1>1 DEF Level, Refilled
  <1> QED BY <1>1, <1>2, <1>3, <1>4 DEF RateInv, Held, history

(* An administrator, a new watch, a restart and time.                      *)
LEMMA SetRateKeeps == ASSUME RateInv, SetRate PROVE RateInv'
  BY Numbers DEF RateInv, TypeOK, SetRate, Unwatched

(* A watch starts with full buckets granted.                               *)
LEMMA WatchKeeps == ASSUME RateInv, Watch PROVE RateInv'
  <1>1. TypeOK /\ rate \in Rates /\ UNCHANGED <<rate, bucket, idle, reading>>
    BY DEF RateInv, TypeOK, Watch, queueVars
  <1>2. TypeOK'
    BY <1>1, Numbers, RateAssumption DEF RateAssumption, TypeOK, Watch, queueVars
  <1>3. ASSUME NEW r \in Replicas PROVE Held(r)'
    <2>1. Level(r, rate)' = Level(r, rate) /\ Level(r, rate) \in Nat /\ Level(r, rate) <= capacity(rate)
      BY <1>1, LevelBound DEF Level, Refilled
    <2>2. count'[r] = 0 /\ grant'[r] = capacity(rate) /\ credit' = 0 /\ reading'[r] \in {None, rate}
      BY <1>1 DEF Watch
    <2>3. 0 * Unit = 0 /\ capacity(rate) \in Nat
      BY <1>1, Numbers
    <2> HIDE DEF capacity
    <2> QED BY <1>1, <2>1, <2>2, <2>3 DEF Held
  <1> QED BY <1>1, <1>2, <1>3, Numbers DEF RateInv

(* A restart brings a full bucket, which is granted.                       *)
LEMMA RestartKeeps == ASSUME RateInv, NEW z \in Replicas, Restart(z) PROVE RateInv'
  <1>1. TypeOK /\ UNCHANGED <<rate, due, watch, count, credit>>
    BY DEF RateInv, Restart, queueVars
  <1>2. /\ bucket' = [bucket EXCEPT ![z] = [rate |-> NoLimit, tokens |-> 0]]
        /\ reading' = [reading EXCEPT ![z] = None] /\ idle' = [idle EXCEPT ![z] = 0]
    BY DEF Restart
  <1>3. \/ UNCHANGED <<grant, restarts>> /\ watch = None
        \/ grant' = [grant EXCEPT ![z] = @ + capacity(rate)] /\ restarts' = restarts + 1
    BY DEF Restart
  <1>4. capacity(rate) \in Nat
    BY <1>1, Numbers DEF TypeOK
  <1> HIDE DEF capacity
  <1>5. TypeOK'
    BY <1>1, <1>2, <1>3, <1>4, Numbers DEF TypeOK
  <1>6. ASSUME NEW r \in Replicas, watch # None PROVE Held(r)'
    <2>1. Held(r) /\ rate \in Rates
      BY <1>1, <1>6 DEF RateInv, TypeOK
    <2>2. Level(r, rate) \in Nat /\ count[r] * Unit \in Nat /\ grant[r] \in Nat /\ credit \in Nat
      BY <1>1, <2>1, LevelBound, Numbers DEF TypeOK
    <2>3. CASE r = z
      <3>1. Level(r, rate)' = capacity(rate)
        BY <1>1, <1>2, <2>1, <2>3, Numbers DEF TypeOK, Level, capacity
      <3>2. reading'[r] = None /\ grant'[r] = grant[r] + capacity(rate)
        BY <1>1, <1>2, <1>3, <1>6, <2>3 DEF TypeOK
      <3> QED BY <1>1, <1>4, <2>1, <2>2, <3>1, <3>2 DEF Held
    <2>4. CASE r # z
      <3>1. /\ bucket'[r] = bucket[r] /\ idle'[r] = idle[r] /\ reading'[r] = reading[r]
            /\ grant'[r] = grant[r]
        BY <1>1, <1>2, <1>3, <2>4 DEF TypeOK
      <3>2. Level(r, rate)' = Level(r, rate)
        BY <1>1, <3>1 DEF Level, Refilled, capacity
      <3> QED BY <1>1, <2>1, <3>1, <3>2 DEF Held
    <2> QED BY <2>3, <2>4
  <1> QED BY <1>1, <1>5, <1>6 DEF RateInv

(* Time earns every bucket no more than the credit.                        *)
LEMMA TockKeeps == ASSUME RateInv, Tock PROVE RateInv'
  <1>1. TypeOK /\ UNCHANGED <<rate, due, reading, bucket>>
        /\ idle' = [r \in Replicas |-> Least(idle[r] + 1, Unit)]
    BY DEF RateInv, Tock, queueVars
  <1>2. idle' \in [Replicas -> 0..Unit]
    BY <1>1, Numbers DEF TypeOK, Least
  <1>3. CASE Unwatched
    <2>1. TypeOK' BY <1>1, <1>2, <1>3, Numbers DEF TypeOK, Unwatched
    <2> QED BY <2>1, <1>3 DEF Unwatched, RateInv
  <1>4. CASE watch # None /\ watch # Window /\ watch' = watch + 1 /\ credit' = credit + rate
             /\ UNCHANGED <<count, grant, restarts>>
    <2>1. rate \in Rates /\ rate \in Nat /\ watch \in 0..Window
      BY <1>1, <1>4, Numbers DEF TypeOK, RateInv
    <2>2. TypeOK'
      <3>1. watch' \in 0..Window /\ credit' \in Nat
        BY <1>1, <1>4, <2>1, Numbers DEF TypeOK
      <3> QED BY <1>1, <1>2, <1>4, <3>1 DEF TypeOK
    <2>3. ASSUME NEW r \in Replicas PROVE Held(r)'
      <3>1. Held(r) BY <1>4 DEF RateInv
      <3>2. Level(r, rate)' \in Nat /\ Level(r, rate)' <= Level(r, rate) + rate
        <4>1. PICK q \in Rates : q = rate
          BY <2>1
        <4>2. Level(r, q)' \in Nat /\ Level(r, q)' <= Level(r, q) + q
          BY <1>1, Refilling
        <4> QED BY <1>1, <4>1, <4>2 DEF Level, Refilled, capacity
      <3>3. /\ Level(r, rate) \in Nat /\ count[r] * Unit \in Nat
            /\ grant[r] \in Nat /\ credit \in Nat
        BY <1>1, <2>1, LevelBound, Numbers DEF TypeOK
      <3> QED BY <1>1, <1>4, <2>1, <3>1, <3>2, <3>3 DEF Held
    <2> QED BY <1>1, <1>4, <2>1, <2>2, <2>3 DEF RateInv
  <1> QED BY <1>3, <1>4 DEF Tock

(* The steps of a tick that take tokens: what is let out was held.         *)
LEMMA TickKeeps ==
  ASSUME RateInv, NEW z \in Replicas, Promote(z) \/ TickFails(z)
  PROVE  RateInv'
  <1>1. TypeOK /\ UNCHANGED <<rate, watch, credit, grant, restarts>> /\ reading' = [reading EXCEPT ![z] = None]
    BY DEF RateInv, Promote, TickFails, queueVars, history
  <1>2. reading[z] \in Rates \/ (reading[z] = NoLimit /\ UNCHANGED <<bucket, idle>>)
    BY <1>1 DEF TypeOK, Promote, TickFails
  <1> DEFINE n == Allowance(z, reading[z])
  <1>3. /\ \A r \in Replicas : r # z => count'[r] = count[r]
        /\ due' \in Nat /\ count' \in [Replicas -> Nat]
        /\ reading[z] \in Rates => n \in Nat /\ (watch # None => count'[z] <= count[z] + n)
    <2>1. ASSUME reading[z] \in Rates PROVE n \in Nat
      <3>1. Level(z, reading[z]) \in Nat
        BY <1>1, <2>1, LevelBound
      <3> QED BY <3>1, WholeTokens DEF Allowance
    <2> HIDE DEF n
    <2>2. CASE TickFails(z)
      BY <1>1, <2>1, <2>2 DEF TypeOK, TickFails, queueVars, history
    <2>3. CASE Promote(z)
      <3>1. PICK m \in Nat : /\ LetOut(z, m) /\ m <= due
                             /\ reading[z] \in Rates => m <= n
        <4>1. CASE reading[z] = NoLimit
          BY <1>1, <2>3, <4>1, Numbers DEF Promote, TypeOK
        <4>2. CASE reading[z] \in Rates
          <5>1. LetOut(z, Least(n, due))
            BY <2>3, <4>2, Numbers DEF Promote, n
          <5>2. Least(n, due) \in Nat /\ Least(n, due) <= due /\ Least(n, due) <= n
            BY <1>1, <2>1, <4>2 DEF Least, TypeOK
          <5> QED BY <5>1, <5>2
        <4> QED BY <1>2, <4>1, <4>2
      <3>2. due' = due - m /\ count' = [count EXCEPT ![z] = IF watch = None THEN @ ELSE @ + m]
        BY <3>1 DEF LetOut
      <3> QED BY <1>1, <2>1, <3>1, <3>2 DEF TypeOK
    <2> QED BY <2>2, <2>3
  <1>4. ASSUME reading[z] \in Rates PROVE take_available(z, reading[z])
    BY <1>4, Numbers DEF Promote, TickFails
  <1>5. /\ bucket' \in [Replicas -> [rate : Rates \cup {NoLimit}, tokens : Nat]]
        /\ idle' \in [Replicas -> 0..Unit]
        /\ \A r \in Replicas : r # z => bucket'[r] = bucket[r] /\ idle'[r] = idle[r]
    <2>1. CASE reading[z] \in Rates
      <3>1. PICK q \in Rates : q = reading[z] BY <2>1
      <3> QED BY <1>1, <1>4, <3>1, Taking
    <2>2. CASE UNCHANGED <<bucket, idle>>
      BY <1>1, <2>2 DEF TypeOK
    <2> QED BY <1>2, <2>1, <2>2
  <1>6. TypeOK'
    BY <1>1, <1>3, <1>5 DEF TypeOK
  <1>7. ASSUME NEW r \in Replicas, watch # None PROVE Held(r)'
    <2>1. Held(r) /\ rate \in Rates
      BY <1>1, <1>7 DEF RateInv, TypeOK
    <2>2. CASE r # z
      <3>1. Level(r, rate)' = Level(r, rate)
        BY <1>1, <1>5, <2>2 DEF Level, Refilled
      <3>2. count'[r] = count[r] /\ reading'[r] = reading[r]
        BY <1>1, <1>3, <2>2 DEF TypeOK
      <3> QED BY <1>1, <2>1, <3>1, <3>2 DEF Held
    <2>3. CASE r = z
      <3>1. PICK q \in Rates : q = rate BY <2>1
      <3>2. reading[z] = q
        BY <2>1, <2>3, <3>1 DEF Held, Promote, TickFails
      <3>3. Level(z, q)' + n * Unit <= Level(z, q) /\ n \in Nat
        BY <1>1, <1>3, <1>4, <3>1, <3>2, Taking
      <3>4. count'[z] <= count[z] + n
        BY <1>3, <1>7, <3>2
      <3> HIDE DEF n
      <3>5. count[z] \in Nat /\ count'[z] \in Nat /\ grant[z] \in Nat /\ credit \in Nat /\ Unit \in Nat
        BY <1>1, <1>6, Numbers DEF TypeOK
      <3>6. count'[z] * Unit <= count[z] * Unit + n * Unit
        BY <3>3, <3>4, <3>5
      <3>7. Level(z, q) \in Nat /\ Level(z, q)' \in Int
        BY <1>1, LevelBound, <1>6, Numbers DEF TypeOK, Level, Refilled, Least, capacity
      <3>8. Level(z, rate)' = Level(z, q)' /\ Level(z, rate) = Level(z, q)
        BY <1>1, <3>1 DEF Level, Refilled, capacity
      <3>9. reading'[z] = None
        BY <1>1 DEF TypeOK
      <3>10. count'[z] * Unit + Level(z, q)' <= grant[z] + credit
        <4>1. count[z] * Unit + Level(z, q) <= grant[z] + credit
          BY <2>1, <2>3, <3>8 DEF Held
        <4>2. count[z] * Unit \in Nat /\ n * Unit \in Nat /\ count'[z] * Unit \in Nat
          BY <3>3, <3>5
        <4> QED BY <4>1, <4>2, <3>3, <3>5, <3>6, <3>7
      <3> QED BY <1>1, <2>3, <3>8, <3>9, <3>10 DEF Held
    <2> QED BY <2>2, <2>3
  <1> QED BY <1>1, <1>6, <1>7 DEF RateInv

(* The invariant of the rate limiter.                                      *)
THEOREM RateCorrect == Spec => []RateInv
  <1>1. Init => RateInv BY RateInit
  <1>2. ASSUME RateInv, Next PROVE RateInv'
    BY <1>2, QuietKeeps, SetRateKeeps, WatchKeeps, RestartKeeps, TockKeeps, TickKeeps DEF Next
  <1>3. ASSUME RateInv, UNCHANGED vars PROVE RateInv'
    BY <1>3 DEF vars, queueVars, history, RateInv, TypeOK, Held, Level, Refilled
  <1>4. RateInv /\ [Next]_vars => RateInv' BY <1>2, <1>3
  <1> QED BY <1>1, <1>4, PTL DEF Spec

(* No process lets out more than its rate and the buckets it came with.    *)
THEOREM RateIsBounded == Spec => []RateBound
  <1>1. RateInv => RateBound
    <2>1. ASSUME RateInv, watch # None, NEW r \in Replicas PROVE count[r] * Unit <= grant[r] + credit
      <3>1. TypeOK /\ rate \in Rates /\ Held(r)
        BY <2>1 DEF RateInv, TypeOK
      <3>2. Level(r, rate) \in Nat /\ count[r] * Unit \in Nat /\ grant[r] + credit \in Nat
        BY <3>1, LevelBound, Numbers DEF TypeOK
      <3> QED BY <3>1, <3>2 DEF Held
    <2> QED BY <2>1 DEF RateBound
  <1> QED BY <1>1, RateCorrect, PTL
=============================================================================
