------------------------ MODULE FailureHandlingProofs ------------------------
(***************************************************************************)
(* For any requests, policies and skew: the entry of a dead job is the one *)
(* that is pending, the requests, locked row by row, implement the dead    *)
(* letter queue of DeadLetters, and delays keep their cap and are waited   *)
(* out.                                                                    *)
(***************************************************************************)
EXTENDS FailureHandling, TLAPS, SequenceTheorems, FiniteSetTheorems

(* The constants are what they should be.                                  *)
LEMMA Settings ==
  /\ NoRequest \notin Requests /\ Entry \in [Requests -> Nat]
  /\ MaxAttempts \in Nat /\ MaxAttempts > 0 /\ Skew \in Nat
  BY FailureAssumption DEF FailureAssumption

(* A replay is about an entry.                                             *)
LEMMA EntryOfReplay ==
  ASSUME NEW r \in Requests, ~IsRetry(r)
  PROVE  Entry[r] \in Entries /\ Entry[r] \in Nat /\ Entry[r] # 0
  BY Settings DEF Entries, IsRetry

(* No request, no entry and no death at first.                             *)
LEMMA FailureInit == Init => FailureInv /\ EntriesExact
  <1> SUFFICES ASSUME Init PROVE FailureInv /\ EntriesExact
    OBVIOUS
  <1>1. TypeOK
    <2>1. replayed \in Seq(BOOLEAN)
      BY DEF Init
    <2>2. /\ status \in {"queued", "running", "retrying", "completed", "dead"} /\ attempts \in 0 .. MaxAttempts
          /\ wait \in Nat /\ drawn \in Nat /\ elapsed \in Nat /\ before \in Nat
      BY Settings DEF Init
    <2>4. steady \in BOOLEAN
      BY DEF Init
    <2>3. /\ jobLock \in Requests \union {NoRequest} /\ entryLock \in [Entries -> Requests \union {NoRequest}]
          /\ pc \in [Requests -> {"new", "first", "second", "done"}]
          /\ answer \in [Requests -> {"none", "requeued", "conflict", "notfound", "error"}] /\ edits \in Nat
      BY DEF Init
    <2> QED BY <2>1, <2>2, <2>3, <2>4 DEF Init, TypeOK
  <1>2. LocksHeld
    BY Settings DEF Init, LocksHeld
  <1>3. EntriesExact
    BY DEF Init, EntriesExact, Pending
  <1> QED BY <1>1, <1>2, <1>3, Settings DEF Init, FailureInv, AttemptLeft

(* A delay is a number of seconds.                                         *)
LEMMA DelayType ==
  ASSUME NEW p, NEW n, NEW d \in Delays(p, n)
  PROVE  d \in Nat
  BY DEF Delays

(* Each death appends one entry, which is pending.                         *)
LEMMA DeathEntry ==
  ASSUME replayed \in Seq(BOOLEAN), replayed' = Append(replayed, FALSE)
  PROVE  /\ replayed' \in Seq(BOOLEAN) /\ Len(replayed') = Len(replayed) + 1
         /\ DOMAIN replayed \subseteq DOMAIN replayed'
         /\ Pending' = Pending \union {Len(replayed')}
  <1>1. /\ replayed' \in Seq(BOOLEAN) /\ Len(replayed') = Len(replayed) + 1
        /\ Len(replayed) \in Nat /\ DOMAIN replayed = 1 .. Len(replayed)
        /\ DOMAIN replayed' = 1 .. Len(replayed')
    OBVIOUS
  <1>2. /\ replayed'[Len(replayed')] = FALSE
        /\ \A e \in 1 .. Len(replayed) : replayed'[e] = replayed[e]
    <2>1. /\ Append(replayed, FALSE)[Len(replayed) + 1] = FALSE
          /\ \A e \in 1 .. Len(replayed) : Append(replayed, FALSE)[e] = replayed[e]
      BY AppendProperties
    <2> QED BY <1>1, <2>1
  <1> QED BY <1>1, <1>2 DEF Pending

(* A retry sets every entry, a replay its own.                             *)
LEMMA EntriesSet ==
  ASSUME replayed \in Seq(BOOLEAN)
  PROVE  /\ Superseded \in Seq(BOOLEAN) /\ DOMAIN Superseded = DOMAIN replayed
         /\ Len(Superseded) = Len(replayed)
         /\ \A e \in DOMAIN replayed : /\ [replayed EXCEPT ![e] = TRUE] \in Seq(BOOLEAN)
                                       /\ DOMAIN [replayed EXCEPT ![e] = TRUE] = DOMAIN replayed
                                       /\ Len([replayed EXCEPT ![e] = TRUE]) = Len(replayed)
  <1>1. DOMAIN replayed = 1 .. Len(replayed) /\ Len(replayed) \in Nat
    OBVIOUS
  <1>2. Superseded \in Seq(BOOLEAN) /\ DOMAIN Superseded = DOMAIN replayed /\ Len(Superseded) = Len(replayed)
    BY <1>1 DEF Superseded
  <1> QED BY <1>1, <1>2
-----------------------------------------------------------------------------
(* The steps of the job, but for its death, of the clock and of the        *)
(* policy.                                                                 *)
Alive == Run \/ Succeed \/ RetryLater \/ Tock \/ Promote \/ EditPolicy

(* They kill no job, and leave entries and requests alone.                 *)
LEMMA AliveLeaves ==
  ASSUME Alive
  PROVE  /\ replayed' = replayed /\ jobLock' = jobLock /\ entryLock' = entryLock /\ pc' = pc /\ answer' = answer
         /\ status' = "dead" <=> status = "dead"
  BY DEF Alive, Run, Succeed, RetryLater, Tock, Promote, EditPolicy, Others, locks

(* The types are kept by these steps ...                                   *)
LEMMA AliveType ==
  ASSUME FailureInv, Alive
  PROVE  TypeOK' /\ AttemptLeft'
  <1>1. TypeOK /\ AttemptLeft
    BY DEF FailureInv
  <1>2. CASE Run \/ Succeed \/ Promote
    BY <1>1, <1>2, Settings
    DEF TypeOK, AttemptLeft, Run, Succeed, Promote, Others, locks, Delayless
  <1>3. CASE RetryLater
    <2>1. PICK d \in Delays(policy, attempts'), skew \in -Skew .. Skew :
             drawn' = d /\ wait' = IF d + skew < 0 THEN 0 ELSE d + skew
      BY <1>3 DEF RetryLater
    <2>2. drawn' \in Nat /\ wait' \in Nat
      BY <2>1, DelayType, Settings
    <2>3. attempts' \in 0 .. MaxAttempts /\ attempts' < MaxAttempts
      BY <1>1, <1>3, Settings DEF TypeOK, RetryLater
    <2>4. before' \in Nat /\ elapsed' \in Nat /\ steady' \in BOOLEAN
      BY <1>1, <1>3 DEF TypeOK, RetryLater
    <2>5. status' = "retrying" /\ UNCHANGED <<replayed, policy, locks, pc, answer, edits>>
      BY <1>3 DEF RetryLater, Others
    <2> QED BY <1>1, <2>2, <2>3, <2>4, <2>5 DEF TypeOK, AttemptLeft, locks
  <1>4. CASE Tock
    <2>1. wait' \in Nat /\ elapsed' \in Nat
      BY <1>1, <1>4 DEF TypeOK, Tock
    <2> QED BY <1>1, <1>4, <2>1 DEF TypeOK, AttemptLeft, Tock, Others, locks
  <1>5. CASE EditPolicy
    <2>1. edits' \in Nat
      BY <1>1, <1>5 DEF TypeOK, EditPolicy
    <2>2. policy' \in Policies \union {DefaultPolicy} /\ steady' \in BOOLEAN
      BY <1>1, <1>5 DEF TypeOK, EditPolicy
    <2> QED BY <1>1, <1>5, <2>1, <2>2 DEF TypeOK, AttemptLeft, EditPolicy, locks
  <1> QED BY <1>2, <1>3, <1>4, <1>5 DEF Alive

(* ... by a death ...                                                      *)
LEMMA DeathType ==
  ASSUME FailureInv, MoveToDlq
  PROVE  TypeOK' /\ AttemptLeft'
  <1>1. TypeOK /\ AttemptLeft /\ replayed \in Seq(BOOLEAN)
    BY DEF FailureInv, TypeOK
  <1>2. replayed' \in Seq(BOOLEAN)
    BY <1>1, DeathEntry DEF MoveToDlq
  <1>3. attempts' \in 0 .. MaxAttempts /\ status' = "dead"
    BY <1>1, Settings DEF TypeOK, AttemptLeft, MoveToDlq
  <1> QED BY <1>1, <1>2, <1>3 DEF TypeOK, AttemptLeft, MoveToDlq, Others, locks, Delayless

(* ... and by the requests.                                                *)
LEMMA RequestType ==
  ASSUME FailureInv, NEW r \in Requests, Arrive(r) \/ Proceed(r)
  PROVE  TypeOK' /\ AttemptLeft'
  <1>1. TypeOK /\ AttemptLeft /\ replayed \in Seq(BOOLEAN) /\ LocksHeld
    BY DEF FailureInv, TypeOK
  <1>2. policy' = policy /\ edits' = edits
    BY DEF Arrive, Proceed, LockJob, LockEntry, RetryJob, Replay, DeadlockDetected, Request
  <1>3. /\ pc' \in [Requests -> {"new", "first", "second", "done"}]
        /\ answer' \in [Requests -> {"none", "requeued", "conflict", "notfound", "error"}]
    BY <1>1 DEF TypeOK, Arrive, Proceed, LockJob, LockEntry, RetryJob, Replay, DeadlockDetected, Go, Reply
  <1>4. /\ jobLock' \in Requests \union {NoRequest} /\ entryLock' \in [Entries -> Requests \union {NoRequest}]
    BY <1>1 DEF TypeOK, Arrive, Proceed, LockJob, LockEntry, RetryJob, Replay, DeadlockDetected, Unlock, locks
  <1>5. replayed' \in Seq(BOOLEAN)
    <2>1. CASE Replay(r)
      <3>1. Entry[r] \in DOMAIN replayed
        BY <1>1, <2>1 DEF LocksHeld, Replay, Pending
      <3>2. [replayed EXCEPT ![Entry[r]] = TRUE] \in Seq(BOOLEAN)
        BY <1>1, <3>1, EntriesSet
      <3> QED BY <1>1, <2>1, <3>2 DEF Replay, work
    <2>2. CASE RetryJob(r)
      BY <1>1, <2>2, EntriesSet DEF RetryJob
    <2>3. CASE Arrive(r) \/ LockJob(r) \/ LockEntry(r) \/ DeadlockDetected(r)
      BY <1>1, <2>3 DEF Arrive, LockJob, LockEntry, DeadlockDetected
    <2> QED BY <2>1, <2>2, <2>3 DEF Proceed
  <1>6. UNCHANGED work \/ Requeued
    BY DEF Arrive, Proceed, LockJob, LockEntry, RetryJob, Replay, DeadlockDetected
  <1>7. CASE UNCHANGED work
    BY <1>1, <1>2, <1>3, <1>4, <1>5, <1>7 DEF work, TypeOK, AttemptLeft
  <1>8. CASE Requeued
    <2>1. status' = "queued" /\ attempts' = 0 /\ wait' \in Nat /\ 0 \in 0 .. MaxAttempts /\ 0 < MaxAttempts
      BY <1>8, Settings DEF Requeued
    <2>2. drawn' = 0 /\ elapsed' = 0 /\ before' = 0 /\ steady' = FALSE
      BY <1>8 DEF Requeued
    <2> QED BY <1>1, <1>2, <1>3, <1>4, <1>5, <2>1, <2>2 DEF TypeOK, AttemptLeft
  <1> QED BY <1>6, <1>7, <1>8
-----------------------------------------------------------------------------
(* What LocksHeld says of one request.                                     *)
Held(r) ==
  /\ jobLock = r <=> pc[r] = "second" /\ IsRetry(r)
  /\ jobLock = r => status = "dead"
  /\ \A e \in Entries : entryLock[e] = r <=> pc[r] = "second" /\ Entry[r] = e
  /\ pc[r] = "second" /\ ~IsRetry(r) => Entry[r] \in Pending
  /\ pc[r] = "first" /\ ~IsRetry(r) => Entry[r] \in DOMAIN replayed
  /\ pc[r] = "done" <=> answer[r] # "none"

(* A request is as it was while another one, or the job, moves on.         *)
LEMMA HeldStays ==
  ASSUME TypeOK, NEW r \in Requests, Held(r), pc'[r] = pc[r], answer'[r] = answer[r],
         jobLock' = r <=> jobLock = r,
         \A e \in Entries : entryLock'[e] = r <=> entryLock[e] = r,
         jobLock = r => status' = "dead",
         DOMAIN replayed \subseteq DOMAIN replayed',
         pc[r] = "second" /\ ~IsRetry(r) => Entry[r] \in Pending'
  PROVE  Held(r)'
  BY DEF Held, IsRetry

(* What a request does to the locks, the entries and the job.              *)
LEMMA RequestMoves ==
  ASSUME FailureInv, NEW r \in Requests, Arrive(r) \/ Proceed(r)
  PROVE  /\ pc[r] \in {"new", "first", "second"} /\ answer[r] = "none"
         /\ \A q \in Requests \ {r} : /\ pc'[q] = pc[q] /\ answer'[q] = answer[q]
                                      /\ jobLock' = q <=> jobLock = q
                                      /\ \A e \in Entries : entryLock'[e] = q <=> entryLock[e] = q
  <1>1. TypeOK /\ Held(r) /\ NoRequest \notin Requests
    BY Settings DEF FailureInv, LocksHeld, Held
  <1>2. pc[r] \in {"new", "first", "second"}
    <2>1. CASE DeadlockDetected(r)
      <3>1. r = jobLock \/ \E e \in Entries : r = entryLock[e]
        BY <2>1 DEF DeadlockDetected, Circle, EntriesLocked
      <3> QED BY <1>1, <3>1 DEF Held
    <2> QED BY <2>1 DEF Arrive, Proceed, LockJob, LockEntry, RetryJob, Replay
  <1>3. ASSUME NEW q \in Requests \ {r} PROVE pc'[q] = pc[q] /\ answer'[q] = answer[q]
    BY <1>1 DEF TypeOK, Arrive, Proceed, LockJob, LockEntry, RetryJob, Replay, DeadlockDetected, Go, Reply
  <1>4. ASSUME NEW q \in Requests \ {r} PROVE jobLock' = q <=> jobLock = q
    BY <1>1 DEF TypeOK, Arrive, Proceed, LockJob, LockEntry, RetryJob, Replay, DeadlockDetected, Unlock, locks
  <1>5. ASSUME NEW q \in Requests \ {r}, NEW e \in Entries PROVE entryLock'[e] = q <=> entryLock[e] = q
    BY <1>1 DEF TypeOK, Arrive, Proceed, LockJob, LockEntry, RetryJob, Replay, DeadlockDetected, Unlock, locks
  <1> QED BY <1>1, <1>2, <1>3, <1>4, <1>5 DEF Held

(* No request spoils what another one has read under its lock.             *)
LEMMA OthersHeld ==
  ASSUME FailureInv, NEW r \in Requests, Arrive(r) \/ Proceed(r), NEW q \in Requests \ {r}
  PROVE  Held(q)'
  <1>1. TypeOK /\ Held(r) /\ Held(q) /\ NoRequest \notin Requests /\ replayed \in Seq(BOOLEAN)
    BY Settings DEF FailureInv, LocksHeld, Held, TypeOK
  <1>2. jobLock = q => status' = "dead"
    <2>1. jobLock = q => ~RetryJob(r) /\ ~Replay(r)
      BY <1>1 DEF Held, RetryJob, Replay
    <2>2. status' = status \/ RetryJob(r) \/ Replay(r)
      BY DEF Arrive, Proceed, LockJob, LockEntry, DeadlockDetected, work
    <2> QED BY <1>1, <2>1, <2>2 DEF Held
  <1>3. /\ DOMAIN replayed' = DOMAIN replayed
        /\ pc[q] = "second" /\ ~IsRetry(q) => Entry[q] \in Pending'
    <2>1. CASE RetryJob(r)
      <3>1. pc[q] = "second" /\ ~IsRetry(q) => Entry[q] \in EntriesLocked
        BY <1>1, EntryOfReplay DEF Held, EntriesLocked
      <3> QED BY <1>1, <2>1, <3>1, EntriesSet DEF RetryJob
    <2>2. CASE Replay(r)
      <3>1. Entry[r] \in DOMAIN replayed /\ entryLock[Entry[r]] = r
        BY <1>1, <2>2, EntryOfReplay DEF Held, Replay, Pending
      <3>2. replayed' = [replayed EXCEPT ![Entry[r]] = TRUE] \/ replayed' = replayed
        BY <2>2 DEF Replay, work
      <3>3. pc[q] = "second" /\ ~IsRetry(q) => Entry[q] \in Pending /\ Entry[q] # Entry[r]
        BY <1>1, <3>1, EntryOfReplay DEF Held
      <3> QED BY <1>1, <3>1, <3>2, <3>3 DEF Pending
    <2>3. CASE Arrive(r) \/ LockJob(r) \/ LockEntry(r) \/ DeadlockDetected(r)
      <3>1. replayed' = replayed
        BY <2>3 DEF Arrive, LockJob, LockEntry, DeadlockDetected
      <3> QED BY <1>1, <3>1 DEF Held, Pending
    <2> QED BY <2>1, <2>2, <2>3 DEF Proceed
  <1> QED BY <1>1, <1>2, <1>3, RequestMoves, HeldStays

(* And a request keeps what it says of itself.                             *)
LEMMA OwnHeld ==
  ASSUME FailureInv, NEW r \in Requests, Arrive(r) \/ Proceed(r)
  PROVE  Held(r)'
  <1>1. TypeOK /\ Held(r) /\ NoRequest \notin Requests
    BY Settings DEF FailureInv, LocksHeld, Held
  <1>2. CASE Arrive(r)
    <2>1. UNCHANGED <<status, replayed, jobLock, entryLock>> /\ pc[r] = "new"
      BY <1>2 DEF Arrive, work, locks
    <2>2. \/ pc'[r] = "first" /\ answer'[r] = "none" /\ (IsRetry(r) \/ Entry[r] \in DOMAIN replayed)
          \/ pc'[r] = "done" /\ answer'[r] = "notfound"
      BY <1>1, <1>2, RequestMoves DEF TypeOK, Arrive, Go, Reply
    <2> QED BY <1>1, <2>1, <2>2 DEF Held, IsRetry
  <1>3. CASE LockJob(r)
    <2>1. UNCHANGED <<status, replayed, entryLock>> /\ pc[r] = "first" /\ IsRetry(r)
      BY <1>3 DEF LockJob, work
    <2>2. \/ pc'[r] = "second" /\ answer'[r] = "none" /\ jobLock' = r /\ status = "dead"
          \/ pc'[r] = "done" /\ answer'[r] = "conflict" /\ jobLock' = jobLock
      BY <1>1, <1>3, RequestMoves DEF TypeOK, LockJob, Go, Reply
    <2> QED BY <1>1, <2>1, <2>2, EntryOfReplay DEF Held, IsRetry, Entries
  <1>4. CASE LockEntry(r)
    <2>1. UNCHANGED <<status, replayed, jobLock>> /\ pc[r] = "first" /\ ~IsRetry(r)
      BY <1>4 DEF LockEntry, work
    <2>2. \/ /\ pc'[r] = "second" /\ answer'[r] = "none" /\ ~replayed[Entry[r]]
             /\ \A e \in Entries : entryLock'[e] = IF e = Entry[r] THEN r ELSE entryLock[e]
          \/ pc'[r] = "done" /\ answer'[r] = "conflict" /\ entryLock' = entryLock
      BY <1>1, <1>4, RequestMoves DEF TypeOK, LockEntry, Go, Reply
    <2> QED BY <1>1, <2>1, <2>2, EntryOfReplay DEF Held, IsRetry, Pending
  <1>5. CASE RetryJob(r) \/ Replay(r) \/ DeadlockDetected(r)
    <2>1. pc'[r] = "done" /\ answer'[r] \in {"requeued", "conflict", "error"}
      BY <1>1, <1>5 DEF TypeOK, RetryJob, Replay, DeadlockDetected, Go, Reply
    <2>2. jobLock' # r /\ \A e \in Entries : entryLock'[e] # r
      BY <1>1, <1>5 DEF RetryJob, Replay, DeadlockDetected, Unlock
    <2> QED BY <1>1, <2>1, <2>2 DEF Held, IsRetry
  <1> QED BY <1>2, <1>3, <1>4, <1>5 DEF Proceed

(* A pending entry is the last one of a dead job, whoever moves.           *)
LEMMA EntriesStep ==
  ASSUME FailureInv, EntriesExact, NEW r \in Requests, Arrive(r) \/ Proceed(r)
  PROVE  EntriesExact'
  <1>1. TypeOK /\ Held(r) /\ NoRequest \notin Requests /\ replayed \in Seq(BOOLEAN)
    BY Settings DEF FailureInv, LocksHeld, Held, TypeOK
  <1>2. CASE RetryJob(r)
    <2>1. status' = "queued" /\ Pending' = {}
      BY <1>2 DEF RetryJob, Requeued, Superseded, Pending
    <2> QED BY <2>1 DEF EntriesExact
  <1>3. CASE Replay(r) /\ status = "dead"
    <2>1. Entry[r] \in Pending /\ Pending = {Entry[r]}
      BY <1>1, <1>3 DEF EntriesExact, Held, Replay
    <2>2. replayed' = [replayed EXCEPT ![Entry[r]] = TRUE] /\ status' = "queued"
      BY <1>3 DEF Replay, Requeued
    <2>3. Pending' = {}
      BY <1>1, <2>1, <2>2 DEF Pending
    <2> QED BY <2>2, <2>3 DEF EntriesExact
  <1>4. CASE \/ Arrive(r) \/ LockJob(r) \/ LockEntry(r) \/ DeadlockDetected(r)
             \/ Replay(r) /\ status # "dead"
    <2>1. status' = status /\ replayed' = replayed
      BY <1>4 DEF Arrive, LockJob, LockEntry, DeadlockDetected, Replay, work
    <2> QED BY <2>1 DEF EntriesExact, Pending
  <1> QED BY <1>2, <1>3, <1>4 DEF Proceed

(* Every step keeps both.                                                  *)
LEMMA FailureStep ==
  ASSUME FailureInv, EntriesExact, [Next]_vars
  PROVE  FailureInv' /\ EntriesExact'
  <1>1. TypeOK /\ (\A r \in Requests : Held(r)) /\ replayed \in Seq(BOOLEAN)
    BY DEF FailureInv, LocksHeld, Held, TypeOK
  <1>2. CASE UNCHANGED vars
    <2>1. TypeOK'
      BY <1>2, <1>1 DEF vars, work, locks, TypeOK
    <2>2. LocksHeld' /\ AttemptLeft'
      BY <1>2 DEF vars, work, locks, FailureInv, LocksHeld, AttemptLeft, Pending
    <2> QED BY <1>2, <2>1, <2>2 DEF vars, work, FailureInv, EntriesExact, Pending
  <1>3. CASE Alive
    <2>1. \A r \in Requests : Held(r)'
      BY <1>1, <1>3, AliveLeaves, HeldStays DEF Held, Pending
    <2>2. EntriesExact'
      BY <1>3, AliveLeaves DEF EntriesExact, Pending
    <2> QED BY <1>3, <2>1, <2>2, AliveType DEF FailureInv, LocksHeld, Held
  <1>4. CASE MoveToDlq
    <2>1. /\ replayed' \in Seq(BOOLEAN) /\ DOMAIN replayed \subseteq DOMAIN replayed'
          /\ Pending' = Pending \union {Len(replayed')}
      BY <1>1, <1>4, DeathEntry DEF MoveToDlq
    <2>2. status = "running" /\ status' = "dead" /\ UNCHANGED <<jobLock, entryLock, pc, answer>>
      BY <1>4 DEF MoveToDlq, Others, locks
    <2>3. \A r \in Requests : Held(r)'
      BY <1>1, <2>1, <2>2, HeldStays DEF Held
    <2>4. EntriesExact'
      BY <2>1, <2>2 DEF EntriesExact
    <2> QED BY <1>4, <2>3, <2>4, DeathType DEF FailureInv, LocksHeld, Held
  <1>5. ASSUME NEW r \in Requests, Arrive(r) \/ Proceed(r) PROVE FailureInv' /\ EntriesExact'
    <2>1. \A q \in Requests : Held(q)'
      BY <1>5, OwnHeld, OthersHeld
    <2> QED BY <1>5, <2>1, RequestType, EntriesStep DEF FailureInv, LocksHeld, Held
  <1> QED BY <1>2, <1>3, <1>4, <1>5 DEF Next, Task, Alive

(* The two hold together: what a lock protects tells which entries are set.*)
LEMMA FailureInductive == Spec => [](FailureInv /\ EntriesExact)
  <1>1. Init => FailureInv /\ EntriesExact
    BY FailureInit
  <1>2. FailureInv /\ EntriesExact /\ [Next]_vars => (FailureInv /\ EntriesExact)'
    BY FailureStep
  <1> QED BY <1>1, <1>2, PTL DEF Spec

(* No lock is held but between the two statements of a request, and what   *)
(* the request has read under it stays so; a job that is not dead has an   *)
(* attempt left: whichever requests, policies and delays there are.        *)
THEOREM FailureCorrect == Spec => []FailureInv
  BY FailureInductive, PTL

(* A pending entry is the last one of a dead job: no sequence of failures, *)
(* retries, replays and aborted transactions leaves an entry from which a  *)
(* job could be brought back twice, or a dead job without one.             *)
THEOREM LastEntryOnly == Spec => []EntriesExact
  BY FailureInductive, PTL
-----------------------------------------------------------------------------
(* Every request, at the statement that decides it, does what DeadLetters  *)
(* says of it, and nothing else is seen.                                   *)
LEMMA LettersStep ==
  ASSUME FailureInv, [Next]_vars
  PROVE  [Letters!Next]_<<status = "dead", replayed, answer>>
  <1>1. TypeOK /\ \A r \in Requests : Held(r)
    BY DEF FailureInv, LocksHeld, Held
  <1>2. CASE UNCHANGED vars
    BY <1>2 DEF vars, work
  <1>3. CASE Alive
    BY <1>3, AliveLeaves
  <1>4. CASE MoveToDlq
    <2>1. Letters!Die
      BY <1>4 DEF Letters!Die, MoveToDlq, Others
    <2> QED BY <2>1 DEF Letters!Next
  <1>5. ASSUME NEW r \in Requests, Arrive(r) \/ Proceed(r)
        PROVE  [Letters!Next]_<<status = "dead", replayed, answer>>
    <2>1. answer[r] = "none" /\ pc[r] \in {"new", "first", "second"} /\ Held(r)
      BY <1>1, <1>5, RequestMoves
    <2>2. CASE Arrive(r)
      <3>1. \/ UNCHANGED <<status, replayed, answer>>
            \/ Letters!NotFound(r)
        BY <2>1, <2>2 DEF Arrive, work, IsRetry, Reply, Letters!NotFound, Letters!Answer
      <3> QED BY <3>1 DEF Letters!Next
    <2>3. CASE LockJob(r)
      <3>1. UNCHANGED <<status, replayed, answer>> \/ Letters!Refuse(r)
        BY <2>1, <2>3 DEF LockJob, work, Reply, Letters!Refuse, Letters!Answer
      <3> QED BY <3>1 DEF Letters!Next
    <2>4. CASE LockEntry(r)
      <3>1. UNCHANGED <<status, replayed, answer>> \/ Letters!Refuse(r)
        BY <2>1, <2>4 DEF LockEntry, work, Reply, Held, Letters!Refuse, Letters!Answer
      <3> QED BY <3>1 DEF Letters!Next
    <2>5. CASE RetryJob(r)
      <3>1. Letters!Requeue(r)
        BY <2>1, <2>5 DEF RetryJob, Requeued, Reply, IsRetry, Held, Superseded, Letters!Requeue, Letters!Answer
      <3> QED BY <3>1 DEF Letters!Next
    <2>6. CASE Replay(r)
      <3>1. Letters!Requeue(r) \/ Letters!Refuse(r)
        BY <2>1, <2>6
        DEF Replay, work, Requeued, Reply, IsRetry, Held, Pending, Letters!Requeue, Letters!Refuse, Letters!Answer
      <3> QED BY <3>1 DEF Letters!Next
    <2>7. CASE DeadlockDetected(r)
      <3>1. Letters!Fault(r)
        BY <2>1, <2>7 DEF DeadlockDetected, work, Reply, Letters!Fault, Letters!Answer
      <3> QED BY <3>1 DEF Letters!Next
    <2> QED BY <1>5, <2>2, <2>3, <2>4, <2>5, <2>6, <2>7 DEF Proceed
  <1> QED BY <1>2, <1>3, <1>4, <1>5 DEF Next, Task, Alive

(* The requests, locked row by row and interleaved with failures, edits of *)
(* the policy and each other, are requests carried out one at a time.      *)
THEOREM LettersImplemented == Spec => ImplementsDeadLetters
  <1>1. Init => Letters!Init
    BY DEF Init, Letters!Init
  <1>2. FailureInv /\ [Next]_vars => [Letters!Next]_<<status = "dead", replayed, answer>>
    BY LettersStep
  <1> QED BY <1>1, <1>2, FailureCorrect, PTL DEF Spec, ImplementsDeadLetters, Letters!Spec
-----------------------------------------------------------------------------
(* Multiplication is monotone.                                             *)
LEMMA Products ==
  /\ \A a, b \in Nat : a * b \in Nat
  /\ \A a, b, c \in Nat : b <= c => a * b <= a * c /\ b * a <= c * a
  OBVIOUS

(* A part in a hundred, rounded down, is no more than that.                *)
LEMMA Percentage ==
  ASSUME NEW a \in Nat
  PROVE  a \div 100 \in Nat /\ 100 * (a \div 100) <= a
  OBVIOUS

(* Powers of two are numbers, and grow: there are 2^n subsets of 1 .. n.   *)
LEMMA Powers ==
  ASSUME NEW n \in Nat
  PROVE  2^n \in Nat /\ 2^n <= 2^(n + 1)
  <1>1. ASSUME NEW m \in Nat
        PROVE  IsFiniteSet(SUBSET (1 .. m)) /\ Cardinality(SUBSET (1 .. m)) = 2^m
    <2>1. IsFiniteSet(1 .. m) /\ Cardinality(1 .. m) = m
      BY FS_Interval
    <2> QED BY <2>1, FS_SUBSET
  <1>2. SUBSET (1 .. n) \subseteq SUBSET (1 .. n + 1)
    OBVIOUS
  <1>3. Cardinality(SUBSET (1 .. n)) <= Cardinality(SUBSET (1 .. n + 1))
    BY <1>1, <1>2, FS_Subset
  <1>4. Cardinality(SUBSET (1 .. n)) = 2^n /\ Cardinality(SUBSET (1 .. n + 1)) = 2^(n + 1)
    <2>1. n + 1 \in Nat
      OBVIOUS
    <2> QED BY <1>1, <2>1, Zenon
  <1>5. Cardinality(SUBSET (1 .. n)) \in Nat
    BY <1>1, FS_CardinalityType
  <1> QED BY <1>3, <1>4, <1>5, Zenon

(* The least of two numbers is one of them, and grows with them.           *)
LEMMA Leasts ==
  /\ \A a, b \in Nat : Least(a, b) \in Nat /\ Least(a, b) <= b
  /\ \A a, b, c \in Nat : a <= c => Least(a, b) <= Least(c, b)
  BY DEF Least

(* The delay of an attempt, before jitter, is never over the cap, and that *)
(* of the next attempt is no shorter.                                      *)
LEMMA DelayGrows ==
  ASSUME NEW p \in PolicyType, NEW n \in Nat, n > 0
  PROVE  /\ CappedDelay(p, n) \in Nat /\ CappedDelay(p, n) <= p.max
         /\ CappedDelay(p, n) <= CappedDelay(p, n + 1)
  <1>1. p.base \in Nat /\ p.max \in Nat /\ p.strategy \in {"fixed", "linear", "exponential"}
    BY DEF PolicyType
  <1>2. Strategy(p, n) \in Nat /\ Strategy(p, n + 1) \in Nat /\ Strategy(p, n) <= Strategy(p, n + 1)
    <2>1. CASE p.strategy = "fixed"
      BY <1>1, <2>1 DEF Strategy
    <2>2. CASE p.strategy = "linear"
      <3>1. p.base * n \in Nat /\ p.base * (n + 1) \in Nat /\ p.base * n <= p.base * (n + 1)
        BY <1>1, Products
      <3> QED BY <2>2, <3>1 DEF Strategy
    <2>3. CASE p.strategy = "exponential"
      <3>1. n - 1 \in Nat /\ (n - 1) + 1 = n /\ (n + 1) - 1 = n
        OBVIOUS
      <3>2. 2^(n - 1) \in Nat /\ 2^n \in Nat /\ 2^(n - 1) <= 2^n
        BY <3>1, Powers
      <3>3. p.base * 2^(n - 1) \in Nat /\ p.base * 2^n \in Nat /\ p.base * 2^(n - 1) <= p.base * 2^n
        BY <1>1, <3>2, Products
      <3>4. Strategy(p, n) = Least(p.base * 2^(n - 1), p.max) /\ Strategy(p, n + 1) = Least(p.base * 2^n, p.max)
        BY <2>3, <3>1 DEF Strategy
      <3> QED BY <1>1, <3>3, <3>4, Leasts
    <2> QED BY <1>1, <2>1, <2>2, <2>3
  <1> QED BY <1>1, <1>2, Leasts DEF CappedDelay

(* With its jitter, a delay is over the cap by no more than the jitter;    *)
(* without any, there is just one delay.                                   *)
LEMMA DelayBound ==
  ASSUME NEW p \in PolicyType, NEW n \in Nat, n > 0, NEW d \in Delays(p, n)
  PROVE  /\ 100 * d <= p.max * (100 + p.jitter)
         /\ p.jitter = 0 => d = CappedDelay(p, n)
  <1> DEFINE c == CappedDelay(p, n)
             j == p.jitter
  <1>1. j \in Nat /\ p.max \in Nat /\ c \in Nat /\ c <= p.max
    BY DelayGrows DEF PolicyType
  <1> HIDE DEF c, j
  <1>2. c * j \in Nat /\ c * (100 + j) <= p.max * (100 + j) /\ c * (100 + j) = 100 * c + c * j
    BY <1>1, Products
  <1>3. (c * j) \div 100 \in Nat /\ 100 * ((c * j) \div 100) <= c * j
    BY <1>2, Percentage
  <1>4. d \in (c - ((c * j) \div 100)) .. (c + ((c * j) \div 100))
    BY DEF Delays, c, j
  <1>5. p.max * (100 + j) \in Nat
    BY <1>1, Products
  <1>6. 100 * d <= p.max * (100 + j)
    <2> DEFINE range == (c * j) \div 100
               most == p.max * (100 + j)
               product == c * j
    <2>1. /\ range \in Nat /\ most \in Nat /\ product \in Nat /\ c \in Nat
          /\ 100 * range <= product /\ 100 * c + product <= most /\ d \in (c - range) .. (c + range)
      BY <1>1, <1>2, <1>3, <1>4, <1>5
    <2> HIDE DEF range, most, product
    <2>2. 100 * d <= most
      BY <2>1
    <2> QED BY <2>2 DEF most
  <1>7. j = 0 => d = c
    <2> SUFFICES ASSUME j = 0 PROVE d = c
      OBVIOUS
    <2>1. (c * j) \div 100 = 0
      BY <1>1
    <2> QED BY <1>1, <1>4, <2>1
  <1> QED BY <1>6, <1>7 DEF c, j

(* While the policy is the one of the last failure, the delay is one of    *)
(* its, at the attempt the job is in; and a job that waits has waited, or  *)
(* will, all of it, up to the skew of the clocks.                          *)
DelayOfPolicy == steady /\ status # "dead" => attempts > 0 /\ drawn \in Delays(policy, attempts)
WaitsItOut == status = "retrying" => elapsed + wait + Skew >= drawn
DelayInv == DelayOfPolicy /\ WaitsItOut

(* No delay, and no wait, at first.                                        *)
LEMMA DelayInit == Init => DelayInv
  BY Settings DEF Init, DelayInv, DelayOfPolicy, WaitsItOut

(* A failure draws its delay from the policy of the moment.                *)
LEMMA DelayDrawn ==
  ASSUME TypeOK, RetryLater
  PROVE  /\ policy' = policy /\ status = "running" /\ status' = "retrying" /\ steady' = TRUE
         /\ attempts' = attempts + 1 /\ attempts' > 0 /\ attempts' \in Nat
         /\ drawn' \in Delays(policy, attempts') /\ drawn' \in Nat
         /\ elapsed' = 0 /\ wait' \in Nat /\ wait' + Skew >= drawn'
         /\ before' = IF steady THEN drawn ELSE 0
  <1>1. PICK d \in Delays(policy, attempts'), skew \in -Skew .. Skew :
           drawn' = d /\ wait' = IF d + skew < 0 THEN 0 ELSE d + skew
    BY DEF RetryLater
  <1>2. d \in Nat /\ Skew \in Nat
    BY <1>1, DelayType, Settings
  <1>3. wait' \in Nat /\ wait' + Skew >= d
    BY <1>1, <1>2
  <1> QED BY <1>1, <1>2, <1>3, Settings DEF TypeOK, RetryLater, Others

(* No delay is changed but by a failure and a request that requeues.       *)
LEMMA DelayStep ==
  ASSUME FailureInv, DelayInv, [Next]_vars
  PROVE  DelayInv'
  <1>1. TypeOK /\ DelayOfPolicy /\ WaitsItOut
    BY DEF FailureInv, DelayInv
  <1>2. CASE UNCHANGED vars
    BY <1>1, <1>2 DEF vars, work, DelayInv, DelayOfPolicy, WaitsItOut, Delays, CappedDelay, Strategy
  <1>3. CASE RetryLater
    BY <1>1, <1>3, DelayDrawn, Settings DEF DelayInv, DelayOfPolicy, WaitsItOut
  <1>4. CASE Run \/ Succeed \/ Promote
    BY <1>1, <1>4 DEF DelayInv, DelayOfPolicy, WaitsItOut, Run, Succeed, Promote, Others, Delayless
  <1>5. CASE MoveToDlq
    BY <1>5 DEF DelayInv, DelayOfPolicy, WaitsItOut, MoveToDlq
  <1>6. CASE Tock
    <2>1. UNCHANGED <<policy, status, attempts, drawn, steady>>
      BY <1>6 DEF Tock, Others
    <2>2. status = "retrying" => elapsed' + wait' = elapsed + wait
      BY <1>1, <1>6 DEF TypeOK, Tock
    <2> QED BY <1>1, <2>1, <2>2 DEF DelayInv, DelayOfPolicy, WaitsItOut
  <1>7. CASE EditPolicy
    BY <1>1, <1>7 DEF DelayInv, DelayOfPolicy, WaitsItOut, EditPolicy
  <1>8. ASSUME NEW r \in Requests, Arrive(r) \/ Proceed(r) PROVE DelayInv'
    <2>1. policy' = policy /\ (UNCHANGED work \/ Requeued)
      BY <1>8 DEF Arrive, Proceed, LockJob, LockEntry, RetryJob, Replay, DeadlockDetected, Request
    <2> QED BY <1>1, <2>1 DEF DelayInv, DelayOfPolicy, WaitsItOut, Requeued, work
  <1> QED BY <1>2, <1>3, <1>4, <1>5, <1>6, <1>7, <1>8 DEF Next, Task

(* What a step of the job says of its delays.                              *)
BackoffStep ==
  /\ status = "running" /\ status' = "retrying" =>
       /\ 100 * drawn' <= policy.max * (100 + policy.jitter)
       /\ policy.jitter = 0 => drawn' >= before'
  /\ status = "retrying" /\ status' = "queued" => elapsed + Skew >= drawn

(* Only a failure makes a running job wait, and only the scheduler brings  *)
(* it back from there: a retry that has locked the job, and a replay that  *)
(* gets that far, find it dead.                                            *)
LEMMA RequestSparesWaiting ==
  ASSUME FailureInv, NEW r \in Requests, Arrive(r) \/ Proceed(r)
  PROVE  status' = status \/ status = "dead"
  <1>1. Held(r)
    BY DEF FailureInv, LocksHeld, Held
  <1> QED BY <1>1 DEF Held, Arrive, Proceed, LockJob, LockEntry, RetryJob, Replay, DeadlockDetected, work

(* The delay a failure draws is within the cap and no shorter than the one *)
(* before, and a promoted job has waited.                                  *)
LEMMA BackoffOfStep ==
  ASSUME FailureInv, DelayInv, [Next]_vars
  PROVE  BackoffStep
  <1>1. TypeOK /\ DelayOfPolicy /\ WaitsItOut
    BY DEF FailureInv, DelayInv
  <1>2. CASE RetryLater
    <2>1. policy \in PolicyType
      BY <1>1, FailureAssumption DEF TypeOK, FailureAssumption
    <2>2. 100 * drawn' <= policy.max * (100 + policy.jitter)
      BY <1>1, <1>2, <2>1, DelayDrawn, DelayBound
    <2>3. ASSUME policy.jitter = 0 PROVE drawn' >= before'
      <3>1. drawn' = CappedDelay(policy, attempts + 1) /\ drawn' \in Nat
        BY <1>1, <1>2, <2>1, <2>3, DelayDrawn, DelayBound
      <3>2. CASE steady
        <4>1. attempts > 0 /\ attempts \in Nat /\ drawn \in Delays(policy, attempts)
          <5>1. status = "running"
            BY <1>1, <1>2, DelayDrawn
          <5>2. attempts \in Nat
            BY <1>1, Settings DEF TypeOK
          <5> QED BY <1>1, <3>2, <5>1, <5>2 DEF DelayOfPolicy
        <4>2. drawn = CappedDelay(policy, attempts) /\ before' = drawn /\ drawn \in Nat
          BY <1>1, <1>2, <2>1, <2>3, <3>2, <4>1, DelayDrawn, DelayBound DEF TypeOK
        <4> QED BY <2>1, <3>1, <4>1, <4>2, DelayGrows
      <3>3. CASE ~steady
        BY <1>1, <1>2, <3>1, <3>3, DelayDrawn
      <3> QED BY <3>2, <3>3
    <2>4. status # "retrying"
      BY <1>1, <1>2, DelayDrawn
    <2> QED BY <2>2, <2>3, <2>4 DEF BackoffStep
  <1>3. CASE Promote
    <2>1. wait = 0 /\ status = "retrying"
      BY <1>3 DEF Promote
    <2>2. elapsed + Skew >= drawn
      BY <1>1, <2>1, Settings DEF TypeOK, WaitsItOut
    <2> QED BY <2>1, <2>2 DEF BackoffStep
  <1>4. CASE Run \/ Succeed \/ MoveToDlq \/ Tock \/ EditPolicy \/ UNCHANGED vars
    BY <1>4 DEF BackoffStep, Run, Succeed, MoveToDlq, Tock, EditPolicy, vars, work
  <1>5. ASSUME NEW r \in Requests, Arrive(r) \/ Proceed(r) PROVE BackoffStep
    BY <1>5, RequestSparesWaiting DEF BackoffStep
  <1> QED BY <1>2, <1>3, <1>4, <1>5 DEF Next, Task

(* For any policies, edits, requests and skew of the clocks: no delay is   *)
(* over the cap of its policy by more than the jitter, none is shorter     *)
(* than the one before it under the same policy without jitter, and a job  *)
(* waits its delay out, up to the skew (retry.py:16-65).                   *)
THEOREM BackoffCorrect == Spec => Backoff
  <1>1. Spec => []DelayInv
    <2>1. FailureInv /\ DelayInv /\ [Next]_vars => DelayInv'
      BY DelayStep
    <2> QED BY <2>1, DelayInit, FailureCorrect, PTL DEF Spec
  <1>2. FailureInv /\ DelayInv /\ [Next]_vars => [BackoffStep]_vars
    BY BackoffOfStep
  <1>3. Backoff <=> [][BackoffStep]_vars
    BY DEF Backoff, BackoffStep
  <1> QED BY <1>1, <1>2, <1>3, FailureCorrect, PTL DEF Spec
=============================================================================
