------------------------ MODULE WorkerRegistryProofs -------------------------
(***************************************************************************)
(* RegistryInv is inductive for any number of workers and any settings     *)
(* with HeartbeatSec + 3 * Latency <= VisibilitySec; how the grace period  *)
(* compares with the timeout does not matter.  It speaks of the workers    *)
(* that have not stalled, and of a draining worker only as long as the     *)
(* timeout protects it; a worker only ever leaves either set.              *)
(***************************************************************************)
EXTENDS WorkerRegistry, TLAPS

(* The margin the visibility timeout leaves a heartbeat.                   *)
Margin == HeartbeatSec + 3 * Latency <= VisibilitySec

(* What RegistryInv says of one worker besides its type.                   *)
Sound(w) ==
    /\ Trusted(w) => Fresh(w) /\ row[w] \in {"alive", "draining"}
    /\ proc[w] = "up" => row[w] = "alive"
    /\ proc[w] = "unborn" => row[w] = "none"
    /\ w \in suspects => ~Trusted(w) /\ proc[w] # "unborn"

(* The registry starts empty, and so sound.                                *)
LEMMA RegistryInit == ASSUME Init PROVE RegistryInv
  BY RegistryAssumption DEF Init, RegistryInv, TypeOK, Punctual, Fresh, Trusted, RegistryAssumption

(* What is trusted is not stale: the timeout is longer than a heartbeat    *)
(* with its latencies, or than the rest of a shutdown.                     *)
LEMMA TrustedIsNotStale ==
  ASSUME RegistryInv, Margin, NEW w \in Workers \ stalled, Trusted(w)
  PROVE  age[w] <= VisibilitySec
  <1>1. Fresh(w) /\ age[w] \in Nat /\ timer[w] \in Nat /\ since[w] \in Nat
    BY DEF RegistryInv, TypeOK, Punctual
  <1>2. beat[w] \in {"sleep", "read", "listen", "over"}
    BY DEF RegistryInv, TypeOK, Punctual
  <1>3. beat[w] # "over" => age[w] <= HeartbeatSec + 3 * Latency
    BY <1>1, <1>2, RegistryAssumption DEF Fresh, RegistryAssumption
  <1>4. beat[w] = "over" => age[w] <= VisibilitySec
    BY <1>1, RegistryAssumption DEF Fresh, RegistryAssumption, Trusted, Margin, shutting_down
  <1> QED BY <1>1, <1>3, <1>4, RegistryAssumption DEF Margin, RegistryAssumption

(* Every step keeps the types.                                             *)
LEMMA TypeStep == ASSUME TypeOK, Next PROVE TypeOK'
  <1> USE RegistryAssumption DEF RegistryAssumption, TypeOK, loopVars, Loop, SetUpListener, NewRow, Cap, Down, Stage, Present
  <1>1. ASSUME NEW w \in Workers, Register(w) PROVE TypeOK' BY <1>1 DEF Register
  <1>2. ASSUME NEW w \in Workers, BeatRead(w) PROVE TypeOK'
    <2>1. CASE row[w] = "gone"
      <3>1. NewRow(w) /\ Loop(w, "listen") /\ UNCHANGED <<proc, mark, since, suspects, stalled>>
        BY <1>2, <2>1 DEF BeatRead
      <3> QED BY <3>1
    <2>2. CASE row[w] # "gone" /\ KillRequested(w) BY <1>2, <2>2 DEF BeatRead
    <2>3. CASE row[w] # "gone" /\ ~KillRequested(w)
      <3>1. PICK m \in Marks(w) : mark' = [mark EXCEPT ![w] = m]
        BY <1>2, <2>3 DEF BeatRead
      <3>2. m \in {"keep", "alive"} BY DEF Marks
      <3> QED BY <1>2, <2>3, <3>1, <3>2 DEF BeatRead
    <2> QED BY <2>1, <2>2, <2>3
  <1>3. ASSUME NEW w \in Workers, BeatWrite(w) PROVE TypeOK' BY <1>3 DEF BeatWrite, Stamp, Cap
  <1>4. ASSUME NEW w \in Workers, BeatFail(w) PROVE TypeOK' BY <1>4 DEF BeatFail
  <1>5. ASSUME NEW w \in Workers, Listen(w) PROVE TypeOK' BY <1>5 DEF Listen
  <1>6. ASSUME NEW w \in Workers, BeginShutdown(w) PROVE TypeOK' BY <1>6 DEF BeginShutdown
  <1>7. ASSUME NEW w \in Workers, MarkDraining(w) PROVE TypeOK' BY <1>7 DEF MarkDraining
  <1>8. ASSUME NEW w \in Workers, MarkSelfDead(w) PROVE TypeOK' BY <1>8 DEF MarkSelfDead
  <1>9. ASSUME NEW w \in Workers, Exit(w) PROVE TypeOK' BY <1>9 DEF Exit
  <1>10. ASSUME NEW w \in Workers, Kill(w) PROVE TypeOK' BY <1>10 DEF Kill
  <1>11. ASSUME Scan PROVE TypeOK' BY <1>11 DEF Scan, Stale
  <1>12. ASSUME MarkDead PROVE TypeOK' BY <1>12 DEF MarkDead
  <1>13. ASSUME NEW w \in Workers, Prune(w) PROVE TypeOK' BY <1>13 DEF Prune
  <1>14. ASSUME Tick PROVE TypeOK' BY <1>14 DEF Tick, Cap
  <1> QED
    BY <1>1, <1>2, <1>3, <1>4, <1>5, <1>6, <1>7, <1>8, <1>9, <1>10, <1>11, <1>12, <1>13, <1>14
    DEF Next, BeatStep, ShutdownStep, ReaperStep

(* A step that touches one worker, and suspects nobody new, keeps the      *)
(* others sound.                                                           *)
Same(v) == /\ proc'[v] = proc[v] /\ row'[v] = row[v] /\ age'[v] = age[v]
           /\ beat'[v] = beat[v] /\ timer'[v] = timer[v] /\ since'[v] = since[v]

(* Only the worker that moved has to be looked at.                         *)
LEMMA OthersStaySound ==
  ASSUME NEW w \in Workers, \A v \in Workers \ stalled : Sound(v), w \notin stalled' => Sound(w)',
         \A v \in Workers \ {w} : Same(v), suspects' \subseteq suspects, stalled \subseteq stalled'
  PROVE  \A v \in Workers \ stalled' : Sound(v)'
  <1> SUFFICES ASSUME NEW v \in Workers \ stalled', v # w PROVE Sound(v)'  OBVIOUS
  <1> QED BY DEF Same, Sound, Fresh, Trusted, shutting_down

(* A step of one worker, of the chaos button or of the pruning keeps every *)
(* worker sound: one step below for each action.                           *)
LEMMA WorkerStep ==
  ASSUME RegistryInv, TypeOK', Margin, NEW w \in Workers,
         \/ Register(w) \/ BeatStep(w) \/ BeginShutdown(w) \/ ShutdownStep(w)
         \/ Exit(w) \/ Kill(w) \/ Prune(w)
  PROVE  \A v \in Workers \ stalled' : Sound(v)'
  <1>0. TypeOK /\ (\A v \in Workers \ stalled : Sound(v))
    BY DEF RegistryInv, Sound, Punctual
  <1>q. Margin /\ RegistryAssumption
    BY RegistryAssumption
  <1>s. w \in Workers /\ (w \notin stalled => Sound(w))
    BY <1>0
  <1>o. ASSUME w \notin stalled' => Sound(w)', \A v \in Workers \ {w} : Same(v),
               suspects' = suspects, stalled \subseteq stalled'
        PROVE \A v \in Workers \ stalled' : Sound(v)'
    BY <1>0, <1>o, OthersStaySound
  <1> DEFINE Quiet == suspects' = suspects /\ stalled' = stalled /\ \A v \in Workers \ {w} : Same(v)
  <1>1. CASE Register(w)
    <2>1. Quiet BY <1>0, <1>1 DEF TypeOK, Register, SetUpListener, NewRow, Cap, Loop, Same
    <2>2. w \notin stalled' => Sound(w)'
      BY <1>0, <1>s, <1>1, RegistryAssumption
      DEF RegistryAssumption, TypeOK, Register, SetUpListener, NewRow, Cap, Loop, Sound, Fresh, Trusted, shutting_down
    <2> QED BY <1>o, <2>1, <2>2
  <1>2. CASE BeatRead(w)
    <2>1. Quiet BY <1>0, <1>2 DEF TypeOK, BeatRead, SetUpListener, NewRow, Cap, Down, Loop, Same
    <2>2. w \notin stalled' => Sound(w)'
      BY <1>0, <1>s, <1>2, RegistryAssumption
      DEF RegistryAssumption, TypeOK, BeatRead, SetUpListener, NewRow, Cap, Down, Loop, Sound, Fresh, Trusted, shutting_down, Alive
    <2> QED BY <1>o, <2>1, <2>2
  <1>3. CASE BeatWrite(w)
    <2>1. Quiet BY <1>0, <1>3 DEF TypeOK, BeatWrite, SetUpListener, Loop, Same
    <2>2. w \notin stalled' => Sound(w)'
      BY <1>0, <1>s, <1>3, RegistryAssumption
      DEF RegistryAssumption, TypeOK, BeatWrite, SetUpListener, Loop, Stamp, Cap, Sound, Fresh, Trusted, shutting_down, Alive
    <2> QED BY <1>o, <2>1, <2>2
  <1>4. CASE BeatFail(w)
    <2>1. suspects' = suspects /\ stalled \subseteq stalled' /\ \A v \in Workers \ {w} : Same(v)
      BY <1>0, <1>4 DEF TypeOK, BeatFail, SetUpListener, Loop, Same
    <2>2. w \notin stalled' => Sound(w)'
      BY <1>0, <1>s, <1>4 DEF TypeOK, BeatFail, SetUpListener, Loop, Sound, Fresh, Trusted
    <2> QED BY <1>o, <2>1, <2>2
  <1>5. CASE Listen(w)
    <2>1. Quiet BY <1>0, <1>5 DEF TypeOK, Listen, Loop, Same
    <2>2. w \notin stalled' => Sound(w)'
      BY <1>0, <1>s, <1>5, RegistryAssumption
      DEF RegistryAssumption, TypeOK, Listen, Loop, Sound, Fresh, Trusted, shutting_down, Alive
    <2> QED BY <1>o, <2>1, <2>2
  <1>6. CASE BeginShutdown(w)
    <2>1. Quiet BY <1>0, <1>6 DEF TypeOK, BeginShutdown, Stage, loopVars, Same
    <2>2. w \notin stalled' => Sound(w)'
      BY <1>0, <1>s, <1>6, RegistryAssumption
      DEF RegistryAssumption, TypeOK, BeginShutdown, Stage, loopVars, Sound, Fresh, Trusted, shutting_down
    <2> QED BY <1>o, <2>1, <2>2
  <1>7. CASE MarkDraining(w)
    <2>1. Quiet BY <1>0, <1>7 DEF TypeOK, MarkDraining, Stage, Present, loopVars, Same
    <2>2. w \notin stalled' => Sound(w)'
      BY <1>0, <1>s, <1>7, RegistryAssumption
      DEF RegistryAssumption, TypeOK, MarkDraining, Stage, Present, loopVars, Sound, Fresh, Trusted, shutting_down
    <2> QED BY <1>o, <2>1, <2>2
  <1>8. CASE MarkSelfDead(w)
    <2>1. Quiet BY <1>0, <1>8 DEF TypeOK, MarkSelfDead, Stage, Present, loopVars, Same
    <2>2. w \notin stalled' => Sound(w)' BY <1>0, <1>s, <1>8 DEF TypeOK, MarkSelfDead, Stage, Sound, Trusted
    <2> QED BY <1>o, <2>1, <2>2
  <1>9. CASE Exit(w)
    <2>1. Quiet BY <1>0, <1>9 DEF TypeOK, Exit, Down, Loop, Same
    <2>2. w \notin stalled' => Sound(w)' BY <1>0, <1>s, <1>9 DEF TypeOK, Exit, Down, Sound, Trusted
    <2> QED BY <1>o, <2>1, <2>2
  <1>10. CASE Kill(w)
    <2>1. Quiet /\ Same(w) BY <1>0, <1>10 DEF TypeOK, Kill, loopVars, Same
    <2>2. w \notin stalled' => Sound(w)' BY <1>s, <2>1 DEF Same, Sound, Fresh, Trusted, shutting_down
    <2> QED BY <1>o, <2>1, <2>2
  <1>11. CASE Prune(w)
    <2>1. Quiet BY <1>0, <1>11 DEF TypeOK, Prune, loopVars, Same
    <2>2. w \notin stalled' => Sound(w)'
      BY <1>0, <1>s, <1>11 DEF TypeOK, Prune, loopVars, Sound, Trusted
    <2> QED BY <1>o, <2>1, <2>2
  <1> QED BY <1>1, <1>2, <1>3, <1>4, <1>5, <1>6, <1>7, <1>8, <1>9, <1>10, <1>11 DEF BeatStep, ShutdownStep

(* So does a step of the reaper: nobody it finds stale is trusted.         *)
LEMMA ReaperKeepsSound ==
  ASSUME RegistryInv, Margin, Scan \/ MarkDead
  PROVE  \A v \in Workers \ stalled' : Sound(v)'
  <1>0. TypeOK /\ (\A v \in Workers \ stalled : Sound(v))
    BY DEF RegistryInv, Sound, Punctual
  <1> SUFFICES ASSUME NEW v \in Workers \ stalled' PROVE Sound(v)'  OBVIOUS
  <1>1. CASE Scan
    <2>1. Trusted(v) => v \notin Stale
      BY <1>0, <1>1, TrustedIsNotStale, RegistryAssumption DEF Scan, Stale, TypeOK, RegistryAssumption
    <2>2. proc[v] = "unborn" => v \notin suspects'
      BY <1>0, <1>1 DEF Scan, Stale, Sound
    <2> QED BY <1>0, <1>1, <2>1, <2>2 DEF Scan, loopVars, Sound, Fresh, Trusted, shutting_down
  <1>2. CASE MarkDead
    BY <1>0, <1>2 DEF TypeOK, MarkDead, loopVars, Sound, Fresh, Trusted, shutting_down
  <1> QED BY <1>1, <1>2

(* Time makes no one unsound: what is due is done before it passes.        *)
LEMMA TickKeepsSound ==
  ASSUME RegistryInv, Margin, Tick
  PROVE  \A v \in Workers \ stalled' : Sound(v)'
  <1>0. TypeOK /\ (\A v \in Workers \ stalled : Sound(v))
    BY DEF RegistryInv, Sound, Punctual
  <1> SUFFICES ASSUME NEW v \in Workers \ stalled' PROVE Sound(v)'  OBVIOUS
  <1>1. OnTime(v) /\ v \notin stalled BY DEF Tick
  <1> QED
    BY <1>0, <1>1, RegistryAssumption
    DEF RegistryAssumption, TypeOK, Tick, OnTime, Cap, Sound, Fresh, Trusted, shutting_down

(* Every step, also one that changes nothing, keeps RegistryInv.           *)
LEMMA RegistryStep == ASSUME RegistryInv, Margin, [Next]_vars PROVE RegistryInv'
  <1>1. CASE Next
    <2>1. TypeOK' BY <1>1, TypeStep DEF RegistryInv
    <2>2. \A v \in Workers \ stalled' : Sound(v)'
      BY <1>1, <2>1, WorkerStep, ReaperKeepsSound, TickKeepsSound DEF Next, ReaperStep
    <2> QED BY <2>1, <2>2 DEF RegistryInv, Sound, Punctual
  <1>2. CASE UNCHANGED vars
    BY <1>2 DEF vars, loopVars, RegistryInv, TypeOK, Punctual, Fresh, Trusted, shutting_down
  <1> QED BY <1>1, <1>2

(* The types hold with any settings.                                       *)
THEOREM TypeCorrect == Spec => []TypeOK
  <1>1. Init => TypeOK BY RegistryInit DEF RegistryInv
  <1>2. TypeOK /\ [Next]_vars => TypeOK'
    <2>1. ASSUME TypeOK, UNCHANGED vars PROVE TypeOK' BY <2>1 DEF vars, loopVars, TypeOK
    <2> QED BY TypeStep, <2>1
  <1> QED BY <1>1, <1>2, PTL DEF Spec

(* The invariant of the registry, whoever stalls.                          *)
THEOREM RegistryCorrect == ASSUME Margin PROVE Spec => []RegistryInv
  <1>1. Init => RegistryInv BY RegistryInit
  <1>2. RegistryInv /\ [Next]_vars => RegistryInv' BY RegistryStep
  <1> QED BY <1>1, <1>2, PTL DEF Spec

(* No live worker that keeps its heartbeat is ever declared dead, so the   *)
(* reaper does not take its jobs.                                          *)
THEOREM PunctualWorkersLive == ASSUME Margin PROVE Spec => []PunctualIsAlive
  <1>1. RegistryInv => PunctualIsAlive BY DEF RegistryInv, PunctualIsAlive
  <1> QED BY <1>1, RegistryCorrect, PTL

(* Nor is a draining one, however long its grace period is, before it has  *)
(* drained for VisibilitySec - 3 * Latency.                                *)
THEOREM DrainingWorkersKeepPeace == ASSUME Margin PROVE Spec => []DrainsInPeace
  <1>1. RegistryInv => DrainsInPeace BY DEF RegistryInv, DrainsInPeace, Trusted
  <1> QED BY <1>1, RegistryCorrect, PTL
-----------------------------------------------------------------------------
(* The registry and WorkerPresence.  What is needed of the states: only a  *)
(* worker that has not started has no row, and the reaper never suspects   *)
(* one.  It holds without any margin.                                      *)
Enrolled == \A w \in Workers : /\ proc[w] = "unborn" <=> row[w] = "none"
                               /\ w \in suspects => row[w] # "none"

ShownProc(p) == IF p \in {"draining", "leaving"} THEN "stopping" ELSE p
ShownRow(r) == CASE r = "draining" -> "alive" [] r = "gone" -> "dead" [] OTHER -> r

(* Every step keeps it.                                                    *)
LEMMA EnrolledStep == ASSUME TypeOK, Enrolled, [Next]_vars PROVE Enrolled'
  <1> USE DEF TypeOK, Enrolled
  <1>1. ASSUME NEW w \in Workers, Register(w) \/ Exit(w) \/ Kill(w) \/ BeginShutdown(w) \/ ShutdownStep(w) PROVE Enrolled'
    BY <1>1 DEF Register, Exit, Alive, Kill, BeginShutdown, ShutdownStep, MarkDraining, MarkSelfDead, NewRow, Down, Stage, Present
  <1>2. ASSUME NEW w \in Workers, BeatRead(w) PROVE Enrolled'
    BY <1>2 DEF BeatRead, Alive, NewRow, Down
  <1>3. ASSUME NEW w \in Workers, BeatWrite(w) \/ BeatFail(w) \/ Listen(w) PROVE Enrolled'
    <2>1. CASE BeatWrite(w)
      <3>1. proc[w] # "unborn" /\ mark[w] # "none"
        BY <2>1 DEF BeatWrite, Alive
      <3>2. /\ proc' = proc /\ suspects' = suspects
            /\ row' = [row EXCEPT ![w] = IF mark[w] = "keep" THEN @ ELSE mark[w]]
        BY <2>1 DEF BeatWrite
      <3> QED BY <3>1, <3>2
    <2>2. CASE BeatFail(w) \/ Listen(w) BY <2>2 DEF BeatFail, Listen
    <2> QED BY <1>3, <2>1, <2>2
  <1>4. ASSUME ReaperStep PROVE Enrolled'
    BY <1>4 DEF ReaperStep, Scan, Stale, MarkDead, Prune
  <1>5. ASSUME Tick \/ UNCHANGED vars PROVE Enrolled'
    BY <1>5 DEF Tick, vars
  <1> QED BY <1>1, <1>2, <1>3, <1>4, <1>5 DEF Next, BeatStep

(* A step that shows one worker w anew and leaves the others as they were. *)
Shows(w) == /\ \A v \in Workers \ {w} : proc'[v] = proc[v] /\ row'[v] = row[v]
            /\ \/ ShownProc(proc'[w]) = ShownProc(proc[w]) /\ ShownRow(row'[w]) = ShownRow(row[w])
               \/ proc[w] = "unborn" /\ proc'[w] = "up" /\ row'[w] = "alive"
               \/ /\ Alive(w) /\ row[w] \in {"dead", "gone"} /\ row'[w] \in {"alive", "draining"}
                  /\ ShownProc(proc'[w]) = ShownProc(proc[w])
               \/ proc[w] = "up" /\ proc'[w] = "stopping" /\ row'[w] = row[w]
               \/ proc[w] = "draining" /\ proc'[w] = "leaving" /\ row'[w] \in {"dead", "gone"}
               \/ Alive(w) /\ proc'[w] = "down" /\ row'[w] = row[w]

(* Such a step is a step of WorkerPresence or none.                        *)
LEMMA ShowsStep == ASSUME TypeOK, TypeOK', NEW w \in Workers, Shows(w) PROVE [Presence!Next]_(Presence!vars)
  <1> DEFINE P == [v \in Workers |-> IF proc[v] \in {"draining", "leaving"} THEN "stopping" ELSE proc[v]]
             R == [v \in Workers |-> CASE row[v] = "draining" -> "alive" [] row[v] = "gone" -> "dead"
                                        [] OTHER -> row[v]]
  <1>1. /\ \A v \in Workers : P[v] = ShownProc(proc[v]) /\ R[v] = ShownRow(row[v])
        /\ \A v \in Workers : P'[v] = ShownProc(proc'[v]) /\ R'[v] = ShownRow(row'[v])
    BY DEF ShownProc, ShownRow
  <1>2. \A v \in Workers \ {w} : P'[v] = P[v] /\ R'[v] = R[v]
    BY <1>1 DEF Shows
  <1>3. /\ P' = [P EXCEPT ![w] = P'[w]] /\ R' = [R EXCEPT ![w] = R'[w]]
        /\ P'[w] = P[w] => P' = P
        /\ R'[w] = R[w] => R' = R
    BY <1>2
  <1>4. CASE P'[w] = P[w] /\ R'[w] = R[w]
    BY <1>3, <1>4 DEF Presence!vars
  <1>5. CASE ~(P'[w] = P[w] /\ R'[w] = R[w])
    <2>1. \/ P[w] = "unborn" /\ P'[w] = "up" /\ R'[w] = "alive"
          \/ P[w] \in {"up", "stopping"} /\ R[w] = "dead" /\ R'[w] = "alive" /\ P'[w] = P[w]
          \/ P[w] = "up" /\ P'[w] = "stopping" /\ R'[w] = R[w]
          \/ P[w] = "stopping" /\ P'[w] = P[w] /\ R'[w] = "dead"
          \/ P[w] \in {"up", "stopping"} /\ P'[w] = "down" /\ R'[w] = R[w]
      BY <1>1, <1>5 DEF Shows, ShownProc, ShownRow, Alive
    <2>2. \/ Presence!Register(w) \/ Presence!Revive(w) \/ Presence!BeginShutdown(w)
          \/ Presence!MarkSelfDead(w) \/ Presence!Crash(w)
      BY <1>3, <2>1 DEF Presence!Register, Presence!Revive, Presence!BeginShutdown, Presence!MarkSelfDead,
                        Presence!Crash, Presence!Proc, Presence!Row, Presence!Alive
    <2> QED BY <2>2 DEF Presence!Next
  <1> QED BY <1>4, <1>5

(* Every step of the registry is one of WorkerPresence or none.            *)
LEMMA PresenceStep == ASSUME TypeOK, TypeOK', Enrolled, [Next]_vars PROVE [Presence!Next]_(Presence!vars)
  <1>1. ASSUME NEW w \in Workers, Register(w) \/ Exit(w) \/ Kill(w) \/ BeginShutdown(w) \/ Prune(w) PROVE Shows(w)
    BY <1>1 DEF TypeOK, Shows, ShownProc, ShownRow, Register, Exit, Kill, BeginShutdown, Prune, NewRow, Down, Stage
  <1>2. ASSUME NEW w \in Workers, ShutdownStep(w) PROVE Shows(w)
    <2>1. proc[w] \in {"stopping", "draining"} /\ row[w] \in {"alive", "draining", "dead", "gone"}
      BY <1>2 DEF TypeOK, Enrolled, ShutdownStep, MarkDraining, MarkSelfDead
    <2>2. \A v \in Workers \ {w} : proc'[v] = proc[v] /\ row'[v] = row[v]
      BY <1>2 DEF TypeOK, ShutdownStep, MarkDraining, MarkSelfDead, Stage, Present
    <2>3. CASE MarkDraining(w)
      <3>1. proc[w] = "stopping" /\ proc'[w] = "draining" /\ row'[w] = IF row[w] = "gone" THEN "gone" ELSE "draining"
        BY <2>3 DEF TypeOK, MarkDraining, Stage, Present
      <3> QED BY <2>1, <2>2, <3>1 DEF Shows, ShownProc, ShownRow, Alive
    <2>4. CASE MarkSelfDead(w)
      <3>1. proc[w] = "draining" /\ proc'[w] = "leaving" /\ row'[w] = IF row[w] = "gone" THEN "gone" ELSE "dead"
        BY <2>4 DEF TypeOK, MarkSelfDead, Stage, Present
      <3> QED BY <2>1, <2>2, <3>1 DEF Shows
    <2> QED BY <1>2, <2>3, <2>4 DEF ShutdownStep
  <1>3. ASSUME NEW w \in Workers, BeatRead(w) PROVE Shows(w)
    BY <1>3 DEF TypeOK, Shows, ShownProc, ShownRow, BeatRead, NewRow, Down, Alive
  <1>4. ASSUME NEW w \in Workers, BeatFail(w) \/ Listen(w) PROVE Shows(w)
    BY <1>4 DEF Shows, BeatFail, Listen
  <1>7. ASSUME NEW w \in Workers, BeatWrite(w) PROVE Shows(w)
    <2>1. Alive(w) /\ row[w] \in {"alive", "draining", "dead"}
      BY <1>7 DEF TypeOK, Enrolled, BeatWrite, Alive
    <2>2. /\ proc' = proc /\ row'[w] \in {row[w], "alive"}
          /\ \A v \in Workers \ {w} : row'[v] = row[v]
      BY <1>7 DEF TypeOK, BeatWrite
    <2> QED BY <2>1, <2>2 DEF Shows, ShownProc, ShownRow
  <1>5. ASSUME Scan \/ Tick \/ UNCHANGED vars PROVE UNCHANGED Presence!vars
    BY <1>5 DEF Scan, Tick, vars, Presence!vars
  <1>6. ASSUME MarkDead PROVE Presence!Next
    <2> DEFINE D == {w \in suspects : row[w] \in {"alive", "draining"}}
               R == [v \in Workers |-> CASE row[v] = "draining" -> "alive" [] row[v] = "gone" -> "dead"
                                          [] OTHER -> row[v]]
    <2>1. D \in SUBSET Workers /\ \A w \in D : R[w] = "alive"
      BY DEF TypeOK
    <2>2. proc' = proc /\ \A w \in Workers : row'[w] = IF w \in suspects /\ row[w] # "gone" THEN "dead" ELSE row[w]
      BY <1>6 DEF MarkDead
    <2>3. \A w \in Workers : R'[w] = IF w \in D THEN "dead" ELSE R[w]
      <3> SUFFICES ASSUME NEW w \in Workers PROVE R'[w] = IF w \in D THEN "dead" ELSE R[w]
        OBVIOUS
      <3>1. /\ row[w] \in {"none", "alive", "draining", "dead", "gone"}
            /\ w \in suspects => row[w] # "none"
        BY DEF TypeOK, Enrolled
      <3>2. R[w] = ShownRow(row[w]) /\ R'[w] = ShownRow(row'[w])
        BY DEF ShownRow
      <3> QED BY <2>2, <3>1, <3>2 DEF ShownRow
    <2>4. R' = [w \in Workers |-> IF w \in D THEN "dead" ELSE R[w]]
      BY <2>3
    <2> HIDE DEF D
    <2> QED BY <2>1, <2>2, <2>4 DEF Presence!Next, Presence!Declare
  <1> QED BY <1>1, <1>2, <1>3, <1>4, <1>5, <1>6, <1>7, ShowsStep DEF Next, BeatStep, ReaperStep

(* The job engine takes workers as WorkerPresence has them.  Whatever the  *)
(* timeouts and however late heartbeats, marks and signals are, no worker  *)
(* does anything else: the safety part of ImplementsPresence.              *)
THEOREM PresenceIsSound == Spec => Presence!Init /\ [][Presence!Next]_(Presence!vars)
  <1>1. Init => Presence!Init /\ Enrolled
    BY DEF Init, Presence!Init, Enrolled
  <1>2. TypeOK /\ Enrolled /\ [Next]_vars => Enrolled'
    BY EnrolledStep
  <1>3. TypeOK /\ TypeOK' /\ Enrolled /\ [Next]_vars => [Presence!Next]_(Presence!vars)
    BY PresenceStep
  <1> QED BY <1>1, <1>2, <1>3, TypeCorrect, PTL DEF Spec
=============================================================================
