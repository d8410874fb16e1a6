--------------------------- MODULE WorkerRegistry ----------------------------
(***************************************************************************)
(* How Pulse knows which workers are alive: the heartbeat loop and the     *)
(* shutdown of a worker process (worker/main.py), the staleness test of    *)
(* the reaper (engine/reaper.py, engine/scheduler.py) and the chaos kill   *)
(* (api/chaos.py), in discrete time.                                       *)
(*                                                                         *)
(* A heartbeat reads the row and writes it in one transaction that takes   *)
(* no lock before the write, so it is two steps; so are the reaper's scan  *)
(* and its marks.  The ORM writes only the columns it changed.             *)
(*                                                                         *)
(* Idle and active are one value, "alive", of workers.status.              *)
(***************************************************************************)
EXTENDS Naturals

CONSTANTS
    Workers,
    HeartbeatSec,     \* heartbeat_sec
    VisibilitySec,    \* visibility_timeout_sec
    GraceSec,         \* worker_shutdown_grace_sec
    Latency           \* how long a transaction or a reconnect of the listener takes at most, unless it stalls

ASSUME RegistryAssumption == {HeartbeatSec, VisibilitySec, GraceSec, Latency} \subseteq Nat \ {0}

VARIABLES
    proc,       \* proc[w]: the life of the process; after a signal it is "stopping", "draining", "leaving", "down"
    row,        \* row[w]: workers.status of w; "gone" once the row was pruned
    age,        \* age[w]: time since workers.last_heartbeat_at
    flag,       \* flag[w]: chaos_kill_requested_at is set
    beat,       \* beat[w]: where the heartbeat loop is
    mark,       \* mark[w]: the status its open transaction will write, "keep" if that column did not change
    timer,      \* timer[w]: time the loop has spent there
    since,      \* since[w]: time the shutdown has spent in its present stage
    suspects,   \* the rows the reaper's open transaction found stale
    stalled     \* history: the workers that have stalled or lost a heartbeat to an error so far

loopVars == <<beat, mark, timer>>
vars == <<proc, row, age, flag, loopVars, since, suspects, stalled>>

Alive(w) == proc[w] \in {"up", "stopping", "draining", "leaving"}
shutting_down(w) == proc[w] # "up"
Cap(n, limit) == IF n > limit THEN limit ELSE n

Init == /\ proc = [w \in Workers |-> "unborn"] /\ row = [w \in Workers |-> "none"]
        /\ age = [w \in Workers |-> 0] /\ flag = [w \in Workers |-> FALSE]
        /\ beat = [w \in Workers |-> "over"] /\ mark = [w \in Workers |-> "keep"]
        /\ timer = [w \in Workers |-> 0] /\ since = [w \in Workers |-> 0]
        /\ suspects = {} /\ stalled = {}
-----------------------------------------------------------------------------
(* The worker.                                                             *)

(* register up to the commit, since when the row shows: last_heartbeat_at  *)
(* is older by the time the transaction took.                              *)
NewRow(w) == /\ row' = [row EXCEPT ![w] = "alive"]
             /\ \E a \in 0..Latency : age' = [age EXCEPT ![w] = Cap(a, VisibilitySec + 1)]
             /\ flag' = [flag EXCEPT ![w] = FALSE]

Loop(w, place) == beat' = [beat EXCEPT ![w] = place] /\ timer' = [timer EXCEPT ![w] = 0]

(* main sets up the listener before it starts the loops; heartbeat_loop    *)
(* does it again at the end of a round.                                    *)
SetUpListener(w) == Loop(w, "listen")

Register(w) ==
    /\ proc[w] = "unborn"
    /\ proc' = [proc EXCEPT ![w] = "up"]
    /\ NewRow(w) /\ SetUpListener(w)
    /\ UNCHANGED <<mark, since, suspects, stalled>>

(* The process ends and takes its heartbeat loop along.                    *)
Down(w) == /\ proc' = [proc EXCEPT ![w] = "down"]
           /\ Loop(w, "over")
           /\ mark' = [mark EXCEPT ![w] = "keep"] /\ since' = [since EXCEPT ![w] = 0]
           /\ UNCHANGED <<row, age, flag, suspects, stalled>>

(* A crash, a kill (also the NOTIFY of the chaos button), a failing        *)
(* shutdown, or the end of one.                                            *)
Exit(w) == Alive(w) /\ Down(w)

(* The status a heartbeat writes.  As long as no shutdown has begun, a dead*)
(* or draining row becomes alive; of an alive row the column may change    *)
(* (idle, active) or not.                                                  *)
NeverRevives(w) == IF shutting_down(w) \/ row[w] = "dead" THEN {"keep"} ELSE {"keep", "alive"}  \* mutant
Marks(w) == IF shutting_down(w) THEN {"keep"} ELSE IF row[w] = "alive" THEN {"keep", "alive"} ELSE {"alive"}

FlagUnread(w) == FALSE  \* mutant
KillRequested(w) == flag[w]

(* _heartbeat_once up to the commit: a missing row is registered anew, a   *)
(* kill flag ends the process.                                             *)
BeatRead(w) ==
    /\ Alive(w) /\ beat[w] = "sleep" /\ timer[w] >= HeartbeatSec
    /\ \/ row[w] = "gone" /\ NewRow(w) /\ SetUpListener(w) /\ UNCHANGED <<proc, mark, since, suspects, stalled>>
       \/ row[w] # "gone" /\ KillRequested(w) /\ Down(w)
       \/ /\ row[w] # "gone" /\ ~KillRequested(w)
          /\ \E m \in Marks(w) : mark' = [mark EXCEPT ![w] = m]
          /\ Loop(w, "read")
          /\ UNCHANGED <<proc, row, age, flag, since, suspects, stalled>>

(* Its commit: last_heartbeat_at is the time of the read.                  *)
StampOnChange(w) == IF mark[w] = "keep" THEN age[w] ELSE timer[w]  \* mutant
Stamp(w) == timer[w]

BeatWrite(w) ==
    /\ Alive(w) /\ beat[w] = "read" /\ row[w] # "gone"
    /\ row' = [row EXCEPT ![w] = IF mark[w] = "keep" THEN @ ELSE mark[w]]
    /\ age' = [age EXCEPT ![w] = Cap(Stamp(w), VisibilitySec + 1)]
    /\ mark' = [mark EXCEPT ![w] = "keep"]
    /\ SetUpListener(w)
    /\ UNCHANGED <<proc, flag, since, suspects, stalled>>

(* The heartbeat raises: heartbeat_loop logs it and goes on.               *)
BeatFail(w) ==
    /\ Alive(w) /\ beat[w] = "read"
    /\ stalled' = IF row[w] = "gone" THEN stalled ELSE stalled \cup {w}
    /\ mark' = [mark EXCEPT ![w] = "keep"]
    /\ SetUpListener(w)
    /\ UNCHANGED <<proc, row, age, flag, since, suspects>>

(* The listener is set up and the loop looks at its condition.             *)
Listen(w) ==
    /\ Alive(w) /\ beat[w] = "listen"
    /\ Loop(w, IF shutting_down(w) THEN "over" ELSE "sleep")
    /\ UNCHANGED <<proc, row, age, flag, mark, since, suspects, stalled>>

Stage(w, p) == proc' = [proc EXCEPT ![w] = p] /\ since' = [since EXCEPT ![w] = 0]
Present(w, s) == row' = [row EXCEPT ![w] = IF @ = "gone" THEN @ ELSE s]

(* shutdown: first the flag, then the draining row, then up to GraceSec for*)
(* the tasks in flight, then the dead row.                                 *)
BeginShutdown(w) ==
    /\ proc[w] = "up" /\ Stage(w, "stopping")
    /\ UNCHANGED <<row, age, flag, loopVars, suspects, stalled>>

MarkDraining(w) ==
    /\ proc[w] = "stopping" /\ Stage(w, "draining")
    /\ Present(w, "draining")
    /\ UNCHANGED <<age, flag, loopVars, suspects, stalled>>

MarkSelfDead(w) ==
    /\ proc[w] = "draining" /\ Stage(w, "leaving")
    /\ Present(w, "dead")
    /\ age' = [age EXCEPT ![w] = IF row[w] = "gone" THEN @ ELSE 0]
    /\ UNCHANGED <<flag, loopVars, suspects, stalled>>
-----------------------------------------------------------------------------
(* The chaos button picks a worker that looks alive.                       *)
Kill(w) ==
    /\ row[w] = "alive" /\ age[w] <= VisibilitySec /\ ~flag[w]
    /\ flag' = [flag EXCEPT ![w] = TRUE]
    /\ UNCHANGED <<proc, row, age, loopVars, since, suspects, stalled>>

(* The reaper, one at a time under its advisory lock.                      *)
StaleActive == {w \in Workers : row[w] = "alive" /\ age[w] > VisibilitySec}  \* mutant
StaleAtTimeout == {w \in Workers : row[w] \in {"alive", "draining"} /\ age[w] >= VisibilitySec}  \* mutant
Stale == {w \in Workers : row[w] \in {"alive", "draining"} /\ age[w] > VisibilitySec}

Scan == /\ suspects = {} /\ Stale # {}
        /\ suspects' = Stale
        /\ UNCHANGED <<proc, row, age, flag, loopVars, since, stalled>>

(* The marks are written by primary key, whatever the row says by now.     *)
MarkDead == /\ suspects # {}
            /\ row' = [w \in Workers |-> IF w \in suspects /\ row[w] # "gone" THEN "dead" ELSE row[w]]
            /\ suspects' = {}
            /\ UNCHANGED <<proc, age, flag, loopVars, since, stalled>>

(* prune_telemetry; dead_worker_retention_hours is far beyond the timeout. *)
Prune(w) == /\ suspects = {} /\ row[w] = "dead" /\ age[w] > VisibilitySec
            /\ row' = [row EXCEPT ![w] = "gone"]
            /\ UNCHANGED <<proc, age, flag, loopVars, since, suspects, stalled>>
-----------------------------------------------------------------------------
(* A step of time.  An event loop that does not stall has run what is due.  *)
OnTime(w) ==
    /\ beat[w] = "sleep" => timer[w] < HeartbeatSec
    /\ beat[w] \in {"read", "listen"} => timer[w] < Latency
    /\ proc[w] = "stopping" => since[w] < Latency
    /\ proc[w] = "draining" => since[w] < GraceSec
    /\ proc[w] # "leaving"

Tick == /\ stalled' = stalled \cup {w \in Workers : ~OnTime(w)}
        /\ age' = [w \in Workers |-> Cap(age[w] + 1, VisibilitySec + 1)]
        /\ timer' = [w \in Workers |-> IF beat[w] = "over" THEN 0 ELSE Cap(timer[w] + 1, HeartbeatSec + Latency)]
        /\ since' = [w \in Workers |-> IF proc[w] \in {"stopping", "draining"}
                                       THEN Cap(since[w] + 1, GraceSec + Latency) ELSE since[w]]
        /\ UNCHANGED <<proc, row, flag, beat, mark, suspects>>

BeatStep(w) == BeatRead(w) \/ BeatWrite(w) \/ BeatFail(w) \/ Listen(w)
ShutdownStep(w) == MarkDraining(w) \/ MarkSelfDead(w)
ReaperStep == Scan \/ MarkDead \/ \E w \in Workers : Prune(w)

Next == \/ \E w \in Workers : \/ Register(w) \/ BeatStep(w) \/ BeginShutdown(w) \/ ShutdownStep(w)
                              \/ Exit(w) \/ Kill(w)
        \/ ReaperStep \/ Tick

Spec == Init /\ [][Next]_vars

(* Time passes, the loops of a live process run and stalls end, not every  *)
(* heartbeat fails, a shutdown ends with the process, and the reaper ticks.*)
Fairness ==
    /\ WF_vars(Tick) /\ WF_vars(Scan) /\ WF_vars(MarkDead)
    /\ \A w \in Workers : /\ WF_vars(BeatRead(w)) /\ WF_vars(Listen(w)) /\ SF_vars(BeatWrite(w))
                          /\ WF_vars(BeatWrite(w) \/ BeatFail(w))
                          /\ WF_vars(ShutdownStep(w))
                          /\ WF_vars(proc[w] = "leaving" /\ Exit(w))

FairSpec == Spec /\ Fairness
-----------------------------------------------------------------------------
TypeOK ==
    /\ proc \in [Workers -> {"unborn", "up", "stopping", "draining", "leaving", "down"}]
    /\ row \in [Workers -> {"none", "alive", "draining", "dead", "gone"}]
    /\ age \in [Workers -> 0..VisibilitySec + 1]
    /\ flag \in [Workers -> BOOLEAN]
    /\ beat \in [Workers -> {"sleep", "read", "listen", "over"}]
    /\ mark \in [Workers -> {"keep", "alive"}]
    /\ timer \in [Workers -> 0..HeartbeatSec + Latency]
    /\ since \in [Workers -> 0..GraceSec + Latency]
    /\ suspects \subseteq Workers
    /\ stalled \subseteq Workers

Punctual == Workers \ stalled

(* A worker whose loop has not stalled is never declared dead, whatever the *)
(* others do: its jobs are not taken away and run a second time elsewhere. *)
PunctualIsAlive == \A w \in Punctual : proc[w] = "up" => row[w] = "alive"

(* Although the heartbeat loop ends with the shutdown, a worker is not     *)
(* declared dead while it drains its jobs, until all of the visibility     *)
(* timeout but three latencies is over.  Nothing more: the shipped grace   *)
(* period (k8s/base/worker.yaml, config.py) is as long as the timeout,     *)
(* so jobs that drain longer than that are taken away and run twice.       *)
DrainsInPeace == \A w \in Punctual :
    proc[w] = "stopping" \/ (proc[w] = "draining" /\ 3 * Latency + since[w] <= VisibilitySec)
        => row[w] \notin {"dead", "gone"}

(* Why neither happens to a punctual worker: its last_heartbeat_at is at   *)
(* most two latencies older than the heartbeat or the end of the loop it   *)
(* stems from.  The workers the timeout protects:                          *)
Trusted(w) == \/ proc[w] \in {"up", "stopping"}
              \/ proc[w] = "draining" /\ 3 * Latency + since[w] <= VisibilitySec

Fresh(w) ==
    /\ beat[w] = "sleep"  => timer[w] <= HeartbeatSec /\ age[w] <= 2 * Latency + timer[w]
    /\ beat[w] = "read"   => timer[w] <= Latency /\ age[w] <= HeartbeatSec + 2 * Latency + timer[w]
    /\ beat[w] = "listen" => timer[w] <= Latency /\ age[w] <= Latency + timer[w]
    /\ beat[w] = "over"   => shutting_down(w)
    /\ proc[w] = "stopping" => since[w] <= Latency /\ (beat[w] = "over" => age[w] <= 2 * Latency + since[w])
    /\ proc[w] = "draining" => since[w] <= GraceSec /\ (beat[w] = "over" => age[w] <= 3 * Latency + since[w])

(* The inductive invariant: a punctual worker that is trusted is fresh,    *)
(* shows in the table and is no suspect of the reaper.                     *)
RegistryInv ==
    /\ TypeOK
    /\ \A w \in Punctual :
         /\ Trusted(w) => Fresh(w) /\ row[w] \in {"alive", "draining"}
         /\ proc[w] = "up" => row[w] = "alive"
         /\ proc[w] = "unborn" => row[w] = "none"
         /\ w \in suspects => ~Trusted(w) /\ proc[w] # "unborn"

(* A worker that was declared dead (or pruned) too early comes back by its *)
(* own heartbeat, however reads and writes of it and the reaper overlap.   *)
Revived == \A w \in Workers :
    proc[w] = "up" /\ row[w] \in {"dead", "gone"} ~> row[w] = "alive" \/ proc[w] # "up"

(* A chaos kill takes effect even when its notification is lost.           *)
KillWorks == \A w \in Workers : flag[w] ~> proc[w] = "down" \/ ~flag[w]

(* The registry keeps what the job engine counts on.                       *)
Presence == INSTANCE WorkerPresence WITH
    proc <- [w \in Workers |-> IF proc[w] \in {"draining", "leaving"} THEN "stopping" ELSE proc[w]],
    row  <- [w \in Workers |-> CASE row[w] = "draining" -> "alive" [] row[w] = "gone" -> "dead"
                                 [] OTHER -> row[w]]

(* In particular a process that is down does not stay alive in the table,  *)
(* wherever in its heartbeat or its shutdown it ended.                     *)
ImplementsPresence == Presence!Spec
=============================================================================
