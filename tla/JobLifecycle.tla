---------------------------- MODULE JobLifecycle ----------------------------
(***************************************************************************)
(* What Pulse promises about a job, whatever the workers, the scheduler,   *)
(* the reaper and the API do to it: the status diagram of the engine, with *)
(* the lease (jobs.lock_token) under which a job is claimed.               *)
(*                                                                         *)
(* A job is worked on under a lease.  A lease is acquired once, by a       *)
(* claim, is never handed out again, and the job leaves 'claimed' and      *)
(* 'running' only by giving it up.  'completed' is final; 'dead' is left   *)
(* only by an explicit replay.  'cancelled' is final in the diagram; in    *)
(* the code a promotion that was decided on before the cancellation, when  *)
(* the job was waiting, undoes it.                                         *)
(***************************************************************************)

CONSTANTS Jobs, Leases, NoLease

VARIABLES
    phase,   \* phase[j]: the status of job j, or "absent" before it is created
    lease,   \* lease[j]: the lease job j is held under, or NoLease
    picked,  \* the jobs the scheduler has decided to promote
    spent    \* the leases acquired so far

vars == <<phase, lease, picked, spent>>

Waiting == {"scheduled", "queued", "retrying"}
Active  == {"claimed", "running"}
Final   == {"completed", "cancelled"}
Phases  == {"absent", "dead"} \union Waiting \union Active \union Final

Init == /\ phase = [j \in Jobs |-> "absent"]
        /\ lease = [j \in Jobs |-> NoLease]
        /\ picked = {} /\ spent = {}

(* Job j moves from a phase in From to a phase in To.                      *)
Moves(j, From, To) == phase[j] \in From /\ phase'[j] \in To

Create(j)  == Moves(j, {"absent"}, {"scheduled", "queued"})
Promote(j) == j \in picked /\ Moves(j, {"scheduled", "retrying", "cancelled"}, {"queued"})
Cancel(j)  == Moves(j, Waiting, {"cancelled"})
Settle(j)  == Moves(j, {"running"}, {"completed", "retrying", "dead"})
Revoke(j)  == \/ Moves(j, Active, {"queued"})
              \/ Moves(j, {"running"}, {"dead"})
Replay(j)  == Moves(j, {"dead"}, {"queued"})

(* The steps that hold no lease once they are done.                        *)
Unleased(j) == /\ Create(j) \/ Promote(j) \/ Cancel(j) \/ Settle(j) \/ Revoke(j) \/ Replay(j)
               /\ lease'[j] = NoLease

Acquire(j) == /\ Moves(j, {"queued"}, {"claimed"})
              /\ lease'[j] \in Leases \ spent

Begin(j) == /\ Moves(j, {"claimed"}, {"running"})
            /\ lease'[j] = lease[j]

Stays(j) == phase'[j] = phase[j] /\ lease'[j] = lease[j]

(* A claim statement, a promotion or a reaper sweep moves several jobs at  *)
(* once, each by a step of its own.                                        *)
Next == /\ DOMAIN phase' = Jobs /\ DOMAIN lease' = Jobs
        /\ \A j \in Jobs : Unleased(j) \/ Acquire(j) \/ Begin(j) \/ Stays(j)
        /\ \A i, j \in Jobs : i # j /\ lease'[i] = lease'[j] => lease'[i] = NoLease
        /\ picked' \subseteq picked \union {j \in Jobs : phase[j] \in {"scheduled", "retrying"}}
        /\ spent' = spent \union {lease'[j] : j \in {i \in Jobs : Acquire(i)}}

Spec == Init /\ [][Next]_vars
=============================================================================
