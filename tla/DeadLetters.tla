----------------------------- MODULE DeadLetters -----------------------------
(***************************************************************************)
(* What the dead letter queue of one job promises: every death leaves one  *)
(* entry, the job can be brought back once for it, by a retry of the job   *)
(* or a replay of the entry, and a request is refused only where there is  *)
(* nothing to bring back.  Each request is carried out at once.            *)
(***************************************************************************)
EXTENDS Naturals, Sequences

CONSTANTS
    Requests,   \* the requests ever made
    Entry       \* Entry[r]: the number of the entry r replays, 0 for a retry of the job

VARIABLES
    dead,       \* the job is dead
    replayed,   \* replayed[e]: replayed_at of the e-th entry is set
    answer      \* answer[r]: the outcome of r

Answer(r, code) == answer[r] = "none" /\ answer' = [answer EXCEPT ![r] = code]

Init == dead = FALSE /\ replayed = <<>> /\ answer = [r \in Requests |-> "none"]

Die == ~dead /\ dead' = TRUE /\ replayed' = Append(replayed, FALSE) /\ UNCHANGED answer

Requeue(r) ==
    /\ dead /\ dead' = FALSE /\ Answer(r, "requeued")
    /\ \/ Entry[r] = 0 /\ replayed' = [e \in DOMAIN replayed |-> TRUE]
       \/ /\ Entry[r] \in DOMAIN replayed /\ ~replayed[Entry[r]]
          /\ replayed' = [replayed EXCEPT ![Entry[r]] = TRUE]

Refuse(r) ==
    /\ \/ ~dead
       \/ Entry[r] \in DOMAIN replayed /\ replayed[Entry[r]]
    /\ Answer(r, "conflict") /\ UNCHANGED <<dead, replayed>>

NotFound(r) ==
    /\ Entry[r] # 0 /\ Entry[r] \notin DOMAIN replayed
    /\ Answer(r, "notfound") /\ UNCHANGED <<dead, replayed>>

(* An error leaves everything as it is.                                    *)
Fault(r) == Answer(r, "error") /\ UNCHANGED <<dead, replayed>>

Next == Die \/ \E r \in Requests : Requeue(r) \/ Refuse(r) \/ NotFound(r) \/ Fault(r)
Spec == Init /\ [][Next]_<<dead, replayed, answer>>
=============================================================================
