---------------------------- MODULE JobDirectory ----------------------------
(***************************************************************************)
(* What POST /jobs and POST /jobs/batch promise the clients of one queue:  *)
(* each request is carried out at once and as a whole.  A key names at     *)
(* most one job; who asks for a key that is taken is given that job, and   *)
(* is refused only where the queue has gone or a batch asks for a key that *)
(* is taken, or for one key twice.                                         *)
(***************************************************************************)
EXTENDS Naturals, Sequences

CONSTANTS
    Requests,        \* the requests ever made
    Batches,         \* those of them that are batches
    Wants,           \* Wants[r]: the idempotency keys of the jobs r asks for
    NoKey, NoJob     \* no key (None), no job

VARIABLES
    there,    \* the queue exists
    jobs,     \* the jobs in it; the job of the i-th key of request r is <<r, i>>
    answer    \* answer[r]: the code of the response and the job it names

KeyOf(j) == Wants[j[1]][j[2]]
RowsOf(r) == {r} \X (1 .. Len(Wants[r]))
Answer(r, code, j) == answer' = [answer EXCEPT ![r] = [code |-> code, job |-> j]]
Unanswered(r) == answer[r].code = "none"
Taken(k) == \E j \in jobs : k # NoKey /\ KeyOf(j) = k
Clashes(r) == \E i, k \in DOMAIN Wants[r] : i # k /\ Wants[r][i] # NoKey /\ Wants[r][i] = Wants[r][k]

Init == there = TRUE /\ jobs = {} /\ answer = [r \in Requests |-> [code |-> "none", job |-> NoJob]]

(* All the jobs of the request come into being, or none.                   *)
Create(r) ==
    /\ there /\ Unanswered(r) /\ RowsOf(r) \cap jobs = {}
    /\ \A i \in DOMAIN Wants[r] : ~Taken(Wants[r][i])
    /\ ~Clashes(r)
    /\ jobs' = jobs \union RowsOf(r)
    /\ UNCHANGED <<there, answer>>

Created(r) ==
    /\ Unanswered(r) /\ RowsOf(r) \subseteq jobs
    /\ Answer(r, "created", <<r, 1>>)
    /\ UNCHANGED <<there, jobs>>

Existing(r) ==
    /\ Unanswered(r) /\ r \notin Batches
    /\ \E j \in jobs \ RowsOf(r) : KeyOf(j) = Wants[r][1] /\ KeyOf(j) # NoKey /\ Answer(r, "existing", j)
    /\ UNCHANGED <<there, jobs>>

Conflict(r) ==
    /\ Unanswered(r) /\ RowsOf(r) \cap jobs = {}
    /\ \/ ~there
       \/ r \in Batches /\ (Clashes(r) \/ \E i \in DOMAIN Wants[r] : Taken(Wants[r][i]))
    /\ Answer(r, "conflict", NoJob)
    /\ UNCHANGED <<there, jobs>>

(* Not found, unprocessable, an internal error, or no answer at all.       *)
Other(r) ==
    /\ Unanswered(r)
    /\ \E c \in {"notfound", "unprocessable", "error", "lost"} : Answer(r, c, NoJob)
    /\ UNCHANGED <<there, jobs>>

DeleteQueue == there /\ there' = FALSE /\ jobs' = {} /\ UNCHANGED answer

Next == DeleteQueue \/ \E r \in Requests : Create(r) \/ Created(r) \/ Existing(r) \/ Conflict(r) \/ Other(r)
Spec == Init /\ [][Next]_<<there, jobs, answer>>
=============================================================================
