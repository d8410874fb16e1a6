---------------------------- MODULE JobCreation -----------------------------
(***************************************************************************)
(* The creation of jobs in one queue by concurrent requests (create_job,   *)
(* create_batch), at the grain of their statements.  The lookup of the     *)
(* idempotency key, the check of the prerequisites and the INSERT are      *)
(* apart; an INSERT waits for another transaction that has inserted the    *)
(* same key, until that one commits (a unique violation) or is rolled      *)
(* back; a batch inserts row after row, so two batches may wait for each   *)
(* other.  The queue may be deleted at any time, with its jobs, and the    *)
(* connection of a request may be lost; the client then sends another one. *)
(***************************************************************************)
EXTENDS Naturals, Sequences, FiniteSets

CONSTANTS
    Requests, Batches, Wants, NoKey, NoJob,  \* as in JobDirectory
    EmptyKey,   \* the empty string, a key as any other but taken for none by create_job
    Gated,      \* the requests with depends_on
    Rounds,     \* bound: which requests are made in one behaviour
    MaxLost     \* bound: requests whose connection or process is lost

(* A batch with the same nonempty key twice is refused by its schema.      *)
ValidBatch(keys) == \A i, k \in DOMAIN keys : i # k /\ keys[i] = keys[k] => keys[i] \in {NoKey, EmptyKey}
ASSUME CreationAssumption ==
    /\ Gated \subseteq Requests /\ Rounds \subseteq SUBSET Requests /\ Batches \subseteq Requests /\ Gated \cap Batches = {}
    /\ DOMAIN Wants = Requests /\ MaxLost \in Nat /\ NoKey # EmptyKey
    /\ \A r \in Requests : /\ Len(Wants[r]) \in Nat \ {0} /\ DOMAIN Wants[r] = 1 .. Len(Wants[r])
                           /\ r \notin Batches => Len(Wants[r]) = 1
                           /\ ValidBatch(Wants[r])
    /\ NoJob \notin Requests \X Nat

VARIABLES
    coming,   \* the one of Rounds, for good
    there,    \* the row of the queue is there
    pc,       \* how far request r is
    rows,     \* rows[r]: the rows r has inserted, in an open transaction or for good
    answer,   \* answer[r]: the code of the response and the job it names
    known,    \* known[r]: the job that had the key of r when r came in (no variable of the code)
    lost      \* requests lost so far

creationVars == <<coming, there, pc, rows, answer, known, lost>>

Open == {"insert", "check", "inserted", "failed"}
Committed(r) == there /\ pc[r] \in {"committed", "done"} /\ rows[r] > 0
jobs == UNION {{r} \X (1 .. rows[r]) : r \in {s \in coming : Committed(s)}}
KeyOf(j) == Wants[j[1]][j[2]]
Single(r) == r \notin Batches
(* if body.idempotency_key: neither None nor the empty string.             *)
HasKey(r) == Wants[r][1] \notin {NoKey, EmptyKey}
JobsWith(k) == {j \in jobs : KeyOf(j) = k}

To(r, p) == pc' = [pc EXCEPT ![r] = p]
Answer(r, code, j) == To(r, "done") /\ answer' = [answer EXCEPT ![r] = [code |-> code, job |-> j]]

CreationInit ==
    /\ coming \in Rounds
    /\ there = TRUE /\ pc = [r \in Requests |-> "new"] /\ rows = [r \in Requests |-> 0]
    /\ answer = [r \in Requests |-> [code |-> "none", job |-> NoJob]]
    /\ known = [r \in Requests |-> NoJob] /\ lost = 0
-----------------------------------------------------------------------------
(* get_queue_scoped                                                        *)
Arrive(r) ==
    /\ r \in coming /\ pc[r] = "new"
    /\ known' = [known EXCEPT ![r] = IF Single(r) /\ HasKey(r) /\ JobsWith(Wants[r][1]) # {}
                                      THEN CHOOSE j \in JobsWith(Wants[r][1]) : TRUE ELSE NoJob]
    /\ IF ~there THEN Answer(r, "notfound", NoJob)
       ELSE UNCHANGED answer /\ To(r, IF Single(r) THEN "lookup" ELSE "insert")
    /\ UNCHANGED <<coming, there, rows, lost>>

NoLookup(r) == pc[r] = "lookup" /\ To(r, "validate") /\ UNCHANGED <<coming, there, rows, answer, known, lost>>  \* mutant
Lookup(r) ==
    /\ pc[r] = "lookup"
    /\ \/ HasKey(r) /\ \E j \in JobsWith(Wants[r][1]) : Answer(r, "existing", j)
       \/ (~HasKey(r) \/ JobsWith(Wants[r][1]) = {}) /\ To(r, "validate") /\ UNCHANGED answer
    /\ UNCHANGED <<coming, there, rows, known, lost>>

(* _validate_depends_on: the prerequisites may all be there or not.        *)
ValidateDependsOn(r) ==
    /\ pc[r] = "validate"
    /\ \/ To(r, "insert") /\ UNCHANGED answer
       \/ r \in Gated /\ Answer(r, "unprocessable", NoJob)
    /\ UNCHANGED <<coming, there, rows, known, lost>>

(* The next row of the INSERT, against uq_jobs_idem.                       *)
NextKey(r) == Wants[r][rows[r] + 1]
Holders(k) == IF k = NoKey THEN {} ELSE {s \in Requests : rows[s] > 0 /\ \E i \in 1 .. rows[s] : Wants[s][i] = k}
InOpen(s) == pc[s] \in Open
NeverWaits(r, s) == FALSE  \* mutant
Waits(r, s) == pc[r] = "insert" /\ s # r /\ InOpen(s) /\ s \in Holders(NextKey(r))

(* A row of the same transaction is a duplicate at once, as is one that    *)
(* has been committed and is still there.                                  *)
NoIndex(r) == {}  \* mutant
Clash(r) == {s \in Holders(NextKey(r)) : s = r \/ Committed(s)}
InsertRow(r) ==
    /\ pc[r] = "insert" /\ \A s \in Requests : ~Waits(r, s)
    /\ IF Clash(r) # {} THEN To(r, "failed") /\ UNCHANGED rows
       ELSE /\ rows' = [rows EXCEPT ![r] = @ + 1]
            /\ IF rows[r] + 1 < Len(Wants[r]) THEN UNCHANGED pc ELSE To(r, "check")
    /\ UNCHANGED <<coming, there, answer, known, lost>>

(* The foreign key to queues is checked at the end of the statement, and   *)
(* holds the row of the queue from then on.                                *)
CheckQueue(r) ==
    /\ pc[r] = "check"
    /\ To(r, IF there THEN "inserted" ELSE "failed")
    /\ UNCHANGED <<coming, there, rows, answer, known, lost>>

Commit(r) ==
    /\ pc[r] = "inserted"
    /\ To(r, "committed")
    /\ UNCHANGED <<coming, there, rows, answer, known, lost>>

(* db.refresh after the commit: an error if the row has gone again.        *)
Reply(r) ==
    /\ pc[r] = "committed"
    /\ IF there THEN Answer(r, "created", <<r, 1>>) ELSE Answer(r, "error", NoJob)
    /\ UNCHANGED <<coming, there, rows, known, lost>>

(* IntegrityError: create_job goes on to look for the job again; a batch   *)
(* is answered by the handler of the application.                          *)
RefusedAtOnce(r) ==  \* mutant
    /\ pc[r] = "failed" /\ rows' = [rows EXCEPT ![r] = 0]
    /\ Answer(r, "conflict", NoJob) /\ UNCHANGED <<coming, there, known, lost>>
Rollback(r) ==
    /\ pc[r] = "failed"
    /\ rows' = [rows EXCEPT ![r] = 0]
    /\ IF Single(r) THEN To(r, "reread") /\ UNCHANGED answer ELSE Answer(r, "conflict", NoJob)
    /\ UNCHANGED <<coming, there, known, lost>>

(* idempotency_key == None asks for the jobs without a key.                *)
Reread(r) ==
    /\ pc[r] = "reread"
    /\ \/ \E j \in JobsWith(Wants[r][1]) : Answer(r, "existing", j)
       \/ JobsWith(Wants[r][1]) = {} /\ Answer(r, "conflict", NoJob)
    /\ UNCHANGED <<coming, there, rows, known, lost>>

(* PostgreSQL aborts one of the transactions that wait for one another.    *)
AfterTimeout(r) == \E s \in Requests : Waits(r, s)  \* mutant
NotDetected(r) == FALSE  \* mutant
InCircle(r) == \E C \in SUBSET {s \in Requests : pc[s] = "insert" /\ rows[s] > 0} :
    /\ r \in C
    /\ \A s \in C : (\E t \in C : Waits(s, t)) /\ (\E t \in C : Waits(t, s))
DeadlockDetected(r) ==
    /\ InCircle(r)
    /\ rows' = [rows EXCEPT ![r] = 0]
    /\ Answer(r, "error", NoJob)
    /\ UNCHANGED <<coming, there, known, lost>>

(* The connection or the process is lost, before the commit or after it.   *)
Lose(r) ==
    /\ pc[r] \notin {"new", "done"} /\ lost < MaxLost /\ lost' = lost + 1
    /\ rows' = [rows EXCEPT ![r] = IF pc[r] = "committed" THEN @ ELSE 0]
    /\ Answer(r, "lost", NoJob)
    /\ UNCHANGED <<coming, there, known>>

(* delete_queue waits for the transactions that hold the row of the queue; *)
(* its jobs go with it.                                                    *)
DeleteQueue ==
    /\ there /\ \A r \in Requests : pc[r] # "inserted"
    /\ there' = FALSE
    /\ UNCHANGED <<coming, pc, rows, answer, known, lost>>

Proceed(r) == \/ Lookup(r) \/ ValidateDependsOn(r) \/ InsertRow(r) \/ CheckQueue(r) \/ Commit(r) \/ Reply(r)
              \/ Rollback(r) \/ Reread(r) \/ DeadlockDetected(r)
CreationNext == DeleteQueue \/ \E r \in Requests : Arrive(r) \/ Proceed(r) \/ Lose(r)

CreationSpec == CreationInit /\ [][CreationNext]_creationVars
(* A request that came in goes on; PostgreSQL resolves deadlocks.          *)
CreationFairness == \A r \in Requests : WF_creationVars(Proceed(r))
FairCreationSpec == CreationSpec /\ CreationFairness
-----------------------------------------------------------------------------
Codes == {"none", "created", "existing", "conflict", "notfound", "unprocessable", "error", "lost"}
CreationTypeOK ==
    /\ there \in BOOLEAN /\ lost \in Nat
    /\ pc \in [Requests -> {"new", "lookup", "validate", "reread", "committed", "done"} \union Open]
    /\ rows \in [Requests -> Nat] /\ \A r \in Requests : rows[r] <= Len(Wants[r])
    /\ DOMAIN answer = Requests /\ \A r \in Requests : answer[r].code \in Codes
    /\ \A r \in Requests : (answer[r].code = "none") <=> (pc[r] # "done")
(* The rows of a request are there to the last or not at all, once its     *)
(* transaction is over; while it is open no other one holds its keys, and  *)
(* no two live jobs have the same key.                                     *)
Whole == \A r \in Requests :
    /\ pc[r] \in {"new", "lookup", "validate", "reread"} => rows[r] = 0
    /\ pc[r] = "insert" => rows[r] < Len(Wants[r])
    /\ pc[r] \in {"check", "inserted", "committed"} => rows[r] = Len(Wants[r])
    /\ pc[r] = "done" => rows[r] \in {0, Len(Wants[r])}
Live(r) == InOpen(r) \/ Committed(r)
UniqueKeys == \A r, s \in {t \in Requests : rows[t] > 0 /\ Live(t)} :
    \A i \in 1 .. rows[r], k \in 1 .. rows[s] :
        Wants[r][i] = Wants[s][k] /\ Wants[r][i] # NoKey => r = s /\ i = k
CreationInv == CreationTypeOK /\ Whole /\ UniqueKeys

(* Whoever is told of a job under one key is told of the same job, which   *)
(* has been committed, by a request that asked for it under that key       *)
(* (jobs.py:126-133 and 163-173).  A request without a key is only ever    *)
(* told of the job it created itself.                                      *)
Told(r) == answer[r].code \in {"created", "existing"}
SameJob == \A r, s \in Requests : Told(r) /\ Single(r) /\ Single(s) =>
    /\ KeyOf(answer[r].job) = Wants[r][1] /\ rows[answer[r].job[1]] >= answer[r].job[2]
    /\ pc[answer[r].job[1]] \in {"committed", "done"}
    /\ Wants[r][1] = NoKey => answer[r].job = <<r, 1>>
    /\ Told(s) /\ Wants[r][1] = Wants[s][1] /\ Wants[r][1] # NoKey => answer[r].job = answer[s].job

(* A repeated request is safe: if a job had the key when the request came  *)
(* in, the answer names this job, whatever has become of its prerequisites *)
(* (the lookup comes before the validation), unless the queue is deleted   *)
(* or the answer lost.                                                     *)
RepeatIsSafe == \A r \in Requests : known[r] # NoJob /\ pc[r] = "done" /\ there =>
    \/ answer[r] = [code |-> "existing", job |-> known[r]]
    \/ answer[r].code = "lost"

(* Only a batch can be the victim of a deadlock: a single creation holds   *)
(* nothing while it waits, and gets an internal error only if its job is   *)
(* deleted before it has been read back.                                   *)
SinglesAreSpared == \A r \in Requests : answer[r].code = "error" => r \in Batches \/ ~there

(* Every request that came in is answered, though requests wait for one    *)
(* another, some of them in a circle.                                      *)
Answered == \A r \in Requests : pc[r] # "new" ~> pc[r] = "done"

(* The statements of the requests, interleaved as they may be, have the    *)
(* effect of requests carried out one at a time: a key is never refused    *)
(* that is free, and 409 never given where a job could be named.           *)
Directory == INSTANCE JobDirectory
ImplementsDirectory == Directory!Spec
=============================================================================
