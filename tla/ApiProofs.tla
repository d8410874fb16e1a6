------------------------------ MODULE ApiProofs ------------------------------
(***************************************************************************)
(* What the API processes do for their clients, for any number of them:    *)
(*                                                                         *)
(* - Membership: organizations of any size keep an owner until two         *)
(*   requests that take one away overlap; OwnersInv is inductive.          *)
(* - JobCreation: concurrent creations never give two jobs one key, name   *)
(*   the same job to whoever asks for a key, and have the effect of        *)
(*   requests carried out one at a time (JobDirectory).  The lemmas called *)
(*   ...Does say what an action does to its request; the invariants are    *)
(*   proved from these.                                                    *)
(* - EventFeed: what the publisher can skip of an open page, and no more.  *)
(***************************************************************************)
EXTENDS Membership, JobCreation, EventFeed, FiniteSetTheorems, WellFoundedInduction, NaturalsInduction, TLAPS

(***************************************************************************)
(*                               Membership                                *)
(***************************************************************************)
(* Whoever counts two owners finds one besides any given row.              *)
LEMMA AnotherOwner ==
  ASSUME NEW m, ~LastOwner
  PROVE  Owners \ {m} # {}
  <1> SUFFICES ASSUME Owners \subseteq {m} PROVE FALSE  OBVIOUS
  <1>1. IsFiniteSet({m}) /\ Cardinality({m}) = 1 BY FS_Singleton
  <1>2. Cardinality(Owners) <= 1 /\ Cardinality(Owners) \in Nat BY <1>1, FS_Subset, FS_CardinalityType
  <1> QED BY <1>2 DEF LastOwner

(* An organization starts with its owner and no requests.                  *)
LEMMA MembershipInit == ASSUME MembersInit PROVE OwnersInv
  <1>1. PICK m \in Rows : role = [x \in Rows |-> IF x = m THEN "owner" ELSE "unused"]
    BY DEF MembersInit
  <1>2. m \in Owners BY <1>1 DEF Owners, Present, Roles
  <1>3. MembersTypeOK BY <1>1 DEF MembersInit, MembersTypeOK, Roles
  <1>4. \A r \in Calls : ~Edits(r) BY DEF MembersInit, Edits, Idle
  <1> QED BY <1>2, <1>3, <1>4 DEF OwnersInv, HasOwner

(* Where a request is tells which record it is.                            *)
LEMMA Shape ==
  ASSUME MembersTypeOK, NEW r \in Calls
  PROVE  /\ req[r].at \in {"idle", "authorized", "loaded", "checked"}
         /\ req[r].at = "idle" <=> req[r] = Idle
         /\ req[r].at = "authorized" => req[r] \in Authorized
         /\ req[r].at \in {"loaded", "checked"} => req[r] \in Decided
  BY DEF MembersTypeOK, Idle, Authorized, Decided

(* A step of r to q that leaves the memberships alone keeps OwnersInv if q *)
(* is one of a request's states, and backed if r was not overtaken.        *)
LEMMA QuietStep ==
  ASSUME OwnersInv, UNCHANGED <<role, raced>>, NEW r \in Calls,
         NEW q \in {Idle} \cup Authorized \cup Decided, Step(r, q),
         overtaken' \in {overtaken, overtaken \ {r}},
         ~raced /\ r \notin overtaken' /\ q.at # "idle" /\ q.op # "invite" => Backed(q)
  PROVE  OwnersInv'
  <1>1. MembersTypeOK' BY DEF OwnersInv, MembersTypeOK, Step
  <1>2. req'[r] = q /\ \A s \in Calls \ {r} : req'[s] = req[s] BY DEF OwnersInv, MembersTypeOK, Step
  <1>3. HasOwner' /\ Owners' = Owners BY DEF OwnersInv, HasOwner, Owners, Present
  <1>4. ASSUME NEW s \in Calls \ overtaken', Edits(s)', ~raced' PROVE Backed(req[s])'
    <2>1. CASE s = r BY <2>1, <1>2, <1>3, <1>4 DEF Backed, Edits
    <2>2. CASE s # r
      <3>1. Edits(s) /\ s \notin overtaken BY <2>2, <1>2, <1>4 DEF Edits
      <3>2. Backed(req[s]) BY <3>1, <1>4 DEF OwnersInv
      <3> QED BY <3>2, <2>2, <1>2, <1>3 DEF Backed
    <2> QED BY <2>1, <2>2
  <1> QED BY <1>1, <1>3, <1>4 DEF OwnersInv

(* A reply that changed nothing.                                           *)
LEMMA RespondKeeps == ASSUME OwnersInv, NEW r \in Calls, Respond(r) PROVE OwnersInv'
  BY QuietStep DEF Respond, Idle

(* Authorization: an actor that is no owner is not the only one.           *)
LEMMA AuthorizeKeeps == ASSUME OwnersInv, NEW r \in Calls, Authorize(r) PROVE OwnersInv'
  <1>1. PICK a \in Present, op \in {"invite", "update", "remove"}, want \in Roles :
          GoOn(r, [at |-> "authorized", op |-> op, actor |-> a, as |-> role[a], want |-> want])
    BY DEF Authorize
  <1> DEFINE q == [at |-> "authorized", op |-> op, actor |-> a, as |-> role[a], want |-> want]
  <1>2. q \in Authorized BY DEF Authorized, Present
  <1>3. ~raced => Backed(q)
    <2>1. role[a] # "owner" => a \notin Owners BY DEF Owners
    <2> QED BY <2>1 DEF OwnersInv, HasOwner, Backed
  <1> QED BY <1>1, <1>2, <1>3, QuietStep DEF GoOn

(* Loading the target: unless it is an owner that goes, which has to be    *)
(* counted, some other row is an owner.                                    *)
LEMMA LoadTargetKeeps == ASSUME OwnersInv, NEW r \in Calls, LoadTarget(r) PROVE OwnersInv'
  <1>0. req[r] \in Authorized /\ req[r].at = "authorized" /\ Edits(r) /\ req[r].op \in {"update", "remove"}
    BY Shape DEF OwnersInv, LoadTarget, Edits
  <1>1. CASE Respond(r) BY <1>1, RespondKeeps
  <1>2. CASE ~Respond(r)
    <2> DEFINE Seen(m) == IF m = req[r].actor THEN req[r].as ELSE role[m]
               Place(m) == IF OwnerLeaves(req[r].op, Seen(m), req[r].want) THEN "loaded" ELSE "checked"
    <2>1. PICK m \in Present : Loaded(r, Place(m), m, Seen(m))
      BY <1>2 DEF LoadTarget
    <2> DEFINE q == [at |-> Place(m), op |-> req[r].op, target |-> m, seen |-> Seen(m), want |-> req[r].want]
    <2>2. q \in Decided BY <1>0 DEF Authorized, Decided, Present
    <2>3. GoOn(r, q) BY <2>1 DEF Loaded
    <2>4. ASSUME ~raced, r \notin overtaken, q.at = "checked", q.op = "remove" \/ q.want # "owner"
          PROVE  Owners \ {m} # {}
      <3>1. Seen(m) # "owner" BY <2>4, <1>0 DEF OwnerLeaves
      <3>2. CASE m = req[r].actor
        BY <2>4, <3>1, <3>2, <1>0 DEF OwnersInv, Backed
      <3>3. CASE m # req[r].actor
        <4>1. m \notin Owners BY <3>1, <3>3 DEF Owners
        <4> QED BY <4>1, <2>4 DEF OwnersInv, HasOwner
      <3> QED BY <3>2, <3>3
    <2>5. ~raced /\ r \notin overtaken => Backed(q) BY <2>4 DEF Backed
    <2> HIDE DEF q
    <2> QED BY <2>2, <2>3, <2>5, QuietStep DEF GoOn
  <1> QED BY <1>1, <1>2

(* Counting the owners: whoever goes on leaves one.                        *)
LEMMA CountKeeps == ASSUME OwnersInv, NEW r \in Calls, CountOwners(r) PROVE OwnersInv'
  <1>0. req[r] \in Decided BY Shape DEF OwnersInv, CountOwners
  <1>1. CASE LastOwner BY <1>1, RespondKeeps DEF CountOwners
  <1>2. CASE ~LastOwner
    <2> DEFINE q == [req[r] EXCEPT !.at = "checked"]
    <2>1. GoOn(r, q) BY <1>2 DEF CountOwners
    <2>2. q \in Decided /\ q.at = "checked" BY <1>0 DEF Decided
    <2>3. Backed(q) BY <1>2, <2>2, AnotherOwner DEF Backed
    <2> HIDE DEF q
    <2> QED BY <2>1, <2>2, <2>3, QuietStep DEF GoOn
  <1> QED BY <1>1, <1>2

(* Looking up the invited user: an invitation edits nothing.               *)
LEMMA LoadInvitedKeeps == ASSUME OwnersInv, NEW r \in Calls, LoadInvited(r) PROVE OwnersInv'
  <1>0. req[r] \in Authorized /\ req[r].op = "invite"
    BY Shape DEF OwnersInv, LoadInvited
  <1>1. CASE Respond(r) BY <1>1, RespondKeeps
  <1>2. CASE ~Respond(r)
    <2>1. PICK m \in Rows : Loaded(r, "checked", m, "unused") BY <1>2 DEF LoadInvited
    <2> DEFINE q == [at |-> "checked", op |-> req[r].op, target |-> m, seen |-> "unused", want |-> req[r].want]
    <2>2. q \in Decided /\ q.op = "invite" BY <1>0 DEF Authorized, Decided
    <2>3. GoOn(r, q) BY <2>1 DEF Loaded
    <2> HIDE DEF q
    <2> QED BY <2>2, <2>3, QuietStep DEF GoOn
  <1> QED BY <1>1, <1>2

(* What a write can do to its row.                                         *)
LEMMA WrittenIs ==
  ASSUME MembersTypeOK, NEW q \in Decided
  PROVE  /\ Written(q) \in Roles \cup {"unused", "gone"}
         /\ q.op = "invite" => Written(q) = role[q.target] \/ role[q.target] = "unused"
         /\ q.op = "update" => Written(q) \in {role[q.target], q.want}
  <1>1. q.want \in Roles /\ role[q.target] \in Roles \cup {"unused", "gone"} BY DEF MembersTypeOK, Decided
  <1>2. Written(q) = role[q.target] \/ (q.op = "invite" /\ MayInsert(q.target) /\ Written(q) = q.want)
        \/ (q.op = "update" /\ Written(q) = q.want) \/ (q.op = "remove" /\ Written(q) = "gone")
    BY DEF Written
  <1> QED BY <1>1, <1>2 DEF MayInsert

(* The write.  One that takes no owner leaves everybody else's reads good; *)
(* one that does overtakes all others, and leaves an owner unless it was   *)
(* overtaken itself.                                                       *)
LEMMA WriteKeeps == ASSUME OwnersInv, NEW r \in Calls, Write(r) PROVE OwnersInv'
  <1> DEFINE q == req[r]
  <1>0. q \in Decided /\ q.at = "checked" BY Shape DEF OwnersInv, Write
  <1>1. /\ Written(q) \in Roles \cup {"unused", "gone"}
        /\ q.op = "invite" => Written(q) = role[q.target] \/ role[q.target] = "unused"
        /\ q.op = "update" => Written(q) \in {role[q.target], q.want}
    BY <1>0, WrittenIs DEF OwnersInv
  <1>2. /\ q.target \in Rows /\ role \in [Rows -> Roles \cup {"unused", "gone"}]
        /\ q.op \in {"invite", "update", "remove"}
    BY <1>0 DEF OwnersInv, MembersTypeOK, Decided
  <1>3. role' = [role EXCEPT ![q.target] = Written(q)] /\ req' = [req EXCEPT ![r] = Idle]
    BY DEF Write, Step
  <1>4. MembersTypeOK'
    <2>1. overtaken' \subseteq Calls /\ raced' \in BOOLEAN BY DEF Write, OwnersInv, MembersTypeOK
    <2>2. role' \in [Rows -> Roles \cup {"unused", "gone"}] BY <1>1, <1>2, <1>3
    <2>3. req' \in [Calls -> {Idle} \cup Authorized \cup Decided] BY <1>3 DEF OwnersInv, MembersTypeOK
    <2> QED BY <2>1, <2>2, <2>3 DEF MembersTypeOK
  <1>5. ~Edits(r)' /\ \A s \in Calls \ {r} : req'[s] = req[s]
    BY <1>3 DEF OwnersInv, MembersTypeOK, Edits, Idle
  <1>6. CASE ~TakesOwner(q)
    <2>1. Owners \subseteq Owners'
      <3> SUFFICES ASSUME NEW m \in Owners PROVE m \in Owners'  OBVIOUS
      <3>1. m \in Rows /\ role[m] = "owner" BY DEF Owners, Present
      <3>2. role'[m] = "owner" BY <1>2, <1>3, <1>6, <3>1 DEF TakesOwner
      <3> QED BY <3>1, <3>2 DEF Owners, Present, Roles
    <2>2. overtaken' = overtaken \ {r} /\ raced' = raced BY <1>6 DEF Write, OwnersInv, MembersTypeOK
    <2>3. HasOwner' BY <2>1, <2>2 DEF OwnersInv, HasOwner
    <2>4. ASSUME NEW s \in Calls \ overtaken', Edits(s)', ~raced' PROVE Backed(req[s])'
      <3>1. s # r /\ Edits(s) /\ s \notin overtaken /\ req'[s] = req[s] BY <1>5, <2>2, <2>4 DEF Edits
      <3>2. Backed(req[s]) BY <3>1, <2>2, <2>4 DEF OwnersInv
      <3> QED BY <2>1, <3>1, <3>2 DEF Backed
    <2> QED BY <1>4, <2>3, <2>4 DEF OwnersInv
  <1>7. CASE TakesOwner(q)
    <2>1. \A s \in Calls \ {r} : Edits(s) => s \in overtaken' BY <1>7 DEF Write
    <2>2. \A s \in Calls \ overtaken' : ~Edits(s)' BY <1>5, <2>1 DEF Edits
    <2>3. raced' = (raced \/ r \in overtaken) BY <1>7 DEF Write
    <2>4. ASSUME ~raced, r \notin overtaken PROVE Owners' # {}
      <3>1. Edits(r) BY <1>0, <1>1, <1>7 DEF TakesOwner, Edits
      <3>2. q.op = "remove" \/ q.want # "owner" BY <1>1, <1>2, <1>7, <3>1 DEF TakesOwner, Edits
      <3>3. Owners \ {q.target} # {} BY <1>0, <2>4, <3>1, <3>2 DEF OwnersInv, Backed
      <3>4. Owners \ {q.target} \subseteq Owners' BY <1>2, <1>3 DEF Owners, Present
      <3> QED BY <3>3, <3>4
    <2>5. HasOwner' BY <2>3, <2>4 DEF HasOwner
    <2> QED BY <1>4, <2>2, <2>5 DEF OwnersInv
  <1> QED BY <1>6, <1>7

(* OwnersInv holds throughout, however requests interleave.                *)
THEOREM OwnersCorrect == MembersSpec => []OwnersInv
  <1>1. MembersInit => OwnersInv BY MembershipInit
  <1>2. OwnersInv /\ [MembersNext]_membersVars => OwnersInv'
    <2> SUFFICES ASSUME OwnersInv, [MembersNext]_membersVars PROVE OwnersInv'  OBVIOUS
    <2>1. ASSUME NEW r \in Calls, Authorize(r) PROVE OwnersInv' BY <2>1, AuthorizeKeeps
    <2>2. ASSUME NEW r \in Calls, LoadTarget(r) PROVE OwnersInv' BY <2>2, LoadTargetKeeps
    <2>3. ASSUME NEW r \in Calls, CountOwners(r) PROVE OwnersInv' BY <2>3, CountKeeps
    <2>4. ASSUME NEW r \in Calls, LoadInvited(r) PROVE OwnersInv' BY <2>4, LoadInvitedKeeps
    <2>5. ASSUME NEW r \in Calls, Write(r) PROVE OwnersInv' BY <2>5, WriteKeeps
    <2>6. CASE UNCHANGED membersVars
      BY <2>6 DEF membersVars, OwnersInv, MembersTypeOK, HasOwner, Owners, Present, Edits, Backed
    <2> QED BY <2>1, <2>2, <2>3, <2>4, <2>5, <2>6 DEF MembersNext
  <1> QED BY <1>1, <1>2, PTL DEF MembersSpec

(* An organization of any size, with any number of requests at a time,     *)
(* loses its last owner only if two requests that each take an owner away  *)
(* overlap.                                                                *)
THEOREM AlwaysAnOwner == MembersSpec => []HasOwner
  <1>1. OwnersInv => HasOwner BY DEF OwnersInv
  <1> QED BY <1>1, OwnersCorrect, PTL

-----------------------------------------------------------------------------
(***************************************************************************)
(*                               JobCreation                               *)
(***************************************************************************)
(* Who is past its commit, with rows that are there to stay.               *)
Past == {"committed", "done"}
Kept(r) == pc[r] \in Past /\ rows[r] > 0

(* Only requests of this round come in, and none is between its check of   *)
(* the queue and its commit when the queue is deleted.                     *)
Started == coming \subseteq Requests /\ \A r \in Requests : pc[r] # "new" => r \in coming
HoldsQueue == \A r \in Requests : pc[r] = "inserted" => there

(* No key was ever given to two jobs, deleted or not.                      *)
UniqueForGood == \A r, s \in {t \in Requests : Kept(t)} :
    \A i \in 1 .. rows[r], k \in 1 .. rows[s] :
        Wants[r][i] = Wants[s][k] /\ Wants[r][i] # NoKey => r = s /\ i = k

(* Why an INSERT was refused: the queue has gone, a job that has been      *)
(* committed has a key of it, or a batch has a key (the empty one) twice.  *)
Holds(k) == \E s \in coming : Committed(s) /\ \E i \in 1 .. rows[s] : Wants[s][i] = k
RefusedFor(r) ==
    \/ ~there
    \/ \E i \in 1 .. Len(Wants[r]) : Wants[r][i] # NoKey /\ Holds(Wants[r][i])
    \/ r \in Batches /\ Directory!Clashes(r)
Refused == \A r \in Requests : pc[r] \in {"failed", "reread"} => RefusedFor(r)

(* Which job somebody was told of.                                         *)
Names(r, s, i) == /\ Kept(s) /\ i \in 1 .. rows[s] /\ answer[r].job = <<s, i>>
                  /\ Single(r) => Wants[s][i] = Wants[r][1] /\ (Wants[r][1] = NoKey => s = r /\ i = 1)
Informed == \A r \in Requests : Told(r) => \E s \in Requests, i \in Nat : Names(r, s, i)

(* A request that came in when there was a job under its key finds it.     *)
Finds == DOMAIN known = Requests /\ \A r \in Requests : known[r] # NoJob =>
    /\ Single(r) /\ HasKey(r) /\ pc[r] # "new"
    /\ there => known[r] \in JobsWith(Wants[r][1]) /\ pc[r] \in {"lookup", "done"}
    /\ there /\ pc[r] = "done" => \/ answer[r] = [code |-> "existing", job |-> known[r]]
                                  \/ answer[r].code = "lost"

-----------------------------------------------------------------------------
(* What the actions do, request by request: only the request that takes a  *)
(* step is changed, and it moves on or ends with an answer.                *)
Points == {"new", "lookup", "validate", "reread", "committed", "done"} \union Open
Formed == /\ there \in BOOLEAN /\ lost \in Nat
          /\ pc \in [Requests -> Points] /\ rows \in [Requests -> Nat] /\ DOMAIN answer = Requests
Frame(r) ==
    /\ UNCHANGED <<coming, there>>
    /\ \A s \in Requests \ {r} :
         pc'[s] = pc[s] /\ rows'[s] = rows[s] /\ answer'[s] = answer[s]
    /\ Formed'
Moves(r, to, n) == pc'[r] = to /\ rows'[r] = n /\ answer' = answer
Ends(r, n, c, j) == /\ pc'[r] = "done" /\ rows'[r] = n /\ answer'[r] = [code |-> c, job |-> j]
                    /\ answer' = [answer EXCEPT ![r] = [code |-> c, job |-> j]]

(* What the record of an answer holds.                                     *)
LEMMA EndsSays ==
  ASSUME NEW r, NEW n, NEW c, NEW j, Ends(r, n, c, j)
  PROVE  answer'[r].code = c /\ answer'[r].job = j
BY DEF Ends

(* A request wants at least one job, and one only if it is no batch.       *)
LEMMA WantsAre ==
  ASSUME NEW r \in Requests
  PROVE  /\ Len(Wants[r]) \in Nat \ {0} /\ DOMAIN Wants[r] = 1 .. Len(Wants[r])
         /\ Single(r) => Len(Wants[r]) = 1
         /\ ValidBatch(Wants[r])
BY CreationAssumption DEF CreationAssumption, Single

(* It comes in, and is turned away if the queue has gone.                  *)
LEMMA ArriveDoes ==
  ASSUME Formed, NEW r \in Requests, Arrive(r)
  PROVE  /\ Frame(r) /\ pc[r] = "new" /\ r \in coming
         /\ IF there THEN Moves(r, IF Single(r) THEN "lookup" ELSE "insert", rows[r])
                     ELSE Ends(r, rows[r], "notfound", NoJob)
<1>1. CASE there
  BY <1>1 DEF Arrive, Formed, Frame, Moves, To, Points, Open
<1>2. CASE ~there
  BY <1>2 DEF Arrive, Formed, Frame, Ends, To, Answer, Points
<1> QED BY <1>1, <1>2

(* It finds a job under its key, or there is none.                         *)
LEMMA LookupDoes ==
  ASSUME Formed, NEW r \in Requests, Lookup(r)
  PROVE  /\ Frame(r) /\ pc[r] = "lookup" /\ known' = known
         /\ \/ HasKey(r) /\ \E j \in JobsWith(Wants[r][1]) : Ends(r, rows[r], "existing", j)
            \/ (~HasKey(r) \/ JobsWith(Wants[r][1]) = {}) /\ Moves(r, "validate", rows[r])
<1>1. CASE HasKey(r) /\ \E j \in JobsWith(Wants[r][1]) : Answer(r, "existing", j)
  <2>1. PICK j \in JobsWith(Wants[r][1]) : Answer(r, "existing", j)
    BY <1>1
  <2>2. Frame(r) /\ Ends(r, rows[r], "existing", j)
    BY <2>1 DEF Lookup, Formed, Frame, Ends, To, Answer, Points
  <2> QED BY <1>1, <2>2 DEF Lookup
<1>2. CASE (~HasKey(r) \/ JobsWith(Wants[r][1]) = {}) /\ To(r, "validate") /\ UNCHANGED answer
  <2>1. Frame(r) /\ Moves(r, "validate", rows[r])
    BY <1>2 DEF Lookup, Formed, Frame, Moves, To, Points
  <2> QED BY <1>2, <2>1 DEF Lookup
<1> QED BY <1>1, <1>2 DEF Lookup

(* It is refused for its prerequisites, or goes on.                        *)
LEMMA ValidateDoes ==
  ASSUME Formed, NEW r \in Requests, ValidateDependsOn(r)
  PROVE  /\ Frame(r) /\ pc[r] = "validate" /\ known' = known
         /\ Moves(r, "insert", rows[r]) \/ Ends(r, rows[r], "unprocessable", NoJob)
<1>1. CASE To(r, "insert") /\ UNCHANGED answer
  BY <1>1 DEF ValidateDependsOn, Formed, Frame, Moves, To, Points, Open
<1>2. CASE Answer(r, "unprocessable", NoJob)
  BY <1>2 DEF ValidateDependsOn, Formed, Frame, Ends, To, Answer, Points
<1> QED BY <1>1, <1>2 DEF ValidateDependsOn

(* One row more, that nobody else holds, or a violation.                   *)
LEMMA InsertRowDoes ==
  ASSUME Formed, NEW r \in Requests, InsertRow(r)
  PROVE  /\ Frame(r) /\ pc[r] = "insert" /\ known' = known
         /\ \/ Clash(r) # {} /\ Moves(r, "failed", rows[r])
            \/ /\ Clash(r) = {} /\ \A s \in Requests : ~Waits(r, s)
               /\ Moves(r, IF rows[r] + 1 < Len(Wants[r]) THEN "insert" ELSE "check", rows[r] + 1)
<1>1. CASE Clash(r) # {}
  BY <1>1 DEF InsertRow, Formed, Frame, Moves, To, Points, Open
<1>2. CASE Clash(r) = {} /\ rows[r] + 1 < Len(Wants[r])
  BY <1>2 DEF InsertRow, Formed, Frame, Moves
<1>3. CASE Clash(r) = {} /\ ~ (rows[r] + 1 < Len(Wants[r]))
  BY <1>3 DEF InsertRow, Formed, Frame, Moves, To, Points, Open
<1> QED BY <1>1, <1>2, <1>3

(* The rows may be committed only while the queue is there.                *)
LEMMA CheckQueueDoes ==
  ASSUME Formed, NEW r \in Requests, CheckQueue(r)
  PROVE  Frame(r) /\ pc[r] = "check" /\ known' = known /\ Moves(r, IF there THEN "inserted" ELSE "failed", rows[r])
BY DEF CheckQueue, Formed, Frame, Moves, To, Points, Open

(* A commit leaves the rows as they are.                                   *)
LEMMA CommitDoes ==
  ASSUME Formed, NEW r \in Requests, Commit(r)
  PROVE  Frame(r) /\ pc[r] = "inserted" /\ known' = known /\ Moves(r, "committed", rows[r])
BY DEF Commit, Formed, Frame, Moves, To, Points

(* The answer names the first job, unless all have gone by now.            *)
LEMMA ReplyDoes ==
  ASSUME Formed, NEW r \in Requests, Reply(r)
  PROVE  /\ Frame(r) /\ pc[r] = "committed" /\ known' = known
         /\ IF there THEN Ends(r, rows[r], "created", <<r, 1>>) ELSE Ends(r, rows[r], "error", NoJob)
<1>1. CASE there
  BY <1>1 DEF Reply, Formed, Frame, Ends, To, Answer, Points
<1>2. CASE ~there
  BY <1>2 DEF Reply, Formed, Frame, Ends, To, Answer, Points
<1> QED BY <1>1, <1>2

(* After a violation the rows are gone.                                    *)
LEMMA RollbackDoes ==
  ASSUME Formed, NEW r \in Requests, Rollback(r)
  PROVE  /\ Frame(r) /\ pc[r] = "failed" /\ known' = known
         /\ IF Single(r) THEN Moves(r, "reread", 0) ELSE Ends(r, 0, "conflict", NoJob)
<1>1. CASE Single(r)
  BY <1>1 DEF Rollback, Formed, Frame, Moves, To, Points
<1>2. CASE ~Single(r)
  BY <1>2 DEF Rollback, Formed, Frame, Ends, To, Answer, Points
<1> QED BY <1>1, <1>2

(* It names a job with its key, if there is one after all.                 *)
LEMMA RereadDoes ==
  ASSUME Formed, NEW r \in Requests, Reread(r)
  PROVE  /\ Frame(r) /\ pc[r] = "reread" /\ known' = known
         /\ \/ \E j \in JobsWith(Wants[r][1]) : Ends(r, rows[r], "existing", j)
            \/ JobsWith(Wants[r][1]) = {} /\ Ends(r, rows[r], "conflict", NoJob)
<1>1. ASSUME NEW j \in JobsWith(Wants[r][1]), Answer(r, "existing", j)
      PROVE  Frame(r) /\ Ends(r, rows[r], "existing", j)
  BY <1>1 DEF Reread, Formed, Frame, Ends, To, Answer, Points
<1>2. CASE Answer(r, "conflict", NoJob)
  BY <1>2 DEF Reread, Formed, Frame, Ends, To, Answer, Points
<1> QED BY <1>1, <1>2 DEF Reread

(* Whoever is aborted has rows, and loses them.                            *)
LEMMA DeadlockDoes ==
  ASSUME Formed, NEW r \in Requests, DeadlockDetected(r)
  PROVE  Frame(r) /\ pc[r] = "insert" /\ rows[r] > 0 /\ known' = known /\ Ends(r, 0, "error", NoJob)
<1>1. pc[r] = "insert" /\ rows[r] > 0
  BY DEF DeadlockDetected, InCircle
<1> QED BY <1>1 DEF DeadlockDetected, Formed, Frame, Ends, To, Answer, Points

(* Whoever is lost loses its rows, but for those it has committed.         *)
LEMMA LoseDoes ==
  ASSUME Formed, NEW r \in Requests, Lose(r)
  PROVE  /\ Frame(r) /\ pc[r] \notin {"new", "done"} /\ known' = known
         /\ Ends(r, IF pc[r] = "committed" THEN rows[r] ELSE 0, "lost", NoJob)
BY DEF Lose, Formed, Frame, Ends, To, Answer, Points

(* A step is DeleteQueue, or what one request does.                        *)
LEMMA OneRequest ==
  ASSUME [CreationNext]_creationVars
  PROVE  \/ UNCHANGED creationVars
         \/ DeleteQueue
         \/ \E r \in Requests : Arrive(r) \/ Lookup(r) \/ ValidateDependsOn(r) \/ InsertRow(r) \/ CheckQueue(r)
              \/ Commit(r) \/ Reply(r) \/ Rollback(r) \/ Reread(r) \/ DeadlockDetected(r) \/ Lose(r)
  BY DEF CreationNext, Proceed

-----------------------------------------------------------------------------
(* Types, and the rows of a request, request by request.                   *)
Sane(r) ==
    /\ rows[r] <= Len(Wants[r]) /\ answer[r].code \in Codes
    /\ (answer[r].code = "none") <=> (pc[r] # "done")
    /\ pc[r] # "new" => r \in coming
    /\ pc[r] \in {"new", "lookup", "validate", "reread"} => rows[r] = 0
    /\ pc[r] = "insert" => rows[r] < Len(Wants[r])
    /\ pc[r] \in {"check", "inserted", "committed"} => rows[r] = Len(Wants[r])
    /\ pc[r] = "done" => rows[r] \in {0, Len(Wants[r])}
    /\ pc[r] \in {"lookup", "validate", "reread"} => Single(r)
AllSane == Formed /\ coming \subseteq Requests /\ \A r \in Requests : Sane(r)

(* It is a type invariant, and more.                                       *)
LEMMA SaneMeans == AllSane => CreationTypeOK /\ Started /\ Whole
BY DEF AllSane, Sane, Formed, Points, CreationTypeOK, Started, Whole

(* Who does not move stays as it is.                                       *)
LEMMA FrameKeepsSane ==
  ASSUME AllSane, NEW r \in Requests, Frame(r), Sane(r)'
  PROVE  AllSane'
BY DEF AllSane, Frame, Sane

(* So does what an answer says of a job.                                   *)
LEMMA EndIsSane ==
  ASSUME AllSane, NEW r \in Requests, Frame(r), pc[r] # "new", NEW n \in {0, Len(Wants[r])},
         NEW c \in Codes \ {"none"}, NEW j, Ends(r, n, c, j)
  PROVE  AllSane'
<1>1. Len(Wants[r]) \in Nat
  BY CreationAssumption DEF CreationAssumption
<1>2. answer'[r].code = c
  BY DEF Ends
<1>3. Sane(r)'
  BY <1>1, <1>2 DEF AllSane, Frame, Ends, Sane
<1> QED BY <1>3, FrameKeepsSane

(* Each action, of whatever request, keeps the types and the rows in       *)
(* order.                                                                  *)
LEMMA AlwaysSane == CreationSpec => []AllSane
<1>1. CreationInit => AllSane
  BY CreationAssumption DEF CreationInit, AllSane, Formed, Sane, CreationAssumption, Points, Codes
<1>2. AllSane /\ [CreationNext]_creationVars => AllSane'
  <2> SUFFICES ASSUME AllSane, [CreationNext]_creationVars
               PROVE  AllSane'
    OBVIOUS
  <2>0. Formed /\ \A r \in Requests : /\ Sane(r) /\ rows[r] \in Nat /\ Len(Wants[r]) \in Nat \ {0}
                                      /\ Single(r) => Len(Wants[r]) = 1
    BY CreationAssumption DEF AllSane, Formed, CreationAssumption, Single
  <2>1. CASE DeleteQueue
    BY <2>1 DEF DeleteQueue, AllSane, Formed, Sane
  <2>2. CASE UNCHANGED creationVars
    BY <2>2 DEF creationVars, AllSane, Formed, Sane
  <2>3. ASSUME NEW r \in Requests, Arrive(r)
        PROVE  AllSane'
    <3>1. Sane(r)'
      BY <2>0, <2>3, ArriveDoes DEF Frame, Moves, Ends, Sane, Codes
    <3> QED BY <3>1, <2>0, <2>3, ArriveDoes, FrameKeepsSane
  <2>4. ASSUME NEW r \in Requests, Lookup(r)
        PROVE  AllSane'
    <3>1. Frame(r) /\ pc[r] = "lookup" /\ rows[r] = 0
      BY <2>0, <2>4, LookupDoes DEF Sane
    <3>2. ASSUME NEW j, Ends(r, rows[r], "existing", j)
          PROVE  AllSane'
      BY <3>1, <3>2, EndIsSane DEF Codes
    <3>3. CASE Moves(r, "validate", rows[r])
      <4>1. Sane(r)'
        BY <2>0, <3>1, <3>3 DEF Frame, Moves, Sane
      <4> QED BY <4>1, <3>1, FrameKeepsSane
    <3> QED BY <2>0, <2>4, <3>2, <3>3, LookupDoes
  <2>5. ASSUME NEW r \in Requests, ValidateDependsOn(r)
        PROVE  AllSane'
    <3>1. Sane(r)'
      BY <2>0, <2>5, ValidateDoes DEF Frame, Moves, Ends, Sane, Codes
    <3> QED BY <3>1, <2>0, <2>5, ValidateDoes, FrameKeepsSane
  <2>6. ASSUME NEW r \in Requests, InsertRow(r)
        PROVE  AllSane'
    <3>1. Sane(r)'
      BY <2>0, <2>6, InsertRowDoes DEF Frame, Moves, Ends, Sane, Codes
    <3> QED BY <3>1, <2>0, <2>6, InsertRowDoes, FrameKeepsSane
  <2>7. ASSUME NEW r \in Requests, CheckQueue(r)
        PROVE  AllSane'
    <3>1. Sane(r)'
      BY <2>0, <2>7, CheckQueueDoes DEF Frame, Moves, Ends, Sane, Codes
    <3> QED BY <3>1, <2>0, <2>7, CheckQueueDoes, FrameKeepsSane
  <2>8. ASSUME NEW r \in Requests, Commit(r)
        PROVE  AllSane'
    <3>1. Sane(r)'
      BY <2>0, <2>8, CommitDoes DEF Frame, Moves, Ends, Sane, Codes
    <3> QED BY <3>1, <2>0, <2>8, CommitDoes, FrameKeepsSane
  <2>9. ASSUME NEW r \in Requests, Reply(r)
        PROVE  AllSane'
    <3>1. Frame(r) /\ pc[r] = "committed" /\ rows[r] = Len(Wants[r])
      BY <2>0, <2>9, ReplyDoes DEF Sane
    <3>2. PICK c \in {"created", "error"} : \E j : Ends(r, rows[r], c, j)
      BY <2>0, <2>9, ReplyDoes
    <3> QED BY <3>1, <3>2, EndIsSane DEF Codes
  <2>10. ASSUME NEW r \in Requests, Rollback(r)
         PROVE  AllSane'
    <3>1. Sane(r)'
      BY <2>0, <2>10, RollbackDoes DEF Frame, Moves, Ends, Sane, Codes
    <3> QED BY <3>1, <2>0, <2>10, RollbackDoes, FrameKeepsSane
  <2>11. ASSUME NEW r \in Requests, Reread(r)
         PROVE  AllSane'
    <3>1. Frame(r) /\ pc[r] = "reread" /\ rows[r] = 0
      BY <2>0, <2>11, RereadDoes DEF Sane
    <3>2. PICK c \in {"existing", "conflict"} : \E j : Ends(r, rows[r], c, j)
      BY <2>0, <2>11, RereadDoes
    <3> QED BY <3>1, <3>2, EndIsSane DEF Codes
  <2>12. ASSUME NEW r \in Requests, DeadlockDetected(r)
         PROVE  AllSane'
    <3>1. Sane(r)'
      BY <2>0, <2>12, DeadlockDoes DEF Frame, Moves, Ends, Sane, Codes
    <3> QED BY <3>1, <2>0, <2>12, DeadlockDoes, FrameKeepsSane
  <2>13. ASSUME NEW r \in Requests, Lose(r)
         PROVE  AllSane'
    <3>1. Sane(r)'
      BY <2>0, <2>13, LoseDoes DEF Frame, Moves, Ends, Sane, Codes
    <3> QED BY <3>1, <2>0, <2>13, LoseDoes, FrameKeepsSane
  <2> QED BY <2>1, <2>2, <2>3, <2>4, <2>5, <2>6, <2>7, <2>8, <2>9, <2>10, <2>11, <2>12, <2>13, OneRequest
<1> QED BY <1>1, <1>2, PTL DEF CreationSpec

-----------------------------------------------------------------------------
(* A transaction that neither begins to hold rows nor inserts one cannot   *)
(* break the index.                                                        *)
LEMMA QuietKeepsUnique ==
  ASSUME UniqueKeys, NEW r \in Requests, Frame(r),
         rows'[r] = 0 \/ ~Live(r)' \/ (Live(r) /\ rows'[r] = rows[r])
  PROVE  UniqueKeys'
<1>1. \A s \in Requests : s # r => (Live(s)' <=> Live(s)) /\ rows'[s] = rows[s]
  BY DEF Frame, Live, InOpen, Committed
<1>2. \A s \in Requests : rows'[s] > 0 /\ Live(s)' => rows[s] > 0 /\ Live(s) /\ rows'[s] = rows[s]
  BY <1>1
<1> QED BY <1>2 DEF UniqueKeys

(* The unique index: an INSERT waits for an open transaction with its key, *)
(* and fails if there is a job with it.                                    *)
LEMMA InsertKeepsUnique ==
  ASSUME AllSane, UniqueKeys, NEW r \in Requests, InsertRow(r)
  PROVE  UniqueKeys'
<1>0. Formed /\ Frame(r) /\ pc[r] = "insert" /\ rows[r] \in Nat
  BY InsertRowDoes DEF AllSane, Formed
<1>1. CASE Clash(r) # {}
  BY <1>0, <1>1, InsertRowDoes, QuietKeepsUnique DEF Moves, Live, InOpen, Open
<1>2. CASE Clash(r) = {}
  <2>1. rows'[r] = rows[r] + 1 /\ \A s \in Requests : ~Waits(r, s)
    BY <1>0, <1>2, InsertRowDoes DEF Moves
  <2>2. \A s \in Requests : s # r => (Live(s)' <=> Live(s)) /\ rows'[s] = rows[s] /\ rows[s] \in Nat
    BY <1>0 DEF Frame, Live, InOpen, Committed, Formed
  <2>3. ASSUME NEW s \in Requests, s # r, Live(s), NEW k \in 1 .. rows[s], NextKey(r) # NoKey
        PROVE  Wants[s][k] # NextKey(r)
    <3>1. rows[s] > 0
      BY <2>2, <2>3
    <3>2. s \notin Holders(NextKey(r))
      BY <2>1, <2>3, <1>0, <1>2 DEF Live, Waits, Clash
    <3> QED BY <2>3, <3>1, <3>2 DEF Holders
  <2>4. ASSUME NEW k \in 1 .. rows[r], NextKey(r) # NoKey
        PROVE  Wants[r][k] # NextKey(r)
    <3>1. r \notin Holders(NextKey(r))
      BY <1>2 DEF Clash
    <3>2. rows[r] > 0
      BY <1>0
    <3> QED BY <2>4, <3>1, <3>2 DEF Holders
  <2>5. Live(r)
    BY <1>0 DEF Live, InOpen, Open
  <2> SUFFICES ASSUME NEW s \in Requests, NEW t \in Requests, Live(s)', Live(t)', rows'[s] > 0, rows'[t] > 0,
                      NEW i \in 1 .. rows'[s], NEW k \in 1 .. rows'[t],
                      Wants[s][i] = Wants[t][k], Wants[s][i] # NoKey
               PROVE  s = t /\ i = k
    BY DEF UniqueKeys
  <2>6. Live(s) /\ Live(t)
    BY <2>2, <2>5
  <2>7. \A u \in Requests, m \in Nat : u # r /\ m \in 1 .. rows'[u] => m \in 1 .. rows[u] /\ rows[u] > 0
    BY <2>2
  <2>8. \A m \in 1 .. rows'[r] : m = rows[r] + 1 \/ (m \in 1 .. rows[r] /\ rows[r] > 0)
    BY <1>0, <2>1
  <2>9. i \in Nat /\ k \in Nat
    BY <1>0, <2>1, <2>2
  <2>10. CASE s = r /\ t = r
    <3>1. CASE i = rows[r] + 1
      BY <3>1, <2>10, <2>8, <2>4 DEF NextKey
    <3>2. CASE k = rows[r] + 1
      BY <3>2, <2>10, <2>8, <2>4 DEF NextKey
    <3>3. CASE i # rows[r] + 1 /\ k # rows[r] + 1
      BY <3>3, <2>10, <2>8, <2>6 DEF UniqueKeys
    <3> QED BY <3>1, <3>2, <3>3
  <2>11. CASE s = r /\ t # r
    <3>1. k \in 1 .. rows[t] /\ rows[t] > 0
      BY <2>7, <2>9, <2>11
    <3>2. CASE i = rows[r] + 1
      BY <3>1, <3>2, <2>11, <2>3, <2>6 DEF NextKey
    <3>3. CASE i # rows[r] + 1
      BY <3>1, <3>3, <2>11, <2>8, <2>6 DEF UniqueKeys
    <3> QED BY <3>2, <3>3
  <2>12. CASE s # r /\ t = r
    <3>1. i \in 1 .. rows[s] /\ rows[s] > 0
      BY <2>7, <2>9, <2>12
    <3>2. CASE k = rows[r] + 1
      BY <3>1, <3>2, <2>12, <2>3, <2>6 DEF NextKey
    <3>3. CASE k # rows[r] + 1
      BY <3>1, <3>3, <2>12, <2>8, <2>6 DEF UniqueKeys
    <3> QED BY <3>2, <3>3
  <2>13. CASE s # r /\ t # r
    BY <2>13, <2>7, <2>9, <2>6 DEF UniqueKeys
  <2> QED BY <2>10, <2>11, <2>12, <2>13
<1> QED BY <1>1, <1>2

(* The rows of a request are there to the last or not at all once its      *)
(* transaction is over, and no two live jobs have one key, however the     *)
(* statements of requests, losses, aborted transactions and the deletion   *)
(* of the queue interleave (jobs.py:117-213).                              *)
THEOREM CreationCorrect == CreationSpec => []CreationInv
<1>1. CreationInit => UniqueKeys
  BY DEF CreationInit, UniqueKeys
<1>2. AllSane /\ UniqueKeys /\ [CreationNext]_creationVars => UniqueKeys'
  <2> SUFFICES ASSUME AllSane, UniqueKeys, [CreationNext]_creationVars
               PROVE  UniqueKeys'
    OBVIOUS
  <2>0. Formed /\ \A r \in Requests : Sane(r)
    BY DEF AllSane
  <2>1. CASE DeleteQueue
    BY <2>1 DEF DeleteQueue, UniqueKeys, Live, InOpen, Committed
  <2>2. CASE UNCHANGED creationVars
    BY <2>2 DEF creationVars, UniqueKeys, Live, InOpen, Committed
  <2>3. ASSUME NEW r \in Requests, Arrive(r)
        PROVE  UniqueKeys'
    BY <2>0, <2>3, ArriveDoes, QuietKeepsUnique DEF Sane, Moves, Ends
  <2>4. ASSUME NEW r \in Requests, Lookup(r)
        PROVE  UniqueKeys'
    BY <2>0, <2>4, LookupDoes, QuietKeepsUnique DEF Sane, Moves, Ends
  <2>5. ASSUME NEW r \in Requests, ValidateDependsOn(r)
        PROVE  UniqueKeys'
    BY <2>0, <2>5, ValidateDoes, QuietKeepsUnique DEF Sane, Moves, Ends
  <2>6. ASSUME NEW r \in Requests, InsertRow(r)
        PROVE  UniqueKeys'
    BY <2>6, InsertKeepsUnique
  <2>7. ASSUME NEW r \in Requests, CheckQueue(r)
        PROVE  UniqueKeys'
    BY <2>0, <2>7, CheckQueueDoes, QuietKeepsUnique DEF Moves, Live, InOpen, Open
  <2>8. ASSUME NEW r \in Requests, Commit(r)
        PROVE  UniqueKeys'
    BY <2>0, <2>8, CommitDoes, QuietKeepsUnique DEF Moves, Live, InOpen, Open
  <2>9. ASSUME NEW r \in Requests, Reply(r)
        PROVE  UniqueKeys'
    <3>1. Frame(r) /\ pc[r] = "committed" /\ pc'[r] = "done" /\ rows'[r] = rows[r]
      BY <2>0, <2>9, ReplyDoes DEF Ends
    <3>2. Live(r)' /\ rows'[r] > 0 => Live(r)
      BY <3>1 DEF Frame, Live, InOpen, Open, Committed
    <3> QED BY <2>0, <3>1, <3>2, QuietKeepsUnique DEF Formed
  <2>10. ASSUME NEW r \in Requests, Rollback(r)
         PROVE  UniqueKeys'
    BY <2>0, <2>10, RollbackDoes, QuietKeepsUnique DEF Moves, Ends
  <2>11. ASSUME NEW r \in Requests, Reread(r)
         PROVE  UniqueKeys'
    <3>1. Frame(r) /\ rows'[r] = 0
      BY <2>0, <2>11, RereadDoes DEF Sane, Ends
    <3> QED BY <3>1, QuietKeepsUnique
  <2>12. ASSUME NEW r \in Requests, DeadlockDetected(r)
         PROVE  UniqueKeys'
    BY <2>0, <2>12, DeadlockDoes, QuietKeepsUnique DEF Ends
  <2>13. ASSUME NEW r \in Requests, Lose(r)
         PROVE  UniqueKeys'
    <3>1. Frame(r) /\ pc'[r] = "done" /\ (rows'[r] = 0 \/ (rows'[r] = rows[r] /\ pc[r] = "committed"))
      BY <2>0, <2>13, LoseDoes DEF Ends
    <3>2. rows'[r] = 0 \/ (rows'[r] = rows[r] /\ (Live(r)' /\ rows'[r] > 0 => Live(r)))
      BY <3>1 DEF Frame, Live, InOpen, Open, Committed
    <3> QED BY <2>0, <3>1, <3>2, QuietKeepsUnique DEF Formed
  <2> QED BY <2>1, <2>2, <2>3, <2>4, <2>5, <2>6, <2>7, <2>8, <2>9, <2>10, <2>11, <2>12, <2>13, OneRequest
<1> QED BY <1>1, <1>2, AlwaysSane, SaneMeans, PTL DEF CreationSpec, CreationInv

-----------------------------------------------------------------------------
(* Rows that have been committed stay as they are, and only a commit adds  *)
(* to them; the queue does not come back.                                  *)
LEMMA KeptStays ==
  ASSUME AllSane, [CreationNext]_creationVars, NEW s \in Requests
  PROVE  /\ pc[s] \in Past => pc'[s] \in Past /\ rows'[s] = rows[s]
         /\ Kept(s)' => Kept(s) \/ (pc[s] = "inserted" /\ Commit(s))
         /\ pc'[s] = "inserted" => there' \/ pc[s] = "inserted"
         /\ coming' = coming /\ (there' => there)
         /\ there /\ ~there' => pc[s] # "inserted"
<1>0. Formed /\ \A r \in Requests : Sane(r)
  BY DEF AllSane
<1>1. CASE DeleteQueue \/ UNCHANGED creationVars
  BY <1>1 DEF DeleteQueue, creationVars, Kept
<1>2. ASSUME NEW r \in Requests, Frame(r), s # r
      PROVE  pc'[s] = pc[s] /\ rows'[s] = rows[s] /\ (Kept(s)' => Kept(s)) /\ coming' = coming /\ there' = there
  BY <1>2 DEF Frame, Kept
<1> DEFINE Claim == /\ pc[s] \in Past => pc'[s] \in Past /\ rows'[s] = rows[s]
                    /\ Kept(s)' => Kept(s) \/ (pc[s] = "inserted" /\ Commit(s))
                    /\ pc'[s] = "inserted" => there' \/ pc[s] = "inserted"
                    /\ coming' = coming /\ (there' => there)
                    /\ there /\ ~there' => pc[s] # "inserted"
<1>3. ASSUME NEW r \in Requests, Arrive(r)
      PROVE  Claim
  BY <1>0, <1>2, <1>3, ArriveDoes DEF Sane, Frame, Moves, Ends, Kept, Past
<1>4. ASSUME NEW r \in Requests, Lookup(r)
      PROVE  Claim
  <2>1. Frame(r) /\ pc[r] = "lookup" /\ rows'[r] = 0 /\ pc'[r] \in {"validate", "done"}
    BY <1>0, <1>4, LookupDoes DEF Sane, Moves, Ends
  <2> QED BY <2>1, <1>2 DEF Frame, Kept, Past
<1>5. ASSUME NEW r \in Requests, ValidateDependsOn(r)
      PROVE  Claim
  BY <1>0, <1>2, <1>5, ValidateDoes DEF Sane, Frame, Moves, Ends, Kept, Past
<1>6. ASSUME NEW r \in Requests, InsertRow(r)
      PROVE  Claim
  BY <1>0, <1>2, <1>6, InsertRowDoes DEF Frame, Moves, Ends, Kept, Past
<1>7. ASSUME NEW r \in Requests, CheckQueue(r)
      PROVE  Claim
  BY <1>0, <1>2, <1>7, CheckQueueDoes DEF Frame, Moves, Ends, Kept, Past
<1>8. ASSUME NEW r \in Requests, Commit(r)
      PROVE  Claim
  BY <1>0, <1>2, <1>8, CommitDoes DEF Frame, Moves, Ends, Kept, Past
<1>9. ASSUME NEW r \in Requests, Reply(r)
      PROVE  Claim
  <2>1. Frame(r) /\ pc[r] = "committed" /\ pc'[r] = "done" /\ rows'[r] = rows[r]
    BY <1>0, <1>9, ReplyDoes DEF Ends
  <2> QED BY <2>1, <1>2 DEF Frame, Kept, Past
<1>10. ASSUME NEW r \in Requests, Rollback(r)
       PROVE  Claim
  BY <1>0, <1>2, <1>10, RollbackDoes DEF Frame, Moves, Ends, Kept, Past
<1>11. ASSUME NEW r \in Requests, Reread(r)
       PROVE  Claim
  <2>1. Frame(r) /\ pc[r] = "reread" /\ pc'[r] = "done" /\ rows'[r] = 0
    BY <1>0, <1>11, RereadDoes DEF Sane, Ends
  <2> QED BY <2>1, <1>2 DEF Frame, Kept, Past
<1>12. ASSUME NEW r \in Requests, DeadlockDetected(r)
       PROVE  Claim
  BY <1>0, <1>2, <1>12, DeadlockDoes DEF Frame, Moves, Ends, Kept, Past
<1>13. ASSUME NEW r \in Requests, Lose(r)
       PROVE  Claim
  BY <1>0, <1>2, <1>13, LoseDoes DEF Frame, Moves, Ends, Kept, Past
<1> QED BY <1>1, <1>3, <1>4, <1>5, <1>6, <1>7, <1>8, <1>9, <1>10, <1>11, <1>12, <1>13, OneRequest

(* The queue is not deleted between the check of it and the commit.        *)
LEMMA QueueIsHeld == CreationSpec => []HoldsQueue
<1>1. CreationInit => HoldsQueue
  BY DEF CreationInit, HoldsQueue
<1>2. AllSane /\ HoldsQueue /\ [CreationNext]_creationVars => HoldsQueue'
  <2> SUFFICES ASSUME AllSane, HoldsQueue, [CreationNext]_creationVars, NEW s \in Requests, pc'[s] = "inserted"
               PROVE  there'
    BY DEF HoldsQueue
  <2> QED BY KeptStays DEF HoldsQueue
<1> QED BY <1>1, <1>2, AlwaysSane, PTL DEF CreationSpec

(* Two jobs never had one key, not even after both have gone.              *)
LEMMA UniqueForGoodCorrect == CreationSpec => []UniqueForGood
<1>1. CreationInit => UniqueForGood
  BY DEF CreationInit, UniqueForGood, Kept
<1>2. AllSane /\ HoldsQueue /\ UniqueForGood /\ UniqueKeys' /\ [CreationNext]_creationVars => UniqueForGood'
  <2> SUFFICES ASSUME AllSane, HoldsQueue, UniqueForGood, UniqueKeys', [CreationNext]_creationVars
               PROVE  UniqueForGood'
    OBVIOUS
  <2>1. CASE there'
    <3>1. \A t \in Requests : Kept(t)' => Live(t)' /\ rows'[t] > 0
      BY <2>1 DEF Kept, Past, Live, Committed
    <3> QED BY <3>1 DEF UniqueKeys, UniqueForGood
  <2>2. CASE ~there'
    <3>1. \A t \in Requests : Kept(t)' => Kept(t) /\ rows'[t] = rows[t]
      <4> TAKE t \in Requests
      <4>1. ~ (pc[t] = "inserted" /\ Commit(t))
        BY <2>2 DEF HoldsQueue, Commit
      <4> QED BY <4>1, KeptStays DEF Kept
    <3> QED BY <3>1 DEF UniqueForGood
  <2> QED BY <2>1, <2>2
<1> QED BY <1>1, <1>2, AlwaysSane, QueueIsHeld, CreationCorrect, PTL DEF CreationSpec, CreationInv

-----------------------------------------------------------------------------
(* The jobs of the queue, one by one.                                      *)
LEMMA JobsAre ==
  ASSUME NEW j
  PROVE  /\ j \in jobs <=> \E s \in coming : Committed(s) /\ \E i \in 1 .. rows[s] : j = <<s, i>>
         /\ j \in jobs' <=> \E s \in coming' : Committed(s)' /\ \E i \in 1 .. rows'[s] : j = <<s, i>>
<1>1. j \in jobs <=> \E s \in coming : Committed(s) /\ j \in {s} \X (1 .. rows[s])
  BY DEF jobs
<1>2. j \in jobs' <=> \E s \in coming' : Committed(s)' /\ j \in {s} \X (1 .. rows'[s])
  BY DEF jobs
<1>3. \A s, n : j \in {s} \X (1 .. n) <=> \E i \in 1 .. n : j = <<s, i>>
  OBVIOUS
<1> QED BY <1>1, <1>2, <1>3

(* A job stays as long as its queue does, and so does its key.             *)
LEMMA JobStays ==
  ASSUME AllSane, [CreationNext]_creationVars, there', NEW j \in jobs
  PROVE  j \in jobs'
<1>1. PICK s \in coming : Committed(s) /\ \E i \in 1 .. rows[s] : j = <<s, i>>
  BY JobsAre
<1>2. s \in Requests /\ pc[s] \in Past
  BY <1>1 DEF AllSane, Committed, Past
<1>3. s \in coming' /\ pc'[s] \in Past /\ rows'[s] = rows[s]
  BY <1>2, KeptStays
<1> QED BY <1>1, <1>3, JobsAre DEF Committed, Past

(* A key that a committed job has stays taken while the queue is there.    *)
LEMMA HoldsStays ==
  ASSUME AllSane, [CreationNext]_creationVars, there', NEW k, Holds(k)
  PROVE  Holds(k)'
<1>1. PICK s \in coming : Committed(s) /\ \E i \in 1 .. rows[s] : Wants[s][i] = k
  BY DEF Holds
<1>2. s \in Requests /\ pc[s] \in Past
  BY <1>1 DEF AllSane, Committed, Past
<1>3. s \in coming' /\ pc'[s] \in Past /\ rows'[s] = rows[s]
  BY <1>2, KeptStays
<1> QED BY <1>1, <1>3 DEF Holds, Committed, Past

(* At most one job has a key.                                              *)
LEMMA OneJobPerKey ==
  ASSUME AllSane, UniqueKeys, NEW k, k # NoKey, NEW a \in JobsWith(k), NEW b \in JobsWith(k)
  PROVE  a = b
<1>1. PICK s \in coming : Committed(s) /\ \E i \in 1 .. rows[s] : a = <<s, i>>
  BY JobsAre DEF JobsWith
<1>2. PICK i \in 1 .. rows[s] : a = <<s, i>>
  BY <1>1
<1>3. PICK t \in coming : Committed(t) /\ \E m \in 1 .. rows[t] : b = <<t, m>>
  BY JobsAre DEF JobsWith
<1>4. PICK m \in 1 .. rows[t] : b = <<t, m>>
  BY <1>3
<1>5. Wants[s][i] = k /\ Wants[t][m] = k
  BY <1>2, <1>4 DEF JobsWith, KeyOf
<1>6. s \in Requests /\ t \in Requests /\ Live(s) /\ Live(t) /\ rows[s] > 0 /\ rows[t] > 0
  BY <1>1, <1>3 DEF AllSane, Committed, Live
<1>7. s = t /\ i = m
  BY <1>5, <1>6 DEF UniqueKeys
<1> QED BY <1>2, <1>4, <1>7

(* Only a batch that already has rows is ever the victim of a deadlock.    *)
THEOREM SinglesAreSparedCorrect == CreationSpec => []SinglesAreSpared
<1>1. CreationInit => SinglesAreSpared
  BY DEF CreationInit, SinglesAreSpared
<1>2. AllSane /\ SinglesAreSpared /\ [CreationNext]_creationVars => SinglesAreSpared'
  <2> SUFFICES ASSUME AllSane, SinglesAreSpared, [CreationNext]_creationVars,
                      NEW s \in Requests, answer'[s].code = "error", s \notin Batches
               PROVE  ~there'
    BY DEF SinglesAreSpared
  <2>0. Formed /\ (there' => there)
    BY KeptStays DEF AllSane
  <2>1. CASE answer'[s] = answer[s]
    BY <2>0, <2>1 DEF SinglesAreSpared
  <2>2. ASSUME NEW r \in Requests, Frame(r), r # s
        PROVE  ~there'
    BY <2>1, <2>2 DEF Frame
  <2>3. CASE DeadlockDetected(s)
    <3>1. pc[s] = "insert" /\ rows[s] > 0
      BY <2>0, <2>3, DeadlockDoes
    <3>2. Len(Wants[s]) # 1
      <4>1. rows[s] \in Nat /\ rows[s] < Len(Wants[s])
        BY <3>1 DEF AllSane, Sane, Formed
      <4>2. Len(Wants[s]) \in Nat
        BY WantsAre
      <4>3. \A n, m \in Nat : n > 0 /\ n < m => m # 1
        OBVIOUS
      <4> QED BY <3>1, <4>1, <4>2, <4>3
    <3>3. Single(s) => Len(Wants[s]) = 1
      BY WantsAre
    <3> QED BY <3>2, <3>3 DEF Single
  <2>4. CASE Reply(s)
    <3>1. CASE there
      <4>1. Ends(s, rows[s], "created", <<s, 1>>)
        BY <2>0, <2>4, <3>1, ReplyDoes
      <4>2. answer'[s].code = "created"
        BY <4>1 DEF Ends
      <4> QED BY <4>2
    <3> QED BY <2>0, <3>1
  <2>5. CASE Lookup(s)
    BY <2>0, <2>1, <2>5, LookupDoes, EndsSays DEF Moves
  <2>6. CASE Reread(s)
    BY <2>0, <2>6, RereadDoes, EndsSays
  <2>7. CASE DeleteQueue \/ UNCHANGED creationVars
    BY <2>1, <2>7 DEF DeleteQueue, creationVars
  <2>8. ASSUME NEW r \in Requests, Arrive(r) \/ ValidateDependsOn(r) \/ InsertRow(r) \/ CheckQueue(r)
                                     \/ Commit(r) \/ Rollback(r) \/ Lose(r)
        PROVE  ~there'
    BY <2>0, <2>1, <2>2, <2>8, ArriveDoes, ValidateDoes, InsertRowDoes, CheckQueueDoes, CommitDoes, RollbackDoes, LoseDoes
       DEF Ends, Moves
  <2>9. ASSUME NEW r \in Requests, Lookup(r) \/ Reply(r) \/ Reread(r) \/ DeadlockDetected(r)
        PROVE  Frame(r)
    BY <2>0, <2>9, LookupDoes, ReplyDoes, RereadDoes, DeadlockDoes
  <2> QED BY <2>2, <2>3, <2>4, <2>5, <2>6, <2>7, <2>8, <2>9, OneRequest
<1> QED BY <1>1, <1>2, AlwaysSane, PTL DEF CreationSpec

-----------------------------------------------------------------------------
(* What an INSERT was refused for stays until its request is answered.     *)
LEMMA ClashIsRefusal ==
  ASSUME AllSane, NEW r \in Requests, pc[r] = "insert", Clash(r) # {}
  PROVE  RefusedFor(r)
<1>1. PICK s \in Holders(NextKey(r)) : s = r \/ Committed(s)
  BY DEF Clash
<1>2. /\ NextKey(r) # NoKey /\ s \in Requests
      /\ rows[s] > 0 /\ \E i \in 1 .. rows[s] : Wants[s][i] = NextKey(r)
  BY <1>1 DEF Holders
<1>3. /\ rows[r] \in Nat /\ Len(Wants[r]) \in Nat /\ rows[r] < Len(Wants[r])
      /\ rows[r] + 1 \in 1 .. Len(Wants[r])
  <2>1. rows[r] \in Nat /\ rows[r] < Len(Wants[r]) /\ Len(Wants[r]) \in Nat
    BY WantsAre DEF AllSane, Formed, Sane
  <2>2. \A n, m \in Nat : n < m => n + 1 \in 1 .. m
    OBVIOUS
  <2> QED BY <2>1, <2>2
<1>4. CASE Committed(s)
  <2>1. s \in coming
    BY <1>2, <1>4 DEF AllSane, Sane, Committed
  <2>2. Holds(NextKey(r))
    BY <1>2, <1>4, <2>1 DEF Holds
  <2> QED BY <2>2, <1>2, <1>3 DEF RefusedFor, NextKey
<1>5. CASE s = r
  <2>1. PICK i \in 1 .. rows[r] : Wants[r][i] = NextKey(r)
    BY <1>2, <1>5
  <2>2. i \in 1 .. Len(Wants[r]) /\ i # rows[r] + 1
    <3>1. \A n, m \in Nat : n < m => \A k \in 1 .. n : k \in 1 .. m /\ k # n + 1
      OBVIOUS
    <3> QED BY <1>3, <3>1
  <2>3. Directory!Clashes(r)
    BY <2>1, <2>2, <1>2, <1>3, WantsAre DEF Directory!Clashes, NextKey
  <2>4. Len(Wants[r]) # 1
    <3>1. \A n, m \in Nat : n > 0 /\ n < m => m # 1
      OBVIOUS
    <3> QED BY <1>2, <1>3, <1>5, <3>1
  <2>5. r \in Batches
    BY <2>4, WantsAre DEF Single
  <2> QED BY <2>3, <2>5 DEF RefusedFor
<1> QED BY <1>1, <1>4, <1>5

(* So a reason to refuse a request does not go away.                       *)
LEMMA RefusalStays ==
  ASSUME AllSane, [CreationNext]_creationVars, NEW r \in Requests, RefusedFor(r)
  PROVE  RefusedFor(r)'
<1>1. CASE ~there'
  BY <1>1 DEF RefusedFor
<1>2. CASE there'
  BY <1>2, KeptStays, HoldsStays DEF RefusedFor, Directory!Clashes
<1> QED BY <1>1, <1>2

(* An INSERT is refused for such a reason only.                            *)
LEMMA RefusedCorrect == CreationSpec => []Refused
<1>1. CreationInit => Refused
  BY DEF CreationInit, Refused
<1>2. AllSane /\ Refused /\ [CreationNext]_creationVars => Refused'
  <2> SUFFICES ASSUME AllSane, Refused, [CreationNext]_creationVars,
                      NEW s \in Requests, pc'[s] \in {"failed", "reread"}
               PROVE  RefusedFor(s)'
    BY DEF Refused
  <2>0. Formed
    BY DEF AllSane
  <2>1. CASE pc[s] \in {"failed", "reread"}
    BY <2>1, RefusalStays DEF Refused
  <2>2. ASSUME NEW r \in Requests, Frame(r), r # s
        PROVE  RefusedFor(s)'
    BY <2>1, <2>2 DEF Frame
  <2>3. CASE InsertRow(s)
    BY <2>0, <2>3, InsertRowDoes, ClashIsRefusal, RefusalStays DEF Moves
  <2>4. CASE CheckQueue(s)
    BY <2>0, <2>4, CheckQueueDoes DEF Moves, Frame, RefusedFor
  <2>5. CASE DeleteQueue \/ UNCHANGED creationVars
    BY <2>1, <2>5 DEF DeleteQueue, creationVars
  <2>6. ASSUME NEW r \in Requests, Arrive(r) \/ ValidateDependsOn(r) \/ Commit(r) \/ Rollback(r) \/ DeadlockDetected(r) \/ Lose(r)
        PROVE  RefusedFor(s)'
    BY <2>0, <2>1, <2>2, <2>6, ArriveDoes, ValidateDoes, CommitDoes, RollbackDoes, DeadlockDoes, LoseDoes DEF Ends, Moves
  <2>7. ASSUME NEW r \in Requests, Lookup(r) \/ Reply(r) \/ Reread(r)
        PROVE  RefusedFor(s)'
    <3>1. Frame(r) /\ pc'[r] \in {"validate", "done"}
      BY <2>0, <2>7, LookupDoes, ReplyDoes, RereadDoes DEF Ends, Moves
    <3> QED BY <3>1, <2>2
  <2> QED BY <2>0, <2>2, <2>3, <2>4, <2>5, <2>6, <2>7, OneRequest, InsertRowDoes, CheckQueueDoes
<1> QED BY <1>1, <1>2, AlwaysSane, PTL DEF CreationSpec

-----------------------------------------------------------------------------
(* Nobody is told of a job that has not been committed, or of another one  *)
(* than the first with the key.                                            *)
LEMMA NamesStays ==
  ASSUME AllSane, [CreationNext]_creationVars, NEW r \in Requests, NEW s \in Requests, NEW i \in Nat,
         Names(r, s, i), answer'[r] = answer[r]
  PROVE  Names(r, s, i)'
<1>1. pc'[s] \in Past /\ rows'[s] = rows[s]
  BY KeptStays DEF Names, Kept
<1> QED BY <1>1 DEF Names, Kept

(* A job found by its key is named by the answer.                          *)
LEMMA FoundIsNamed ==
  ASSUME AllSane, [CreationNext]_creationVars, NEW r \in Requests, Single(r), NEW j \in JobsWith(Wants[r][1]),
         Wants[r][1] # NoKey, answer'[r].job = j
  PROVE  \E s \in Requests, i \in Nat : Names(r, s, i)'
<1>1. PICK s \in coming : Committed(s) /\ \E i \in 1 .. rows[s] : j = <<s, i>>
  BY JobsAre DEF JobsWith
<1>2. PICK i \in 1 .. rows[s] : j = <<s, i>>
  BY <1>1
<1>3. s \in Requests /\ i \in Nat /\ pc[s] \in Past /\ rows[s] > 0 /\ Wants[s][i] = Wants[r][1]
  BY <1>1, <1>2 DEF AllSane, Formed, Committed, Past, JobsWith, KeyOf
<1>4. pc'[s] \in Past /\ rows'[s] = rows[s]
  BY <1>3, KeptStays
<1>5. Names(r, s, i)'
  BY <1>2, <1>3, <1>4 DEF Names, Kept
<1> QED BY <1>3, <1>5

(* Every answer that names a job names one that was committed.             *)
LEMMA InformedCorrect == CreationSpec => []Informed
<1>1. CreationInit => Informed
  BY DEF CreationInit, Informed, Told
<1>2. AllSane /\ Refused /\ Informed /\ [CreationNext]_creationVars => Informed'
  <2> SUFFICES ASSUME AllSane, Refused, Informed, [CreationNext]_creationVars, NEW r \in Requests, Told(r)'
               PROVE  \E s \in Requests, i \in Nat : Names(r, s, i)'
    BY DEF Informed
  <2>0. Formed
    BY DEF AllSane
  <2>1. CASE answer'[r] = answer[r]
    <3>1. PICK s \in Requests, i \in Nat : Names(r, s, i)
      BY <2>1 DEF Informed, Told
    <3> QED BY <3>1, <2>1, NamesStays
  <2>2. ASSUME NEW q \in Requests, Frame(q), q # r
        PROVE  answer'[r] = answer[r]
    BY <2>2 DEF Frame
  <2>3. CASE Lookup(r)
    <3>1. CASE answer' = answer
      BY <3>1, <2>1
    <3>2. CASE HasKey(r) /\ \E j \in JobsWith(Wants[r][1]) : Ends(r, rows[r], "existing", j)
      <4>1. PICK j \in JobsWith(Wants[r][1]) : Ends(r, rows[r], "existing", j)
        BY <3>2
      <4>2. Single(r) /\ Wants[r][1] # NoKey
        BY <3>2, <2>0, <2>3, LookupDoes DEF AllSane, Sane, HasKey
      <4> QED BY <4>1, <4>2, EndsSays, FoundIsNamed
    <3> QED BY <2>0, <2>3, <3>1, <3>2, LookupDoes DEF Moves
  <2>4. CASE Reread(r)
    <3>1. PICK j \in JobsWith(Wants[r][1]) : Ends(r, rows[r], "existing", j)
      <4>1. ~ Ends(r, rows[r], "conflict", NoJob)
        BY EndsSays DEF Told
      <4> QED BY <4>1, <2>0, <2>4, RereadDoes
    <3>2. pc[r] = "reread" /\ Single(r) /\ there
      <4>1. pc[r] = "reread" /\ Single(r)
        BY <2>0, <2>4, RereadDoes DEF AllSane, Sane
      <4> QED BY <4>1, <3>1, JobsAre DEF JobsWith, Committed
    <3>3. Wants[r][1] # NoKey
      BY <3>2, WantsAre DEF Refused, RefusedFor, Single
    <3> QED BY <3>1, <3>2, <3>3, EndsSays, FoundIsNamed
  <2>5. CASE Reply(r)
    <3>0. Frame(r) /\ pc[r] = "committed" /\ rows[r] = Len(Wants[r])
      BY <2>0, <2>5, ReplyDoes DEF AllSane, Sane
    <3>1. Ends(r, rows[r], "created", <<r, 1>>)
      <4>1. CASE ~there
        <5>1. Ends(r, rows[r], "error", NoJob)
          BY <4>1, <2>0, <2>5, ReplyDoes
        <5> QED BY <5>1, EndsSays DEF Told
      <4> QED BY <4>1, <2>0, <2>5, ReplyDoes
    <3>2. rows'[r] > 0 /\ 1 \in 1 .. rows'[r] /\ pc'[r] \in Past
      BY <3>0, <3>1, WantsAre DEF Ends, Past
    <3>3. Names(r, r, 1)'
      BY <3>1, <3>2, EndsSays DEF Names, Kept
    <3> QED BY <3>3
  <2>6. CASE DeleteQueue \/ UNCHANGED creationVars
    BY <2>1, <2>6 DEF DeleteQueue, creationVars
  <2>7. ASSUME NEW q \in Requests, Arrive(q) \/ ValidateDependsOn(q) \/ InsertRow(q) \/ CheckQueue(q)
                                     \/ Commit(q) \/ Rollback(q) \/ DeadlockDetected(q) \/ Lose(q)
        PROVE  answer'[r] = answer[r]
    <3>1. Frame(q)
      BY <2>0, <2>7, ArriveDoes, ValidateDoes, InsertRowDoes, CheckQueueDoes, CommitDoes, RollbackDoes, DeadlockDoes, LoseDoes
    <3>2. CASE q # r
      BY <3>1, <3>2, <2>2
    <3>3. CASE answer' = answer
      BY <3>3
    <3>4. ASSUME NEW n, NEW c \in {"notfound", "unprocessable", "conflict", "error", "lost"}, Ends(q, n, c, NoJob)
          PROVE  answer'[r] = answer[r]
      <4>1. answer'[q].code \notin {"created", "existing"}
        BY <3>4, EndsSays
      <4> QED BY <4>1, <3>2 DEF Told
    <3>5. Arrive(q) \/ ValidateDependsOn(q) => answer' = answer \/ Ends(q, rows[q], "notfound", NoJob)
                                              \/ Ends(q, rows[q], "unprocessable", NoJob)
      BY <2>0, ArriveDoes, ValidateDoes DEF Moves
    <3>6. InsertRow(q) \/ CheckQueue(q) \/ Commit(q) => answer' = answer
      BY <2>0, InsertRowDoes, CheckQueueDoes, CommitDoes DEF Moves
    <3>7. Rollback(q) => answer' = answer \/ Ends(q, 0, "conflict", NoJob)
      BY <2>0, RollbackDoes DEF Moves
    <3>8. DeadlockDetected(q) => Ends(q, 0, "error", NoJob)
      BY <2>0, DeadlockDoes
    <3>9. Lose(q) => \E n : Ends(q, n, "lost", NoJob)
      BY <2>0, LoseDoes
    <3> QED BY <2>7, <3>2, <3>3, <3>4, <3>5, <3>6, <3>7, <3>8, <3>9
  <2>8. ASSUME NEW q \in Requests, Lookup(q) \/ Reply(q) \/ Reread(q)
        PROVE  Frame(q)
    BY <2>0, <2>8, LookupDoes, ReplyDoes, RereadDoes
  <2> QED BY <2>1, <2>2, <2>3, <2>4, <2>5, <2>6, <2>7, <2>8, OneRequest
<1> QED BY <1>1, <1>2, AlwaysSane, RefusedCorrect, PTL DEF CreationSpec

(* Whoever is told of a job under one key is told of the same job, and the *)
(* job was committed, under that key.                                      *)
THEOREM SameJobCorrect == CreationSpec => []SameJob
<1>1. AllSane /\ Informed /\ UniqueForGood => SameJob
  <2> SUFFICES ASSUME AllSane, Informed, UniqueForGood,
                      NEW r \in Requests, NEW s \in Requests, Told(r), Single(r), Single(s)
               PROVE  /\ KeyOf(answer[r].job) = Wants[r][1] /\ rows[answer[r].job[1]] >= answer[r].job[2]
                      /\ pc[answer[r].job[1]] \in {"committed", "done"}
                      /\ Wants[r][1] = NoKey => answer[r].job = <<r, 1>>
                      /\ Told(s) /\ Wants[r][1] = Wants[s][1] /\ Wants[r][1] # NoKey => answer[r].job = answer[s].job
    BY DEF SameJob
  <2>1. PICK t \in Requests, i \in Nat : Names(r, t, i)
    BY DEF Informed
  <2>2. /\ Kept(t) /\ i \in 1 .. rows[t] /\ answer[r].job = <<t, i>> /\ Wants[t][i] = Wants[r][1]
        /\ Wants[r][1] = NoKey => t = r /\ i = 1
    BY <2>1 DEF Names
  <2>3. answer[r].job[1] = t /\ answer[r].job[2] = i /\ rows[t] >= i
    BY <2>2 DEF AllSane, Formed
  <2>4. ASSUME Told(s), Wants[r][1] = Wants[s][1], Wants[r][1] # NoKey
        PROVE  answer[r].job = answer[s].job
    <3>1. PICK u \in Requests, k \in Nat : Names(s, u, k)
      BY <2>4 DEF Informed
    <3>2. Kept(u) /\ k \in 1 .. rows[u] /\ answer[s].job = <<u, k>> /\ Wants[u][k] = Wants[s][1]
      BY <3>1 DEF Names
    <3>3. t = u /\ i = k
      BY <2>2, <2>4, <3>2 DEF UniqueForGood
    <3> QED BY <2>2, <3>2, <3>3
  <2> QED BY <2>2, <2>3, <2>4 DEF KeyOf, Kept, Past
<1> QED BY <1>1, AlwaysSane, InformedCorrect, UniqueForGoodCorrect, PTL

-----------------------------------------------------------------------------
(* Who asks again is given the job there is.                               *)
FindsFor(r) == known[r] # NoJob =>
    /\ Single(r) /\ HasKey(r) /\ pc[r] # "new"
    /\ there => known[r] \in JobsWith(Wants[r][1]) /\ pc[r] \in {"lookup", "done"}
    /\ there /\ pc[r] = "done" => \/ answer[r] = [code |-> "existing", job |-> known[r]]
                                  \/ answer[r].code = "lost"

(* A job keeps its key while the queue is there.                           *)
LEMMA KeyStays ==
  ASSUME AllSane, [CreationNext]_creationVars, there', NEW k, NEW j \in JobsWith(k)
  PROVE  j \in JobsWith(k)'
BY JobStays DEF JobsWith, KeyOf

(* A request that does not move, in a queue that is there, keeps its job.  *)
LEMMA OthersFind ==
  ASSUME AllSane, [CreationNext]_creationVars, NEW r \in Requests, FindsFor(r),
         known'[r] = known[r], pc'[r] = pc[r], answer'[r] = answer[r]
  PROVE  FindsFor(r)'
<1>1. there' => there
  BY KeptStays
<1>2. HasKey(r)' <=> HasKey(r)
  BY DEF HasKey
<1> QED BY <1>1, <1>2, KeyStays DEF FindsFor

(* It is found by the lookup, and nothing else can happen to its request.  *)
LEMMA FindsCorrect == CreationSpec => []Finds
<1>1. CreationInit => Finds
  BY DEF CreationInit, Finds
<1>2. AllSane /\ UniqueKeys /\ Finds /\ [CreationNext]_creationVars => Finds'
  <2> SUFFICES ASSUME AllSane, UniqueKeys, Finds, [CreationNext]_creationVars
               PROVE  Finds'
    OBVIOUS
  <2>0. Formed /\ DOMAIN known = Requests /\ \A r \in Requests : FindsFor(r)
    BY DEF AllSane, Finds, FindsFor
  <2>1. DOMAIN known' = Requests
    BY <2>0, OneRequest, LookupDoes, ValidateDoes, InsertRowDoes, CheckQueueDoes, CommitDoes, ReplyDoes, RollbackDoes,
       RereadDoes, DeadlockDoes, LoseDoes DEF Arrive, DeleteQueue, creationVars
  <2> SUFFICES ASSUME NEW s \in Requests
               PROVE  FindsFor(s)'
    BY <2>1 DEF Finds, FindsFor
  <2>2. FindsFor(s) /\ AllSane /\ Sane(s) /\ (there' => there)
    BY <2>0, KeptStays DEF AllSane
  <2>3. ASSUME NEW r \in Requests, Frame(r), r # s, known'[s] = known[s]
        PROVE  FindsFor(s)'
    BY <2>2, <2>3, OthersFind DEF Frame
  <2>4. CASE DeleteQueue \/ UNCHANGED creationVars
    BY <2>2, <2>4, OthersFind DEF DeleteQueue, creationVars
  <2>5. ASSUME known' = known, pc'[s] # "new", ~there' \/ known[s] = NoJob
        PROVE  FindsFor(s)'
    <3>1. HasKey(s)' <=> HasKey(s)
      BY DEF HasKey
    <3> QED BY <3>1, <2>2, <2>5 DEF FindsFor
  <2>6. CASE Arrive(s)
    <3> SUFFICES ASSUME known'[s] # NoJob
                 PROVE  /\ Single(s) /\ HasKey(s)' /\ pc'[s] # "new"
                        /\ there' => known'[s] \in JobsWith(Wants[s][1])' /\ pc'[s] = "lookup"
      BY DEF FindsFor
    <3>1. Single(s) /\ HasKey(s) /\ known'[s] \in JobsWith(Wants[s][1])
      BY <2>0, <2>6 DEF Arrive
    <3>2. HasKey(s)' <=> HasKey(s)
      BY DEF HasKey
    <3>3. Frame(s) /\ IF there THEN Moves(s, "lookup", rows[s]) ELSE Ends(s, rows[s], "notfound", NoJob)
      BY <3>1, <2>0, <2>6, ArriveDoes
    <3> QED BY <3>1, <3>2, <3>3, KeyStays DEF Frame, Moves, Ends
  <2>7. CASE Lookup(s) /\ there /\ known[s] # NoJob
    <3>1. Single(s) /\ HasKey(s) /\ known[s] \in JobsWith(Wants[s][1]) /\ Wants[s][1] # NoKey
      BY <2>2, <2>7 DEF FindsFor, HasKey
    <3>2. PICK j \in JobsWith(Wants[s][1]) : Ends(s, rows[s], "existing", j)
      BY <2>0, <2>7, <3>1, LookupDoes
    <3>3. j = known[s]
      BY <2>2, <3>1, OneJobPerKey
    <3>4. known' = known /\ pc'[s] = "done" /\ answer'[s] = [code |-> "existing", job |-> known[s]] /\ (HasKey(s)' <=> HasKey(s))
      BY <2>0, <2>7, <3>2, <3>3, LookupDoes DEF Ends, HasKey
    <3> QED BY <3>1, <3>4, KeyStays DEF FindsFor
  <2>8. CASE Lookup(s) /\ ~(there /\ known[s] # NoJob)
    <3>1. known' = known /\ pc'[s] # "new"
      BY <2>0, <2>8, LookupDoes DEF Moves, Ends
    <3> QED BY <3>1, <2>2, <2>5, <2>8
  <2>9. CASE Lose(s) /\ there /\ known[s] # NoJob
    <3>1. Single(s) /\ HasKey(s) /\ known[s] \in JobsWith(Wants[s][1])
      BY <2>2, <2>9 DEF FindsFor
    <3>2. known' = known /\ pc'[s] = "done" /\ answer'[s].code = "lost" /\ (HasKey(s)' <=> HasKey(s))
      BY <2>0, <2>9, LoseDoes, EndsSays DEF Ends, HasKey
    <3> QED BY <3>1, <3>2, KeyStays DEF FindsFor
  <2>10. CASE Lose(s) /\ ~(there /\ known[s] # NoJob)
    <3>1. known' = known /\ pc'[s] # "new"
      BY <2>0, <2>10, LoseDoes DEF Ends
    <3> QED BY <3>1, <2>2, <2>5, <2>10
  <2>11. CASE ValidateDependsOn(s) \/ InsertRow(s) \/ CheckQueue(s) \/ Commit(s) \/ Reply(s)
              \/ Rollback(s) \/ Reread(s) \/ DeadlockDetected(s)
    <3>1. known' = known /\ pc[s] \notin {"lookup", "done"}
      BY <2>0, <2>11, ValidateDoes, InsertRowDoes, CheckQueueDoes, CommitDoes, ReplyDoes, RollbackDoes,
         RereadDoes, DeadlockDoes
    <3>2. pc'[s] # "new"
      <4>1. CASE ValidateDependsOn(s) \/ InsertRow(s) \/ CheckQueue(s) \/ Commit(s)
        BY <2>0, <4>1, ValidateDoes, InsertRowDoes, CheckQueueDoes, CommitDoes DEF Moves, Ends
      <4>2. CASE Reply(s) \/ Rollback(s) \/ Reread(s) \/ DeadlockDetected(s)
        BY <2>0, <4>2, ReplyDoes, RollbackDoes, RereadDoes, DeadlockDoes DEF Moves, Ends
      <4> QED BY <2>11, <4>1, <4>2
    <3>3. ~there \/ known[s] = NoJob
      BY <3>1, <2>2 DEF FindsFor
    <3> QED BY <3>1, <3>2, <3>3, <2>2, <2>5
  <2>12. ASSUME NEW r \in Requests, r # s, Arrive(r)
         PROVE  FindsFor(s)'
    BY <2>0, <2>3, <2>12, ArriveDoes DEF Arrive
  <2>13. ASSUME NEW r \in Requests, r # s,
                \/ Lookup(r) \/ ValidateDependsOn(r) \/ InsertRow(r) \/ CheckQueue(r) \/ Commit(r) \/ Reply(r)
                \/ Rollback(r) \/ Reread(r) \/ DeadlockDetected(r) \/ Lose(r)
         PROVE  FindsFor(s)'
    BY <2>0, <2>3, <2>13, LookupDoes, ValidateDoes, InsertRowDoes, CheckQueueDoes, CommitDoes, ReplyDoes, RollbackDoes,
       RereadDoes, DeadlockDoes, LoseDoes
  <2> QED BY <2>4, <2>6, <2>7, <2>8, <2>9, <2>10, <2>11, <2>12, <2>13, OneRequest
<1> QED BY <1>1, <1>2, AlwaysSane, CreationCorrect, PTL DEF CreationSpec, CreationInv

(* If a job had the key of a request when it came in, the answer names it. *)
THEOREM RepeatIsSafeCorrect == CreationSpec => []RepeatIsSafe
<1>1. Finds => RepeatIsSafe
  BY DEF Finds, RepeatIsSafe
<1> QED BY <1>1, FindsCorrect, PTL

-----------------------------------------------------------------------------
(* Each statement of a request is a step of the directory, or none: the    *)
(* commit creates the jobs, and what ends a request answers it.            *)
LEMMA SameJobs ==
  ASSUME AllSane, NEW r \in Requests, Frame(r), Committed(r)' <=> Committed(r), Committed(r) => rows'[r] = rows[r]
  PROVE  jobs' = jobs
<1>1. coming' = coming /\ \A s \in Requests : (Committed(s)' <=> Committed(s)) /\ (Committed(s) => rows'[s] = rows[s])
  BY DEF Frame, Committed
<1>2. coming \subseteq Requests
  BY DEF AllSane
<1>3. ASSUME NEW j
      PROVE  j \in jobs' <=> j \in jobs
  BY <1>1, <1>2, JobsAre
<1>4. jobs' \subseteq jobs /\ jobs \subseteq jobs'
  BY <1>3
<1> QED BY <1>4

(* A request that is not over has not been answered in the directory.      *)
LEMMA Unanswered ==
  ASSUME AllSane, NEW r \in Requests, pc[r] # "done"
  PROVE  Directory!Unanswered(r)
BY DEF AllSane, Sane, Directory!Unanswered

(* A request that has not committed has no jobs there.                     *)
LEMMA HasNoJobs ==
  ASSUME AllSane, NEW r \in Requests, pc[r] \notin Past
  PROVE  Directory!RowsOf(r) \cap jobs = {} /\ ~Committed(r)
<1>1. ~Committed(r)
  BY DEF Committed, Past
<1>2. ASSUME NEW j \in Directory!RowsOf(r), j \in jobs
      PROVE  FALSE
  <2>1. PICK s \in coming : Committed(s) /\ \E i \in 1 .. rows[s] : j = <<s, i>>
    BY <1>2, JobsAre
  <2>2. j[1] = s /\ j[1] = r
    BY <1>2, <2>1 DEF Directory!RowsOf
  <2> QED BY <1>1, <2>1, <2>2
<1> QED BY <1>1, <1>2

(* An answer that names nothing and changes nothing is one of the          *)
(* directory's.                                                            *)
LEMMA EndsOther ==
  ASSUME AllSane, NEW r \in Requests, pc[r] # "done", there' = there, jobs' = jobs,
         NEW n, NEW c \in {"notfound", "unprocessable", "error", "lost"}, Ends(r, n, c, NoJob)
  PROVE  Directory!Other(r)
BY Unanswered DEF Ends, Directory!Other, Directory!Answer

(* So is one that names a job with the key,                                *)
LEMMA EndsExisting ==
  ASSUME AllSane, NEW r \in Requests, pc[r] \notin Past, there' = there, jobs' = jobs, Single(r),
         Wants[r][1] # NoKey, NEW j \in JobsWith(Wants[r][1]), NEW n, Ends(r, n, "existing", j)
  PROVE  Directory!Existing(r)
<1>1. j \in jobs /\ j \notin Directory!RowsOf(r) /\ KeyOf(j) = Wants[r][1]
  BY HasNoJobs DEF JobsWith
<1>2. Directory!KeyOf(j) = KeyOf(j)
  BY DEF Directory!KeyOf, KeyOf
<1> QED BY <1>1, <1>2, Unanswered DEF Ends, Directory!Existing, Directory!Answer, Single, Past

(* A key that a committed request holds is taken.                          *)
LEMMA HeldIsTaken ==
  ASSUME NEW k, k # NoKey, Holds(k)
  PROVE  Directory!Taken(k)
<1>1. PICK s \in coming : Committed(s) /\ \E i \in 1 .. rows[s] : Wants[s][i] = k
  BY DEF Holds
<1>2. PICK i \in 1 .. rows[s] : Wants[s][i] = k
  BY <1>1
<1>3. <<s, i>> \in jobs
  BY <1>1, JobsAre
<1> QED BY <1>2, <1>3 DEF Directory!Taken, Directory!KeyOf

(* and a conflict, when there is a reason for it.                          *)
LEMMA EndsConflict ==
  ASSUME AllSane, NEW r \in Requests, pc[r] \notin Past, there' = there, jobs' = jobs, RefusedFor(r),
         there => r \in Batches, NEW n, Ends(r, n, "conflict", NoJob)
  PROVE  Directory!Conflict(r)
<1>1. ~there \/ (r \in Batches /\ (Directory!Clashes(r) \/ \E i \in DOMAIN Wants[r] : Directory!Taken(Wants[r][i])))
  BY HeldIsTaken, WantsAre DEF RefusedFor
<1> QED BY <1>1, HasNoJobs, Unanswered DEF Ends, Directory!Conflict, Directory!Answer, Past

(* The commit of a request that holds its keys brings its jobs into being. *)
LEMMA CommitCreates ==
  ASSUME AllSane, HoldsQueue, UniqueKeys, NEW r \in Requests, Commit(r)
  PROVE  Directory!Create(r)
<1>0. Formed /\ Frame(r) /\ pc[r] = "inserted" /\ pc'[r] = "committed" /\ rows'[r] = rows[r] /\ answer' = answer /\ there
  BY CommitDoes DEF AllSane, Moves, HoldsQueue
<1>1. rows[r] = Len(Wants[r]) /\ rows[r] > 0 /\ r \in coming /\ coming \subseteq Requests
  BY <1>0, WantsAre DEF AllSane, Sane
<1>2. ASSUME NEW i \in DOMAIN Wants[r], Directory!Taken(Wants[r][i])
      PROVE  FALSE
  <2>1. PICK j \in jobs : Wants[r][i] # NoKey /\ KeyOf(j) = Wants[r][i]
    BY <1>2 DEF Directory!Taken, Directory!KeyOf, KeyOf
  <2>2. PICK s \in coming : Committed(s) /\ \E k \in 1 .. rows[s] : j = <<s, k>>
    BY JobsAre
  <2>3. PICK k \in 1 .. rows[s] : j = <<s, k>>
    BY <2>2
  <2>4. Live(r) /\ Live(s) /\ s # r /\ rows[s] > 0
    BY <1>0, <2>2 DEF Live, InOpen, Open, Committed
  <2>5. Wants[s][k] = Wants[r][i] /\ i \in 1 .. rows[r]
    BY <1>1, <2>1, <2>3, WantsAre DEF KeyOf
  <2> QED BY <1>1, <2>1, <2>2, <2>4, <2>5 DEF UniqueKeys
<1>3. ~Directory!Clashes(r)
  <2>1. Live(r)
    BY <1>0 DEF Live, InOpen, Open
  <2>2. DOMAIN Wants[r] = 1 .. rows[r]
    BY <1>1, WantsAre
  <2> QED BY <1>1, <2>1, <2>2 DEF UniqueKeys, Directory!Clashes
<1>4. jobs' = jobs \union Directory!RowsOf(r)
  <2>1. ASSUME NEW j
        PROVE  j \in jobs' <=> j \in jobs \/ j \in Directory!RowsOf(r)
    <3>1. j \in Directory!RowsOf(r) <=> \E i \in 1 .. rows[r] : j = <<r, i>>
      BY <1>1 DEF Directory!RowsOf
    <3>2. \A s \in coming : s # r => (Committed(s)' <=> Committed(s)) /\ rows'[s] = rows[s]
      BY <1>0, <1>1 DEF Frame, Committed
    <3>3. Committed(r)' /\ ~Committed(r) /\ coming' = coming
      BY <1>0, <1>1 DEF Frame, Committed
    <3> QED BY <1>0, <1>1, <3>1, <3>2, <3>3, JobsAre
  <2> QED BY <2>1
<1> QED BY <1>0, <1>2, <1>3, <1>4, HasNoJobs, Unanswered DEF Frame, Past, Directory!Create

(* The statements of concurrent requests have the effect of requests that  *)
(* are carried out one at a time.                                          *)
THEOREM DirectoryImplemented == CreationSpec => ImplementsDirectory
<1>1. CreationInit => Directory!Init
  <2> SUFFICES ASSUME CreationInit
               PROVE  Directory!Init
    OBVIOUS
  <2>1. jobs = {}
    <3>1. coming \subseteq Requests
      BY CreationAssumption DEF CreationInit, CreationAssumption
    <3>2. \A s \in coming : ~Committed(s)
      BY <3>1 DEF CreationInit, Committed
    <3> QED BY <3>2, JobsAre
  <2> QED BY <2>1 DEF CreationInit, Directory!Init
<1>2. AllSane /\ HoldsQueue /\ UniqueKeys /\ Refused /\ [CreationNext]_creationVars
        => [Directory!Next]_<<there, jobs, answer>>
  <2> SUFFICES ASSUME AllSane, HoldsQueue, UniqueKeys, Refused, [CreationNext]_creationVars
               PROVE  Directory!Next \/ UNCHANGED <<there, jobs, answer>>
    OBVIOUS
  <2>0. Formed
    BY DEF AllSane
  <2>1. CASE DeleteQueue
    <3>1. there /\ ~there' /\ UNCHANGED answer
      BY <2>1 DEF DeleteQueue
    <3>2. jobs' = {}
      <4>1. \A s : ~Committed(s)'
        BY <3>1 DEF Committed
      <4> QED BY <4>1, JobsAre
    <3> QED BY <3>1, <3>2, <2>0, <2>1 DEF DeleteQueue, Directory!DeleteQueue, Directory!Next
  <2>2. CASE UNCHANGED creationVars
    BY <2>2 DEF creationVars, jobs, Committed
  <2>3. ASSUME NEW r \in Requests, Frame(r), pc[r] \notin Past, pc'[r] \notin Past \/ rows'[r] = 0
        PROVE  jobs' = jobs /\ there' = there
    <3>1. ~Committed(r) /\ ~Committed(r)'
      BY <2>3 DEF Committed, Past
    <3> QED BY <3>1, <2>3, SameJobs DEF Frame
  <2>4. ASSUME NEW r \in Requests, Arrive(r)
        PROVE  Directory!Other(r) \/ UNCHANGED <<there, jobs, answer>>
    <3>1. Frame(r) /\ pc[r] = "new" /\ rows[r] = 0
      BY <2>0, <2>4, ArriveDoes DEF AllSane, Sane
    <3>2. CASE answer' = answer /\ pc'[r] \notin Past
      BY <3>1, <3>2, <2>3 DEF Past
    <3>3. CASE Ends(r, rows[r], "notfound", NoJob)
      <4>1. jobs' = jobs /\ there' = there
        BY <3>1, <3>3, <2>3 DEF Ends, Past
      <4> QED BY <3>1, <3>3, <4>1, EndsOther
    <3> QED BY <2>0, <2>4, <3>2, <3>3, ArriveDoes DEF Moves, Past
  <2>5. ASSUME NEW r \in Requests, Lookup(r)
        PROVE  Directory!Existing(r) \/ UNCHANGED <<there, jobs, answer>>
    <3>1. Frame(r) /\ pc[r] = "lookup" /\ rows[r] = 0 /\ Single(r)
      BY <2>0, <2>5, LookupDoes DEF AllSane, Sane
    <3>2. CASE Moves(r, "validate", rows[r])
      BY <3>1, <3>2, <2>3 DEF Moves, Past
    <3>3. CASE HasKey(r) /\ \E j \in JobsWith(Wants[r][1]) : Ends(r, rows[r], "existing", j)
      <4>1. PICK j \in JobsWith(Wants[r][1]) : Ends(r, rows[r], "existing", j)
        BY <3>3
      <4>2. jobs' = jobs /\ there' = there
        BY <3>1, <4>1, <2>3 DEF Ends, Past
      <4>3. Wants[r][1] # NoKey
        BY <3>3 DEF HasKey
      <4> QED BY <3>1, <4>1, <4>2, <4>3, EndsExisting DEF Past
    <3> QED BY <2>0, <2>5, <3>2, <3>3, LookupDoes
  <2>6. ASSUME NEW r \in Requests, ValidateDependsOn(r)
        PROVE  Directory!Other(r) \/ UNCHANGED <<there, jobs, answer>>
    <3>1. Frame(r) /\ pc[r] = "validate" /\ rows[r] = 0
      BY <2>0, <2>6, ValidateDoes DEF AllSane, Sane
    <3>2. CASE Moves(r, "insert", rows[r])
      BY <3>1, <3>2, <2>3 DEF Moves, Past
    <3>3. CASE Ends(r, rows[r], "unprocessable", NoJob)
      <4>1. jobs' = jobs /\ there' = there
        BY <3>1, <3>3, <2>3 DEF Ends, Past
      <4> QED BY <3>1, <3>3, <4>1, EndsOther
    <3> QED BY <2>0, <2>6, <3>2, <3>3, ValidateDoes
  <2>7. ASSUME NEW r \in Requests, InsertRow(r) \/ CheckQueue(r)
        PROVE  UNCHANGED <<there, jobs, answer>>
    <3>1. Frame(r) /\ pc[r] \in {"insert", "check"} /\ pc'[r] \in Open /\ answer' = answer
      BY <2>0, <2>7, InsertRowDoes, CheckQueueDoes DEF Moves, Open
    <3> QED BY <3>1, <2>3 DEF Past, Open
  <2>8. ASSUME NEW r \in Requests, Commit(r)
        PROVE  Directory!Create(r)
    BY <2>8, CommitCreates
  <2>9. ASSUME NEW r \in Requests, Frame(r), pc[r] = "committed", pc'[r] = "done", rows'[r] = rows[r]
        PROVE  jobs' = jobs /\ there' = there
    <3>1. Committed(r)' <=> Committed(r)
      BY <2>9 DEF Committed, Frame
    <3> QED BY <3>1, <2>9, SameJobs DEF Frame
  <2>10. ASSUME NEW r \in Requests, Reply(r)
         PROVE  Directory!Created(r) \/ Directory!Other(r)
    <3>1. /\ Frame(r) /\ pc[r] = "committed" /\ pc'[r] = "done" /\ rows'[r] = rows[r]
          /\ rows[r] = Len(Wants[r]) /\ r \in coming
      BY <2>0, <2>10, ReplyDoes DEF AllSane, Sane, Ends
    <3>2. jobs' = jobs /\ there' = there
      BY <3>1, <2>9
    <3>3. CASE there
      <4>1. Committed(r)
        BY <3>1, <3>3, WantsAre DEF Committed
      <4>2. Directory!RowsOf(r) \subseteq jobs
        BY <3>1, <4>1, JobsAre DEF Directory!RowsOf
      <4>3. answer' = [answer EXCEPT ![r] = [code |-> "created", job |-> <<r, 1>>]]
        BY <2>0, <2>10, <3>3, ReplyDoes DEF Ends
      <4> QED BY <3>1, <3>2, <4>2, <4>3, Unanswered DEF Directory!Created, Directory!Answer
    <3>4. CASE ~there
      BY <2>0, <2>10, <3>1, <3>2, <3>4, ReplyDoes, EndsOther
    <3> QED BY <3>3, <3>4
  <2>11. ASSUME NEW r \in Requests, Rollback(r)
         PROVE  Directory!Conflict(r) \/ UNCHANGED <<there, jobs, answer>>
    <3>1. Frame(r) /\ pc[r] = "failed" /\ rows'[r] = 0 /\ RefusedFor(r)
      BY <2>0, <2>11, RollbackDoes DEF Moves, Ends, Refused
    <3>2. jobs' = jobs /\ there' = there
      BY <3>1, <2>3 DEF Past
    <3>3. CASE Single(r)
      BY <2>0, <2>11, <3>2, <3>3, RollbackDoes DEF Moves
    <3>4. CASE ~Single(r)
      <4>1. Ends(r, 0, "conflict", NoJob)
        BY <2>0, <2>11, <3>4, RollbackDoes
      <4> QED BY <3>1, <3>2, <3>4, <4>1, EndsConflict DEF Past, Single
    <3> QED BY <3>3, <3>4
  <2>12. ASSUME NEW r \in Requests, Reread(r)
         PROVE  Directory!Existing(r) \/ Directory!Conflict(r)
    <3>1. Frame(r) /\ pc[r] = "reread" /\ rows[r] = 0 /\ Single(r) /\ RefusedFor(r)
      BY <2>0, <2>12, RereadDoes DEF AllSane, Sane, Refused
    <3>2. ASSUME NEW c, NEW j, Ends(r, rows[r], c, j)
          PROVE  jobs' = jobs /\ there' = there
      BY <3>1, <3>2, <2>3 DEF Ends, Past
    <3>3. there => Wants[r][1] # NoKey /\ Holds(Wants[r][1])
      BY <3>1, WantsAre DEF RefusedFor, Single
    <3>4. CASE \E j \in JobsWith(Wants[r][1]) : Ends(r, rows[r], "existing", j)
      <4>1. PICK j \in JobsWith(Wants[r][1]) : Ends(r, rows[r], "existing", j)
        BY <3>4
      <4>2. there
        BY JobsAre DEF JobsWith, Committed
      <4> QED BY <3>1, <3>2, <3>3, <4>1, <4>2, EndsExisting DEF Past
    <3>5. CASE JobsWith(Wants[r][1]) = {} /\ Ends(r, rows[r], "conflict", NoJob)
      <4>1. ~there
        <5>1. CASE there
          <6>1. PICK s \in coming : Committed(s) /\ \E i \in 1 .. rows[s] : Wants[s][i] = Wants[r][1]
            BY <5>1, <3>3 DEF Holds
          <6>2. PICK i \in 1 .. rows[s] : Wants[s][i] = Wants[r][1]
            BY <6>1
          <6>3. <<s, i>> \in JobsWith(Wants[r][1])
            BY <6>1, <6>2, JobsAre DEF JobsWith, KeyOf
          <6> QED BY <6>3, <3>5
        <5> QED BY <5>1
      <4> QED BY <3>1, <3>2, <3>5, <4>1, EndsConflict DEF Past
    <3> QED BY <2>0, <2>12, <3>4, <3>5, RereadDoes
  <2>13. ASSUME NEW r \in Requests, DeadlockDetected(r)
         PROVE  Directory!Other(r)
    <3>1. Frame(r) /\ pc[r] = "insert" /\ Ends(r, 0, "error", NoJob)
      BY <2>0, <2>13, DeadlockDoes
    <3>2. jobs' = jobs /\ there' = there
      BY <3>1, <2>3 DEF Past, Ends
    <3> QED BY <3>1, <3>2, EndsOther
  <2>14. ASSUME NEW r \in Requests, Lose(r)
         PROVE  Directory!Other(r)
    <3>1. PICK n : /\ Frame(r) /\ pc[r] \notin {"new", "done"} /\ Ends(r, n, "lost", NoJob)
                   /\ n = IF pc[r] = "committed" THEN rows[r] ELSE 0
      BY <2>0, <2>14, LoseDoes
    <3>2. jobs' = jobs /\ there' = there
      BY <3>1, <2>3, <2>9 DEF Past, Ends
    <3> QED BY <3>1, <3>2, EndsOther
  <2> QED BY <2>1, <2>2, <2>4, <2>5, <2>6, <2>7, <2>8, <2>10, <2>11, <2>12, <2>13, <2>14, OneRequest DEF Directory!Next
<1> QED BY <1>1, <1>2, AlwaysSane, QueueIsHeld, CreationCorrect, RefusedCorrect, PTL
       DEF CreationSpec, CreationInv, ImplementsDirectory, Directory!Spec

-----------------------------------------------------------------------------
(***************************************************************************)
(*                                EventFeed                                *)
(***************************************************************************)
(* A bounded set of times has a latest one.                                *)
LEMMA LatestExists ==
  ASSUME NEW T, NEW b \in Nat, T \subseteq 0..b, T # {}
  PROVE  \E t \in T : \A u \in T : u <= t
<1> DEFINE D == {b - t : t \in T}
<1>1. D \subseteq Nat /\ D # {}
  <2>1. \A t \in T : b - t \in Nat
    OBVIOUS
  <2>2. PICK t \in T : TRUE
    OBVIOUS
  <2> QED BY <2>1, <2>2
<1>2. PICK d \in D : \A e \in D : ~ (<<e, d>> \in OpToRel(<, Nat))
  BY <1>1, WFMin, NatLessThanWellFounded
<1>3. \A e \in D : d <= e
  <2>1. \A e \in D : ~ (e < d)
    BY <1>1, <1>2, Zenon DEF OpToRel
  <2> HIDE DEF D
  <2> QED BY <1>1, <2>1
<1>4. PICK t \in T : d = b - t
  OBVIOUS
<1>5. \A u \in T : u <= t
  <2> TAKE u \in T
  <2>1. b - u \in D
    OBVIOUS
  <2> HIDE DEF D
  <2> QED BY <2>1, <1>3, <1>4
<1> QED BY <1>5

(* What a full page resumes from is the latest of its updates; a page is   *)
(* full only if it has an update.                                          *)
LEMMA ResumeIsLatest ==
  ASSUME FeedAssumption, FeedTypeOK, NEW page \in SUBSET Jobs
  PROVE  IF Cardinality(page) = Cap
         THEN \E k \in page : Resume(page) = stamp[k] /\ \A j \in page : stamp[j] <= stamp[k]
         ELSE Resume(page) = now
<1>1. CASE Cardinality(page) = Cap
  <2>1. page # {}
    BY <1>1, FS_EmptySet DEF FeedAssumption
  <2> DEFINE T == {stamp[j] : j \in page}
  <2>2. T \subseteq 0..clock /\ T # {}
    BY <2>1 DEF FeedTypeOK
  <2>3. \E t \in T : \A u \in T : u <= t
    <3>1. clock \in Nat
      BY DEF FeedTypeOK, FeedAssumption
    <3> HIDE DEF T
    <3> QED BY <2>2, <3>1, LatestExists
  <2>4. \E t \in T : \A j \in page : stamp[j] <= t
    BY <2>3
  <2>5. Resume(page) \in T /\ \A j \in page : stamp[j] <= Resume(page)
    BY <2>4, <1>1 DEF Resume
  <2> QED BY <2>5, <1>1
<1>2. CASE Cardinality(page) # Cap
  BY <1>2 DEF Resume
<1> QED BY <1>1, <1>2

(* The clock, the watermarks and the times of changes are in order, and    *)
(* only open pages are owed anything, whatever sockets come and go and     *)
(* whatever ticks fail (publisher.py:40-102).                              *)
THEOREM FeedTypeCorrect == FeedSpec => []FeedTypeOK
<1>1. FeedInit => FeedTypeOK
  BY FeedAssumption DEF FeedInit, FeedTypeOK, FeedAssumption
<1>2. FeedTypeOK /\ [FeedNext]_feedVars => FeedTypeOK'
  <2> SUFFICES ASSUME FeedTypeOK, [FeedNext]_feedVars
               PROVE  FeedTypeOK'
    OBVIOUS
  <2> USE FeedAssumption DEF FeedAssumption, FeedTypeOK
  <2>1. CASE Update
    <3>1. PICK J \in Writable, t \in Times :
            /\ stamp' = [j \in Jobs |-> IF j \in J THEN t ELSE stamp[j]]
            /\ owed' = owed \cup {j \in J : ProjectOf[j] \in watched}
            /\ missed' = (missed \ J) \cup Late(J, t)
      BY <2>1 DEF Update
    <3>2. clock < MaxTime /\ clock' = clock + 1
      BY <2>1 DEF Update
    <3>3. t \in 1..clock'
      BY <3>2 DEF Times
    <3>4. stamp' \in [Jobs -> 1..clock']
      BY <3>1, <3>2, <3>3
    <3>5. last \in [Projects -> 0..clock' \cup {None}]
      BY <3>2
    <3>6. J \subseteq Jobs /\ Late(J, t) \subseteq J
      BY DEF Writable, Late
    <3>7. owed' \subseteq {j \in Jobs : ProjectOf[j] \in watched} /\ missed' \subseteq Jobs
      BY <3>1, <3>6
    <3> QED BY <2>1, <3>2, <3>4, <3>5, <3>7 DEF Update
  <2>2. CASE TickStart
    <3>1. clock' \in clock..MaxTime /\ now' = clock' /\ todo' = watched
      BY <2>2 DEF TickStart
    <3>2. stamp \in [Jobs -> 1..clock']
      BY <3>1
    <3>3. \A p \in Projects : last[p] \in 0..clock' \cup {None}
      BY <3>1
    <3>4. last' \in [Projects -> 0..clock' \cup {None}]
      BY <3>3, <2>2 DEF TickStart
    <3> QED BY <2>2, <3>1, <3>2, <3>4 DEF TickStart
  <2>3. ASSUME NEW p \in Projects, Connect(p)
        PROVE  FeedTypeOK'
    BY <2>3 DEF Connect
  <2>4. ASSUME NEW p \in Projects, Disconnect(p)
        PROVE  FeedTypeOK'
    BY <2>4 DEF Disconnect, JobsOf
  <2>5. ASSUME NEW p \in Projects, Poll(p)
        PROVE  FeedTypeOK'
    <3>1. PICK page \in SUBSET JobsOf(p) :
            /\ Broadcast(p, page) /\ last' = [last EXCEPT ![p] = Resume(page)]
            /\ missed' = missed \cup ((Torn(p, page) \cup TooOld(p)) \cap owed)
      BY <2>5 DEF Poll
    <3>2. page \in SUBSET Jobs
      BY DEF JobsOf
    <3>3. Resume(page) \in 0..clock
      BY <3>2, ResumeIsLatest
    <3>4. owed' \subseteq owed /\ missed' \subseteq Jobs
      BY <3>1 DEF Broadcast
    <3>5. last' \in [Projects -> 0..clock \cup {None}]
      BY <3>1, <3>3
    <3> QED BY <2>5, <3>4, <3>5 DEF Poll
  <2>6. ASSUME NEW p \in Projects, PollFails(p)
        PROVE  FeedTypeOK'
    <3>1. owed' \subseteq owed
      BY <2>6 DEF PollFails, Broadcast
    <3> QED BY <2>6, <3>1 DEF PollFails
  <2>7. CASE UNCHANGED feedVars
    BY <2>7 DEF feedVars
  <2> QED BY <2>1, <2>2, <2>3, <2>4, <2>5, <2>6, <2>7 DEF FeedNext
<1> QED BY <1>1, <1>2, PTL DEF FeedSpec

(* A poll sends what lies between the old watermark and the new one, but   *)
(* for what is torn.                                                       *)
LEMMA PageIsPrefix ==
  ASSUME FeedTypeOK, NEW p \in Projects, NEW page \in SUBSET JobsOf(p), Page(p, page),
         NEW j \in Above(p), stamp[j] <= Resume(page)
  PROVE  j \in page \cup Torn(p, page)
<1>0. page \in SUBSET Jobs /\ j \in Jobs
  BY DEF JobsOf, Above
<1>1. CASE Cardinality(Above(p)) <= Cap
  BY <1>1 DEF Page
<1>2. CASE ~ (Cardinality(Above(p)) <= Cap)
  <2>1. Cardinality(page) = Cap /\ \A i \in page, k \in Above(p) \ page : stamp[i] <= stamp[k]
    BY <1>2 DEF Page
  <2>2. PICK k \in page : Resume(page) = stamp[k]
    BY <2>1, <1>0, ResumeIsLatest, FeedAssumption
  <2>3. CASE j \notin page
    <3>1. stamp[k] = stamp[j]
      BY <2>1, <2>2, <2>3, <1>0 DEF FeedTypeOK
    <3> QED BY <3>1, <2>1, <2>3 DEF Torn
  <2> QED BY <2>3
<1> QED BY <1>1, <1>2

(* Nothing else is skipped: however many jobs a transaction writes, however*)
(* long it takes, however many rows go into a page, however late ticks are *)
(* and however many of them fail (publisher.py:49-102).                    *)
THEOREM NothingIsSkipped == FeedSpec => []NothingSkipped
<1>1. FeedInit => NothingSkipped
  BY DEF FeedInit, NothingSkipped
<1>2. FeedTypeOK /\ FeedTypeOK' /\ NothingSkipped /\ [FeedNext]_feedVars => NothingSkipped'
  <2> SUFFICES ASSUME FeedTypeOK, FeedTypeOK', NothingSkipped, [FeedNext]_feedVars,
                      NEW j \in owed', last'[ProjectOf[j]] # None, stamp'[j] <= last'[ProjectOf[j]]
               PROVE  j \in missed'
    BY DEF NothingSkipped
  <2> DEFINE q == ProjectOf[j]
  <2>0. /\ j \in Jobs /\ q \in Projects /\ clock \in Nat /\ now \in Nat /\ stamp[j] \in 1..clock
        /\ last[q] \in 0..clock \cup {None} /\ None \notin Nat /\ j \in JobsOf(q)
        /\ j \in owed /\ last[q] # None /\ stamp[j] <= last[q] => j \in missed
    BY FeedAssumption DEF FeedAssumption, FeedTypeOK, JobsOf, NothingSkipped
  <2>1. CASE Update
    <3>1. PICK J \in Writable, t \in Times :
            /\ stamp' = [i \in Jobs |-> IF i \in J THEN t ELSE stamp[i]]
            /\ owed' = owed \cup {i \in J : ProjectOf[i] \in watched}
            /\ missed' = (missed \ J) \cup Late(J, t)
      BY <2>1 DEF Update
    <3>2. last' = last
      BY <2>1 DEF Update
    <3>3. CASE j \in J
      BY <3>1, <3>2, <3>3, <2>0 DEF Late
    <3>4. CASE j \notin J
      BY <3>1, <3>2, <3>4, <2>0
    <3> QED BY <3>3, <3>4
  <2>2. CASE TickStart
    BY <2>0, <2>2 DEF TickStart
  <2>3. ASSUME NEW p \in Projects, Connect(p) \/ Disconnect(p)
        PROVE  j \in missed'
    BY <2>0, <2>3 DEF Connect, Disconnect
  <2>4. ASSUME NEW p \in Projects, Poll(p)
        PROVE  j \in missed'
    <3>1. PICK page \in SUBSET JobsOf(p) :
            /\ Page(p, page) /\ Broadcast(p, page) /\ last' = [last EXCEPT ![p] = Resume(page)]
            /\ missed' = missed \cup ((Torn(p, page) \cup TooOld(p)) \cap owed)
      BY <2>4 DEF Poll
    <3>2. stamp' = stamp /\ j \in owed
      BY <2>4, <3>1 DEF Poll, Broadcast
    <3>3. CASE q # p
      BY <3>1, <3>2, <3>3, <2>0 DEF FeedTypeOK
    <3>4. CASE q = p
      <4>1. q \in watched /\ last'[q] = Resume(page)
        BY <3>1, <3>2, <3>4, <2>0 DEF FeedTypeOK
      <4>2. j \notin page
        BY <4>1, <3>1, <3>4 DEF Broadcast
      <4>3. CASE j \in Above(p)
        BY <4>1, <4>2, <4>3, <3>1, <3>2, <3>4, PageIsPrefix
      <4>4. CASE j \notin Above(p) /\ last[p] # None
        <5>1. stamp[j] <= last[p]
          BY <4>4, <3>4, <2>0 DEF Above, Watermark
        <5> QED BY <5>1, <4>4, <3>1, <3>2, <3>4, <2>0
      <4>5. CASE j \notin Above(p) /\ last[p] = None
        <5>1. ~ (stamp[j] > Ago)
          BY <4>5, <3>4, <2>0 DEF Above, Watermark
        <5>2. now > Window /\ stamp[j] <= now - Window
          BY <5>1, <2>0, FeedAssumption DEF Ago, FromNowOn, FeedAssumption
        <5>3. j \in TooOld(p)
          BY <5>2, <4>5, <3>4, <2>0, FeedAssumption DEF TooOld, FeedAssumption
        <5> QED BY <5>3, <3>1, <3>2
      <4> QED BY <4>3, <4>4, <4>5
    <3> QED BY <3>3, <3>4
  <2>5. ASSUME NEW p \in Projects, PollFails(p)
        PROVE  j \in missed'
    BY <2>0, <2>5 DEF PollFails, Broadcast
  <2>6. CASE UNCHANGED feedVars
    BY <2>0, <2>6 DEF feedVars
  <2> QED BY <2>1, <2>2, <2>3, <2>4, <2>5, <2>6 DEF FeedNext
<1> QED BY <1>1, <1>2, FeedTypeCorrect, PTL DEF FeedSpec
=============================================================================
