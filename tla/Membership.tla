----------------------------- MODULE Membership ------------------------------
(***************************************************************************)
(* The members of one organization (api/orgs.py, core/rbac.py).  A request *)
(* reads the membership of its actor, then its target, then possibly the   *)
(* number of owners, and writes at the end: each is a statement of one     *)
(* READ COMMITTED transaction that locks nothing before it writes, so each *)
(* is a step, and requests interleave between them.                        *)
(*                                                                         *)
(* A user who is removed and invited again gets a new row, so rows, not    *)
(* users, have roles.                                                      *)
(***************************************************************************)
EXTENDS Naturals, FiniteSets

CONSTANTS
    Rows,         \* the ids of rows of organization_members, each used once
    Users,
    UserOf,       \* UserOf[m]: the user_id of row m
    Calls         \* the requests that may be in flight at a time

ASSUME MembershipAssumption == IsFiniteSet(Rows) /\ UserOf \in [Rows -> Users]

Roles == {"viewer", "member", "admin", "owner"}
ROLE_ORDER == [viewer |-> 0, member |-> 1, admin |-> 2, owner |-> 3]
role_at_least(role, minimum) == ROLE_ORDER[role] >= ROLE_ORDER[minimum]

VARIABLES
    role,     \* role[m]: the role in row m; "unused" before it was inserted, "gone" after it was deleted
    req,      \* req[r]: what request r has read and where it is; "at" is "idle" if there is no such request
    overtaken,  \* history: the open updates and removals during which another request took an owner away
    raced       \* history: one of these took an owner away, too

membersVars == <<role, req, overtaken, raced>>

Idle == [at |-> "idle"]
Present == {m \in Rows : role[m] \in Roles}
MembershipsOf(u) == {m \in Present : UserOf[m] = u}
Owners == {m \in Present : role[m] = "owner"}

(* create_org commits the organization with the membership of its owner.   *)
MembersInit == /\ \E m \in Rows : role = [x \in Rows |-> IF x = m THEN "owner" ELSE "unused"]
               /\ req = [r \in Calls |-> Idle]
               /\ overtaken = {} /\ raced = FALSE

Step(r, q) == req' = [req EXCEPT ![r] = q]
GoOn(r, q) == Step(r, q) /\ UNCHANGED <<role, overtaken, raced>>
Respond(r) == Step(r, Idle) /\ overtaken' = overtaken \ {r} /\ UNCHANGED <<role, raced>>  \* an error response
-----------------------------------------------------------------------------
(* A request that may change a membership there is.                        *)
Edits(r) == req[r].at # "idle" /\ req[r].op # "invite"

(* require_role(admin).  want is the role in the body.                     *)
Authorize(r) ==
    /\ req[r] = Idle
    /\ \E a \in Present, op \in {"invite", "update", "remove"}, want \in Roles :
         /\ role_at_least(role[a], "admin")
         /\ op = "remove" => want = "viewer"  \* no body
         /\ GoOn(r, [at |-> "authorized", op |-> op, actor |-> a, as |-> role[a], want |-> want])

(* _ensure_can_manage_owner_role, by the role the actor had then.          *)
CanManageOwners(r) == req[r].as = "owner"

(* The request has read its target and may have to count the owners.       *)
Loaded(r, place, m, seen) ==
    GoOn(r, [at |-> place, op |-> req[r].op, target |-> m, seen |-> seen, want |-> req[r].want])

NeverLast(op, seen, want) == op = "update" /\ seen = "owner" /\ want # "owner"  \* mutant
OwnerLeaves(op, seen, want) == seen = "owner" /\ (op = "remove" \/ want # "owner")

(* The target of an update or a removal.  The ORM hands out one object per *)
(* row: an actor's own row shows the role it was authorized with.          *)
LoadTarget(r) ==
    /\ req[r].at = "authorized" /\ req[r].op \in {"update", "remove"}
    /\ \E m \in Present :
         LET q    == req[r]
             seen == IF m = q.actor THEN q.as ELSE role[m]
             touchesOwner == seen = "owner" \/ (q.op = "update" /\ q.want = "owner")
         IN IF touchesOwner /\ ~CanManageOwners(r) THEN Respond(r)
            ELSE Loaded(r, IF OwnerLeaves(q.op, seen, q.want) THEN "loaded" ELSE "checked", m, seen)

LastOwner == Cardinality(Owners) <= 1

CountOwners(r) ==
    /\ req[r].at = "loaded"
    /\ IF LastOwner THEN Respond(r)
       ELSE GoOn(r, [req[r] EXCEPT !.at = "checked"])

(* The invited user must not be a member yet.                              *)
LoadInvited(r) ==
    /\ req[r].at = "authorized" /\ req[r].op = "invite"
    /\ \E u \in Users :
         IF MembershipsOf(u) # {} \/ (req[r].want = "owner" /\ ~CanManageOwners(r)) THEN Respond(r)
         ELSE \E m \in Rows : UserOf[m] = u /\ Loaded(r, "checked", m, "unused")

(* The writes, by primary key.  The ORM writes nothing if the role did not *)
(* change, and fails if an updated row is gone; a deleted row that is gone *)
(* is a warning; an insert is up against the unique (org_id, user_id).     *)
MayInsert(m) == role[m] = "unused" /\ MembershipsOf(UserOf[m]) = {}

Written(q) ==
    CASE q.op = "invite" /\ MayInsert(q.target)                      -> q.want
      [] q.op = "update" /\ q.target \in Present /\ q.seen # q.want  -> q.want
      [] q.op = "remove" /\ q.target \in Present                     -> "gone"
      [] OTHER                                                       -> role[q.target]

TakesOwner(q) == role[q.target] = "owner" /\ Written(q) # "owner"

Write(r) ==
    /\ req[r].at = "checked"
    /\ role' = [role EXCEPT ![req[r].target] = Written(req[r])]
    /\ overtaken' = (IF TakesOwner(req[r]) THEN {s \in Calls : Edits(s)} ELSE overtaken) \ {r}
    /\ raced' = (raced \/ (r \in overtaken /\ TakesOwner(req[r])))
    /\ Step(r, Idle)

MembersNext == \E r \in Calls :
    Authorize(r) \/ LoadTarget(r) \/ CountOwners(r) \/ LoadInvited(r) \/ Write(r)

MembersSpec == MembersInit /\ [][MembersNext]_membersVars
-----------------------------------------------------------------------------
(* A request that has read its actor, and one that has read its target.    *)
Authorized == [at : {"authorized"}, op : {"invite", "update", "remove"}, actor : Rows,
               as : Roles, want : Roles]
Decided == [at : {"loaded", "checked"}, op : {"invite", "update", "remove"}, target : Rows,
            seen : Roles \cup {"unused"}, want : Roles]

MembersTypeOK == /\ role \in [Rows -> Roles \cup {"unused", "gone"}]
                 /\ req \in [Calls -> {Idle} \cup Authorized \cup Decided]
                 /\ overtaken \subseteq Calls /\ raced \in BOOLEAN

(* Whatever its owners and admins do to each other and to themselves, and  *)
(* however their requests interleave, an organization loses its last owner *)
(* only if two requests that each take an owner away overlap: one of them  *)
(* writes after the other one was authorized and before that one writes.   *)
(* Then it does (docs/design-decisions.md has no such exception): nothing  *)
(* is locked between the count and the write.                              *)
HasOwner == raced \/ Owners # {}

(* Why: as long as no owner is taken away, what a request has read of the  *)
(* other owners stays good enough, though its target may have been changed *)
(* or promoted since.                                                      *)
Backed(q) ==
    /\ q.at = "authorized" /\ q.as # "owner" => Owners \ {q.actor} # {}
    /\ q.at = "checked" /\ (q.op = "remove" \/ q.want # "owner") => Owners \ {q.target} # {}

OwnersInv ==
    /\ MembersTypeOK /\ HasOwner
    /\ ~raced => \A r \in Calls \ overtaken : Edits(r) => Backed(req[r])
=============================================================================
