-------------------------------- MODULE Team --------------------------------
(***************************************************************************)
(* Who belongs to a workspace, in which role, and who is invited           *)
(* (server/services/member/member.service.ts).  A request reads the        *)
(* caller's membership when its context is built, then the facts its rule  *)
(* asks for, and writes last, by id and with no condition on what it read: *)
(* three statements, between which other requests run.  MANAGER and VIEWER *)
(* are left out: like AGENT they hold no permission over the team.         *)
(***************************************************************************)
EXTENDS Integers, FiniteSets

CONSTANTS
    Users,
    Founder,      \* the user the workspace was created by
    Requests,     \* server requests in flight
    Offered,      \* roles that invitations are made out for
    Seats,        \* the plan's limit of teamMembers
    MaxRequests   \* bound: requests made

Roles == {"OWNER", "ADMIN", "AGENT"}

ASSUME Parameters ==
    /\ Founder \in Users
    /\ IsFiniteSet(Users)
    /\ Offered \subseteq Roles \ {"OWNER"}
    /\ Seats \in Nat \ {0}
    /\ MaxRequests \in Nat

VARIABLES
    role, active, \* columns of each user's membership; role "none": no row
    joined,       \* memberships each user has had: tells their ids apart
    invite,       \* the state of the row for each user's address
    offer,        \* the role in that row
    at,           \* where each request is
    call,         \* its operation, its context and its input
    saw,          \* the facts its rule was given
    crossed,      \* history: a write crossed a transfer of ownership
    unchecked,    \* history: seats taken that no check, or an outdated one, allowed
    made          \* requests made

row == <<role, active, joined>>
invitation == <<invite, offer>>
local == <<at, call, saw>>
vars == <<row, invitation, local, crossed, unchecked, made>>

-----------------------------------------------------------------------------
MemberOps == {"changeRole", "suspend", "reactivate", "remove"}
Ops == MemberOps \cup {"transfer", "leave", "invite", "revoke", "accept"}
Calls == [op : Ops, by : Users, as : Roles \cup {"none"}, id : Nat,
          on : Users, arg : Roles]
Facts == [role : Roles \cup {"none"}, active : BOOLEAN, id : Nat, count : Nat]

NoCall == [op |-> "leave", by |-> Founder, as |-> "none", id |-> 0,
           on |-> Founder, arg |-> "AGENT"]
NoFacts == [role |-> "none", active |-> FALSE, id |-> 0, count |-> 0]

Owners == {u \in Users : role[u] = "OWNER" /\ active[u]}
Pending == {u \in Users : invite[u] = "pending"}
ActiveMembers == {u \in Users : role[u] # "none" /\ active[u]}

Init ==
    /\ role = [u \in Users |-> IF u = Founder THEN "OWNER" ELSE "none"]
    /\ active = [u \in Users |-> u = Founder]
    /\ joined = [u \in Users |-> IF u = Founder THEN 1 ELSE 0]
    /\ invite = [u \in Users |-> "none"]
    /\ offer = [u \in Users |-> "AGENT"]
    /\ at = [c \in Requests |-> "idle"]
    /\ call = [c \in Requests |-> NoCall]
    /\ saw = [c \in Requests |-> NoFacts]
    /\ crossed = FALSE
    /\ unchecked = 0
    /\ made = 0

-----------------------------------------------------------------------------
(* The rules, asked of the facts a request has read.                       *)

Rank == [OWNER |-> 1, ADMIN |-> 2, AGENT |-> 3]
outranks(a, b) == Rank[a] < Rank[b]

ManagesTeam(r) == r \in {"OWNER", "ADMIN"}

\* Memberships are compared, not people.
Self(k, t) == k.by = k.on /\ k.id = t.id

canChangeRole(k, t) ==
    /\ ~Self(k, t)
    /\ k.arg # "OWNER" /\ t.role # "OWNER"
    /\ outranks(k.as, t.role) /\ t.role # k.arg /\ outranks(k.as, k.arg)

canRemove(k, t) == ~Self(k, t) /\ t.role # "OWNER" /\ outranks(k.as, t.role)

canTransferOwnership(k, t) == ~Self(k, t) /\ t.active

canLeave(k, t) == k.as = "OWNER" => t.count > 1

-----------------------------------------------------------------------------
(* A request begins: its context is the caller's membership as it is now.  *)

Permitted(u, o) ==
    CASE o = "transfer" -> role[u] = "OWNER"
      [] o = "leave" -> TRUE
      [] OTHER -> ManagesTeam(role[u])

Begin(c, o, u, v, r) ==
    /\ at[c] = "idle" /\ made < MaxRequests
    /\ o # "accept" /\ u \in ActiveMembers /\ Permitted(u, o)
    /\ o = "leave" => v = u
    /\ IF o = "invite" THEN r \in Offered ELSE o = "changeRole" \/ r = "AGENT"
    /\ at' = [at EXCEPT ![c] = "begun"]
    /\ call' = [call EXCEPT ![c] = [op |-> o, by |-> u, as |-> role[u],
                                    id |-> joined[u], on |-> v, arg |-> r]]
    /\ made' = made + 1
    /\ UNCHANGED <<row, invitation, saw, crossed, unchecked>>

\* findInviteByTokenHash and classifyInvite: only a live invitation goes on.
BeginAccept(c, u) ==
    /\ at[c] = "idle" /\ made < MaxRequests
    /\ invite[u] = "pending"
    /\ at' = [at EXCEPT ![c] = "begun"]
    /\ call' = [call EXCEPT ![c] = [op |-> "accept", by |-> u, as |-> "none",
                                    id |-> 0, on |-> u, arg |-> offer[u]]]
    /\ made' = made + 1
    /\ UNCHANGED <<row, invitation, saw, crossed, unchecked>>

-----------------------------------------------------------------------------
(* The reads a rule is asked about, and what it says.                      *)

Read(c, n) == [role |-> role[call[c].on], active |-> active[call[c].on],
               id |-> joined[call[c].on], count |-> n]

\* The request goes on to its write with the facts it was allowed on.
Allow(c, facts) ==
    /\ at' = [at EXCEPT ![c] = "write"]
    /\ saw' = [saw EXCEPT ![c] = facts]
    /\ UNCHANGED call

\* The answer is sent, whatever it is.
Answer(c) ==
    /\ at' = [at EXCEPT ![c] = "idle"]
    /\ call' = [call EXCEPT ![c] = NoCall]
    /\ saw' = [saw EXCEPT ![c] = NoFacts]

\* findMemberById, then the operation's rule; a suspended member may be suspended.
CheckTarget(c) ==
    LET k == call[c]  t == Read(c, 0) IN
    /\ at[c] = "begun" /\ k.op \in MemberOps \cup {"transfer"}
    /\ IF /\ t.role # "none"
          /\ CASE k.op = "changeRole" -> canChangeRole(k, t)
               [] k.op = "transfer" -> canTransferOwnership(k, t)
               [] OTHER -> canRemove(k, t)
       THEN Allow(c, t)
       ELSE Answer(c)
    /\ UNCHANGED <<row, invitation, crossed, unchecked, made>>

CheckLeave(c) ==
    LET t == Read(c, Cardinality(Owners)) IN
    /\ at[c] = "begun" /\ call[c].op = "leave"
    /\ IF canLeave(call[c], t) THEN Allow(c, t) ELSE Answer(c)
    /\ UNCHANGED <<row, invitation, crossed, unchecked, made>>

\* Mutant: the seats that invitations hold are not counted.
getCurrentLimitUsageMutant == Cardinality(ActiveMembers)

\* Members who are suspended do not count.
getCurrentLimitUsage == Cardinality(ActiveMembers) + Cardinality(Pending)

\* Nobody invites a member; assertWithinPlanLimit asks for one seat more.
CheckInvite(c) ==
    LET t == Read(c, getCurrentLimitUsage) IN
    /\ at[c] = "begun" /\ call[c].op = "invite"
    /\ IF t.role = "none" /\ t.count + 1 <= Seats THEN Allow(c, t) ELSE Answer(c)
    /\ UNCHANGED <<row, invitation, crossed, unchecked, made>>

\* By id, whatever the row says by now; classifyInvite puts revoked first.
markInviteAccepted(u) ==
    invite' = [invite EXCEPT ![u] = IF @ = "revoked" THEN "revoked" ELSE "accepted"]

\* A member who follows the link again only settles the invitation.
CheckAccept(c) ==
    /\ at[c] = "begun" /\ call[c].op = "accept"
    /\ IF role[call[c].on] = "none"
       THEN Allow(c, Read(c, 0)) /\ UNCHANGED invite
       ELSE Answer(c) /\ markInviteAccepted(call[c].on)
    /\ UNCHANGED <<row, offer, crossed, unchecked, made>>

-----------------------------------------------------------------------------
(* The writes.                                                             *)

Is(u, id) == role[u] # "none" /\ joined[u] = id

\* Is this the write of a request that ownership has moved under: a target, or
\* a caller on the way out, that became the owner after its rule was asked, a
\* transfer by one who is the owner no more or to one suspended since, or a
\* second owner gone?
Crosses(c) ==
    LET k == call[c]  t == saw[c] IN
    CASE k.op = "transfer" -> role[k.by] # "OWNER" \/ ~active[k.on]
      [] k.op = "leave" -> \/ k.as # "OWNER" /\ role[k.by] = "OWNER"
                           \/ Cardinality(Owners) < t.count
      [] OTHER -> t.role # "OWNER" /\ role[k.on] = "OWNER"

Finish(c) ==
    /\ Answer(c)
    /\ crossed' = (crossed \/ Crosses(c))
    /\ UNCHANGED <<invitation, made>>

updateMemberRole(c) ==
    LET k == call[c] IN
    /\ at[c] = "write" /\ k.op = "changeRole"
    /\ Is(k.on, saw[c].id)
    /\ role' = [role EXCEPT ![k.on] = k.arg]
    /\ UNCHANGED <<active, joined, unchecked>>
    /\ Finish(c)

updateMemberStatus(c) ==
    LET k == call[c] IN
    /\ at[c] = "write" /\ k.op \in {"suspend", "reactivate"}
    /\ Is(k.on, saw[c].id)
    /\ active' = [active EXCEPT ![k.on] = (k.op = "reactivate")]
    /\ unchecked' = IF k.op = "reactivate" /\ ~active[k.on] THEN unchecked + 1
                                                           ELSE unchecked
    /\ UNCHANGED <<role, joined>>
    /\ Finish(c)

deleteMember(c) ==
    LET k == call[c] IN
    /\ at[c] = "write" /\ k.op \in {"remove", "leave"}
    /\ IF k.op = "leave" THEN Is(k.by, k.id) ELSE Is(k.on, saw[c].id)
    /\ role' = [role EXCEPT ![k.on] = "none"]
    /\ active' = [active EXCEPT ![k.on] = FALSE]
    /\ UNCHANGED <<joined, unchecked>>
    /\ Finish(c)

\* Mutant: the outgoing owner keeps the role.
transferOwnershipMutant(c) ==
    LET k == call[c] IN
    /\ at[c] = "write" /\ k.op = "transfer"
    /\ Is(k.on, saw[c].id) /\ Is(k.by, k.id)
    /\ role' = [role EXCEPT ![k.on] = "OWNER"]
    /\ UNCHANGED <<active, joined, unchecked>>
    /\ Finish(c)

\* One transaction: it rolls back when either row is gone.
transferOwnership(c) ==
    LET k == call[c] IN
    /\ at[c] = "write" /\ k.op = "transfer"
    /\ Is(k.on, saw[c].id) /\ Is(k.by, k.id)
    /\ role' = [role EXCEPT ![k.on] = "OWNER", ![k.by] = "ADMIN"]
    /\ UNCHANGED <<active, joined, unchecked>>
    /\ Finish(c)

\* assertTouched: the row with that id has gone, and the request is refused.
assertTouched(c) ==
    LET k == call[c] IN
    /\ at[c] = "write" /\ k.op \in MemberOps \cup {"transfer", "leave"}
    /\ \/ k.op \in {"transfer", "leave"} /\ ~Is(k.by, k.id)
       \/ k.op # "leave" /\ ~Is(k.on, saw[c].id)
    /\ Answer(c)
    /\ UNCHANGED <<row, invitation, crossed, unchecked, made>>

\* One row per address: inviting again replaces the invitation, settled or not.
upsertInvite(c) ==
    LET k == call[c] IN
    /\ at[c] = "write" /\ k.op = "invite"
    /\ invite' = [invite EXCEPT ![k.on] = "pending"]
    /\ offer' = [offer EXCEPT ![k.on] = k.arg]
    /\ unchecked' = IF getCurrentLimitUsage > saw[c].count THEN unchecked + 1
                                                          ELSE unchecked
    /\ Answer(c)
    /\ UNCHANGED <<row, crossed, made>>

revokeInvite(c) ==
    LET k == call[c] IN
    /\ at[c] = "begun" /\ k.op = "revoke"
    /\ invite' = [invite EXCEPT ![k.on] = IF @ \in {"pending", "expired"} THEN "revoked" ELSE @]
    /\ Answer(c)
    /\ UNCHANGED <<row, offer, crossed, unchecked, made>>

\* One transaction with markInviteAccepted; one membership per user, so a second
\* insert throws.  The invitation may be over by now: nothing looks again.
createMember(c) ==
    LET k == call[c] IN
    /\ at[c] = "write" /\ k.op = "accept"
    /\ role[k.on] = "none"
    /\ role' = [role EXCEPT ![k.on] = k.arg]
    /\ active' = [active EXCEPT ![k.on] = TRUE]
    /\ joined' = [joined EXCEPT ![k.on] = @ + 1]
    /\ markInviteAccepted(k.on)
    /\ unchecked' = IF k.on \in Pending THEN unchecked ELSE unchecked + 1
    /\ Answer(c)
    /\ UNCHANGED <<offer, crossed, made>>

createMemberThrows(c) ==
    /\ at[c] = "write" /\ call[c].op = "accept" /\ role[call[c].on] # "none"
    /\ Answer(c)
    /\ UNCHANGED <<row, invitation, crossed, unchecked, made>>

\* The invitation's last day goes by.
Expire(u) ==
    /\ invite[u] = "pending"
    /\ invite' = [invite EXCEPT ![u] = "expired"]
    /\ UNCHANGED <<row, offer, local, crossed, unchecked, made>>

-----------------------------------------------------------------------------
Write(c) ==
    \/ updateMemberRole(c) \/ updateMemberStatus(c) \/ deleteMember(c)
    \/ transferOwnership(c) \/ assertTouched(c)
    \/ upsertInvite(c) \/ revokeInvite(c) \/ createMember(c) \/ createMemberThrows(c)

Next ==
    \/ \E c \in Requests, o \in Ops, u, v \in Users, r \in Roles : Begin(c, o, u, v, r)
    \/ \E c \in Requests, u \in Users : BeginAccept(c, u)
    \/ \E c \in Requests :
          CheckTarget(c) \/ CheckLeave(c) \/ CheckInvite(c) \/ CheckAccept(c) \/ Write(c)
    \/ \E u \in Users : Expire(u)

Spec == Init /\ [][Next]_vars

-----------------------------------------------------------------------------
(* Every variable holds what its column, statement or history can hold.    *)
TypeOK ==
    /\ role \in [Users -> Roles \cup {"none"}]
    /\ active \in [Users -> BOOLEAN]
    /\ joined \in [Users -> Nat]
    /\ invite \in [Users -> {"none", "pending", "accepted", "revoked", "expired"}]
    /\ offer \in [Users -> Roles \ {"OWNER"}]
    /\ at \in [Requests -> {"idle", "begun", "write"}]
    /\ call \in [Requests -> Calls]
    /\ saw \in [Requests -> Facts]
    /\ crossed \in BOOLEAN /\ unchecked \in Nat /\ made \in 0..MaxRequests

(* Exactly one member is the owner, and is active, whatever edits,         *)
(* suspensions, removals, transfers and departures went before and however *)
(* they overtook each other, unless one of them crossed a transfer: only a *)
(* transfer between the rule and the write of another request, or another  *)
(* write between those of a transfer, leaves the workspace without one.    *)
OneOwner ==
    ~crossed => \E o \in Owners : \A u \in Users : role[u] = "OWNER" => u = o

(* The seats in use, pending invitations included, exceed the plan's by no *)
(* more than the reactivations, the acceptances of invitations that were   *)
(* over, and the invitations that took a seat after their count had grown. *)
SeatsAreKept == Cardinality(ActiveMembers) + Cardinality(Pending) <= Seats + unchecked
=============================================================================
