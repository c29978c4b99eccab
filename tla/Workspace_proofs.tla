--------------------------- MODULE Workspace_proofs ---------------------------
(***************************************************************************)
(* Theorems about the administration of a workspace.  About Team: for      *)
(* every finite set of users, every number of requests in flight, every    *)
(* plan and every length of the history.  About Billing: for any plans,    *)
(* subscriptions and number of deliveries in flight, and every length of   *)
(* the provider's history.  About Automation: for lists of actions of any  *)
(* length, any number of workers, edits and deaths.                        *)
(***************************************************************************)
EXTENDS Team, Billing, Automation, FiniteSetTheorems, TLAPS

USE DEF row, invitation, local

(***************************************************************************)
(* What a request carries from its context and its rule to its write.      *)
(***************************************************************************)
Begun(k) ==
    /\ k.op \in {"invite", "accept"} => k.arg # "OWNER"
    /\ k.op = "transfer" => k.as = "OWNER"
    /\ k.op = "leave" => k.on = k.by

Granted(k, t) ==
    /\ k.op \in MemberOps \cup {"transfer"} => t.role # "none"
    /\ k.op = "changeRole" => canChangeRole(k, t)
    /\ k.op \in {"suspend", "reactivate", "remove"} => canRemove(k, t)
    /\ k.op = "transfer" => canTransferOwnership(k, t)
    /\ k.op = "leave" => canLeave(k, t)
    /\ k.op = "invite" => t.count + 1 <= Seats

Vetted ==
    \A c \in Requests : /\ at[c] # "idle" => Begun(call[c])
                        /\ at[c] = "write" => Granted(call[c], saw[c])

Inv == TypeOK /\ Vetted

-----------------------------------------------------------------------------
LEMMA UsersCounted ==
  ASSUME NEW S \in SUBSET Users
  PROVE  IsFiniteSet(S) /\ Cardinality(S) \in Nat
BY Parameters, FS_Subset, FS_CardinalityType

LEMMA UsageIsNat == getCurrentLimitUsage \in Nat /\ Cardinality(Owners) \in Nat
<1>1. ActiveMembers \in SUBSET Users /\ Pending \in SUBSET Users /\ Owners \in SUBSET Users
  BY DEF ActiveMembers, Pending, Owners
<1> QED
  BY <1>1, UsersCounted DEF getCurrentLimitUsage

LEMMA ReadIsFacts ==
  ASSUME TypeOK, NEW c \in Requests, NEW n \in Nat
  PROVE  Read(c, n) \in Facts
BY DEF TypeOK, Read, Facts, Calls

LEMMA NoneTyped == NoCall \in Calls /\ NoFacts \in Facts
BY Parameters DEF NoCall, NoFacts, Calls, Facts, Ops, Roles

LEMMA AnswerKeeps ==
  ASSUME Inv, NEW c \in Requests, Answer(c)
  PROVE  /\ at' \in [Requests -> {"idle", "begun", "write"}]
         /\ call' \in [Requests -> Calls] /\ saw' \in [Requests -> Facts]
         /\ Vetted'
<1>1. /\ at' = [at EXCEPT ![c] = "idle"]
      /\ \A d \in Requests \ {c} : call'[d] = call[d] /\ saw'[d] = saw[d]
  BY DEF Inv, TypeOK, Answer
<1>2. Vetted'
  BY <1>1 DEF Inv, TypeOK, Vetted
<1> QED
  BY <1>2, NoneTyped DEF Inv, TypeOK, Answer

LEMMA AllowKeeps ==
  ASSUME Inv, NEW c \in Requests, at[c] = "begun", NEW t \in Facts, Allow(c, t),
         Granted(call[c], t)
  PROVE  /\ at' \in [Requests -> {"idle", "begun", "write"}]
         /\ call' \in [Requests -> Calls] /\ saw' \in [Requests -> Facts]
         /\ Vetted'
<1>1. /\ at' = [at EXCEPT ![c] = "write"] /\ saw' = [saw EXCEPT ![c] = t] /\ call' = call
  BY DEF Allow
<1>2. Vetted'
  BY <1>1 DEF Inv, TypeOK, Vetted
<1> QED
  BY <1>1, <1>2 DEF Inv, TypeOK

LEMMA BeginKeeps ==
  ASSUME Inv, NEW c \in Requests, NEW k \in Calls, Begun(k),
         at' = [at EXCEPT ![c] = "begun"], call' = [call EXCEPT ![c] = k], saw' = saw
  PROVE  /\ at' \in [Requests -> {"idle", "begun", "write"}]
         /\ call' \in [Requests -> Calls]
         /\ Vetted'
BY DEF Inv, TypeOK, Vetted

LEMMA InvInit == Init => Inv
<1> SUFFICES ASSUME Init PROVE TypeOK /\ Vetted
  BY DEF Inv
<1>1. /\ role \in [Users -> Roles \cup {"none"}] /\ active \in [Users -> BOOLEAN]
      /\ joined \in [Users -> Nat]
      /\ invite \in [Users -> {"none", "pending", "accepted", "revoked", "expired"}]
      /\ offer \in [Users -> Roles \ {"OWNER"}]
  BY DEF Init, Roles
<1>2. /\ at \in [Requests -> {"idle", "begun", "write"}]
      /\ call \in [Requests -> Calls] /\ saw \in [Requests -> Facts]
      /\ Vetted
  BY NoneTyped DEF Init, Vetted
<1>3. crossed \in BOOLEAN /\ unchecked \in Nat /\ made \in 0..MaxRequests
  <2>1. crossed \in BOOLEAN
    BY DEF Init
  <2>2. unchecked \in Nat /\ made \in 0..MaxRequests
    BY Parameters DEF Init
  <2> QED
    BY <2>1, <2>2
<1> QED
  BY <1>1, <1>2, <1>3 DEF TypeOK

LEMMA InvStep == Inv /\ [Next]_vars => Inv'
<1> SUFFICES ASSUME Inv, [Next]_vars PROVE TypeOK' /\ Vetted'
  BY DEF Inv
<1> USE Parameters
<1>1. ASSUME NEW c \in Requests, NEW o \in Ops, NEW u \in Users, NEW v \in Users,
             NEW r \in Roles, Begin(c, o, u, v, r)
      PROVE TypeOK' /\ Vetted'
  <2> DEFINE k == [op |-> o, by |-> u, as |-> role[u], id |-> joined[u], on |-> v, arg |-> r]
  <2>1. k \in Calls
    BY DEF Inv, TypeOK, Calls
  <2>2. Begun(k)
    BY <1>1 DEF Begin, Begun, Permitted
  <2>3. /\ at' = [at EXCEPT ![c] = "begun"] /\ call' = [call EXCEPT ![c] = k] /\ saw' = saw
        /\ made < MaxRequests /\ made' = made + 1
        /\ UNCHANGED <<row, invitation, saw, crossed, unchecked>>
    BY <1>1 DEF Begin
  <2> HIDE DEF k
  <2>4. made' \in 0..MaxRequests
    BY <2>3 DEF Inv, TypeOK
  <2> QED
    BY <2>1, <2>2, <2>3, <2>4, BeginKeeps DEF Inv, TypeOK
<1>2. ASSUME NEW c \in Requests, NEW u \in Users, BeginAccept(c, u) PROVE TypeOK' /\ Vetted'
  <2> DEFINE k == [op |-> "accept", by |-> u, as |-> "none", id |-> 0, on |-> u, arg |-> offer[u]]
  <2>1. k \in Calls /\ Begun(k)
    BY DEF Inv, TypeOK, Calls, Ops, Begun
  <2>2. /\ at' = [at EXCEPT ![c] = "begun"] /\ call' = [call EXCEPT ![c] = k] /\ saw' = saw
        /\ made < MaxRequests /\ made' = made + 1
        /\ UNCHANGED <<row, invitation, saw, crossed, unchecked>>
    BY <1>2 DEF BeginAccept
  <2> HIDE DEF k
  <2>3. made' \in 0..MaxRequests
    BY <2>2 DEF Inv, TypeOK
  <2> QED
    BY <2>1, <2>2, <2>3, BeginKeeps DEF Inv, TypeOK
<1>3. ASSUME NEW c \in Requests, CheckTarget(c) PROVE TypeOK' /\ Vetted'
  <2>1. Read(c, 0) \in Facts
    BY ReadIsFacts DEF Inv
  <2>2. /\ at[c] = "begun" /\ UNCHANGED <<row, invitation, crossed, unchecked, made>>
        /\ call[c].op \in MemberOps \cup {"transfer"}
    BY <1>3 DEF CheckTarget
  <2>3. CASE Answer(c)
    BY <2>2, <2>3, AnswerKeeps DEF Inv, TypeOK
  <2>4. CASE ~Answer(c)
    <3>1. Allow(c, Read(c, 0)) /\ Granted(call[c], Read(c, 0))
      BY <1>3, <2>4 DEF CheckTarget, Granted, MemberOps
    <3> QED
      BY <2>1, <2>2, <3>1, AllowKeeps DEF Inv, TypeOK
  <2> QED
    BY <2>3, <2>4
<1>4. ASSUME NEW c \in Requests, CheckLeave(c) \/ CheckInvite(c) PROVE TypeOK' /\ Vetted'
  <2>1. Read(c, Cardinality(Owners)) \in Facts /\ Read(c, getCurrentLimitUsage) \in Facts
    BY ReadIsFacts, UsageIsNat DEF Inv
  <2>2. at[c] = "begun" /\ UNCHANGED <<row, invitation, crossed, unchecked, made>>
    BY <1>4 DEF CheckLeave, CheckInvite
  <2>3. CASE Answer(c)
    BY <2>2, <2>3, AnswerKeeps DEF Inv, TypeOK
  <2>4. CASE ~Answer(c)
    <3>1. PICK t \in Facts : Allow(c, t) /\ Granted(call[c], t)
      BY <1>4, <2>1, <2>4 DEF CheckLeave, CheckInvite, Granted, MemberOps
    <3> QED
      BY <2>2, <3>1, AllowKeeps DEF Inv, TypeOK
  <2> QED
    BY <2>3, <2>4
<1>5. ASSUME NEW c \in Requests, CheckAccept(c) PROVE TypeOK' /\ Vetted'
  <2>1. Read(c, 0) \in Facts
    BY ReadIsFacts DEF Inv
  <2>2. /\ at[c] = "begun" /\ call[c].op = "accept"
        /\ UNCHANGED <<row, offer, crossed, unchecked, made>>
    BY <1>5 DEF CheckAccept
  <2>3. CASE Answer(c) /\ markInviteAccepted(call[c].on)
    BY <2>2, <2>3, AnswerKeeps DEF Inv, TypeOK, markInviteAccepted
  <2>4. CASE Allow(c, Read(c, 0)) /\ UNCHANGED invite
    <3>1. Granted(call[c], Read(c, 0))
      BY <2>2 DEF Granted, MemberOps
    <3> QED
      BY <2>1, <2>2, <2>4, <3>1, AllowKeeps DEF Inv, TypeOK
  <2> QED
    BY <1>5, <2>3, <2>4 DEF CheckAccept
<1>6. ASSUME NEW c \in Requests, Write(c) PROVE TypeOK' /\ Vetted'
  <2>0. Answer(c) /\ made' = made /\ call[c] \in Calls /\ at[c] # "idle"
    BY <1>6 DEF Write, updateMemberRole, updateMemberStatus, deleteMember, transferOwnership,
       assertTouched, upsertInvite, revokeInvite, createMember, createMemberThrows, Finish,
       Inv, TypeOK
  <2>1. /\ role' \in [Users -> Roles \cup {"none"}] /\ active' \in [Users -> BOOLEAN]
        /\ joined' \in [Users -> Nat] /\ unchecked' \in Nat
    <3> USE <2>0 DEF Inv, TypeOK, Calls
    <3>0. CASE updateMemberRole(c)
      BY <3>0 DEF updateMemberRole
    <3>1. CASE updateMemberStatus(c)
      <4>1. PICK b \in BOOLEAN : b = (call[c].op = "reactivate")
        OBVIOUS
      <4>2. active' = [active EXCEPT ![call[c].on] = b]
        BY <3>1, <4>1 DEF updateMemberStatus
      <4>3. active' \in [Users -> BOOLEAN]
        BY <4>2
      <4> QED
        BY <3>1, <4>3 DEF updateMemberStatus
    <3>2. CASE deleteMember(c)
      <4>1. /\ role' = [role EXCEPT ![call[c].on] = "none"]
            /\ active' = [active EXCEPT ![call[c].on] = FALSE]
            /\ joined' = joined /\ unchecked' = unchecked
        BY <3>2 DEF deleteMember, Finish
      <4> QED
        BY <4>1
    <3>6. CASE transferOwnership(c)
      <4>1. /\ role' = [role EXCEPT ![call[c].on] = "OWNER", ![call[c].by] = "ADMIN"]
            /\ active' = active /\ joined' = joined /\ unchecked' = unchecked
        BY <3>6 DEF transferOwnership, Finish
      <4> QED
        BY <4>1 DEF Roles
    <3>3. CASE assertTouched(c) \/ revokeInvite(c) \/ createMemberThrows(c)
      BY <3>3 DEF assertTouched, revokeInvite, createMemberThrows
    <3>4. CASE upsertInvite(c)
      BY <3>4 DEF upsertInvite
    <3>5. CASE createMember(c)
      BY <3>5 DEF createMember
    <3> QED
      BY <1>6, <3>0, <3>1, <3>2, <3>3, <3>4, <3>5, <3>6 DEF Write
  <2>2. /\ invite' \in [Users -> {"none", "pending", "accepted", "revoked", "expired"}]
        /\ offer' \in [Users -> Roles \ {"OWNER"}]
    <3>1. call[c].op = "invite" => call[c].arg \in Roles \ {"OWNER"}
      BY <2>0 DEF Inv, Vetted, Begun, Calls
    <3> QED
      BY <1>6, <3>1 DEF Write, updateMemberRole, updateMemberStatus, deleteMember,
         transferOwnership, assertTouched, upsertInvite, revokeInvite, createMember,
         createMemberThrows, markInviteAccepted, Finish, Inv, TypeOK
  <2>3. crossed' \in BOOLEAN
    <3>1. crossed' = crossed \/ crossed' = (crossed \/ Crosses(c))
      BY <1>6 DEF Write, updateMemberRole, updateMemberStatus, deleteMember, transferOwnership,
         assertTouched, upsertInvite, revokeInvite, createMember, createMemberThrows, Finish
    <3> QED
      BY <3>1, Zenon DEF Inv, TypeOK
  <2> QED
    BY <2>0, <2>1, <2>2, <2>3, AnswerKeeps DEF Inv, TypeOK
<1>7. ASSUME NEW u \in Users, Expire(u) PROVE TypeOK' /\ Vetted'
  BY <1>7 DEF Expire, Inv, TypeOK, Vetted
<1>8. CASE UNCHANGED vars
  BY <1>8 DEF vars, Inv, TypeOK, Vetted
<1> QED
  BY <1>1, <1>2, <1>3, <1>4, <1>5, <1>6, <1>7, <1>8 DEF Next

(* TypeOK: in particular no invitation and no acceptance ever carries the  *)
(* OWNER role, whichever requests interleave.                              *)
THEOREM TypeCorrect == Spec => []TypeOK
<1>1. Inv => TypeOK
  BY DEF Inv
<1> QED
  BY InvInit, InvStep, <1>1, PTL DEF Spec

-----------------------------------------------------------------------------
(* One owner.                                                              *)

IsOwner(o) ==
    /\ o \in Users /\ role[o] = "OWNER" /\ active[o]
    /\ \A u \in Users : role[u] = "OWNER" => u = o

LEMMA OneOwnerIs == TypeOK => (OneOwner <=> (~crossed => \E o \in Users : IsOwner(o)))
BY DEF OneOwner, IsOwner, Owners, TypeOK

LEMMA OwnerCannotLeave ==
  ASSUME NEW o \in Users, IsOwner(o)
  PROVE  Cardinality(Owners) = 1
<1>1. Owners = {o}
  BY DEF Owners, IsOwner
<1> QED
  BY <1>1, FS_Singleton

\* A write that touches no owner and makes none.
LEMMA OwnerUntouched ==
  ASSUME TypeOK, NEW o \in Users, IsOwner(o), NEW u \in Users, role[u] # "OWNER",
         role'[u] # "OWNER",
         \A v \in Users \ {u} : role'[v] = role[v] /\ active'[v] = active[v]
  PROVE  IsOwner(o)'
BY DEF IsOwner, TypeOK

LEMMA WriteKeepsOwner ==
  ASSUME Inv, NEW c \in Requests, Write(c), NEW o \in Users, IsOwner(o), ~crossed'
  PROVE  \E p \in Users : IsOwner(p)'
<1> DEFINE k == call[c]  t == saw[c]
<1>0. /\ at[c] # "idle" => Begun(k) /\ k \in Calls
      /\ at[c] = "write" => Granted(k, t)
  BY DEF Inv, Vetted, TypeOK
<1>a. Finish(c) => ~Crosses(c)
  BY DEF Finish
<1>1. CASE updateMemberRole(c)
  <2>1. k.on \in Users /\ canChangeRole(k, t) /\ k.op = "changeRole"
    BY <1>0, <1>1 DEF updateMemberRole, Granted, Calls
  <2>2. role[k.on] # "OWNER" /\ k.arg # "OWNER"
    BY <1>1, <1>a, <2>1 DEF updateMemberRole, Crosses, canChangeRole
  <2>3. role' = [role EXCEPT ![k.on] = k.arg] /\ active' = active
    BY <1>1 DEF updateMemberRole
  <2> HIDE DEF k, t
  <2> QED
    BY <2>1, <2>2, <2>3, OwnerUntouched DEF Inv, TypeOK
<1>2. CASE updateMemberStatus(c)
  <2>1. k.on \in Users /\ canRemove(k, t) /\ k.op \in {"suspend", "reactivate"}
    BY <1>0, <1>2 DEF updateMemberStatus, Granted, Calls
  <2>2. role[k.on] # "OWNER"
    BY <1>2, <1>a, <2>1 DEF updateMemberStatus, Crosses, canRemove
  <2>3. active' = [active EXCEPT ![k.on] = (k.op = "reactivate")] /\ role' = role
    BY <1>2 DEF updateMemberStatus
  <2> HIDE DEF k, t
  <2> QED
    BY <2>1, <2>2, <2>3, OwnerUntouched DEF Inv, TypeOK
<1>3. CASE deleteMember(c)
  <2>1. k.on \in Users
    BY <1>0, <1>3 DEF deleteMember, Calls
  <2>2. role[k.on] # "OWNER"
    <3>0. ~Crosses(c) /\ at[c] = "write" /\ k.op \in {"remove", "leave"}
      BY <1>3, <1>a DEF deleteMember
    <3>1. CASE k.op = "leave"
      <4>1. /\ k.as # "OWNER" => role[k.by] # "OWNER"
            /\ ~(Cardinality(Owners) < t.count)
        BY <3>0, <3>1 DEF Crosses
      <4>2. canLeave(k, t) /\ k.on = k.by
        BY <1>0, <3>0, <3>1 DEF Granted, Begun
      <4>3. k.as # "OWNER"
        BY <4>1, <4>2, OwnerCannotLeave DEF canLeave
      <4> QED
        BY <4>1, <4>2, <4>3
    <3>2. CASE k.op = "remove"
      <4>1. canRemove(k, t)
        BY <1>0, <3>0, <3>2 DEF Granted
      <4> QED
        BY <3>0, <3>2, <4>1 DEF Crosses, canRemove
    <3> QED
      BY <3>0, <3>1, <3>2
  <2>3. role' = [role EXCEPT ![k.on] = "none"] /\ active' = [active EXCEPT ![k.on] = FALSE]
    BY <1>3 DEF deleteMember
  <2> HIDE DEF k, t
  <2> QED
    BY <2>1, <2>2, <2>3, OwnerUntouched DEF Inv, TypeOK
<1>4. CASE transferOwnership(c)
  <2>1. /\ k.on \in Users /\ k.by \in Users /\ canTransferOwnership(k, t)
        /\ role[k.by] = "OWNER" /\ active[k.on]
        /\ joined[k.by] = k.id /\ joined[k.on] = t.id
    BY <1>0, <1>4, <1>a DEF transferOwnership, Is, Granted, Begun, Crosses, Calls
  <2>2. k.by = o /\ k.on # o /\ active[k.on]
    BY <2>1 DEF canTransferOwnership, Self, IsOwner
  <2>3. role' = [role EXCEPT ![k.on] = "OWNER", ![k.by] = "ADMIN"] /\ active' = active
    BY <1>4 DEF transferOwnership
  <2>4. \A u \in Users : role'[u] = IF u = o THEN "ADMIN"
                                   ELSE IF u = k.on THEN "OWNER" ELSE role[u]
    BY <2>1, <2>2, <2>3 DEF Inv, TypeOK
  <2>5. PICK p \in Users : p = k.on
    BY <2>1
  <2>6. /\ role'[p] = "OWNER" /\ active'[p]
        /\ \A u \in Users : role'[u] = "OWNER" => u = p
    <3> HIDE DEF k, t
    <3>1. p # o /\ role'[p] = "OWNER"
      BY <2>2, <2>4, <2>5
    <3>2. active'[p]
      BY <2>2, <2>3, <2>5
    <3>3. \A u \in Users : role'[u] = "OWNER" => u = p
      BY <2>4, <2>5, <3>1 DEF IsOwner
    <3> QED
      BY <3>1, <3>2, <3>3
  <2> QED
    BY <2>6 DEF IsOwner
<1>5. CASE createMember(c)
  <2>1. k.on \in Users /\ role[k.on] = "none" /\ k.arg # "OWNER"
    BY <1>0, <1>5 DEF createMember, Begun, Calls
  <2>2. role' = [role EXCEPT ![k.on] = k.arg] /\ active' = [active EXCEPT ![k.on] = TRUE]
    BY <1>5 DEF createMember
  <2> HIDE DEF k, t
  <2> QED
    BY <2>1, <2>2, OwnerUntouched DEF Inv, TypeOK
<1>6. CASE assertTouched(c) \/ upsertInvite(c) \/ revokeInvite(c) \/ createMemberThrows(c)
  BY <1>6 DEF assertTouched, upsertInvite, revokeInvite, createMemberThrows, IsOwner
<1> QED
  BY <1>1, <1>2, <1>3, <1>4, <1>5, <1>6 DEF Write

LEMMA OwnerStep == Inv /\ OneOwner /\ [Next]_vars => OneOwner'
<1> SUFFICES ASSUME Inv, OneOwner, [Next]_vars, ~crossed' PROVE \E o \in Users : IsOwner(o)'
  <2>1. Inv /\ [Next]_vars => TypeOK'
    BY InvStep DEF Inv
  <2>2. TypeOK' => (OneOwner' <=> (~crossed' => \E o \in Users : IsOwner(o)'))
    BY DEF OneOwner, IsOwner, Owners, TypeOK
  <2> QED
    BY <2>1, <2>2
<1>1. ~crossed
  <2>1. CASE \E c \in Requests : Write(c)
    BY <2>1 DEF Write, updateMemberRole, updateMemberStatus, deleteMember, transferOwnership,
       assertTouched, upsertInvite, revokeInvite, createMember, createMemberThrows, Finish
  <2>2. CASE ~\E c \in Requests : Write(c)
    BY <2>2 DEF Next, vars, Begin, BeginAccept, CheckTarget, CheckLeave, CheckInvite, CheckAccept, Expire
  <2> QED
    BY <2>1, <2>2
<1>2. PICK o \in Users : IsOwner(o)
  BY <1>1, OneOwnerIs DEF Inv
<1>3. CASE \E c \in Requests : Write(c)
  BY <1>2, <1>3, WriteKeepsOwner
<1>4. CASE ~\E c \in Requests : Write(c)
  <2>1. UNCHANGED <<role, active>>
    BY <1>4 DEF Next, vars, Begin, BeginAccept, CheckTarget, CheckLeave, CheckInvite,
       CheckAccept, Expire
  <2> QED
    BY <1>2, <2>1 DEF IsOwner
<1> QED
  BY <1>3, <1>4

(* OneOwner: requests that cross no transfer of ownership leave one owner, *)
(* and an active one, however many of them there are, whatever they ask    *)
(* and however they overtake each other.                                   *)
THEOREM OneOwnerHolds == Spec => []OneOwner
<1>1. Init => OneOwner
  <2> SUFFICES ASSUME Init PROVE IsOwner(Founder)
    BY Parameters DEF OneOwner, Owners, IsOwner
  <2> QED
    BY Parameters DEF Init, IsOwner
<1> QED
  BY InvInit, InvStep, OwnerStep, <1>1, PTL DEF Spec

-----------------------------------------------------------------------------
(* Seats.  What a step may do to the members A who are active, the         *)
(* invitations P that are pending, and the history of unchecked seats:     *)
(* take none; take one and say so; take one that a current count allowed;  *)
(* or turn a pending invitation into a member.                             *)

TakesNone == ActiveMembers' \subseteq ActiveMembers /\ Pending' \subseteq Pending
             /\ unchecked' >= unchecked

TakesUnchecked ==
    /\ unchecked' = unchecked + 1
    /\ \E u \in Users :
          \/ ActiveMembers' \subseteq ActiveMembers \cup {u} /\ Pending' \subseteq Pending
          \/ ActiveMembers' \subseteq ActiveMembers /\ Pending' \subseteq Pending \cup {u}

TakesAllowed ==
    /\ unchecked' = unchecked /\ getCurrentLimitUsage + 1 <= Seats
    /\ ActiveMembers' \subseteq ActiveMembers
    /\ \E u \in Users : Pending' \subseteq Pending \cup {u}

Joins ==
    /\ unchecked' = unchecked
    /\ \E u \in Pending : /\ ActiveMembers' \subseteq ActiveMembers \cup {u}
                          /\ Pending' \subseteq Pending \ {u}

LEMMA Grown ==
  ASSUME NEW S \in SUBSET Users, NEW T \in SUBSET Users, NEW u \in Users,
         T \subseteq S \cup {u}
  PROVE  Cardinality(T) <= Cardinality(S) + 1
<1>1. IsFiniteSet(S) /\ Cardinality(S) \in Nat
  BY UsersCounted
<1>2. IsFiniteSet(S \cup {u}) /\ Cardinality(S \cup {u}) <= Cardinality(S) + 1
  <2>1. /\ IsFiniteSet(S \cup {u})
        /\ Cardinality(S \cup {u}) = IF u \in S THEN Cardinality(S) ELSE Cardinality(S) + 1
    BY <1>1, FS_AddElement, Zenon
  <2> QED
    BY <1>1, <2>1
<1>3. Cardinality(T) <= Cardinality(S \cup {u})
  BY <1>2, FS_Subset
<1> QED
  BY <1>1, <1>2, <1>3, UsersCounted, FS_CardinalityType

LEMMA SeatsStay ==
  ASSUME TypeOK, TypeOK', SeatsAreKept,
         TakesNone \/ TakesUnchecked \/ TakesAllowed \/ Joins
  PROVE  SeatsAreKept'
<1> DEFINE A == ActiveMembers  P == Pending
<1>1. /\ A \in SUBSET Users /\ A' \in SUBSET Users /\ P \in SUBSET Users /\ P' \in SUBSET Users
  BY DEF ActiveMembers, Pending
<1>2. /\ IsFiniteSet(A) /\ Cardinality(A) \in Nat /\ IsFiniteSet(P) /\ Cardinality(P) \in Nat
      /\ Cardinality(A') \in Nat /\ Cardinality(P') \in Nat
      /\ unchecked \in Nat /\ unchecked' \in Nat /\ Seats \in Nat
  BY <1>1, UsersCounted, Parameters DEF TypeOK
<1>3. CASE TakesNone
  <2>1. Cardinality(A') <= Cardinality(A) /\ Cardinality(P') <= Cardinality(P)
    BY <1>2, <1>3, FS_Subset DEF TakesNone
  <2> QED
    BY <1>2, <1>3, <2>1 DEF TakesNone, SeatsAreKept
<1>4. CASE TakesUnchecked
  <2>1. Cardinality(A') + Cardinality(P') <= Cardinality(A) + Cardinality(P) + 1
    <3>1. PICK u \in Users : \/ A' \subseteq A \cup {u} /\ P' \subseteq P
                             \/ A' \subseteq A /\ P' \subseteq P \cup {u}
      BY <1>4 DEF TakesUnchecked
    <3>2. CASE A' \subseteq A \cup {u} /\ P' \subseteq P
      <4>1. Cardinality(A') <= Cardinality(A) + 1
        BY <1>1, <3>2, Grown
      <4>2. Cardinality(P') <= Cardinality(P)
        BY <1>2, <3>2, FS_Subset
      <4> HIDE DEF A, P
      <4> QED
        BY <1>2, <4>1, <4>2
    <3>3. CASE A' \subseteq A /\ P' \subseteq P \cup {u}
      <4>1. Cardinality(P') <= Cardinality(P) + 1
        BY <1>1, <3>3, Grown
      <4>2. Cardinality(A') <= Cardinality(A)
        BY <1>2, <3>3, FS_Subset
      <4> HIDE DEF A, P
      <4> QED
        BY <1>2, <4>1, <4>2
    <3> QED
      BY <3>1, <3>2, <3>3
  <2> QED
    BY <1>2, <1>4, <2>1 DEF TakesUnchecked, SeatsAreKept
<1>5. CASE TakesAllowed
  <2>1. PICK u \in Users : P' \subseteq P \cup {u}
    BY <1>5 DEF TakesAllowed
  <2>2. Cardinality(P') <= Cardinality(P) + 1
    BY <1>1, <2>1, Grown
  <2>3. Cardinality(A') <= Cardinality(A)
    BY <1>2, <1>5, FS_Subset DEF TakesAllowed
  <2> QED
    BY <1>2, <1>5, <2>2, <2>3 DEF TakesAllowed, SeatsAreKept, getCurrentLimitUsage
<1>6. CASE Joins
  <2>1. PICK u \in Pending : A' \subseteq A \cup {u} /\ P' \subseteq P \ {u}
    BY <1>6 DEF Joins
  <2>2. Cardinality(A') <= Cardinality(A) + 1
    BY <1>1, <2>1, Grown DEF Pending
  <2>3. IsFiniteSet(P \ {u}) /\ Cardinality(P \ {u}) = Cardinality(P) - 1
    BY <1>2, <2>1, FS_RemoveElement
  <2>4. Cardinality(P') <= Cardinality(P) - 1
    BY <2>1, <2>3, FS_Subset
  <2> QED
    BY <1>2, <1>6, <2>2, <2>4 DEF Joins, SeatsAreKept
<1> QED
  BY <1>3, <1>4, <1>5, <1>6

LEMMA WriteTakes ==
  ASSUME Inv, NEW c \in Requests, Write(c)
  PROVE  TakesNone \/ TakesUnchecked \/ TakesAllowed \/ Joins
<1> DEFINE k == call[c]  u == call[c].on
<1>0. /\ at[c] # "idle" => k \in Calls /\ u \in Users /\ k.by \in Users
      /\ at[c] = "write" => Granted(k, saw[c]) /\ saw[c] \in Facts
      /\ unchecked \in Nat
  BY DEF Inv, Vetted, TypeOK, Calls
<1> USE DEF Inv, TypeOK, ActiveMembers, Pending
<1>1. CASE updateMemberRole(c)
  <2>1. role[u] # "none" /\ u \in Users /\ k.arg \in Roles
    BY <1>0, <1>1 DEF updateMemberRole, Is, Calls
  <2>2. ActiveMembers' = ActiveMembers /\ Pending' = Pending /\ unchecked' = unchecked
    BY <1>1, <2>1 DEF updateMemberRole, Finish, Roles
  <2> QED
    BY <1>0, <2>2 DEF TakesNone
<1>2. CASE updateMemberStatus(c)
  <2>1. u \in Users
    BY <1>0, <1>2 DEF updateMemberStatus
  <2>2. ActiveMembers' \subseteq ActiveMembers \cup {u} /\ Pending' = Pending
    BY <1>2, <2>1 DEF updateMemberStatus, Finish
  <2>3. CASE unchecked' = unchecked + 1
    BY <2>1, <2>2, <2>3 DEF TakesUnchecked
  <2>4. CASE unchecked' # unchecked + 1
    <3>1. ActiveMembers' \subseteq ActiveMembers /\ unchecked' = unchecked
      BY <1>2, <2>1, <2>4 DEF updateMemberStatus, Finish
    <3> QED
      BY <1>0, <2>2, <3>1 DEF TakesNone
  <2> QED
    BY <2>3, <2>4
<1>3. CASE deleteMember(c)
  <2>1. ActiveMembers' \subseteq ActiveMembers /\ Pending' = Pending /\ unchecked' = unchecked
    BY <1>3 DEF deleteMember, Finish
  <2> QED
    BY <1>0, <2>1 DEF TakesNone
<1>4. CASE transferOwnership(c)
  <2>1. u \in Users /\ k.by \in Users /\ role[u] # "none" /\ role[k.by] # "none"
    BY <1>0, <1>4 DEF transferOwnership, Is
  <2>2. ActiveMembers' \subseteq ActiveMembers /\ Pending' = Pending /\ unchecked' = unchecked
    BY <1>4, <2>1 DEF transferOwnership, Finish
  <2> QED
    BY <1>0, <2>2 DEF TakesNone
<1>5. CASE assertTouched(c) \/ createMemberThrows(c)
  <2>1. ActiveMembers' = ActiveMembers /\ Pending' = Pending /\ unchecked' = unchecked
    BY <1>5 DEF assertTouched, createMemberThrows
  <2> QED
    BY <1>0, <2>1 DEF TakesNone
<1>6. CASE revokeInvite(c)
  <2>1. ActiveMembers' = ActiveMembers /\ Pending' \subseteq Pending /\ unchecked' = unchecked
    BY <1>6 DEF revokeInvite
  <2> QED
    BY <1>0, <2>1 DEF TakesNone
<1>7. CASE upsertInvite(c)
  <2>1. u \in Users /\ saw[c].count + 1 <= Seats /\ saw[c].count \in Nat
    BY <1>0, <1>7 DEF upsertInvite, Granted, Facts
  <2>2. ActiveMembers' = ActiveMembers /\ Pending' \subseteq Pending \cup {u}
    BY <1>7, <2>1 DEF upsertInvite
  <2>3. CASE getCurrentLimitUsage > saw[c].count
    <3>1. unchecked' = unchecked + 1
      BY <1>7, <2>3 DEF upsertInvite
    <3> QED
      BY <2>1, <2>2, <3>1 DEF TakesUnchecked
  <2>4. CASE ~(getCurrentLimitUsage > saw[c].count)
    <3>1. unchecked' = unchecked
      BY <1>7, <2>4 DEF upsertInvite
    <3>2. getCurrentLimitUsage + 1 <= Seats
      BY <2>1, <2>4, UsageIsNat, Parameters
    <3> QED
      BY <2>1, <2>2, <3>1, <3>2 DEF TakesAllowed
  <2> QED
    BY <2>3, <2>4
<1>8. CASE createMember(c)
  <2>1. u \in Users
    BY <1>0, <1>8 DEF createMember
  <2>2. /\ ActiveMembers' \subseteq ActiveMembers \cup {u}
        /\ Pending' \subseteq Pending \ {u}
    BY <1>8, <2>1 DEF createMember, markInviteAccepted
  <2>3. unchecked' = IF u \in Pending THEN unchecked ELSE unchecked + 1
    BY <1>8 DEF createMember
  <2>4. CASE u \in Pending
    BY <2>2, <2>3, <2>4 DEF Joins
  <2>5. CASE u \notin Pending
    BY <2>1, <2>2, <2>3, <2>5 DEF TakesUnchecked
  <2> QED
    BY <2>4, <2>5
<1> QED
  BY <1>1, <1>2, <1>3, <1>4, <1>5, <1>6, <1>7, <1>8 DEF Write

LEMMA SeatsStep == Inv /\ SeatsAreKept /\ [Next]_vars => SeatsAreKept'
<1> SUFFICES ASSUME Inv, SeatsAreKept, [Next]_vars PROVE SeatsAreKept'
  OBVIOUS
<1>1. CASE \E c \in Requests : Write(c)
  BY <1>1, WriteTakes, SeatsStay, InvStep DEF Inv
<1>2. CASE ~\E c \in Requests : Write(c)
  <2>1. UNCHANGED <<role, active, unchecked>>
    BY <1>2 DEF Next, vars, Begin, BeginAccept, CheckTarget, CheckLeave, CheckInvite,
       CheckAccept, Expire
  <2>2. Pending' \subseteq Pending
    BY <1>2 DEF Next, vars, Begin, BeginAccept, CheckTarget, CheckLeave, CheckInvite,
       CheckAccept, markInviteAccepted, Expire, Pending, Inv, TypeOK
  <2>3. unchecked' >= unchecked
    BY <2>1 DEF Inv, TypeOK
  <2>4. TakesNone
    BY <2>1, <2>2, <2>3 DEF TakesNone, ActiveMembers
  <2> QED
    BY <2>4, SeatsStay, InvStep DEF Inv
<1> QED
  BY <1>1, <1>2

(* SeatsAreKept: the plan's team limit is exceeded only by seats that no   *)
(* count allowed, one by one, however requests interleave.                 *)
THEOREM SeatsAreKeptHolds == Spec => []SeatsAreKept
<1>1. Init => SeatsAreKept
  <2> SUFFICES ASSUME Init PROVE SeatsAreKept
    OBVIOUS
  <2>1. ActiveMembers = {Founder} /\ Pending = {} /\ unchecked = 0
    BY Parameters DEF Init, ActiveMembers, Pending
  <2>2. Cardinality({Founder}) = 1 /\ Cardinality({}) = 0
    BY FS_Singleton, FS_EmptySet
  <2>3. Cardinality(ActiveMembers) + Cardinality(Pending) = 1
    BY <2>1, <2>2
  <2> QED
    BY <2>1, <2>3, Parameters DEF SeatsAreKept
<1> QED
  BY InvInit, InvStep, SeatsStep, <1>1, PTL DEF Spec

-----------------------------------------------------------------------------
(***************************************************************************)
(* Billing.                                                                *)
(***************************************************************************)

USE DEF subscription, provider, request, history

(***************************************************************************)
(* What the invariant adds to the properties.                              *)
(***************************************************************************)

\* The link a delivery has read is still the row's, unless deliveries overlapped.
StillLinked ==
    \A d \in Deliveries :
        /\ phase[d] # "idle" => event[d] \in DOMAIN emitted
        /\ phase[d] = "updated" => overlapped \/ providerSubscriptionId = emitted[event[d]].of

\* Two deliveries are in flight together only where that is recorded.
Alone ==
    /\ overlapped => ~orderly
    /\ \A d, e \in Deliveries : phase[d] # "idle" /\ phase[e] # "idle" => d = e \/ overlapped

\* In order: what is processed comes before what is not.
InOrder ==
    orderly =>
        /\ \A i \in processed : 1 .. i \subseteq processed
        /\ \A d \in Deliveries : phase[d] # "idle" =>
              /\ event[d] \notin processed /\ 1 .. event[d] - 1 \subseteq processed
              /\ phase[d] = emitted[event[d]].type

LastOf(i, S) == \A j \in S : j > i => emitted[j].of # emitted[i].of

Left(e) == IF e.type = "deleted" THEN "ended" ELSE e.plan

\* The provider holds what the last event of each subscription said.
Told == \A i \in DOMAIN emitted : LastOf(i, DOMAIN emitted) => held[emitted[i].of] = Left(emitted[i])

\* The row is as the last processed event of its subscription left it.
AsLeft(i) ==
    /\ emitted[i].of = providerSubscriptionId /\ emitted[i].type # "deleted"
    /\ LastOf(i, processed)
    /\ \/ planKey = emitted[i].plan
       \/ downgraded /\ planKey = "free"

Follows == orderly /\ providerSubscriptionId # NoSubscription => \E i \in processed : AsLeft(i)

Linked == providerSubscriptionId # NoSubscription => status = "ACTIVE"

BillingInv == BillingTypeOK /\ Linked /\ PaidMeansLinked /\ StillLinked /\ Alone /\ InOrder /\ Told /\ Follows

-----------------------------------------------------------------------------
LEMMA BillingInvInit == BillingInit => BillingInv
<1> SUFFICES ASSUME BillingInit PROVE BillingInv
  OBVIOUS
<1>1. BillingTypeOK
  <2>1. emitted = <<>> /\ emitted \in Seq(Events) /\ processed \subseteq DOMAIN emitted
    BY DEF BillingInit
  <2>2. event \in [Deliveries -> 0 .. Len(emitted)] /\ phase \in [Deliveries -> {"idle"} \cup Types]
    BY <2>1 DEF BillingInit
  <2> QED
    BY <2>1, <2>2 DEF BillingInit, BillingTypeOK, Plans
<1> QED
  BY <1>1, BillingParameters DEF BillingInit, BillingInv, Linked, PaidMeansLinked, StillLinked, Alone, InOrder, Told, Follows, AsLeft, LastOf

\* The provider's events only add to what has been told.
LEMMA EmitKeeps ==
  ASSUME BillingInv, NEW type \in Types, NEW s \in Subscriptions, NEW p \in Paid, NEW cancel \in BOOLEAN,
         Emit(type, s, p, cancel),
         held' = [held EXCEPT ![s] = IF type = "deleted" THEN "ended" ELSE p]
  PROVE  BillingInv'
<1> DEFINE e == [type |-> type, of |-> s, plan |-> p, cancel |-> cancel]
           n == Len(emitted) + 1
<1>1. e \in Events /\ emitted \in Seq(Events) /\ emitted' = Append(emitted, e)
  BY DEF Emit, BillingInv, BillingTypeOK, Events, Types
<1>2. /\ emitted' \in Seq(Events) /\ Len(emitted') = n
      /\ DOMAIN emitted = 1 .. n - 1 /\ DOMAIN emitted' = 1 .. n /\ n \in Nat \ {0}
      /\ emitted'[n] = e /\ \A i \in 1 .. n - 1 : emitted'[i] = emitted[i]
  BY <1>1
<1>3. BillingTypeOK'
  BY <1>1, <1>2 DEF BillingInv, BillingTypeOK, Emit, Events, Types
<1>4. (Linked /\ PaidMeansLinked /\ StillLinked /\ Alone)'
  BY <1>2 DEF BillingInv, BillingTypeOK, Emit, Linked, PaidMeansLinked, StillLinked, Alone
<1>5. InOrder'
  BY <1>2, <1>4 DEF BillingInv, BillingTypeOK, Emit, InOrder, StillLinked
<1>6. Told'
  <2> SUFFICES ASSUME NEW i \in 1 .. n, LastOf(i, DOMAIN emitted)'
               PROVE  held'[emitted'[i].of] = Left(emitted'[i])
    BY <1>2 DEF Told, Left
  <2>1. CASE i = n
    BY <2>1, <1>2 DEF Left, BillingInv, BillingTypeOK
  <2>2. CASE i # n
    <3>1. i \in 1 .. n - 1 /\ emitted'[i] = emitted[i] /\ n > i
      BY <2>2, <1>2
    <3>2. emitted[i].of # s
      BY <3>1, <1>2 DEF LastOf
    <3>3. LastOf(i, DOMAIN emitted)
      BY <3>1, <1>2 DEF LastOf
    <3>4. emitted[i] \in Events
      BY <3>1, <1>1, <1>2
    <3>5. emitted[i].of \in Subscriptions
      BY <3>4 DEF Events
    <3> QED
      BY <3>1, <3>2, <3>3, <3>5, <1>2 DEF BillingInv, Told, BillingTypeOK
  <2> QED
    BY <2>1, <2>2
<1>7. Follows'
  <2> SUFFICES ASSUME Follows, orderly, providerSubscriptionId # NoSubscription
               PROVE  \E i \in processed : AsLeft(i)'
    BY DEF Emit, BillingInv, Follows
  <2>1. PICK i \in processed : AsLeft(i)
    BY DEF Follows
  <2>2. processed \subseteq 1 .. n - 1
    BY <1>2 DEF BillingInv, BillingTypeOK
  <2>3. AsLeft(i)'
    BY <2>1, <2>2, <1>2 DEF AsLeft, LastOf, Emit
  <2> QED
    BY <2>3
<1> QED
  BY <1>3, <1>4, <1>5, <1>6, <1>7 DEF BillingInv

\* A delivery that is read, whether or not it concerns the row's subscription.
LEMMA ReadKeeps ==
  ASSUME BillingInv, NEW d \in Deliveries, NEW i \in DOMAIN emitted, processBillingWebhook(d, i)
  PROVE  BillingInv'
<1>1. emitted \in Seq(Events) /\ DOMAIN emitted = 1 .. Len(emitted) /\ emitted[i] \in Events
  BY DEF BillingInv, BillingTypeOK
<1>2. BillingTypeOK'
  <2>1. orderly' \in BOOLEAN /\ overlapped' \in BOOLEAN
    BY Zenon DEF BillingInv, BillingTypeOK, processBillingWebhook
  <2> QED
    <3>1. CASE Concerns(i)
      <4>1. emitted[i].type \in Types
        BY <1>1 DEF Events
      <4>2. phase' \in [Deliveries -> {"idle"} \cup Types] /\ event' \in [Deliveries -> 0 .. Len(emitted)]
        <5>1. phase' = [phase EXCEPT ![d] = emitted[i].type] /\ event' = [event EXCEPT ![d] = i]
          BY <3>1 DEF processBillingWebhook
        <5> QED
          BY <1>1, <4>1, <5>1 DEF BillingInv, BillingTypeOK
      <4>3. UNCHANGED <<subscription, provider, downgraded, processed>>
        BY <3>1 DEF processBillingWebhook
      <4> QED
        BY <2>1, <4>2, <4>3 DEF BillingInv, BillingTypeOK
    <3>2. CASE ~Concerns(i)
      BY <1>1, <2>1, <3>2 DEF BillingInv, BillingTypeOK, processBillingWebhook
    <3> QED
      BY <3>1, <3>2
<1>3. Linked' /\ PaidMeansLinked'
  BY DEF BillingInv, Linked, PaidMeansLinked, processBillingWebhook
<1>4. StillLinked'
  <2>1. CASE Concerns(i)
    BY <1>1, <2>1 DEF BillingInv, BillingTypeOK, StillLinked, processBillingWebhook, Concerns
  <2>2. CASE ~Concerns(i)
    BY <2>2 DEF BillingInv, StillLinked, processBillingWebhook
  <2> QED
    BY <2>1, <2>2
<1>5. Alone'
  <2>1. overlapped' => ~orderly'
    BY DEF BillingInv, Alone, processBillingWebhook
  <2>2. CASE InFlight
    BY <2>1, <2>2 DEF Alone, processBillingWebhook
  <2>3. CASE ~InFlight
    <3>1. \A e \in Deliveries : phase'[e] # "idle" => e = d
      BY <2>3 DEF BillingInv, BillingTypeOK, processBillingWebhook, InFlight
    <3> QED
      BY <2>1, <3>1 DEF Alone
  <2> QED
    BY <2>2, <2>3
<1>6. InOrder'
  <2> SUFFICES ASSUME orderly' PROVE InOrder'
    BY DEF InOrder
  <2>1. /\ orderly /\ ~InFlight /\ i \notin processed /\ 1 .. i - 1 \subseteq processed
        /\ \A j \in processed : 1 .. j \subseteq processed
    BY DEF processBillingWebhook, BillingInv, InOrder
  <2>2. CASE Concerns(i)
    BY <2>1, <2>2, <1>1 DEF processBillingWebhook, BillingInv, BillingTypeOK, InOrder, InFlight
  <2>3. CASE ~Concerns(i)
    <3>1. 1 .. i \subseteq processed \cup {i}
      BY <2>1, <1>1
    <3> QED
      BY <2>1, <2>3, <3>1 DEF processBillingWebhook, BillingInv, BillingTypeOK, InOrder, InFlight
  <2> QED
    BY <2>2, <2>3
<1>7. Told'
  BY DEF BillingInv, Told, LastOf, processBillingWebhook
<1>8. Follows'
  <2> SUFFICES ASSUME orderly', providerSubscriptionId # NoSubscription
               PROVE  \E j \in processed' : AsLeft(j)'
    BY DEF Follows, processBillingWebhook
  <2>1. orderly
    BY DEF processBillingWebhook
  <2>2. PICK j \in processed : AsLeft(j)
    BY <2>1 DEF BillingInv, Follows
  <2>3. AsLeft(j)' /\ j \in processed'
    <3>1. CASE Concerns(i)
      BY <2>2, <3>1 DEF AsLeft, LastOf, processBillingWebhook
    <3>2. CASE ~Concerns(i)
      BY <2>2, <3>2 DEF AsLeft, LastOf, Concerns, processBillingWebhook
    <3> QED
      BY <3>1, <3>2
  <2> QED
    BY <2>3
<1> QED
  BY <1>2, <1>3, <1>4, <1>5, <1>6, <1>7, <1>8 DEF BillingInv

\* What every write has in common: it ends the one delivery that makes it.
LEMMA FinishKeeps ==
  ASSUME BillingInv, NEW d \in Deliveries, phase[d] # "idle", FinishDelivery(d), UNCHANGED emitted
  PROVE  /\ phase' \in [Deliveries -> {"idle"} \cup Types] /\ event' \in [Deliveries -> 0 .. Len(emitted)]
         /\ processed' \subseteq DOMAIN emitted
         /\ Alone' /\ InOrder' /\ Told'
<1>1. event[d] \in DOMAIN emitted /\ DOMAIN emitted = 1 .. Len(emitted)
  BY DEF BillingInv, BillingTypeOK, StillLinked
<1>2. Alone'
  BY DEF BillingInv, BillingTypeOK, Alone, FinishDelivery
<1>3. InOrder'
  <2> SUFFICES ASSUME orderly PROVE InOrder'
    BY DEF InOrder, FinishDelivery
  <2>1. \A f \in Deliveries : f # d => phase[f] = "idle"
    BY DEF BillingInv, Alone
  <2>2. 1 .. event[d] \subseteq processed \cup {event[d]}
    BY <1>1 DEF BillingInv, InOrder
  <2>3. \A f \in Deliveries : phase'[f] = "idle"
    BY <2>1 DEF FinishDelivery, BillingInv, BillingTypeOK
  <2> QED
    BY <2>2, <2>3 DEF FinishDelivery, BillingInv, InOrder
<1>4. Told'
  BY DEF BillingInv, Told, LastOf, FinishDelivery
<1> QED
  BY <1>1, <1>2, <1>3, <1>4 DEF BillingInv, BillingTypeOK, FinishDelivery, Types

\* In order, the event being written is the last of those processed with it.
LEMMA NewestWritten ==
  ASSUME BillingInv, NEW d \in Deliveries, phase[d] # "idle", orderly
  PROVE  \A j \in processed : j < event[d]
<1>1. event[d] \in Nat \ {0} /\ processed \subseteq Nat
  BY DEF BillingInv, BillingTypeOK, StillLinked
<1>2. event[d] \notin processed /\ \A i \in processed : 1 .. i \subseteq processed
  BY DEF BillingInv, InOrder
<1>3. ASSUME NEW j \in processed, event[d] <= j PROVE FALSE
  <2>1. event[d] \in 1 .. j
    BY <1>1, <1>3
  <2> QED
    BY <1>2, <2>1
<1> QED
  BY <1>1, <1>3

LEMMA CheckoutKeeps ==
  ASSUME BillingInv, NEW d \in Deliveries, processCheckoutCompleted(d)
  PROVE  BillingInv'
<1>0. PICK k \in DOMAIN emitted : k = event[d]
  BY DEF processCheckoutCompleted, BillingInv, StillLinked
<1>1. phase[d] = "completed" /\ FinishDelivery(d) /\ UNCHANGED emitted
  BY DEF processCheckoutCompleted, FinishDelivery
<1>2. emitted[k] \in Events
  BY <1>1 DEF BillingInv, BillingTypeOK
<1>3. BillingTypeOK'
  BY <1>0, <1>1, <1>2, FinishKeeps DEF processCheckoutCompleted, FinishDelivery, BillingInv, BillingTypeOK, Events, Plans
<1>4. Linked' /\ PaidMeansLinked'
  <2>1. emitted[k].of # NoSubscription
    BY <1>2, BillingParameters DEF Events
  <2> QED
    BY <1>0, <2>1 DEF processCheckoutCompleted, Linked, PaidMeansLinked
<1>5. StillLinked'
  BY <1>1 DEF processCheckoutCompleted, FinishDelivery, BillingInv, BillingTypeOK, StillLinked, Alone
<1>6. Follows'
  <2> SUFFICES ASSUME orderly PROVE AsLeft(k)' /\ k \in processed'
    BY DEF Follows, FinishDelivery, processCheckoutCompleted
  <2>1. \A j \in processed : j < k
    BY <1>0, <1>1, NewestWritten
  <2>2. emitted[k].type # "deleted"
    BY <1>0, <1>1 DEF BillingInv, InOrder
  <2>3. \A j \in processed' : ~(j > k)
    BY <2>1, <1>0, <1>1 DEF FinishDelivery, BillingInv, BillingTypeOK
  <2> QED
    BY <2>2, <2>3, <1>0, <1>1 DEF AsLeft, LastOf, processCheckoutCompleted, FinishDelivery
<1> QED
  BY <1>1, <1>3, <1>4, <1>5, <1>6, FinishKeeps DEF BillingInv

LEMMA UpdatedKeeps ==
  ASSUME BillingInv, NEW d \in Deliveries, processSubscriptionUpdated(d)
  PROVE  BillingInv'
<1>0. PICK k \in DOMAIN emitted : k = event[d]
  BY DEF processSubscriptionUpdated, BillingInv, StillLinked
<1>1. phase[d] = "updated" /\ FinishDelivery(d) /\ UNCHANGED emitted
  BY DEF processSubscriptionUpdated, FinishDelivery
<1>2. emitted[k] \in Events
  BY <1>1 DEF BillingInv, BillingTypeOK
<1>3. BillingTypeOK'
  BY <1>0, <1>1, <1>2, FinishKeeps DEF processSubscriptionUpdated, FinishDelivery, BillingInv, BillingTypeOK, Events, Plans
<1>4. Linked' /\ PaidMeansLinked'
  <2>1. overlapped \/ providerSubscriptionId # NoSubscription
    BY <1>0, <1>1, <1>2, BillingParameters DEF BillingInv, StillLinked, Events
  <2> QED
    BY <2>1 DEF processSubscriptionUpdated, FinishDelivery, BillingInv, Linked, PaidMeansLinked
<1>5. StillLinked'
  BY <1>1 DEF processSubscriptionUpdated, FinishDelivery, BillingInv, BillingTypeOK, StillLinked
<1>6. Follows'
  <2> SUFFICES ASSUME orderly PROVE AsLeft(k)' /\ k \in processed'
    BY DEF Follows, FinishDelivery, processSubscriptionUpdated
  <2>1. \A j \in processed : j < k
    BY <1>0, <1>1, NewestWritten
  <2>2. emitted[k].type # "deleted" /\ emitted[k].of = providerSubscriptionId
    BY <1>0, <1>1 DEF BillingInv, InOrder, StillLinked, Alone
  <2>3. \A j \in processed' : ~(j > k)
    BY <2>1, <1>0, <1>1 DEF FinishDelivery, BillingInv, BillingTypeOK
  <2> QED
    BY <2>2, <2>3, <1>0, <1>1 DEF AsLeft, LastOf, processSubscriptionUpdated, FinishDelivery
<1> QED
  BY <1>1, <1>3, <1>4, <1>5, <1>6, FinishKeeps DEF BillingInv

LEMMA DeletedKeeps ==
  ASSUME BillingInv, NEW d \in Deliveries, processSubscriptionDeleted(d)
  PROVE  BillingInv'
<1>1. phase[d] = "deleted" /\ FinishDelivery(d) /\ UNCHANGED emitted
  BY DEF processSubscriptionDeleted, FinishDelivery
<1>2. BillingTypeOK'
  BY <1>1, FinishKeeps DEF processSubscriptionDeleted, FinishDelivery, BillingInv, BillingTypeOK, Types, Plans
<1>3. Linked' /\ PaidMeansLinked'
  BY BillingParameters DEF processSubscriptionDeleted, Linked, PaidMeansLinked
<1>4. StillLinked'
  BY <1>1 DEF processSubscriptionDeleted, FinishDelivery, BillingInv, BillingTypeOK, StillLinked, Alone
<1>5. Follows'
  BY DEF processSubscriptionDeleted, Follows
<1> QED
  BY <1>1, <1>2, <1>3, <1>4, <1>5, FinishKeeps DEF BillingInv

LEMMA FailKeeps ==
  ASSUME BillingInv, NEW d \in Deliveries, Fail(d)
  PROVE  BillingInv'
<1>1. BillingTypeOK' /\ Linked' /\ PaidMeansLinked' /\ StillLinked' /\ Alone' /\ InOrder'
  BY DEF Fail, BillingInv, BillingTypeOK, Linked, PaidMeansLinked, StillLinked, Alone, InOrder
<1>2. Told' /\ Follows'
  BY DEF Fail, BillingInv, Told, Follows, AsLeft, LastOf
<1> QED
  BY <1>1, <1>2 DEF BillingInv

\* The owner and the calendar never touch the link.
LEMMA ChangeKeeps ==
  ASSUME BillingInv, changeSubscriptionPlan \/ cancelSubscription \/ resumeSubscription \/ PeriodEnds
  PROVE  BillingInv'
<1>1. /\ UNCHANGED <<provider, request, processed, orderly, overlapped, providerSubscriptionId>>
      /\ \/ planKey' = "free" /\ status' = "ACTIVE" /\ downgraded' = TRUE
         \/ UNCHANGED <<planKey, status, downgraded>>
      /\ cancelAtPeriodEnd' \in BOOLEAN /\ over' \in BOOLEAN
  BY DEF changeSubscriptionPlan, cancelSubscription, resumeSubscription, PeriodEnds, Change, BillingInv, BillingTypeOK
<1>2. BillingTypeOK'
  BY <1>1 DEF BillingInv, BillingTypeOK, Plans
<1>3. Linked' /\ PaidMeansLinked' /\ StillLinked' /\ Alone' /\ InOrder' /\ Told'
  BY <1>1, BillingParameters DEF BillingInv, Linked, PaidMeansLinked, StillLinked, Alone, InOrder, Told, LastOf
<1>4. Follows'
  BY <1>1 DEF BillingInv, Follows, AsLeft, LastOf
<1> QED
  BY <1>2, <1>3, <1>4 DEF BillingInv

LEMMA BillingInvStep == BillingInv /\ [BillingNext]_billingVars => BillingInv'
<1> SUFFICES ASSUME BillingInv, [BillingNext]_billingVars PROVE BillingInv'
  OBVIOUS
<1>1. ASSUME NEW s \in Subscriptions, NEW p \in Paid, CheckOut(s, p) PROVE BillingInv'
  BY <1>1, EmitKeeps DEF CheckOut, Types
<1>2. ASSUME NEW s \in Subscriptions, NEW p \in Paid, NEW cancel \in BOOLEAN, Update(s, p, cancel) PROVE BillingInv'
  BY <1>2, EmitKeeps DEF Update, Types
<1>3. ASSUME NEW s \in Subscriptions, End(s) PROVE BillingInv'
  BY <1>3, EmitKeeps DEF End, Types
<1>4. CASE UNCHANGED billingVars
  BY <1>4 DEF billingVars, BillingInv, BillingTypeOK, Linked, PaidMeansLinked, StillLinked, Alone, InOrder, Told, Follows, AsLeft, LastOf
<1> QED
  BY <1>1, <1>2, <1>3, <1>4, ReadKeeps, CheckoutKeeps, UpdatedKeeps, DeletedKeeps, FailKeeps, ChangeKeeps DEF BillingNext

-----------------------------------------------------------------------------
LEMMA BillingInvHolds == BillingSpec => []BillingInv
BY BillingInvInit, BillingInvStep, PTL DEF BillingSpec

\* The types hold, and what is counted as processed has been emitted.
THEOREM BillingTypeCorrect == BillingSpec => []BillingTypeOK
<1>1. BillingInv => BillingTypeOK
  BY DEF BillingInv
<1> QED
  BY <1>1, BillingInvHolds, PTL

\* processSubscriptionUpdated, processSubscriptionDeleted: beyond the trial a
\* paid plan is linked to a subscription unless two deliveries overlapped.
THEOREM PaidMeansLinkedHolds == BillingSpec => []PaidMeansLinked
<1>1. BillingInv => PaidMeansLinked
  BY DEF BillingInv
<1> QED
  BY <1>1, BillingInvHolds, PTL

\* Events in order and one at a time leave the row on the plan that the
\* provider holds for its subscription, whatever failed in between.
THEOREM RowFollowsProviderHolds == BillingSpec => []RowFollowsProvider
<1>1. BillingInv => RowFollowsProvider
  <2> SUFFICES ASSUME BillingInv, orderly, processed = DOMAIN emitted, providerSubscriptionId # NoSubscription
               PROVE  \/ resolveEffectivePlanKey = held[providerSubscriptionId]
                      \/ /\ resolveEffectivePlanKey = "free"
                         /\ downgraded \/ (over /\ cancelAtPeriodEnd)
    BY DEF RowFollowsProvider
  <2>1. PICK i \in processed : AsLeft(i)
    BY DEF BillingInv, Follows
  <2>2. held[emitted[i].of] = emitted[i].plan
    BY <2>1 DEF AsLeft, BillingInv, Told, Left
  <2>3. status = "ACTIVE"
    BY DEF BillingInv, Linked
  <2> QED
    BY <2>1, <2>2, <2>3 DEF AsLeft, resolveEffectivePlanKey
<1> QED
  BY <1>1, BillingInvHolds, PTL

-----------------------------------------------------------------------------
(***************************************************************************)
(* Automations.  Executions of a run are counted: what an execution has    *)
(* begun or may still do at a position, and what a first resumption is     *)
(* still to bring.                                                         *)
(***************************************************************************)
USE DEF rows, worker, runHistory

Active == {"act", "enqueue", "catch"}

\* Executions that may still perform position p, or have just failed before it.
Going(p) == {w \in Workers : \/ stage[w] \in {"act", "enqueue"} /\ next[w] <= p
                             \/ stage[w] = "catch" /\ next[w] < p}

\* An index that has a resume job, or an execution of one; and those of them
\* that the run has yet to be resumed at for the first time.
Held(i) == job[i] # "none" \/ \E w \in Workers : resumes[w] = i
Owed == {i \in Indices : i \notin resumed /\ Held(i)}
OwedBy(p) == {i \in Owed : i <= p}

Done(p) == IF p \in Positions THEN performed[p] ELSE 0
Places == 1 .. MaxActions + 2
Loads == \A p \in Places : Done(p) + Cardinality(Going(p)) + Cardinality(OwedBy(p)) <= 1 + repeats

\* Before its row is there the run has left no trace.
NotYetRun ==
    run = "none" /\ automation # "gone" =>
       /\ resumed = {} /\ \A p \in Positions : performed[p] = 0
       /\ \A w \in Workers : stage[w] \notin Active \cup {"resume"} /\ resumes[w] = NoJob
       /\ \A i \in Indices : job[i] = "none"

WorkerSound(w) ==
    /\ resumes[w] # 1
    /\ stage[w] \in {"idle", "match", "lookup", "create"} => resumes[w] = NoJob
    /\ stage[w] \in {"read", "resume"} => resumes[w] = next[w]
    /\ stage[w] \in Active => resumes[w] \in resumed \cup {NoJob}
WorkersSound == \A w \in Workers : WorkerSound(w)

\* While nothing was struck or repeated, one execution or one job has the run.
OneHand ==
    repeats = 0 /\ ~struck =>
       /\ run = "RUNNING" => Handled
       /\ run = "WAITING" => Handled \/ \E i \in Indices \ resumed : job[i] # "none"
       /\ Owed # {} => run \in {"WAITING", "none"}
       /\ \A w \in Workers :
            /\ stage[w] = "enqueue" => run \in {"WAITING", "none"}
            /\ stage[w] = "finish" /\ resumes[w] \notin resumed \cup {NoJob} => run = "none"

\* Resumptions go forward.
Forward ==
    repeats = 0 =>
       \A i \in resumed : /\ \A j \in Owed : i < j
                          /\ \A w \in Workers : stage[w] \in Active => i <= next[w]

RunSound == Loads /\ NotYetRun /\ WorkersSound /\ OneHand /\ Forward
AutomationInv == AutomationTypeOK /\ RunSound

-----------------------------------------------------------------------------
LEMMA AutomationGoTo ==
    ASSUME AutomationTypeOK, NEW w \in Workers, NEW s \in Steps, GoTo(w, s), s = "enqueue" => HasNext(w)
    PROVE  /\ stage' \in [Workers -> Steps \cup {"idle"}] /\ UNCHANGED <<steps, next, resumes>>
           /\ \A v \in Workers : stage'[v] = "enqueue" => HasNext(v)'
           /\ stage'[w] = s /\ \A v \in Workers \ {w} : stage'[v] = stage[v]
BY DEF AutomationTypeOK, GoTo, HasNext

LEMMA AutomationLeave ==
    ASSUME AutomationTypeOK, NEW w \in Workers, Leave(w)
    PROVE  /\ stage' \in [Workers -> Steps \cup {"idle"}]
           /\ steps' \in [Workers -> Lists \cup {<<>>}] /\ next' \in [Workers -> Indices]
           /\ resumes' \in [Workers -> Indices \cup {NoJob}]
           /\ \A v \in Workers : stage'[v] = "enqueue" => HasNext(v)'
           /\ stage'[w] = "idle" /\ resumes'[w] = NoJob
           /\ \A v \in Workers \ {w} : stage'[v] = stage[v] /\ next'[v] = next[v] /\ resumes'[v] = resumes[v]
<1>1. 1 \in Indices
  BY AutomationParameters DEF Indices
<1> QED
  BY <1>1 DEF AutomationTypeOK, Leave, HasNext

\* The row of the worker's job, which is not the first index.
LEMMA SetJobTyped ==
    ASSUME AutomationTypeOK, NEW w \in Workers, resumes[w] # 1, NEW st \in {"none", "due"}, SetJob(w, st)
    PROVE  /\ job' \in [Indices -> {"none", "due", "running"}] /\ job'[1] = "none"
           /\ \A i \in Indices : job'[i] = IF i = resumes[w] THEN st ELSE job[i]
<1>1. 1 \in Indices /\ NoJob \notin Indices
  BY AutomationParameters DEF Indices, NoJob
<1> QED
  BY <1>1 DEF AutomationTypeOK, SetJob

LEMMA AutomationMishap ==
    ASSUME AutomationTypeOK, Mishap \/ Smooth
    PROVE  mishaps' \in 0 .. MaxMishaps
BY AutomationParameters DEF AutomationTypeOK, Mishap, Smooth

\* Where an execution is in its list.
LEMMA HasNextTyped ==
    ASSUME AutomationTypeOK, NEW w \in Workers, HasNext(w)
    PROVE  next[w] \in Positions /\ next[w] + 1 \in Indices /\ next[w] + 1 # 1
<1>1. steps[w] \in Lists \cup {<<>>} /\ next[w] \in Indices
  BY DEF AutomationTypeOK
<1>2. Len(steps[w]) \in 0 .. MaxActions
  <2>1. CASE steps[w] \in Lists
    BY <2>1, AutomationParameters
  <2>2. CASE steps[w] = <<>>
    BY <2>2, AutomationParameters
  <2> QED
    BY <1>1, <2>1, <2>2
<1> QED
  BY <1>1, <1>2, AutomationParameters DEF HasNext, Indices, Positions

LEMMA EscapeTyped ==
    ASSUME AutomationTypeOK, NEW w \in Workers, resumes[w] # 1, Escape(w), UNCHANGED <<rows, edits>>
    PROVE  AutomationTypeOK'
<1>1. SetJob(w, "due") /\ Leave(w) /\ struck' \in BOOLEAN
  BY DEF Escape, Strike
<1> QED
  BY <1>1, AutomationLeave, SetJobTyped, AutomationMishap DEF Escape, AutomationTypeOK

LEMMA ExecuteTyped ==
    ASSUME AutomationTypeOK, WorkersSound, NEW w \in Workers,
           scanAndTriggerIdleConversations(w) \/ Execute(w) \/ Crash(w)
    PROVE  AutomationTypeOK'
<1>0. resumes[w] # 1 /\ list \in Lists \cup {<<>>} /\ 1 \in Indices
  BY AutomationParameters DEF WorkersSound, WorkerSound, AutomationTypeOK, Indices
<1>1. CASE scanAndTriggerIdleConversations(w)
  BY <1>1 DEF scanAndTriggerIdleConversations, FirstFree, AutomationTypeOK, Steps, HasNext
<1>2. CASE findActiveAutomationsByTrigger(w)
  <2>1. CASE automation = "on"
    BY <1>0, <1>2, <2>1 DEF findActiveAutomationsByTrigger, AutomationTypeOK, Steps, HasNext
  <2>2. CASE automation # "on"
    BY <1>2, <2>2, AutomationLeave DEF findActiveAutomationsByTrigger, AutomationTypeOK
  <2> QED
    BY <2>1, <2>2
<1>3. CASE findAutomationRunByDedupeKey(w)
  <2>1. CASE run = "none"
    BY <1>3, <2>1, AutomationGoTo DEF findAutomationRunByDedupeKey, AutomationTypeOK, Steps
  <2>2. CASE run # "none"
    BY <1>3, <2>2, AutomationLeave DEF findAutomationRunByDedupeKey, AutomationTypeOK
  <2> QED
    BY <2>1, <2>2
<1>4. CASE createAutomationRun(w)
  <2>1. CASE run = "none" /\ automation # "gone"
    BY <1>4, <2>1, AutomationGoTo DEF createAutomationRun, AutomationTypeOK, Steps, RunStates
  <2>2. CASE ~(run = "none" /\ automation # "gone")
    BY <1>4, <2>2, AutomationLeave DEF createAutomationRun, AutomationTypeOK
  <2> QED
    BY <2>1, <2>2
<1>5. CASE executeSingleAction(w)
  <2>1. next[w] \in Positions /\ next[w] + 1 \in Indices
    BY <1>5, HasNextTyped DEF executeSingleAction
  <2>2. performed' \in [Positions -> Nat]
    BY <1>5, <2>1 DEF executeSingleAction, Effect, AutomationTypeOK
  <2>3. CASE next' = [next EXCEPT ![w] = @ + 1] /\ UNCHANGED <<stage, steps, resumes>>
    <3>1. next' \in [Workers -> Indices] /\ \A v \in Workers : stage'[v] = "enqueue" => HasNext(v)'
      BY <1>5, <2>1, <2>3 DEF executeSingleAction, AutomationTypeOK, HasNext
    <3> QED
      BY <1>5, <2>2, <2>3, <3>1 DEF executeSingleAction, AutomationTypeOK
  <2>4. CASE GoTo(w, "catch")
    BY <1>5, <2>2, <2>4, AutomationGoTo DEF executeSingleAction, AutomationTypeOK, Steps
  <2> QED
    BY <1>5, <2>3, <2>4 DEF executeSingleAction
<1>6. CASE Wait(w)
  <2>1. PICK s \in Steps : GoTo(w, s)
    BY <1>6 DEF Wait, Steps
  <2>2. run' \in RunStates
    BY <1>6 DEF Wait, updateAutomationRun, AutomationTypeOK, RunStates
  <2> QED
    BY <1>6, <2>1, <2>2, AutomationGoTo DEF Wait, AutomationTypeOK
<1>7. CASE enqueueResume(w)
  <2>1. PICK i \in Indices \ {1} : i = next[w] + 1
    BY <1>7, HasNextTyped DEF enqueueResume, AutomationTypeOK
  <2>2. job' \in [Indices -> {"none", "due", "running"}] /\ job'[1] = "none"
    <3>1. UNCHANGED job \/ job' = [job EXCEPT ![i] = IF job[i] = "none" THEN "due" ELSE job[i]]
      BY <1>7, <2>1 DEF enqueueResume
    <3> QED
      BY <1>0, <3>1 DEF AutomationTypeOK
  <2>3. PICK s \in Steps \ {"enqueue"} : GoTo(w, s)
    BY <1>7 DEF enqueueResume, Steps
  <2> QED
    BY <1>7, <2>2, <2>3, AutomationGoTo DEF enqueueResume, AutomationTypeOK
<1>8. CASE recordFailure(w) \/ recordCompletion(w)
  <2>1. CASE Escape(w)
    BY <1>0, <1>8, <2>1, EscapeTyped DEF recordFailure, recordCompletion
  <2>2. ASSUME NEW st \in RunStates, updateAutomationRun(st), GoTo(w, "finish"), Smooth, UNCHANGED <<job, runHistory>>
        PROVE  AutomationTypeOK'
    <3>1. run' \in RunStates
      BY <2>2 DEF updateAutomationRun, AutomationTypeOK
    <3> QED
      BY <1>8, <2>2, <3>1, AutomationGoTo, AutomationMishap
      DEF recordFailure, recordCompletion, AutomationTypeOK, Steps
  <2> QED
    BY <1>8, <2>1, <2>2 DEF recordFailure, recordCompletion, RunStates
<1>9. CASE findAutomationRunById(w)
  <2>1. CASE run = "WAITING"
    BY <1>0, <1>9, <2>1 DEF findAutomationRunById, AutomationTypeOK, Steps, HasNext
  <2>2. CASE run # "WAITING"
    BY <1>9, <2>2, AutomationGoTo DEF findAutomationRunById, AutomationTypeOK, Steps
  <2> QED
    BY <2>1, <2>2
<1>10. CASE resumeAutomation(w)
  <2>1. CASE Escape(w)
    BY <1>0, <1>10, <2>1, EscapeTyped DEF resumeAutomation
  <2>2. CASE ~Escape(w)
    <3>1. run' \in RunStates /\ resumed' \subseteq Indices /\ repeats' \in Nat
      BY <1>10, <2>2 DEF resumeAutomation, updateAutomationRun, AutomationTypeOK, RunStates
    <3> QED
      BY <1>10, <2>2, <3>1, AutomationGoTo, AutomationMishap DEF resumeAutomation, AutomationTypeOK, Steps
  <2> QED
    BY <2>1, <2>2
<1>11. CASE FinishRun(w)
  <2>1. CASE Escape(w)
    BY <1>0, <1>11, <2>1, EscapeTyped DEF FinishRun
  <2>2. CASE SetJob(w, "none") /\ Leave(w) /\ Smooth /\ UNCHANGED <<run, runHistory>>
    BY <1>0, <1>11, <2>2, AutomationLeave, SetJobTyped, AutomationMishap DEF FinishRun, AutomationTypeOK
  <2> QED
    BY <1>11, <2>1, <2>2 DEF FinishRun
<1>12. CASE Crash(w)
  BY <1>12, AutomationLeave, AutomationMishap DEF Crash, Strike, AutomationTypeOK
<1> QED
  BY <1>1, <1>2, <1>3, <1>4, <1>5, <1>6, <1>7, <1>8, <1>9, <1>10, <1>11, <1>12
  DEF Execute, triggerAutomations, executeAutomationActions

LEMMA AutomationTypesStep == AutomationTypeOK /\ WorkersSound /\ [AutomationNext]_automationVars => AutomationTypeOK'
<1> SUFFICES ASSUME AutomationTypeOK, WorkersSound, [AutomationNext]_automationVars PROVE AutomationTypeOK'
  OBVIOUS
<1>1. ASSUME NEW w \in Workers, NEW p \in Indices, Claim(w, p) PROVE AutomationTypeOK'
  <2>1. p # 1
    BY <1>1 DEF Claim, AutomationTypeOK
  <2> QED
    BY <1>1, <2>1 DEF Claim, FirstFree, AutomationTypeOK, Steps, HasNext
<1>2. ASSUME NEW p \in Indices, ReclaimStalled(p) PROVE AutomationTypeOK'
  <2>1. p # 1 /\ mishaps' \in 0 .. MaxMishaps
    BY <1>2, AutomationMishap DEF ReclaimStalled, AutomationTypeOK
  <2> QED
    BY <1>2, <2>1 DEF ReclaimStalled, AutomationTypeOK, HasNext
<1>3. CASE toggleAutomation
  BY <1>3 DEF toggleAutomation, AutomationTypeOK, HasNext
<1>4. CASE deleteAutomation
  BY <1>4 DEF deleteAutomation, AutomationTypeOK, HasNext, RunStates
<1>5. ASSUME NEW l \in Lists, deleteActions(l) PROVE AutomationTypeOK'
  <2>1. edits' \in 0 .. MaxEdits
    BY <1>5, AutomationParameters DEF deleteActions, AutomationTypeOK
  <2> QED
    BY <1>5, <2>1 DEF deleteActions, AutomationTypeOK, HasNext
<1>6. CASE insertActions
  BY <1>6, AutomationMishap DEF insertActions, AutomationTypeOK, HasNext
<1>7. CASE UNCHANGED automationVars
  BY <1>7 DEF automationVars, AutomationTypeOK, HasNext
<1> QED
  BY <1>1, <1>2, <1>3, <1>4, <1>5, <1>6, <1>7, ExecuteTyped DEF AutomationNext

-----------------------------------------------------------------------------
(***************************************************************************)
(* Counting executions and owed resumptions.                               *)
(***************************************************************************)
LEMMA WorkersCounted ==
    ASSUME NEW S \in SUBSET Workers
    PROVE  IsFiniteSet(S) /\ Cardinality(S) \in Nat
<1>1. IsFiniteSet(Workers)
  BY AutomationParameters, FS_Interval DEF Workers
<1> QED
  BY <1>1, FS_Subset, FS_CardinalityType

LEMMA IndicesCounted ==
    ASSUME NEW S \in SUBSET Indices
    PROVE  IsFiniteSet(S) /\ Cardinality(S) \in Nat
<1>1. IsFiniteSet(Indices)
  BY AutomationParameters, FS_Interval DEF Indices
<1> QED
  BY <1>1, FS_Subset, FS_CardinalityType

LEMMA OneMore ==
    ASSUME NEW S, IsFiniteSet(S), NEW x
    PROVE  /\ IsFiniteSet(S \cup {x}) /\ Cardinality(S \cup {x}) \in Nat
           /\ Cardinality(S \cup {x}) <= Cardinality(S) + 1
<1>1. /\ IsFiniteSet(S \cup {x})
      /\ Cardinality(S \cup {x}) = IF x \in S THEN Cardinality(S) ELSE Cardinality(S) + 1
  BY FS_AddElement
<1>2. Cardinality(S) \in Nat
  BY FS_CardinalityType
<1> QED
  BY <1>1, <1>2

LEMMA LoadCounted ==
    ASSUME AutomationTypeOK, NEW p \in Places
    PROVE  /\ IsFiniteSet(Going(p)) /\ IsFiniteSet(OwedBy(p))
           /\ Cardinality(Going(p)) \in Nat /\ Cardinality(OwedBy(p)) \in Nat
           /\ Done(p) \in Nat /\ repeats \in Nat
<1>1. Going(p) \in SUBSET Workers /\ OwedBy(p) \in SUBSET Indices
  BY DEF Going, OwedBy, Owed
<1>2. Done(p) \in Nat /\ repeats \in Nat
  BY DEF Done, AutomationTypeOK
<1> QED
  BY <1>1, <1>2, WorkersCounted, IndicesCounted

\* Nothing more was done, and nothing more may be.
LEMMA LoadShrinks ==
    ASSUME AutomationTypeOK, Loads, NEW p \in Places, NEW d \in Nat, NEW G, NEW P,
           d <= Done(p), G \in SUBSET Going(p), P \in SUBSET OwedBy(p)
    PROVE  d + Cardinality(G) + Cardinality(P) <= 1 + repeats
<1>1. /\ Cardinality(G) <= Cardinality(Going(p)) /\ Cardinality(P) <= Cardinality(OwedBy(p))
      /\ Cardinality(G) \in Nat /\ Cardinality(P) \in Nat
  BY LoadCounted, FS_Subset, FS_CardinalityType
<1>2. Done(p) + Cardinality(Going(p)) + Cardinality(OwedBy(p)) <= 1 + repeats
  BY DEF Loads
<1> QED
  BY <1>1, <1>2, LoadCounted

\* Unless a resumption was repeated, a run has one execution or one job to come.
LEMMA OneChain ==
    ASSUME AutomationTypeOK, Loads, repeats = 0
    PROVE  /\ \A v, w \in Workers : stage[v] \in Active /\ stage[w] \in Active => v = w
           /\ \A w \in Workers, i \in Owed : stage[w] \notin Active
           /\ \A i, j \in Owed : i = j
<1>1. PICK p \in Places : p = MaxActions + 2
  BY AutomationParameters DEF Places
<1>2. p \notin Positions /\ \A i \in Indices : i < p
  BY <1>1, AutomationParameters DEF Positions, Indices
<1>3. /\ \A w \in Workers : stage[w] \in Active => w \in Going(p)
      /\ Owed \in SUBSET OwedBy(p)
  <2>1. p \in Int /\ \A i \in Indices : i \in Int /\ i <= p
    BY <1>2 DEF Indices, Places
  <2>2. \A w \in Workers : next[w] < p /\ next[w] <= p
    BY <1>2, <2>1 DEF AutomationTypeOK
  <2> QED
    BY <2>1, <2>2 DEF Active, Going, OwedBy, Owed
<1>4. Cardinality(Going(p)) + Cardinality(OwedBy(p)) <= 1
  BY <1>2, LoadCounted DEF Loads, Done
<1>5. ASSUME NEW S, IsFiniteSet(S), NEW x \in S PROVE Cardinality(S) >= 1
  BY <1>5, FS_EmptySet, FS_CardinalityType
<1>6. ASSUME NEW S, IsFiniteSet(S), NEW x \in S, NEW y \in S, x # y PROVE Cardinality(S) >= 2
  <2>1. Cardinality(S \ {x}) = Cardinality(S) - 1 /\ IsFiniteSet(S \ {x}) /\ y \in S \ {x}
    BY <1>6, FS_RemoveElement
  <2>2. Cardinality(S \ {x}) >= 1 /\ Cardinality(S) \in Nat
    BY <1>5, <1>6, <2>1, FS_CardinalityType
  <2> QED
    BY <2>1, <2>2
<1>7. \A v, w \in Workers : stage[v] \in Active /\ stage[w] \in Active => v = w
  <2> SUFFICES ASSUME NEW v \in Workers, NEW w \in Workers, stage[v] \in Active, stage[w] \in Active, v # w
               PROVE FALSE
    OBVIOUS
  <2>1. Cardinality(Going(p)) >= 2
    BY <1>3, <1>6, LoadCounted
  <2> QED
    BY <1>4, <2>1, LoadCounted
<1>8. \A w \in Workers, i \in Owed : stage[w] \notin Active
  <2> SUFFICES ASSUME NEW w \in Workers, NEW i \in Owed, stage[w] \in Active PROVE FALSE
    OBVIOUS
  <2>1. Cardinality(Going(p)) >= 1 /\ Cardinality(OwedBy(p)) >= 1
    BY <1>3, <1>5, LoadCounted
  <2> QED
    BY <1>4, <2>1, LoadCounted
<1>9. \A i, j \in Owed : i = j
  <2> SUFFICES ASSUME NEW i \in Owed, NEW j \in Owed, i # j PROVE FALSE
    OBVIOUS
  <2>1. Cardinality(OwedBy(p)) >= 2
    BY <1>3, <1>6, LoadCounted
  <2> QED
    BY <1>4, <2>1, LoadCounted
<1> QED
  BY <1>7, <1>8, <1>9

-----------------------------------------------------------------------------
(***************************************************************************)
(* Steps that neither perform an action nor take the run further.          *)
(***************************************************************************)

\* No execution begins to act, and no job comes to be held.
Calm ==
    /\ \A v \in Workers :
         /\ stage'[v] \in Active =>
              /\ next'[v] = next[v] /\ resumes'[v] = resumes[v]
              /\ \/ stage'[v] = stage[v]
                 \/ stage[v] \in {"act", "enqueue"} /\ stage'[v] \in {"enqueue", "catch"}
         /\ stage'[v] = "resume" => stage[v] \in {"read", "resume"}
    /\ \A i \in Indices : Held(i)' => Held(i)
    /\ UNCHANGED <<performed, resumed, repeats>>
    /\ run' = "none" /\ automation' # "gone" => run = "none" /\ automation # "gone"

LEMMA CalmKeeps ==
    ASSUME AutomationInv, AutomationTypeOK', Calm, WorkersSound', OneHand'
    PROVE  AutomationInv'
<1> USE DEF AutomationInv, RunSound
<1>1. PICK O : O = Owed'
  OBVIOUS
<1>2. O \in SUBSET Owed
  BY <1>1 DEF Calm, Owed
<1>3. Loads'
  <2> SUFFICES ASSUME NEW p \in Places
               PROVE  (Done(p) + Cardinality(Going(p)) + Cardinality(OwedBy(p)) <= 1 + repeats)'
    BY DEF Loads
  <2>1. PICK G, P, d : G = Going(p)' /\ P = OwedBy(p)' /\ d = Done(p)'
    OBVIOUS
  <2>2. G \in SUBSET Going(p)
    <3> SUFFICES ASSUME NEW w \in G PROVE w \in Going(p)
      OBVIOUS
    <3>1. /\ w \in Workers
          /\ \/ stage'[w] \in {"act", "enqueue"} /\ next'[w] <= p
             \/ stage'[w] = "catch" /\ next'[w] < p
      BY <2>1 DEF Going
    <3>2. next[w] \in Int /\ next'[w] = next[w] /\ p \in Int
      BY <3>1 DEF Calm, Active, AutomationTypeOK, Indices, Places
    <3>3. \/ stage'[w] = stage[w]
          \/ stage[w] \in {"act", "enqueue"} /\ stage'[w] \in {"enqueue", "catch"}
      BY <3>1 DEF Calm, Active
    <3> QED
      BY <3>1, <3>2, <3>3 DEF Going
  <2>3. P \in SUBSET OwedBy(p)
    BY <1>1, <1>2, <2>1 DEF OwedBy
  <2>4. d = Done(p) /\ d \in Nat
    BY <2>1, LoadCounted DEF Calm, Done
  <2>5. d + Cardinality(G) + Cardinality(P) <= 1 + repeats
    BY <2>2, <2>3, <2>4, LoadShrinks
  <2> QED
    BY <2>1, <2>5 DEF Calm
<1>4. NotYetRun'
  <2> SUFFICES ASSUME run' = "none", automation' # "gone"
               PROVE  /\ resumed' = {} /\ \A p \in Positions : performed'[p] = 0
                      /\ \A w \in Workers : stage'[w] \notin Active \cup {"resume"} /\ resumes'[w] = NoJob
                      /\ \A i \in Indices : job'[i] = "none"
    BY DEF NotYetRun
  <2>1. /\ resumed = {} /\ \A p \in Positions : performed[p] = 0
        /\ \A w \in Workers : stage[w] \notin Active \cup {"resume"} /\ resumes[w] = NoJob
        /\ \A i \in Indices : job[i] = "none"
    BY DEF Calm, NotYetRun
  <2>2. NoJob \notin Indices
    BY DEF NoJob, Indices
  <2>3. \A i \in Indices : ~Held(i)'
    BY <2>1, <2>2 DEF Calm, Held
  <2>4. \A i \in Indices : job'[i] = "none" /\ \A w \in Workers : resumes'[w] # i
    BY <2>3 DEF Held
  <2>5. \A w \in Workers : stage[w] # "read"
    BY <2>1, <2>2 DEF WorkersSound, WorkerSound, AutomationTypeOK
  <2>6. \A w \in Workers : resumes'[w] = NoJob
    BY <2>4 DEF AutomationTypeOK
  <2>7. \A w \in Workers : stage'[w] \notin Active \cup {"resume"}
    BY <2>1, <2>5 DEF Calm, Active
  <2> QED
    BY <2>1, <2>4, <2>6, <2>7 DEF Calm
<1>5. Forward'
  BY <1>1, <1>2 DEF Forward, Calm, Active
<1> QED
  BY <1>3, <1>4, <1>5

\* Executions that do not act come and go, and whoever acts stays.
LEMMA AsideKeepsOneHand ==
    ASSUME AutomationInv, UNCHANGED <<run, resumed, repeats>>, struck => struck',
           \A i \in Indices : Held(i)' => Held(i),
           \A v \in Workers : stage[v] \in Active => stage'[v] \in Active,
           \A v \in Workers : stage'[v] = "enqueue" => stage[v] = "enqueue",
           repeats = 0 /\ ~struck /\ run = "WAITING" =>
             \A i \in Indices : job[i] # "none" /\ i \notin resumed => job'[i] # "none",
           \A v \in Workers :
             repeats = 0 /\ ~struck /\ stage'[v] = "finish" /\ resumes'[v] \notin resumed \cup {NoJob} =>
                run = "none"
    PROVE  OneHand'
<1> USE DEF AutomationInv, RunSound
<1> SUFFICES ASSUME repeats' = 0, ~struck' PROVE
       /\ (run = "RUNNING" => Handled)'
       /\ (run = "WAITING" => Handled \/ \E i \in Indices \ resumed : job[i] # "none")'
       /\ (Owed # {} => run \in {"WAITING", "none"})'
       /\ \A w \in Workers :
            /\ stage'[w] = "enqueue" => run' \in {"WAITING", "none"}
            /\ stage'[w] = "finish" /\ resumes'[w] \notin resumed' \cup {NoJob} => run' = "none"
  BY DEF OneHand
<1>1. repeats = 0 /\ ~struck /\ resumed' = resumed
  OBVIOUS
<1>2. Handled => Handled'
  BY DEF Handled, Active
<1>3. PICK O : O = Owed'
  OBVIOUS
<1>4. O \in SUBSET Owed
  BY <1>3 DEF Owed
<1>5. (Owed # {} => run \in {"WAITING", "none"})'
  BY <1>1, <1>3, <1>4 DEF OneHand
<1> QED
  BY <1>1, <1>2, <1>5 DEF OneHand

\* A worker's step leaves the others where they are.
Others(w) == \A v \in Workers \ {w} :
                stage'[v] = stage[v] /\ next'[v] = next[v] /\ resumes'[v] = resumes[v]

LEMMA OthersSound ==
    ASSUME WorkersSound, NEW w \in Workers, Others(w), resumed \subseteq resumed', WorkerSound(w)'
    PROVE  WorkersSound'
BY DEF WorkersSound, WorkerSound, Others

\* An execution is over: it returns, throws or dies.
LEMMA LeaveKeeps ==
    ASSUME AutomationInv, AutomationTypeOK', NEW w \in Workers, Leave(w),
           UNCHANGED <<run, automation, performed, resumed, repeats>>,
           \A i \in Indices : job'[i] # "none" => job[i] # "none" \/ i = resumes[w],
           struck \/ stage[w] \in Active => struck',
           repeats = 0 /\ ~struck /\ run = "WAITING" =>
             \A i \in Indices : job[i] # "none" /\ i \notin resumed => job'[i] # "none"
    PROVE  AutomationInv'
<1> USE DEF AutomationInv, RunSound
<1>1. Others(w) /\ stage'[w] = "idle" /\ resumes'[w] = NoJob /\ NoJob \notin Indices
  BY AutomationLeave DEF Others, NoJob, Indices
<1>2. \A i \in Indices : Held(i)' => Held(i)
  BY <1>1 DEF Held, Others
<1>3. Calm
  BY <1>1, <1>2 DEF Calm, Active, Others
<1>4. WorkersSound'
  <2>1. WorkerSound(w)'
    BY <1>1 DEF WorkerSound, Active, NoJob
  <2> QED
    BY <1>1, <2>1, OthersSound
<1>5. OneHand'
  <2>1. CASE stage[w] \in Active
    BY <2>1 DEF OneHand
  <2>2. CASE stage[w] \notin Active
    <3>1. \A v \in Workers :
             /\ stage[v] \in Active => stage'[v] \in Active
             /\ stage'[v] = "enqueue" => stage[v] = "enqueue"
             /\ stage'[v] = "finish" => stage[v] = "finish" /\ resumes'[v] = resumes[v]
      BY <1>1, <2>2 DEF Others
    <3>2. \A v \in Workers :
             repeats = 0 /\ ~struck /\ stage'[v] = "finish" /\ resumes'[v] \notin resumed \cup {NoJob} =>
                run = "none"
      BY <3>1 DEF OneHand
    <3> QED
      BY <1>2, <3>1, <3>2, AsideKeepsOneHand
  <2> QED
    BY <2>1, <2>2
<1> QED
  BY <1>3, <1>4, <1>5, CalmKeeps

LEMMA EscapeKeeps ==
    ASSUME AutomationInv, AutomationTypeOK', NEW w \in Workers, Escape(w), UNCHANGED rows
    PROVE  AutomationInv'
<1>1. \A i \in Indices : job'[i] = IF i = resumes[w] THEN "due" ELSE job[i]
  BY SetJobTyped DEF Escape, AutomationInv, RunSound, WorkersSound, WorkerSound
<1> QED
  BY <1>1, LeaveKeeps DEF Escape, Strike, Active

\* A step of an execution that does not act, before and after it.
LEMMA AsideKeeps ==
    ASSUME AutomationInv, AutomationTypeOK', NEW w \in Workers, Others(w), stage[w] \notin Active,
           stage'[w] \notin Active, stage'[w] = "resume" => stage[w] = "read",
           UNCHANGED <<run, automation, performed, struck, resumed, repeats>>,
           \A i \in Indices : job[i] # "none" <=> job'[i] # "none",
           \A i \in Indices : resumes'[w] = i => Held(i),
           WorkerSound(w)',
           repeats = 0 /\ ~struck /\ stage'[w] = "finish" /\ resumes'[w] \notin resumed \cup {NoJob} =>
              run = "none"
    PROVE  AutomationInv'
<1> USE DEF AutomationInv, RunSound
<1>1. \A i \in Indices : Held(i)' => Held(i)
  BY DEF Held, Others
<1>2. Calm
  BY <1>1 DEF Calm, Active, Others
<1>3. \A v \in Workers : /\ stage[v] \in Active => stage'[v] \in Active
                         /\ stage'[v] = "enqueue" => stage[v] = "enqueue"
  BY DEF Others, Active
<1>4. \A v \in Workers :
         repeats = 0 /\ ~struck /\ stage'[v] = "finish" /\ resumes'[v] \notin resumed \cup {NoJob} =>
            run = "none"
  BY DEF OneHand, Others
<1>5. OneHand'
  BY <1>1, <1>3, <1>4, AsideKeepsOneHand
<1> QED
  BY <1>2, <1>5, OthersSound, CalmKeeps

LEMMA TriggerKeeps ==
    ASSUME AutomationInv, AutomationTypeOK', NEW w \in Workers,
           \/ scanAndTriggerIdleConversations(w) \/ findActiveAutomationsByTrigger(w)
           \/ findAutomationRunByDedupeKey(w)
    PROVE  AutomationInv'
<1> USE DEF AutomationInv, RunSound
<1>1. /\ stage[w] \in {"idle", "match", "lookup"} /\ resumes[w] = NoJob /\ NoJob # 1 /\ NoJob \notin Indices
      /\ UNCHANGED <<run, automation, job, performed, struck, resumed, repeats>>
  <2>1. stage[w] \in {"idle", "match", "lookup"}
    BY DEF scanAndTriggerIdleConversations, FirstFree, findActiveAutomationsByTrigger, findAutomationRunByDedupeKey
  <2> QED
    BY <2>1 DEF scanAndTriggerIdleConversations, findActiveAutomationsByTrigger,
      findAutomationRunByDedupeKey, WorkersSound, WorkerSound, NoJob, Indices
<1>2. CASE Leave(w)
  BY <1>1, <1>2, LeaveKeeps DEF Active
<1>3. CASE ~Leave(w)
  <2>1. /\ Others(w) /\ stage'[w] \in {"match", "lookup", "create"} /\ resumes' = resumes
    BY <1>3 DEF scanAndTriggerIdleConversations, findActiveAutomationsByTrigger,
      findAutomationRunByDedupeKey, GoTo, Others, AutomationTypeOK
  <2>2. WorkerSound(w)'
    BY <1>1, <2>1 DEF WorkerSound, Active
  <2> QED
    BY <1>1, <2>1, <2>2, AsideKeeps DEF Active
<1> QED
  BY <1>2, <1>3

LEMMA ClaimKeeps ==
    ASSUME AutomationInv, AutomationTypeOK', NEW w \in Workers, NEW p \in Indices, Claim(w, p)
    PROVE  AutomationInv'
<1> USE DEF AutomationInv, RunSound
<1>1. /\ stage[w] = "idle" /\ stage'[w] = "read" /\ next'[w] = p /\ resumes'[w] = p /\ Others(w)
      /\ job[p] = "due" /\ \A i \in Indices : job'[i] = IF i = p THEN "running" ELSE job[i]
      /\ UNCHANGED <<run, automation, performed, struck, resumed, repeats>>
  BY DEF Claim, FirstFree, AutomationTypeOK, Others
<1>2. p # 1
  BY <1>1 DEF AutomationTypeOK
<1>3. WorkerSound(w)'
  BY <1>1, <1>2 DEF WorkerSound, Active
<1> QED
  BY <1>1, <1>3, AsideKeeps DEF Active, Held

\* Only a run that was deleted is found in another state than WAITING while
\* it is still to be resumed at the index.
LEMMA FindRunKeeps ==
    ASSUME AutomationInv, AutomationTypeOK', NEW w \in Workers, findAutomationRunById(w)
    PROVE  AutomationInv'
<1> USE DEF AutomationInv, RunSound
<1>1. /\ stage[w] = "read" /\ Others(w) /\ resumes' = resumes /\ next' = next
      /\ stage'[w] = IF run = "WAITING" THEN "resume" ELSE "finish"
      /\ UNCHANGED <<run, automation, job, performed, struck, resumed, repeats>>
  BY DEF findAutomationRunById, GoTo, AutomationTypeOK, Others
<1>2. WorkerSound(w)'
  BY <1>1 DEF WorkersSound, WorkerSound, Active
<1>3. resumes[w] = next[w] /\ next[w] \in Indices
  BY <1>1 DEF WorkersSound, WorkerSound, AutomationTypeOK
<1>4. repeats = 0 /\ ~struck /\ stage'[w] = "finish" /\ resumes'[w] \notin resumed \cup {NoJob} =>
         run = "none"
  BY <1>1, <1>3 DEF OneHand, Owed, Held
<1> QED
  BY <1>1, <1>2, <1>4, AsideKeeps DEF Active, Held

LEMMA FinishRunKeeps ==
    ASSUME AutomationInv, AutomationTypeOK', NEW w \in Workers, FinishRun(w)
    PROVE  AutomationInv'
<1>1. CASE Escape(w)
  BY <1>1, EscapeKeeps DEF FinishRun
<1>2. CASE SetJob(w, "none") /\ Leave(w) /\ UNCHANGED <<run, runHistory>>
  <2>1. \A i \in Indices : job'[i] = IF i = resumes[w] THEN "none" ELSE job[i]
    BY <1>2, SetJobTyped DEF AutomationInv, RunSound, WorkersSound, WorkerSound
  <2>2. repeats = 0 /\ ~struck /\ run = "WAITING" => resumes[w] \in resumed \cup {NoJob}
    BY DEF FinishRun, AutomationInv, RunSound, OneHand
  <2>3. stage[w] = "finish" /\ UNCHANGED automation /\ NoJob \notin Indices
    BY DEF FinishRun, NoJob, Indices
  <2> QED
    BY <1>2, <2>1, <2>2, <2>3, LeaveKeeps DEF Active
<1> QED
  BY <1>1, <1>2 DEF FinishRun

LEMMA CrashKeeps ==
    ASSUME AutomationInv, AutomationTypeOK', NEW w \in Workers, Crash(w)
    PROVE  AutomationInv'
BY LeaveKeeps DEF Crash, Strike, Active

-----------------------------------------------------------------------------
(***************************************************************************)
(* Steps of the execution that has the run.                                *)
(***************************************************************************)

\* What was thrown is caught; nothing was performed.
LEMMA CatchKeeps ==
    ASSUME AutomationInv, AutomationTypeOK', NEW w \in Workers, stage[w] \in {"act", "enqueue"},
           GoTo(w, "catch"), UNCHANGED <<rows, run, job, runHistory>>
    PROVE  AutomationInv'
<1> USE DEF AutomationInv, RunSound
<1>1. Others(w) /\ stage'[w] = "catch" /\ UNCHANGED <<next, resumes>>
  BY DEF GoTo, Others, AutomationTypeOK
<1>2. \A i \in Indices : Held(i)' => Held(i)
  BY <1>1 DEF Held
<1>3. Calm
  BY <1>1, <1>2 DEF Calm, Active, Others
<1>4. WorkersSound'
  BY <1>1, OthersSound DEF WorkersSound, WorkerSound, Active
<1>5. \A v \in Workers : /\ stage[v] \in Active => stage'[v] \in Active
                         /\ stage'[v] = "enqueue" => stage[v] = "enqueue"
                         /\ stage'[v] = "finish" => stage[v] = "finish"
  BY <1>1 DEF Others, Active
<1>6. OneHand'
  <2>1. \A v \in Workers :
           repeats = 0 /\ ~struck /\ stage'[v] = "finish" /\ resumes'[v] \notin resumed \cup {NoJob} =>
              run = "none"
    BY <1>1, <1>5 DEF OneHand
  <2> QED
    BY <1>2, <1>5, <2>1, AsideKeepsOneHand
<1> QED
  BY <1>3, <1>4, <1>6, CalmKeeps

\* The status is written: the run waits, or ends.
LEMMA StatusKeeps ==
    ASSUME AutomationInv, AutomationTypeOK', NEW w \in Workers, stage[w] \in Active,
           NEW st \in {"WAITING", "COMPLETED", "FAILED"}, NEW s \in {"enqueue", "finish"},
           updateAutomationRun(st), GoTo(w, s), UNCHANGED <<rows, job, runHistory>>,
           st = "WAITING" <=> s = "enqueue", s = "enqueue" => stage[w] = "act"
    PROVE  AutomationInv'
<1> USE DEF AutomationInv, RunSound
<1>1. Others(w) /\ stage'[w] = s /\ UNCHANGED <<next, resumes>>
  BY DEF GoTo, Others, AutomationTypeOK
<1>2. \A i \in Indices : Held(i)' => Held(i)
  BY <1>1 DEF Held
<1>3. run' = (IF run = "none" THEN run ELSE st)
  BY DEF updateAutomationRun
<1>4. Calm
  BY <1>1, <1>2, <1>3 DEF Calm, Active, Others
<1>5. WorkersSound'
  BY <1>1, OthersSound DEF WorkersSound, WorkerSound, Active
<1>6. OneHand'
  <2> SUFFICES ASSUME repeats = 0, ~struck PROVE
         /\ (run = "RUNNING" => Handled)'
         /\ (run = "WAITING" => Handled \/ \E i \in Indices \ resumed : job[i] # "none")'
         /\ (Owed # {} => run \in {"WAITING", "none"})'
         /\ \A v \in Workers :
              /\ stage'[v] = "enqueue" => run' \in {"WAITING", "none"}
              /\ stage'[v] = "finish" /\ resumes'[v] \notin resumed' \cup {NoJob} => run' = "none"
    BY DEF OneHand
  <2>1. (run = "RUNNING" => Handled)'
    BY <1>3 DEF RunStates
  <2>2. (run = "WAITING" => Handled)'
    BY <1>1, <1>3 DEF Handled
  <2>3. \A i \in Indices : i \in Owed' => i \in Owed
    BY <1>2 DEF Owed
  <2>4. Owed' = {}
    BY <2>3, OneChain DEF Owed
  <2>5. ASSUME NEW v \in Workers
        PROVE  /\ stage'[v] = "enqueue" => run' \in {"WAITING", "none"}
               /\ stage'[v] = "finish" /\ resumes'[v] \notin resumed' \cup {NoJob} => run' = "none"
    <3>1. CASE v = w
      BY <1>1, <1>3, <3>1 DEF WorkersSound, WorkerSound
    <3>2. CASE v # w
      <4>1. stage[v] # "enqueue"
        BY <3>2, OneChain DEF Active
      <4> QED
        BY <1>1, <1>3, <3>2, <4>1 DEF Others, OneHand
    <3> QED
      BY <3>1, <3>2
  <2> QED
    BY <2>1, <2>2, <2>4, <2>5
<1> QED
  BY <1>4, <1>5, <1>6, CalmKeeps

LEMMA WaitKeeps ==
    ASSUME AutomationInv, AutomationTypeOK', NEW w \in Workers, Wait(w)
    PROVE  AutomationInv'
BY CatchKeeps, StatusKeeps DEF Wait, Active

LEMMA RecordKeeps ==
    ASSUME AutomationInv, AutomationTypeOK', NEW w \in Workers, recordFailure(w) \/ recordCompletion(w)
    PROVE  AutomationInv'
<1>1. CASE Escape(w)
  BY <1>1, EscapeKeeps DEF recordFailure, recordCompletion
<1>2. CASE ~Escape(w)
  BY <1>2, StatusKeeps DEF recordFailure, recordCompletion, Active
<1> QED
  BY <1>1, <1>2

\* The run's row is there: no trace of it was.
LEMMA CreateKeeps ==
    ASSUME AutomationInv, AutomationTypeOK', NEW w \in Workers, createAutomationRun(w)
    PROVE  AutomationInv'
<1> USE DEF AutomationInv, RunSound
<1>1. CASE ~(run = "none" /\ automation # "gone")
  BY <1>1, LeaveKeeps DEF createAutomationRun, Active
<1>2. CASE run = "none" /\ automation # "gone"
  <2>1. /\ stage[w] = "create" /\ stage'[w] = "act" /\ run' = "RUNNING" /\ Others(w)
        /\ UNCHANGED <<next, resumes, job, performed, struck, resumed, repeats>>
    BY <1>2 DEF createAutomationRun, GoTo, Others, AutomationTypeOK
  <2>2. /\ resumed = {} /\ \A p \in Positions : performed[p] = 0
        /\ \A v \in Workers : stage[v] \notin Active \cup {"resume"} /\ resumes[v] = NoJob
        /\ \A i \in Indices : job[i] = "none"
    BY <1>2 DEF NotYetRun
  <2>3. \A i \in Indices : ~Held(i)'
    BY <2>1, <2>2 DEF Held, Indices, NoJob
  <2>4. Owed' = {}
    BY <2>3 DEF Owed
  <2>5. WorkersSound'
    BY <2>1, <2>2, OthersSound DEF WorkersSound, WorkerSound, Active
  <2>6. Loads'
    <3> SUFFICES ASSUME NEW p \in Places
                 PROVE  (Done(p) + Cardinality(Going(p)) + Cardinality(OwedBy(p)) <= 1 + repeats)'
      BY DEF Loads
    <3>1. PICK G : G = Going(p)'
      OBVIOUS
    <3>2. G \in SUBSET {w}
      BY <2>1, <2>2, <3>1 DEF Going, Others, Active
    <3>3. Cardinality(G) <= 1 /\ Cardinality(G) \in Nat
      <4>1. G = {} \/ G = {w}
        BY <3>2
      <4> QED
        BY <4>1, FS_Singleton, FS_EmptySet
    <3>4. Cardinality(OwedBy(p))' = 0
      <4>1. OwedBy(p)' = {}
        BY <2>4 DEF OwedBy
      <4> QED
        BY <4>1, FS_EmptySet
    <3>5. Done(p)' = 0 /\ repeats' \in Nat /\ Cardinality(Going(p))' = Cardinality(G)
      BY <2>1, <2>2, <3>1 DEF Done, AutomationTypeOK
    <3> QED
      BY <3>3, <3>4, <3>5
  <2>7. NotYetRun'
    BY <2>1 DEF NotYetRun
  <2>8. OneHand'
    <3>1. \A v \in Workers : stage'[v] # "enqueue" /\ resumes'[v] = NoJob
      BY <2>1, <2>2 DEF Others, Active
    <3> QED
      BY <2>1, <2>4, <3>1 DEF OneHand, Handled
  <2>9. Forward'
    BY <2>1, <2>2 DEF Forward
  <2> QED
    BY <2>5, <2>6, <2>7, <2>8, <2>9
<1> QED
  BY <1>1, <1>2

\* An action has its effect: the execution goes on past it, or fails.
LEMMA PerformKeeps ==
    ASSUME AutomationInv, AutomationTypeOK', NEW w \in Workers, executeSingleAction(w)
    PROVE  AutomationInv'
<1> USE DEF AutomationInv, RunSound
<1>1. CASE GoTo(w, "catch") /\ UNCHANGED performed
  BY <1>1, CatchKeeps DEF executeSingleAction
<1>2. CASE Effect(w)
  <2>1. PICK n \in Positions : n = next[w] /\ n \in Int
    BY HasNextTyped DEF executeSingleAction, Positions
  <2>2. /\ stage[w] = "act" /\ resumes' = resumes
        /\ \/ stage'[w] = "act" /\ next'[w] = n + 1
           \/ stage'[w] = "catch" /\ next'[w] = n
        /\ \A v \in Workers \ {w} : stage'[v] = stage[v] /\ next'[v] = next[v]
        /\ UNCHANGED <<run, automation, job, struck, resumed, repeats>>
    BY <1>2, <2>1 DEF executeSingleAction, GoTo, AutomationTypeOK
  <2>3. \A p \in Positions : performed'[p] = IF p = n THEN performed[p] + 1 ELSE performed[p]
    BY <1>2, <2>1 DEF Effect, AutomationTypeOK
  <2>4. \A i \in Indices : Held(i)' => Held(i)
    BY <2>2 DEF Held
  <2>5. WorkersSound'
    BY <2>2, OthersSound DEF Others, WorkersSound, WorkerSound, Active
  <2>6. Loads'
    <3> SUFFICES ASSUME NEW p \in Places
                 PROVE  (Done(p) + Cardinality(Going(p)) + Cardinality(OwedBy(p)) <= 1 + repeats)'
      BY DEF Loads
    <3>1. PICK G, P : G = Going(p)' /\ P = OwedBy(p)'
      OBVIOUS
    <3>2. P \in SUBSET OwedBy(p)
      BY <2>2, <2>4, <3>1 DEF OwedBy, Owed
    <3>3. p \in Int /\ Done(p) \in Nat /\ repeats \in Nat
      BY LoadCounted DEF Places
    <3>4. G \in SUBSET Going(p)
      <4> SUFFICES ASSUME NEW v \in G PROVE v \in Going(p)
        OBVIOUS
      <4>1. CASE v = w
        BY <2>1, <2>2, <3>1, <3>3, <4>1 DEF Going
      <4>2. CASE v # w
        BY <2>2, <3>1, <4>2 DEF Going
      <4> QED
        BY <4>1, <4>2
    <3>5. CASE p # n
      <4>1. Done(p)' = Done(p)
        BY <2>3, <3>5 DEF Done
      <4> QED
        BY <2>2, <3>1, <3>2, <3>3, <3>4, <4>1, LoadShrinks
    <3>6. CASE p = n
      <4>1. Done(p)' = Done(p) + 1
        BY <2>3, <3>6 DEF Done
      <4>2. w \in Going(p) /\ w \notin G
        BY <2>1, <2>2, <3>1, <3>3, <3>6 DEF Going
      <4>3. G \in SUBSET (Going(p) \ {w})
        BY <3>4, <4>2
      <4>4. /\ Cardinality(Going(p) \ {w}) = Cardinality(Going(p)) - 1 /\ IsFiniteSet(Going(p) \ {w})
            /\ Cardinality(G) <= Cardinality(Going(p) \ {w}) /\ Cardinality(G) \in Nat
        BY <4>2, <4>3, LoadCounted, FS_RemoveElement, FS_Subset, FS_CardinalityType
      <4>5. Cardinality(P) <= Cardinality(OwedBy(p)) /\ Cardinality(P) \in Nat
        BY <3>2, LoadCounted, FS_Subset, FS_CardinalityType
      <4>6. Done(p) + Cardinality(Going(p)) + Cardinality(OwedBy(p)) <= 1 + repeats
        BY DEF Loads
      <4>7. Done(p)' + Cardinality(G) + Cardinality(P) <= 1 + repeats
        BY <3>3, <4>1, <4>4, <4>5, <4>6, LoadCounted
      <4> QED
        BY <2>2, <3>1, <4>7
    <3> QED
      BY <3>5, <3>6
  <2>7. NotYetRun'
    BY <2>2 DEF NotYetRun, Active
  <2>8. OneHand'
    <3>1. \A v \in Workers : /\ stage[v] \in Active => stage'[v] \in Active
                             /\ stage'[v] = "enqueue" => stage[v] = "enqueue"
                             /\ stage'[v] = "finish" => stage[v] = "finish"
      BY <2>2 DEF Active
    <3>2. \A v \in Workers :
             repeats = 0 /\ ~struck /\ stage'[v] = "finish" /\ resumes'[v] \notin resumed \cup {NoJob} =>
                run = "none"
      BY <2>2, <3>1 DEF OneHand
    <3> QED
      BY <2>2, <2>4, <3>1, <3>2, AsideKeepsOneHand
  <2>9. Forward'
    <3> SUFFICES ASSUME repeats = 0, NEW i \in resumed
                 PROVE  /\ \A j \in Owed' : i < j
                        /\ \A v \in Workers : stage'[v] \in Active => i <= next'[v]
      BY <2>2 DEF Forward
    <3>1. \A j \in Owed' : i < j
      BY <2>2, <2>4 DEF Forward, Owed
    <3>2. i <= n /\ i \in Int
      BY <2>1, <2>2 DEF Forward, Active, AutomationTypeOK, Indices
    <3>3. ASSUME NEW v \in Workers, stage'[v] \in Active PROVE i <= next'[v]
      <4>1. CASE v = w
        BY <2>1, <2>2, <3>2, <4>1
      <4>2. CASE v # w
        BY <2>2, <3>3, <4>2 DEF Forward
      <4> QED
        BY <4>1, <4>2
    <3> QED
      BY <3>1, <3>3
  <2> QED
    BY <2>5, <2>6, <2>7, <2>8, <2>9
<1> QED
  BY <1>1, <1>2 DEF executeSingleAction

\* The execution hands the run over to a job for the index after its own.
LEMMA EnqueueResumeKeeps ==
    ASSUME AutomationInv, AutomationTypeOK', NEW w \in Workers, enqueueResume(w)
    PROVE  AutomationInv'
<1> USE DEF AutomationInv, RunSound
<1>1. CASE GoTo(w, "catch") /\ UNCHANGED job
  BY <1>1, CatchKeeps DEF enqueueResume
<1>2. CASE GoTo(w, "finish") /\ job' = [job EXCEPT ![next[w] + 1] = IF @ = "none" THEN "due" ELSE @]
  <2>1. PICK k \in Indices : k = next[w] + 1 /\ k \in Int /\ next[w] \in Int
    BY HasNextTyped DEF enqueueResume, AutomationTypeOK, Indices
  <2>2. /\ stage[w] = "enqueue" /\ stage'[w] = "finish" /\ Others(w)
        /\ UNCHANGED <<run, automation, next, resumes, performed, struck, resumed, repeats>>
    BY <1>2 DEF enqueueResume, GoTo, Others, AutomationTypeOK
  <2>3. /\ \A i \in Indices \ {k} : job'[i] = job[i]
        /\ job'[k] # "none"
    BY <1>2, <2>1 DEF AutomationTypeOK
  <2>4. \A i \in Indices : Held(i)' => Held(i) \/ i = k
    BY <2>2, <2>3 DEF Held
  <2>5. WorkersSound'
    BY <2>2, OthersSound DEF WorkersSound, WorkerSound, Active
  <2>6. Loads'
    <3> SUFFICES ASSUME NEW p \in Places
                 PROVE  (Done(p) + Cardinality(Going(p)) + Cardinality(OwedBy(p)) <= 1 + repeats)'
      BY DEF Loads
    <3>1. PICK G, P : G = Going(p)' /\ P = OwedBy(p)'
      OBVIOUS
    <3>2. p \in Int /\ Done(p) \in Nat /\ repeats \in Nat
      BY LoadCounted DEF Places
    <3>3. G \in SUBSET (Going(p) \ {w})
      BY <2>2, <3>1 DEF Going, Others
    <3>4. Done(p)' = Done(p)
      BY <2>2 DEF Done
    <3>5. CASE k > p
      <4>1. P \in SUBSET OwedBy(p)
        <5>1. \A i \in P : i \in Indices /\ i <= p /\ i \notin resumed /\ Held(i)'
          BY <2>2, <3>1 DEF OwedBy, Owed
        <5>2. \A i \in P : i # k
          BY <2>1, <3>2, <3>5, <5>1
        <5> QED
          BY <2>4, <5>1, <5>2 DEF OwedBy, Owed
      <4> QED
        BY <2>2, <3>1, <3>2, <3>3, <3>4, <4>1, LoadShrinks
    <3>6. CASE k <= p
      <4>1. P \in SUBSET (OwedBy(p) \cup {k})
        BY <2>2, <2>4, <3>1 DEF OwedBy, Owed
      <4>2. w \in Going(p)
        BY <2>1, <2>2, <3>2, <3>6 DEF Going
      <4>3. /\ Cardinality(Going(p) \ {w}) = Cardinality(Going(p)) - 1 /\ IsFiniteSet(Going(p) \ {w})
            /\ Cardinality(G) <= Cardinality(Going(p) \ {w}) /\ Cardinality(G) \in Nat
        BY <3>3, <4>2, LoadCounted, FS_RemoveElement, FS_Subset, FS_CardinalityType
      <4>4. /\ Cardinality(OwedBy(p) \cup {k}) <= Cardinality(OwedBy(p)) + 1
            /\ IsFiniteSet(OwedBy(p) \cup {k}) /\ Cardinality(OwedBy(p) \cup {k}) \in Nat
        BY LoadCounted, OneMore
      <4>5. Cardinality(P) <= Cardinality(OwedBy(p) \cup {k}) /\ Cardinality(P) \in Nat
        BY <4>1, <4>4, FS_Subset, FS_CardinalityType
      <4>6. Done(p) + Cardinality(Going(p)) + Cardinality(OwedBy(p)) <= 1 + repeats
        BY DEF Loads
      <4>7. Done(p)' + Cardinality(G) + Cardinality(P) <= 1 + repeats
        BY <3>2, <3>4, <4>3, <4>4, <4>5, <4>6, LoadCounted
      <4> QED
        BY <2>2, <3>1, <4>7
    <3> QED
      BY <2>1, <3>2, <3>5, <3>6
  <2>7. NotYetRun'
    BY <2>2 DEF NotYetRun, Active
  <2>8. repeats = 0 => k \notin resumed /\ \A i \in resumed : i < k
    BY <2>1, <2>2 DEF Forward, Active, AutomationTypeOK, Indices
  <2>9. OneHand'
    <3> SUFFICES ASSUME repeats = 0, ~struck PROVE
           /\ (run = "RUNNING" => Handled)'
           /\ (run = "WAITING" => Handled \/ \E i \in Indices \ resumed : job[i] # "none")'
           /\ (Owed # {} => run \in {"WAITING", "none"})'
           /\ \A v \in Workers :
                /\ stage'[v] = "enqueue" => run' \in {"WAITING", "none"}
                /\ stage'[v] = "finish" /\ resumes'[v] \notin resumed' \cup {NoJob} => run' = "none"
      BY <2>2 DEF OneHand
    <3>1. run \in {"WAITING", "none"} /\ run' = run
      BY <2>2 DEF OneHand
    <3>2. (run = "WAITING" => Handled \/ \E i \in Indices \ resumed : job[i] # "none")'
      BY <2>2, <2>3, <2>8
    <3>3. ASSUME NEW v \in Workers, stage'[v] = "finish", resumes'[v] \notin resumed' \cup {NoJob}
          PROVE  run' = "none"
      <4>1. CASE v = w
        BY <2>2, <3>3, <4>1 DEF WorkersSound, WorkerSound, Active
      <4>2. CASE v # w
        BY <2>2, <3>3, <4>2 DEF OneHand, Others
      <4> QED
        BY <4>1, <4>2
    <3> QED
      BY <3>1, <3>2, <3>3
  <2>10. Forward'
    <3> SUFFICES ASSUME repeats = 0, NEW i \in resumed
                 PROVE  /\ \A j \in Owed' : i < j
                        /\ \A v \in Workers : stage'[v] \in Active => i <= next'[v]
      BY <2>2 DEF Forward
    <3>1. \A j \in Owed' : j \in Owed \/ j = k
      BY <2>2, <2>4 DEF Owed
    <3>2. \A j \in Owed' : i < j
      BY <2>8, <3>1 DEF Forward
    <3>3. \A v \in Workers : stage'[v] \in Active => i <= next'[v]
      BY <2>2 DEF Forward, Others, Active
    <3> QED
      BY <3>2, <3>3
  <2> QED
    BY <2>5, <2>6, <2>7, <2>9, <2>10
<1> QED
  BY <1>1, <1>2 DEF enqueueResume

\* The run is taken up at an index: for the first time, or it is a repetition.
LEMMA ResumeKeeps ==
    ASSUME AutomationInv, AutomationTypeOK', NEW w \in Workers, resumeAutomation(w)
    PROVE  AutomationInv'
<1> USE DEF AutomationInv, RunSound
<1>1. CASE Escape(w)
  BY <1>1, EscapeKeeps DEF resumeAutomation
<1>2. CASE ~Escape(w)
  <2>1. PICK k \in Indices : k = next[w] /\ k = resumes[w] /\ k \in Int
    BY DEF resumeAutomation, WorkersSound, WorkerSound, AutomationTypeOK, Indices
  <2>2. /\ stage[w] = "resume" /\ stage'[w] = "act" /\ Others(w)
        /\ UNCHANGED <<automation, job, next, resumes, performed, struck>>
        /\ run' = (IF run = "none" THEN run ELSE "RUNNING")
        /\ resumed' = resumed \cup {k}
        /\ repeats' = IF k \in resumed THEN repeats + 1 ELSE repeats
    BY <1>2, <2>1 DEF resumeAutomation, updateAutomationRun, GoTo, Others, AutomationTypeOK
  <2>3. \A i \in Indices : Held(i)' <=> Held(i)
    BY <2>2 DEF Held
  <2>4. Held(k)
    BY <2>1 DEF Held
  <2>5. WorkersSound'
    BY <2>1, <2>2, OthersSound DEF WorkersSound, WorkerSound, Active
  <2>6. repeats \in Nat /\ (repeats' = 0 => repeats = 0 /\ k \in Owed)
    BY <2>2, <2>4 DEF Owed, AutomationTypeOK
  <2>7. Loads'
    <3> SUFFICES ASSUME NEW p \in Places
                 PROVE  (Done(p) + Cardinality(Going(p)) + Cardinality(OwedBy(p)) <= 1 + repeats)'
      BY DEF Loads
    <3>1. PICK G, P : G = Going(p)' /\ P = OwedBy(p)'
      OBVIOUS
    <3>2. p \in Int /\ Done(p) \in Nat
      BY LoadCounted DEF Places
    <3>3. P \in SUBSET (OwedBy(p) \ {k})
      BY <2>2, <2>3, <3>1 DEF OwedBy, Owed
    <3>4. Done(p)' = Done(p)
      BY <2>2 DEF Done
    <3>5. CASE k > p
      <4>1. G \in SUBSET Going(p)
        <5>1. w \notin G
          <6>1. stage'[w] = "act" /\ next'[w] = k
            BY <2>1, <2>2
          <6>2. ~(k <= p)
            BY <2>1, <3>2, <3>5
          <6> QED
            BY <3>1, <6>1, <6>2 DEF Going
        <5> QED
          BY <2>2, <3>1, <5>1 DEF Going, Others
      <4>2. Done(p) + Cardinality(G) + Cardinality(P) <= 1 + repeats
        BY <3>2, <3>3, <4>1, LoadShrinks
      <4>3. Cardinality(G) \in Nat /\ Cardinality(P) \in Nat
        BY <3>3, <4>1, LoadCounted, FS_Subset, FS_CardinalityType
      <4> QED
        BY <2>2, <2>6, <3>1, <3>2, <3>4, <4>2, <4>3
    <3>6. CASE k <= p
      <4>1. G \in SUBSET (Going(p) \cup {w})
        BY <2>2, <3>1 DEF Going, Others
      <4>2. /\ Cardinality(Going(p) \cup {w}) <= Cardinality(Going(p)) + 1
            /\ IsFiniteSet(Going(p) \cup {w}) /\ Cardinality(Going(p) \cup {w}) \in Nat
        BY LoadCounted, OneMore
      <4>3. Cardinality(G) <= Cardinality(Going(p)) + 1 /\ Cardinality(G) \in Nat
        BY <4>1, <4>2, LoadCounted, FS_Subset, FS_CardinalityType
      <4>4. Cardinality(OwedBy(p) \ {k}) <= Cardinality(OwedBy(p)) /\ IsFiniteSet(OwedBy(p) \ {k})
            /\ Cardinality(OwedBy(p) \ {k}) \in Nat
        BY LoadCounted, FS_Subset, FS_CardinalityType
      <4>5. Cardinality(P) <= Cardinality(OwedBy(p) \ {k}) /\ Cardinality(P) \in Nat
        BY <3>3, <4>4, FS_Subset, FS_CardinalityType
      <4>6. Done(p) + Cardinality(Going(p)) + Cardinality(OwedBy(p)) <= 1 + repeats
        BY DEF Loads
      <4>7. CASE k \in resumed
        BY <2>2, <2>6, <3>1, <3>2, <3>4, <4>3, <4>4, <4>5, <4>6, <4>7, LoadCounted
      <4>8. CASE k \notin resumed
        <5>1. k \in OwedBy(p)
          BY <2>4, <3>6, <4>8 DEF OwedBy, Owed
        <5>2. Cardinality(OwedBy(p) \ {k}) = Cardinality(OwedBy(p)) - 1
          BY <5>1, LoadCounted, FS_RemoveElement
        <5> QED
          BY <2>2, <2>6, <3>1, <3>2, <3>4, <4>3, <4>4, <4>5, <4>6, <4>8, <5>2, LoadCounted
      <4> QED
        BY <4>7, <4>8
    <3> QED
      BY <2>1, <3>2, <3>5, <3>6
  <2>8. NotYetRun'
    BY <2>2 DEF NotYetRun
  <2>9. repeats' = 0 => /\ \A i \in Indices : ~(i \in Owed')
                        /\ \A v \in Workers : stage'[v] \in Active => v = w
    <3>1. \A i \in Indices : i \in Owed' => i \in Owed /\ i # k
      BY <2>2, <2>3 DEF Owed
    <3>2. repeats' = 0 => \A v \in Workers \ {w} : stage'[v] \notin Active
      BY <2>2, <2>6, OneChain DEF Others
    <3> QED
      BY <2>6, <3>1, <3>2, OneChain
  <2>10. OneHand'
    <3> SUFFICES ASSUME repeats' = 0, ~struck PROVE
           /\ (run = "RUNNING" => Handled)'
           /\ (run = "WAITING" => Handled \/ \E i \in Indices \ resumed : job[i] # "none")'
           /\ (Owed # {} => run \in {"WAITING", "none"})'
           /\ \A v \in Workers :
                /\ stage'[v] = "enqueue" => run' \in {"WAITING", "none"}
                /\ stage'[v] = "finish" /\ resumes'[v] \notin resumed' \cup {NoJob} => run' = "none"
      BY <2>2 DEF OneHand
    <3>1. Handled'
      BY <2>2 DEF Handled
    <3>2. (Owed # {} => run \in {"WAITING", "none"})'
      BY <2>9 DEF Owed
    <3>3. \A v \in Workers : stage'[v] # "enqueue"
      BY <2>2, <2>9 DEF Active
    <3>4. ASSUME NEW v \in Workers, stage'[v] = "finish", resumes'[v] \notin resumed' \cup {NoJob}
          PROVE  run' = "none"
      BY <2>2, <2>6, <3>4 DEF OneHand, Others
    <3> QED
      BY <3>1, <3>2, <3>3, <3>4
  <2>11. Forward'
    <3> SUFFICES ASSUME repeats' = 0, NEW i \in resumed'
                 PROVE  /\ \A j \in Owed' : i < j
                        /\ \A v \in Workers : stage'[v] \in Active => i <= next'[v]
      BY DEF Forward
    <3>1. \A j \in Owed' : i < j
      BY <2>9 DEF Owed
    <3>2. i <= k
      <4>1. CASE i \in resumed
        BY <2>1, <2>6, <4>1 DEF Forward, AutomationTypeOK, Indices
      <4>2. CASE i = k
        BY <2>1, <4>2
      <4> QED
        BY <2>2, <4>1, <4>2
    <3> QED
      BY <2>1, <2>2, <2>9, <3>1, <3>2
  <2> QED
    BY <2>5, <2>7, <2>8, <2>10, <2>11
<1> QED
  BY <1>1, <1>2

-----------------------------------------------------------------------------
(***************************************************************************)
(* The sweep, and the people who manage the automation.                    *)
(***************************************************************************)
LEMMA AroundKeeps ==
    ASSUME AutomationInv, AutomationTypeOK',
           \/ \E p \in Indices : ReclaimStalled(p)
           \/ toggleAutomation \/ deleteAutomation
           \/ \E l \in Lists : deleteActions(l)
           \/ insertActions
           \/ UNCHANGED automationVars
    PROVE  AutomationInv'
<1> USE DEF AutomationInv, RunSound
<1> DEFINE Apart == /\ UNCHANGED <<stage, next, resumes, performed, struck, resumed, repeats>>
                    /\ run' = run \/ (run' = "none" /\ automation' = "gone")
                    /\ automation' = "gone" \/ automation # "gone"
                    /\ \A i \in Indices : job[i] # "none" <=> job'[i] # "none"
<1>1. Apart
  <2>1. ASSUME NEW p \in Indices, ReclaimStalled(p) PROVE Apart
    BY <2>1 DEF ReclaimStalled, AutomationTypeOK
  <2>2. CASE toggleAutomation \/ deleteAutomation \/ insertActions
    BY <2>2 DEF toggleAutomation, deleteAutomation, insertActions
  <2>3. ASSUME NEW l \in Lists, deleteActions(l) PROVE Apart
    BY <2>3 DEF deleteActions
  <2>4. CASE UNCHANGED automationVars
    BY <2>4 DEF automationVars
  <2> QED
    BY <2>1, <2>2, <2>3, <2>4
<1>2. \A i \in Indices : Held(i)' <=> Held(i)
  BY <1>1 DEF Held
<1>3. Calm
  BY <1>1, <1>2 DEF Calm
<1>4. WorkersSound'
  BY <1>1 DEF WorkersSound, WorkerSound
<1>5. OneHand'
  <2>1. CASE run' = run
    <3>1. \A v \in Workers :
             repeats = 0 /\ ~struck /\ stage'[v] = "finish" /\ resumes'[v] \notin resumed \cup {NoJob} =>
                run = "none"
      BY <1>1 DEF OneHand
    <3> QED
      BY <1>1, <1>2, <2>1, <3>1, AsideKeepsOneHand
  <2>2. CASE run' = "none"
    BY <2>2 DEF OneHand
  <2> QED
    BY <1>1, <2>1, <2>2
<1> QED
  BY <1>3, <1>4, <1>5, CalmKeeps

-----------------------------------------------------------------------------
LEMMA AutomationInvInit == AutomationInit => AutomationInv
<1> SUFFICES ASSUME AutomationInit PROVE AutomationInv
  OBVIOUS
<1>1. 1 \in Indices /\ NoJob \notin Indices
  BY AutomationParameters DEF Indices, NoJob
<1> USE DEF AutomationInit
<1>2. AutomationTypeOK
  <2>1. /\ stage \in [Workers -> Steps \cup {"idle"}] /\ next \in [Workers -> Indices]
        /\ steps \in [Workers -> Lists \cup {<<>>}] /\ resumes \in [Workers -> Indices \cup {NoJob}]
        /\ performed \in [Positions -> Nat] /\ \A w \in Workers : stage[w] # "enqueue"
    BY <1>1
  <2>2. job \in [Indices -> {"none", "due", "running"}] /\ job[1] = "none"
    BY <1>1
  <2>3. edits \in 0 .. MaxEdits /\ mishaps \in 0 .. MaxMishaps
    BY AutomationParameters
  <2>4. /\ automation \in {"on", "off", "gone"} /\ run \in RunStates
        /\ list \in Lists \cup {<<>>} /\ draft \in Lists \cup {None}
        /\ planned \in Lists \cup {<<>>} /\ touched \in BOOLEAN /\ struck \in BOOLEAN
        /\ resumed \subseteq Indices /\ repeats \in Nat
    BY DEF RunStates
  <2> QED
    BY <2>1, <2>2, <2>3, <2>4 DEF AutomationTypeOK
<1>3. Owed = {} /\ \A p \in Places : Going(p) = {} /\ OwedBy(p) = {}
  BY <1>1 DEF Owed, Held, Going, OwedBy
<1>4. Loads
  <2>1. \A p \in Places : Cardinality(Going(p)) = 0 /\ Cardinality(OwedBy(p)) = 0 /\ Done(p) = 0
    BY <1>3, FS_EmptySet DEF Done
  <2> QED
    BY <2>1 DEF Loads
<1>5. NotYetRun /\ WorkersSound /\ Forward
  BY <1>1, <1>3 DEF NotYetRun, WorkersSound, WorkerSound, Forward, Active, NoJob
<1>6. OneHand
  BY <1>3 DEF OneHand
<1> QED
  BY <1>2, <1>4, <1>5, <1>6 DEF AutomationInv, RunSound

LEMMA AutomationInvStep == AutomationInv /\ [AutomationNext]_automationVars => AutomationInv'
<1> SUFFICES ASSUME AutomationInv, [AutomationNext]_automationVars PROVE AutomationInv'
  OBVIOUS
<1>1. AutomationTypeOK'
  BY AutomationTypesStep DEF AutomationInv, RunSound
<1>2. ASSUME NEW w \in Workers, scanAndTriggerIdleConversations(w) \/ Execute(w) \/ Crash(w)
      PROVE  AutomationInv'
  BY <1>1, <1>2, TriggerKeeps, CreateKeeps, PerformKeeps, WaitKeeps, EnqueueResumeKeeps, RecordKeeps,
    FindRunKeeps, ResumeKeeps, FinishRunKeeps, CrashKeeps
  DEF Execute, triggerAutomations, executeAutomationActions
<1> QED
  BY <1>1, <1>2, ClaimKeeps, AroundKeeps DEF AutomationNext

LEMMA AutomationInvHolds == AutomationSpec => []AutomationInv
BY AutomationInvInit, AutomationInvStep, PTL DEF AutomationSpec

(* Every variable of an automation's run keeps its type, and an execution  *)
(* that enqueues a resumption is at a WAIT of the list it has read.        *)
THEOREM AutomationTypeCorrect == AutomationSpec => []AutomationTypeOK
<1>1. AutomationInv => AutomationTypeOK
  BY DEF AutomationInv
<1> QED
  BY <1>1, AutomationInvHolds, PTL

(* For lists of any length, any number of workers, edits and deaths, a run *)
(* performs a position once and once more at most for each repetition: the *)
(* executions that may still come to the position and the resumptions that *)
(* are still owed before it are counted along with those that were there.  *)
THEOREM OnceUnlessRepeatedHolds == AutomationSpec => []OnceUnlessRepeated
<1>1. AutomationInv => OnceUnlessRepeated
  <2> SUFFICES ASSUME AutomationInv, NEW p \in Positions PROVE performed[p] <= 1 + repeats
    BY DEF OnceUnlessRepeated
  <2>1. p \in Places /\ Done(p) = performed[p]
    BY AutomationParameters DEF Places, Positions, Done
  <2>2. Done(p) + Cardinality(Going(p)) + Cardinality(OwedBy(p)) <= 1 + repeats
    BY <2>1 DEF AutomationInv, RunSound, Loads
  <2> QED
    BY <2>1, <2>2, LoadCounted DEF AutomationInv
<1> QED
  BY <1>1, AutomationInvHolds, PTL

(* While no execution died and no resumption was repeated, a run that has  *)
(* not ended has an execution on it or a job that will resume it.          *)
THEOREM UnfinishedIsHeldHolds == AutomationSpec => []UnfinishedIsHeld
<1>1. AutomationInv => UnfinishedIsHeld
  <2> SUFFICES ASSUME AutomationInv, ~struck, ~(repeats > 0) PROVE UnfinishedIsHeld
    BY DEF UnfinishedIsHeld
  <2>1. repeats = 0
    BY DEF AutomationInv, AutomationTypeOK
  <2> QED
    BY <2>1 DEF AutomationInv, RunSound, OneHand, UnfinishedIsHeld
<1> QED
  BY <1>1, AutomationInvHolds, PTL
=============================================================================
