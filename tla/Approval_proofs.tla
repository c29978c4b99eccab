--------------------------- MODULE Approval_proofs ---------------------------
(***************************************************************************)
(* Theorems about Approval, for every set of requests and callers, every   *)
(* order they may find and every number of mishaps.                        *)
(***************************************************************************)
EXTENDS Approval, FiniteSetTheorems, TLAPS

USE DEF row, local, history

-----------------------------------------------------------------------------
(* Types.                                                                  *)

LEMMA TypesInitially == Init => TypeOK
BY Parameters DEF Init, TypeOK, Statuses, Places, OrderStatuses

\* What one caller's move does to the variables all callers share.
LEMMA MovesKeepTypes ==
  ASSUME TypeOK, NEW c \in Callers
  PROVE  /\ \A p \in Places \ {"idle"} : at[c] # "idle" /\ GoTo(c, p) =>
               /\ at' \in [Callers -> Places]
               /\ about' \in [Callers -> Requests \cup {NoRequest}]
               /\ \A d \in Callers : at'[d] = "idle" <=> about'[d] = NoRequest
         /\ Rest(c) =>
               /\ at' \in [Callers -> Places]
               /\ about' \in [Callers -> Requests \cup {NoRequest}]
               /\ \A d \in Callers : at'[d] = "idle" <=> about'[d] = NoRequest
         /\ \A r \in Requests, p \in Places \ {"idle"} : Take(c, r, p) =>
               /\ at' \in [Callers -> Places]
               /\ about' \in [Callers -> Requests \cup {NoRequest}]
               /\ \A d \in Callers : at'[d] = "idle" <=> about'[d] = NoRequest
         /\ Mishap => mishaps' \in 0 .. MaxMishaps
<1>1. ASSUME NEW p \in Places \ {"idle"}, at[c] # "idle", GoTo(c, p)
      PROVE  /\ at' \in [Callers -> Places]
             /\ about' \in [Callers -> Requests \cup {NoRequest}]
             /\ \A d \in Callers : at'[d] = "idle" <=> about'[d] = NoRequest
  BY <1>1 DEF TypeOK, GoTo
<1>2. ASSUME Rest(c)
      PROVE  /\ at' \in [Callers -> Places]
             /\ about' \in [Callers -> Requests \cup {NoRequest}]
             /\ \A d \in Callers : at'[d] = "idle" <=> about'[d] = NoRequest
  BY <1>2 DEF TypeOK, Rest, Places
<1>3. ASSUME NEW r \in Requests, NEW p \in Places \ {"idle"}, Take(c, r, p)
      PROVE  /\ at' \in [Callers -> Places]
             /\ about' \in [Callers -> Requests \cup {NoRequest}]
             /\ \A d \in Callers : at'[d] = "idle" <=> about'[d] = NoRequest
  BY <1>3, Parameters DEF TypeOK, Take
<1>4. Mishap => mishaps' \in 0 .. MaxMishaps
  BY Parameters DEF TypeOK, Mishap
<1> QED
  BY <1>1, <1>2, <1>3, <1>4

\* A caller that is not idle holds a request.
LEMMA BusyHolds ==
  ASSUME TypeOK, NEW c \in Callers, at[c] # "idle"
  PROVE  about[c] \in Requests
BY DEF TypeOK

LEMMA StatusTyped ==
  ASSUME TypeOK, NEW c \in Callers, at[c] # "idle", NEW s \in Statuses, updateApprovalStatus(c, s)
  PROVE  status' \in [Requests -> Statuses]
BY BusyHolds DEF TypeOK, updateApprovalStatus

LEMMA TypeStep == TypeOK /\ [Next]_vars => TypeOK'
<1> SUFFICES ASSUME TypeOK, [Next]_vars PROVE TypeOK'
  OBVIOUS
<1>1. CASE \E r \in Requests : createApprovalRequest(r)
  BY <1>1 DEF createApprovalRequest, TypeOK, Statuses
<1>2. CASE \E c \in Callers, r \in Requests : approveRequest(c, r) \/ rejectRequest(c, r)
  BY <1>2, MovesKeepTypes DEF approveRequest, rejectRequest, TypeOK, Places, Executing
<1>3. ASSUME NEW c \in Callers, Serve(c) \/ Crash(c)
      PROVE  TypeOK'
  <2> USE MovesKeepTypes, BusyHolds, StatusTyped
  <2>1. CASE MarkApproved(c)
    <3>1. status' \in [Requests -> Statuses] /\ about[c] \in Requests
      BY <2>1 DEF MarkApproved, Decide, Statuses
    <3>2. granted' \in [Requests -> Nat] /\ overlapped' \subseteq Requests
      BY <2>1, <3>1 DEF MarkApproved, Decide, TypeOK
    <3>3. "auditApproval" \in Places \ {"idle"} /\ at[c] # "idle" /\ GoTo(c, "auditApproval")
      BY <2>1 DEF MarkApproved, Places, Executing
    <3> QED BY <2>1, <3>1, <3>2, <3>3 DEF MarkApproved, TypeOK
  <2>2. CASE MarkRejected(c)
    <3>1. status' \in [Requests -> Statuses] /\ about[c] \in Requests
      BY <2>2 DEF MarkRejected, Decide, Statuses
    <3>2. overlapped' \subseteq Requests
      BY <2>2, <3>1 DEF MarkRejected, Decide, TypeOK
    <3> QED BY <2>2, <3>1, <3>2 DEF MarkRejected, TypeOK
  <2>3. CASE AuditApproval(c)
    <3>1. "revalidate" \in Places \ {"idle"} /\ at[c] # "idle"
      BY <2>3 DEF AuditApproval, Places, Executing
    <3> QED BY <2>3, <3>1 DEF AuditApproval, TypeOK
  <2>4. CASE revalidate(c)
    <3>1. PICK p \in {"stale", "record", "act", "fail"} : GoTo(c, p)
      BY <2>4 DEF revalidate
    <3>2. p \in Places \ {"idle"} /\ at[c] # "idle"
      BY <2>4 DEF revalidate, Places, Executing
    <3>3. seen' \in [Callers -> OrderStatuses]
      BY <2>4 DEF revalidate, TypeOK
    <3>4. mishaps' \in 0 .. MaxMishaps
      BY <2>4 DEF revalidate, TypeOK
    <3> QED BY <2>4, <3>1, <3>2, <3>3, <3>4 DEF revalidate, TypeOK
  <2>5. CASE markStale(c)
    <3>1. "fail" \in Places \ {"idle"} /\ at[c] # "idle" /\ "FAILED" \in Statuses
      BY <2>5 DEF markStale, Places, Executing, Statuses
    <3> QED BY <2>5, <3>1 DEF markStale, TypeOK
  <2>6. CASE cancelOrUpdateOrder(c)
    <3>1. PICK p \in {"fail", "commit"} : GoTo(c, p)
      BY <2>6 DEF cancelOrUpdateOrder
    <3>2. p \in Places \ {"idle"} /\ at[c] # "idle"
      BY <2>6 DEF cancelOrUpdateOrder, Places, Executing
    <3> QED BY <2>6, <3>1, <3>2 DEF cancelOrUpdateOrder, TypeOK
  <2>7. CASE CommitToOrder(c)
    <3>1. {"fail", "record"} \subseteq Places \ {"idle"} /\ at[c] # "idle"
      BY <2>7 DEF CommitToOrder, Places, Executing
    <3>2. order' \in OrderStatuses /\ effects' \in [Requests -> Nat]
      BY <2>7, <3>1 DEF CommitToOrder, TypeOK, OrderStatuses
    <3> QED BY <2>7, <3>1, <3>2 DEF CommitToOrder, TypeOK
  <2>8. CASE MarkExecuted(c)
    <3>1. {"fail", "audit"} \subseteq Places \ {"idle"} /\ at[c] # "idle" /\ "EXECUTED" \in Statuses
      BY <2>8 DEF MarkExecuted, Places, Executing, Statuses
    <3> QED BY <2>8, <3>1 DEF MarkExecuted, TypeOK
  <2>9. CASE AuditExecuted(c)
    <3>1. "fail" \in Places \ {"idle"} /\ at[c] # "idle"
      BY <2>9 DEF AuditExecuted, Places, Executing
    <3> QED BY <2>9, <3>1 DEF AuditExecuted, TypeOK
  <2>10. CASE MarkFailed(c)
    <3>1. at[c] # "idle" /\ "FAILED" \in Statuses
      BY <2>10 DEF MarkFailed, Statuses
    <3> QED BY <2>10, <3>1 DEF MarkFailed, TypeOK
  <2>11. CASE Crash(c)
    BY <2>11 DEF Crash, TypeOK
  <2> QED
    BY <1>3, <2>1, <2>2, <2>3, <2>4, <2>5, <2>6, <2>7, <2>8, <2>9, <2>10, <2>11
    DEF Serve, executeApprovedRequest
<1>4. CASE OrderMoves
  BY <1>4, Parameters DEF OrderMoves, TypeOK
<1>5. CASE UNCHANGED vars
  BY <1>5 DEF vars, TypeOK
<1> QED
  BY <1>1, <1>2, <1>3, <1>4, <1>5 DEF Next

(* Every column, place and history has its type, and a caller holds a      *)
(* request exactly while it is about one.                                  *)
THEOREM TypeCorrect == Spec => []TypeOK
<1>1. Init => TypeOK
  BY TypesInitially
<1>2. TypeOK /\ [Next]_vars => TypeOK'
  BY TypeStep
<1> QED
  BY <1>1, <1>2, PTL DEF Spec

-----------------------------------------------------------------------------
(* Callers and requests: what an action of one caller leaves alone.        *)

\* The places between an approval and the deed that it pays for, and those
\* from an approval to its end.
Paying == {"auditApproval", "revalidate", "act", "commit"}
Busy == {"auditApproval"} \cup Executing

Pays(r) == {c \in Callers : about[c] = r /\ at[c] \in Paying}

\* All callers but c stay where they are, and c with its request or with none.
OnlyMoves(c) ==
    /\ \A d \in Callers \ {c} : at'[d] = at[d] /\ about'[d] = about[d]
    /\ about'[c] \in {about[c], NoRequest}

LEMMA MovesOnlyMove ==
  ASSUME TypeOK, NEW c \in Callers
  PROVE  /\ \A p : GoTo(c, p) => OnlyMoves(c) /\ at'[c] = p /\ about' = about
         /\ Rest(c) => OnlyMoves(c) /\ at'[c] = "idle"
BY DEF TypeOK, GoTo, Rest, OnlyMoves

LEMMA ServingOnlyMoves ==
  ASSUME TypeOK, NEW c \in Callers, Serve(c) \/ Crash(c)
  PROVE  OnlyMoves(c) /\ at[c] # "idle" /\ about[c] \in Requests
<1>1. OnlyMoves(c)
  BY MovesOnlyMove DEF Serve, Crash, executeApprovedRequest, MarkApproved, AuditApproval,
     MarkRejected, revalidate, markStale, cancelOrUpdateOrder, CommitToOrder, MarkExecuted,
     AuditExecuted, MarkFailed
<1>2. at[c] # "idle"
  BY DEF Serve, Crash, executeApprovedRequest, MarkApproved, AuditApproval,
     MarkRejected, revalidate, markStale, cancelOrUpdateOrder, CommitToOrder, MarkExecuted,
     AuditExecuted, MarkFailed
<1> QED
  BY <1>1, <1>2, BusyHolds

LEMMA TakingOnlyMoves ==
  ASSUME TypeOK, NEW c \in Callers, NEW r \in Requests, approveRequest(c, r) \/ rejectRequest(c, r)
  PROVE  /\ \A d \in Callers \ {c} : at'[d] = at[d] /\ about'[d] = about[d]
         /\ at[c] = "idle" /\ at'[c] \in {"approve", "reject"}
         /\ status[r] = "PENDING"
         /\ UNCHANGED <<row, seen, history, changes, mishaps>>
BY DEF approveRequest, rejectRequest, Take, TypeOK

-----------------------------------------------------------------------------
(* EachEffectIsApproved: an approval is paid out once, by the one caller   *)
(* who wrote it.                                                           *)

Account ==
    \A r \in Requests : /\ IsFiniteSet(Pays(r))
                        /\ Cardinality(Pays(r)) + effects[r] <= granted[r]

LEMMA PaysStep ==
  ASSUME NEW c \in Callers, NEW r, IsFiniteSet(Pays(r)),
         \A d \in Callers \ {c} : at'[d] = at[d] /\ about'[d] = about[d]
  PROVE  /\ IsFiniteSet(Pays(r)')
         /\ Cardinality(Pays(r)) \in Nat /\ Cardinality(Pays(r)') \in Nat
         /\ (c \in Pays(r) <=> c \in Pays(r)') => Cardinality(Pays(r)') = Cardinality(Pays(r))
         /\ c \notin Pays(r) /\ c \in Pays(r)' => Cardinality(Pays(r)') = Cardinality(Pays(r)) + 1
         /\ c \in Pays(r) /\ c \notin Pays(r)' => Cardinality(Pays(r)') = Cardinality(Pays(r)) - 1
<1>1. CASE c \in Pays(r) <=> c \in Pays(r)'
  <2>1. Pays(r)' = Pays(r)
    BY <1>1 DEF Pays
  <2> QED BY <2>1, <1>1, FS_CardinalityType
<1>2. CASE c \notin Pays(r) /\ c \in Pays(r)'
  <2>1. Pays(r)' = Pays(r) \cup {c}
    BY <1>2 DEF Pays
  <2> QED BY <2>1, <1>2, FS_CardinalityType, FS_AddElement
<1>3. CASE c \in Pays(r) /\ c \notin Pays(r)'
  <2>1. Pays(r)' = Pays(r) \ {c}
    BY <1>3 DEF Pays
  <2> QED BY <2>1, <1>3, FS_CardinalityType, FS_RemoveElement
<1> QED
  BY <1>1, <1>2, <1>3

\* A payer is counted.
LEMMA PayerCounts ==
  ASSUME TypeOK, Account, NEW c \in Callers, about[c] \in Requests, at[c] \in Paying
  PROVE  effects[about[c]] + 1 <= granted[about[c]]
<1>1. c \in Pays(about[c]) /\ IsFiniteSet(Pays(about[c]))
  BY DEF Pays, Account
<1>2. Cardinality(Pays(about[c])) \in Nat /\ Cardinality(Pays(about[c])) # 0
  BY <1>1, FS_CardinalityType, FS_EmptySet
<1> QED
  BY <1>2 DEF Account, TypeOK

LEMMA AccountInitially == Init => Account
<1> SUFFICES ASSUME Init, NEW r \in Requests
             PROVE  IsFiniteSet(Pays(r)) /\ Cardinality(Pays(r)) + effects[r] <= granted[r]
  BY DEF Account
<1>1. Pays(r) = {}
  BY DEF Init, Pays, Paying
<1> QED
  BY <1>1, FS_EmptySet DEF Init

LEMMA AccountStep == TypeOK /\ TypeOK' /\ Account /\ [Next]_vars => Account'
<1> SUFFICES ASSUME TypeOK, TypeOK', Account, [Next]_vars, NEW r \in Requests
             PROVE  /\ IsFiniteSet(Pays(r)')
                    /\ Cardinality(Pays(r)') + effects'[r] <= granted'[r]
  BY DEF Account
<1> DEFINE Goal == IsFiniteSet(Pays(r)') /\ Cardinality(Pays(r)') + effects'[r] <= granted'[r]
<1>0. /\ IsFiniteSet(Pays(r)) /\ Cardinality(Pays(r)) \in Nat
      /\ Cardinality(Pays(r)) + effects[r] <= granted[r]
      /\ effects[r] \in Nat /\ granted[r] \in Nat
  BY FS_CardinalityType DEF Account, TypeOK
<1>1. CASE UNCHANGED <<at, about, effects, granted>>
  <2>1. Pays(r)' = Pays(r)
    BY <1>1 DEF Pays
  <2> QED BY <1>0, <1>1, <2>1
<1>2. ASSUME NEW c \in Callers, NEW s \in Requests, approveRequest(c, s) \/ rejectRequest(c, s)
      PROVE  Goal
  <2>1. c \notin Pays(r) /\ c \notin Pays(r)'
    BY <1>2, TakingOnlyMoves DEF Pays, Paying
  <2> QED
    BY <1>0, <1>2, <2>1, TakingOnlyMoves, PaysStep
<1>3. ASSUME NEW c \in Callers, Serve(c) \/ Crash(c)
      PROVE  Goal
  <2>0. OnlyMoves(c) /\ at[c] # "idle" /\ about[c] \in Requests /\ about[c] # NoRequest
    BY <1>3, ServingOnlyMoves, Parameters
  <2>1. /\ IsFiniteSet(Pays(r)') /\ Cardinality(Pays(r)') \in Nat
        /\ (c \in Pays(r) <=> c \in Pays(r)') => Cardinality(Pays(r)') = Cardinality(Pays(r))
        /\ c \notin Pays(r) /\ c \in Pays(r)' => Cardinality(Pays(r)') = Cardinality(Pays(r)) + 1
        /\ c \in Pays(r) /\ c \notin Pays(r)' => Cardinality(Pays(r)') = Cardinality(Pays(r)) - 1
    BY <1>0, <2>0, PaysStep DEF OnlyMoves
  <2>2. CASE MarkApproved(c)
    <3>1. c \notin Pays(r) /\ effects' = effects
      BY <2>2 DEF MarkApproved, Pays, Paying
    <3>2. granted'[r] = IF r = about[c] THEN granted[r] + 1 ELSE granted[r]
      BY <2>2, <2>0 DEF MarkApproved, TypeOK
    <3>3. r # about[c] => c \notin Pays(r)'
      BY <2>0, Parameters DEF OnlyMoves, Pays
    <3> QED BY <1>0, <2>1, <3>1, <3>2, <3>3
  <2>3. CASE CommitToOrder(c)
    <3>1. c \notin Pays(r)'
      BY <2>3, MovesOnlyMove DEF CommitToOrder, Pays, Paying
    <3>2. c \in Pays(r) <=> r = about[c]
      BY <2>3 DEF CommitToOrder, Pays, Paying
    <3>3. effects'[r] \in {effects[r], IF r = about[c] THEN effects[r] + 1 ELSE effects[r]}
      BY <2>3, <2>0 DEF CommitToOrder, TypeOK
    <3>4. granted' = granted
      BY <2>3 DEF CommitToOrder
    <3> QED BY <1>0, <2>1, <3>1, <3>2, <3>3, <3>4
  <2>4. CASE Crash(c) \/ MarkRejected(c) \/ markStale(c) \/ MarkExecuted(c) \/ AuditExecuted(c)
             \/ MarkFailed(c)
    <3>1. c \notin Pays(r)' /\ UNCHANGED <<effects, granted>>
      BY <2>4, MovesOnlyMove DEF Crash, MarkRejected, markStale, MarkExecuted, AuditExecuted,
         MarkFailed, Pays, Paying
    <3> QED BY <1>0, <2>1, <3>1
  <2>5. CASE AuditApproval(c) \/ revalidate(c) \/ cancelOrUpdateOrder(c)
    <3>1. c \in Pays(r)' => c \in Pays(r)
      BY <2>5, <2>0, Parameters DEF OnlyMoves, AuditApproval, revalidate, cancelOrUpdateOrder,
         Pays, Paying
    <3>2. UNCHANGED <<effects, granted>>
      BY <2>5 DEF AuditApproval, revalidate, cancelOrUpdateOrder
    <3> QED BY <1>0, <2>1, <3>1, <3>2
  <2> QED
    BY <1>3, <2>2, <2>3, <2>4, <2>5 DEF Serve, executeApprovedRequest
<1>4. CASE (\E s \in Requests : createApprovalRequest(s)) \/ OrderMoves \/ UNCHANGED vars
  BY <1>4, <1>1 DEF createApprovalRequest, OrderMoves, vars
<1> QED
  BY <1>2, <1>3, <1>4 DEF Next

(* One approval pays for one effect on the order, however decisions and    *)
(* executions interleave.                                                  *)
THEOREM EachEffectIsApprovedHolds == Spec => []EachEffectIsApproved
<1>1. Init => TypeOK /\ Account
  BY TypesInitially, AccountInitially
<1>2. TypeOK /\ Account /\ [Next]_vars => (TypeOK /\ Account)'
  BY TypeStep, AccountStep
<1>3. TypeOK /\ Account => EachEffectIsApproved
  <2> SUFFICES ASSUME TypeOK, Account, NEW r \in Requests PROVE effects[r] <= granted[r]
    BY DEF EachEffectIsApproved
  <2>1. Cardinality(Pays(r)) \in Nat
    BY FS_CardinalityType DEF Account
  <2> QED BY <2>1 DEF Account, TypeOK
<1> QED
  BY <1>1, <1>2, <1>3, PTL DEF Spec

-----------------------------------------------------------------------------
(* ExecutedMeansDone: whoever is about to record an execution has done it. *)

Done ==
    /\ \A c \in Callers : at[c] \in {"record", "audit"} /\ kind[about[c]] # "MANUAL"
                           => effects[about[c]] > 0
    /\ \A r \in Requests : status[r] = "EXECUTED" /\ kind[r] # "MANUAL" => effects[r] > 0

LEMMA EffectsOnlyGrow ==
  ASSUME TypeOK, [Next]_vars, NEW r \in Requests
  PROVE  effects[r] \in Nat /\ effects'[r] \in Nat /\ effects'[r] >= effects[r]
<1>1. effects' = effects \/ \E c \in Callers : CommitToOrder(c)
  BY DEF Next, Serve, executeApprovedRequest, createApprovalRequest, approveRequest,
     rejectRequest, MarkApproved, AuditApproval, MarkRejected, revalidate, markStale,
     cancelOrUpdateOrder, MarkExecuted, AuditExecuted, MarkFailed, Crash, OrderMoves, vars
<1>2. ASSUME NEW c \in Callers, CommitToOrder(c)
      PROVE  effects'[r] \in Nat /\ effects'[r] >= effects[r]
  BY <1>2 DEF CommitToOrder, TypeOK
<1> QED
  BY <1>1, <1>2 DEF TypeOK

LEMMA KindIsFixed == [Next]_vars => kind' = kind
BY DEF Next, Serve, executeApprovedRequest, createApprovalRequest, approveRequest,
   rejectRequest, MarkApproved, AuditApproval, MarkRejected, revalidate, markStale,
   cancelOrUpdateOrder, CommitToOrder, MarkExecuted, AuditExecuted, MarkFailed, Crash,
   OrderMoves, vars

\* Only MarkExecuted writes EXECUTED, and only a caller that has acted gets there.
LEMMA DoneStep == TypeOK /\ Done /\ [Next]_vars => Done'
<1> SUFFICES ASSUME TypeOK, Done, [Next]_vars PROVE Done'
  OBVIOUS
<1>0. \A r \in Requests : effects[r] > 0 => effects'[r] > 0
  BY EffectsOnlyGrow
<1>1. kind' = kind
  BY KindIsFixed
<1> DEFINE Recording(c) == at[c] \in {"record", "audit"}
<1>2. ASSUME \A c \in Callers : Recording(c)' => Recording(c) /\ about'[c] = about[c],
             \A r \in Requests : status'[r] = "EXECUTED" => status[r] = "EXECUTED"
      PROVE  Done'
  <2>1. \A c \in Callers : Recording(c) => about[c] \in Requests
    BY BusyHolds
  <2> QED BY <1>0, <1>1, <1>2, <2>1 DEF Done
<1>3. ASSUME NEW c \in Callers, Serve(c) \/ Crash(c)
      PROVE  Done'
  <2>0. OnlyMoves(c) /\ at[c] # "idle" /\ about[c] \in Requests
    BY <1>3, ServingOnlyMoves
  <2>1. CASE ~(revalidate(c) \/ CommitToOrder(c) \/ MarkExecuted(c))
    <3>1. \A d \in Callers : Recording(d)' => Recording(d) /\ about'[d] = about[d]
      BY <1>3, <2>1, <2>0, MovesOnlyMove DEF OnlyMoves, Serve, Crash, executeApprovedRequest,
         MarkApproved, AuditApproval, MarkRejected, markStale, cancelOrUpdateOrder,
         AuditExecuted, MarkFailed
    <3>2. \A r \in Requests : status'[r] = "EXECUTED" => status[r] = "EXECUTED"
      BY <1>3, <2>1, <2>0 DEF Serve, Crash, executeApprovedRequest, MarkApproved, AuditApproval,
         MarkRejected, markStale, cancelOrUpdateOrder, AuditExecuted, MarkFailed, Decide,
         updateApprovalStatus, TypeOK
    <3> QED BY <3>1, <3>2, <1>2
  <2>2. CASE revalidate(c)
    <3>1. at'[c] = "record" => kind[about[c]] = "MANUAL"
      BY <2>2, MovesOnlyMove DEF revalidate
    <3>2. about' = about /\ status' = status /\ at'[c] # "audit"
      BY <2>2, MovesOnlyMove DEF revalidate, GoTo
    <3>3. \A d \in Callers \ {c} : at'[d] = at[d] /\ about[d] = about'[d]
      BY <2>0 DEF OnlyMoves
    <3>4. \A d \in Callers : Recording(d) => about[d] \in Requests
      BY BusyHolds
    <3> QED BY <3>1, <3>2, <3>3, <3>4, <1>0, <1>1 DEF Done
  <2>3. CASE CommitToOrder(c)
    <3>1. at'[c] \in {"record", "audit"} => effects'[about[c]] > 0
      BY <2>3, <2>0, MovesOnlyMove DEF CommitToOrder, TypeOK
    <3>2. about' = about /\ status' = status
      BY <2>3 DEF CommitToOrder, GoTo
    <3>3. \A d \in Callers \ {c} : at'[d] = at[d] /\ about[d] = about'[d]
      BY <2>0 DEF OnlyMoves
    <3>4. \A d \in Callers : Recording(d) => about[d] \in Requests
      BY BusyHolds
    <3> QED BY <3>1, <3>2, <3>3, <3>4, <1>0, <1>1 DEF Done
  <2>4. CASE MarkExecuted(c)
    <3>1. kind[about[c]] # "MANUAL" => effects[about[c]] > 0
      BY <2>4 DEF MarkExecuted, Done
    <3>2. about' = about /\ effects' = effects
      BY <2>4 DEF MarkExecuted, GoTo
    <3>3. \A d \in Callers \ {c} : at'[d] = at[d] /\ about[d] = about'[d]
      BY <2>0 DEF OnlyMoves
    <3>4. \A r \in Requests \ {about[c]} : status'[r] = status[r]
      BY <2>4 DEF MarkExecuted, updateApprovalStatus, TypeOK
    <3>5. about[c] \in Requests /\ (status'[about[c]] = "EXECUTED" \/ status' = status)
      BY <2>4, <2>0 DEF MarkExecuted, updateApprovalStatus, TypeOK
    <3> QED BY <3>1, <3>2, <3>3, <3>4, <3>5, <1>1 DEF Done
  <2> QED
    BY <2>1, <2>2, <2>3, <2>4
<1>4. ASSUME NEW c \in Callers, NEW s \in Requests, approveRequest(c, s) \/ rejectRequest(c, s)
      PROVE  Done'
  BY <1>4, <1>2, TakingOnlyMoves
<1>5. CASE (\E s \in Requests : createApprovalRequest(s)) \/ OrderMoves \/ UNCHANGED vars
  <2>1. \A c \in Callers : Recording(c)' => Recording(c) /\ about'[c] = about[c]
    BY <1>5 DEF createApprovalRequest, OrderMoves, vars
  <2>2. \A r \in Requests : status'[r] = "EXECUTED" => status[r] = "EXECUTED"
    BY <1>5 DEF createApprovalRequest, OrderMoves, vars, TypeOK
  <2> QED BY <2>1, <2>2, <1>2
<1> QED
  BY <1>3, <1>4, <1>5 DEF Next

(* A request says EXECUTED only when its order was cancelled or edited, or *)
(* when the deed is left to people.                                        *)
THEOREM ExecutedMeansDoneHolds == Spec => []ExecutedMeansDone
<1>1. Init => TypeOK /\ Done
  BY TypesInitially DEF Init, Done
<1>2. TypeOK /\ Done /\ [Next]_vars => (TypeOK /\ Done)'
  BY TypeStep, DoneStep
<1>3. Done => ExecutedMeansDone
  BY DEF Done, ExecutedMeansDone
<1> QED
  BY <1>1, <1>2, <1>3, PTL DEF Spec

-----------------------------------------------------------------------------
(* RefusedMeansUntouched: where decisions did not overlap, one caller at   *)
(* most has the request from its approval to its end.                      *)

Executes(c, r) == about[c] = r /\ at[c] \in Busy

SoleAt(r) ==
    /\ granted[r] <= 1
    /\ status[r] \in {"absent", "PENDING", "REJECTED"} => granted[r] = 0
    /\ granted[r] = 0 \/ status[r] = "FAILED" => \A c \in Callers : ~Executes(c, r)
    /\ \A c, d \in Callers : Executes(c, r) /\ Executes(d, r) => c = d
    /\ \A c \in Callers : Executes(c, r) /\ at[c] = "stale" => effects[r] = 0
    /\ mishaps = 0 =>
         /\ status[r] = "FAILED" => effects[r] = 0
         /\ \A c \in Callers : Executes(c, r) /\ at[c] = "fail" => effects[r] = 0

Sole == \A r \in Requests \ overlapped : SoleAt(r)

LEMMA MishapsGrow ==
  ASSUME TypeOK, [Next]_vars
  PROVE  mishaps \in Nat /\ mishaps' \in Nat /\ (mishaps' = 0 => mishaps = 0)
<1>1. mishaps' = mishaps \/ mishaps' = mishaps + 1
  BY DEF Next, Serve, executeApprovedRequest, createApprovalRequest, approveRequest,
     rejectRequest, MarkApproved, AuditApproval, MarkRejected, revalidate, markStale,
     cancelOrUpdateOrder, CommitToOrder, MarkExecuted, AuditExecuted, MarkFailed, Crash,
     OrderMoves, Mishap, vars
<1> QED
  BY <1>1, Parameters DEF TypeOK

\* A step that does not concern r, or only takes its executor off it.
LEMMA Elsewhere ==
  ASSUME TypeOK, NEW r \in Requests, SoleAt(r), mishaps' = 0 => mishaps = 0,
         status'[r] = status[r], granted'[r] = granted[r], effects'[r] = effects[r],
         \A d \in Callers : Executes(d, r)' => Executes(d, r) /\ at'[d] = at[d]
  PROVE  SoleAt(r)'
BY DEF SoleAt

\* The one who executes r moves on, or off it, without touching the order.
LEMMA SoleMoves ==
  ASSUME TypeOK, NEW c \in Callers, NEW r \in Requests, Executes(c, r), SoleAt(r), OnlyMoves(c),
         granted' = granted, effects' = effects, mishaps' = 0 => mishaps = 0,
         status'[r] \in {status[r], "EXECUTED", "FAILED"},
         status'[r] = "FAILED" => at'[c] = "idle",
         at'[c] = "stale" => effects[r] = 0,
         mishaps' = 0 /\ (at'[c] = "fail" \/ status'[r] = "FAILED") => effects[r] = 0
  PROVE  SoleAt(r)'
<1>1. granted[r] # 0 /\ status[r] # "FAILED" /\ status[r] \notin {"absent", "PENDING", "REJECTED"}
  BY DEF SoleAt
<1>2. \A d \in Callers : Executes(d, r)' => d = c
  BY DEF OnlyMoves, Executes, SoleAt
<1>3. status'[r] = "FAILED" => ~Executes(c, r)'
  BY DEF Executes, Busy, Executing
<1>4. granted'[r] <= 1 /\ granted'[r] # 0 /\ status'[r] \notin {"absent", "PENDING", "REJECTED"}
  BY <1>1 DEF SoleAt
<1> QED
  BY <1>1, <1>2, <1>3, <1>4 DEF SoleAt

LEMMA SoleStep == TypeOK /\ Account /\ Sole /\ [Next]_vars => Sole'
<1> SUFFICES ASSUME TypeOK, Account, Sole, [Next]_vars, NEW r \in Requests, r \notin overlapped'
             PROVE  SoleAt(r)'
  BY DEF Sole
<1>0. mishaps' = 0 => mishaps = 0
  BY MishapsGrow
<1>1. CASE \E s \in Requests : createApprovalRequest(s)
  <2>1. SoleAt(r)
    BY <1>1 DEF createApprovalRequest, Sole
  <2>2. /\ UNCHANGED <<at, about, granted, effects, mishaps>>
        /\ status'[r] = status[r] \/ (status[r] = "absent" /\ status'[r] = "PENDING")
    BY <1>1 DEF createApprovalRequest, TypeOK
  <2> QED BY <2>1, <2>2 DEF SoleAt, Executes
<1>2. ASSUME NEW c \in Callers, NEW s \in Requests, approveRequest(c, s) \/ rejectRequest(c, s)
      PROVE  SoleAt(r)'
  <2>1. \A d \in Callers : Executes(d, r)' => Executes(d, r) /\ at'[d] = at[d]
    BY <1>2, TakingOnlyMoves DEF Executes, Busy, Executing
  <2>2. SoleAt(r)
    BY <1>2, TakingOnlyMoves DEF Sole
  <2> QED
    BY <1>0, <1>2, <2>1, <2>2, TakingOnlyMoves, Elsewhere
<1>3. ASSUME NEW c \in Callers, Serve(c) \/ Crash(c), r # about[c]
      PROVE  SoleAt(r)'
  <2>0. OnlyMoves(c) /\ at[c] # "idle" /\ about[c] \in Requests
    BY <1>3, ServingOnlyMoves
  <2>1. \A d \in Callers : Executes(d, r)' => Executes(d, r) /\ at'[d] = at[d]
    BY <1>3, <2>0, Parameters DEF OnlyMoves, Executes
  <2>2. r \notin overlapped /\ status'[r] = status[r] /\ granted'[r] = granted[r]
        /\ effects'[r] = effects[r]
    BY <1>3, <2>0 DEF TypeOK, Serve, Crash, executeApprovedRequest, MarkApproved, AuditApproval,
       MarkRejected, revalidate, markStale, cancelOrUpdateOrder, CommitToOrder, MarkExecuted,
       AuditExecuted, MarkFailed, Decide, updateApprovalStatus
  <2> QED BY <1>0, <2>1, <2>2, Elsewhere DEF Sole
<1>4. ASSUME NEW c \in Callers, Serve(c) \/ Crash(c), r = about[c]
      PROVE  SoleAt(r)'
  <2>0. OnlyMoves(c) /\ at[c] # "idle" /\ about[c] \in Requests
    BY <1>4, ServingOnlyMoves
  <2>1. CASE MarkApproved(c) \/ MarkRejected(c)
    <3>1. status[r] = "PENDING" /\ r \notin overlapped
      BY <1>4, <2>0, <2>1 DEF MarkApproved, MarkRejected, Decide
    <3>2. /\ granted[r] = 0 /\ \A d \in Callers : ~Executes(d, r)
          /\ effects[r] = 0
      <4>1. SoleAt(r)
        BY <3>1 DEF Sole
      <4>2. Cardinality(Pays(r)) \in Nat /\ Cardinality(Pays(r)) + effects[r] <= granted[r]
        BY FS_CardinalityType DEF Account
      <4> QED BY <3>1, <4>1, <4>2 DEF SoleAt, TypeOK
    <3>3. \A d \in Callers : Executes(d, r)' => d = c
      BY <3>2, <2>0 DEF OnlyMoves, Executes
    <3>4. CASE MarkApproved(c)
      <4>1. /\ status'[r] = "APPROVED" /\ granted'[r] = 1 /\ effects'[r] = 0
            /\ at'[c] = "auditApproval"
        BY <3>2, <3>4, <1>4, <2>0, MovesOnlyMove DEF MarkApproved, Decide, updateApprovalStatus, TypeOK
      <4> QED BY <3>3, <4>1 DEF SoleAt
    <3>5. CASE MarkRejected(c)
      <4>1. status'[r] = "REJECTED" /\ granted'[r] = 0 /\ at'[c] = "idle"
        BY <3>2, <3>5, <1>4, <2>0, MovesOnlyMove DEF MarkRejected, Decide, updateApprovalStatus, TypeOK
      <4>2. \A d \in Callers : ~Executes(d, r)'
        BY <4>1, <3>3 DEF Executes, Busy, Executing
      <4> QED BY <4>1, <4>2 DEF SoleAt
    <3> QED BY <2>1, <3>4, <3>5
  <2>2. CASE Crash(c)
    <3>1. r \notin overlapped /\ status' = status /\ granted' = granted /\ effects' = effects
      BY <2>2 DEF Crash
    <3>2. \A d \in Callers : Executes(d, r)' => Executes(d, r) /\ at'[d] = at[d]
      BY <2>2, <2>0, MovesOnlyMove DEF Crash, OnlyMoves, Executes, Busy, Executing
    <3> QED BY <1>0, <3>1, <3>2, Elsewhere DEF Sole
  <2>3. CASE CommitToOrder(c)
    <3>1. SoleAt(r) /\ Executes(c, r) /\ granted' = granted /\ status' = status /\ about' = about
      BY <2>3, <1>4 DEF CommitToOrder, Sole, Executes, Busy, Executing, GoTo
    <3>2. \A d \in Callers : Executes(d, r)' => d = c
      BY <3>1, <2>0 DEF OnlyMoves, Executes, SoleAt
    <3>3. \/ at'[c] = "record"
          \/ at'[c] = "fail" /\ mishaps' # 0
      BY <2>3, <1>0, MovesOnlyMove, MishapsGrow DEF CommitToOrder, Mishap
    <3>4. status[r] # "FAILED" /\ status[r] \notin {"absent", "PENDING", "REJECTED"}
      BY <3>1 DEF SoleAt
    <3> QED BY <3>1, <3>2, <3>3, <3>4 DEF SoleAt
  <2>4. CASE /\ at[c] \in Busy /\ r \notin overlapped
             /\ AuditApproval(c) \/ revalidate(c) \/ markStale(c) \/ cancelOrUpdateOrder(c)
                \/ MarkExecuted(c) \/ AuditExecuted(c) \/ MarkFailed(c)
    <3>1. SoleAt(r) /\ Executes(c, r)
      BY <2>4, <1>4 DEF Sole, Executes
    <3>2. granted' = granted /\ effects' = effects
      BY <2>4 DEF AuditApproval, revalidate, markStale, cancelOrUpdateOrder, MarkExecuted,
         AuditExecuted, MarkFailed
    <3>3. at[c] \in Paying => effects[r] = 0
      BY <1>4, <2>0, <3>1, PayerCounts DEF SoleAt, TypeOK
    <3>4. status'[r] \in {status[r], "EXECUTED", "FAILED"}
      BY <2>4, <1>4, <2>0 DEF AuditApproval, revalidate, markStale, cancelOrUpdateOrder, MarkExecuted,
         AuditExecuted, MarkFailed, updateApprovalStatus, TypeOK
    <3>5. /\ status'[r] = "FAILED" => at'[c] = "idle"
          /\ at'[c] = "stale" => effects[r] = 0
          /\ mishaps' = 0 /\ (at'[c] = "fail" \/ status'[r] = "FAILED") => effects[r] = 0
      <4>0. status[r] # "FAILED"
        BY <3>1 DEF SoleAt
      <4>1. CASE AuditApproval(c)
        BY <4>0, <4>1, MovesOnlyMove DEF AuditApproval
      <4>2. CASE revalidate(c)
        BY <4>0, <4>2, <3>3, MovesOnlyMove DEF revalidate, Paying
      <4>3. CASE markStale(c)
        <5>1. effects[r] = 0
          BY <3>1, <4>3 DEF markStale, SoleAt
        <5> QED BY <4>0, <4>3, <5>1, MovesOnlyMove DEF markStale
      <4>4. CASE cancelOrUpdateOrder(c)
        BY <4>0, <4>4, <3>3, MovesOnlyMove DEF cancelOrUpdateOrder, Paying
      <4>5. CASE MarkExecuted(c)
        <5>1. \/ status'[r] = "EXECUTED" /\ at'[c] = "audit"
              \/ status' = status /\ at'[c] = "fail" /\ mishaps' # 0
          BY <4>5, <1>4, <2>0, MovesOnlyMove, MishapsGrow
          DEF MarkExecuted, updateApprovalStatus, Mishap, TypeOK
        <5> QED BY <4>0, <5>1
      <4>6. CASE AuditExecuted(c)
        <5>1. at'[c] = "idle" \/ (at'[c] = "fail" /\ mishaps' # 0)
          BY <4>6, MovesOnlyMove, MishapsGrow DEF AuditExecuted, Mishap
        <5> QED BY <4>0, <4>6, <5>1 DEF AuditExecuted
      <4>7. CASE MarkFailed(c)
        <5>1. mishaps' = 0 => effects[r] = 0
          BY <3>1, <4>7, <1>0 DEF MarkFailed, SoleAt
        <5> QED BY <4>0, <4>7, <5>1, MovesOnlyMove DEF MarkFailed
      <4> QED BY <2>4, <4>1, <4>2, <4>3, <4>4, <4>5, <4>6, <4>7
    <3> QED BY <1>0, <1>4, <2>0, <3>1, <3>2, <3>4, <3>5, SoleMoves
  <2>5. AuditApproval(c) \/ revalidate(c) \/ markStale(c) \/ cancelOrUpdateOrder(c)
        \/ MarkExecuted(c) \/ AuditExecuted(c) \/ MarkFailed(c)
          => at[c] \in Busy /\ r \notin overlapped
    BY DEF AuditApproval, revalidate, markStale, cancelOrUpdateOrder, MarkExecuted,
       AuditExecuted, MarkFailed, Busy, Executing
  <2> QED
    BY <1>4, <2>1, <2>2, <2>3, <2>4, <2>5 DEF Serve, executeApprovedRequest
<1>5. CASE OrderMoves \/ UNCHANGED vars
  <2>1. UNCHANGED <<status, at, about, granted, effects, mishaps, overlapped>>
    BY <1>5 DEF OrderMoves, vars
  <2> QED BY <2>1 DEF Sole, SoleAt, Executes
<1> QED
  BY <1>1, <1>2, <1>3, <1>4, <1>5 DEF Next

(* Where decisions did not overlap, a rejected request left its order      *)
(* alone, none is carried out twice, and a failed one that nothing went    *)
(* wrong with left its order alone too.                                    *)
THEOREM RefusedMeansUntouchedHolds == Spec => []RefusedMeansUntouched
<1>1. Init => TypeOK /\ Account /\ Sole
  <2>1. Init => Sole
    BY DEF Init, Sole, SoleAt, Executes, Busy, Executing
  <2> QED BY <2>1, TypesInitially, AccountInitially
<1>2. TypeOK /\ Account /\ Sole /\ [Next]_vars => (TypeOK /\ Account /\ Sole)'
  BY TypeStep, AccountStep, SoleStep
<1>3. TypeOK /\ Account /\ Sole => RefusedMeansUntouched
  <2> SUFFICES ASSUME TypeOK, Account, Sole, NEW r \in Requests, r \notin overlapped
               PROVE  /\ effects[r] <= 1
                      /\ status[r] \in {"PENDING", "REJECTED"} => effects[r] = 0
                      /\ status[r] = "FAILED" /\ mishaps = 0 => effects[r] = 0
    BY DEF RefusedMeansUntouched, UndecidedTwice
  <2>1. Cardinality(Pays(r)) \in Nat /\ Cardinality(Pays(r)) + effects[r] <= granted[r]
    BY FS_CardinalityType DEF Account
  <2>2. effects[r] <= granted[r] /\ effects[r] \in Nat /\ granted[r] \in Nat
    BY <2>1 DEF TypeOK
  <2>3. SoleAt(r)
    BY DEF Sole
  <2> QED BY <2>2, <2>3 DEF SoleAt
<1> QED
  BY <1>1, <1>2, <1>3, PTL DEF Spec
=============================================================================
