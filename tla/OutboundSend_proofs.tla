------------------------ MODULE OutboundSend_proofs ------------------------
(***************************************************************************)
(* Proofs about OutboundSend, for any messages, executions, receipts,      *)
(* budget, stalls and outages.                                             *)
(***************************************************************************)
EXTENDS OutboundSend, FiniteSetTheorems, TLAPS

-----------------------------------------------------------------------------
(* The inductive invariant.  A row is settled when check 1, 2 or 4 will    *)
(* stop every run that has yet to read it; it never becomes unsettled.     *)

Settled(m) == pid[m] # 0 \/ uncertain[m]

\* A run that may still add a copy, or has just spent its chance and not yet said so.
CouldSend(e, m) ==
    /\ run[e].msg = m /\ run[e].at \in BeforeSend \cup {"fail"}
    /\ Settled(m) => run[e].at # "read" /\ ~(run[e].at = "reread" /\ run[e].seen)

Sending(m) == {e \in Executions : CouldSend(e, m)}

\* A job that a worker can take and whose run would get as far as the provider.
Waiting(m) == IF job[m] = "pending" /\ ~Settled(m) THEN 1 ELSE 0

\* A run whose send was accepted and not yet written down.
Unrecorded(e, m) ==
    run[e].msg = m /\ run[e].at \in {"persist", "flag"} /\ run[e].id # 0

NoneUnrecorded(m) == \A e \in Executions : ~Unrecorded(e, m)

RunsWork ==
    \A e \in Executions :
        /\ run[e].at = "persist" => run[e].id # 0 /\ run[e].tries < PERSIST_ATTEMPTS
        /\ run[e].at \in BeforeSend => run[e].tries = 0 /\ run[e].id = 0
        /\ run[e].at \in Recording /\ run[e].id # 0 => accepted[run[e].msg] # 0
        /\ run[e].at \in {"return", "touch"} => Settled(run[e].msg)
        /\ run[e].at = "reread" /\ run[e].seen => Settled(run[e].msg)

RowsAgree ==
    \A m \in Messages :
        /\ status[m] \in Gone => pid[m] # 0
        /\ pid[m] # 0 => accepted[m] # 0
        /\ job[m] = "done" => Settled(m)

ReceiptsWork ==
    \A v \in Receivers : receiver[v] # Quiet => receiver[v].msg \in Messages /\ pid[receiver[v].msg] # 0

\* Every copy beyond the first, and every chance of one, is paid for.
Paid(m) == accepted[m] + Cardinality(Sending(m)) + Waiting(m) <= lost[m] + 1

\* With no accepted send in hand, a row that is unsettled, or says FAILED, owes nothing.
Clear(m) ==
    /\ NoneUnrecorded(m)
    /\ ~Settled(m) \/ (status[m] = "FAILED" /\ m \notin bounced /\ ~uncertain[m])
    => accepted[m] <= lost[m]

Accounts == \A m \in Messages : Paid(m) /\ Clear(m)

Sound == TypeOK /\ RunsWork /\ RowsAgree /\ ReceiptsWork /\ Accounts

-----------------------------------------------------------------------------
USE DEF row, queue, history

LEMMA SoundInit == Init => Sound
<1> SUFFICES ASSUME Init PROVE Sound
  OBVIOUS
<1>1. TypeOK
  BY Parameters DEF Init, TypeOK, Runs, Resting, Stages, BeforeSend, Recording, Quiet,
     MessageStatuses, STATUS_RANK, PERSIST_ATTEMPTS
<1>2. RunsWork /\ RowsAgree /\ ReceiptsWork
  BY DEF Init, RunsWork, RowsAgree, ReceiptsWork, Resting, BeforeSend, Recording, Gone
<1>3. ASSUME NEW m \in Messages PROVE Paid(m) /\ Clear(m)
  <2>1. Sending(m) = {}
    BY DEF Init, Sending, CouldSend, Resting, BeforeSend
  <2>2. Cardinality(Sending(m)) = 0
    BY <2>1, FS_EmptySet
  <2> QED
    BY <2>2 DEF Init, Paid, Clear, Waiting
<1> QED
  BY <1>1, <1>2, <1>3 DEF Sound, Accounts

-----------------------------------------------------------------------------
(* Counting the runs that could send.                                      *)

LEMMA Fewer ==
    ASSUME NEW S, NEW T, IsFiniteSet(S), T \subseteq S
    PROVE  /\ Cardinality(S) \in Nat /\ Cardinality(T) \in Nat
           /\ Cardinality(T) <= Cardinality(S)
           /\ \A x \in S : x \notin T => Cardinality(T) + 1 <= Cardinality(S)
<1>1. /\ Cardinality(S) \in Nat /\ Cardinality(T) \in Nat
      /\ Cardinality(T) <= Cardinality(S)
  BY FS_Subset, FS_CardinalityType
<1>2. ASSUME NEW x \in S, x \notin T PROVE Cardinality(T) + 1 <= Cardinality(S)
  <2>1. IsFiniteSet(S \ {x}) /\ Cardinality(S \ {x}) = Cardinality(S) - 1
    BY FS_RemoveElement
  <2>2. T \subseteq S \ {x}
    BY <1>2
  <2>3. Cardinality(T) <= Cardinality(S \ {x})
    BY <2>1, <2>2, FS_Subset
  <2> QED
    BY <1>1, <2>1, <2>3
<1> QED
  BY <1>1, <1>2

LEMMA OneMore ==
    ASSUME NEW S, NEW T, NEW x, IsFiniteSet(S), T \subseteq S \cup {x}
    PROVE  Cardinality(T) <= Cardinality(S) + 1
<1>1. IsFiniteSet(S \cup {x}) /\ Cardinality(S) \in Nat
      /\ Cardinality(S \cup {x}) <= Cardinality(S) + 1
  <2>1. CASE x \in S
    <3>1. S \cup {x} = S
      BY <2>1
    <3>2. Cardinality(S) \in Nat
      BY FS_CardinalityType
    <3>3. Cardinality(S) <= Cardinality(S) + 1
      BY <3>2
    <3> QED
      BY <3>1, <3>2, <3>3, Zenon
  <2>2. CASE x \notin S
    BY <2>2, FS_AddElement, FS_CardinalityType
  <2> QED
    BY <2>1, <2>2
<1>2. Cardinality(T) \in Nat /\ Cardinality(T) <= Cardinality(S \cup {x})
  BY <1>1, FS_Subset, FS_CardinalityType
<1> QED
  BY <1>1, <1>2, FS_CardinalityType

LEMMA SendingFinite == \A m : IsFiniteSet(Sending(m))
BY Parameters, FS_Subset DEF Sending

\* What a step of one run does to the count of a message.
LEMMA Counted ==
    ASSUME NEW e \in Executions, NEW m \in Messages,
           \A x \in Executions \ {e} : run'[x] = run[x],
           Settled(m) => Settled(m)'
    PROVE  /\ Cardinality(Sending(m)) \in Nat /\ Cardinality(Sending(m)') \in Nat
           /\ Cardinality(Sending(m)') <= Cardinality(Sending(m)) + 1
           /\ (CouldSend(e, m)' => CouldSend(e, m)) =>
                Cardinality(Sending(m)') <= Cardinality(Sending(m))
           /\ CouldSend(e, m) /\ ~CouldSend(e, m)' =>
                Cardinality(Sending(m)') + 1 <= Cardinality(Sending(m))
<1>1. \A x \in Executions \ {e} : CouldSend(x, m)' => CouldSend(x, m)
  BY DEF CouldSend
<1>2. Sending(m)' = {x \in Executions : CouldSend(x, m)'}
  BY DEF Sending
<1>3. Sending(m)' \subseteq Sending(m) \cup {e}
  BY <1>1, <1>2 DEF Sending
<1>4. IsFiniteSet(Sending(m)) /\ IsFiniteSet(Sending(m)')
  <2>1. Sending(m)' \subseteq Executions
    BY <1>2
  <2> QED
    BY <2>1, SendingFinite, Parameters, FS_Subset
<1>5. Cardinality(Sending(m)) \in Nat /\ Cardinality(Sending(m)') \in Nat
  BY <1>4, FS_CardinalityType
<1>6. Cardinality(Sending(m)') <= Cardinality(Sending(m)) + 1
  BY <1>3, <1>4, OneMore
<1>7. ASSUME CouldSend(e, m)' => CouldSend(e, m)
      PROVE  Sending(m)' \subseteq Sending(m)
  BY <1>1, <1>2, <1>7 DEF Sending
<1>8. ASSUME CouldSend(e, m)' => CouldSend(e, m)
      PROVE  Cardinality(Sending(m)') <= Cardinality(Sending(m))
  BY <1>4, <1>7, <1>8, Fewer
<1>9. ASSUME CouldSend(e, m), ~CouldSend(e, m)'
      PROVE  Cardinality(Sending(m)') + 1 <= Cardinality(Sending(m))
  <2>1. e \in Sending(m) /\ e \notin Sending(m)'
    BY <1>2, <1>9 DEF Sending
  <2> QED
    BY <1>4, <1>7, <1>9, <2>1, Fewer
<1> QED
  BY <1>5, <1>6, <1>8, <1>9

LEMMA WaitingType == \A m : Waiting(m) \in 0 .. 1
BY DEF Waiting

\* A step of one run that adds no copy, no chance of one and no loss keeps a message paid.
LEMMA StillPaid ==
    ASSUME TypeOK, TypeOK', NEW e \in Executions, NEW m \in Messages,
           \A x \in Executions \ {e} : run'[x] = run[x],
           Settled(m) => Settled(m)',
           CouldSend(e, m)' => CouldSend(e, m),
           Waiting(m)' <= Waiting(m),
           accepted'[m] = accepted[m], lost'[m] >= lost[m],
           Paid(m)
    PROVE  Paid(m)'
<1>1. /\ Cardinality(Sending(m)) \in Nat /\ Cardinality(Sending(m)') \in Nat
      /\ Cardinality(Sending(m)') <= Cardinality(Sending(m))
  BY Counted
<1>2. Waiting(m) \in Nat /\ Waiting(m)' \in Nat
  BY DEF Waiting
<1>3. accepted[m] \in Nat /\ lost[m] \in Nat /\ lost'[m] \in Nat
  BY DEF TypeOK
<1> QED
  BY <1>1, <1>2, <1>3 DEF Paid

-----------------------------------------------------------------------------
(* The steps of a run up to the provider.                                  *)

\* The checks, and every throw before the send, change no row.
LEMMA LookStep ==
    ASSUME Sound, NEW e \in Executions,
           NEW stage \in BeforeSend \cup {"fail", "return", "throw"}, NEW seen \in BOOLEAN,
           run[e].at \in BeforeSend,
           run' = [run EXCEPT ![e] = [run[e] EXCEPT !.at = stage, !.seen = seen]],
           stage = "return" => Settled(run[e].msg),
           stage = "reread" /\ seen => Settled(run[e].msg),
           Settled(run[e].msg) /\ stage \in BeforeSend \cup {"fail"} =>
              \/ stage = "reread" /\ seen
              \/ run[e].at # "read" /\ ~(run[e].at = "reread" /\ run[e].seen),
           UNCHANGED <<row, queue, receiver, accepted, lost, bounced, stalls, outages>>,
           deferred' \subseteq Messages
    PROVE  Sound'
<1> DEFINE m == run[e].msg
<1>1. run[e] \in Runs /\ m \in Messages /\ run[e].tries = 0 /\ run[e].id = 0
  BY DEF Sound, TypeOK, RunsWork, Runs, BeforeSend
<1>2. /\ run'[e].at = stage /\ run'[e].msg = m /\ run'[e].id = run[e].id
      /\ run'[e].seen = seen /\ run'[e].tries = 0
      /\ run'[e] \in Runs /\ run' \in [Executions -> Runs]
      /\ \A x \in Executions \ {e} : run'[x] = run[x]
  BY <1>1 DEF Sound, TypeOK, Runs, Stages, Recording
<1>3. TypeOK'
  BY <1>1, <1>2, Parameters DEF Sound, TypeOK, BeforeSend
<1>4. \A n : Settled(n)' <=> Settled(n)
  BY DEF Settled
<1>5. RunsWork'
  BY <1>1, <1>2, <1>4 DEF Sound, RunsWork, BeforeSend, Recording
<1>6. RowsAgree' /\ ReceiptsWork'
  BY <1>4 DEF Sound, RowsAgree, ReceiptsWork, Gone
<1>7. ASSUME NEW n \in Messages PROVE Paid(n)' /\ Clear(n)'
  <2>1. CouldSend(e, n)' => CouldSend(e, n)
    BY <1>2, <1>4 DEF CouldSend
  <2>2. Waiting(n)' = Waiting(n) /\ Waiting(n) \in 0 .. 1
    BY <1>4 DEF Waiting
  <2>3. Paid(n)'
    BY <1>2, <1>3, <1>4, <2>1, <2>2, StillPaid DEF Sound, Accounts, TypeOK
  <2>4. \A x \in Executions : Unrecorded(x, n)' <=> Unrecorded(x, n)
    BY <1>2 DEF Unrecorded, BeforeSend
  <2> QED
    BY <1>4, <2>3, <2>4 DEF Sound, Accounts, Clear, NoneUnrecorded
<1> QED
  BY <1>3, <1>5, <1>6, <1>7 DEF Sound, Accounts

LEMMA ReadStep ==
    ASSUME Sound, NEW e \in Executions, Read(e)
    PROVE  Sound'
<1> DEFINE m == run[e].msg
           to == IF FirstGates(m) THEN "return"
                 ELSE IF status[m] = "SENDING" THEN "reread"
                 ELSE IF uncertain[m] THEN "return" ELSE "limit"
<1>1. run[e] \in Runs /\ m \in Messages /\ run[e].at = "read"
  BY DEF Sound, TypeOK, Runs, Read
<1>2. to \in BeforeSend \cup {"fail", "return", "throw"} /\ uncertain[m] \in BOOLEAN
  BY <1>1 DEF BeforeSend, Sound, TypeOK
<1>3. run' = [run EXCEPT ![e] = [run[e] EXCEPT !.at = to, !.seen = uncertain[m]]]
  BY <1>1 DEF Read, Runs
<1>4. FirstGates(m) => Settled(m)
  BY <1>1 DEF Sound, RowsAgree, FirstGates, Settled
<1>5. /\ to = "return" => Settled(m)
      /\ to = "reread" /\ uncertain[m] => Settled(m)
      /\ Settled(m) /\ to \in BeforeSend \cup {"fail"} => to = "reread" /\ uncertain[m]
  BY <1>1, <1>4 DEF Settled, FirstGates, BeforeSend
<1>6. run[e].at \in BeforeSend
  BY <1>1 DEF BeforeSend
<1>7. /\ UNCHANGED <<row, queue, receiver, accepted, lost, bounced, stalls, outages>>
      /\ deferred' \subseteq Messages
  BY DEF Read, Sound, TypeOK
<1> HIDE DEF to
<1> QED
  BY <1>2, <1>3, <1>5, <1>6, <1>7, LookStep

LEMMA MoveOnStep ==
    ASSUME Sound, NEW e \in Executions,
           Reread(e) \/ Limit(e) \/ Mark(e) \/ Stumble(e) \/ Refused(e)
    PROVE  Sound'
<1> DEFINE m == run[e].msg
<1>1. run[e] \in Runs /\ run[e].at \in BeforeSend /\ m \in Messages
  BY DEF Sound, TypeOK, Runs, BeforeSend, Reread, Limit, Mark, Stumble, Refused
<1>2. PICK stage \in {"limit", "mark", "write", "send", "fail", "return", "throw"} :
         /\ GoTo(e, stage)
         /\ stage = "return" => run[e].at = "reread" /\ (FirstGates(m) \/ run[e].seen)
         /\ stage \notin {"return", "throw"} =>
              run[e].at # "read" /\ ~(run[e].at = "reread" /\ run[e].seen)
  BY DEF Reread, Limit, Mark, Stumble, Refused
<1>3. stage \in BeforeSend \cup {"fail", "return", "throw"} /\ run[e].seen \in BOOLEAN
  BY <1>1 DEF BeforeSend, Runs
<1>4. run' = [run EXCEPT ![e] = [run[e] EXCEPT !.at = stage, !.seen = run[e].seen]]
  BY <1>1, <1>2 DEF GoTo, Runs
<1>5. /\ stage = "return" => Settled(m)
      /\ ~(stage = "reread")
      /\ stage \in BeforeSend \cup {"fail"} =>
              run[e].at # "read" /\ ~(run[e].at = "reread" /\ run[e].seen)
  BY <1>1, <1>2 DEF Sound, RowsAgree, RunsWork, FirstGates, Settled, BeforeSend
<1>6. /\ UNCHANGED <<row, queue, receiver, accepted, lost, bounced, stalls, outages>>
      /\ deferred' \subseteq Messages
  BY <1>1 DEF Reread, Limit, Mark, Stumble, Refused, Sound, TypeOK
<1> QED
  BY <1>1, <1>3, <1>4, <1>5, <1>6, LookStep

LEMMA WriteSendingStep ==
    ASSUME Sound, NEW e \in Executions, WriteSending(e)
    PROVE  Sound'
<1> DEFINE m == run[e].msg
<1>1. run[e] \in Runs /\ m \in Messages /\ run[e].at = "write"
      /\ run[e].tries = 0 /\ run[e].id = 0
  BY DEF Sound, TypeOK, RunsWork, Runs, BeforeSend, WriteSending
<1>2. /\ run'[e].at = "send" /\ run'[e].msg = m /\ run'[e].id = 0 /\ run'[e].tries = 0
      /\ run' \in [Executions -> Runs]
      /\ \A x \in Executions \ {e} : run'[x] = run[x]
  BY <1>1 DEF WriteSending, GoTo, Sound, TypeOK, Runs, Stages, BeforeSend
<1>3. /\ status'[m] = "SENDING" /\ status' \in [Messages -> MessageStatuses]
      /\ \A n \in Messages \ {m} : status'[n] = status[n]
  BY <1>1 DEF WriteSending, Sound, TypeOK, MessageStatuses, STATUS_RANK
<1>4. UNCHANGED <<pid, uncertain, queue, receiver, accepted, history, stalls, outages>>
  BY DEF WriteSending
<1>5. TypeOK'
  BY <1>1, <1>2, <1>3, <1>4, Parameters DEF Sound, TypeOK
<1>6. \A n : Settled(n)' <=> Settled(n)
  BY <1>4 DEF Settled
<1>7. RunsWork' /\ RowsAgree' /\ ReceiptsWork'
  BY <1>1, <1>2, <1>3, <1>4, <1>6
     DEF Sound, TypeOK, RunsWork, RowsAgree, ReceiptsWork, BeforeSend, Recording, Gone
<1>8. ASSUME NEW n \in Messages PROVE Paid(n)' /\ Clear(n)'
  <2>1. CouldSend(e, n)' => CouldSend(e, n)
    BY <1>1, <1>2, <1>6 DEF CouldSend, BeforeSend
  <2>2. Waiting(n)' = Waiting(n) /\ Waiting(n) \in 0 .. 1
    BY <1>4, <1>6 DEF Waiting
  <2>3. Paid(n)'
    BY <1>2, <1>4, <1>5, <1>6, <2>1, <2>2, StillPaid DEF Sound, Accounts, TypeOK
  <2>4. \A x \in Executions : Unrecorded(x, n)' <=> Unrecorded(x, n)
    BY <1>1, <1>2 DEF Unrecorded
  <2>5. status'[n] = "FAILED" => status[n] = "FAILED"
    BY <1>3
  <2> QED
    BY <1>4, <1>6, <2>3, <2>4, <2>5 DEF Sound, Accounts, Clear, NoneUnrecorded
<1> QED
  BY <1>5, <1>7, <1>8 DEF Sound, Accounts

-----------------------------------------------------------------------------
(* The provider.                                                           *)

\* An accepted send spends the run's chance of a copy, and leaves it unrecorded.
LEMMA AcceptStep ==
    ASSUME Sound, NEW e \in Executions, NEW stage \in {"persist", "flag"},
           run[e].at = "send", Accept(run[e].msg),
           run' = [run EXCEPT ![e] = [run[e] EXCEPT !.at = stage, !.id = accepted[run[e].msg] + 1]],
           UNCHANGED <<row, queue, receiver, history, stalls, outages>>
    PROVE  Sound'
<1> DEFINE m == run[e].msg
<1>1. run[e] \in Runs /\ m \in Messages /\ run[e].tries = 0 /\ accepted[m] \in Nat
  BY DEF Sound, TypeOK, RunsWork, Runs, BeforeSend
<1>2. /\ run'[e].at = stage /\ run'[e].msg = m /\ run'[e].id = accepted[m] + 1
      /\ run'[e].tries = 0 /\ run' \in [Executions -> Runs]
      /\ \A x \in Executions \ {e} : run'[x] = run[x]
  <2> DEFINE r == [run[e] EXCEPT !.at = stage, !.id = accepted[m] + 1]
  <2>1. /\ r \in Runs /\ r.at = stage /\ r.msg = m /\ r.id = accepted[m] + 1
        /\ r.tries = 0
    <3>1. stage \in Stages /\ accepted[m] + 1 \in Nat
      BY <1>1 DEF Stages, Recording
    <3> QED
      BY <1>1, <3>1 DEF Runs
  <2>2. run' = [run EXCEPT ![e] = r] /\ run \in [Executions -> Runs]
    BY DEF Sound, TypeOK
  <2> HIDE DEF r
  <2> QED
    BY <2>1, <2>2
<1>3. /\ accepted' \in [Messages -> Nat] /\ accepted'[m] = accepted[m] + 1
      /\ \A n \in Messages \ {m} : accepted'[n] = accepted[n]
  BY <1>1 DEF Accept, Sound, TypeOK
<1>4. TypeOK'
  BY <1>1, <1>2, <1>3, Parameters DEF Sound, TypeOK
<1>5. \A n : Settled(n)' <=> Settled(n)
  BY DEF Settled
<1>6. \A n \in Messages : accepted[n] # 0 => accepted'[n] # 0
  BY <1>1, <1>3
<1>7. RunsWork'
  <2>1. ASSUME NEW x \in Executions, x # e
        PROVE  run[x].at \in Recording /\ run[x].id # 0 => accepted'[run[x].msg] # 0
    BY <1>6, <2>1 DEF Sound, RunsWork, TypeOK, Runs, Recording, Parameters
  <2>2. accepted'[m] # 0 /\ accepted[m] + 1 # 0
    BY <1>1, <1>3
  <2> QED
    BY <1>1, <1>2, <1>5, <2>1, <2>2 DEF Sound, RunsWork, BeforeSend, PERSIST_ATTEMPTS
<1>8. RowsAgree' /\ ReceiptsWork'
  BY <1>5, <1>6 DEF Sound, RowsAgree, ReceiptsWork
<1>9. ASSUME NEW n \in Messages PROVE Paid(n)' /\ Clear(n)'
  <2>1. Waiting(n)' = Waiting(n) /\ Waiting(n) \in 0 .. 1
    BY <1>5 DEF Waiting
  <2>2. ~CouldSend(e, n)'
    BY <1>2 DEF CouldSend, BeforeSend
  <2>3. CASE n = m
    <3>1. CouldSend(e, n)
      BY <1>1, <2>3 DEF CouldSend, BeforeSend
    <3>2. /\ Cardinality(Sending(n)) \in Nat /\ Cardinality(Sending(n)') \in Nat
          /\ Cardinality(Sending(n)') + 1 <= Cardinality(Sending(n))
      BY <1>2, <1>5, <2>2, <3>1, Counted
    <3>3. Paid(n)'
      BY <1>1, <1>3, <2>1, <2>3, <3>2 DEF Sound, Accounts, Paid, TypeOK
    <3>4. Unrecorded(e, n)'
      BY <1>1, <1>2, <2>3 DEF Unrecorded
    <3> QED
      BY <3>3, <3>4 DEF Clear, NoneUnrecorded
  <2>4. CASE n # m
    <3>1. Paid(n)'
      BY <1>2, <1>3, <1>4, <1>5, <2>1, <2>2, <2>4, StillPaid DEF Sound, Accounts, TypeOK
    <3>2. \A x \in Executions : Unrecorded(x, n)' <=> Unrecorded(x, n)
      BY <1>2, <2>4 DEF Unrecorded
    <3> QED
      BY <1>3, <1>5, <2>4, <3>1, <3>2 DEF Sound, Accounts, Clear, NoneUnrecorded
  <2> QED
    BY <2>3, <2>4
<1> QED
  BY <1>4, <1>7, <1>8, <1>9 DEF Sound, Accounts

LEMMA AnswerStep ==
    ASSUME Sound, NEW e \in Executions, Answered(e) \/ Unanswered(e)
    PROVE  Sound'
<1> DEFINE m == run[e].msg
<1>1. run[e] \in Runs /\ m \in Messages /\ run[e].at = "send" /\ run[e].id = 0
  BY DEF Sound, TypeOK, RunsWork, Runs, BeforeSend, Answered, Unanswered
<1>2. CASE \E stage \in {"persist", "flag"} :
             /\ Accept(m)
             /\ run' = [run EXCEPT ![e].at = stage, ![e].id = accepted[m] + 1]
             /\ UNCHANGED <<row, queue, receiver, history, stalls, outages>>
  <2>1. PICK stage \in {"persist", "flag"} :
             /\ Accept(m)
             /\ run' = [run EXCEPT ![e].at = stage, ![e].id = accepted[m] + 1]
             /\ UNCHANGED <<row, queue, receiver, history, stalls, outages>>
    BY <1>2
  <2>2. run' = [run EXCEPT ![e] = [run[e] EXCEPT !.at = stage, !.id = accepted[m] + 1]]
    BY <1>1, <2>1 DEF Runs
  <2> QED
    BY <1>1, <2>1, <2>2, AcceptStep
<1>3. CASE /\ GoTo(e, "flag")
           /\ UNCHANGED <<row, queue, receiver, accepted, history, stalls, outages>>
  <2>1. /\ run'[e].at = "flag" /\ run'[e].msg = m /\ run'[e].id = 0
        /\ run'[e].tries = run[e].tries /\ run' \in [Executions -> Runs]
        /\ \A x \in Executions \ {e} : run'[x] = run[x]
    BY <1>1, <1>3 DEF GoTo, Sound, TypeOK, Runs, Stages, Recording
  <2>2. TypeOK'
    BY <1>1, <1>3, <2>1, Parameters DEF Sound, TypeOK
  <2>3. \A n : Settled(n)' <=> Settled(n)
    BY <1>3 DEF Settled
  <2>4. RunsWork' /\ RowsAgree' /\ ReceiptsWork'
    BY <1>3, <2>1, <2>3 DEF Sound, RunsWork, RowsAgree, ReceiptsWork, BeforeSend, Recording
  <2>5. ASSUME NEW n \in Messages PROVE Paid(n)' /\ Clear(n)'
    <3>1. ~CouldSend(e, n)'
      BY <2>1 DEF CouldSend, BeforeSend
    <3>2. Waiting(n)' = Waiting(n) /\ Waiting(n) \in 0 .. 1
      BY <1>3, <2>3 DEF Waiting
    <3>3. Paid(n)'
      <4>1. TypeOK /\ Paid(n) /\ lost[n] \in Nat
        BY Parameters DEF Sound, Accounts, TypeOK
      <4>2. Waiting(n)' <= Waiting(n)
        BY <3>2
      <4>3. accepted'[n] = accepted[n] /\ lost'[n] >= lost[n]
        BY <1>3, <4>1
      <4> QED
        BY <1>1, <2>1, <2>2, <2>3, <3>1, <4>1, <4>2, <4>3, StillPaid
    <3>4. \A x \in Executions : Unrecorded(x, n)' <=> Unrecorded(x, n)
      BY <1>1, <2>1 DEF Unrecorded
    <3> QED
      BY <1>3, <2>3, <3>3, <3>4 DEF Sound, Accounts, Clear, NoneUnrecorded
  <2> QED
    BY <2>2, <2>4, <2>5 DEF Sound, Accounts
<1> QED
  BY <1>2, <1>3 DEF Answered, Unanswered

-----------------------------------------------------------------------------
(* What is written down.                                                   *)

\* Recording a send settles the row; a failed attempt may have written it all the same.
LEMMA PersistStep ==
    ASSUME Sound, NEW e \in Executions, persistDispatchResult(e)
    PROVE  Sound'
<1> DEFINE m == run[e].msg
<1>1. /\ run[e] \in Runs /\ m \in Messages /\ run[e].at = "persist"
      /\ run[e].tries \in 0 .. 2 /\ run[e].id \in Nat \ {0} /\ accepted[m] # 0
  BY DEF Sound, TypeOK, RunsWork, Runs, Recording, PERSIST_ATTEMPTS, persistDispatchResult
<1>2. PICK stage \in {"touch", "persist", "flag"}, tries \in 0 .. 3 :
         /\ run' = [run EXCEPT ![e] = [run[e] EXCEPT !.at = stage, !.tries = tries]]
         /\ stage = "persist" => tries < 3
         /\ stage = "touch" => recordMessageDispatch(e)
         /\ UNCHANGED row \/ recordMessageDispatch(e)
  <2>1. CASE GoTo(e, "touch") /\ recordMessageDispatch(e)
    <3>1. [run[e] EXCEPT !.at = "touch"] = [run[e] EXCEPT !.at = "touch", !.tries = run[e].tries]
      BY <1>1 DEF Runs
    <3>2. run[e].tries \in 0 .. 3
      BY <1>1
    <3> QED
      BY <2>1, <3>1, <3>2 DEF GoTo
  <2>2. CASE /\ run' = [run EXCEPT ![e].tries = @ + 1,
                                  ![e].at = IF run[e].tries + 1 = PERSIST_ATTEMPTS
                                              THEN "flag" ELSE "persist"]
             /\ UNCHANGED row \/ recordMessageDispatch(e)
    <3> DEFINE to == IF run[e].tries + 1 = 3 THEN "flag" ELSE "persist"
               n == run[e].tries + 1
    <3>1. to \in {"touch", "persist", "flag"} /\ n \in 0 .. 3 /\ (to = "persist" => n < 3)
      BY <1>1
    <3>2. run' = [run EXCEPT ![e] = [run[e] EXCEPT !.at = to, !.tries = n]]
      BY <1>1, <2>2 DEF Runs, PERSIST_ATTEMPTS
    <3>3. to # "touch"
      OBVIOUS
    <3> HIDE DEF to, n
    <3> QED
      BY <2>2, <3>1, <3>2, <3>3
  <2> QED
    BY <2>1, <2>2 DEF persistDispatchResult
<1>3. /\ run'[e].at = stage /\ run'[e].msg = m /\ run'[e].id = run[e].id
      /\ run'[e].tries = tries /\ run' \in [Executions -> Runs]
      /\ \A x \in Executions \ {e} : run'[x] = run[x]
  BY <1>1, <1>2 DEF Sound, TypeOK, Runs, Stages, Recording, PERSIST_ATTEMPTS
<1>4. /\ status' \in [Messages -> MessageStatuses] /\ pid' \in [Messages -> Nat]
      /\ uncertain' \in [Messages -> BOOLEAN]
      /\ \A n \in Messages \ {m} :
            pid'[n] = pid[n] /\ status'[n] = status[n] /\ uncertain'[n] = uncertain[n]
      /\ \/ pid'[m] = pid[m] /\ status'[m] = status[m] /\ uncertain'[m] = uncertain[m]
         \/ pid'[m] # 0 /\ status'[m] = "SENT"
      /\ stage = "touch" => pid'[m] # 0 /\ status'[m] = "SENT"
  <2>1. CASE UNCHANGED row
    <3>1. stage = "touch" => pid'[m] # 0 /\ status'[m] = "SENT"
      BY <1>1, <1>2 DEF recordMessageDispatch, Sound, TypeOK
    <3> QED
      BY <2>1, <3>1 DEF Sound, TypeOK
  <2>2. CASE recordMessageDispatch(e)
    <3>1. /\ status' = [status EXCEPT ![m] = "SENT"] /\ pid' = [pid EXCEPT ![m] = run[e].id]
          /\ \A n \in Messages \ {m} : uncertain'[n] = uncertain[n]
          /\ uncertain' \in [Messages -> BOOLEAN]
      BY <2>2 DEF recordMessageDispatch, Sound, TypeOK
    <3>2. "SENT" \in MessageStatuses
      BY DEF MessageStatuses, STATUS_RANK
    <3> QED
      BY <1>1, <3>1, <3>2 DEF Sound, TypeOK
  <2> QED
    BY <1>2, <2>1, <2>2
<1>5. UNCHANGED <<queue, receiver, accepted, history, stalls, outages>>
  BY DEF persistDispatchResult
<1>6. TypeOK'
  BY <1>1, <1>3, <1>4, <1>5, Parameters DEF Sound, TypeOK
<1>7. \A n \in Messages : Settled(n) => Settled(n)'
  BY <1>4 DEF Settled
<1>8. RunsWork'
  <2>1. ASSUME NEW x \in Executions, run[x].at # "idle" PROVE run[x].msg \in Messages
    <3>1. run[x] \in Runs /\ run[x].msg # NoMessage
      BY <2>1 DEF Sound, TypeOK
    <3> QED
      BY <3>1 DEF Runs
  <2>2. stage = "touch" => Settled(m)'
    BY <1>3, <1>4 DEF Settled
  <2> QED
    BY <1>1, <1>2, <1>3, <1>5, <1>7, <2>1, <2>2
       DEF Sound, RunsWork, BeforeSend, Recording, PERSIST_ATTEMPTS
<1>9. RowsAgree' /\ ReceiptsWork'
  BY <1>1, <1>4, <1>5, <1>7 DEF Sound, RowsAgree, ReceiptsWork, Gone, Settled
<1>10. ASSUME NEW n \in Messages PROVE Paid(n)' /\ Clear(n)'
  <2>1. ~CouldSend(e, n)'
    BY <1>3 DEF CouldSend, BeforeSend
  <2>2. Waiting(n)' <= Waiting(n)
    BY <1>5, <1>7 DEF Waiting
  <2>3. Paid(n)'
    BY <1>3, <1>5, <1>6, <1>7, <2>1, <2>2, StillPaid DEF Sound, Accounts, TypeOK
  <2>4. CASE n # m
    <3>1. \A x \in Executions : Unrecorded(x, n)' <=> Unrecorded(x, n)
      BY <1>3, <2>4 DEF Unrecorded
    <3> QED
      BY <1>4, <1>5, <2>3, <2>4, <3>1 DEF Sound, Accounts, Clear, NoneUnrecorded, Settled
  <2>5. CASE n = m /\ stage = "touch"
    BY <1>4, <2>3, <2>5 DEF Clear, Settled
  <2>6. CASE n = m /\ stage # "touch"
    <3>1. Unrecorded(e, n)'
      BY <1>1, <1>2, <1>3, <2>6 DEF Unrecorded
    <3> QED
      BY <2>3, <3>1 DEF Clear, NoneUnrecorded
  <2> QED
    BY <2>4, <2>5, <2>6
<1> QED
  BY <1>6, <1>8, <1>9, <1>10 DEF Sound, Accounts

\* A flagged row is settled; a flag that is lost is counted.
LEMMA MarkUncertainStep ==
    ASSUME Sound, NEW e \in Executions, MarkUncertain(e)
    PROVE  Sound'
<1> DEFINE m == run[e].msg
<1>1. run[e] \in Runs /\ m \in Messages /\ run[e].at = "flag"
  BY DEF Sound, TypeOK, Runs, MarkUncertain
<1>2. /\ run'[e].at = "throw" /\ run'[e].msg = m /\ run' \in [Executions -> Runs]
      /\ \A x \in Executions \ {e} : run'[x] = run[x]
  BY <1>1 DEF MarkUncertain, GoTo, Sound, TypeOK, Runs, Stages
<1>3. /\ uncertain' \in [Messages -> BOOLEAN] /\ lost' \in [Messages -> Nat]
      /\ \A n \in Messages \ {m} : uncertain'[n] = uncertain[n] /\ lost'[n] = lost[n]
      /\ uncertain[m] => uncertain'[m]
      /\ \/ uncertain'[m] /\ lost'[m] = lost[m]
         \/ lost'[m] = lost[m] + (IF run[e].id # 0 THEN 1 ELSE 0) /\ uncertain'[m] = uncertain[m]
  <2> uncertain \in [Messages -> BOOLEAN] /\ lost \in [Messages -> Nat]
    BY DEF Sound, TypeOK
  <2>1. CASE uncertain' = [uncertain EXCEPT ![m] = TRUE] /\ UNCHANGED lost
    BY <1>1, <2>1
  <2>2. CASE lost' = [lost EXCEPT ![m] = @ + (IF run[e].id # 0 THEN 1 ELSE 0)]
             /\ UNCHANGED uncertain
    <3> DEFINE k == IF run[e].id # 0 THEN 1 ELSE 0
    <3>1. k \in Nat
      OBVIOUS
    <3> HIDE DEF k
    <3>2. lost' = [lost EXCEPT ![m] = lost[m] + k]
      BY <2>2 DEF k
    <3>3. /\ lost' \in [Messages -> Nat] /\ lost'[m] = lost[m] + k
          /\ \A n \in Messages \ {m} : lost'[n] = lost[n]
      BY <1>1, <3>1, <3>2
    <3> QED
      BY <2>2, <3>3 DEF k
  <2> QED
    BY <2>1, <2>2 DEF MarkUncertain, Losing
<1>4. /\ UNCHANGED <<status, pid, queue, receiver, accepted, bounced, deferred>>
      /\ UNCHANGED <<stalls, outages>>
  BY DEF MarkUncertain
<1>5. TypeOK'
  BY <1>1, <1>2, <1>3, <1>4, Parameters DEF Sound, TypeOK
<1>6. \A n \in Messages : Settled(n) => Settled(n)'
  BY <1>3, <1>4 DEF Settled
<1>7. RunsWork'
  <2>1. ASSUME NEW x \in Executions, run[x].at # "idle" PROVE run[x].msg \in Messages
    <3>1. run[x] \in Runs /\ run[x].msg # NoMessage
      BY <2>1 DEF Sound, TypeOK
    <3> QED
      BY <3>1 DEF Runs
  <2> QED
    BY <1>2, <1>4, <1>6, <2>1 DEF Sound, RunsWork, BeforeSend, Recording
<1>8. RowsAgree' /\ ReceiptsWork'
  BY <1>4, <1>6 DEF Sound, RowsAgree, ReceiptsWork
<1>9. ASSUME NEW n \in Messages PROVE Paid(n)' /\ Clear(n)'
  <2>1. ~CouldSend(e, n)'
    BY <1>2 DEF CouldSend, BeforeSend
  <2>2. Waiting(n)' <= Waiting(n) /\ Waiting(n) \in Nat /\ Waiting(n)' \in Nat
    BY <1>4, <1>6 DEF Waiting
  <2>3. lost[n] \in Nat /\ lost'[n] \in Nat /\ lost'[n] >= lost[n] /\ accepted[n] \in Nat
    BY <1>3 DEF Sound, TypeOK
  <2>4. Paid(n)'
    BY <1>2, <1>4, <1>5, <1>6, <2>1, <2>2, <2>3, StillPaid DEF Sound, Accounts
  <2>5. \A x \in Executions \ {e} : Unrecorded(x, n)' <=> Unrecorded(x, n)
    BY <1>2 DEF Unrecorded
  <2>6. CASE ~Unrecorded(e, n)
    <3>1. NoneUnrecorded(n)' => NoneUnrecorded(n)
      BY <2>5, <2>6 DEF NoneUnrecorded
    <3>2. /\ ~Settled(n)' => ~Settled(n)
          /\ status'[n] = status[n] /\ bounced' = bounced /\ (~uncertain'[n] => ~uncertain[n])
      BY <1>3, <1>4, <1>6
    <3>3. Clear(n)
      BY DEF Sound, Accounts
    <3>4. accepted'[n] <= lost'[n] \/ ~(accepted[n] <= lost[n])
      BY <1>4, <2>3
    <3> QED
      BY <2>4, <3>1, <3>2, <3>3, <3>4 DEF Clear
  <2>7. CASE Unrecorded(e, n)
    <3>1. n = m /\ run[e].id # 0
      BY <2>7 DEF Unrecorded
    <3>2. CASE uncertain'[n]
      BY <2>4, <3>2 DEF Clear, Settled
    <3>3. CASE ~uncertain'[n]
      <4>1. lost'[n] = lost[n] + 1
        BY <1>3, <3>1, <3>3
      <4>2. accepted[n] <= lost[n] + 1
        <5>1. Cardinality(Sending(n)) \in Nat /\ Paid(n)
          BY <1>2, <1>6, Counted DEF Sound, Accounts
        <5> QED
          BY <2>2, <2>3, <5>1 DEF Paid
      <4>3. accepted'[n] <= lost'[n]
        BY <1>4, <4>1, <4>2
      <4> QED
        BY <2>4, <4>3 DEF Clear
    <3> QED
      BY <3>2, <3>3
  <2> QED
    BY <2>6, <2>7
<1> QED
  BY <1>5, <1>7, <1>8, <1>9 DEF Sound, Accounts

\* FAILED is written by a run that spent its chance without a copy.
LEMMA MarkFailedStep ==
    ASSUME Sound, NEW e \in Executions, MarkFailed(e)
    PROVE  Sound'
<1> DEFINE m == run[e].msg
<1>1. run[e] \in Runs /\ m \in Messages /\ run[e].at = "fail"
  BY DEF Sound, TypeOK, Runs, MarkFailed
<1>2. /\ run'[e].at = "throw" /\ run'[e].msg = m /\ run' \in [Executions -> Runs]
      /\ \A x \in Executions \ {e} : run'[x] = run[x]
  BY <1>1 DEF MarkFailed, GoTo, Sound, TypeOK, Runs, Stages
<1>3. /\ status' \in [Messages -> MessageStatuses]
      /\ \A n \in Messages \ {m} : status'[n] = status[n]
      /\ status'[m] = status[m] \/ status'[m] = "FAILED"
  BY <1>1 DEF MarkFailed, Sound, TypeOK, MessageStatuses, STATUS_RANK
<1>4. UNCHANGED <<pid, uncertain, queue, receiver, accepted, history, stalls, outages>>
  BY DEF MarkFailed
<1>5. TypeOK'
  BY <1>1, <1>2, <1>3, <1>4, Parameters DEF Sound, TypeOK
<1>6. \A n : Settled(n)' <=> Settled(n)
  BY <1>4 DEF Settled
<1>7. RunsWork' /\ RowsAgree' /\ ReceiptsWork'
  BY <1>1, <1>2, <1>3, <1>4, <1>6
     DEF Sound, TypeOK, RunsWork, RowsAgree, ReceiptsWork, BeforeSend, Recording, Gone
<1>8. ASSUME NEW n \in Messages PROVE Paid(n)' /\ Clear(n)'
  <2>1. ~CouldSend(e, n)'
    BY <1>2 DEF CouldSend, BeforeSend
  <2>2. Waiting(n)' = Waiting(n) /\ Waiting(n) \in Nat
    BY <1>4, <1>6 DEF Waiting
  <2>3. lost[n] \in Nat /\ accepted[n] \in Nat /\ Paid(n) /\ Clear(n)
    BY DEF Sound, TypeOK, Accounts
  <2>4. Paid(n)'
    BY <1>2, <1>4, <1>5, <1>6, <2>1, <2>2, <2>3, StillPaid DEF Sound
  <2>5. \A x \in Executions : Unrecorded(x, n)' <=> Unrecorded(x, n)
    BY <1>1, <1>2 DEF Unrecorded
  <2>6. CASE n # m
    BY <1>3, <1>4, <1>6, <2>3, <2>4, <2>5, <2>6 DEF Clear, NoneUnrecorded
  <2>7. CASE n = m
    <3>1. CouldSend(e, n)
      BY <1>1, <2>7 DEF CouldSend
    <3>2. /\ Cardinality(Sending(n)) \in Nat /\ Cardinality(Sending(n)') \in Nat
          /\ Cardinality(Sending(n)') + 1 <= Cardinality(Sending(n))
      BY <1>2, <1>6, <2>1, <3>1, Counted
    <3>3. accepted[n] <= lost[n]
      BY <2>2, <2>3, <3>2 DEF Paid
    <3> QED
      BY <1>4, <2>4, <3>3 DEF Clear
  <2> QED
    BY <2>6, <2>7
<1> QED
  BY <1>5, <1>7, <1>8 DEF Sound, Accounts

-----------------------------------------------------------------------------
(* The queue.                                                              *)

\* A claim turns the job's chance of a copy into the run's.
LEMMA StartStep ==
    ASSUME Sound, NEW e \in Executions, Start(e)
    PROVE  Sound'
<1>1. PICK m \in Messages :
        /\ run[e].at = "idle" /\ job[m] = "pending"
        /\ job' = [job EXCEPT ![m] = "running"]
        /\ attempts' = [attempts EXCEPT ![m] = @ + 1]
        /\ run' = [run EXCEPT ![e] = Begun(m)]
        /\ deferred' = deferred \ {m}
        /\ UNCHANGED <<row, receiver, accepted, lost, bounced, stalls, outages>>
  BY DEF Start
<1>2. /\ run'[e].at = "read" /\ run'[e].msg = m /\ run'[e].id = 0 /\ run'[e].tries = 0
      /\ run' \in [Executions -> Runs]
      /\ \A x \in Executions \ {e} : run'[x] = run[x]
  <2> DEFINE r == Begun(m)
  <2>1. r \in Runs /\ r.at = "read" /\ r.msg = m /\ r.id = 0 /\ r.tries = 0
    BY DEF Begun, Runs, Stages, BeforeSend, PERSIST_ATTEMPTS
  <2>2. run' = [run EXCEPT ![e] = r] /\ run \in [Executions -> Runs]
    BY <1>1 DEF Sound, TypeOK
  <2> HIDE DEF r
  <2> QED
    BY <2>1, <2>2
<1>3. run[e].msg = NoMessage /\ NoMessage \notin Messages
  BY <1>1, Parameters DEF Sound, TypeOK
<1>4. TypeOK'
  BY <1>1, <1>2, <1>3 DEF Sound, TypeOK
<1>5. \A n : Settled(n)' <=> Settled(n)
  BY <1>1 DEF Settled
<1>6. RunsWork' /\ RowsAgree' /\ ReceiptsWork'
  BY <1>1, <1>2, <1>5
     DEF Sound, TypeOK, RunsWork, RowsAgree, ReceiptsWork, BeforeSend, Recording
<1>7. ASSUME NEW n \in Messages PROVE Paid(n)' /\ Clear(n)'
  <2>1. /\ Cardinality(Sending(n)) \in Nat /\ Cardinality(Sending(n)') \in Nat
        /\ Cardinality(Sending(n)') <= Cardinality(Sending(n)) + 1
        /\ ~CouldSend(e, n)' => Cardinality(Sending(n)') <= Cardinality(Sending(n))
    BY <1>2, <1>5, Counted
  <2>2. lost[n] \in Nat /\ accepted[n] \in Nat /\ Paid(n) /\ Clear(n)
    BY DEF Sound, TypeOK, Accounts
  <2>3. Paid(n)'
    <3>1. CASE n = m /\ ~Settled(n)
      <4>1. Waiting(n) = 1 /\ Waiting(n)' = 0
        BY <1>1, <1>5, <3>1 DEF Waiting, Sound, TypeOK
      <4> QED
        BY <1>1, <2>1, <2>2, <4>1 DEF Paid
    <3>2. CASE n # m \/ Settled(n)
      <4>1. ~CouldSend(e, n)'
        BY <1>2, <1>5, <3>2 DEF CouldSend
      <4>2. Waiting(n)' = Waiting(n) /\ Waiting(n) \in Nat
        BY <1>1, <1>5, <3>2 DEF Waiting, Sound, TypeOK
      <4> QED
        BY <1>1, <2>1, <2>2, <4>1, <4>2 DEF Paid
    <3> QED
      BY <3>1, <3>2
  <2>4. \A x \in Executions : Unrecorded(x, n)' <=> Unrecorded(x, n)
    BY <1>1, <1>2 DEF Unrecorded
  <2> QED
    BY <1>1, <1>5, <2>2, <2>3, <2>4 DEF Clear, NoneUnrecorded
<1> QED
  BY <1>4, <1>6, <1>7 DEF Sound, Accounts

LEMMA RestingFacts ==
    ASSUME TypeOK, NEW e \in Executions, run' = [run EXCEPT ![e] = Resting]
    PROVE  /\ run' \in [Executions -> Runs]
           /\ run'[e].at = "idle" /\ run'[e].msg = NoMessage
           /\ \A x \in Executions \ {e} : run'[x] = run[x]
           /\ \A n \in Messages : ~CouldSend(e, n)' /\ ~Unrecorded(e, n)'
<1>1. Resting \in Runs /\ Resting.at = "idle" /\ Resting.msg = NoMessage
  BY DEF Resting, Runs, Stages, PERSIST_ATTEMPTS
<1>2. /\ run' \in [Executions -> Runs] /\ run'[e] = Resting
      /\ \A x \in Executions \ {e} : run'[x] = run[x]
  BY <1>1 DEF TypeOK
<1> QED
  BY <1>1, <1>2, Parameters DEF CouldSend, Unrecorded

LEMMA ReturnsStep ==
    ASSUME Sound, NEW e \in Executions, Returns(e)
    PROVE  Sound'
<1> DEFINE m == run[e].msg
<1>1. run[e].at \in {"return", "touch"} /\ m \in Messages /\ Settled(m)
  <2>1. run[e] \in Runs /\ run[e].at \in {"return", "touch"}
    BY DEF Sound, TypeOK, Returns
  <2>2. m # NoMessage
    BY <2>1 DEF Sound, TypeOK
  <2> QED
    BY <2>1, <2>2 DEF Sound, RunsWork, Runs
<1>2. /\ run' \in [Executions -> Runs] /\ run'[e].at = "idle" /\ run'[e].msg = NoMessage
      /\ \A x \in Executions \ {e} : run'[x] = run[x]
      /\ \A n \in Messages : ~CouldSend(e, n)' /\ ~Unrecorded(e, n)'
  BY RestingFacts DEF Returns, Sound
<1>3. /\ job' = [job EXCEPT ![m] = "done"]
      /\ UNCHANGED <<row, attempts, receiver, accepted, history, stalls, outages>>
  BY DEF Returns
<1>4. TypeOK'
  BY <1>2, <1>3 DEF Sound, TypeOK
<1>5. \A n : Settled(n)' <=> Settled(n)
  BY <1>3 DEF Settled
<1>6. RunsWork'
  BY <1>2, <1>3, <1>5 DEF Sound, RunsWork, BeforeSend, Recording
<1>7. RowsAgree' /\ ReceiptsWork'
  BY <1>1, <1>3, <1>5 DEF Sound, TypeOK, RowsAgree, ReceiptsWork
<1>8. ASSUME NEW n \in Messages PROVE Paid(n)' /\ Clear(n)'
  <2>1. Waiting(n)' <= Waiting(n)
    BY <1>1, <1>3, <1>5 DEF Waiting, Sound, TypeOK
  <2>2. lost[n] \in Nat
    BY DEF Sound, TypeOK
  <2>3. Paid(n)'
    BY <1>2, <1>3, <1>4, <1>5, <2>1, <2>2, StillPaid DEF Sound, Accounts
  <2>4. \A x \in Executions : Unrecorded(x, n)' <=> Unrecorded(x, n)
    BY <1>1, <1>2 DEF Unrecorded
  <2> QED
    BY <1>3, <1>5, <2>3, <2>4 DEF Sound, Accounts, Clear, NoneUnrecorded
<1> QED
  BY <1>4, <1>6, <1>7, <1>8 DEF Sound, Accounts

\* A job is made available while another run is engaged, and pays, or when nothing is owed.
LEMMA Available ==
    ASSUME Sound, NEW m \in Messages, NEW others \in SUBSET Executions,
           MakeAvailable(m, others),
           \A x \in Executions \ others : ~Engaged(x, m),
           UNCHANGED <<row, accepted>>
    PROVE  /\ job' = [job EXCEPT ![m] = "pending"]
           /\ lost' \in [Messages -> Nat]
           /\ \A n \in Messages : lost'[n] >= lost[n]
           /\ \A n \in Messages :
                 /\ Cardinality(Sending(n)') \in Nat
                 /\ Cardinality(Sending(n)') <= Cardinality(Sending(n))
                 => Paid(n)'
<1> DEFINE k == IF job[m] # "pending" /\ \E x \in others : Engaged(x, m) THEN 1 ELSE 0
<1>1. k \in 0 .. 1
  OBVIOUS
<1>2. job' = [job EXCEPT ![m] = "pending"] /\ lost' = [lost EXCEPT ![m] = lost[m] + k]
  BY DEF MakeAvailable, Losing
<1>3. k = 1 \/ job[m] = "pending" \/ \A x \in Executions : ~Engaged(x, m)
  OBVIOUS
<1> HIDE DEF k
<1>4. /\ lost' \in [Messages -> Nat] /\ lost'[m] = lost[m] + k
      /\ \A n \in Messages \ {m} : lost'[n] = lost[n]
  BY <1>1, <1>2 DEF Sound, TypeOK
<1>5. \A n \in Messages : lost[n] \in Nat /\ lost'[n] \in Nat /\ lost'[n] >= lost[n]
  BY <1>1, <1>4 DEF Sound, TypeOK
<1>6. ASSUME NEW n \in Messages, Cardinality(Sending(n)') \in Nat,
             Cardinality(Sending(n)') <= Cardinality(Sending(n))
      PROVE  Paid(n)'
  <2>1. Settled(n)' <=> Settled(n)
    BY DEF Settled
  <2>2. accepted[n] \in Nat /\ Paid(n) /\ Clear(n)
    BY DEF Sound, TypeOK, Accounts
  <2>3. Cardinality(Sending(n)) \in Nat
    BY SendingFinite, FS_CardinalityType
  <2>4. Waiting(n) \in 0 .. 1 /\ Waiting(n)' \in 0 .. 1
    BY DEF Waiting
  <2>5. CASE Waiting(n)' <= Waiting(n)
    BY <1>5, <1>6, <2>2, <2>3, <2>4, <2>5 DEF Paid
  <2>6. CASE n = m /\ k = 1
    BY <1>4, <1>5, <1>6, <2>2, <2>3, <2>4, <2>6 DEF Paid
  <2>7. CASE n = m /\ ~Settled(n) /\ \A x \in Executions : ~Engaged(x, m)
    <3>1. NoneUnrecorded(n)
      BY <2>7 DEF NoneUnrecorded, Unrecorded, Engaged, Recording
    <3>2. accepted[n] <= lost[n]
      BY <2>2, <2>7, <3>1 DEF Clear
    <3>3. Sending(n) = {}
      BY <2>7 DEF Sending, CouldSend, Engaged, Recording
    <3>4. Cardinality(Sending(n)) = 0
      BY <3>3, FS_EmptySet
    <3> QED
      BY <1>5, <1>6, <2>2, <2>4, <3>2, <3>4 DEF Paid
  <2>8. n # m \/ Settled(n) \/ job[n] = "pending" => Waiting(n)' <= Waiting(n)
    BY <1>2, <2>1 DEF Waiting, Sound, TypeOK
  <2> QED
    BY <1>3, <2>5, <2>6, <2>7, <2>8
<1> QED
  BY <1>2, <1>4, <1>5, <1>6

LEMMA ThrowsStep ==
    ASSUME Sound, NEW e \in Executions, Throws(e)
    PROVE  Sound'
<1> DEFINE m == run[e].msg
<1>1. run[e].at \in {"throw", "touch"} /\ m \in Messages
  <2>1. run[e] \in Runs /\ run[e].at \in {"throw", "touch"}
    BY DEF Sound, TypeOK, Throws
  <2>2. m # NoMessage
    BY <2>1 DEF Sound, TypeOK
  <2> QED
    BY <2>1, <2>2 DEF Runs
<1>2. /\ run' \in [Executions -> Runs] /\ run'[e].at = "idle" /\ run'[e].msg = NoMessage
      /\ \A x \in Executions \ {e} : run'[x] = run[x]
      /\ \A n \in Messages : ~CouldSend(e, n)' /\ ~Unrecorded(e, n)'
  BY RestingFacts DEF Throws, Sound
<1>3. /\ UNCHANGED <<row, attempts, receiver, accepted, bounced, deferred>>
      /\ UNCHANGED <<stalls, outages>>
  BY DEF Throws
<1>4. \A n : Settled(n)' <=> Settled(n)
  BY <1>3 DEF Settled
<1>5. \A n \in Messages :
        /\ Cardinality(Sending(n)) \in Nat /\ Cardinality(Sending(n)') \in Nat
        /\ Cardinality(Sending(n)') <= Cardinality(Sending(n))
  BY <1>2, <1>4, Counted
<1>6. /\ job' \in [Messages -> {"pending", "running", "done", "dead"}]
      /\ \A n \in Messages : job'[n] = "done" => job[n] = "done"
      /\ lost' \in [Messages -> Nat]
      /\ \A n \in Messages : lost'[n] >= lost[n] /\ Paid(n)'
  <2>1. CASE MakeAvailable(m, Executions \ {e})
    <3>1. ~Engaged(e, m)
      BY <1>1 DEF Engaged, BeforeSend, Recording
    <3>2. /\ job' = [job EXCEPT ![m] = "pending"] /\ lost' \in [Messages -> Nat]
          /\ \A n \in Messages : lost'[n] >= lost[n]
          /\ \A n \in Messages :
                /\ Cardinality(Sending(n)') \in Nat
                /\ Cardinality(Sending(n)') <= Cardinality(Sending(n))
                => Paid(n)'
      BY <1>1, <1>3, <2>1, <3>1, Available
    <3> QED
      BY <1>1, <1>5, <3>2 DEF Sound, TypeOK
  <2>2. CASE job' = [job EXCEPT ![m] = "dead"] /\ UNCHANGED lost
    <3>1. ASSUME NEW n \in Messages PROVE lost'[n] >= lost[n] /\ Paid(n)'
      <4>1. Waiting(n)' <= Waiting(n) /\ Waiting(n) \in Nat /\ Waiting(n)' \in Nat
        BY <1>1, <1>4, <2>2 DEF Waiting, Sound, TypeOK
      <4>2. lost[n] \in Nat /\ accepted[n] \in Nat /\ Paid(n)
        BY DEF Sound, TypeOK, Accounts
      <4> QED
        BY <1>3, <1>5, <2>2, <4>1, <4>2 DEF Paid
    <3> QED
      BY <1>1, <2>2, <3>1 DEF Sound, TypeOK
  <2> QED
    BY <2>1, <2>2 DEF Throws
<1>7. TypeOK'
  BY <1>2, <1>3, <1>6 DEF Sound, TypeOK
<1>8. RunsWork' /\ RowsAgree' /\ ReceiptsWork'
  BY <1>2, <1>3, <1>4, <1>6
     DEF Sound, RunsWork, RowsAgree, ReceiptsWork, BeforeSend, Recording
<1>9. ASSUME NEW n \in Messages PROVE Clear(n)'
  <2>1. \A x \in Executions : Unrecorded(x, n)' <=> Unrecorded(x, n)
    BY <1>1, <1>2 DEF Unrecorded
  <2>2. lost[n] \in Nat /\ lost'[n] \in Nat /\ accepted[n] \in Nat /\ Clear(n)
    BY <1>6 DEF Sound, TypeOK, Accounts
  <2>3. accepted[n] <= lost[n] => accepted'[n] <= lost'[n]
    BY <1>3, <1>6, <2>2
  <2> QED
    BY <1>3, <1>4, <2>1, <2>2, <2>3 DEF Clear, NoneUnrecorded
<1> QED
  BY <1>6, <1>7, <1>8, <1>9 DEF Sound, Accounts

LEMMA ReclaimStep ==
    ASSUME Sound, NEW m \in Messages, ReclaimStalled(m)
    PROVE  Sound'
<1>1. /\ UNCHANGED <<row, attempts, run, receiver, accepted, bounced, deferred, outages>>
      /\ MakeAvailable(m, Executions) /\ stalls' \in 0 .. MaxStalls
  BY Parameters DEF ReclaimStalled, Sound, TypeOK
<1>2. \A n : /\ Settled(n)' <=> Settled(n)
             /\ Sending(n)' = Sending(n)
             /\ NoneUnrecorded(n)' <=> NoneUnrecorded(n)
  BY <1>1 DEF Settled, Sending, CouldSend, NoneUnrecorded, Unrecorded
<1>3. \A n \in Messages : Cardinality(Sending(n)) \in Nat
  BY SendingFinite, FS_CardinalityType
<1>4. /\ job' = [job EXCEPT ![m] = "pending"] /\ lost' \in [Messages -> Nat]
      /\ \A n \in Messages : lost'[n] >= lost[n]
      /\ \A n \in Messages : /\ Cardinality(Sending(n)') \in Nat
                             /\ Cardinality(Sending(n)') <= Cardinality(Sending(n))
                             => Paid(n)'
  BY <1>1, Available
<1>5. TypeOK'
  BY <1>1, <1>4 DEF Sound, TypeOK
<1>6. RunsWork' /\ RowsAgree' /\ ReceiptsWork'
  BY <1>1, <1>2, <1>4 DEF Sound, TypeOK, RunsWork, RowsAgree, ReceiptsWork
<1>7. ASSUME NEW n \in Messages PROVE Paid(n)' /\ Clear(n)'
  <2>1. Paid(n)'
    BY <1>2, <1>3, <1>4
  <2>2. lost[n] \in Nat /\ lost'[n] \in Nat /\ accepted[n] \in Nat /\ Clear(n)
    BY <1>4 DEF Sound, TypeOK, Accounts
  <2>3. accepted[n] <= lost[n] => accepted'[n] <= lost'[n]
    BY <1>1, <1>4, <2>2
  <2> QED
    BY <1>1, <1>2, <2>1, <2>2, <2>3 DEF Clear
<1> QED
  BY <1>5, <1>6, <1>7 DEF Sound, Accounts

\* A crash of a run with an accepted send in hand is counted.
LEMMA CrashStep ==
    ASSUME Sound, NEW e \in Executions, Crash(e)
    PROVE  Sound'
<1> DEFINE m == run[e].msg
           k == IF run[e].at \in Recording /\ run[e].id # 0 THEN 1 ELSE 0
<1>1. m \in Messages
  <2>1. run[e] \in Runs /\ m # NoMessage
    BY DEF Sound, TypeOK, Crash
  <2> QED
    BY <2>1 DEF Runs
<1>2. /\ run' \in [Executions -> Runs] /\ run'[e].at = "idle" /\ run'[e].msg = NoMessage
      /\ \A x \in Executions \ {e} : run'[x] = run[x]
      /\ \A n \in Messages : ~CouldSend(e, n)' /\ ~Unrecorded(e, n)'
  BY RestingFacts DEF Crash, Sound
<1>3. /\ UNCHANGED <<row, queue, receiver, accepted, bounced, deferred, stalls>>
      /\ outages' \in 0 .. MaxOutages
  BY Parameters DEF Crash, Sound, TypeOK
<1>4. \A n : Settled(n)' <=> Settled(n)
  BY <1>3 DEF Settled
<1>5. k \in 0 .. 1 /\ (Unrecorded(e, m) => k = 1)
  BY DEF Unrecorded, Recording
<1>6. /\ lost' \in [Messages -> Nat] /\ lost'[m] = lost[m] + k
      /\ \A n \in Messages \ {m} : lost'[n] = lost[n]
  <2>1. lost' = [lost EXCEPT ![m] = lost[m] + k]
    BY DEF Crash, Losing
  <2> HIDE DEF k
  <2> QED
    BY <1>1, <1>5, <2>1 DEF Sound, TypeOK
<1> HIDE DEF k
<1>7. \A n \in Messages : lost[n] \in Nat /\ lost'[n] \in Nat /\ lost'[n] >= lost[n]
  BY <1>1, <1>5, <1>6 DEF Sound, TypeOK
<1>8. TypeOK'
  BY <1>2, <1>3, <1>6 DEF Sound, TypeOK
<1>9. RunsWork' /\ RowsAgree' /\ ReceiptsWork'
  BY <1>2, <1>3, <1>4
     DEF Sound, RunsWork, RowsAgree, ReceiptsWork, BeforeSend, Recording
<1>10. ASSUME NEW n \in Messages PROVE Paid(n)' /\ Clear(n)'
  <2>1. Waiting(n)' = Waiting(n) /\ Waiting(n) \in Nat
    BY <1>3, <1>4 DEF Waiting
  <2>2. accepted[n] \in Nat /\ Paid(n) /\ Clear(n)
    BY DEF Sound, TypeOK, Accounts
  <2>3. Paid(n)'
    BY <1>2, <1>3, <1>4, <1>7, <1>8, <2>1, <2>2, StillPaid DEF Sound
  <2>4. CASE Unrecorded(e, n)
    <3>1. n = m /\ k = 1
      BY <1>5, <2>4 DEF Unrecorded
    <3>2. Cardinality(Sending(n)) \in Nat
      BY SendingFinite, FS_CardinalityType
    <3>3. accepted'[n] <= lost'[n]
      BY <1>3, <1>6, <1>7, <2>1, <2>2, <3>1, <3>2 DEF Paid
    <3> QED
      BY <2>3, <3>3 DEF Clear
  <2>5. CASE ~Unrecorded(e, n)
    <3>1. \A x \in Executions : Unrecorded(x, n)' <=> Unrecorded(x, n)
      BY <1>2, <2>5 DEF Unrecorded
    <3>2. accepted[n] <= lost[n] => accepted'[n] <= lost'[n]
      BY <1>3, <1>7, <2>2
    <3> QED
      BY <1>3, <1>4, <2>2, <2>3, <3>1, <3>2 DEF Clear, NoneUnrecorded
  <2> QED
    BY <2>4, <2>5
<1> QED
  BY <1>8, <1>9, <1>10 DEF Sound, Accounts

-----------------------------------------------------------------------------
(* Receipts.                                                               *)

LEMMA ReadReceiptStep ==
    ASSUME Sound, NEW v \in Receivers, ReadReceipt(v)
    PROVE  Sound'
<1>1. PICK m \in Messages, s \in Gone \cup {"FAILED"} :
        /\ pid[m] # 0
        /\ receiver' = [receiver EXCEPT ![v] = [msg |-> m, status |-> s]]
        /\ UNCHANGED <<row, queue, run, accepted, history, stalls, outages>>
  BY DEF ReadReceipt
<1>2. s \in MessageStatuses
  BY DEF Gone, MessageStatuses, STATUS_RANK
<1>3. TypeOK'
  BY <1>1, <1>2 DEF Sound, TypeOK
<1>4. RunsWork' /\ RowsAgree'
  BY <1>1 DEF Sound, RunsWork, RowsAgree, Settled
<1>5. ReceiptsWork'
  BY <1>1 DEF Sound, TypeOK, ReceiptsWork
<1>6. Accounts'
  BY <1>1 DEF Sound, Accounts, Paid, Clear, NoneUnrecorded, Unrecorded, Sending, CouldSend,
              Settled, Waiting
<1> QED
  BY <1>3, <1>4, <1>5, <1>6 DEF Sound

LEMMA ApplyReceiptStep ==
    ASSUME Sound, NEW v \in Receivers, ApplyReceipt(v)
    PROVE  Sound'
<1> DEFINE m == receiver[v].msg
           s == receiver[v].status
<1>1. m \in Messages /\ pid[m] # 0 /\ s \in MessageStatuses
  BY DEF Sound, TypeOK, ReceiptsWork, ApplyReceipt
<1>2. /\ status' \in [Messages -> MessageStatuses] /\ status'[m] = s
      /\ \A n \in Messages \ {m} : status'[n] = status[n]
  BY <1>1 DEF ApplyReceipt, Sound, TypeOK
<1>3. /\ bounced' \subseteq Messages /\ bounced \subseteq bounced'
      /\ s = "FAILED" => m \in bounced'
  BY <1>1 DEF ApplyReceipt, Sound, TypeOK
<1>4. /\ receiver' = [receiver EXCEPT ![v] = Quiet]
      /\ UNCHANGED <<pid, uncertain, queue, run, accepted, lost, deferred>>
      /\ UNCHANGED <<stalls, outages>>
  BY DEF ApplyReceipt
<1>5. Quiet \in [msg : Messages \cup {NoMessage}, status : MessageStatuses]
  BY DEF Quiet, MessageStatuses, STATUS_RANK
<1>6. TypeOK'
  BY <1>2, <1>3, <1>4, <1>5 DEF Sound, TypeOK
<1>7. \A n : /\ Settled(n)' <=> Settled(n)
             /\ Sending(n)' = Sending(n)
             /\ NoneUnrecorded(n)' <=> NoneUnrecorded(n)
             /\ Waiting(n)' = Waiting(n)
  BY <1>4 DEF Settled, Sending, CouldSend, NoneUnrecorded, Unrecorded, Waiting
<1>8. RunsWork' /\ RowsAgree'
  BY <1>1, <1>2, <1>4, <1>7 DEF Sound, RunsWork, RowsAgree
<1>9. ReceiptsWork'
  BY <1>4 DEF Sound, TypeOK, ReceiptsWork
<1>10. ASSUME NEW n \in Messages PROVE Paid(n)' /\ Clear(n)'
  <2>1. Paid(n)'
    BY <1>4, <1>7 DEF Sound, Accounts, Paid
  <2>2. status'[n] = "FAILED" /\ n \notin bounced' => status[n] = "FAILED" /\ n \notin bounced
    BY <1>2, <1>3
  <2> QED
    BY <1>4, <1>7, <2>1, <2>2 DEF Sound, Accounts, Clear
<1> QED
  BY <1>6, <1>8, <1>9, <1>10 DEF Sound, Accounts

-----------------------------------------------------------------------------
(* The theorems.                                                           *)

LEMMA SoundStep == Sound /\ [Next]_vars => Sound'
<1> SUFFICES ASSUME Sound, [Next]_vars PROVE Sound'
  OBVIOUS
<1>1. CASE UNCHANGED vars
  <2>1. TypeOK' /\ RunsWork' /\ RowsAgree' /\ ReceiptsWork'
    BY <1>1 DEF vars, Sound, TypeOK, RunsWork, RowsAgree, ReceiptsWork, Settled
  <2>2. \A n : /\ Sending(n)' = Sending(n)
               /\ NoneUnrecorded(n)' <=> NoneUnrecorded(n)
               /\ Waiting(n)' = Waiting(n)
    BY <1>1 DEF vars, Sending, CouldSend, NoneUnrecorded, Unrecorded, Waiting, Settled
  <2> QED
    BY <1>1, <2>1, <2>2 DEF vars, Sound, Accounts, Paid, Clear, Settled
<1>2. ASSUME NEW e \in Executions, Start(e) \/ dispatchOutboundMessage(e) \/ Crash(e)
      PROVE  Sound'
  BY <1>2, StartStep, ReadStep, MoveOnStep, WriteSendingStep, AnswerStep, PersistStep,
     MarkUncertainStep, MarkFailedStep, ReturnsStep, ThrowsStep, CrashStep
     DEF dispatchOutboundMessage
<1>3. ASSUME NEW m \in Messages, ReclaimStalled(m) PROVE Sound'
  BY <1>3, ReclaimStep
<1>4. ASSUME NEW v \in Receivers, ReadReceipt(v) \/ ApplyReceipt(v) PROVE Sound'
  BY <1>4, ReadReceiptStep, ApplyReceiptStep
<1> QED
  BY <1>1, <1>2, <1>3, <1>4 DEF Next

LEMMA SpecIsSound == Spec => []Sound
BY SoundInit, SoundStep, PTL DEF Spec

(* Types, and that an execution holds a message exactly while it runs,     *)
(* hold in every state of dispatchOutboundMessage and the receipts.        *)
THEOREM TypeCorrect == Spec => []TypeOK
<1>1. Sound => TypeOK
  BY DEF Sound
<1> QED
  BY <1>1, SpecIsSound, PTL

(* The four checks of dispatchOutboundMessage, the three attempts to       *)
(* record and the flag allow no copy beyond the first that is not paid for *)
(* by a lost record or by a job handed out beside a run.                   *)
THEOREM OneCopyPerLossHolds == Spec => []OneCopyPerLoss
<1>1. Sound => OneCopyPerLoss
  <2> SUFFICES ASSUME Sound, NEW m \in Messages PROVE accepted[m] <= 1 + lost[m]
    BY DEF OneCopyPerLoss
  <2>1. Cardinality(Sending(m)) \in Nat /\ Waiting(m) \in Nat
    BY SendingFinite, FS_CardinalityType DEF Waiting
  <2>2. accepted[m] \in Nat /\ lost[m] \in Nat /\ Paid(m)
    BY DEF Sound, TypeOK, Accounts
  <2> QED
    BY <2>1, <2>2 DEF Paid
<1> QED
  BY <1>1, SpecIsSound, PTL

(* A job that is done has left its message with the provider's id or       *)
(* flagged uncertain.                                                      *)
THEOREM DoneMeansAccountedForHolds == Spec => []DoneMeansAccountedFor
<1>1. Sound => DoneMeansAccountedFor
  BY DEF Sound, RowsAgree, DoneMeansAccountedFor, Settled
<1> QED
  BY <1>1, SpecIsSound, PTL

(* SENT, DELIVERED and READ say what the provider has, and FAILED what it  *)
(* has not, whatever the interleaving of runs, reports and receipts.       *)
THEOREM StatusIsTrueHolds == Spec => []StatusIsTrue
<1>1. Sound => StatusIsTrue
  <2> SUFFICES ASSUME Sound, NEW m \in Messages
               PROVE  /\ status[m] \in Gone => accepted[m] > 0
                      /\ /\ status[m] = "FAILED" /\ m \notin bounced /\ ~uncertain[m]
                         /\ \A e \in Executions : ~Engaged(e, m)
                         => accepted[m] <= lost[m]
    BY DEF StatusIsTrue
  <2>1. accepted[m] \in Nat /\ Clear(m)
    BY DEF Sound, TypeOK, Accounts
  <2>2. status[m] \in Gone => accepted[m] > 0
    BY <2>1 DEF Sound, RowsAgree
  <2>3. (\A e \in Executions : ~Engaged(e, m)) => NoneUnrecorded(m)
    BY DEF Engaged, NoneUnrecorded, Unrecorded, Recording
  <2> QED
    BY <2>1, <2>2, <2>3 DEF Clear
<1> QED
  BY <1>1, SpecIsSound, PTL
=============================================================================
