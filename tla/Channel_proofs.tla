--------------------------- MODULE Channel_proofs ----------------------------
(***************************************************************************)
(* Theorems about Channel, for any workspaces, accounts and numbers and    *)
(* any number of requests in flight.                                       *)
(***************************************************************************)
EXTENDS Channel, TLAPS

USE DEF rows, local, history

(***************************************************************************)
(* What the invariant adds to the properties.                              *)
(***************************************************************************)

\* Requests that write to an account know which; one that has begun knows whose.
Aimed ==
    \A r \in Requests :
        /\ at[r] \in Connecting => /\ req[r].owner \in Workspaces
                                   /\ req[r].on \in Wabas /\ req[r].number \in Phones
        /\ at[r] \in {"finish", "disconnectAccount", "disconnectPhones", "error"} =>
              req[r].on \in Wabas
        /\ at[r] = "sending" => req[r].number \in Phones /\ req[r].owner \in Workspaces

\* A number that a workspace holds is on an account.
Placed ==
    \A p \in Phones : /\ phone[p].owner # None => phone[p].of \in Wabas
                      /\ phone[p].of # None => phone[p].owner \in Workspaces

\* A number that was connected and left alone is on, and its account has a token.
StillOn(p) == phone[p].live /\ phone[p].of \in Wabas /\ account[phone[p].of].token

SettledIsOn == \A p \in settled : StillOn(p)

\* Only a check that saw no token calls an account that has one DISCONNECTED.
TokenIsHeard ==
    \A w \in Wabas :
        account[w].token => account[w].status # "DISCONNECTED" \/ w \in misjudged

\* Without a token only a health check says CONNECTED.
NoTokenNoClaim ==
    \A w \in Wabas : account[w].token \/ w \in byCheck \/ account[w].status # "CONNECTED"

\* Two connections that write to one account tangle it.
OneWriter ==
    \A r1, r2 \in Requests :
        at[r1] \in Writing /\ at[r2] \in Writing /\ req[r1].on = req[r2].on
            => r1 = r2 \/ req[r1].on \in tangled

Undisturbed(w) == account[w].status = "CONNECTED" /\ w \notin byCheck \cup tangled

\* What a connection has established by each stage, when nothing disturbs it.
OnCourse(r) ==
    LET k == req[r] IN
    at[r] \in Writing /\ Undisturbed(k.on) =>
        /\ k.confirmed /\ k.registered
        /\ at[r] # "upsertPhone" => phone[k.number].of = k.on /\ phone[k.number].owner = k.owner
        /\ at[r] \in {"recordState", "markRegistered"} => k.found
        /\ at[r] = "markRegistered" => account[k.on].verified

AllOnCourse == \A r \in Requests : OnCourse(r)

Inv == /\ TypeOK /\ Aimed /\ Placed /\ SettledIsOn /\ NoTokenNoChannel /\ TokenIsHeard /\ NoTokenNoClaim
       /\ OneWriter /\ AllOnCourse /\ ConnectedIsProven

-----------------------------------------------------------------------------
(* Types.                                                                  *)

LEMMA Known0 == Blank \in Known
BY DEF Blank, Known, ChannelStatus

LEMMA BeginTypes ==
  ASSUME TypeOK, NEW r \in Requests, NEW stage \in Stages, NEW known \in Known,
         Begin(r, stage, known)
  PROVE  at' \in [Requests -> Stages] /\ req' \in [Requests -> Known] /\ begun' \in 0 .. MaxRequests
BY Parameters DEF TypeOK, Begin

LEMMA LearnTypes ==
  ASSUME TypeOK, NEW r \in Requests, NEW stage \in Stages, NEW known \in Known,
         Learn(r, stage, known)
  PROVE  at' \in [Requests -> Stages] /\ req' \in [Requests -> Known] /\ begun' \in 0 .. MaxRequests
BY Parameters DEF TypeOK, Learn

LEMMA MoveTypes ==
  ASSUME TypeOK, NEW r \in Requests, NEW stage \in Stages, Move(r, stage)
  PROVE  at' \in [Requests -> Stages] /\ req' \in [Requests -> Known] /\ begun' \in 0 .. MaxRequests
BY Parameters DEF TypeOK, Move

LEMMA EndTypes ==
  ASSUME TypeOK, NEW r \in Requests, End(r)
  PROVE  at' \in [Requests -> Stages] /\ req' \in [Requests -> Known] /\ begun' \in 0 .. MaxRequests
BY LearnTypes, Known0 DEF End, Stages

-----------------------------------------------------------------------------
LEMMA InitInv == Init => Inv
<1> SUFFICES ASSUME Init PROVE Inv
  OBVIOUS
<1>1. TypeOK
  BY Known0, Parameters DEF Init, TypeOK, Accounts, Numbers, ChannelStatus, Stages
<1>2. \A r \in Requests : at[r] = "idle"
  BY DEF Init
<1>3. Aimed /\ OneWriter /\ AllOnCourse
  BY <1>2 DEF Aimed, OneWriter, AllOnCourse, OnCourse, Connecting, Writing
<1>4. Placed /\ SettledIsOn /\ NoTokenNoChannel /\ TokenIsHeard /\ NoTokenNoClaim /\ ConnectedIsProven
  BY DEF Init, Placed, SettledIsOn, NoTokenNoChannel, TokenIsHeard, NoTokenNoClaim, ConnectedIsProven
<1> QED
  BY <1>1, <1>3, <1>4 DEF Inv

-----------------------------------------------------------------------------
\* A number stays on where neither it nor a token is switched off.
LEMMA StaysOn ==
  ASSUME NEW p \in Phones, StillOn(p),
         phone'[p].of = phone[p].of, phone'[p].live = phone[p].live,
         \A w \in Wabas : account[w].token => account'[w].token
  PROVE  StillOn(p)'
<1>1. PICK w \in Wabas : w = phone[p].of
  BY DEF StillOn
<1> QED
  BY <1>1 DEF StillOn

-----------------------------------------------------------------------------
\* A request that only learns, or ends: nothing of the rows changes, and what
\* was being written to an account and is given up tangles it.
LEMMA LocalKeeps ==
  ASSUME Inv, TypeOK', NEW r \in Requests,
         UNCHANGED <<account, phone, byCheck, outrun, settled, misjudged>>,
         \A q \in Requests \ {r} : at'[q] = at[q] /\ req'[q] = req[q],
         at'[r] \notin Writing,
         tangled' = IF at[r] \in Writing THEN tangled \cup {req[r].on} ELSE tangled,
         Aimed'
  PROVE  Inv'
<1>1. (Placed /\ NoTokenNoChannel /\ TokenIsHeard /\ NoTokenNoClaim)'
  BY DEF Inv, Placed, NoTokenNoChannel, TokenIsHeard, NoTokenNoClaim
<1>2. SettledIsOn'
  BY DEF Inv, SettledIsOn, StillOn
<1>3. OneWriter'
  BY DEF Inv, OneWriter
<1>4. AllOnCourse'
  BY DEF Inv, AllOnCourse, OnCourse, Undisturbed
<1>5. ConnectedIsProven'
  <2> SUFFICES ASSUME NEW w \in Wabas, Undisturbed(w)', ~InStage(w, Writing)'
               PROVE  (account[w].verified /\ \E p \in NumbersOf(w) : phone[p].registered)'
    BY DEF ConnectedIsProven, Undisturbed
  <2>1. Undisturbed(w)
    BY DEF Undisturbed
  <2>2. ~InStage(w, Writing)
    BY DEF InStage, On, Undisturbed
  <2> QED
    BY <2>1, <2>2 DEF Inv, ConnectedIsProven, Undisturbed, NumbersOf
<1> QED
  BY <1>1, <1>2, <1>3, <1>4, <1>5 DEF Inv

\* The statements that open and close a connection's writing.
LEMMA UpsertAccountKeeps ==
  ASSUME Inv, TypeOK', NEW r \in Requests, upsertAccount(r), account[req[r].on].owner \in {None, req[r].owner}
  PROVE  Inv'
<1> DEFINE k == req[r]
<1>0. /\ at[r] = "upsertAccount" /\ k.on \in Wabas /\ k.owner \in Workspaces /\ k.number \in Phones
      /\ k \in Known
  BY DEF Inv, Aimed, upsertAccount, Connecting, TypeOK
<1>1. /\ account' = [account EXCEPT ![k.on] = [@ EXCEPT !.owner = k.owner, !.token = TRUE,
                                                       !.status = connectionStatus(k)]]
      /\ byCheck' = byCheck \ {k.on} /\ outrun' = outrun \ {k.on}
      /\ misjudged' = misjudged \ {k.on}
      /\ tangled' = Set(tangled, k.on, InStage(k.on, Writing))
      /\ at' = [at EXCEPT ![r] = "upsertPhone"] /\ req' = req /\ phone' = phone /\ settled' = settled
  BY DEF upsertAccount, Move
<1>2. /\ account \in [Wabas -> Accounts] /\ at \in [Requests -> Stages]
      /\ \A w \in Wabas : account[w] \in Accounts
  BY DEF Inv, TypeOK
<1>3. /\ account'[k.on].token /\ account'[k.on].status = connectionStatus(k)
      /\ \A w \in Wabas : w # k.on => account'[w] = account[w]
  BY <1>0, <1>1, <1>2 DEF Accounts
<1>4. connectionStatus(k) \in {"CONNECTED", "DEGRADED"}
  BY DEF connectionStatus
<1>5. (Aimed /\ Placed)'
  BY <1>0, <1>1, <1>2 DEF Inv, Aimed, Placed, Connecting, Writing
<1>6. SettledIsOn'
  BY <1>0, <1>1, <1>2, <1>3, <1>4 DEF Inv, SettledIsOn, StillOn
<1>7. (NoTokenNoChannel /\ TokenIsHeard /\ NoTokenNoClaim)'
  BY <1>1, <1>3, <1>4 DEF Inv, NoTokenNoChannel, TokenIsHeard, NoTokenNoClaim
<1>8. \A q \in Requests \ {r} : at[q] \in Writing /\ req[q].on = k.on => k.on \in tangled'
  BY <1>1 DEF InStage, On, Set
<1>9. tangled \ {k.on} \subseteq tangled'
  BY <1>1 DEF Set
<1>10. OneWriter'
  <2> SUFFICES ASSUME NEW r1 \in Requests, NEW r2 \in Requests, r1 # r2,
                      at'[r1] \in Writing, at'[r2] \in Writing, req[r1].on = req[r2].on
               PROVE  req[r1].on \in tangled'
    BY <1>1 DEF OneWriter
  <2>1. CASE req[r1].on = k.on
    BY <2>1, <1>1, <1>2, <1>8
  <2>2. CASE req[r1].on # k.on
    <3>1. r1 # r /\ r2 # r /\ at[r1] \in Writing /\ at[r2] \in Writing
      BY <2>2, <1>1, <1>2
    <3> QED
      BY <3>1, <2>2, <1>9 DEF Inv, OneWriter
  <2> QED
    BY <2>1, <2>2
<1>11. AllOnCourse'
  <2> SUFFICES ASSUME NEW q \in Requests PROVE OnCourse(q)'
    BY DEF AllOnCourse
  <2>1. CASE q = r
    BY <2>1, <1>0, <1>1, <1>2, <1>3 DEF OnCourse, Undisturbed, connectionStatus, Writing
  <2>2. CASE q # r /\ req[q].on = k.on
    BY <2>2, <1>1, <1>2, <1>8 DEF OnCourse, Undisturbed
  <2>3. CASE q # r /\ req[q].on # k.on
    <3> SUFFICES ASSUME at[q] \in Writing, Undisturbed(req[q].on)' PROVE OnCourse(q)'
      BY <2>3, <1>1, <1>2 DEF OnCourse
    <3>1. req[q].on \in Wabas
      BY DEF Inv, Aimed, Connecting
    <3>2. Undisturbed(req[q].on) /\ account'[req[q].on] = account[req[q].on]
      BY <2>3, <3>1, <1>1, <1>3, <1>9 DEF Undisturbed
    <3> QED
      BY <2>3, <3>2, <1>1, <1>2 DEF Inv, AllOnCourse, OnCourse
  <2> QED
    BY <2>1, <2>2, <2>3
<1>12. ConnectedIsProven'
  <2> SUFFICES ASSUME NEW w \in Wabas, Undisturbed(w)', ~InStage(w, Writing)'
               PROVE  (account[w].verified /\ \E p \in NumbersOf(w) : phone[p].registered)'
    BY DEF ConnectedIsProven, Undisturbed
  <2>1. w # k.on
    BY <1>0, <1>1, <1>2 DEF InStage, On, Writing
  <2>2. Undisturbed(w) /\ account'[w] = account[w] /\ ~InStage(w, Writing)
    BY <2>1, <1>1, <1>2, <1>3, <1>9 DEF Undisturbed, InStage, On
  <2> QED
    BY <2>2, <1>1 DEF Inv, ConnectedIsProven, Undisturbed, NumbersOf
<1> QED
  BY <1>5, <1>6, <1>7, <1>10, <1>11, <1>12 DEF Inv

LEMMA UpsertPhoneKeeps ==
  ASSUME Inv, TypeOK', NEW r \in Requests, upsertPhone(r)
  PROVE  Inv'
<1> DEFINE k == req[r]
           before == phone[k.number].of
<1>0. /\ at[r] = "upsertPhone" /\ k.on \in Wabas /\ k.owner \in Workspaces /\ k.number \in Phones
  BY DEF Inv, Aimed, upsertPhone, Connecting, Writing
<1>1. /\ phone' = [phone EXCEPT ![k.number] = [@ EXCEPT !.owner = k.owner, !.of = k.on, !.live = TRUE]]
      /\ tangled' = (IF before \in {None, k.on} THEN tangled ELSE tangled \cup {before})
      /\ settled' = Set(settled, k.number, account[k.on].token)
      /\ at' = [at EXCEPT ![r] = "readBack"] /\ req' = req
      /\ UNCHANGED <<account, byCheck, outrun, misjudged>>
  BY DEF upsertPhone, Move
<1>2. /\ at \in [Requests -> Stages] /\ \A p \in Phones : phone[p] \in Numbers
      /\ phone \in [Phones -> Numbers] /\ tangled \subseteq tangled'
  BY <1>1 DEF Inv, TypeOK
<1>3. /\ phone'[k.number].of = k.on /\ phone'[k.number].owner = k.owner /\ phone'[k.number].live
      /\ \A p \in Phones : p # k.number => phone'[p] = phone[p]
      /\ phone'[k.number].registered = phone[k.number].registered
  BY <1>0, <1>1, <1>2 DEF Numbers
<1>4. \A q \in Requests : (at'[q] \in Writing <=> at[q] \in Writing)
                          /\ (q # r => at'[q] = at[q])
  BY <1>0, <1>1, <1>2 DEF Writing
<1>5. (Aimed /\ Placed)'
  BY <1>0, <1>1, <1>2, <1>3, ZenonT(30) DEF Inv, Aimed, Placed, Connecting, Writing
<1>6. SettledIsOn'
  <2>1. ASSUME NEW p \in settled', p = k.number PROVE StillOn(p)'
    <3>1. account[k.on].token
      BY <2>1, <1>1 DEF Set
    <3> QED
      BY <2>1, <3>1, <1>0, <1>1, <1>3 DEF StillOn
  <2>2. ASSUME NEW p \in settled', p # k.number PROVE StillOn(p)'
    <3>1. p \in settled /\ p \in Phones
      BY <2>2, <1>1 DEF Set, Inv, TypeOK
    <3>2. StillOn(p) /\ phone'[p] = phone[p]
      BY <2>2, <3>1, <1>3 DEF Inv, SettledIsOn
    <3> QED
      BY <3>2, <1>1 DEF StillOn
  <2> QED
    BY <2>1, <2>2 DEF SettledIsOn
<1>7. (NoTokenNoChannel /\ TokenIsHeard /\ NoTokenNoClaim)'
  BY <1>1 DEF Inv, NoTokenNoChannel, TokenIsHeard, NoTokenNoClaim
<1>8. OneWriter'
  BY <1>1, <1>2, <1>4 DEF Inv, OneWriter
<1>9. \A w \in Wabas : Undisturbed(w)' => Undisturbed(w) /\ (w = k.on \/ w # before)
  BY <1>0, <1>1, Parameters DEF Undisturbed
<1>10. AllOnCourse'
  <2> SUFFICES ASSUME NEW q \in Requests, at[q] \in Writing, Undisturbed(req[q].on)' PROVE OnCourse(q)'
    BY <1>1, <1>4 DEF AllOnCourse, OnCourse
  <2>0. req[q].number \in Phones
    BY DEF Inv, Aimed, Connecting
  <2>1. PICK w \in Wabas : w = req[q].on
    BY DEF Inv, Aimed, Connecting
  <2>2. Undisturbed(w)'
    BY <2>1, <1>1 DEF Undisturbed
  <2>3. Undisturbed(w) /\ OnCourse(q) /\ (w = k.on \/ w # before)
    BY <2>2, <1>9 DEF Inv, AllOnCourse
  <2>4. CASE q = r
    BY <2>1, <2>3, <2>4, <1>0, <1>1, <1>2, <1>3 DEF OnCourse, Writing
  <2>5. CASE q # r
    <3>1. w # k.on
      BY <2>1, <2>3, <2>5, <1>0 DEF Inv, OneWriter, Undisturbed, Writing
    <3>2. at[q] # "upsertPhone" => phone[req[q].number].of = w
      BY <2>1, <2>3 DEF OnCourse
    <3>3. at[q] # "upsertPhone" => req[q].number # k.number
      BY <2>3, <3>1, <3>2
    <3>4. at[q] # "upsertPhone" => phone'[req[q].number] = phone[req[q].number]
      BY <2>0, <3>3, <1>3
    <3> QED
      BY <2>1, <2>3, <2>5, <3>4, <1>1, <1>4 DEF OnCourse
  <2> QED
    BY <2>4, <2>5
<1>11. ConnectedIsProven'
  <2> SUFFICES ASSUME NEW w \in Wabas, Undisturbed(w)', ~InStage(w, Writing)'
               PROVE  (account[w].verified /\ \E p \in NumbersOf(w) : phone[p].registered)'
    BY DEF ConnectedIsProven, Undisturbed
  <2>1. w # k.on /\ w # before /\ Undisturbed(w) /\ ~InStage(w, Writing)
    BY <1>0, <1>1, <1>4, <1>9 DEF InStage, On, Writing
  <2>2. PICK p \in NumbersOf(w) : phone[p].registered
    BY <2>1 DEF Inv, ConnectedIsProven, Undisturbed
  <2>3. p # k.number /\ p \in Phones
    BY <2>1 DEF NumbersOf
  <2> QED
    BY <2>1, <2>2, <2>3, <1>1, <1>3 DEF Inv, ConnectedIsProven, Undisturbed, NumbersOf
<1> QED
  BY <1>5, <1>6, <1>7, <1>8, <1>10, <1>11 DEF Inv

\* The later stages of a connection.
LEMMA ReadBackKeeps ==
  ASSUME Inv, TypeOK', NEW r \in Requests, readBack(r)
  PROVE  Inv'
<1> DEFINE k == req[r]
<1>0. /\ at[r] = "readBack" /\ k.on \in Wabas /\ k.owner \in Workspaces /\ k.number \in Phones
      /\ k \in Known
  BY DEF Inv, Aimed, readBack, Connecting, Writing, TypeOK
<1>1. /\ req' = [req EXCEPT ![r] = [k EXCEPT !.found = (phone[k.number].of = k.on)]]
      /\ at' = [at EXCEPT ![r] = "recordState"]
      /\ UNCHANGED <<rows, history>>
  BY DEF readBack, Learn
<1>2. at \in [Requests -> Stages] /\ req \in [Requests -> Known]
  BY DEF Inv, TypeOK
<1>3. /\ \A q \in Requests : req'[q].on = req[q].on /\ (at'[q] \in Writing <=> at[q] \in Writing)
      /\ \A q \in Requests \ {r} : at'[q] = at[q] /\ req'[q] = req[q]
      /\ req'[r].owner = k.owner /\ req'[r].number = k.number /\ req'[r].confirmed = k.confirmed
      /\ req'[r].registered = k.registered /\ at'[r] = "recordState"
      /\ req'[r].found = (phone[k.number].of = k.on) 
  BY <1>0, <1>1, <1>2 DEF Known, Writing
<1>4. (Aimed /\ Placed)'
  BY <1>0, <1>1, <1>3 DEF Inv, Aimed, Placed, Connecting, Writing
<1>5. SettledIsOn'
  BY <1>1, StaysOn DEF Inv, TypeOK, SettledIsOn
<1>6. (NoTokenNoChannel /\ TokenIsHeard /\ NoTokenNoClaim /\ OneWriter)'
  BY <1>1, <1>3 DEF Inv, NoTokenNoChannel, TokenIsHeard, NoTokenNoClaim, OneWriter
<1>7. AllOnCourse'
  <2> SUFFICES ASSUME NEW q \in Requests PROVE OnCourse(q)'
    BY DEF AllOnCourse
  <2>1. CASE q = r
    <3>1. OnCourse(r)
      BY DEF Inv, AllOnCourse
    <3> SUFFICES ASSUME Undisturbed(k.on) PROVE OnCourse(r)'
      BY <2>1, <1>1, <1>3 DEF OnCourse, Undisturbed
    <3>2. k.confirmed /\ k.registered /\ phone[k.number].of = k.on /\ phone[k.number].owner = k.owner
      BY <3>1, <1>0 DEF OnCourse, Writing
    <3> QED
      BY <3>2, <1>0, <1>1, <1>3 DEF OnCourse
  <2>2. CASE q # r
    BY <2>2, <1>1, <1>3 DEF Inv, AllOnCourse, OnCourse, Undisturbed
  <2> QED
    BY <2>1, <2>2
<1>8. ConnectedIsProven'
  BY <1>1, <1>3 DEF Inv, ConnectedIsProven, InStage, On, NumbersOf
<1> QED
  BY <1>4, <1>5, <1>6, <1>7, <1>8 DEF Inv

LEMMA RecordStateKeeps ==
  ASSUME Inv, TypeOK', NEW r \in Requests, updateAccountConnectionState(r)
  PROVE  Inv'
<1> DEFINE k == req[r]
           on == k.found /\ k.registered
<1>0. /\ at[r] = "recordState" /\ k.on \in Wabas /\ k.owner \in Workspaces /\ k.number \in Phones
      /\ OnCourse(r)
  BY DEF Inv, Aimed, updateAccountConnectionState, Connecting, Writing, AllOnCourse
<1>1. /\ account' = [account EXCEPT ![k.on].verified = k.confirmed]
      /\ at' = [at EXCEPT ![r] = IF on THEN "markRegistered" ELSE "idle"]
      /\ req' = IF on THEN req ELSE [req EXCEPT ![r] = Blank]
      /\ UNCHANGED <<phone, history>>
  BY DEF updateAccountConnectionState, Learn, Move, End
<1>2. at \in [Requests -> Stages] /\ req \in [Requests -> Known] /\ \A w \in Wabas : account[w] \in Accounts
      /\ account \in [Wabas -> Accounts]
  BY DEF Inv, TypeOK
<1>3. /\ \A w \in Wabas : /\ account'[w].token = account[w].token
                          /\ account'[w].status = account[w].status
                          /\ w # k.on => account'[w] = account[w]
      /\ account'[k.on].verified = k.confirmed
  BY <1>0, <1>1, <1>2 DEF Accounts
<1>4. \A q \in Requests \ {r} : at'[q] = at[q] /\ req'[q] = req[q]
  BY <1>1, <1>2
<1>5. \/ at'[r] = "idle"
      \/ at'[r] = "markRegistered" /\ req'[r] = k /\ on
  <2>1. CASE on
    BY <2>1, <1>1, <1>2
  <2>2. CASE ~on
    BY <2>2, <1>1, <1>2
  <2> QED
    BY <2>1, <2>2
<1>6. \A w \in Wabas : Undisturbed(w)' <=> Undisturbed(w)
  BY <1>1, <1>3 DEF Undisturbed
<1>7. (Aimed /\ Placed)'
  BY <1>0, <1>1, <1>4, <1>5 DEF Inv, Aimed, Placed, Connecting, Writing
<1>8. SettledIsOn'
  BY <1>1, <1>3, StaysOn DEF Inv, TypeOK, SettledIsOn
<1>9. (NoTokenNoChannel /\ TokenIsHeard /\ NoTokenNoClaim)'
  BY <1>1, <1>3 DEF Inv, NoTokenNoChannel, TokenIsHeard, NoTokenNoClaim
<1>10. OneWriter'
  BY <1>0, <1>1, <1>4, <1>5 DEF Inv, OneWriter, Writing
<1>11. AllOnCourse'
  <2> SUFFICES ASSUME NEW q \in Requests, at'[q] \in Writing, Undisturbed(req[q].on)' PROVE OnCourse(q)'
    BY DEF AllOnCourse, OnCourse
  <2>1. CASE q = r
    <3>1. at'[r] = "markRegistered" /\ req'[r] = k /\ on
      BY <2>1, <1>5 DEF Writing
    <3>2. Undisturbed(k.on)
      BY <2>1, <3>1, <1>0, <1>1, <1>3 DEF Undisturbed
    <3> QED
      BY <2>1, <3>1, <3>2, <1>0, <1>1, <1>3 DEF OnCourse, Writing
  <2>2. CASE q # r
    <3>1. PICK w \in Wabas : w = req[q].on
      BY <2>2, <1>4 DEF Inv, Aimed, Connecting
    <3>2. Undisturbed(w)
      BY <2>2, <3>1, <1>4, <1>6 DEF Undisturbed
    <3>3. w # k.on
      BY <2>2, <3>1, <3>2, <1>0, <1>4 DEF Inv, OneWriter, Undisturbed, Writing
    <3> QED
      BY <2>2, <3>1, <3>2, <3>3, <1>1, <1>3, <1>4 DEF Inv, AllOnCourse, OnCourse
  <2> QED
    BY <2>1, <2>2
<1>12. ConnectedIsProven'
  <2> SUFFICES ASSUME NEW w \in Wabas, Undisturbed(w), ~InStage(w, Writing)'
               PROVE  account'[w].verified /\ \E p \in NumbersOf(w)' : phone'[p].registered
    BY <1>6 DEF ConnectedIsProven, Undisturbed
  <2>1. w # k.on
    <3> SUFFICES ASSUME w = k.on PROVE FALSE
      OBVIOUS
    <3>1. on
      BY <1>0 DEF OnCourse, Writing
    <3> QED
      BY <3>1, <1>1, <1>2 DEF InStage, On, Writing
  <2>2. ~InStage(w, Writing)
    BY <2>1, <1>4 DEF InStage, On
  <2> QED
    BY <2>1, <2>2, <1>1, <1>3 DEF Inv, ConnectedIsProven, Undisturbed, NumbersOf
<1> QED
  BY <1>7, <1>8, <1>9, <1>10, <1>11, <1>12 DEF Inv

LEMMA MarkRegisteredKeeps ==
  ASSUME Inv, TypeOK', NEW r \in Requests, markPhoneNumberRegistered(r)
  PROVE  Inv'
<1> DEFINE k == req[r]
<1>0. /\ at[r] = "markRegistered" /\ k.on \in Wabas /\ k.owner \in Workspaces /\ k.number \in Phones
      /\ OnCourse(r)
  BY DEF Inv, Aimed, markPhoneNumberRegistered, Connecting, Writing, AllOnCourse
<1>1. /\ phone' = (IF phone[k.number].owner = k.owner
                     THEN [phone EXCEPT ![k.number].registered = TRUE] ELSE phone)
      /\ at' = [at EXCEPT ![r] = "idle"] /\ req' = [req EXCEPT ![r] = Blank]
      /\ UNCHANGED <<account, history>>
  BY DEF markPhoneNumberRegistered, Learn, End
<1>2. /\ at \in [Requests -> Stages] /\ req \in [Requests -> Known]
      /\ phone \in [Phones -> Numbers] /\ \A p \in Phones : phone[p] \in Numbers
  BY DEF Inv, TypeOK
<1>3. \A p \in Phones : /\ phone'[p].of = phone[p].of /\ phone'[p].owner = phone[p].owner
                        /\ phone'[p].live = phone[p].live
                        /\ phone[p].registered => phone'[p].registered
  BY <1>0, <1>1, <1>2 DEF Numbers
<1>4. /\ \A q \in Requests \ {r} : at'[q] = at[q] /\ req'[q] = req[q]
      /\ at'[r] = "idle"
  BY <1>1, <1>2
<1>5. (Aimed /\ Placed)'
  BY <1>1, <1>3, <1>4 DEF Inv, Aimed, Placed, Connecting, Writing
<1>6. SettledIsOn'
  BY <1>1, <1>3, StaysOn DEF Inv, TypeOK, SettledIsOn
<1>7. (NoTokenNoChannel /\ TokenIsHeard /\ NoTokenNoClaim)'
  BY <1>1 DEF Inv, NoTokenNoChannel, TokenIsHeard, NoTokenNoClaim
<1>8. OneWriter'
  BY <1>1, <1>4 DEF Inv, OneWriter, Writing
<1>9. AllOnCourse'
  <2> SUFFICES ASSUME NEW q \in Requests, q # r, at[q] \in Writing PROVE OnCourse(q)'
    BY <1>4 DEF AllOnCourse, OnCourse, Writing
  <2>1. req[q].number \in Phones
    BY DEF Inv, Aimed, Connecting
  <2> QED
    BY <2>1, <1>1, <1>3, <1>4 DEF Inv, AllOnCourse, OnCourse, Undisturbed
<1>10. ConnectedIsProven'
  <2> SUFFICES ASSUME NEW w \in Wabas, Undisturbed(w), ~InStage(w, Writing)'
               PROVE  account[w].verified /\ \E p \in NumbersOf(w)' : phone'[p].registered
    BY <1>1 DEF ConnectedIsProven, Undisturbed
  <2>1. CASE w = k.on
    <3>1. account[w].verified /\ phone[k.number].of = w /\ phone[k.number].owner = k.owner
      BY <2>1, <1>0 DEF OnCourse, Writing
    <3>2. k.number \in NumbersOf(w)' /\ phone'[k.number].registered
      BY <3>1, <1>0, <1>1, <1>2, <1>3 DEF NumbersOf
    <3> QED
      BY <3>1, <3>2
  <2>2. CASE w # k.on
    <3>1. ~InStage(w, Writing)
      BY <2>2, <1>4 DEF InStage, On
    <3>2. account[w].verified /\ \E p \in NumbersOf(w) : phone[p].registered
      BY <3>1 DEF Inv, ConnectedIsProven, Undisturbed
    <3> QED
      BY <3>2, <1>3 DEF NumbersOf
  <2> QED
    BY <2>1, <2>2
<1> QED
  BY <1>5, <1>6, <1>7, <1>8, <1>9, <1>10 DEF Inv

-----------------------------------------------------------------------------
(* Disconnections, checks and errors.                                      *)

LEMMA DisconnectAccountKeeps ==
  ASSUME Inv, TypeOK', NEW r \in Requests, disconnectAccount(r)
  PROVE  Inv'
<1>0. at[r] = "disconnectAccount" /\ req[r].on \in Wabas
  BY DEF Inv, Aimed, disconnectAccount
<1>1. PICK w \in Wabas : w = req[r].on
  BY <1>0
<1>2. /\ account' = [account EXCEPT ![w] = [@ EXCEPT !.token = FALSE, !.status = "DISCONNECTED",
                                                    !.verified = FALSE]]
      /\ byCheck' = byCheck \ {w} /\ outrun' = outrun \ {w}
      /\ at' = [at EXCEPT ![r] = "disconnectPhones"] /\ req' = req
      /\ settled' = settled \ NumbersOf(w) /\ misjudged' = misjudged \ {w}
      /\ UNCHANGED <<phone, tangled>>
  BY <1>1 DEF disconnectAccount, Move
<1>3. /\ account'[w].status = "DISCONNECTED" /\ ~account'[w].token
      /\ \A v \in Wabas : v # w => account'[v] = account[v]
  BY <1>2 DEF Inv, TypeOK, Accounts
<1>4. /\ \A q \in Requests \ {r} : at'[q] = at[q]
      /\ at'[r] = "disconnectPhones"
  BY <1>2 DEF Inv, TypeOK
<1>5. \A v \in Wabas : Undisturbed(v)' => v # w /\ Undisturbed(v)
  BY <1>2, <1>3 DEF Undisturbed
<1>6. (Aimed /\ Placed)'
  BY <1>0, <1>2, <1>4 DEF Inv, Aimed, Placed, Connecting, Writing
<1>7. SettledIsOn'
  <2> SUFFICES ASSUME NEW p \in settled' PROVE StillOn(p)'
    BY DEF SettledIsOn
  <2>1. p \in Phones /\ StillOn(p) /\ p \notin NumbersOf(w)
    BY <1>2 DEF Inv, TypeOK, SettledIsOn
  <2>2. PICK v \in Wabas : v = phone[p].of /\ v # w
    BY <2>1 DEF StillOn, NumbersOf
  <2> QED
    BY <2>1, <2>2, <1>2, <1>3 DEF StillOn
<1>8. (NoTokenNoChannel /\ TokenIsHeard /\ NoTokenNoClaim)'
  BY <1>2, <1>3 DEF Inv, NoTokenNoChannel, TokenIsHeard, NoTokenNoClaim
<1>9. OneWriter'
  BY <1>2, <1>4 DEF Inv, OneWriter, Writing
<1>10. AllOnCourse'
  <2> SUFFICES ASSUME NEW q \in Requests, at'[q] \in Writing, Undisturbed(req[q].on)' PROVE OnCourse(q)'
    BY DEF AllOnCourse, OnCourse
  <2>1. PICK v \in Wabas : v = req[q].on
    BY <1>4 DEF Inv, Aimed, Connecting, Writing
  <2>2. Undisturbed(v) /\ v # w /\ q # r
    BY <2>1, <1>2, <1>4, <1>5 DEF Undisturbed, Writing
  <2> QED
    BY <2>1, <2>2, <1>2, <1>3, <1>4 DEF Inv, AllOnCourse, OnCourse
<1>11. ConnectedIsProven'
  <2>1. \A v \in Wabas : InStage(v, Writing) => InStage(v, Writing)'
    BY <1>0, <1>2, <1>4 DEF InStage, On, Writing
  <2> QED
    BY <2>1, <1>2, <1>3, <1>5 DEF Inv, ConnectedIsProven, Undisturbed, NumbersOf
<1> QED
  BY <1>6, <1>7, <1>8, <1>9, <1>10, <1>11 DEF Inv

LEMMA DisconnectPhonesKeeps ==
  ASSUME Inv, TypeOK', NEW r \in Requests, disconnectPhones(r)
  PROVE  Inv'
<1>0. at[r] = "disconnectPhones" /\ req[r].on \in Wabas
  BY DEF Inv, Aimed, disconnectPhones
<1>1. PICK w \in Wabas : w = req[r].on
  BY <1>0
<1>2. /\ phone' = [p \in Phones |-> IF p \in NumbersOf(w)
                                      THEN [phone[p] EXCEPT !.live = FALSE, !.registered = FALSE]
                                      ELSE phone[p]]
      /\ tangled' = (IF account[w].token THEN tangled \cup {w} ELSE tangled)
      /\ at' = [at EXCEPT ![r] = "idle"] /\ req' = [req EXCEPT ![r] = Blank]
      /\ settled' = settled \ NumbersOf(w)
      /\ UNCHANGED <<account, byCheck, outrun, misjudged>>
  BY <1>1 DEF disconnectPhones, Learn, End
<1>3. \A p \in Phones : /\ phone'[p].of = phone[p].of /\ phone'[p].owner = phone[p].owner
                        /\ p \notin NumbersOf(w) => phone'[p] = phone[p]
  BY <1>2, ZenonT(30) DEF Inv, TypeOK, Numbers
<1>4. /\ \A q \in Requests \ {r} : at'[q] = at[q] /\ req'[q] = req[q]
      /\ at'[r] = "idle"
  BY <1>2 DEF Inv, TypeOK
<1>5. \A v \in Wabas : Undisturbed(v)' => v # w /\ Undisturbed(v)
  BY <1>2 DEF Undisturbed, Inv, NoTokenNoClaim
<1>6. (Aimed /\ Placed)'
  BY <1>2, <1>3, <1>4, ZenonT(30) DEF Inv, Aimed, Placed, Connecting, Writing
<1>7. SettledIsOn'
  <2> SUFFICES ASSUME NEW p \in settled' PROVE StillOn(p)'
    BY DEF SettledIsOn
  <2>1. p \in Phones /\ StillOn(p) /\ p \notin NumbersOf(w)
    BY <1>2 DEF Inv, TypeOK, SettledIsOn
  <2> QED
    BY <2>1, <1>2, <1>3, StaysOn
<1>8. (NoTokenNoChannel /\ TokenIsHeard /\ NoTokenNoClaim)'
  BY <1>2 DEF Inv, NoTokenNoChannel, TokenIsHeard, NoTokenNoClaim
<1>9. OneWriter'
  <2>1. tangled \subseteq tangled' /\ at'[r] \notin Writing
    BY <1>2, <1>4 DEF Writing
  <2> QED
    BY <2>1, <1>4 DEF Inv, OneWriter
<1>10. AllOnCourse'
  <2> SUFFICES ASSUME NEW q \in Requests, at'[q] \in Writing, Undisturbed(req[q].on)' PROVE OnCourse(q)'
    BY DEF AllOnCourse, OnCourse
  <2>1. q # r /\ req'[q] = req[q] /\ at'[q] = at[q]
    BY <1>4 DEF Writing
  <2>2. PICK v \in Wabas : v = req[q].on
    BY <2>1 DEF Inv, Aimed, Connecting
  <2>3. Undisturbed(v) /\ req[q].number \in Phones
    BY <2>1, <2>2, <1>2, <1>5 DEF Undisturbed, Inv, Aimed, Connecting
  <2>4. /\ phone'[req[q].number].of = phone[req[q].number].of
        /\ phone'[req[q].number].owner = phone[req[q].number].owner
    BY <2>3, <1>3
  <2>5. OnCourse(q)
    BY DEF Inv, AllOnCourse
  <2>6. account' = account
    BY <1>2
  <2> QED
    BY <2>1, <2>2, <2>3, <2>4, <2>5, <2>6 DEF OnCourse
<1>11. ConnectedIsProven'
  <2> SUFFICES ASSUME NEW v \in Wabas, Undisturbed(v)', ~InStage(v, Writing)'
               PROVE  account[v].verified /\ \E p \in NumbersOf(v)' : phone'[p].registered
    BY <1>2 DEF ConnectedIsProven, Undisturbed
  <2>1. Undisturbed(v) /\ v # w /\ ~InStage(v, Writing)
    BY <1>0, <1>4, <1>5 DEF InStage, On, Writing
  <2>2. account[v].verified /\ \E p \in NumbersOf(v) : phone[p].registered
    BY <2>1 DEF Inv, ConnectedIsProven, Undisturbed
  <2> QED
    BY <2>1, <2>2, <1>3 DEF NumbersOf
<1> QED
  BY <1>6, <1>7, <1>8, <1>9, <1>10, <1>11 DEF Inv

\* A verdict on an account, by a health check or by the send path.
LEMMA VerdictKeeps ==
  ASSUME Inv, TypeOK', NEW r \in Requests, NEW w \in Wabas,
         at[r] \in {"finish", "error"}, req[r].on = w,
         account'[w].token = account[w].token,
         w \in outrun' \/ account[w].token \/ account'[w].status = "DISCONNECTED",
         w \in misjudged' \/ ~account[w].token \/ account'[w].status # "DISCONNECTED",
         w \in byCheck' \/ account'[w].status # "CONNECTED",
         \A v \in Wabas : v # w => account'[v] = account[v] /\ (v \in byCheck' <=> v \in byCheck)
                                   /\ (v \in outrun' <=> v \in outrun)
                                   /\ (v \in misjudged' <=> v \in misjudged),
         at' = [at EXCEPT ![r] = "idle"], req' = [req EXCEPT ![r] = Blank],
         UNCHANGED <<phone, tangled, settled>>
  PROVE  Inv'
<1>1. /\ \A q \in Requests \ {r} : at'[q] = at[q] /\ req'[q] = req[q]
      /\ at'[r] = "idle" /\ at[r] \notin Writing
  BY DEF Inv, TypeOK, Writing
<1>2. \A v \in Wabas : Undisturbed(v)' => v # w /\ Undisturbed(v)
  BY DEF Undisturbed
<1>3. (Aimed /\ Placed)'
  BY <1>1 DEF Inv, Aimed, Placed, Connecting, Writing
<1>4. SettledIsOn'
  BY StaysOn DEF Inv, TypeOK, SettledIsOn
<1>5. (NoTokenNoChannel /\ TokenIsHeard /\ NoTokenNoClaim)'
  BY DEF Inv, NoTokenNoChannel, TokenIsHeard, NoTokenNoClaim
<1>6. OneWriter'
  BY <1>1 DEF Inv, OneWriter, Writing
<1>7. AllOnCourse'
  <2> SUFFICES ASSUME NEW q \in Requests, at'[q] \in Writing, Undisturbed(req[q].on)' PROVE OnCourse(q)'
    BY DEF AllOnCourse, OnCourse
  <2>1. q # r /\ req'[q] = req[q] /\ at'[q] = at[q]
    BY <1>1 DEF Writing
  <2>2. PICK v \in Wabas : v = req[q].on
    BY <2>1 DEF Inv, Aimed, Connecting
  <2>3. Undisturbed(v) /\ v # w
    BY <2>1, <2>2, <1>2 DEF Undisturbed
  <2> QED
    BY <2>1, <2>2, <2>3 DEF Inv, AllOnCourse, OnCourse
<1>8. ConnectedIsProven'
  <2>1. \A v \in Wabas : InStage(v, Writing) => InStage(v, Writing)'
    BY <1>1 DEF InStage, On
  <2> QED
    BY <2>1, <1>2 DEF Inv, ConnectedIsProven, Undisturbed, NumbersOf
<1> QED
  BY <1>3, <1>4, <1>5, <1>6, <1>7, <1>8 DEF Inv

-----------------------------------------------------------------------------
(* Every step keeps the types.                                             *)

LEMMA BlankWith ==
  ASSUME NEW s \in Workspaces \cup {None}, NEW w \in Wabas \cup {None}, NEW p \in Phones \cup {None}
  PROVE  /\ [Blank EXCEPT !.owner = s, !.on = w] \in Known
         /\ [Blank EXCEPT !.owner = s, !.number = p] \in Known
         /\ [Blank EXCEPT !.owner = s, !.on = w, !.number = p] \in Known
BY DEF Blank, Known, ChannelStatus

LEMMA BlankAccount ==
  ASSUME NEW s \in Workspaces \cup {None}, NEW w \in Wabas,
         NEW t \in BOOLEAN, NEW c \in ChannelStatus, NEW n \in BOOLEAN
  PROVE  [Blank EXCEPT !.owner = s, !.on = w, !.token = t, !.status = c, !.numbers = n] \in Known
BY DEF Blank, Known

LEMMA KnownWith ==
  ASSUME NEW k \in Known, NEW a \in BOOLEAN, NEW b \in BOOLEAN, NEW w \in Wabas \cup {None}
  PROVE  /\ [k EXCEPT !.update = a] \in Known /\ [k EXCEPT !.found = a] \in Known
         /\ [k EXCEPT !.confirmed = a, !.registered = b] \in Known
         /\ [k EXCEPT !.on = w] \in Known
BY DEF Known

LEMMA StepTypes ==
  ASSUME TypeOK, Aimed, NEW r \in Requests, Step(r)
  PROVE  TypeOK'
<1> DEFINE k == req[r]
<1>0. /\ k \in Known /\ account \in [Wabas -> Accounts] /\ phone \in [Phones -> Numbers]
      /\ \A w \in Wabas : account[w] \in Accounts /\ \A p \in Phones : phone[p] \in Numbers
      /\ k.confirmed \in BOOLEAN
  BY DEF TypeOK, Known
<1>1. CASE findAccountOwnerByWabaId(r)
  <2>1. PICK b \in BOOLEAN : b = (account[k.on].owner = k.owner)
    OBVIOUS
  <2>2. Learn(r, "checkPhone", [k EXCEPT !.update = b]) \/ End(r)
    BY <1>1, <2>1 DEF findAccountOwnerByWabaId
  <2> QED
    BY <1>0, <1>1, <2>2, KnownWith, LearnTypes, EndTypes DEF findAccountOwnerByWabaId, TypeOK, Stages, Connecting
<1>2. CASE findPhoneOwner(r)
  <2>1. PICK b \in BOOLEAN : b = (k.update \/ phone[k.number].owner = k.owner)
    OBVIOUS
  <2>2. \/ Learn(r, "askMeta", [k EXCEPT !.update = b])
        \/ Learn(r, "checkQuota", [k EXCEPT !.update = b])
        \/ End(r)
    <3>1. CASE b
      BY <1>2, <2>1, <3>1 DEF findPhoneOwner
    <3>2. CASE ~b
      BY <1>2, <2>1, <3>2 DEF findPhoneOwner
    <3> QED
      BY <3>1, <3>2
  <2> QED
    BY <1>0, <1>2, <2>2, KnownWith, LearnTypes, EndTypes DEF findPhoneOwner, TypeOK, Stages, Connecting
<1>3. CASE assertWithinPlanLimit(r)
  BY <1>3, MoveTypes, EndTypes DEF assertWithinPlanLimit, TypeOK, Stages, Connecting
<1>4. CASE askMeta(r)
  BY <1>0, <1>4, KnownWith, LearnTypes DEF askMeta, TypeOK, Stages, Connecting
<1>5. CASE upsertAccount(r)
  <2>0. k.on \in Wabas /\ k.owner \in Workspaces
    BY <1>5 DEF upsertAccount, Aimed, Connecting
  <2>1. account' \in [Wabas -> Accounts]
    <3>1. connectionStatus(k) \in ChannelStatus
      BY DEF connectionStatus, ChannelStatus
    <3>2. [account[k.on] EXCEPT !.owner = k.owner, !.token = TRUE, !.status = connectionStatus(k)]
             \in Accounts
      BY <1>0, <2>0, <3>1 DEF Accounts
    <3>3. \/ account' = account
          \/ account' = [account EXCEPT ![k.on] = [account[k.on] EXCEPT
                           !.owner = k.owner, !.token = TRUE, !.status = connectionStatus(k)]]
      BY <1>5 DEF upsertAccount
    <3> QED
      BY <1>0, <2>0, <3>2, <3>3
  <2>2. /\ byCheck' \subseteq Wabas /\ outrun' \subseteq Wabas /\ tangled' \subseteq Wabas
        /\ misjudged' \subseteq Wabas
    BY <1>5, <2>0 DEF upsertAccount, TypeOK, Set
  <2> QED
    BY <1>5, <2>1, <2>2, MoveTypes, EndTypes DEF upsertAccount, TypeOK, Stages, Connecting, Writing
<1>6. CASE upsertPhone(r)
  <2>0. k.on \in Wabas /\ k.owner \in Workspaces /\ k.number \in Phones
    BY <1>6 DEF upsertPhone, Aimed, Connecting, Writing
  <2>1. phone' \in [Phones -> Numbers]
    BY <1>0, <1>6, <2>0 DEF upsertPhone, Numbers
  <2>2. tangled' \subseteq Wabas /\ settled' \subseteq Phones
    BY <1>0, <1>6, <2>0 DEF upsertPhone, TypeOK, Set, Numbers
  <2> QED
    BY <1>6, <2>1, <2>2, MoveTypes DEF upsertPhone, TypeOK, Stages, Connecting, Writing
<1>7. CASE readBack(r)
  <2>1. PICK b \in BOOLEAN : b = (phone[k.number].of = k.on)
    OBVIOUS
  <2>2. Learn(r, "recordState", [k EXCEPT !.found = b])
    BY <1>7, <2>1 DEF readBack
  <2> QED
    BY <1>0, <1>7, <2>2, KnownWith, LearnTypes DEF readBack, TypeOK, Stages, Connecting, Writing
<1>8. CASE updateAccountConnectionState(r)
  <2>1. account' \in [Wabas -> Accounts]
    BY <1>0, <1>8 DEF updateAccountConnectionState, Accounts
  <2> QED
    BY <1>8, <2>1, MoveTypes, EndTypes DEF updateAccountConnectionState, TypeOK, Stages, Connecting, Writing
<1>9. CASE markPhoneNumberRegistered(r)
  <2>1. phone' \in [Phones -> Numbers]
    BY <1>0, <1>9 DEF markPhoneNumberRegistered, Numbers
  <2> QED
    BY <1>9, <2>1, EndTypes DEF markPhoneNumberRegistered, TypeOK
<1>10. CASE disconnectAccount(r)
  <2>1. account' \in [Wabas -> Accounts]
    BY <1>0, <1>10 DEF disconnectAccount, Accounts, ChannelStatus
  <2> QED
    BY <1>10, <2>1, MoveTypes DEF disconnectAccount, TypeOK, Stages
<1>11. CASE disconnectPhones(r)
  <2>1. phone' \in [Phones -> Numbers]
    BY <1>0, <1>11 DEF disconnectPhones, Numbers
  <2>2. tangled' \subseteq Wabas
    BY <1>11 DEF disconnectPhones, TypeOK, Aimed
  <2> QED
    BY <1>11, <2>1, <2>2, EndTypes DEF disconnectPhones, TypeOK
<1>12. CASE finish(r)
  <2>0. k.on \in Wabas
    BY <1>12 DEF finish, Aimed
  <2>1. PICK failed \in BOOLEAN, subscribed \in BOOLEAN :
           account' = [account EXCEPT ![k.on] = Verdict(account[k.on], statusFor(k, failed), subscribed)]
    BY <1>12 DEF finish
  <2>3. statusFor(k, failed) \in ChannelStatus
    BY <1>0 DEF statusFor, ChannelStatus, Known
  <2>4. Verdict(account[k.on], statusFor(k, failed), subscribed) \in Accounts
    BY <1>0, <2>0, <2>3 DEF Accounts, Verdict
  <2>5. byCheck' \subseteq Wabas /\ outrun' \subseteq Wabas /\ misjudged' \subseteq Wabas
    BY <1>12, <2>0 DEF finish, TypeOK, Set
  <2>6. account' \in [Wabas -> Accounts]
    BY <1>0, <2>1, <2>4
  <2> QED
    BY <1>12, <2>5, <2>6, EndTypes DEF finish, TypeOK
<1>13. CASE recordSendFailure(r)
  <2>1. phone[k.number].of \in Wabas \cup {None}
    BY <1>0, <1>13 DEF recordSendFailure, Aimed, Numbers
  <2>2. Learn(r, "error", [k EXCEPT !.on = phone[k.number].of]) \/ End(r)
    BY <1>13 DEF recordSendFailure
  <2> QED
    BY <1>0, <1>13, <2>1, <2>2, KnownWith, LearnTypes, EndTypes DEF recordSendFailure, TypeOK, Stages
<1>14. CASE updateAccountError(r)
  <2>1. account' \in [Wabas -> Accounts]
    BY <1>0, <1>14 DEF updateAccountError, Accounts, ChannelStatus
  <2>2. outrun' \subseteq Wabas
    BY <1>14 DEF updateAccountError, TypeOK, Aimed
  <2> QED
    BY <1>14, <2>1, <2>2, EndTypes DEF updateAccountError, TypeOK
<1>15. CASE Throw(r)
  <2>1. tangled' \subseteq Wabas
    BY <1>15 DEF Throw, TypeOK, Aimed, Connecting
  <2> QED
    BY <1>15, <2>1, EndTypes DEF Throw, TypeOK
<1> QED
  BY <1>1, <1>2, <1>3, <1>4, <1>5, <1>6, <1>7, <1>8, <1>9, <1>10, <1>11, <1>12, <1>13, <1>14, <1>15
  DEF Step

-----------------------------------------------------------------------------
(* Every step keeps the invariant.                                         *)

LEMMA StepKeeps ==
  ASSUME Inv, NEW r \in Requests, Step(r)
  PROVE  Inv'
<1> DEFINE k == req[r]
<1>0. TypeOK'
  BY StepTypes DEF Inv
<1>a. \A stage, known : Learn(r, stage, known) =>
         /\ at' = [at EXCEPT ![r] = stage] /\ req' = [req EXCEPT ![r] = known]
         /\ \A q \in Requests \ {r} : at'[q] = at[q] /\ req'[q] = req[q]
         /\ at'[r] = stage /\ req'[r] = known
  BY DEF Learn, Inv, TypeOK
<1>b. End(r) => Learn(r, "idle", Blank)
  BY DEF End
<1>1. ASSUME UNCHANGED <<rows, history>>, at[r] \notin Writing,
             \A q \in Requests \ {r} : at'[q] = at[q] /\ req'[q] = req[q],
             \/ at'[r] = "idle"
             \/ at'[r] \in {"checkPhone", "checkQuota", "askMeta", "upsertAccount"}
                /\ req'[r].owner = k.owner /\ req'[r].on = k.on /\ req'[r].number = k.number
                /\ at[r] \in Connecting
             \/ at'[r] = "error" /\ req'[r].on \in Wabas
      PROVE  Inv'
  <2>1. Aimed'
    BY <1>1 DEF Inv, Aimed, Connecting, Writing
  <2>2. at'[r] \notin Writing /\ at'[r] \notin {"finish", "disconnectAccount", "disconnectPhones"}
    BY <1>1 DEF Writing
  <2> QED
    BY <1>0, <1>1, <2>1, <2>2, LocalKeeps
<1>2. CASE findAccountOwnerByWabaId(r)
  <2>1. PICK b \in BOOLEAN : b = (account[k.on].owner = k.owner)
    OBVIOUS
  <2>2. Learn(r, "checkPhone", [k EXCEPT !.update = b]) \/ End(r)
    BY <1>2, <2>1 DEF findAccountOwnerByWabaId
  <2>3. [k EXCEPT !.update = b].owner = k.owner /\ [k EXCEPT !.update = b].on = k.on
        /\ [k EXCEPT !.update = b].number = k.number
    BY DEF Inv, TypeOK, Known
  <2>4. at[r] = "checkWaba" /\ UNCHANGED <<rows, history>>
    BY <1>2 DEF findAccountOwnerByWabaId
  <2>5. CASE Learn(r, "checkPhone", [k EXCEPT !.update = b])
    <3>1. /\ \A q \in Requests \ {r} : at'[q] = at[q] /\ req'[q] = req[q]
          /\ at'[r] = "checkPhone" /\ req'[r] = [k EXCEPT !.update = b]
      BY <1>a, <2>5
    <3> QED
      BY <1>1, <2>3, <2>4, <3>1 DEF Writing, Connecting
  <2>6. CASE End(r)
    BY <1>1, <1>a, <1>b, <2>4, <2>6 DEF Writing
  <2> QED
    BY <2>2, <2>5, <2>6
<1>3. CASE findPhoneOwner(r)
  <2>1. PICK b \in BOOLEAN : b = (k.update \/ phone[k.number].owner = k.owner)
    OBVIOUS
  <2>2. \/ \E stage \in {"askMeta", "checkQuota"} : Learn(r, stage, [k EXCEPT !.update = b])
        \/ End(r)
    <3>1. CASE b
      BY <1>3, <2>1, <3>1 DEF findPhoneOwner
    <3>2. CASE ~b
      BY <1>3, <2>1, <3>2 DEF findPhoneOwner
    <3> QED
      BY <3>1, <3>2
  <2>3. [k EXCEPT !.update = b].owner = k.owner /\ [k EXCEPT !.update = b].on = k.on
        /\ [k EXCEPT !.update = b].number = k.number
    BY DEF Inv, TypeOK, Known
  <2> QED
    BY <1>1, <1>3, <1>a, <1>b, <2>2, <2>3 DEF findPhoneOwner, Writing, Connecting
<1>4. CASE assertWithinPlanLimit(r)
  <2>1. Move(r, "askMeta") \/ End(r)
    BY <1>4 DEF assertWithinPlanLimit
  <2>2. Move(r, "askMeta") => /\ \A q \in Requests \ {r} : at'[q] = at[q] /\ req'[q] = req[q]
                              /\ at'[r] = "askMeta" /\ req'[r] = k
    BY DEF Move, Inv, TypeOK
  <2> QED
    BY <1>1, <1>4, <1>a, <1>b, <2>1, <2>2 DEF assertWithinPlanLimit, Writing, Connecting
<1>5. CASE askMeta(r)
  <2>1. PICK c \in BOOLEAN, d \in BOOLEAN :
           Learn(r, "upsertAccount", [k EXCEPT !.confirmed = c, !.registered = d])
    BY <1>5 DEF askMeta
  <2>2. /\ [k EXCEPT !.confirmed = c, !.registered = d].owner = k.owner
        /\ [k EXCEPT !.confirmed = c, !.registered = d].on = k.on
        /\ [k EXCEPT !.confirmed = c, !.registered = d].number = k.number
    BY DEF Inv, TypeOK, Known
  <2> QED
    BY <1>1, <1>5, <1>a, <2>1, <2>2, ZenonT(30) DEF askMeta, Writing, Connecting
<1>6. CASE upsertAccount(r)
  <2>1. CASE account[k.on].owner \in {None, k.owner}
    BY <1>0, <1>6, <2>1, UpsertAccountKeeps
  <2>2. CASE account[k.on].owner \notin {None, k.owner}
    BY <1>1, <1>6, <1>a, <1>b, <2>2 DEF upsertAccount, Writing
  <2> QED
    BY <2>1, <2>2
<1>7. CASE upsertPhone(r)
  BY <1>0, <1>7, UpsertPhoneKeeps
<1>8. CASE readBack(r)
  BY <1>0, <1>8, ReadBackKeeps
<1>9. CASE updateAccountConnectionState(r)
  BY <1>0, <1>9, RecordStateKeeps
<1>10. CASE markPhoneNumberRegistered(r)
  BY <1>0, <1>10, MarkRegisteredKeeps
<1>11. CASE disconnectAccount(r)
  BY <1>0, <1>11, DisconnectAccountKeeps
<1>12. CASE disconnectPhones(r)
  BY <1>0, <1>12, DisconnectPhonesKeeps
<1>13. CASE recordSendFailure(r)
  <2>1. CASE phone[k.number].owner = k.owner
    <3>1. phone[k.number].of \in Wabas
      BY <1>13, <2>1, Parameters DEF recordSendFailure, Inv, Aimed, Placed
    <3>2. [k EXCEPT !.on = phone[k.number].of].on = phone[k.number].of
      BY DEF Inv, TypeOK, Known
    <3>3. /\ at[r] = "sending" /\ UNCHANGED <<rows, history>>
          /\ Learn(r, "error", [k EXCEPT !.on = phone[k.number].of])
      BY <1>13, <2>1 DEF recordSendFailure
    <3>4. /\ \A q \in Requests \ {r} : at'[q] = at[q] /\ req'[q] = req[q]
          /\ at'[r] = "error" /\ req'[r].on \in Wabas
      BY <1>a, <3>1, <3>2, <3>3
    <3> QED
      BY <1>1, <3>3, <3>4 DEF Writing
  <2>2. CASE phone[k.number].owner # k.owner
    BY <1>1, <1>13, <1>a, <1>b, <2>2 DEF recordSendFailure, Writing
  <2> QED
    BY <2>1, <2>2
<1>14. CASE finish(r)
  <2>0. PICK w \in Wabas : w = k.on
    BY <1>14 DEF finish, Inv, Aimed
  <2>1. PICK failed \in BOOLEAN, subscribed \in BOOLEAN :
           account' = [account EXCEPT ![w] = Verdict(account[w], statusFor(k, failed), subscribed)]
    BY <1>14, <2>0 DEF finish
  <2>2. /\ account'[w].token = account[w].token /\ account'[w].status = statusFor(k, failed)
        /\ \A v \in Wabas : v # w => account'[v] = account[v]
    <3>1. account[w] \in Accounts /\ account \in [Wabas -> Accounts]
      BY DEF Inv, TypeOK
    <3>2. account'[w] = Verdict(account[w], statusFor(k, failed), subscribed)
      BY <2>1, <3>1
    <3> QED
      BY <2>1, <3>1, <3>2 DEF Verdict, Accounts
  <2>3. /\ byCheck' = byCheck \cup {w} /\ outrun' = Set(outrun, w, k.token /\ ~account[w].token)
        /\ misjudged' = Set(misjudged, w, ~k.token /\ account[w].token)
    BY <1>14, <2>0 DEF finish
  <2>4. k.token <=> account'[w].status # "DISCONNECTED"
    <3>1. k.status \in ChannelStatus
      BY DEF Inv, TypeOK, Known
    <3> QED
      BY <2>2 DEF statusFor
  <2>5. /\ (k.token /\ ~account[w].token) => w \in outrun'
        /\ (~k.token /\ account[w].token) => w \in misjudged'
        /\ \A v \in Wabas : v # w => (v \in outrun' <=> v \in outrun)
        /\ \A v \in Wabas : v # w => (v \in misjudged' <=> v \in misjudged)
        /\ \A v \in Wabas : v # w => (v \in byCheck' <=> v \in byCheck)
        /\ w \in byCheck'
    BY <2>3 DEF Set
  <2>6. /\ at[r] = "finish"
        /\ at' = [at EXCEPT ![r] = "idle"] /\ req' = [req EXCEPT ![r] = Blank]
        /\ UNCHANGED <<phone, tangled, settled>>
    BY <1>14 DEF finish, End, Learn
  <2> QED
    BY <1>0, <2>0, <2>2, <2>4, <2>5, <2>6, VerdictKeeps, ZenonT(30)
<1>15. CASE updateAccountError(r)
  <2>0. PICK w \in Wabas : w = k.on
    BY <1>15 DEF updateAccountError, Inv, Aimed
  <2>1. /\ account' = [account EXCEPT ![w].status = "ERROR"]
        /\ outrun' = (IF account[w].token THEN outrun ELSE outrun \cup {w})
        /\ byCheck' = byCheck \ {w} /\ misjudged' = misjudged \ {w} /\ at[r] = "error"
        /\ at' = [at EXCEPT ![r] = "idle"] /\ req' = [req EXCEPT ![r] = Blank]
        /\ UNCHANGED <<phone, tangled, settled>>
    BY <1>15, <2>0 DEF updateAccountError, End, Learn
  <2>2. /\ account'[w].token = account[w].token /\ account'[w].status = "ERROR"
        /\ \A v \in Wabas : v # w => account'[v] = account[v]
    BY <2>1 DEF Inv, TypeOK, Accounts
  <2>3. /\ w \in outrun' \/ account[w].token
        /\ \A v \in Wabas : v # w => (v \in outrun' <=> v \in outrun)
        /\ \A v \in Wabas : v # w => (v \in misjudged' <=> v \in misjudged)
        /\ \A v \in Wabas : v # w => (v \in byCheck' <=> v \in byCheck)
    BY <2>1
  <2>4. /\ at[r] = "error"
        /\ at' = [at EXCEPT ![r] = "idle"] /\ req' = [req EXCEPT ![r] = Blank]
        /\ UNCHANGED <<phone, tangled, settled>>
    BY <2>1
  <2> QED
    BY <1>0, <2>0, <2>2, <2>3, <2>4, VerdictKeeps, ZenonT(30)
<1>16. CASE Throw(r)
  <2>1. /\ UNCHANGED <<account, phone, byCheck, outrun, settled, misjudged>> /\ at'[r] = "idle"
        /\ \A q \in Requests \ {r} : at'[q] = at[q] /\ req'[q] = req[q]
        /\ tangled' = (IF at[r] \in Writing THEN tangled \cup {k.on} ELSE tangled)
    BY <1>16, <1>a, <1>b DEF Throw
  <2>2. Aimed'
    BY <2>1 DEF Inv, Aimed, Connecting, Writing
  <2>3. at'[r] \notin Writing
    BY <2>1 DEF Writing
  <2> QED
    BY <1>0, <2>1, <2>2, <2>3, LocalKeeps
<1> QED
  BY <1>2, <1>3, <1>4, <1>5, <1>6, <1>7, <1>8, <1>9, <1>10, <1>11, <1>12, <1>13, <1>14, <1>15, <1>16
  DEF Step

\* A request that begins.
LEMMA BeginKeeps ==
  ASSUME Inv, NEW r \in Requests, NEW stage \in {"checkWaba", "disconnectAccount", "finish", "sending"},
         NEW known \in Known, Begin(r, stage, known),
         UNCHANGED <<rows, history>>,
         stage = "checkWaba" => known.owner \in Workspaces /\ known.on \in Wabas /\ known.number \in Phones,
         stage \in {"disconnectAccount", "finish"} => known.on \in Wabas,
         stage = "sending" => known.number \in Phones /\ known.owner \in Workspaces
  PROVE  Inv'
<1>1. /\ at[r] = "idle" /\ at'[r] = stage /\ req'[r] = known
      /\ \A q \in Requests \ {r} : at'[q] = at[q] /\ req'[q] = req[q]
  BY DEF Begin, Inv, TypeOK
<1>2. TypeOK'
  <2>1. stage \in Stages
    BY DEF Stages, Connecting
  <2> QED
    BY <2>1, BeginTypes DEF Inv, TypeOK
<1>3. Aimed'
  BY <1>1 DEF Inv, Aimed, Connecting, Writing
<1>4. at[r] \notin Writing /\ at'[r] \notin Writing
  BY <1>1 DEF Writing
<1> QED
  BY <1>1, <1>2, <1>3, <1>4, LocalKeeps

LEMMA NextKeeps == Inv /\ [Next]_vars => Inv'
<1> SUFFICES ASSUME Inv, [Next]_vars PROVE Inv'
  OBVIOUS
<1>1. ASSUME NEW r \in Requests, Step(r) PROVE Inv'
  BY <1>1, StepKeeps
<1>2. ASSUME NEW r \in Requests, NEW w \in Wabas, findAccountById(r, w) PROVE Inv'
  <2> DEFINE known == [Blank EXCEPT !.owner = account[w].owner, !.on = w]
  <2>1. /\ account[w].owner \in Workspaces \cup {None} /\ known.on = w
        /\ Begin(r, "disconnectAccount", known)
        /\ UNCHANGED <<rows, history>>
    BY <1>2 DEF findAccountById, Inv, TypeOK, Accounts, Blank
  <2>2. known \in Known
    <3>1. account[w].owner \in Workspaces \cup {None} /\ w \in Wabas \cup {None} /\ None \in Phones \cup {None}
      BY <2>1
    <3> QED
      BY <3>1, BlankWith
  <2> HIDE DEF known
  <2> QED
    BY <2>1, <2>2, BeginKeeps
<1>3. ASSUME NEW r \in Requests, NEW w \in Wabas, runConnectionHealthCheck(r, w) PROVE Inv'
  <2>1. PICK t \in BOOLEAN, n \in BOOLEAN : t = account[w].token /\ n = (NumbersOf(w) # {})
    BY DEF Inv, TypeOK, Accounts
  <2> DEFINE known == [Blank EXCEPT !.owner = account[w].owner, !.on = w, !.token = t,
                                    !.status = account[w].status, !.numbers = n]
  <2>2. account[w].owner \in Workspaces \cup {None} /\ account[w].status \in ChannelStatus
    BY DEF Inv, TypeOK, Accounts
  <2>3. Begin(r, "finish", known) /\ UNCHANGED <<rows, history>>
    BY <1>3, <2>1 DEF runConnectionHealthCheck
  <2>4. known \in Known
    BY <2>2, BlankAccount
  <2>5. known.on = w /\ known.token = t
    BY DEF Blank
  <2> HIDE DEF known
  <2> QED
    BY <2>3, <2>4, <2>5, BeginKeeps
<1>4. ASSUME NEW r \in Requests, NEW p \in Phones, send(r, p) PROVE Inv'
  <2> DEFINE known == [Blank EXCEPT !.owner = phone[p].owner, !.number = p]
  <2>1. Begin(r, "sending", known) /\ UNCHANGED <<rows, history>>
    BY <1>4 DEF send
  <2>2. phone[p].owner \in Workspaces
    BY <1>4 DEF send, Inv, TypeOK, Placed
  <2>3. known \in Known /\ known.number = p /\ known.owner = phone[p].owner
    <3>1. phone[p].owner \in Workspaces \cup {None} /\ p \in Phones \cup {None} /\ None \in Wabas \cup {None}
      BY <2>2
    <3>2. known \in Known
      BY <3>1, BlankWith
    <3> QED
      BY <3>2 DEF Blank
  <2> HIDE DEF known
  <2> QED
    BY <2>1, <2>2, <2>3, BeginKeeps
<1>5. ASSUME NEW r \in Requests, NEW s \in Workspaces, NEW w \in Wabas, NEW p \in Phones,
             verifyAssets(r, s, w, p)
      PROVE  Inv'
  <2> DEFINE known == [Blank EXCEPT !.owner = s, !.on = w, !.number = p]
  <2>1. Begin(r, "checkWaba", known) /\ UNCHANGED <<rows, history>>
    BY <1>5 DEF verifyAssets
  <2>2. known \in Known /\ known.owner = s /\ known.on = w /\ known.number = p
    <3>1. s \in Workspaces \cup {None} /\ p \in Phones \cup {None} /\ w \in Wabas \cup {None}
      OBVIOUS
    <3>2. known \in Known
      BY <3>1, BlankWith
    <3> QED
      BY <3>2 DEF Blank
  <2> HIDE DEF known
  <2> QED
    BY <2>1, <2>2, BeginKeeps
<1>6. CASE UNCHANGED vars
  <2>1. SettledIsOn'
    BY <1>6, StaysOn DEF vars, Inv, TypeOK, SettledIsOn
  <2>2. (TypeOK /\ Aimed /\ Placed /\ NoTokenNoChannel /\ TokenIsHeard /\ NoTokenNoClaim /\ OneWriter)'
    BY <1>6 DEF vars, Inv, TypeOK, Aimed, Placed, NoTokenNoChannel, TokenIsHeard, NoTokenNoClaim, OneWriter
  <2>3. (AllOnCourse /\ ConnectedIsProven)'
    BY <1>6 DEF vars, Inv, AllOnCourse, OnCourse, Undisturbed, ConnectedIsProven, InStage, On, NumbersOf
  <2> QED
    BY <2>1, <2>2, <2>3 DEF Inv
<1> QED
  BY <1>1, <1>2, <1>3, <1>4, <1>5, <1>6 DEF Next

LEMMA InvHolds == Spec => []Inv
BY InitInv, NextKeeps, PTL DEF Spec

-----------------------------------------------------------------------------
(* The theorems.                                                           *)

\* Types hold in every state.
THEOREM TypeCorrect == Spec => []TypeOK
<1>1. Inv => TypeOK
  BY DEF Inv
<1> QED
  BY <1>1, InvHolds, PTL

\* A connected number is heard until a disconnection writes to its account,
\* whatever errors, rival claims and other connections there are, and whatever
\* checks but the one that had seen no token and ends after the reconnection
\* (webhook-processor.service.ts, acceptsInbound).
THEOREM ConnectedIsHeardHolds == Spec => []ConnectedIsHeard
<1>1. Inv => ConnectedIsHeard
  <2> SUFFICES ASSUME Inv, NEW p \in settled, phone[p].of \notin misjudged PROVE acceptsInbound(p)
    BY DEF ConnectedIsHeard
  <2>1. phone[p].live /\ phone[p].of \in Wabas /\ account[phone[p].of].token
    BY DEF Inv, SettledIsOn, StillOn
  <2> QED
    BY <2>1, Parameters DEF acceptsInbound, Inv, TokenIsHeard
<1> QED
  BY <1>1, InvHolds, PTL

\* A channel without a token does not pass for one that works, unless a
\* verdict that is older than the loss of the token was written over it.
THEOREM NoTokenNoChannelHolds == Spec => []NoTokenNoChannel
<1>1. Inv => NoTokenNoChannel
  BY DEF Inv
<1> QED
  BY <1>1, InvHolds, PTL

\* What an undisturbed connection calls CONNECTED is subscribed and registered.
THEOREM ConnectedIsProvenHolds == Spec => []ConnectedIsProven
<1>1. Inv => ConnectedIsProven
  BY DEF Inv
<1> QED
  BY <1>1, InvHolds, PTL
=============================================================================
