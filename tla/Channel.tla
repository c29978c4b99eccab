------------------------------ MODULE Channel -------------------------------
(***************************************************************************)
(* The WhatsApp channel of a workspace: connecting a number, disconnecting *)
(* an account, health checks and the errors the send path reports          *)
(* (server/services/whatsapp/meta-onboarding.service.ts,                   *)
(* meta-connection-health.service.ts, whatsapp-account.service.ts,         *)
(* server/repositories/whatsapp-account.repository.ts).  None of these     *)
(* uses a transaction: each is a sequence of statements with calls to Meta *)
(* in between, and each can die between two of them.                       *)
(***************************************************************************)
EXTENDS Naturals, FiniteSets

CONSTANTS
    Workspaces,
    Wabas,      \* WhatsApp Business Accounts at Meta
    Phones,     \* phone numbers at Meta
    ListedOn,   \* the accounts under which Meta has listed each number
    Requests,   \* what can be in flight at once
    None,
    NumberQuota, \* whatsappNumbers of every workspace's plan
    MaxRequests  \* bound: requests ever begun

ASSUME Parameters ==
    /\ ListedOn \in [Phones -> SUBSET Wabas]
    /\ None \notin Workspaces \cup Wabas
    /\ NumberQuota \in Nat /\ MaxRequests \in Nat

VARIABLES
    account,  \* WhatsAppAccount rows; wabaId is unique, so there is one per Waba
    phone,    \* WhatsAppPhoneNumber rows; phoneNumberId is unique
    at, req,  \* where each request is, and what it knows
    byCheck,  \* history: a health check wrote the account's status last
    outrun,   \* history: a writer that had seen a token wrote after it was gone
    tangled,  \* history: the account's last connection was cut short or interfered with
    settled,  \* history: the number was connected, and no disconnection has written since
    misjudged, \* history: a check that had seen no token wrote over a token
    begun

rows == <<account, phone>>
local == <<at, req, begun>>
history == <<byCheck, outrun, tangled, settled, misjudged>>
vars == <<rows, local, history>>

ChannelStatus == {"PENDING", "CONNECTED", "DEGRADED", "ERROR", "DISCONNECTED"}
Accounts == [owner : Workspaces \cup {None}, token : BOOLEAN, status : ChannelStatus,
             verified : BOOLEAN]
Numbers == [owner : Workspaces \cup {None}, of : Wabas \cup {None}, live : BOOLEAN,
            registered : BOOLEAN]
\* The stages of a connection, those after its first write, and everything else's.
Writing == {"upsertPhone", "readBack", "recordState", "markRegistered"}
Connecting == {"checkWaba", "checkPhone", "checkQuota", "askMeta", "upsertAccount"} \cup Writing
Stages == {"idle", "finish", "disconnectAccount", "disconnectPhones", "sending", "error"}
          \cup Connecting

Blank == [owner |-> None, on |-> None, number |-> None, update |-> FALSE,
          confirmed |-> FALSE, registered |-> FALSE, found |-> FALSE,
          token |-> FALSE, status |-> "PENDING", numbers |-> FALSE]
Known == [owner : Workspaces \cup {None}, on : Wabas \cup {None}, number : Phones \cup {None},
          update : BOOLEAN, confirmed : BOOLEAN, registered : BOOLEAN, found : BOOLEAN,
          token : BOOLEAN, status : ChannelStatus, numbers : BOOLEAN]

Init ==
    /\ account = [w \in Wabas |-> [owner |-> None, token |-> FALSE,
                                   status |-> "DISCONNECTED", verified |-> FALSE]]
    /\ phone = [p \in Phones |-> [owner |-> None, of |-> None, live |-> FALSE,
                                  registered |-> FALSE]]
    /\ at = [r \in Requests |-> "idle"]
    /\ req = [r \in Requests |-> Blank]
    /\ byCheck = {} /\ outrun = {} /\ tangled = {} /\ settled = {} /\ misjudged = {}
    /\ begun = 0

-----------------------------------------------------------------------------
NumbersOf(w) == {p \in Phones : phone[p].of = w}
On(r, w) == req[r].on = w
InStage(w, stages) == \E r \in Requests : at[r] \in stages /\ On(r, w)

\* processInboundMessage takes a message for a number unless a status says
\* DISCONNECTED.
acceptsInbound(p) ==
    /\ phone[p].live
    /\ phone[p].of # None /\ account[phone[p].of].status # "DISCONNECTED"

Set(S, x, belongs) == IF belongs THEN S \cup {x} ELSE S \ {x}

Begin(r, stage, known) ==
    /\ at[r] = "idle" /\ begun < MaxRequests
    /\ at' = [at EXCEPT ![r] = stage]
    /\ req' = [req EXCEPT ![r] = known]
    /\ begun' = begun + 1

Move(r, stage) ==
    /\ at' = [at EXCEPT ![r] = stage]
    /\ UNCHANGED <<req, begun>>

Learn(r, stage, known) ==
    /\ at' = [at EXCEPT ![r] = stage]
    /\ req' = [req EXCEPT ![r] = known]
    /\ begun' = begun

End(r) == Learn(r, "idle", Blank)

\* Any statement or call may fail, and the process may die.
Throw(r) ==
    /\ at[r] # "idle"
    /\ tangled' = IF at[r] \in Writing THEN tangled \cup {req[r].on} ELSE tangled
    /\ End(r)
    /\ UNCHANGED <<rows, byCheck, outrun, settled, misjudged>>

-----------------------------------------------------------------------------
(* Connecting a number.                                                    *)

\* verifyAssets and introspectToken: Meta lists the number on the account.
verifyAssets(r, s, w, p) ==
    /\ w \in ListedOn[p]
    /\ Begin(r, "checkWaba", [Blank EXCEPT !.owner = s, !.on = w, !.number = p])
    /\ UNCHANGED <<rows, history>>

\* assertAssetsUnclaimed, its two reads.
findAccountOwnerByWabaId(r) ==
    LET k == req[r]
        holder == account[k.on].owner IN
    /\ at[r] = "checkWaba"
    /\ IF holder \in {None, k.owner}
         THEN Learn(r, "checkPhone", [k EXCEPT !.update = (holder = k.owner)])
         ELSE End(r)
    /\ UNCHANGED <<rows, history>>

findPhoneOwner(r) ==
    LET k == req[r]
        holder == phone[k.number].owner
        update == k.update \/ holder = k.owner IN
    /\ at[r] = "checkPhone"
    /\ IF holder \in {None, k.owner}
         THEN Learn(r, IF update THEN "askMeta" ELSE "checkQuota", [k EXCEPT !.update = update])
         ELSE End(r)
    /\ UNCHANGED <<rows, history>>

assertWithinPlanLimit(r) ==
    /\ at[r] = "checkQuota"
    /\ IF Cardinality({p \in Phones : phone[p].owner = req[r].owner}) < NumberQuota
         THEN Move(r, "askMeta")
         ELSE End(r)
    /\ UNCHANGED <<rows, history>>

\* subscribeAndConfirm and registerNumber: whatever Meta answers.
askMeta(r) ==
    /\ at[r] = "askMeta"
    /\ \E confirmed, registered \in BOOLEAN :
         Learn(r, "upsertAccount", [req[r] EXCEPT !.confirmed = confirmed, !.registered = registered])
    /\ UNCHANGED <<rows, history>>

\* Mutant: either half of the loop counts as the whole.
connectionStatusMutant(k) == IF k.confirmed \/ k.registered THEN "CONNECTED" ELSE "DEGRADED"

connectionStatus(k) == IF k.confirmed /\ k.registered THEN "CONNECTED" ELSE "DEGRADED"

\* The first statement of upsertWhatsAppAccountWithPhoneNumber; inserting an
\* account that another workspace has in the meantime violates a unique index.
upsertAccount(r) ==
    LET k == req[r] IN
    /\ at[r] = "upsertAccount"
    /\ IF account[k.on].owner \in {None, k.owner}
         THEN /\ account' = [account EXCEPT ![k.on] = [@ EXCEPT !.owner = k.owner, !.token = TRUE,
                                                       !.status = connectionStatus(k)]]
              /\ byCheck' = byCheck \ {k.on}
              /\ outrun' = outrun \ {k.on}
              /\ misjudged' = misjudged \ {k.on}
              /\ tangled' = Set(tangled, k.on, InStage(k.on, Writing))
              /\ Move(r, "upsertPhone")
         ELSE /\ End(r)
              /\ UNCHANGED <<account, byCheck, outrun, tangled, misjudged>>
    /\ UNCHANGED <<phone, settled>>

\* Its second statement, which takes the number along from wherever it was.
upsertPhone(r) ==
    LET k == req[r]
        before == phone[k.number].of IN
    /\ at[r] = "upsertPhone"
    /\ phone' = [phone EXCEPT ![k.number] = [@ EXCEPT !.owner = k.owner, !.of = k.on, !.live = TRUE]]
    /\ tangled' = IF before \in {None, k.on} THEN tangled ELSE tangled \cup {before}
    /\ settled' = Set(settled, k.number, account[k.on].token)
    /\ Move(r, "readBack")
    /\ UNCHANGED <<account, byCheck, outrun, misjudged>>

\* Its third: the account with its numbers.
readBack(r) ==
    /\ at[r] = "readBack"
    /\ Learn(r, "recordState", [req[r] EXCEPT !.found = (phone[req[r].number].of = req[r].on)])
    /\ UNCHANGED <<rows, history>>

updateAccountConnectionState(r) ==
    LET k == req[r] IN
    /\ at[r] = "recordState"
    /\ account' = [account EXCEPT ![k.on].verified = k.confirmed]
    /\ IF k.found /\ k.registered THEN Move(r, "markRegistered") ELSE End(r)
    /\ UNCHANGED <<phone, history>>

markPhoneNumberRegistered(r) ==
    LET k == req[r] IN
    /\ at[r] = "markRegistered"
    /\ phone' = IF phone[k.number].owner = k.owner
                  THEN [phone EXCEPT ![k.number].registered = TRUE]
                  ELSE phone
    /\ End(r)
    /\ UNCHANGED <<account, history>>

-----------------------------------------------------------------------------
(* Disconnecting an account.                                               *)

findAccountById(r, w) ==
    /\ account[w].owner # None
    /\ Begin(r, "disconnectAccount", [Blank EXCEPT !.owner = account[w].owner, !.on = w])
    /\ UNCHANGED <<rows, history>>

disconnectAccount(r) ==
    LET w == req[r].on IN
    /\ at[r] = "disconnectAccount"
    /\ account' = [account EXCEPT ![w] = [@ EXCEPT !.token = FALSE, !.status = "DISCONNECTED",
                                                   !.verified = FALSE]]
    /\ byCheck' = byCheck \ {w} /\ outrun' = outrun \ {w} /\ misjudged' = misjudged \ {w}
    /\ settled' = settled \ NumbersOf(w)
    /\ Move(r, "disconnectPhones")
    /\ UNCHANGED <<phone, tangled>>

\* The second statement: every number the account has by then.
disconnectPhones(r) ==
    LET w == req[r].on IN
    /\ at[r] = "disconnectPhones"
    /\ phone' = [p \in Phones |-> IF p \in NumbersOf(w)
                                    THEN [phone[p] EXCEPT !.live = FALSE, !.registered = FALSE]
                                    ELSE phone[p]]
    /\ tangled' = IF account[w].token THEN tangled \cup {w} ELSE tangled
    /\ settled' = settled \ NumbersOf(w)
    /\ End(r)
    /\ UNCHANGED <<account, byCheck, outrun, misjudged>>

-----------------------------------------------------------------------------
(* Health checks, and what the send path reports.                          *)

runConnectionHealthCheck(r, w) ==
    LET a == account[w] IN
    /\ a.owner # None
    /\ Begin(r, "finish", [Blank EXCEPT !.owner = a.owner, !.on = w, !.token = a.token,
                                        !.status = a.status, !.numbers = (NumbersOf(w) # {})])
    /\ UNCHANGED <<rows, history>>

\* Mutant: the missing token is a failed check like any other.
statusForMutant(k, failed) ==
    IF failed THEN "DEGRADED"
    ELSE IF k.status = "ERROR" THEN "ERROR" ELSE "CONNECTED"

\* Mutant: any failed check takes the channel off.
statusForStrict(k, failed) ==
    IF failed THEN "DISCONNECTED"
    ELSE IF k.status = "ERROR" THEN "ERROR" ELSE "CONNECTED"

statusFor(k, failed) ==
    IF ~k.token THEN "DISCONNECTED"
    ELSE IF failed THEN "DEGRADED"
    ELSE IF k.status = "ERROR" THEN "ERROR" ELSE "CONNECTED"

\* What a check writes; a subscription it could not confirm is left as it was.
Verdict(a, status, subscribed) ==
    IF subscribed THEN [a EXCEPT !.status = status, !.verified = TRUE]
    ELSE [a EXCEPT !.status = status]

\* What the checks can find: without a token nothing is asked, and an account
\* without a number fails.
Answers(k, failed, subscribed) ==
    /\ ~k.token \/ ~k.numbers => failed
    /\ ~k.token => ~subscribed

\* Meta's answers, then the verdict.
finish(r) ==
    LET k == req[r] IN
    /\ at[r] = "finish"
    /\ \E failed, subscribed \in BOOLEAN :
         /\ Answers(k, failed, subscribed)
         /\ account' = [account EXCEPT ![k.on] =
                Verdict(@, statusFor(k, failed), subscribed)]
    /\ byCheck' = byCheck \cup {k.on}
    /\ outrun' = Set(outrun, k.on, k.token /\ ~account[k.on].token)
    /\ misjudged' = Set(misjudged, k.on, ~k.token /\ account[k.on].token)
    /\ End(r)
    /\ UNCHANGED <<phone, tangled, settled>>

\* dispatchOutboundMessage has a token; Meta refuses it.
send(r, p) ==
    LET w == phone[p].of IN
    /\ w # None /\ account[w].token
    /\ Begin(r, "sending", [Blank EXCEPT !.owner = phone[p].owner, !.number = p])
    /\ UNCHANGED <<rows, history>>

\* recordSendFailure looks the number up in the sender's workspace ...
recordSendFailure(r) ==
    LET n == phone[req[r].number] IN
    /\ at[r] = "sending"
    /\ IF n.owner = req[r].owner THEN Learn(r, "error", [req[r] EXCEPT !.on = n.of]) ELSE End(r)
    /\ UNCHANGED <<rows, history>>

\* ... and marks its account.
updateAccountError(r) ==
    LET w == req[r].on IN
    /\ at[r] = "error"
    /\ account' = [account EXCEPT ![w].status = "ERROR"]
    /\ outrun' = IF account[w].token THEN outrun ELSE outrun \cup {w}
    /\ byCheck' = byCheck \ {w} /\ misjudged' = misjudged \ {w}
    /\ End(r)
    /\ UNCHANGED <<phone, tangled, settled>>

-----------------------------------------------------------------------------
Step(r) ==
    \/ findAccountOwnerByWabaId(r)
    \/ findPhoneOwner(r)
    \/ assertWithinPlanLimit(r)
    \/ askMeta(r)
    \/ upsertAccount(r)
    \/ upsertPhone(r)
    \/ readBack(r)
    \/ updateAccountConnectionState(r)
    \/ markPhoneNumberRegistered(r)
    \/ disconnectAccount(r)
    \/ disconnectPhones(r)
    \/ finish(r)
    \/ recordSendFailure(r)
    \/ updateAccountError(r)
    \/ Throw(r)

Next ==
    \E r \in Requests :
        \/ Step(r)
        \/ \E w \in Wabas : findAccountById(r, w) \/ runConnectionHealthCheck(r, w)
        \/ \E p \in Phones : send(r, p)
        \/ \E s \in Workspaces, w \in Wabas, p \in Phones : verifyAssets(r, s, w, p)

Spec == Init /\ [][Next]_vars

-----------------------------------------------------------------------------
(* What is claimed.                                                        *)

TypeOK ==
    /\ account \in [Wabas -> Accounts]
    /\ phone \in [Phones -> Numbers]
    /\ at \in [Requests -> Stages]
    /\ req \in [Requests -> Known]
    /\ byCheck \subseteq Wabas /\ outrun \subseteq Wabas /\ tangled \subseteq Wabas
    /\ settled \subseteq Phones /\ misjudged \subseteq Wabas
    /\ begun \in 0..MaxRequests

\* A customer who writes to a number that has been connected is heard until a
\* disconnection writes to its account: no send error, rival claim or second
\* connection makes the webhook ignore the number's messages, and of the health
\* checks those alone that had begun when the account had no token and end when
\* it has one again, whose DISCONNECTED goes over the reconnection.  (Any
\* disconnection ends the claim, one asked for before the number was connected
\* too.)
ConnectedIsHeard == \A p \in settled : acceptsInbound(p) \/ phone[p].of \in misjudged

\* An account without a token says DISCONNECTED, unless a check or a send
\* that had begun with the token has written its verdict since.
NoTokenNoChannel ==
    \A w \in Wabas : account[w].token \/ w \in outrun \/ account[w].status = "DISCONNECTED"

\* CONNECTED is a claim with two proofs, a confirmed subscription and a
\* registered number of this account, where a connection that ran to its end
\* undisturbed made it.  (A health check makes it without them.)
ConnectedIsProven ==
    \A w \in Wabas :
        account[w].status = "CONNECTED" /\ w \notin byCheck \cup tangled /\ ~InStage(w, Writing)
            => /\ account[w].verified
               /\ \E p \in NumbersOf(w) : phone[p].registered
=============================================================================
