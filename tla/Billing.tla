------------------------------- MODULE Billing -------------------------------
(***************************************************************************)
(* Subscriptions, invoices and payments (src/internal/billing).            *)
(*                                                                         *)
(* An invoice is paid by a transfer that an administrator verifies or by a *)
(* payment gateway that calls a webhook, repeatedly until it is answered   *)
(* with success.  Both ways end in ActivateSubscription, which reads the   *)
(* invoice, reads the subscription, writes the subscription and marks the  *)
(* invoice, as four statements without a transaction.  A worker moves      *)
(* subscriptions whose time is over to grace and readonly.                 *)
(*                                                                         *)
(* Each action is one statement (or one call of the gateway); time is      *)
(* counted in days.                                                        *)
(***************************************************************************)
EXTENDS Naturals

CONSTANTS
    Schools, Invoices, Orders, Calls,
    NoSchool, NoInvoice, NoOrder,
    Period,        \* days of a subscription year
    GracePeriodDays,
    Goodwill,      \* days an administrator adds without payment
    MaxDay, MaxExtras, MaxFaults \* bounds

ASSUME BillingAssumption ==
    /\ NoSchool \notin Schools /\ NoInvoice \notin Invoices /\ NoOrder \notin Orders
    /\ Period \in Nat \ {0} /\ GracePeriodDays \in Nat /\ Goodwill \in Nat \ {0}
    /\ MaxDay \in Nat /\ MaxExtras \in Nat /\ MaxFaults \in Nat

VARIABLES
    today,
    subStatus, endsOn,           \* the subscription row of each school
    invSchool, invStatus,        \* the invoices
    verified,                    \* invoices with a payment an administrator verified
    orderInvoice, orderState,    \* transactions at the gateway and their payment rows
    callPc, callInvoice, callOrder, newEnds, \* requests
    tickPc, tickToday,           \* the lifecycle worker and the date it read
    granted,                     \* history: periods written on behalf of each invoice
    raced,                       \* history: invoices with overlapping or interrupted activations
    extras, faults               \* proofs and extensions so far; failures so far

subVars == <<subStatus, endsOn>>
invVars == <<invSchool, invStatus, verified>>
orderVars == <<orderInvoice, orderState>>
callVars == <<callPc, callInvoice, callOrder, newEnds>>
tickVars == <<tickPc, tickToday>>
bounds == <<extras, faults>>
vars == <<today, subVars, invVars, orderVars, callVars, tickVars, granted, raced, bounds>>

InvoiceStatuses == {"none", "unpaid", "awaiting_verification", "paid", "void"}
SubStatuses == {"none", "active", "grace", "readonly"}
OrderStates == {"none", "created", "known", "settled", "acknowledged"}
CallStates == {"idle", "proofChecked", "proofSaved", "payChecked", "ordered", "verifying",
               "activate", "activating", "computed", "upserted", "voiding"}

TypeOK ==
    /\ today \in Nat
    /\ subStatus \in [Schools -> SubStatuses]
    /\ endsOn \in [Schools -> Nat]
    /\ invSchool \in [Invoices -> Schools \cup {NoSchool}]
    /\ invStatus \in [Invoices -> InvoiceStatuses]
    /\ verified \in SUBSET Invoices
    /\ orderInvoice \in [Orders -> Invoices \cup {NoInvoice}]
    /\ orderState \in [Orders -> OrderStates]
    /\ callPc \in [Calls -> CallStates]
    /\ callInvoice \in [Calls -> Invoices \cup {NoInvoice}]
    /\ callOrder \in [Calls -> Orders \cup {NoOrder}]
    /\ newEnds \in [Calls -> Nat]
    /\ tickPc \in {"idle", "grace", "readonly"}
    /\ tickToday \in Nat
    /\ granted \in [Invoices -> Nat]
    /\ raced \in SUBSET Invoices
    /\ extras \in Nat /\ faults \in Nat
    /\ \A i \in Invoices : invStatus[i] # "none" => invSchool[i] \in Schools
    /\ \A o \in Orders : orderState[o] # "none" =>
         orderInvoice[o] \in Invoices /\ invStatus[orderInvoice[o]] # "none"
    /\ \A c \in Calls : callPc[c] # "idle" =>
         callInvoice[c] \in Invoices /\ invStatus[callInvoice[c]] # "none"
    /\ \A c \in Calls : callPc[c] = "ordered" => callOrder[c] \in Orders
    /\ \A c \in Calls : callOrder[c] # NoOrder => orderState[callOrder[c]] # "none"

Init ==
    /\ today = 0
    /\ subStatus = [s \in Schools |-> "none"]
    /\ endsOn = [s \in Schools |-> 0]
    /\ invSchool = [i \in Invoices |-> NoSchool]
    /\ invStatus = [i \in Invoices |-> "none"]
    /\ verified = {}
    /\ orderInvoice = [o \in Orders |-> NoInvoice]
    /\ orderState = [o \in Orders |-> "none"]
    /\ callPc = [c \in Calls |-> "idle"]
    /\ callInvoice = [c \in Calls |-> NoInvoice]
    /\ callOrder = [c \in Calls |-> NoOrder]
    /\ newEnds = [c \in Calls |-> 0]
    /\ tickPc = "idle"
    /\ tickToday = 0
    /\ granted = [i \in Invoices |-> 0]
    /\ raced = {}
    /\ extras = 0 /\ faults = 0

Return(c) ==
    /\ callPc' = [callPc EXCEPT ![c] = "idle"]
    /\ callInvoice' = [callInvoice EXCEPT ![c] = NoInvoice]
    /\ callOrder' = [callOrder EXCEPT ![c] = NoOrder]
    /\ newEnds' = [newEnds EXCEPT ![c] = 0]

\* A request about invoice i passes its first check.
Begin(c, i, pc) ==
    /\ callPc[c] = "idle"
    /\ callPc' = [callPc EXCEPT ![c] = pc]
    /\ callInvoice' = [callInvoice EXCEPT ![c] = i]
    /\ UNCHANGED newEnds

Continue(c, from, to) ==
    /\ callPc[c] = from
    /\ callPc' = [callPc EXCEPT ![c] = to]

\* The activation of an invoice is between its first read and its last write.
Activating(c, i) == callInvoice[c] = i /\ callPc[c] \in {"activating", "computed", "upserted"}

-----------------------------------------------------------------------------
(***************************************************************************)
(* Invoices and payments.                                                  *)
(***************************************************************************)
CreateSubscriptionInvoice(s, i) ==
    /\ invStatus[i] = "none"
    /\ invStatus' = [invStatus EXCEPT ![i] = "unpaid"]
    /\ invSchool' = [invSchool EXCEPT ![i] = s]
    /\ UNCHANGED <<today, subVars, verified, orderVars, callVars, tickVars, granted, raced, bounds>>

Open(i) == invStatus[i] \in {"unpaid", "awaiting_verification"}

ProofCheck(c, i) ==
    /\ Open(i)
    /\ extras < MaxExtras
    /\ extras' = extras + 1
    /\ Begin(c, i, "proofChecked")
    /\ UNCHANGED <<callOrder, today, subVars, invVars, orderVars, tickVars, granted, raced, faults>>

\* The file and the payment row.
CreateManualPayment(c) ==
    /\ Continue(c, "proofChecked", "proofSaved")
    /\ UNCHANGED <<callInvoice, callOrder, newEnds, today, subVars, invVars, orderVars, tickVars, granted, raced, bounds>>

\* SetInvoiceStatus has no condition: a paid invoice loses its mark.
SetInvoiceStatus(c, st) ==
    /\ invStatus' = [invStatus EXCEPT ![callInvoice[c]] = st]
    /\ raced' = IF invStatus[callInvoice[c]] = "paid" THEN raced \cup {callInvoice[c]} ELSE raced
    /\ Return(c)
    /\ UNCHANGED <<today, subVars, invSchool, verified, orderVars, tickVars, granted, bounds>>

ProofAwaits(c) ==
    /\ callPc[c] = "proofSaved"
    /\ SetInvoiceStatus(c, "awaiting_verification")

VoidCheck(c, i) ==
    /\ invStatus[i] \notin {"none", "paid"}
    /\ Begin(c, i, "voiding")
    /\ UNCHANGED <<callOrder, today, subVars, invVars, orderVars, tickVars, granted, raced, bounds>>

VoidInvoice(c) ==
    /\ callPc[c] = "voiding"
    /\ SetInvoiceStatus(c, "void")

PayCheck(c, i) ==
    /\ Open(i)
    /\ Begin(c, i, "payChecked")
    /\ UNCHANGED <<callOrder, today, subVars, invVars, orderVars, tickVars, granted, raced, bounds>>

\* The gateway refuses, or cannot be reached.
TransactionRefused(c) ==
    /\ callPc[c] = "payChecked"
    /\ Return(c)
    /\ UNCHANGED <<today, subVars, invVars, orderVars, tickVars, granted, raced, bounds>>

CreateTransaction(c, o) ==
    /\ Continue(c, "payChecked", "ordered")
    /\ orderState[o] = "none"
    /\ orderState' = [orderState EXCEPT ![o] = "created"]
    /\ orderInvoice' = [orderInvoice EXCEPT ![o] = callInvoice[c]]
    /\ callOrder' = [callOrder EXCEPT ![c] = o]
    /\ UNCHANGED <<callInvoice, newEnds, today, subVars, invVars, tickVars, granted, raced, bounds>>

\* The payment row; only now does the customer get the address to pay at.
CreateGatewayPayment(c) ==
    /\ callPc[c] = "ordered"
    /\ orderState' = [orderState EXCEPT ![callOrder[c]] = "known"]
    /\ Return(c)
    /\ UNCHANGED <<orderInvoice, today, subVars, invVars, tickVars, granted, raced, bounds>>

\* The customer pays at the gateway.
Settle(o) ==
    /\ orderState[o] = "known"
    /\ orderState' = [orderState EXCEPT ![o] = "settled"]
    /\ UNCHANGED <<orderInvoice, today, subVars, invVars, callVars, tickVars, granted, raced, bounds>>

-----------------------------------------------------------------------------
(***************************************************************************)
(* The two ways to ActivateSubscription.                                   *)
(***************************************************************************)
\* Mutant: the webhook does not ask whether the transaction is paid.
WebhookAnyStatus(c, o) ==
    /\ orderState[o] \in {"known", "settled"}
    /\ Begin(c, orderInvoice[o], "activate")
    /\ callOrder' = [callOrder EXCEPT ![c] = o]
    /\ UNCHANGED <<today, subVars, invVars, orderVars, tickVars, granted, raced, bounds>>

\* Mutant: the webhook is answered before the activation.
WebhookAnswersFirst(c, o) ==
    /\ orderState[o] = "settled"
    /\ Begin(c, orderInvoice[o], "activate")
    /\ callOrder' = [callOrder EXCEPT ![c] = o]
    /\ orderState' = [orderState EXCEPT ![o] = "acknowledged"]
    /\ UNCHANGED <<orderInvoice, today, subVars, invVars, tickVars, granted, raced, bounds>>

\* A webhook with a valid signature for a paid transaction whose row is found.
HandleGatewayWebhook(c, o) ==
    /\ orderState[o] = "settled"
    /\ Begin(c, orderInvoice[o], "activate")
    /\ callOrder' = [callOrder EXCEPT ![c] = o]
    /\ UNCHANGED <<today, subVars, invVars, orderVars, tickVars, granted, raced, bounds>>

VerifyCheck(c, i) ==
    /\ Open(i)
    /\ Begin(c, i, "verifying")
    /\ UNCHANGED <<callOrder, today, subVars, invVars, orderVars, tickVars, granted, raced, bounds>>

VerifyManualPayment(c) ==
    /\ Continue(c, "verifying", "activate")
    /\ verified' = verified \cup {callInvoice[c]}
    /\ UNCHANGED <<callInvoice, callOrder, newEnds, today, subVars, invSchool, invStatus, orderVars, tickVars, granted, raced, bounds>>

\* The webhook answers 200 and the gateway stops calling.
Acknowledge(c) ==
    orderState' = IF callOrder[c] # NoOrder
                  THEN [orderState EXCEPT ![callOrder[c]] = "acknowledged"] ELSE orderState

\* GetInvoice finds it paid: nothing to do.
ActivateAlreadyPaid(c) ==
    /\ callPc[c] = "activate"
    /\ invStatus[callInvoice[c]] = "paid"
    /\ Acknowledge(c)
    /\ Return(c)
    /\ UNCHANGED <<orderInvoice, today, subVars, invVars, tickVars, granted, raced, bounds>>

\* GetInvoice finds it open; a void one makes the call fail.
ActivateRead(c) ==
    /\ Continue(c, "activate", "activating")
    /\ Open(callInvoice[c])
    /\ raced' = IF \E d \in Calls : Activating(d, callInvoice[c])
                THEN raced \cup {callInvoice[c]} ELSE raced
    /\ UNCHANGED <<callInvoice, callOrder, newEnds, today, subVars, invVars, orderVars, tickVars, granted, bounds>>

\* The day the new period is counted from.
Base(s) == IF subStatus[s] # "none" /\ endsOn[s] > today THEN endsOn[s] ELSE today

GetSubscription(c) ==
    /\ Continue(c, "activating", "computed")
    /\ newEnds' = [newEnds EXCEPT ![c] = Base(invSchool[callInvoice[c]]) + Period]
    /\ UNCHANGED <<callInvoice, callOrder, today, subVars, invVars, orderVars, tickVars, granted, raced, bounds>>

UpsertSubscription(c) ==
    /\ Continue(c, "computed", "upserted")
    /\ subStatus' = [subStatus EXCEPT ![invSchool[callInvoice[c]]] = "active"]
    /\ endsOn' = [endsOn EXCEPT ![invSchool[callInvoice[c]]] = newEnds[c]]
    /\ granted' = [granted EXCEPT ![callInvoice[c]] = @ + 1]
    /\ UNCHANGED <<callInvoice, callOrder, newEnds, today, invVars, orderVars, tickVars, raced, bounds>>

\* SetInvoicePaid, without a condition.
SetInvoicePaid(c) ==
    /\ callPc[c] = "upserted"
    /\ invStatus' = [invStatus EXCEPT ![callInvoice[c]] = "paid"]
    /\ Acknowledge(c)
    /\ Return(c)
    /\ UNCHANGED <<orderInvoice, today, subVars, invSchool, verified, tickVars, granted, raced, bounds>>

\* The activation of an invoice that is not open any more is refused.
ActivateRefused(c) ==
    /\ callPc[c] = "activate"
    /\ invStatus[callInvoice[c]] = "void"
    /\ Return(c)
    /\ UNCHANGED <<today, subVars, invVars, orderVars, tickVars, granted, raced, bounds>>

\* A statement fails or the server stops: what was written stays.
CallFails(c) ==
    /\ callPc[c] # "idle"
    /\ faults < MaxFaults
    /\ faults' = faults + 1
    /\ raced' = IF callPc[c] = "upserted" THEN raced \cup {callInvoice[c]} ELSE raced
    /\ Return(c)
    /\ UNCHANGED <<today, subVars, invVars, orderVars, tickVars, granted, extras>>

-----------------------------------------------------------------------------
(***************************************************************************)
(* Goodwill, and the worker: one date, two statements.                     *)
(***************************************************************************)
ExtendSubscriptionGoodwill(s) ==
    /\ extras < MaxExtras
    /\ extras' = extras + 1
    /\ subStatus[s] # "none"
    /\ endsOn' = [endsOn EXCEPT ![s] = @ + Goodwill]
    /\ subStatus' = [subStatus EXCEPT ![s] = "active"]
    /\ UNCHANGED <<today, invVars, orderVars, callVars, tickVars, granted, raced, faults>>

TickOnce ==
    /\ tickPc = "idle"
    /\ tickPc' = "grace"
    /\ tickToday' = today
    /\ UNCHANGED <<today, subVars, invVars, orderVars, callVars, granted, raced, bounds>>

\* Mutant: the last day is not part of the period.
TransitionActiveToGraceEarly ==
    /\ tickPc = "grace"
    /\ subStatus' = [s \in Schools |->
           IF subStatus[s] = "active" /\ endsOn[s] <= tickToday THEN "grace" ELSE subStatus[s]]
    /\ tickPc' = "readonly"
    /\ UNCHANGED <<endsOn, tickToday, today, invVars, orderVars, callVars, granted, raced, bounds>>

TransitionActiveToGrace ==
    /\ tickPc = "grace"
    /\ subStatus' = [s \in Schools |->
           IF subStatus[s] = "active" /\ endsOn[s] < tickToday THEN "grace" ELSE subStatus[s]]
    /\ tickPc' = "readonly"
    /\ UNCHANGED <<endsOn, tickToday, today, invVars, orderVars, callVars, granted, raced, bounds>>

\* Mutant: grace is forgotten.
TransitionGraceToReadonlyNever ==
    /\ tickPc = "readonly"
    /\ subStatus' = [s \in Schools |->
           IF subStatus[s] = "active" /\ endsOn[s] + GracePeriodDays < tickToday
           THEN "readonly" ELSE subStatus[s]]
    /\ tickPc' = "idle"
    /\ tickToday' = 0
    /\ UNCHANGED <<endsOn, today, invVars, orderVars, callVars, granted, raced, bounds>>

TransitionGraceToReadonly ==
    /\ tickPc = "readonly"
    /\ subStatus' = [s \in Schools |->
           IF subStatus[s] = "grace" /\ endsOn[s] + GracePeriodDays < tickToday
           THEN "readonly" ELSE subStatus[s]]
    /\ tickPc' = "idle"
    /\ tickToday' = 0
    /\ UNCHANGED <<endsOn, today, invVars, orderVars, callVars, granted, raced, bounds>>

TickFails ==
    /\ tickPc # "idle"
    /\ faults < MaxFaults
    /\ faults' = faults + 1
    /\ tickPc' = "idle"
    /\ tickToday' = 0
    /\ UNCHANGED <<today, subVars, invVars, orderVars, callVars, granted, raced, extras>>

DayPasses ==
    /\ today < MaxDay
    /\ today' = today + 1
    /\ UNCHANGED <<subVars, invVars, orderVars, callVars, tickVars, granted, raced, bounds>>

-----------------------------------------------------------------------------
\* The statements of a request after its first.
CallProgress(c) ==
    \/ CreateManualPayment(c) \/ ProofAwaits(c) \/ VoidInvoice(c)
    \/ TransactionRefused(c) \/ \E o \in Orders : CreateTransaction(c, o)
    \/ CreateGatewayPayment(c)
    \/ VerifyManualPayment(c)
    \/ ActivateAlreadyPaid(c) \/ ActivateRefused(c) \/ ActivateRead(c)
    \/ GetSubscription(c) \/ UpsertSubscription(c) \/ SetInvoicePaid(c)

TickStep == TickOnce \/ TransitionActiveToGrace \/ TransitionGraceToReadonly

Next ==
    \/ \E c \in Calls :
         \/ CallProgress(c) \/ CallFails(c)
         \/ \E i \in Invoices : ProofCheck(c, i) \/ VoidCheck(c, i) \/ PayCheck(c, i) \/ VerifyCheck(c, i)
         \/ \E o \in Orders : HandleGatewayWebhook(c, o)
    \/ \E s \in Schools : ExtendSubscriptionGoodwill(s) \/ \E i \in Invoices : CreateSubscriptionInvoice(s, i)
    \/ \E o \in Orders : Settle(o)
    \/ TickStep \/ TickFails \/ DayPasses

Spec == Init /\ [][Next]_vars

\* Requests run on, the gateway calls again until it is answered, the worker
\* ticks and days pass.
Fairness ==
    /\ \A c \in Calls : WF_vars(CallProgress(c))
    /\ \A o \in Orders : SF_vars(\E c \in Calls : HandleGatewayWebhook(c, o))
    /\ WF_vars(TickStep)
    /\ WF_vars(DayPasses)
FairSpec == Spec /\ Fairness

-----------------------------------------------------------------------------
(***************************************************************************)
(* Properties.                                                             *)
(***************************************************************************)
\* A school is in grace only after its last day and readonly only after the
\* grace days, although the worker compares with a date it read earlier and
\* renewals and extensions come in between its two statements.
NeverLockedEarly ==
    \A s \in Schools :
        /\ subStatus[s] = "grace" => endsOn[s] < today
        /\ subStatus[s] = "readonly" => endsOn[s] + GracePeriodDays < today

\* Whatever fails in between, an invoice marked paid has given its period, and
\* a period was given for a payment only: settled at the gateway or verified.
PaidAndGranted ==
    \A i \in Invoices :
        /\ invStatus[i] = "paid" => granted[i] >= 1
        /\ granted[i] >= 1 =>
             \/ i \in verified
             \/ \E o \in Orders : orderInvoice[o] = i /\ orderState[o] \in {"settled", "acknowledged"}

\* An invoice gives one period, unless activations of it overlapped, one was
\* interrupted after it wrote the subscription, or a status written late took
\* its mark away.
OnePeriodUnlessRaced == \A i \in Invoices \ raced : granted[i] <= 1

\* A transaction the customer paid ends with its invoice paid, through failed
\* webhooks and restarts, unless the invoice is void.
SettledIsHonoured ==
    \A o \in Orders : orderState[o] = "settled" ~>
        \E i \in Invoices : orderInvoice[o] = i /\ invStatus[i] \in {"paid", "void"}

\* A subscription whose grace is over is locked, or was renewed.
OverdueIsLocked ==
    \A s \in Schools : (subStatus[s] # "none" /\ endsOn[s] + GracePeriodDays < today) ~>
        (subStatus[s] = "readonly" \/ endsOn[s] + GracePeriodDays >= today)

\* What the comment on ActivateSubscription says: it can be called any number
\* of times for an invoice, from the webhook and from the verification.
ActivatedOnce == \A i \in Invoices : granted[i] <= 1
=============================================================================
