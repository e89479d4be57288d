--------------------------- MODULE PlatformProofs ---------------------------
(***************************************************************************)
(* Proofs about the platform that schools subscribe to, for any number of  *)
(* schools, invoices, requests and pages.  Billing: the dates of grace and *)
(* readonly, payment and period belong together, and one period for an     *)
(* invoice unless its activations raced.  SubscriptionCache: the bound on  *)
(* how old a served snapshot may be, the causes of a stale entry, and the  *)
(* merging of feature overrides.  Hosts: a lookup that answers wrongly has *)
(* a cause, and a verified domain is in use.  Realtime: what becomes of a  *)
(* page whose connection is lost.                                          *)
(***************************************************************************)
EXTENDS Billing, SubscriptionCache, Hosts, Realtime, TLAPS

-----------------------------------------------------------------------------
(* Invoices, payments and the life of a subscription. *)

\* The invoice was paid for: verified by an administrator, or at the gateway.
Backed(i) ==
    \/ i \in verified
    \/ \E o \in Orders : orderInvoice[o] = i /\ orderState[o] \in {"settled", "acknowledged"}

\* The worker compares with a date that is not in the future.
InvDates == (tickPc # "idle" => tickToday <= today) /\ NeverLockedEarly

\* A request that created a transaction is the only one to know it yet.
InvOrders ==
    /\ \A c \in Calls : callPc[c] = "ordered" => orderState[callOrder[c]] = "created"
    /\ \A c, d \in Calls : callPc[c] = "ordered" /\ callPc[d] = "ordered" /\ callOrder[c] = callOrder[d] => c = d
    /\ \A c \in Calls : callOrder[c] # NoOrder /\ callPc[c] # "ordered" =>
         orderState[callOrder[c]] \in {"settled", "acknowledged"}

\* An activation runs only for an invoice that was paid for, and marks it paid
\* only after it has given the period.
InvPayments ==
    /\ \A c \in Calls : callPc[c] \in {"activate", "activating", "computed", "upserted"} =>
         Backed(callInvoice[c])
    /\ \A c \in Calls : callPc[c] = "upserted" => granted[callInvoice[c]] >= 1
    /\ \A i \in Invoices : invStatus[i] = "paid" => granted[i] >= 1
    /\ \A i \in Invoices : granted[i] >= 1 => Backed(i)

\* Without a race: one activation at a time, none once the invoice is paid, and
\* a period that was given shows in the status or in the running activation.
Calm(i) ==
    /\ granted[i] <= 1
    /\ \A c, d \in Calls : Activating(c, i) /\ Activating(d, i) => c = d
    /\ \A c \in Calls : Activating(c, i) /\ callPc[c] # "upserted" => granted[i] = 0
    /\ \A c \in Calls : Activating(c, i) => invStatus[i] # "paid"
    /\ granted[i] >= 1 => invStatus[i] = "paid" \/ \E c \in Calls : Activating(c, i)
InvRaces == \A i \in Invoices \ raced : Calm(i)

IInv == TypeOK /\ InvDates /\ InvOrders /\ InvPayments /\ InvRaces

LEMMA TypeInit == Init => TypeOK
BY BillingAssumption DEF Init, TypeOK, InvoiceStatuses, SubStatuses, OrderStates, CallStates

LEMMA TypeStep == TypeOK /\ [Next]_vars => TypeOK'
<1> SUFFICES ASSUME TypeOK, [Next]_vars PROVE TypeOK'
  OBVIOUS
<1> USE BillingAssumption DEF TypeOK, InvoiceStatuses, SubStatuses, OrderStates, CallStates, subVars, invVars, orderVars, callVars, tickVars, bounds
<1>1. ASSUME NEW s \in Schools, NEW i \in Invoices, CreateSubscriptionInvoice(s, i) PROVE TypeOK'
  BY <1>1 DEF CreateSubscriptionInvoice
<1>2. ASSUME NEW c \in Calls, NEW i \in Invoices, ProofCheck(c, i) PROVE TypeOK'
  BY <1>2 DEF ProofCheck, Begin, Open
<1>3. ASSUME NEW c \in Calls, CreateManualPayment(c) PROVE TypeOK'
  BY <1>3 DEF CreateManualPayment, Continue
<1>4. ASSUME NEW c \in Calls, ProofAwaits(c) PROVE TypeOK'
  BY <1>4 DEF ProofAwaits, SetInvoiceStatus, Return
<1>5. ASSUME NEW c \in Calls, NEW i \in Invoices, VoidCheck(c, i) PROVE TypeOK'
  BY <1>5 DEF VoidCheck, Begin
<1>6. ASSUME NEW c \in Calls, VoidInvoice(c) PROVE TypeOK'
  BY <1>6 DEF VoidInvoice, SetInvoiceStatus, Return
<1>7. ASSUME NEW c \in Calls, NEW i \in Invoices, PayCheck(c, i) PROVE TypeOK'
  BY <1>7 DEF PayCheck, Begin, Open
<1>8. ASSUME NEW c \in Calls, TransactionRefused(c) PROVE TypeOK'
  BY <1>8 DEF TransactionRefused, Return
<1>9. ASSUME NEW c \in Calls, NEW o \in Orders, CreateTransaction(c, o) PROVE TypeOK'
  BY <1>9 DEF CreateTransaction, Continue
<1>10. ASSUME NEW c \in Calls, CreateGatewayPayment(c) PROVE TypeOK'
  BY <1>10 DEF CreateGatewayPayment, Return
<1>11. ASSUME NEW o \in Orders, Settle(o) PROVE TypeOK'
  BY <1>11 DEF Settle
<1>12. ASSUME NEW c \in Calls, NEW o \in Orders, HandleGatewayWebhook(c, o) PROVE TypeOK'
  BY <1>12 DEF HandleGatewayWebhook, Begin
<1>13. ASSUME NEW c \in Calls, NEW i \in Invoices, VerifyCheck(c, i) PROVE TypeOK'
  BY <1>13 DEF VerifyCheck, Begin, Open
<1>14. ASSUME NEW c \in Calls, VerifyManualPayment(c) PROVE TypeOK'
  BY <1>14 DEF VerifyManualPayment, Continue
<1>15. ASSUME NEW c \in Calls, ActivateAlreadyPaid(c) PROVE TypeOK'
  BY <1>15 DEF ActivateAlreadyPaid, Acknowledge, Return
<1>16. ASSUME NEW c \in Calls, ActivateRead(c) PROVE TypeOK'
  BY <1>16 DEF ActivateRead, Continue, Open
<1>17. ASSUME NEW c \in Calls, GetSubscription(c) PROVE TypeOK'
  BY <1>17 DEF GetSubscription, Continue, Base
<1>18. ASSUME NEW c \in Calls, UpsertSubscription(c) PROVE TypeOK'
  BY <1>18 DEF UpsertSubscription, Continue
<1>19. ASSUME NEW c \in Calls, SetInvoicePaid(c) PROVE TypeOK'
  BY <1>19 DEF SetInvoicePaid, Acknowledge, Return
<1>20. ASSUME NEW c \in Calls, ActivateRefused(c) PROVE TypeOK'
  BY <1>20 DEF ActivateRefused, Return
<1>21. ASSUME NEW c \in Calls, CallFails(c) PROVE TypeOK'
  BY <1>21 DEF CallFails, Return
<1>22. ASSUME NEW s \in Schools, ExtendSubscriptionGoodwill(s) PROVE TypeOK'
  BY <1>22 DEF ExtendSubscriptionGoodwill
<1>23. CASE TickOnce
  BY <1>23 DEF TickOnce
<1>24. CASE TransitionActiveToGrace
  BY <1>24 DEF TransitionActiveToGrace
<1>25. CASE TransitionGraceToReadonly
  BY <1>25 DEF TransitionGraceToReadonly
<1>26. CASE TickFails
  BY <1>26 DEF TickFails
<1>27. CASE DayPasses
  BY <1>27 DEF DayPasses
<1>28. CASE UNCHANGED vars
  BY <1>28 DEF vars
<1> QED BY <1>1, <1>2, <1>3, <1>4, <1>5, <1>6, <1>7, <1>8, <1>9, <1>10, <1>11, <1>12, <1>13, <1>14, <1>15, <1>16, <1>17, <1>18, <1>19, <1>20, <1>21, <1>22, <1>23, <1>24, <1>25, <1>26, <1>27, <1>28 DEF Next, CallProgress, TickStep

LEMMA DatesStep == TypeOK /\ InvDates /\ [Next]_vars => InvDates'
<1> SUFFICES ASSUME TypeOK, InvDates, [Next]_vars PROVE InvDates'
  OBVIOUS
<1> USE BillingAssumption DEF TypeOK, InvoiceStatuses, SubStatuses, OrderStates, CallStates, InvDates, NeverLockedEarly, subVars, invVars, orderVars, callVars, tickVars, bounds
<1>1. ASSUME NEW s \in Schools, NEW i \in Invoices, CreateSubscriptionInvoice(s, i) PROVE InvDates'
  BY <1>1 DEF CreateSubscriptionInvoice
<1>2. ASSUME NEW c \in Calls, NEW i \in Invoices, ProofCheck(c, i) PROVE InvDates'
  BY <1>2 DEF ProofCheck, Begin, Open
<1>3. ASSUME NEW c \in Calls, CreateManualPayment(c) PROVE InvDates'
  BY <1>3 DEF CreateManualPayment, Continue
<1>4. ASSUME NEW c \in Calls, ProofAwaits(c) PROVE InvDates'
  BY <1>4 DEF ProofAwaits, SetInvoiceStatus, Return
<1>5. ASSUME NEW c \in Calls, NEW i \in Invoices, VoidCheck(c, i) PROVE InvDates'
  BY <1>5 DEF VoidCheck, Begin
<1>6. ASSUME NEW c \in Calls, VoidInvoice(c) PROVE InvDates'
  BY <1>6 DEF VoidInvoice, SetInvoiceStatus, Return
<1>7. ASSUME NEW c \in Calls, NEW i \in Invoices, PayCheck(c, i) PROVE InvDates'
  BY <1>7 DEF PayCheck, Begin, Open
<1>8. ASSUME NEW c \in Calls, TransactionRefused(c) PROVE InvDates'
  BY <1>8 DEF TransactionRefused, Return
<1>9. ASSUME NEW c \in Calls, NEW o \in Orders, CreateTransaction(c, o) PROVE InvDates'
  BY <1>9 DEF CreateTransaction, Continue
<1>10. ASSUME NEW c \in Calls, CreateGatewayPayment(c) PROVE InvDates'
  BY <1>10 DEF CreateGatewayPayment, Return
<1>11. ASSUME NEW o \in Orders, Settle(o) PROVE InvDates'
  BY <1>11 DEF Settle
<1>12. ASSUME NEW c \in Calls, NEW o \in Orders, HandleGatewayWebhook(c, o) PROVE InvDates'
  BY <1>12 DEF HandleGatewayWebhook, Begin
<1>13. ASSUME NEW c \in Calls, NEW i \in Invoices, VerifyCheck(c, i) PROVE InvDates'
  BY <1>13 DEF VerifyCheck, Begin, Open
<1>14. ASSUME NEW c \in Calls, VerifyManualPayment(c) PROVE InvDates'
  BY <1>14 DEF VerifyManualPayment, Continue
<1>15. ASSUME NEW c \in Calls, ActivateAlreadyPaid(c) PROVE InvDates'
  BY <1>15 DEF ActivateAlreadyPaid, Acknowledge, Return
<1>16. ASSUME NEW c \in Calls, ActivateRead(c) PROVE InvDates'
  BY <1>16 DEF ActivateRead, Continue, Open
<1>17. ASSUME NEW c \in Calls, GetSubscription(c) PROVE InvDates'
  BY <1>17 DEF GetSubscription, Continue
<1>18. ASSUME NEW c \in Calls, UpsertSubscription(c) PROVE InvDates'
  BY <1>18 DEF UpsertSubscription, Continue
<1>19. ASSUME NEW c \in Calls, SetInvoicePaid(c) PROVE InvDates'
  BY <1>19 DEF SetInvoicePaid, Acknowledge, Return
<1>20. ASSUME NEW c \in Calls, ActivateRefused(c) PROVE InvDates'
  BY <1>20 DEF ActivateRefused, Return
<1>21. ASSUME NEW c \in Calls, CallFails(c) PROVE InvDates'
  BY <1>21 DEF CallFails, Return
<1>22. ASSUME NEW s \in Schools, ExtendSubscriptionGoodwill(s) PROVE InvDates'
  BY <1>22 DEF ExtendSubscriptionGoodwill
<1>23. CASE TickOnce
  BY <1>23 DEF TickOnce
<1>24. CASE TransitionActiveToGrace
  BY <1>24 DEF TransitionActiveToGrace
<1>25. CASE TransitionGraceToReadonly
  BY <1>25 DEF TransitionGraceToReadonly
<1>26. CASE TickFails
  BY <1>26 DEF TickFails
<1>27. CASE DayPasses
  BY <1>27 DEF DayPasses
<1>28. CASE UNCHANGED vars
  BY <1>28 DEF vars
<1> QED BY <1>1, <1>2, <1>3, <1>4, <1>5, <1>6, <1>7, <1>8, <1>9, <1>10, <1>11, <1>12, <1>13, <1>14, <1>15, <1>16, <1>17, <1>18, <1>19, <1>20, <1>21, <1>22, <1>23, <1>24, <1>25, <1>26, <1>27, <1>28 DEF Next, CallProgress, TickStep

LEMMA OrdersStep == TypeOK /\ InvOrders /\ [Next]_vars => InvOrders'
<1> SUFFICES ASSUME TypeOK, InvOrders, [Next]_vars PROVE InvOrders'
  OBVIOUS
<1> USE BillingAssumption DEF TypeOK, InvoiceStatuses, SubStatuses, OrderStates, CallStates, InvOrders, subVars, invVars, orderVars, callVars, tickVars, bounds
<1>1. ASSUME NEW s \in Schools, NEW i \in Invoices, CreateSubscriptionInvoice(s, i) PROVE InvOrders'
  BY <1>1 DEF CreateSubscriptionInvoice
<1>2. ASSUME NEW c \in Calls, NEW i \in Invoices, ProofCheck(c, i) PROVE InvOrders'
  BY <1>2 DEF ProofCheck, Begin, Open
<1>3. ASSUME NEW c \in Calls, CreateManualPayment(c) PROVE InvOrders'
  BY <1>3 DEF CreateManualPayment, Continue
<1>4. ASSUME NEW c \in Calls, ProofAwaits(c) PROVE InvOrders'
  BY <1>4 DEF ProofAwaits, SetInvoiceStatus, Return
<1>5. ASSUME NEW c \in Calls, NEW i \in Invoices, VoidCheck(c, i) PROVE InvOrders'
  BY <1>5 DEF VoidCheck, Begin
<1>6. ASSUME NEW c \in Calls, VoidInvoice(c) PROVE InvOrders'
  BY <1>6 DEF VoidInvoice, SetInvoiceStatus, Return
<1>7. ASSUME NEW c \in Calls, NEW i \in Invoices, PayCheck(c, i) PROVE InvOrders'
  BY <1>7 DEF PayCheck, Begin, Open
<1>8. ASSUME NEW c \in Calls, TransactionRefused(c) PROVE InvOrders'
  BY <1>8 DEF TransactionRefused, Return
<1>9. ASSUME NEW c \in Calls, NEW o \in Orders, CreateTransaction(c, o) PROVE InvOrders'
  BY <1>9 DEF CreateTransaction, Continue
<1>10. ASSUME NEW c \in Calls, CreateGatewayPayment(c) PROVE InvOrders'
  BY <1>10 DEF CreateGatewayPayment, Return
<1>11. ASSUME NEW o \in Orders, Settle(o) PROVE InvOrders'
  BY <1>11 DEF Settle
<1>12. ASSUME NEW c \in Calls, NEW o \in Orders, HandleGatewayWebhook(c, o) PROVE InvOrders'
  BY <1>12 DEF HandleGatewayWebhook, Begin
<1>13. ASSUME NEW c \in Calls, NEW i \in Invoices, VerifyCheck(c, i) PROVE InvOrders'
  BY <1>13 DEF VerifyCheck, Begin, Open
<1>14. ASSUME NEW c \in Calls, VerifyManualPayment(c) PROVE InvOrders'
  BY <1>14 DEF VerifyManualPayment, Continue
<1>15. ASSUME NEW c \in Calls, ActivateAlreadyPaid(c) PROVE InvOrders'
  BY <1>15 DEF ActivateAlreadyPaid, Acknowledge, Return
<1>16. ASSUME NEW c \in Calls, ActivateRead(c) PROVE InvOrders'
  BY <1>16 DEF ActivateRead, Continue, Open
<1>17. ASSUME NEW c \in Calls, GetSubscription(c) PROVE InvOrders'
  BY <1>17 DEF GetSubscription, Continue
<1>18. ASSUME NEW c \in Calls, UpsertSubscription(c) PROVE InvOrders'
  BY <1>18 DEF UpsertSubscription, Continue
<1>19. ASSUME NEW c \in Calls, SetInvoicePaid(c) PROVE InvOrders'
  BY <1>19 DEF SetInvoicePaid, Acknowledge, Return
<1>20. ASSUME NEW c \in Calls, ActivateRefused(c) PROVE InvOrders'
  BY <1>20 DEF ActivateRefused, Return
<1>21. ASSUME NEW c \in Calls, CallFails(c) PROVE InvOrders'
  BY <1>21 DEF CallFails, Return
<1>22. ASSUME NEW s \in Schools, ExtendSubscriptionGoodwill(s) PROVE InvOrders'
  BY <1>22 DEF ExtendSubscriptionGoodwill
<1>23. CASE TickOnce
  BY <1>23 DEF TickOnce
<1>24. CASE TransitionActiveToGrace
  BY <1>24 DEF TransitionActiveToGrace
<1>25. CASE TransitionGraceToReadonly
  BY <1>25 DEF TransitionGraceToReadonly
<1>26. CASE TickFails
  BY <1>26 DEF TickFails
<1>27. CASE DayPasses
  BY <1>27 DEF DayPasses
<1>28. CASE UNCHANGED vars
  BY <1>28 DEF vars
<1> QED BY <1>1, <1>2, <1>3, <1>4, <1>5, <1>6, <1>7, <1>8, <1>9, <1>10, <1>11, <1>12, <1>13, <1>14, <1>15, <1>16, <1>17, <1>18, <1>19, <1>20, <1>21, <1>22, <1>23, <1>24, <1>25, <1>26, <1>27, <1>28 DEF Next, CallProgress, TickStep

LEMMA PaymentsStep == TypeOK /\ InvOrders /\ InvPayments /\ [Next]_vars => InvPayments'
<1> SUFFICES ASSUME TypeOK, InvOrders, InvPayments, [Next]_vars PROVE InvPayments'
  OBVIOUS
<1> USE BillingAssumption DEF TypeOK, InvoiceStatuses, SubStatuses, OrderStates, CallStates, InvPayments, InvOrders, Backed, subVars, invVars, orderVars, callVars, tickVars, bounds
<1>1. ASSUME NEW s \in Schools, NEW i \in Invoices, CreateSubscriptionInvoice(s, i) PROVE InvPayments'
  BY <1>1 DEF CreateSubscriptionInvoice
<1>2. ASSUME NEW c \in Calls, NEW i \in Invoices, ProofCheck(c, i) PROVE InvPayments'
  BY <1>2 DEF ProofCheck, Begin, Open
<1>3. ASSUME NEW c \in Calls, CreateManualPayment(c) PROVE InvPayments'
  BY <1>3 DEF CreateManualPayment, Continue
<1>4. ASSUME NEW c \in Calls, ProofAwaits(c) PROVE InvPayments'
  BY <1>4 DEF ProofAwaits, SetInvoiceStatus, Return
<1>5. ASSUME NEW c \in Calls, NEW i \in Invoices, VoidCheck(c, i) PROVE InvPayments'
  BY <1>5 DEF VoidCheck, Begin
<1>6. ASSUME NEW c \in Calls, VoidInvoice(c) PROVE InvPayments'
  BY <1>6 DEF VoidInvoice, SetInvoiceStatus, Return
<1>7. ASSUME NEW c \in Calls, NEW i \in Invoices, PayCheck(c, i) PROVE InvPayments'
  BY <1>7 DEF PayCheck, Begin, Open
<1>8. ASSUME NEW c \in Calls, TransactionRefused(c) PROVE InvPayments'
  BY <1>8 DEF TransactionRefused, Return
<1>9. ASSUME NEW c \in Calls, NEW o \in Orders, CreateTransaction(c, o) PROVE InvPayments'
  BY <1>9 DEF CreateTransaction, Continue
<1>10. ASSUME NEW c \in Calls, CreateGatewayPayment(c) PROVE InvPayments'
  BY <1>10 DEF CreateGatewayPayment, Return
<1>11. ASSUME NEW o \in Orders, Settle(o) PROVE InvPayments'
  BY <1>11 DEF Settle
<1>12. ASSUME NEW c \in Calls, NEW o \in Orders, HandleGatewayWebhook(c, o) PROVE InvPayments'
  BY <1>12 DEF HandleGatewayWebhook, Begin
<1>13. ASSUME NEW c \in Calls, NEW i \in Invoices, VerifyCheck(c, i) PROVE InvPayments'
  BY <1>13 DEF VerifyCheck, Begin, Open
<1>14. ASSUME NEW c \in Calls, VerifyManualPayment(c) PROVE InvPayments'
  BY <1>14 DEF VerifyManualPayment, Continue
<1>15. ASSUME NEW c \in Calls, ActivateAlreadyPaid(c) PROVE InvPayments'
  BY <1>15 DEF ActivateAlreadyPaid, Acknowledge, Return
<1>16. ASSUME NEW c \in Calls, ActivateRead(c) PROVE InvPayments'
  BY <1>16 DEF ActivateRead, Continue, Open
<1>17. ASSUME NEW c \in Calls, GetSubscription(c) PROVE InvPayments'
  BY <1>17 DEF GetSubscription, Continue
<1>18. ASSUME NEW c \in Calls, UpsertSubscription(c) PROVE InvPayments'
  BY <1>18 DEF UpsertSubscription, Continue
<1>19. ASSUME NEW c \in Calls, SetInvoicePaid(c) PROVE InvPayments'
  BY <1>19 DEF SetInvoicePaid, Acknowledge, Return
<1>20. ASSUME NEW c \in Calls, ActivateRefused(c) PROVE InvPayments'
  BY <1>20 DEF ActivateRefused, Return
<1>21. ASSUME NEW c \in Calls, CallFails(c) PROVE InvPayments'
  BY <1>21 DEF CallFails, Return
<1>22. ASSUME NEW s \in Schools, ExtendSubscriptionGoodwill(s) PROVE InvPayments'
  BY <1>22 DEF ExtendSubscriptionGoodwill
<1>23. CASE TickOnce
  BY <1>23 DEF TickOnce
<1>24. CASE TransitionActiveToGrace
  BY <1>24 DEF TransitionActiveToGrace
<1>25. CASE TransitionGraceToReadonly
  BY <1>25 DEF TransitionGraceToReadonly
<1>26. CASE TickFails
  BY <1>26 DEF TickFails
<1>27. CASE DayPasses
  BY <1>27 DEF DayPasses
<1>28. CASE UNCHANGED vars
  BY <1>28 DEF vars
<1> QED BY <1>1, <1>2, <1>3, <1>4, <1>5, <1>6, <1>7, <1>8, <1>9, <1>10, <1>11, <1>12, <1>13, <1>14, <1>15, <1>16, <1>17, <1>18, <1>19, <1>20, <1>21, <1>22, <1>23, <1>24, <1>25, <1>26, <1>27, <1>28 DEF Next, CallProgress, TickStep

LEMMA RacesStep == TypeOK /\ InvRaces /\ [Next]_vars => InvRaces'
<1> SUFFICES ASSUME TypeOK, InvRaces, [Next]_vars PROVE InvRaces'
  OBVIOUS
<1> USE BillingAssumption DEF TypeOK, InvoiceStatuses, SubStatuses, OrderStates, CallStates, InvRaces, Calm, Activating, subVars, invVars, orderVars, callVars, tickVars, bounds
<1>1. ASSUME NEW s \in Schools, NEW i \in Invoices, CreateSubscriptionInvoice(s, i) PROVE InvRaces'
  BY <1>1 DEF CreateSubscriptionInvoice
<1>2. ASSUME NEW c \in Calls, NEW i \in Invoices, ProofCheck(c, i) PROVE InvRaces'
  BY <1>2 DEF ProofCheck, Begin, Open
<1>3. ASSUME NEW c \in Calls, CreateManualPayment(c) PROVE InvRaces'
  BY <1>3 DEF CreateManualPayment, Continue
<1>4. ASSUME NEW c \in Calls, ProofAwaits(c) PROVE InvRaces'
  BY <1>4 DEF ProofAwaits, SetInvoiceStatus, Return
<1>5. ASSUME NEW c \in Calls, NEW i \in Invoices, VoidCheck(c, i) PROVE InvRaces'
  BY <1>5 DEF VoidCheck, Begin
<1>6. ASSUME NEW c \in Calls, VoidInvoice(c) PROVE InvRaces'
  BY <1>6 DEF VoidInvoice, SetInvoiceStatus, Return
<1>7. ASSUME NEW c \in Calls, NEW i \in Invoices, PayCheck(c, i) PROVE InvRaces'
  BY <1>7 DEF PayCheck, Begin, Open
<1>8. ASSUME NEW c \in Calls, TransactionRefused(c) PROVE InvRaces'
  BY <1>8 DEF TransactionRefused, Return
<1>9. ASSUME NEW c \in Calls, NEW o \in Orders, CreateTransaction(c, o) PROVE InvRaces'
  BY <1>9 DEF CreateTransaction, Continue
<1>10. ASSUME NEW c \in Calls, CreateGatewayPayment(c) PROVE InvRaces'
  BY <1>10 DEF CreateGatewayPayment, Return
<1>11. ASSUME NEW o \in Orders, Settle(o) PROVE InvRaces'
  BY <1>11 DEF Settle
<1>12. ASSUME NEW c \in Calls, NEW o \in Orders, HandleGatewayWebhook(c, o) PROVE InvRaces'
  BY <1>12 DEF HandleGatewayWebhook, Begin
<1>13. ASSUME NEW c \in Calls, NEW i \in Invoices, VerifyCheck(c, i) PROVE InvRaces'
  BY <1>13 DEF VerifyCheck, Begin, Open
<1>14. ASSUME NEW c \in Calls, VerifyManualPayment(c) PROVE InvRaces'
  BY <1>14 DEF VerifyManualPayment, Continue
<1>15. ASSUME NEW c \in Calls, ActivateAlreadyPaid(c) PROVE InvRaces'
  BY <1>15 DEF ActivateAlreadyPaid, Acknowledge, Return
<1>16. ASSUME NEW c \in Calls, ActivateRead(c) PROVE InvRaces'
  BY <1>16 DEF ActivateRead, Continue, Open
<1>17. ASSUME NEW c \in Calls, GetSubscription(c) PROVE InvRaces'
  BY <1>17 DEF GetSubscription, Continue
<1>18. ASSUME NEW c \in Calls, UpsertSubscription(c) PROVE InvRaces'
  BY <1>18 DEF UpsertSubscription, Continue
<1>19. ASSUME NEW c \in Calls, SetInvoicePaid(c) PROVE InvRaces'
  BY <1>19 DEF SetInvoicePaid, Acknowledge, Return
<1>20. ASSUME NEW c \in Calls, ActivateRefused(c) PROVE InvRaces'
  BY <1>20 DEF ActivateRefused, Return
<1>21. ASSUME NEW c \in Calls, CallFails(c) PROVE InvRaces'
  BY <1>21 DEF CallFails, Return
<1>22. ASSUME NEW s \in Schools, ExtendSubscriptionGoodwill(s) PROVE InvRaces'
  BY <1>22 DEF ExtendSubscriptionGoodwill
<1>23. CASE TickOnce
  BY <1>23 DEF TickOnce
<1>24. CASE TransitionActiveToGrace
  BY <1>24 DEF TransitionActiveToGrace
<1>25. CASE TransitionGraceToReadonly
  BY <1>25 DEF TransitionGraceToReadonly
<1>26. CASE TickFails
  BY <1>26 DEF TickFails
<1>27. CASE DayPasses
  BY <1>27 DEF DayPasses
<1>28. CASE UNCHANGED vars
  BY <1>28 DEF vars
<1> QED BY <1>1, <1>2, <1>3, <1>4, <1>5, <1>6, <1>7, <1>8, <1>9, <1>10, <1>11, <1>12, <1>13, <1>14, <1>15, <1>16, <1>17, <1>18, <1>19, <1>20, <1>21, <1>22, <1>23, <1>24, <1>25, <1>26, <1>27, <1>28 DEF Next, CallProgress, TickStep

LEMMA InvInit == Init => IInv
<1> SUFFICES ASSUME Init PROVE IInv
  OBVIOUS
<1>1. TypeOK
  BY TypeInit
<1>2. InvDates /\ InvOrders /\ InvPayments /\ InvRaces
  BY DEF Init, InvDates, NeverLockedEarly, InvOrders, InvPayments, InvRaces, Calm, Activating
<1> QED BY <1>1, <1>2 DEF IInv

LEMMA InvStep == IInv /\ [Next]_vars => IInv'
BY TypeStep, DatesStep, OrdersStep, PaymentsStep, RacesStep DEF IInv

LEMMA Inductive == Spec => []IInv
BY InvInit, InvStep, PTL DEF Spec

\* Rows, requests and worker keep their types and their references.
THEOREM BillingTypeCorrect == Spec => []TypeOK
<1>1. IInv => TypeOK
  BY DEF IInv
<1> QED BY Inductive, <1>1, PTL

\* No school is moved to grace or readonly before its time.
THEOREM NeverLockedEarlyAlways == Spec => []NeverLockedEarly
<1>1. IInv => NeverLockedEarly
  BY DEF IInv, InvDates
<1> QED BY Inductive, <1>1, PTL

\* An invoice marked paid has given its period, and only payments give periods.
THEOREM PaidAndGrantedAlways == Spec => []PaidAndGranted
<1>1. IInv => PaidAndGranted
  BY DEF IInv, InvPayments, PaidAndGranted, Backed
<1> QED BY Inductive, <1>1, PTL

\* Without overlapping or interrupted activations an invoice gives one period.
THEOREM OnePeriodWithoutRace == Spec => []OnePeriodUnlessRaced
<1>1. IInv => OnePeriodUnlessRaced
  BY DEF IInv, InvRaces, Calm, OnePeriodUnlessRaced
<1> QED BY Inductive, <1>1, PTL

-----------------------------------------------------------------------------
(* The snapshots of the subscriptions. *)

\* No moment that is remembered lies ahead of the clock.
InvClock ==
    /\ \A r \in Requests : began[r] <= clock
    /\ \A s \in Subscribers : expiresAt[s] <= clock + TTL
    /\ \A s \in Subscribers : version[s] >= 1

\* A snapshot that has been read was current when the lookup was made, or later;
\* so was an entry until a TTL before its end.
InvOrder ==
    /\ \A r \in Requests : snap[r] <= version[reqSchool[r]] /\ (reqPc[r] \in {"idle", "missed"} => snap[r] = 0)
    /\ \A s \in Subscribers : entry[s] <= version[s]
InvRead ==
    \A r \in Requests : reqPc[r] = "read" /\ snap[r] \notin {0, version[reqSchool[r]]} =>
         superseded[<<reqSchool[r], snap[r]>>] >= began[r]
InvEntry ==
    \A s \in Subscribers : entry[s] \notin {0, version[s]} =>
         superseded[<<s, entry[s]>>] + TTL >= expiresAt[s]

\* The explanation of a stale entry holds after its end too.
InvStale ==
    \A s \in Subscribers : expiresAt[s] # 0 /\ entry[s] # version[s] =>
        \/ s \in late
        \/ \E w \in Writers : writerPc[w] \in {"merged", "written"} /\ s \in scope[w]

CacheInv == CacheTypeOK /\ InvClock /\ InvOrder /\ InvRead /\ InvEntry /\ BoundedStaleness /\ InvStale /\ OverridesMergeUnlessRaced

LEMMA CacheTypesInitially == CacheInit => CacheTypeOK
BY CacheAssumption DEF CacheInit, CacheTypeOK, Versions

LEMMA CacheTypesStep == CacheTypeOK /\ [CacheNext]_snapshotVars => CacheTypeOK'
<1> SUFFICES ASSUME CacheTypeOK, [CacheNext]_snapshotVars PROVE CacheTypeOK'
  OBVIOUS
<1> USE CacheAssumption DEF CacheTypeOK, Versions, rowVars, cacheVars, reqVars, writerVars
<1>1. CASE Tick
  BY <1>1 DEF Tick
<1>2. ASSUME NEW r \in Requests, NEW s \in Subscribers, Lookup(r, s) PROVE CacheTypeOK'
  <2>1. /\ reqPc' = [reqPc EXCEPT ![r] = "served"] \/ reqPc' = [reqPc EXCEPT ![r] = "missed"]
        /\ snap' = [snap EXCEPT ![r] = entry[s]] \/ snap' = snap
        /\ reqSchool' = [reqSchool EXCEPT ![r] = s] /\ began' = [began EXCEPT ![r] = clock]
        /\ since' = [since EXCEPT ![r] = promised[s]]
        /\ UNCHANGED <<clock, version, overrides, superseded, wanted, racedMerges, entry, expiresAt, late,
                       writerPc, scope, readOverrides, key, value, promised, cacheFaults>>
    BY <1>2 DEF Lookup
  <2>2. entry[s] \in 0..MaxVersion /\ promised[s] \in 0..MaxVersion
    OBVIOUS
  <2>3. /\ reqPc' \in [Requests -> {"idle", "missed", "read", "served"}] /\ snap' \in [Requests -> 0..MaxVersion]
        /\ reqSchool' \in [Requests -> Subscribers] /\ began' \in [Requests -> Nat]
        /\ since' \in [Requests -> 0..MaxVersion]
    BY <2>1, <2>2
  <2> QED BY <2>1, <2>3
<1>3. ASSUME NEW r \in Requests, ReadSubscription(r) PROVE CacheTypeOK'
  <2>1. CASE snap' = [snap EXCEPT ![r] = version[reqSchool[r]]] /\ UNCHANGED cacheFaults
    BY <1>3, <2>1 DEF ReadSubscription
  <2>2. CASE cacheFaults' = cacheFaults + 1 /\ snap' = [snap EXCEPT ![r] = 0]
    BY <1>3, <2>2 DEF ReadSubscription
  <2> QED BY <1>3, <2>1, <2>2 DEF ReadSubscription
<1>4. ASSUME NEW r \in Requests, StoreEntry(r) PROVE CacheTypeOK'
  BY <1>4 DEF StoreEntry, Life
<1>5. ASSUME NEW r \in Requests, RequestEnds(r) PROVE CacheTypeOK'
  BY <1>5 DEF RequestEnds
<1>6. ASSUME NEW w \in Writers, NEW S \in SUBSET Subscribers, WriteSubscriptions(w, S) PROVE CacheTypeOK'
  BY <1>6 DEF WriteSubscriptions, WriteRows
<1>7. ASSUME NEW w \in Writers, NEW s \in Subscribers, NEW k \in Keys, NEW on \in {"on", "off"}, ReadOverrides(w, s, k, on) PROVE CacheTypeOK'
  BY <1>7 DEF ReadOverrides
<1>8. ASSUME NEW w \in Writers, NEW s \in Subscribers, UpdateFeatureOverrides(w, s) PROVE CacheTypeOK'
  BY <1>8 DEF UpdateFeatureOverrides, WriteRows, Merge
<1>9. ASSUME NEW w \in Writers, NEW S \in SUBSET Subscribers, InvalidateCache(w, S) PROVE CacheTypeOK'
  BY <1>9 DEF InvalidateCache, WriterDone
<1>10. ASSUME NEW w \in Writers, WriterFails(w) PROVE CacheTypeOK'
  BY <1>10 DEF WriterFails, WriterDone
<1>11. CASE UNCHANGED snapshotVars
  BY <1>11 DEF snapshotVars
<1> HIDE DEF rowVars, cacheVars, reqVars, writerVars, CacheTypeOK, Versions
<1> QED BY <1>1, <1>2, <1>3, <1>4, <1>5, <1>6, <1>7, <1>8, <1>9, <1>10, <1>11 DEF CacheNext

LEMMA ClockStep == CacheTypeOK /\ InvClock /\ [CacheNext]_snapshotVars => InvClock'
<1> SUFFICES ASSUME CacheTypeOK, InvClock, [CacheNext]_snapshotVars PROVE InvClock'
  OBVIOUS
<1> USE CacheAssumption DEF CacheTypeOK, Versions, InvClock, rowVars, cacheVars, reqVars, writerVars
<1>1. CASE Tick
  BY <1>1 DEF Tick
<1>2. ASSUME NEW r \in Requests, NEW s \in Subscribers, Lookup(r, s) PROVE InvClock'
  BY <1>2 DEF Lookup
<1>3. ASSUME NEW r \in Requests, ReadSubscription(r) PROVE InvClock'
  BY <1>3 DEF ReadSubscription
<1>4. ASSUME NEW r \in Requests, StoreEntry(r) PROVE InvClock'
  BY <1>4 DEF StoreEntry, Life
<1>5. ASSUME NEW r \in Requests, RequestEnds(r) PROVE InvClock'
  BY <1>5 DEF RequestEnds
<1>6. ASSUME NEW w \in Writers, NEW S \in SUBSET Subscribers, WriteSubscriptions(w, S) PROVE InvClock'
  BY <1>6 DEF WriteSubscriptions, WriteRows
<1>7. ASSUME NEW w \in Writers, NEW s \in Subscribers, NEW k \in Keys, NEW on \in {"on", "off"}, ReadOverrides(w, s, k, on) PROVE InvClock'
  BY <1>7 DEF ReadOverrides
<1>8. ASSUME NEW w \in Writers, NEW s \in Subscribers, UpdateFeatureOverrides(w, s) PROVE InvClock'
  BY <1>8 DEF UpdateFeatureOverrides, WriteRows, Merge
<1>9. ASSUME NEW w \in Writers, NEW S \in SUBSET Subscribers, InvalidateCache(w, S) PROVE InvClock'
  BY <1>9 DEF InvalidateCache, WriterDone
<1>10. ASSUME NEW w \in Writers, WriterFails(w) PROVE InvClock'
  BY <1>10 DEF WriterFails, WriterDone
<1>11. CASE UNCHANGED snapshotVars
  BY <1>11 DEF snapshotVars
<1> HIDE DEF rowVars, cacheVars, reqVars, writerVars, CacheTypeOK, Versions
<1> QED BY <1>1, <1>2, <1>3, <1>4, <1>5, <1>6, <1>7, <1>8, <1>9, <1>10, <1>11 DEF CacheNext

LEMMA OrderStep == CacheTypeOK /\ InvOrder /\ [CacheNext]_snapshotVars => InvOrder'
<1> SUFFICES ASSUME CacheTypeOK, InvOrder, [CacheNext]_snapshotVars PROVE InvOrder'
  OBVIOUS
<1> USE CacheAssumption DEF CacheTypeOK, Versions, InvOrder, rowVars, cacheVars, reqVars, writerVars
<1>1. CASE Tick
  BY <1>1 DEF Tick
<1>2. ASSUME NEW r \in Requests, NEW s \in Subscribers, Lookup(r, s) PROVE InvOrder'
  BY <1>2 DEF Lookup
<1>3. ASSUME NEW r \in Requests, ReadSubscription(r) PROVE InvOrder'
  <2>1. CASE snap' = [snap EXCEPT ![r] = version[reqSchool[r]]] /\ UNCHANGED cacheFaults
    BY <1>3, <2>1 DEF ReadSubscription
  <2>2. CASE cacheFaults' = cacheFaults + 1 /\ snap' = [snap EXCEPT ![r] = 0]
    BY <1>3, <2>2 DEF ReadSubscription
  <2> QED BY <1>3, <2>1, <2>2 DEF ReadSubscription
<1>4. ASSUME NEW r \in Requests, StoreEntry(r) PROVE InvOrder'
  BY <1>4 DEF StoreEntry, Life
<1>5. ASSUME NEW r \in Requests, RequestEnds(r) PROVE InvOrder'
  BY <1>5 DEF RequestEnds
<1>6. ASSUME NEW w \in Writers, NEW S \in SUBSET Subscribers, WriteSubscriptions(w, S) PROVE InvOrder'
  BY <1>6 DEF WriteSubscriptions, WriteRows
<1>7. ASSUME NEW w \in Writers, NEW s \in Subscribers, NEW k \in Keys, NEW on \in {"on", "off"}, ReadOverrides(w, s, k, on) PROVE InvOrder'
  BY <1>7 DEF ReadOverrides
<1>8. ASSUME NEW w \in Writers, NEW s \in Subscribers, UpdateFeatureOverrides(w, s) PROVE InvOrder'
  BY <1>8 DEF UpdateFeatureOverrides, WriteRows, Merge
<1>9. ASSUME NEW w \in Writers, NEW S \in SUBSET Subscribers, InvalidateCache(w, S) PROVE InvOrder'
  BY <1>9 DEF InvalidateCache, WriterDone
<1>10. ASSUME NEW w \in Writers, WriterFails(w) PROVE InvOrder'
  BY <1>10 DEF WriterFails, WriterDone
<1>11. CASE UNCHANGED snapshotVars
  BY <1>11 DEF snapshotVars
<1> HIDE DEF rowVars, cacheVars, reqVars, writerVars, CacheTypeOK, Versions
<1> QED BY <1>1, <1>2, <1>3, <1>4, <1>5, <1>6, <1>7, <1>8, <1>9, <1>10, <1>11 DEF CacheNext

LEMMA ReadStep == CacheTypeOK /\ InvClock /\ InvOrder /\ InvRead /\ [CacheNext]_snapshotVars => InvRead'
<1> SUFFICES ASSUME CacheTypeOK, InvClock, InvOrder, InvRead, [CacheNext]_snapshotVars PROVE InvRead'
  OBVIOUS
<1> USE CacheAssumption DEF CacheTypeOK, Versions, InvClock, InvOrder, InvRead, rowVars, cacheVars, reqVars, writerVars
<1>1. CASE Tick
  BY <1>1 DEF Tick
<1>2. ASSUME NEW r \in Requests, NEW s \in Subscribers, Lookup(r, s) PROVE InvRead'
  BY <1>2 DEF Lookup
<1>3. ASSUME NEW r \in Requests, ReadSubscription(r) PROVE InvRead'
  <2>1. CASE snap' = [snap EXCEPT ![r] = version[reqSchool[r]]] /\ UNCHANGED cacheFaults
    BY <1>3, <2>1 DEF ReadSubscription
  <2>2. CASE cacheFaults' = cacheFaults + 1 /\ snap' = [snap EXCEPT ![r] = 0]
    BY <1>3, <2>2 DEF ReadSubscription
  <2> QED BY <1>3, <2>1, <2>2 DEF ReadSubscription
<1>4. ASSUME NEW r \in Requests, StoreEntry(r) PROVE InvRead'
  BY <1>4 DEF StoreEntry, Life
<1>5. ASSUME NEW r \in Requests, RequestEnds(r) PROVE InvRead'
  BY <1>5 DEF RequestEnds
<1>6. ASSUME NEW w \in Writers, NEW S \in SUBSET Subscribers, WriteSubscriptions(w, S) PROVE InvRead'
  BY <1>6 DEF WriteSubscriptions, WriteRows
<1>7. ASSUME NEW w \in Writers, NEW s \in Subscribers, NEW k \in Keys, NEW on \in {"on", "off"}, ReadOverrides(w, s, k, on) PROVE InvRead'
  BY <1>7 DEF ReadOverrides
<1>8. ASSUME NEW w \in Writers, NEW s \in Subscribers, UpdateFeatureOverrides(w, s) PROVE InvRead'
  BY <1>8 DEF UpdateFeatureOverrides, WriteRows, Merge
<1>9. ASSUME NEW w \in Writers, NEW S \in SUBSET Subscribers, InvalidateCache(w, S) PROVE InvRead'
  BY <1>9 DEF InvalidateCache, WriterDone
<1>10. ASSUME NEW w \in Writers, WriterFails(w) PROVE InvRead'
  BY <1>10 DEF WriterFails, WriterDone
<1>11. CASE UNCHANGED snapshotVars
  BY <1>11 DEF snapshotVars
<1> HIDE DEF rowVars, cacheVars, reqVars, writerVars, CacheTypeOK, Versions
<1> QED BY <1>1, <1>2, <1>3, <1>4, <1>5, <1>6, <1>7, <1>8, <1>9, <1>10, <1>11 DEF CacheNext

LEMMA EntryStep == CacheTypeOK /\ InvClock /\ InvOrder /\ InvRead /\ InvEntry /\ [CacheNext]_snapshotVars => InvEntry'
<1> SUFFICES ASSUME CacheTypeOK, InvClock, InvOrder, InvRead, InvEntry, [CacheNext]_snapshotVars PROVE InvEntry'
  OBVIOUS
<1> USE CacheAssumption DEF CacheTypeOK, Versions, InvClock, InvOrder, InvEntry, rowVars, cacheVars, reqVars, writerVars
<1>1. CASE Tick
  BY <1>1 DEF Tick
<1>2. ASSUME NEW r \in Requests, NEW s \in Subscribers, Lookup(r, s) PROVE InvEntry'
  BY <1>2 DEF Lookup
<1>3. ASSUME NEW r \in Requests, ReadSubscription(r) PROVE InvEntry'
  BY <1>3 DEF ReadSubscription
<1>4. ASSUME NEW r \in Requests, StoreEntry(r) PROVE InvEntry'
  <2> SUFFICES ASSUME NEW x \in Subscribers, entry'[x] \notin {0, version'[x]}
               PROVE superseded'[<<x, entry'[x]>>] + TTL >= expiresAt'[x]
    BY DEF InvEntry
  <2>1. CASE x = reqSchool[r]
    <3>1. /\ reqPc[r] = "read" /\ version' = version /\ superseded' = superseded
          /\ entry'[x] = snap[r] /\ expiresAt'[x] = began[r] + TTL
      BY <1>4, <2>1 DEF StoreEntry, Life
    <3>2. superseded[<<reqSchool[r], snap[r]>>] >= began[r]
      BY <3>1, <2>1 DEF InvRead
    <3>3. <<reqSchool[r], snap[r]>> \in Subscribers \X Versions /\ superseded[<<reqSchool[r], snap[r]>>] \in Nat
      OBVIOUS
    <3> QED BY <3>1, <3>2, <3>3, <2>1
  <2>2. CASE x # reqSchool[r]
    BY <1>4, <2>2 DEF StoreEntry, Life
  <2> QED BY <2>1, <2>2
<1>5. ASSUME NEW r \in Requests, RequestEnds(r) PROVE InvEntry'
  BY <1>5 DEF RequestEnds
<1>6. ASSUME NEW w \in Writers, NEW S \in SUBSET Subscribers, WriteSubscriptions(w, S) PROVE InvEntry'
  BY <1>6 DEF WriteSubscriptions, WriteRows
<1>7. ASSUME NEW w \in Writers, NEW s \in Subscribers, NEW k \in Keys, NEW on \in {"on", "off"}, ReadOverrides(w, s, k, on) PROVE InvEntry'
  BY <1>7 DEF ReadOverrides
<1>8. ASSUME NEW w \in Writers, NEW s \in Subscribers, UpdateFeatureOverrides(w, s) PROVE InvEntry'
  BY <1>8 DEF UpdateFeatureOverrides, WriteRows, Merge
<1>9. ASSUME NEW w \in Writers, NEW S \in SUBSET Subscribers, InvalidateCache(w, S) PROVE InvEntry'
  BY <1>9 DEF InvalidateCache, WriterDone
<1>10. ASSUME NEW w \in Writers, WriterFails(w) PROVE InvEntry'
  BY <1>10 DEF WriterFails, WriterDone
<1>11. CASE UNCHANGED snapshotVars
  BY <1>11 DEF snapshotVars
<1> HIDE DEF rowVars, cacheVars, reqVars, writerVars, CacheTypeOK, Versions
<1> QED BY <1>1, <1>2, <1>3, <1>4, <1>5, <1>6, <1>7, <1>8, <1>9, <1>10, <1>11 DEF CacheNext

LEMMA StalenessStep == CacheTypeOK /\ InvClock /\ InvOrder /\ InvRead /\ InvEntry /\ BoundedStaleness /\ [CacheNext]_snapshotVars => BoundedStaleness'
<1> SUFFICES ASSUME CacheTypeOK, InvClock, InvOrder, InvRead, InvEntry, BoundedStaleness, [CacheNext]_snapshotVars PROVE BoundedStaleness'
  OBVIOUS
<1> USE CacheAssumption DEF CacheTypeOK, Versions, InvClock, InvOrder, BoundedStaleness, rowVars, cacheVars, reqVars, writerVars
<1>1. CASE Tick
  BY <1>1 DEF Tick
<1>2. ASSUME NEW r \in Requests, NEW s \in Subscribers, Lookup(r, s) PROVE BoundedStaleness'
  <2> SUFFICES ASSUME NEW q \in Requests, reqPc'[q] = "served",
                      snap'[q] \notin {0, version'[reqSchool'[q]]}
               PROVE superseded'[<<reqSchool'[q], snap'[q]>>] + TTL > began'[q]
    BY DEF BoundedStaleness
  <2>1. CASE q = r
    BY <1>2, <2>1 DEF Lookup, InvEntry, Live
  <2>2. CASE q # r
    BY <1>2, <2>2 DEF Lookup
  <2> QED BY <2>1, <2>2
<1>3. ASSUME NEW r \in Requests, ReadSubscription(r) PROVE BoundedStaleness'
  BY <1>3 DEF ReadSubscription
<1>4. ASSUME NEW r \in Requests, StoreEntry(r) PROVE BoundedStaleness'
  <2> SUFFICES ASSUME NEW q \in Requests, reqPc'[q] = "served",
                      snap'[q] \notin {0, version'[reqSchool'[q]]}
               PROVE superseded'[<<reqSchool'[q], snap'[q]>>] + TTL > began'[q]
    BY DEF BoundedStaleness
  <2>1. CASE q = r
    <3>1. /\ reqPc[r] = "read" /\ version' = version /\ superseded' = superseded
          /\ snap'[q] = snap[r] /\ began'[q] = began[r] /\ reqSchool' = reqSchool
      BY <1>4, <2>1 DEF StoreEntry, Life
    <3>2. superseded[<<reqSchool[r], snap[r]>>] >= began[r]
      BY <3>1, <2>1 DEF InvRead
    <3>3. <<reqSchool[r], snap[r]>> \in Subscribers \X Versions /\ superseded[<<reqSchool[r], snap[r]>>] \in Nat
      OBVIOUS
    <3> QED BY <3>1, <3>2, <3>3, <2>1
  <2>2. CASE q # r
    BY <1>4, <2>2 DEF StoreEntry, Life
  <2> QED BY <2>1, <2>2
<1>5. ASSUME NEW r \in Requests, RequestEnds(r) PROVE BoundedStaleness'
  BY <1>5 DEF RequestEnds
<1>6. ASSUME NEW w \in Writers, NEW S \in SUBSET Subscribers, WriteSubscriptions(w, S) PROVE BoundedStaleness'
  <2> SUFFICES ASSUME NEW q \in Requests, reqPc'[q] = "served",
                      snap'[q] \notin {0, version'[reqSchool'[q]]}
               PROVE superseded'[<<reqSchool'[q], snap'[q]>>] + TTL > began'[q]
    BY DEF BoundedStaleness
  <2>1. /\ reqPc[q] = "served" /\ began'[q] = began[q] /\ snap'[q] = snap[q]
        /\ reqSchool'[q] = reqSchool[q] /\ snap[q] # 0
    BY <1>6 DEF WriteSubscriptions, WriteRows
  <2>2. <<reqSchool[q], snap[q]>> \in Subscribers \X Versions
    OBVIOUS
  <2>3. CASE snap[q] = version[reqSchool[q]]
    <3>1. superseded'[<<reqSchool[q], snap[q]>>] = clock
      BY <1>6, <2>1, <2>2, <2>3 DEF WriteSubscriptions, WriteRows
    <3> QED BY <3>1, <2>1
  <2>4. CASE snap[q] # version[reqSchool[q]]
    <3>1. superseded'[<<reqSchool[q], snap[q]>>] = superseded[<<reqSchool[q], snap[q]>>]
      BY <1>6, <2>1, <2>2, <2>4 DEF WriteSubscriptions, WriteRows
    <3> QED BY <3>1, <2>1, <2>4
  <2> QED BY <2>3, <2>4
<1>7. ASSUME NEW w \in Writers, NEW s \in Subscribers, NEW k \in Keys, NEW on \in {"on", "off"}, ReadOverrides(w, s, k, on) PROVE BoundedStaleness'
  BY <1>7 DEF ReadOverrides
<1>8. ASSUME NEW w \in Writers, NEW s \in Subscribers, UpdateFeatureOverrides(w, s) PROVE BoundedStaleness'
  <2> SUFFICES ASSUME NEW q \in Requests, reqPc'[q] = "served",
                      snap'[q] \notin {0, version'[reqSchool'[q]]}
               PROVE superseded'[<<reqSchool'[q], snap'[q]>>] + TTL > began'[q]
    BY DEF BoundedStaleness
  <2>1. /\ reqPc[q] = "served" /\ began'[q] = began[q] /\ snap'[q] = snap[q]
        /\ reqSchool'[q] = reqSchool[q] /\ snap[q] # 0
    BY <1>8 DEF UpdateFeatureOverrides, WriteRows, Merge
  <2>2. <<reqSchool[q], snap[q]>> \in Subscribers \X Versions
    OBVIOUS
  <2>3. CASE snap[q] = version[reqSchool[q]]
    <3>1. superseded'[<<reqSchool[q], snap[q]>>] = clock
      BY <1>8, <2>1, <2>2, <2>3 DEF UpdateFeatureOverrides, WriteRows, Merge
    <3> QED BY <3>1, <2>1
  <2>4. CASE snap[q] # version[reqSchool[q]]
    <3>1. superseded'[<<reqSchool[q], snap[q]>>] = superseded[<<reqSchool[q], snap[q]>>]
      BY <1>8, <2>1, <2>2, <2>4 DEF UpdateFeatureOverrides, WriteRows, Merge
    <3> QED BY <3>1, <2>1, <2>4
  <2> QED BY <2>3, <2>4
<1>9. ASSUME NEW w \in Writers, NEW S \in SUBSET Subscribers, InvalidateCache(w, S) PROVE BoundedStaleness'
  BY <1>9 DEF InvalidateCache, WriterDone
<1>10. ASSUME NEW w \in Writers, WriterFails(w) PROVE BoundedStaleness'
  BY <1>10 DEF WriterFails, WriterDone
<1>11. CASE UNCHANGED snapshotVars
  BY <1>11 DEF snapshotVars
<1> HIDE DEF rowVars, cacheVars, reqVars, writerVars, CacheTypeOK, Versions
<1> QED BY <1>1, <1>2, <1>3, <1>4, <1>5, <1>6, <1>7, <1>8, <1>9, <1>10, <1>11 DEF CacheNext

LEMMA StaleStep == CacheTypeOK /\ InvClock /\ InvStale /\ [CacheNext]_snapshotVars => InvStale'
<1> SUFFICES ASSUME CacheTypeOK, InvClock, InvStale, [CacheNext]_snapshotVars PROVE InvStale'
  OBVIOUS
<1> USE CacheAssumption DEF CacheTypeOK, Versions, InvClock, InvStale, rowVars, cacheVars, reqVars, writerVars
<1>1. CASE Tick
  BY <1>1 DEF Tick
<1>2. ASSUME NEW r \in Requests, NEW s \in Subscribers, Lookup(r, s) PROVE InvStale'
  BY <1>2 DEF Lookup
<1>3. ASSUME NEW r \in Requests, ReadSubscription(r) PROVE InvStale'
  BY <1>3 DEF ReadSubscription
<1>4. ASSUME NEW r \in Requests, StoreEntry(r) PROVE InvStale'
  BY <1>4 DEF StoreEntry, Life
<1>5. ASSUME NEW r \in Requests, RequestEnds(r) PROVE InvStale'
  BY <1>5 DEF RequestEnds
<1>6. ASSUME NEW w \in Writers, NEW S \in SUBSET Subscribers, WriteSubscriptions(w, S) PROVE InvStale'
  BY <1>6 DEF WriteSubscriptions, WriteRows
<1>7. ASSUME NEW w \in Writers, NEW s \in Subscribers, NEW k \in Keys, NEW on \in {"on", "off"}, ReadOverrides(w, s, k, on) PROVE InvStale'
  BY <1>7 DEF ReadOverrides
<1>8. ASSUME NEW w \in Writers, NEW s \in Subscribers, UpdateFeatureOverrides(w, s) PROVE InvStale'
  BY <1>8 DEF UpdateFeatureOverrides, WriteRows, Merge
<1>9. ASSUME NEW w \in Writers, NEW S \in SUBSET Subscribers, InvalidateCache(w, S) PROVE InvStale'
  BY <1>9 DEF InvalidateCache, WriterDone
<1>10. ASSUME NEW w \in Writers, WriterFails(w) PROVE InvStale'
  BY <1>10 DEF WriterFails, WriterDone
<1>11. CASE UNCHANGED snapshotVars
  BY <1>11 DEF snapshotVars
<1> HIDE DEF rowVars, cacheVars, reqVars, writerVars, CacheTypeOK, Versions
<1> QED BY <1>1, <1>2, <1>3, <1>4, <1>5, <1>6, <1>7, <1>8, <1>9, <1>10, <1>11 DEF CacheNext

LEMMA OverridesStep == CacheTypeOK /\ OverridesMergeUnlessRaced /\ [CacheNext]_snapshotVars => OverridesMergeUnlessRaced'
<1> SUFFICES ASSUME CacheTypeOK, OverridesMergeUnlessRaced, [CacheNext]_snapshotVars PROVE OverridesMergeUnlessRaced'
  OBVIOUS
<1> USE CacheAssumption DEF CacheTypeOK, Versions, OverridesMergeUnlessRaced, rowVars, cacheVars, reqVars, writerVars
<1>1. CASE Tick
  BY <1>1 DEF Tick
<1>2. ASSUME NEW r \in Requests, NEW s \in Subscribers, Lookup(r, s) PROVE OverridesMergeUnlessRaced'
  BY <1>2 DEF Lookup
<1>3. ASSUME NEW r \in Requests, ReadSubscription(r) PROVE OverridesMergeUnlessRaced'
  BY <1>3 DEF ReadSubscription
<1>4. ASSUME NEW r \in Requests, StoreEntry(r) PROVE OverridesMergeUnlessRaced'
  BY <1>4 DEF StoreEntry, Life
<1>5. ASSUME NEW r \in Requests, RequestEnds(r) PROVE OverridesMergeUnlessRaced'
  BY <1>5 DEF RequestEnds
<1>6. ASSUME NEW w \in Writers, NEW S \in SUBSET Subscribers, WriteSubscriptions(w, S) PROVE OverridesMergeUnlessRaced'
  BY <1>6 DEF WriteSubscriptions, WriteRows
<1>7. ASSUME NEW w \in Writers, NEW s \in Subscribers, NEW k \in Keys, NEW on \in {"on", "off"}, ReadOverrides(w, s, k, on) PROVE OverridesMergeUnlessRaced'
  BY <1>7 DEF ReadOverrides
<1>8. ASSUME NEW w \in Writers, NEW s \in Subscribers, UpdateFeatureOverrides(w, s) PROVE OverridesMergeUnlessRaced'
  BY <1>8 DEF UpdateFeatureOverrides, WriteRows, Merge
<1>9. ASSUME NEW w \in Writers, NEW S \in SUBSET Subscribers, InvalidateCache(w, S) PROVE OverridesMergeUnlessRaced'
  BY <1>9 DEF InvalidateCache, WriterDone
<1>10. ASSUME NEW w \in Writers, WriterFails(w) PROVE OverridesMergeUnlessRaced'
  BY <1>10 DEF WriterFails, WriterDone
<1>11. CASE UNCHANGED snapshotVars
  BY <1>11 DEF snapshotVars
<1> HIDE DEF rowVars, cacheVars, reqVars, writerVars, CacheTypeOK, Versions
<1> QED BY <1>1, <1>2, <1>3, <1>4, <1>5, <1>6, <1>7, <1>8, <1>9, <1>10, <1>11 DEF CacheNext

LEMMA CacheInitially == CacheInit => CacheInv
<1> SUFFICES ASSUME CacheInit PROVE CacheInv
  OBVIOUS
<1>1. CacheTypeOK
  BY CacheTypesInitially
<1>2. InvClock /\ InvOrder /\ InvRead /\ InvEntry /\ BoundedStaleness /\ InvStale /\ OverridesMergeUnlessRaced
  BY CacheAssumption DEF CacheInit, InvClock, InvOrder, InvRead, InvEntry, InvStale, BoundedStaleness, OverridesMergeUnlessRaced, Versions
<1> QED BY <1>1, <1>2 DEF CacheInv

LEMMA CacheInductive == CacheSpec => []CacheInv
<1>1. CacheInit => CacheInv
  BY CacheInitially
<1>2. CacheInv /\ [CacheNext]_snapshotVars => CacheInv'
  BY CacheTypesStep, ClockStep, OrderStep, ReadStep, EntryStep, StalenessStep, StaleStep, OverridesStep DEF CacheInv
<1> QED BY <1>1, <1>2, PTL DEF CacheSpec

\* Every variable of the cache, its requests and its writers has its type.
THEOREM CacheTypeCorrect == CacheSpec => []CacheTypeOK
<1>1. CacheInv => CacheTypeOK
  BY DEF CacheInv
<1> QED BY CacheInductive, <1>1, PTL

\* A served snapshot (snapshotFor) was current less than a TTL before its request began.
THEOREM StalenessIsBounded == CacheSpec => []BoundedStaleness
<1>1. CacheInv => BoundedStaleness
  BY DEF CacheInv
<1> QED BY CacheInductive, <1>1, PTL

\* A live entry lags behind the row only between a write and its
\* invalidateCache, after a late store, or after a writer that failed halfway.
THEOREM StaleAlwaysExplained == CacheSpec => []StaleIsExplained
<1>1. CacheInv => StaleIsExplained
  BY DEF CacheInv, InvStale, StaleIsExplained, Live, CacheTypeOK, Versions
<1> QED BY CacheInductive, <1>1, PTL

\* SetFeatureOverrides merges key by key unless two of its calls overlap.
THEOREM OverridesMerge == CacheSpec => []OverridesMergeUnlessRaced
<1>1. CacheInv => OverridesMergeUnlessRaced
  BY DEF CacheInv
<1> QED BY CacheInductive, <1>1, PTL

-----------------------------------------------------------------------------
(* The hosts of the schools. *)

\* A request that has asked the database knows for which host.
LookupsKnowHost == \A l \in Lookups : asking[l] # "idle" => askHost[l] \in Hosts

\* A change under way is about a school that is there; one that is not created has
\* no domain.
ChangesKnowSchool ==
    /\ \A m \in Managers :
         /\ managing[m] # "idle" => school[m] \in Tenants /\ standing[school[m]] # "none"
         /\ managing[m] \in {"free", "resolving", "resolved"} => named[m] \in Domains
    /\ \A s \in Tenants : standing[s] = "none" => custom[s] = NoDomain

\* What a change has read is still so, unless another has overtaken it.
ReadStands ==
    \A m \in Managers \ overtaken :
        /\ managing[m] \in {"resolving", "resolved"} => pending[school[m]] = named[m]
        /\ managing[m] = "clearing" =>
             dropping[m] = {custom[school[m]], pending[school[m]]} \ {NoDomain}

HostsInv == HostsTypeOK /\ LookupsKnowHost /\ ChangesKnowSchool /\ ReadStands /\ HostIsExplained

\* A lookup answers what it did where no school has come to the host or left it.
LEMMA SameSchool ==
    ASSUME NEW h, \A s \in Tenants : (standing[s] = "active" /\ (s = h \/ custom[s] = h))
                                <=> (standing'[s] = "active" /\ (s = h \/ custom'[s] = h))
    PROVE  SchoolOf(h)' = SchoolOf(h)
<1> DEFINE before == {s \in Tenants : standing[s] = "active" /\ (s = h \/ custom[s] = h)}
           after == {s \in Tenants : standing'[s] = "active" /\ (s = h \/ custom'[s] = h)}
<1>1. before = after
  OBVIOUS
<1>2. SchoolOf(h) = IF before = {} THEN NoTenant ELSE CHOOSE s \in before : TRUE
  BY DEF SchoolOf
<1>3. SchoolOf(h)' = IF after = {} THEN NoTenant ELSE CHOOSE s \in after : TRUE
  BY DEF SchoolOf
<1> HIDE DEF before, after
<1> QED BY <1>1, <1>2, <1>3

\* It answers a school, or that there is none.
LEMMA SchoolOfType == \A h : SchoolOf(h) \in Tenants \cup {NoTenant}
<1> SUFFICES ASSUME NEW h PROVE SchoolOf(h) \in Tenants \cup {NoTenant}
  OBVIOUS
<1> DEFINE found == {s \in Tenants : standing[s] = "active" /\ (s = h \/ custom[s] = h)}
<1>1. found # {} => (CHOOSE s \in found : TRUE) \in Tenants
  OBVIOUS
<1> QED BY <1>1 DEF SchoolOf

LEMMA HostsTypeStep == HostsTypeOK /\ LookupsKnowHost /\ ChangesKnowSchool /\ [HostsNext]_hostsVars => HostsTypeOK'
<1> SUFFICES ASSUME HostsTypeOK /\ LookupsKnowHost /\ ChangesKnowSchool, [HostsNext]_hostsVars PROVE HostsTypeOK'
  OBVIOUS
<1> USE DEF tenantVars, lookupVars, managerVars
<1>1. ASSUME NEW l \in Lookups, NEW h \in Hosts, Resolve(l, h) PROVE HostsTypeOK'
  BY <1>1, SchoolOfType, HostsAssumption DEF HostsTypeOK, LookupsKnowHost, ChangesKnowSchool, Hosts, NoNames, Resolve
<1>2. ASSUME NEW l \in Lookups, ReadSchool(l) PROVE HostsTypeOK'
  BY <1>2, SchoolOfType, HostsAssumption DEF HostsTypeOK, LookupsKnowHost, ChangesKnowSchool, Hosts, NoNames, ReadSchool
<1>3. ASSUME NEW l \in Lookups, StoreHost(l) PROVE HostsTypeOK'
  BY <1>3, SchoolOfType, HostsAssumption DEF HostsTypeOK, LookupsKnowHost, ChangesKnowSchool, Hosts, NoNames, StoreHost
<1>4. ASSUME NEW h \in Hosts, HostExpires(h) PROVE HostsTypeOK'
  BY <1>4, SchoolOfType, HostsAssumption DEF HostsTypeOK, LookupsKnowHost, ChangesKnowSchool, Hosts, NoNames, HostExpires
<1>5. ASSUME NEW m \in Managers, NEW s \in Tenants, NEW d \in Domains, DomainFree(m, s, d) PROVE HostsTypeOK'
  BY <1>5, SchoolOfType, HostsAssumption DEF HostsTypeOK, LookupsKnowHost, ChangesKnowSchool, Hosts, NoNames, DomainFree
<1>6. ASSUME NEW m \in Managers, NEW s \in Tenants, ReadPending(m, s) PROVE HostsTypeOK'
  BY <1>6, SchoolOfType, HostsAssumption DEF HostsTypeOK, LookupsKnowHost, ChangesKnowSchool, Hosts, NoNames, ReadPending, DomainToVerify
<1>7. ASSUME NEW m \in Managers, NEW s \in Tenants, ReadDomains(m, s) PROVE HostsTypeOK'
  BY <1>7, SchoolOfType, HostsAssumption DEF HostsTypeOK, LookupsKnowHost, ChangesKnowSchool, Hosts, NoNames, ReadDomains
<1>8. ASSUME NEW m \in Managers, SetPendingDomain(m) PROVE HostsTypeOK'
  BY <1>8, SchoolOfType, HostsAssumption DEF HostsTypeOK, LookupsKnowHost, ChangesKnowSchool, Hosts, NoNames, SetPendingDomain, Reading
<1>9. ASSUME NEW m \in Managers, LookupHost(m) PROVE HostsTypeOK'
  BY <1>9, SchoolOfType, HostsAssumption DEF HostsTypeOK, LookupsKnowHost, ChangesKnowSchool, Hosts, NoNames, LookupHost, Done
<1>10. ASSUME NEW m \in Managers, VerifyPendingDomain(m) PROVE HostsTypeOK'
  BY <1>10, SchoolOfType, HostsAssumption DEF HostsTypeOK, LookupsKnowHost, ChangesKnowSchool, Hosts, NoNames, VerifyPendingDomain, Done, Reading
<1>11. ASSUME NEW m \in Managers, ClearDomain(m) PROVE HostsTypeOK'
  BY <1>11, SchoolOfType, HostsAssumption DEF HostsTypeOK, LookupsKnowHost, ChangesKnowSchool, Hosts, NoNames, ClearDomain, Reading
<1>12. ASSUME NEW m \in Managers, NEW h \in Domains, InvalidateHost(m, h) PROVE HostsTypeOK'
  BY <1>12, SchoolOfType, HostsAssumption DEF HostsTypeOK, LookupsKnowHost, ChangesKnowSchool, Hosts, NoNames, InvalidateHost, DropHost, Done
<1>13. ASSUME NEW s \in Tenants, CreateSchool(s) PROVE HostsTypeOK'
  BY <1>13, SchoolOfType, HostsAssumption DEF HostsTypeOK, LookupsKnowHost, ChangesKnowSchool, Hosts, NoNames, CreateSchool
<1>14. ASSUME NEW s \in Tenants, NEW v \in {"active", "suspended"}, NEW d \in Domains \cup {NoDomain}, UpdateSchool(s, v, d) PROVE HostsTypeOK'
  BY <1>14, SchoolOfType, HostsAssumption DEF HostsTypeOK, LookupsKnowHost, ChangesKnowSchool, Hosts, NoNames, UpdateSchool, Reading
<1>15. CASE UNCHANGED hostsVars
  BY <1>15, SchoolOfType, HostsAssumption DEF HostsTypeOK, LookupsKnowHost, ChangesKnowSchool, Hosts, NoNames, hostsVars
<1> HIDE DEF tenantVars, lookupVars, managerVars
<1> QED BY <1>1, <1>2, <1>3, <1>4, <1>5, <1>6, <1>7, <1>8, <1>9, <1>10, <1>11, <1>12, <1>13, <1>14, <1>15 DEF HostsNext

LEMMA LookupsStep == HostsTypeOK /\ LookupsKnowHost /\ [HostsNext]_hostsVars => LookupsKnowHost'
<1> SUFFICES ASSUME HostsTypeOK /\ LookupsKnowHost, [HostsNext]_hostsVars PROVE LookupsKnowHost'
  OBVIOUS
<1> USE DEF tenantVars, lookupVars, managerVars
<1>1. ASSUME NEW l \in Lookups, NEW h \in Hosts, Resolve(l, h) PROVE LookupsKnowHost'
  BY <1>1 DEF HostsTypeOK, LookupsKnowHost, Hosts, Resolve
<1>2. ASSUME NEW l \in Lookups, ReadSchool(l) PROVE LookupsKnowHost'
  BY <1>2 DEF HostsTypeOK, LookupsKnowHost, Hosts, ReadSchool
<1>3. ASSUME NEW l \in Lookups, StoreHost(l) PROVE LookupsKnowHost'
  BY <1>3 DEF HostsTypeOK, LookupsKnowHost, Hosts, StoreHost
<1>4. ASSUME NEW h \in Hosts, HostExpires(h) PROVE LookupsKnowHost'
  BY <1>4 DEF HostsTypeOK, LookupsKnowHost, Hosts, HostExpires
<1>5. ASSUME NEW m \in Managers, NEW s \in Tenants, NEW d \in Domains, DomainFree(m, s, d) PROVE LookupsKnowHost'
  BY <1>5 DEF HostsTypeOK, LookupsKnowHost, Hosts, DomainFree
<1>6. ASSUME NEW m \in Managers, NEW s \in Tenants, ReadPending(m, s) PROVE LookupsKnowHost'
  BY <1>6 DEF HostsTypeOK, LookupsKnowHost, Hosts, ReadPending, DomainToVerify
<1>7. ASSUME NEW m \in Managers, NEW s \in Tenants, ReadDomains(m, s) PROVE LookupsKnowHost'
  BY <1>7 DEF HostsTypeOK, LookupsKnowHost, Hosts, ReadDomains
<1>8. ASSUME NEW m \in Managers, SetPendingDomain(m) PROVE LookupsKnowHost'
  BY <1>8 DEF HostsTypeOK, LookupsKnowHost, Hosts, SetPendingDomain, Reading
<1>9. ASSUME NEW m \in Managers, LookupHost(m) PROVE LookupsKnowHost'
  BY <1>9 DEF HostsTypeOK, LookupsKnowHost, Hosts, LookupHost, Done
<1>10. ASSUME NEW m \in Managers, VerifyPendingDomain(m) PROVE LookupsKnowHost'
  BY <1>10 DEF HostsTypeOK, LookupsKnowHost, Hosts, VerifyPendingDomain, Done, Reading
<1>11. ASSUME NEW m \in Managers, ClearDomain(m) PROVE LookupsKnowHost'
  BY <1>11 DEF HostsTypeOK, LookupsKnowHost, Hosts, ClearDomain, Reading
<1>12. ASSUME NEW m \in Managers, NEW h \in Domains, InvalidateHost(m, h) PROVE LookupsKnowHost'
  BY <1>12 DEF HostsTypeOK, LookupsKnowHost, Hosts, InvalidateHost, DropHost, Done
<1>13. ASSUME NEW s \in Tenants, CreateSchool(s) PROVE LookupsKnowHost'
  BY <1>13 DEF HostsTypeOK, LookupsKnowHost, Hosts, CreateSchool
<1>14. ASSUME NEW s \in Tenants, NEW v \in {"active", "suspended"}, NEW d \in Domains \cup {NoDomain}, UpdateSchool(s, v, d) PROVE LookupsKnowHost'
  BY <1>14 DEF HostsTypeOK, LookupsKnowHost, Hosts, UpdateSchool, Reading
<1>15. CASE UNCHANGED hostsVars
  BY <1>15 DEF HostsTypeOK, LookupsKnowHost, Hosts, hostsVars
<1> HIDE DEF tenantVars, lookupVars, managerVars
<1> QED BY <1>1, <1>2, <1>3, <1>4, <1>5, <1>6, <1>7, <1>8, <1>9, <1>10, <1>11, <1>12, <1>13, <1>14, <1>15 DEF HostsNext

LEMMA ChangesStep == HostsTypeOK /\ ChangesKnowSchool /\ [HostsNext]_hostsVars => ChangesKnowSchool'
<1> SUFFICES ASSUME HostsTypeOK /\ ChangesKnowSchool, [HostsNext]_hostsVars PROVE ChangesKnowSchool'
  OBVIOUS
<1> USE DEF tenantVars, lookupVars, managerVars
<1>1. ASSUME NEW l \in Lookups, NEW h \in Hosts, Resolve(l, h) PROVE ChangesKnowSchool'
  BY <1>1, HostsAssumption DEF HostsTypeOK, ChangesKnowSchool, Hosts, NoNames, Resolve
<1>2. ASSUME NEW l \in Lookups, ReadSchool(l) PROVE ChangesKnowSchool'
  BY <1>2, HostsAssumption DEF HostsTypeOK, ChangesKnowSchool, Hosts, NoNames, ReadSchool
<1>3. ASSUME NEW l \in Lookups, StoreHost(l) PROVE ChangesKnowSchool'
  BY <1>3, HostsAssumption DEF HostsTypeOK, ChangesKnowSchool, Hosts, NoNames, StoreHost
<1>4. ASSUME NEW h \in Hosts, HostExpires(h) PROVE ChangesKnowSchool'
  BY <1>4, HostsAssumption DEF HostsTypeOK, ChangesKnowSchool, Hosts, NoNames, HostExpires
<1>5. ASSUME NEW m \in Managers, NEW s \in Tenants, NEW d \in Domains, DomainFree(m, s, d) PROVE ChangesKnowSchool'
  BY <1>5, HostsAssumption DEF HostsTypeOK, ChangesKnowSchool, Hosts, NoNames, DomainFree
<1>6. ASSUME NEW m \in Managers, NEW s \in Tenants, ReadPending(m, s) PROVE ChangesKnowSchool'
  BY <1>6, HostsAssumption DEF HostsTypeOK, ChangesKnowSchool, Hosts, NoNames, ReadPending, DomainToVerify
<1>7. ASSUME NEW m \in Managers, NEW s \in Tenants, ReadDomains(m, s) PROVE ChangesKnowSchool'
  BY <1>7, HostsAssumption DEF HostsTypeOK, ChangesKnowSchool, Hosts, NoNames, ReadDomains
<1>8. ASSUME NEW m \in Managers, SetPendingDomain(m) PROVE ChangesKnowSchool'
  BY <1>8, HostsAssumption DEF HostsTypeOK, ChangesKnowSchool, Hosts, NoNames, SetPendingDomain, Reading
<1>9. ASSUME NEW m \in Managers, LookupHost(m) PROVE ChangesKnowSchool'
  BY <1>9, HostsAssumption DEF HostsTypeOK, ChangesKnowSchool, Hosts, NoNames, LookupHost, Done
<1>10. ASSUME NEW m \in Managers, VerifyPendingDomain(m) PROVE ChangesKnowSchool'
  BY <1>10, HostsAssumption DEF HostsTypeOK, ChangesKnowSchool, Hosts, NoNames, VerifyPendingDomain, Done, Reading
<1>11. ASSUME NEW m \in Managers, ClearDomain(m) PROVE ChangesKnowSchool'
  BY <1>11, HostsAssumption DEF HostsTypeOK, ChangesKnowSchool, Hosts, NoNames, ClearDomain, Reading
<1>12. ASSUME NEW m \in Managers, NEW h \in Domains, InvalidateHost(m, h) PROVE ChangesKnowSchool'
  BY <1>12, HostsAssumption DEF HostsTypeOK, ChangesKnowSchool, Hosts, NoNames, InvalidateHost, DropHost, Done
<1>13. ASSUME NEW s \in Tenants, CreateSchool(s) PROVE ChangesKnowSchool'
  BY <1>13, HostsAssumption DEF HostsTypeOK, ChangesKnowSchool, Hosts, NoNames, CreateSchool
<1>14. ASSUME NEW s \in Tenants, NEW v \in {"active", "suspended"}, NEW d \in Domains \cup {NoDomain}, UpdateSchool(s, v, d) PROVE ChangesKnowSchool'
  BY <1>14, HostsAssumption DEF HostsTypeOK, ChangesKnowSchool, Hosts, NoNames, UpdateSchool, Reading
<1>15. CASE UNCHANGED hostsVars
  BY <1>15, HostsAssumption DEF HostsTypeOK, ChangesKnowSchool, Hosts, NoNames, hostsVars
<1> HIDE DEF tenantVars, lookupVars, managerVars
<1> QED BY <1>1, <1>2, <1>3, <1>4, <1>5, <1>6, <1>7, <1>8, <1>9, <1>10, <1>11, <1>12, <1>13, <1>14, <1>15 DEF HostsNext

LEMMA HostsReadStep == HostsTypeOK /\ ChangesKnowSchool /\ ReadStands /\ [HostsNext]_hostsVars => ReadStands'
<1> SUFFICES ASSUME HostsTypeOK /\ ChangesKnowSchool /\ ReadStands, [HostsNext]_hostsVars PROVE ReadStands'
  OBVIOUS
<1> USE DEF tenantVars, lookupVars, managerVars
<1>1. ASSUME NEW l \in Lookups, NEW h \in Hosts, Resolve(l, h) PROVE ReadStands'
  BY <1>1, HostsAssumption DEF HostsTypeOK, ChangesKnowSchool, ReadStands, Hosts, NoNames, Resolve
<1>2. ASSUME NEW l \in Lookups, ReadSchool(l) PROVE ReadStands'
  BY <1>2, HostsAssumption DEF HostsTypeOK, ChangesKnowSchool, ReadStands, Hosts, NoNames, ReadSchool
<1>3. ASSUME NEW l \in Lookups, StoreHost(l) PROVE ReadStands'
  BY <1>3, HostsAssumption DEF HostsTypeOK, ChangesKnowSchool, ReadStands, Hosts, NoNames, StoreHost
<1>4. ASSUME NEW h \in Hosts, HostExpires(h) PROVE ReadStands'
  BY <1>4, HostsAssumption DEF HostsTypeOK, ChangesKnowSchool, ReadStands, Hosts, NoNames, HostExpires
<1>5. ASSUME NEW m \in Managers, NEW s \in Tenants, NEW d \in Domains, DomainFree(m, s, d) PROVE ReadStands'
  BY <1>5, HostsAssumption DEF HostsTypeOK, ChangesKnowSchool, ReadStands, Hosts, NoNames, DomainFree
<1>6. ASSUME NEW m \in Managers, NEW s \in Tenants, ReadPending(m, s) PROVE ReadStands'
  BY <1>6, HostsAssumption DEF HostsTypeOK, ChangesKnowSchool, ReadStands, Hosts, NoNames, ReadPending, DomainToVerify
<1>7. ASSUME NEW m \in Managers, NEW s \in Tenants, ReadDomains(m, s) PROVE ReadStands'
  BY <1>7, HostsAssumption DEF HostsTypeOK, ChangesKnowSchool, ReadStands, Hosts, NoNames, ReadDomains
<1>8. ASSUME NEW m \in Managers, SetPendingDomain(m) PROVE ReadStands'
  BY <1>8, HostsAssumption DEF HostsTypeOK, ChangesKnowSchool, ReadStands, Hosts, NoNames, SetPendingDomain, Reading
<1>9. ASSUME NEW m \in Managers, LookupHost(m) PROVE ReadStands'
  BY <1>9, HostsAssumption DEF HostsTypeOK, ChangesKnowSchool, ReadStands, Hosts, NoNames, LookupHost, Done
<1>10. ASSUME NEW m \in Managers, VerifyPendingDomain(m) PROVE ReadStands'
  BY <1>10, HostsAssumption DEF HostsTypeOK, ChangesKnowSchool, ReadStands, Hosts, NoNames, VerifyPendingDomain, Done, Reading
<1>11. ASSUME NEW m \in Managers, ClearDomain(m) PROVE ReadStands'
  BY <1>11, HostsAssumption DEF HostsTypeOK, ChangesKnowSchool, ReadStands, Hosts, NoNames, ClearDomain, Reading
<1>12. ASSUME NEW m \in Managers, NEW h \in Domains, InvalidateHost(m, h) PROVE ReadStands'
  BY <1>12, HostsAssumption DEF HostsTypeOK, ChangesKnowSchool, ReadStands, Hosts, NoNames, InvalidateHost, DropHost, Done
<1>13. ASSUME NEW s \in Tenants, CreateSchool(s) PROVE ReadStands'
  BY <1>13, HostsAssumption DEF HostsTypeOK, ChangesKnowSchool, ReadStands, Hosts, NoNames, CreateSchool
<1>14. ASSUME NEW s \in Tenants, NEW v \in {"active", "suspended"}, NEW d \in Domains \cup {NoDomain}, UpdateSchool(s, v, d) PROVE ReadStands'
  BY <1>14, HostsAssumption DEF HostsTypeOK, ChangesKnowSchool, ReadStands, Hosts, NoNames, UpdateSchool, Reading
<1>15. CASE UNCHANGED hostsVars
  BY <1>15, HostsAssumption DEF HostsTypeOK, ChangesKnowSchool, ReadStands, Hosts, NoNames, hostsVars
<1> HIDE DEF tenantVars, lookupVars, managerVars
<1> QED BY <1>1, <1>2, <1>3, <1>4, <1>5, <1>6, <1>7, <1>8, <1>9, <1>10, <1>11, <1>12, <1>13, <1>14, <1>15 DEF HostsNext

LEMMA ExplainedStep == HostsInv /\ [HostsNext]_hostsVars => HostIsExplained'
<1> SUFFICES ASSUME HostsInv, [HostsNext]_hostsVars PROVE HostIsExplained'
  OBVIOUS
<1> USE DEF tenantVars, lookupVars, managerVars
<1>1. ASSUME NEW l \in Lookups, NEW h \in Hosts, Resolve(l, h) PROVE HostIsExplained'
  <2>1. \A k \in Hosts : SchoolOf(k)' = SchoolOf(k)
    <3> TAKE k \in Hosts
    <3> QED BY <1>1, SameSchool DEF Resolve
  <2> QED BY <1>1, <2>1, HostsAssumption DEF HostsInv, HostsTypeOK, LookupsKnowHost, ChangesKnowSchool, ReadStands, HostIsExplained, Hosts, NoNames, Resolve
<1>2. ASSUME NEW l \in Lookups, ReadSchool(l) PROVE HostIsExplained'
  <2>1. \A k \in Hosts : SchoolOf(k)' = SchoolOf(k)
    <3> TAKE k \in Hosts
    <3> QED BY <1>2, SameSchool DEF ReadSchool
  <2> QED BY <1>2, <2>1, HostsAssumption DEF HostsInv, HostsTypeOK, LookupsKnowHost, ChangesKnowSchool, ReadStands, HostIsExplained, Hosts, NoNames, ReadSchool
<1>3. ASSUME NEW l \in Lookups, StoreHost(l) PROVE HostIsExplained'
  <2>1. \A k \in Hosts : SchoolOf(k)' = SchoolOf(k)
    <3> TAKE k \in Hosts
    <3> QED BY <1>3, SameSchool DEF StoreHost
  <2> QED BY <1>3, <2>1, HostsAssumption DEF HostsInv, HostsTypeOK, LookupsKnowHost, ChangesKnowSchool, ReadStands, HostIsExplained, Hosts, NoNames, StoreHost
<1>4. ASSUME NEW h \in Hosts, HostExpires(h) PROVE HostIsExplained'
  <2>1. \A k \in Hosts : SchoolOf(k)' = SchoolOf(k)
    <3> TAKE k \in Hosts
    <3> QED BY <1>4, SameSchool DEF HostExpires
  <2> QED BY <1>4, <2>1, HostsAssumption DEF HostsInv, HostsTypeOK, LookupsKnowHost, ChangesKnowSchool, ReadStands, HostIsExplained, Hosts, NoNames, HostExpires
<1>5. ASSUME NEW m \in Managers, NEW s \in Tenants, NEW d \in Domains, DomainFree(m, s, d) PROVE HostIsExplained'
  <2>1. \A k \in Hosts : SchoolOf(k)' = SchoolOf(k)
    <3> TAKE k \in Hosts
    <3> QED BY <1>5, SameSchool DEF DomainFree
  <2> QED BY <1>5, <2>1, HostsAssumption DEF HostsInv, HostsTypeOK, LookupsKnowHost, ChangesKnowSchool, ReadStands, HostIsExplained, Hosts, NoNames, DomainFree
<1>6. ASSUME NEW m \in Managers, NEW s \in Tenants, ReadPending(m, s) PROVE HostIsExplained'
  <2>1. \A k \in Hosts : SchoolOf(k)' = SchoolOf(k)
    <3> TAKE k \in Hosts
    <3> QED BY <1>6, SameSchool DEF ReadPending, DomainToVerify
  <2> QED BY <1>6, <2>1, HostsAssumption DEF HostsInv, HostsTypeOK, LookupsKnowHost, ChangesKnowSchool, ReadStands, HostIsExplained, Hosts, NoNames, ReadPending, DomainToVerify
<1>7. ASSUME NEW m \in Managers, NEW s \in Tenants, ReadDomains(m, s) PROVE HostIsExplained'
  <2>1. \A k \in Hosts : SchoolOf(k)' = SchoolOf(k)
    <3> TAKE k \in Hosts
    <3> QED BY <1>7, SameSchool DEF ReadDomains
  <2> QED BY <1>7, <2>1, HostsAssumption DEF HostsInv, HostsTypeOK, LookupsKnowHost, ChangesKnowSchool, ReadStands, HostIsExplained, Hosts, NoNames, ReadDomains
<1>8. ASSUME NEW m \in Managers, SetPendingDomain(m) PROVE HostIsExplained'
  <2>1. \A k \in Hosts : SchoolOf(k)' = SchoolOf(k)
    <3> TAKE k \in Hosts
    <3> QED BY <1>8, SameSchool DEF SetPendingDomain, Reading
  <2> QED BY <1>8, <2>1, HostsAssumption DEF HostsInv, HostsTypeOK, LookupsKnowHost, ChangesKnowSchool, ReadStands, HostIsExplained, Hosts, NoNames, SetPendingDomain, Reading
<1>9. ASSUME NEW m \in Managers, LookupHost(m) PROVE HostIsExplained'
  <2>1. \A k \in Hosts : SchoolOf(k)' = SchoolOf(k)
    <3> TAKE k \in Hosts
    <3> QED BY <1>9, SameSchool DEF LookupHost, Done
  <2> QED BY <1>9, <2>1, HostsAssumption DEF HostsInv, HostsTypeOK, LookupsKnowHost, ChangesKnowSchool, ReadStands, HostIsExplained, Hosts, NoNames, LookupHost, Done
<1>10. ASSUME NEW m \in Managers, VerifyPendingDomain(m) PROVE HostIsExplained'
  <2>1. \A k \in Hosts \ {custom[school[m]], pending[school[m]]} : SchoolOf(k)' = SchoolOf(k)
    <3> TAKE k \in Hosts \ {custom[school[m]], pending[school[m]]}
    <3> QED BY <1>10, SameSchool, HostsAssumption DEF HostsInv, HostsTypeOK, ChangesKnowSchool, Hosts, NoNames, VerifyPendingDomain, Done, Reading
  <2> SUFFICES ASSUME NEW k \in Hosts, known'[k] \notin {NoEntry, SchoolOf(k)'}
               PROVE  \/ k \in lagging'
                      \/ \E n \in Managers : managing'[n] = "written" /\ k \in dropping'[n]
    BY DEF HostIsExplained
  <2>2. school[m] \in Tenants /\ NoDomain \notin Hosts /\ lagging \subseteq lagging'
    BY <1>10, HostsAssumption DEF HostsInv, HostsTypeOK, ChangesKnowSchool, NoNames, Hosts, VerifyPendingDomain, Done
  <2>3. CASE managing'[m] = "written"
    <3>1. CASE k = custom[school[m]]
      BY <1>10, <2>2, <2>3, <3>1 DEF HostsInv, HostsTypeOK, VerifyPendingDomain, Done
    <3>2. CASE k = pending[school[m]] /\ m \in overtaken
      BY <1>10, <2>2, <2>3, <3>2 DEF HostsInv, HostsTypeOK, VerifyPendingDomain, Done
    <3>3. CASE k = pending[school[m]] /\ m \notin overtaken
      BY <1>10, <2>2, <2>3, <3>3 DEF HostsInv, HostsTypeOK, ReadStands, VerifyPendingDomain, Done
    <3>4. CASE k \notin {custom[school[m]], pending[school[m]]}
      <4>1. known[k] \notin {NoEntry, SchoolOf(k)}
        BY <1>10, <2>1, <3>4 DEF VerifyPendingDomain
      <4> QED BY <1>10, <2>2, <2>3, <4>1 DEF HostsInv, HostsTypeOK, HostIsExplained, VerifyPendingDomain, Done
    <3> QED BY <3>1, <3>2, <3>3, <3>4
  <2>4. CASE managing'[m] # "written"
    <3>1. UNCHANGED <<tenantVars, known, lagging>> /\ Done(m)
      BY <1>10, <2>4 DEF HostsInv, HostsTypeOK, VerifyPendingDomain
    <3>2. SchoolOf(k)' = SchoolOf(k)
      BY <3>1, SameSchool
    <3> QED BY <1>10, <3>1, <3>2 DEF HostsInv, HostsTypeOK, HostIsExplained, VerifyPendingDomain, Done
  <2> QED BY <2>3, <2>4
<1>11. ASSUME NEW m \in Managers, ClearDomain(m) PROVE HostIsExplained'
  <2>1. \A k \in Hosts \ {custom[school[m]]} : SchoolOf(k)' = SchoolOf(k)
    <3> TAKE k \in Hosts \ {custom[school[m]]}
    <3> QED BY <1>11, SameSchool, HostsAssumption DEF HostsInv, HostsTypeOK, ChangesKnowSchool, Hosts, NoNames, ClearDomain, Reading
  <2> QED BY <1>11, <2>1, HostsAssumption DEF HostsInv, HostsTypeOK, LookupsKnowHost, ChangesKnowSchool, ReadStands, HostIsExplained, Hosts, NoNames, ClearDomain, Reading
<1>12. ASSUME NEW m \in Managers, NEW h \in Domains, InvalidateHost(m, h) PROVE HostIsExplained'
  <2>1. \A k \in Hosts : SchoolOf(k)' = SchoolOf(k)
    <3> TAKE k \in Hosts
    <3> QED BY <1>12, SameSchool DEF InvalidateHost, DropHost, Done
  <2> QED BY <1>12, <2>1, HostsAssumption DEF HostsInv, HostsTypeOK, LookupsKnowHost, ChangesKnowSchool, ReadStands, HostIsExplained, Hosts, NoNames, InvalidateHost, DropHost, Done
<1>13. ASSUME NEW s \in Tenants, CreateSchool(s) PROVE HostIsExplained'
  <2>1. \A k \in Hosts \ {s} : SchoolOf(k)' = SchoolOf(k)
    <3> TAKE k \in Hosts \ {s}
    <3> QED BY <1>13, SameSchool, HostsAssumption DEF HostsInv, HostsTypeOK, ChangesKnowSchool, Hosts, NoNames, CreateSchool
  <2> QED BY <1>13, <2>1, HostsAssumption DEF HostsInv, HostsTypeOK, LookupsKnowHost, ChangesKnowSchool, ReadStands, HostIsExplained, Hosts, NoNames, CreateSchool
<1>14. ASSUME NEW s \in Tenants, NEW v \in {"active", "suspended"}, NEW d \in Domains \cup {NoDomain}, UpdateSchool(s, v, d) PROVE HostIsExplained'
  <2>1. \A k \in Hosts \ {s, custom[s], d} : SchoolOf(k)' = SchoolOf(k)
    <3> TAKE k \in Hosts \ {s, custom[s], d}
    <3> QED BY <1>14, SameSchool, HostsAssumption DEF HostsInv, HostsTypeOK, ChangesKnowSchool, Hosts, NoNames, UpdateSchool, Reading
  <2> QED BY <1>14, <2>1, HostsAssumption DEF HostsInv, HostsTypeOK, LookupsKnowHost, ChangesKnowSchool, ReadStands, HostIsExplained, Hosts, NoNames, UpdateSchool, Reading
<1>15. CASE UNCHANGED hostsVars
  <2>1. \A k \in Hosts : SchoolOf(k)' = SchoolOf(k)
    <3> TAKE k \in Hosts
    <3> QED BY <1>15, SameSchool DEF hostsVars
  <2> QED BY <1>15, <2>1, HostsAssumption DEF HostsInv, HostsTypeOK, LookupsKnowHost, ChangesKnowSchool, ReadStands, HostIsExplained, Hosts, NoNames, hostsVars
<1> HIDE DEF tenantVars, lookupVars, managerVars
<1> QED BY <1>1, <1>2, <1>3, <1>4, <1>5, <1>6, <1>7, <1>8, <1>9, <1>10, <1>11, <1>12, <1>13, <1>14, <1>15 DEF HostsNext

LEMMA VerifiedStep == HostsInv /\ [HostsNext]_hostsVars =>
    \A m \in Managers : managing[m] = "resolved" /\ managing'[m] = "written" =>
        custom'[school[m]] = named[m] \/ m \in overtaken
<1> SUFFICES ASSUME HostsInv, [HostsNext]_hostsVars, NEW n \in Managers,
                    managing[n] = "resolved", managing'[n] = "written", n \notin overtaken
             PROVE  custom'[school[n]] = named[n]
  OBVIOUS
<1>1. VerifyPendingDomain(n)
  <2>1. ASSUME NEW l \in Lookups, NEW h \in Hosts, Resolve(l, h) PROVE FALSE
    BY <2>1 DEF HostsInv, HostsTypeOK, tenantVars, lookupVars, managerVars, Resolve
  <2>2. ASSUME NEW l \in Lookups, ReadSchool(l) PROVE FALSE
    BY <2>2 DEF HostsInv, HostsTypeOK, tenantVars, lookupVars, managerVars, ReadSchool
  <2>3. ASSUME NEW l \in Lookups, StoreHost(l) PROVE FALSE
    BY <2>3 DEF HostsInv, HostsTypeOK, tenantVars, lookupVars, managerVars, StoreHost
  <2>4. ASSUME NEW h \in Hosts, HostExpires(h) PROVE FALSE
    BY <2>4 DEF HostsInv, HostsTypeOK, tenantVars, lookupVars, managerVars, HostExpires
  <2>5. ASSUME NEW m \in Managers, NEW s \in Tenants, NEW d \in Domains, DomainFree(m, s, d) PROVE FALSE
    BY <2>5 DEF HostsInv, HostsTypeOK, tenantVars, lookupVars, managerVars, DomainFree
  <2>6. ASSUME NEW m \in Managers, NEW s \in Tenants, ReadPending(m, s) PROVE FALSE
    BY <2>6 DEF HostsInv, HostsTypeOK, tenantVars, lookupVars, managerVars, ReadPending, DomainToVerify
  <2>7. ASSUME NEW m \in Managers, NEW s \in Tenants, ReadDomains(m, s) PROVE FALSE
    BY <2>7 DEF HostsInv, HostsTypeOK, tenantVars, lookupVars, managerVars, ReadDomains
  <2>8. ASSUME NEW m \in Managers, SetPendingDomain(m) PROVE FALSE
    BY <2>8 DEF HostsInv, HostsTypeOK, tenantVars, lookupVars, managerVars, SetPendingDomain, Reading
  <2>9. ASSUME NEW m \in Managers, LookupHost(m) PROVE FALSE
    BY <2>9 DEF HostsInv, HostsTypeOK, tenantVars, lookupVars, managerVars, LookupHost, Done
  <2>10. ASSUME NEW m \in Managers, VerifyPendingDomain(m) PROVE m = n
    BY <2>10 DEF HostsInv, HostsTypeOK, tenantVars, lookupVars, managerVars, VerifyPendingDomain, Done, Reading
  <2>11. ASSUME NEW m \in Managers, ClearDomain(m) PROVE FALSE
    BY <2>11 DEF HostsInv, HostsTypeOK, tenantVars, lookupVars, managerVars, ClearDomain, Reading
  <2>12. ASSUME NEW m \in Managers, NEW h \in Domains, InvalidateHost(m, h) PROVE FALSE
    BY <2>12 DEF HostsInv, HostsTypeOK, tenantVars, lookupVars, managerVars, InvalidateHost, DropHost, Done
  <2>13. ASSUME NEW s \in Tenants, CreateSchool(s) PROVE FALSE
    BY <2>13 DEF HostsInv, HostsTypeOK, tenantVars, lookupVars, managerVars, CreateSchool
  <2>14. ASSUME NEW s \in Tenants, NEW v \in {"active", "suspended"}, NEW d \in Domains \cup {NoDomain}, UpdateSchool(s, v, d) PROVE FALSE
    BY <2>14 DEF HostsInv, HostsTypeOK, tenantVars, lookupVars, managerVars, UpdateSchool, Reading
  <2>15. CASE UNCHANGED hostsVars
    BY <2>15 DEF hostsVars, managerVars
  <2> QED BY <2>1, <2>2, <2>3, <2>4, <2>5, <2>6, <2>7, <2>8, <2>9, <2>10, <2>11, <2>12, <2>13, <2>14, <2>15 DEF HostsNext
<1> QED BY <1>1 DEF HostsInv, HostsTypeOK, ChangesKnowSchool, ReadStands, VerifyPendingDomain, Done

LEMMA HostsInitially == HostsInit => HostsInv
  BY HostsAssumption DEF HostsInit, HostsInv, HostsTypeOK, LookupsKnowHost, ChangesKnowSchool, ReadStands, HostIsExplained, Hosts, NoNames

LEMMA HostsInductive == HostsSpec => []HostsInv
<1>1. HostsInv /\ [HostsNext]_hostsVars => HostsInv'
  BY HostsTypeStep, LookupsStep, ChangesStep, HostsReadStep, ExplainedStep DEF HostsInv
<1> QED BY HostsInitially, <1>1, PTL DEF HostsSpec

\* Every variable of the hosts, lookups and changes has its type.
THEOREM HostsTypeCorrect == HostsSpec => []HostsTypeOK
<1>1. HostsInv => HostsTypeOK
  BY DEF HostsInv
<1> QED BY HostsInductive, <1>1, PTL

\* A cached answer the database would not give is about to be dropped, or lags for a
\* named reason (HostResolver, DomainService).
THEOREM HostAlwaysExplained == HostsSpec => []HostIsExplained
<1>1. HostsInv => HostIsExplained
  BY DEF HostsInv
<1> QED BY HostsInductive, <1>1, PTL

\* A verification that no other change overtook puts in use what it looked up.
THEOREM VerifiedAlwaysInUse == HostsSpec => VerifiedIsInUse
<1>1. HostsInv /\ [HostsNext]_hostsVars =>
        [\A m \in Managers : managing[m] = "resolved" /\ managing'[m] = "written" =>
            custom'[school[m]] = named[m] \/ m \in overtaken]_hostsVars
  BY VerifiedStep
<1> QED BY HostsInductive, <1>1, PTL DEF HostsSpec, VerifiedIsInUse

-----------------------------------------------------------------------------
(* The pages that follow a school. *)

\* Only a handler that is sending has connections to serve.
OnlySendersServe == \A h \in Handlers : handlerPc[h] # "sending" => targets[h] = {}

\* A page without a registered connection is told by a handler that has not yet
\* copied the connections, or not at all.
UnlinkedIsTold ==
    \A p \in Pages : Behind(p) /\ link[p] # "up" =>
        p \in missed \/ \E h \in Handlers : handlerPc[h] = "written"

RealtimeInv == RealtimeTypeOK /\ OnlySendersServe /\ UnlinkedIsTold /\ PageIsTold

LEMMA RealtimeTypeStep == RealtimeTypeOK /\ [RealtimeNext]_realtimeVars => RealtimeTypeOK'
<1> SUFFICES ASSUME RealtimeTypeOK, [RealtimeNext]_realtimeVars PROVE RealtimeTypeOK'
  OBVIOUS
<1> USE DEF handlerVars, linkVars, pageVars
<1>1. ASSUME NEW h \in Handlers, WriteRowsOf(h) PROVE RealtimeTypeOK'
  BY <1>1, RealtimeAssumption DEF RealtimeTypeOK, WriteRowsOf
<1>2. ASSUME NEW h \in Handlers, CopyTargets(h) PROVE RealtimeTypeOK'
  BY <1>2, RealtimeAssumption DEF RealtimeTypeOK, CopyTargets
<1>3. ASSUME NEW h \in Handlers, NEW p \in Pages, SendEvent(h, p) PROVE RealtimeTypeOK'
  BY <1>3, RealtimeAssumption DEF RealtimeTypeOK, SendEvent, Close
<1>4. ASSUME ServerRestarts PROVE RealtimeTypeOK'
  BY <1>4, RealtimeAssumption DEF RealtimeTypeOK, ServerRestarts
<1>5. ASSUME NEW p \in Pages, Connect(p) PROVE RealtimeTypeOK'
  BY <1>5, RealtimeAssumption DEF RealtimeTypeOK, Connect
<1>6. ASSUME NEW p \in Pages, Register(p) PROVE RealtimeTypeOK'
  BY <1>6, RealtimeAssumption DEF RealtimeTypeOK, Register
<1>7. ASSUME NEW p \in Pages, Disconnect(p) PROVE RealtimeTypeOK'
  BY <1>7, RealtimeAssumption DEF RealtimeTypeOK, Disconnect, Close
<1>8. ASSUME NEW p \in Pages, WritePump(p) PROVE RealtimeTypeOK'
  BY <1>8, RealtimeAssumption DEF RealtimeTypeOK, WritePump
<1>9. ASSUME NEW p \in Pages, OnMessage(p) PROVE RealtimeTypeOK'
  BY <1>9, RealtimeAssumption DEF RealtimeTypeOK, OnMessage, JoinsRequest
<1>10. ASSUME NEW p \in Pages, Refetch(p) PROVE RealtimeTypeOK'
  BY <1>10, RealtimeAssumption DEF RealtimeTypeOK, Refetch
<1>11. ASSUME NEW p \in Pages, FetchReads(p) PROVE RealtimeTypeOK'
  BY <1>11, RealtimeAssumption DEF RealtimeTypeOK, FetchReads
<1>12. ASSUME NEW p \in Pages, FetchFails(p) PROVE RealtimeTypeOK'
  BY <1>12, RealtimeAssumption DEF RealtimeTypeOK, FetchFails
<1>13. ASSUME NEW p \in Pages, FetchShows(p) PROVE RealtimeTypeOK'
  BY <1>13, RealtimeAssumption DEF RealtimeTypeOK, FetchShows
<1>14. CASE UNCHANGED realtimeVars
  BY <1>14, RealtimeAssumption DEF RealtimeTypeOK, realtimeVars
<1> HIDE DEF handlerVars, linkVars, pageVars
<1> QED BY <1>1, <1>2, <1>3, <1>4, <1>5, <1>6, <1>7, <1>8, <1>9, <1>10, <1>11, <1>12, <1>13, <1>14 DEF RealtimeNext

LEMMA ServeStep == RealtimeTypeOK /\ OnlySendersServe /\ [RealtimeNext]_realtimeVars => OnlySendersServe'
<1> SUFFICES ASSUME RealtimeTypeOK /\ OnlySendersServe, [RealtimeNext]_realtimeVars PROVE OnlySendersServe'
  OBVIOUS
<1> USE DEF handlerVars, linkVars, pageVars
<1>1. ASSUME NEW h \in Handlers, WriteRowsOf(h) PROVE OnlySendersServe'
  BY <1>1 DEF RealtimeTypeOK, OnlySendersServe, WriteRowsOf
<1>2. ASSUME NEW h \in Handlers, CopyTargets(h) PROVE OnlySendersServe'
  BY <1>2 DEF RealtimeTypeOK, OnlySendersServe, CopyTargets
<1>3. ASSUME NEW h \in Handlers, NEW p \in Pages, SendEvent(h, p) PROVE OnlySendersServe'
  BY <1>3 DEF RealtimeTypeOK, OnlySendersServe, SendEvent, Close
<1>4. ASSUME ServerRestarts PROVE OnlySendersServe'
  BY <1>4 DEF RealtimeTypeOK, OnlySendersServe, ServerRestarts
<1>5. ASSUME NEW p \in Pages, Connect(p) PROVE OnlySendersServe'
  BY <1>5 DEF RealtimeTypeOK, OnlySendersServe, Connect
<1>6. ASSUME NEW p \in Pages, Register(p) PROVE OnlySendersServe'
  BY <1>6 DEF RealtimeTypeOK, OnlySendersServe, Register
<1>7. ASSUME NEW p \in Pages, Disconnect(p) PROVE OnlySendersServe'
  BY <1>7 DEF RealtimeTypeOK, OnlySendersServe, Disconnect, Close
<1>8. ASSUME NEW p \in Pages, WritePump(p) PROVE OnlySendersServe'
  BY <1>8 DEF RealtimeTypeOK, OnlySendersServe, WritePump
<1>9. ASSUME NEW p \in Pages, OnMessage(p) PROVE OnlySendersServe'
  BY <1>9 DEF RealtimeTypeOK, OnlySendersServe, OnMessage, JoinsRequest
<1>10. ASSUME NEW p \in Pages, Refetch(p) PROVE OnlySendersServe'
  BY <1>10 DEF RealtimeTypeOK, OnlySendersServe, Refetch
<1>11. ASSUME NEW p \in Pages, FetchReads(p) PROVE OnlySendersServe'
  BY <1>11 DEF RealtimeTypeOK, OnlySendersServe, FetchReads
<1>12. ASSUME NEW p \in Pages, FetchFails(p) PROVE OnlySendersServe'
  BY <1>12 DEF RealtimeTypeOK, OnlySendersServe, FetchFails
<1>13. ASSUME NEW p \in Pages, FetchShows(p) PROVE OnlySendersServe'
  BY <1>13 DEF RealtimeTypeOK, OnlySendersServe, FetchShows
<1>14. CASE UNCHANGED realtimeVars
  BY <1>14 DEF RealtimeTypeOK, OnlySendersServe, realtimeVars
<1> HIDE DEF handlerVars, linkVars, pageVars
<1> QED BY <1>1, <1>2, <1>3, <1>4, <1>5, <1>6, <1>7, <1>8, <1>9, <1>10, <1>11, <1>12, <1>13, <1>14 DEF RealtimeNext

LEMMA UnlinkedStep == RealtimeTypeOK /\ OnlySendersServe /\ UnlinkedIsTold /\ [RealtimeNext]_realtimeVars => UnlinkedIsTold'
<1> SUFFICES ASSUME RealtimeTypeOK /\ OnlySendersServe /\ UnlinkedIsTold, [RealtimeNext]_realtimeVars PROVE UnlinkedIsTold'
  OBVIOUS
<1> USE DEF handlerVars, linkVars, pageVars
<1>1. ASSUME NEW h \in Handlers, WriteRowsOf(h) PROVE UnlinkedIsTold'
  BY <1>1 DEF RealtimeTypeOK, UnlinkedIsTold, Behind, WriteRowsOf
<1>2. ASSUME NEW h \in Handlers, CopyTargets(h) PROVE UnlinkedIsTold'
  BY <1>2 DEF RealtimeTypeOK, UnlinkedIsTold, Behind, CopyTargets
<1>3. ASSUME NEW h \in Handlers, NEW p \in Pages, SendEvent(h, p) PROVE UnlinkedIsTold'
  BY <1>3 DEF RealtimeTypeOK, UnlinkedIsTold, Behind, SendEvent, Close
<1>4. ASSUME ServerRestarts PROVE UnlinkedIsTold'
  BY <1>4 DEF RealtimeTypeOK, UnlinkedIsTold, Behind, ServerRestarts
<1>5. ASSUME NEW p \in Pages, Connect(p) PROVE UnlinkedIsTold'
  BY <1>5 DEF RealtimeTypeOK, UnlinkedIsTold, Behind, Connect
<1>6. ASSUME NEW p \in Pages, Register(p) PROVE UnlinkedIsTold'
  BY <1>6 DEF RealtimeTypeOK, OnlySendersServe, UnlinkedIsTold, Behind, Register
<1>7. ASSUME NEW p \in Pages, Disconnect(p) PROVE UnlinkedIsTold'
  BY <1>7 DEF RealtimeTypeOK, UnlinkedIsTold, Behind, Disconnect, Close
<1>8. ASSUME NEW p \in Pages, WritePump(p) PROVE UnlinkedIsTold'
  BY <1>8 DEF RealtimeTypeOK, UnlinkedIsTold, Behind, WritePump
<1>9. ASSUME NEW p \in Pages, OnMessage(p) PROVE UnlinkedIsTold'
  BY <1>9 DEF RealtimeTypeOK, UnlinkedIsTold, Behind, OnMessage, JoinsRequest
<1>10. ASSUME NEW p \in Pages, Refetch(p) PROVE UnlinkedIsTold'
  BY <1>10 DEF RealtimeTypeOK, UnlinkedIsTold, Behind, Refetch
<1>11. ASSUME NEW p \in Pages, FetchReads(p) PROVE UnlinkedIsTold'
  BY <1>11 DEF RealtimeTypeOK, UnlinkedIsTold, Behind, FetchReads
<1>12. ASSUME NEW p \in Pages, FetchFails(p) PROVE UnlinkedIsTold'
  BY <1>12 DEF RealtimeTypeOK, UnlinkedIsTold, Behind, FetchFails
<1>13. ASSUME NEW p \in Pages, FetchShows(p) PROVE UnlinkedIsTold'
  BY <1>13 DEF RealtimeTypeOK, UnlinkedIsTold, Behind, FetchShows
<1>14. CASE UNCHANGED realtimeVars
  BY <1>14 DEF RealtimeTypeOK, UnlinkedIsTold, Behind, realtimeVars
<1> HIDE DEF handlerVars, linkVars, pageVars
<1> QED BY <1>1, <1>2, <1>3, <1>4, <1>5, <1>6, <1>7, <1>8, <1>9, <1>10, <1>11, <1>12, <1>13, <1>14 DEF RealtimeNext

LEMMA ToldStep == RealtimeTypeOK /\ OnlySendersServe /\ UnlinkedIsTold /\ PageIsTold /\ [RealtimeNext]_realtimeVars => PageIsTold'
<1> SUFFICES ASSUME RealtimeTypeOK /\ OnlySendersServe /\ UnlinkedIsTold /\ PageIsTold, [RealtimeNext]_realtimeVars PROVE PageIsTold'
  OBVIOUS
<1> USE DEF handlerVars, linkVars, pageVars
<1>1. ASSUME NEW h \in Handlers, WriteRowsOf(h) PROVE PageIsTold'
  BY <1>1 DEF RealtimeTypeOK, OnlySendersServe, UnlinkedIsTold, PageIsTold, Behind, WriteRowsOf
<1>2. ASSUME NEW h \in Handlers, CopyTargets(h) PROVE PageIsTold'
  BY <1>2 DEF RealtimeTypeOK, OnlySendersServe, UnlinkedIsTold, PageIsTold, Behind, CopyTargets
<1>3. ASSUME NEW h \in Handlers, NEW p \in Pages, SendEvent(h, p) PROVE PageIsTold'
  BY <1>3 DEF RealtimeTypeOK, OnlySendersServe, UnlinkedIsTold, PageIsTold, Behind, SendEvent, Close
<1>4. ASSUME ServerRestarts PROVE PageIsTold'
  BY <1>4 DEF RealtimeTypeOK, OnlySendersServe, UnlinkedIsTold, PageIsTold, Behind, ServerRestarts
<1>5. ASSUME NEW p \in Pages, Connect(p) PROVE PageIsTold'
  BY <1>5 DEF RealtimeTypeOK, OnlySendersServe, UnlinkedIsTold, PageIsTold, Behind, Connect
<1>6. ASSUME NEW p \in Pages, Register(p) PROVE PageIsTold'
  BY <1>6 DEF RealtimeTypeOK, OnlySendersServe, UnlinkedIsTold, PageIsTold, Behind, Register
<1>7. ASSUME NEW p \in Pages, Disconnect(p) PROVE PageIsTold'
  BY <1>7 DEF RealtimeTypeOK, OnlySendersServe, UnlinkedIsTold, PageIsTold, Behind, Disconnect, Close
<1>8. ASSUME NEW p \in Pages, WritePump(p) PROVE PageIsTold'
  BY <1>8 DEF RealtimeTypeOK, OnlySendersServe, UnlinkedIsTold, PageIsTold, Behind, WritePump
<1>9. ASSUME NEW p \in Pages, OnMessage(p) PROVE PageIsTold'
  BY <1>9 DEF RealtimeTypeOK, OnlySendersServe, UnlinkedIsTold, PageIsTold, Behind, OnMessage, JoinsRequest
<1>10. ASSUME NEW p \in Pages, Refetch(p) PROVE PageIsTold'
  BY <1>10 DEF RealtimeTypeOK, OnlySendersServe, UnlinkedIsTold, PageIsTold, Behind, Refetch
<1>11. ASSUME NEW p \in Pages, FetchReads(p) PROVE PageIsTold'
  BY <1>11 DEF RealtimeTypeOK, OnlySendersServe, UnlinkedIsTold, PageIsTold, Behind, FetchReads
<1>12. ASSUME NEW p \in Pages, FetchFails(p) PROVE PageIsTold'
  BY <1>12 DEF RealtimeTypeOK, OnlySendersServe, UnlinkedIsTold, PageIsTold, Behind, FetchFails
<1>13. ASSUME NEW p \in Pages, FetchShows(p) PROVE PageIsTold'
  BY <1>13 DEF RealtimeTypeOK, OnlySendersServe, UnlinkedIsTold, PageIsTold, Behind, FetchShows
<1>14. CASE UNCHANGED realtimeVars
  BY <1>14 DEF RealtimeTypeOK, OnlySendersServe, UnlinkedIsTold, PageIsTold, Behind, realtimeVars
<1> HIDE DEF handlerVars, linkVars, pageVars
<1> QED BY <1>1, <1>2, <1>3, <1>4, <1>5, <1>6, <1>7, <1>8, <1>9, <1>10, <1>11, <1>12, <1>13, <1>14 DEF RealtimeNext

LEMMA RealtimeInitially == RealtimeInit => RealtimeInv
  BY RealtimeAssumption DEF RealtimeInit, RealtimeInv, RealtimeTypeOK, OnlySendersServe, UnlinkedIsTold, PageIsTold, Behind

LEMMA RealtimeInductive == RealtimeSpec => []RealtimeInv
<1>1. RealtimeInv /\ [RealtimeNext]_realtimeVars => RealtimeInv'
  BY RealtimeTypeStep, ServeStep, UnlinkedStep, ToldStep DEF RealtimeInv
<1> QED BY RealtimeInitially, <1>1, PTL DEF RealtimeSpec

\* Every variable of the hub, its connections and its pages has its type.
THEOREM RealtimeTypeCorrect == RealtimeSpec => []RealtimeTypeOK
<1>1. RealtimeInv => RealtimeTypeOK
  BY DEF RealtimeInv
<1> QED BY RealtimeInductive, <1>1, PTL

\* A page that lacks a change will be told, or has missed an event in a named way.
THEOREM PageAlwaysTold == RealtimeSpec => []PageIsTold
<1>1. RealtimeInv => PageIsTold
  BY DEF RealtimeInv
<1> QED BY RealtimeInductive, <1>1, PTL

=============================================================================
