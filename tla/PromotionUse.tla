---------------------------- MODULE PromotionUse ----------------------------
(***************************************************************************)
(* One promo code with a limit of uses, and everybody who reads or writes  *)
(* its row: customers of the bot and of the website, the notifications of  *)
(* payments, an admin's form (PromotionForm.tla) and the sheet.            *)
(*                                                                         *)
(* A code is looked at when a customer enters it; the use is counted when  *)
(* the notification of the payment is handled, and between the two the     *)
(* order is open.  The limit itself is not edited here.                    *)
(***************************************************************************)
EXTENDS Integers, FiniteSets

CONSTANTS
    Orders,         \* orders of customers
    Limits,         \* max_count_of_usage, to choose from; 0: no limit
    MaxDeliveries,  \* bound: notifications of one payment
    MaxEdits        \* bound: forms opened, updates from the sheet

VARIABLES
    max,         \* promo.max_count_of_usage
    count,       \* promo.count_of_usage
    offered,     \* is_visible_as_option
    form,        \* count_of_usage as an open form has loaded it; Closed
    sheet,       \* count_of_usage in the sheet
    order,       \* step of every order
    discount,    \* orders with applied_promo_id, later promo_id of the payment
    deliveries,  \* notifications handled of the payment of every order
    edits,
    \* kept for the properties, not by the program
    most,        \* most open orders with a discount at one time
    lost,        \* uses no longer in count: not written, or overwritten
    unasked      \* orders whose discount was given without a look at the limit

row == <<max, count, offered>>
orderVars == <<order, discount, deliveries>>
vars == <<row, form, sheet, orderVars, edits, most, lost, unasked>>

Closed == -1
Steps == {"none", "bot", "web", "created", "paid"}

Init ==
    /\ max \in Limits /\ count = 0 /\ offered \in BOOLEAN /\ sheet = 0
    /\ form = Closed /\ edits = 0
    /\ order = [o \in Orders |-> "none"] /\ discount = {}
    /\ deliveries = [o \in Orders |-> 0]
    /\ most = 0 /\ lost = 0 /\ unasked = {}

Larger(m, n) == IF m > n THEN m ELSE n
Paid == {o \in discount : order[o] = "paid"}
Open == discount \ Paid

Step(o, s) == order' = [order EXCEPT ![o] = s]
Discounted(o) == discount' = discount \cup {o} /\ most' = Larger(most, Cardinality(Open'))
ByOthers == UNCHANGED <<form, sheet, edits>>

----------------------------------------------------------------------------
(* Customers.                                                              *)

\* LimitHolds: one use too many.
Bug_one_more == max = 0 \/ count <= max

UsageLeft == max = 0 \/ count < max

\* In the bot a code that is typed is looked at once.
handle_promo_code_input(o) ==
    /\ order[o] \in {"none", "bot"} /\ UsageLeft
    /\ Step(o, "bot") /\ Discounted(o) /\ unasked' = unasked \ {o}
    /\ UNCHANGED <<row, deliveries, lost>> /\ ByOthers
\* The codes on the summary's buttons are taken without a look at the limit.
apply_option_promo(o) ==
    /\ order[o] \in {"none", "bot"} /\ offered
    /\ Step(o, "bot") /\ Discounted(o)
    /\ unasked' = unasked \cup {o}
    /\ UNCHANGED <<row, deliveries, lost>> /\ ByOthers
reset_promo(o) ==
    /\ order[o] = "bot" /\ o \in discount
    /\ discount' = discount \ {o} /\ unasked' = unasked \ {o}
    /\ UNCHANGED <<row, order, deliveries, most, lost>> /\ ByOthers
\* The discount is whatever the dialog says by then.
create_and_send_payment(o) ==
    /\ order[o] = "bot" /\ Step(o, "created")
    /\ UNCHANGED <<row, discount, deliveries, most, lost, unasked>> /\ ByOthers

\* The website answers with the code's id, which the form sends back.
check_promo(o) ==
    /\ order[o] = "none" /\ UsageLeft /\ Step(o, "web")
    /\ UNCHANGED <<row, discount, deliveries, most, lost, unasked>> /\ ByOthers
post_booking_form(o) ==
    /\ order[o] = "web" /\ Step(o, "created")
    /\ IF UsageLeft THEN Discounted(o) ELSE UNCHANGED <<discount, most>>
    /\ UNCHANGED <<row, deliveries, lost, unasked>> /\ ByOthers

----------------------------------------------------------------------------
(* Others who write the row.                                               *)

\* Every notification raises the counter, a repeated one too.  An error is
\* only logged: the use is not counted.
processing_ticket_paid(o) ==
    /\ order[o] \in {"created", "paid"} /\ deliveries[o] < MaxDeliveries
    /\ Step(o, "paid") /\ deliveries' = [deliveries EXCEPT ![o] = @ + 1]
    /\ IF o \notin discount THEN UNCHANGED <<count, lost>>
       ELSE \/ count' = count + 1 /\ UNCHANGED lost
            \/ lost' = lost + 1 /\ UNCHANGED count
    /\ UNCHANGED <<max, offered, discount, most, unasked>> /\ ByOthers

Write(n) ==
    /\ count' = n /\ lost' = lost + Larger(count - n, 0)
    /\ UNCHANGED <<max, orderVars, most, unasked>>

handle_promotion_to_update ==
    /\ edits < MaxEdits /\ edits' = edits + 1 /\ form' = count
    /\ UNCHANGED <<row, sheet, orderVars, most, lost, unasked>>

\* The loaded counter is written back with what was edited.
promotion_confirm_save ==
    /\ form # Closed /\ form' = Closed /\ Write(form)
    /\ offered' \in BOOLEAN /\ UNCHANGED <<sheet, edits>>

\* Somebody copies the counter into the sheet; /settings merges the sheet's.
copy_to_sheet ==
    /\ sheet' = count
    /\ UNCHANGED <<row, form, orderVars, edits, most, lost, unasked>>
update_promotions_from_googlesheets ==
    /\ edits < MaxEdits /\ edits' = edits + 1
    /\ Write(sheet) /\ offered' \in BOOLEAN /\ UNCHANGED <<form, sheet>>

Next ==
    \/ \E o \in Orders :
          \/ handle_promo_code_input(o) \/ apply_option_promo(o) \/ reset_promo(o)
          \/ create_and_send_payment(o) \/ check_promo(o) \/ post_booking_form(o)
          \/ processing_ticket_paid(o)
    \/ handle_promotion_to_update \/ promotion_confirm_save \/ copy_to_sheet
    \/ update_promotions_from_googlesheets

Spec == Init /\ [][Next]_vars

----------------------------------------------------------------------------
(* Properties.                                                             *)

TypeOK ==
    /\ max \in Nat /\ count \in Nat /\ sheet \in Nat /\ form \in Nat \cup {Closed}
    /\ offered \in BOOLEAN
    /\ order \in [Orders -> Steps] /\ discount \subseteq Orders
    /\ deliveries \in [Orders -> Nat] /\ edits \in Nat
    /\ most \in Nat /\ lost \in Nat /\ unasked \subseteq Orders

\* A code with a limit is paid with more often than the limit allows only by
\* the orders that were open at the same time but the last of them, by the uses
\* that were overwritten by an older counter or not written at all, and by
\* those that took it from a button of the summary.
LimitHolds ==
    max > 0 => Cardinality(Paid) <= max + Larger(most - 1, 0) + lost + Cardinality(unasked)
=============================================================================
