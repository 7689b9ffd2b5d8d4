------------------------------ MODULE TillCart ------------------------------
(***************************************************************************)
(* The cart being rung up (CartService), its copy on disk for a crash, and *)
(* the carts put aside: held on this till (DraftService) or parked at the  *)
(* platform for any till of the warehouse (the parking calls of            *)
(* SharedDraftService).                                                    *)
(*                                                                         *)
(* A change takes the cart's write lock, recalculates, and persists after  *)
(* the lock is released: two steps.  Persisting reads the cart and saves   *)
(* it under one read lock: one step, which may fail unnoticed.  A line     *)
(* carries its own figures, and the cart adds those.  Prices and rates are *)
(* chosen so that every amount is a whole number.                          *)
(***************************************************************************)
EXTENDS Integers, FiniteSets, Functions

CONSTANTS
  Hands,      \* threads that call the services
  Products,   \* a cart has at most one line of each
  Inclusive,  \* the products whose price includes tax
  MaxDrafts,  \* MAX_DRAFTS_PER_OPERATOR, 10 in the code
  Drafts,     \* ids of held carts
  Parks,      \* ids of parked carts
  MaxQuantity,\* bound on the quantity of a line
  MaxCalls    \* bound on calls, crashes and expiries together

ASSUME CartAssumption ==
  Inclusive \subseteq Products /\ IsFiniteSet(Products) /\ MaxDrafts \in Nat \ {0}
  /\ MaxQuantity \in Nat /\ MaxCalls \in Nat

VARIABLES
  basket,      \* memory: the cart
  stored,      \* table active_cart
  held,        \* table drafts
  parked,      \* platform: parked carts
  hand,        \* what each thread is doing
  calls,
  cartHistory  \* history: what excuses the properties below

cartVars == <<basket, stored, held, parked, hand, calls, cartHistory>>

-----------------------------------------------------------------------------
(* Amounts (Cart, CartItem).                                               *)

UnitPrice == 8
TaxRate   == 100
\* disc, sub and tax are the figures a line carries; theirs is history: they
\* were taken from an answer of the platform, and not calculated since.
NoLine == [qty |-> 0, pct |-> 0, amt |-> 0, incl |-> FALSE, note |-> FALSE,
           disc |-> 0, sub |-> 0, tax |-> 0, theirs |-> FALSE]

Gross(l) == UnitPrice * l.qty
\* A percentage takes priority over an amount per unit.
LineDiscount(l) == IF l.pct > 0 THEN (Gross(l) * l.pct) \div 100 ELSE l.amt * l.qty
LineAmount(l) == Gross(l) - LineDiscount(l)
LineSubtotal(l) == IF l.incl THEN (LineAmount(l) * 100) \div (100 + TaxRate) ELSE LineAmount(l)
LineTax(l) == IF l.incl THEN LineAmount(l) - LineSubtotal(l) ELSE (LineAmount(l) * TaxRate) \div 100
\* CartItem::recalculate.
Priced(l) == [l EXCEPT !.disc = LineDiscount(l), !.sub = LineSubtotal(l), !.tax = LineTax(l), !.theirs = FALSE]
NewLine(p, q) == Priced([NoLine EXCEPT !.qty = q, !.incl = p \in Inclusive])

SubtotalsOf(ls)  == SumFunction([p \in DOMAIN ls |-> ls[p].sub])
TaxesOf(ls)      == SumFunction([p \in DOMAIN ls |-> ls[p].tax])
DiscountsOf(ls)  == SumFunction([p \in DOMAIN ls |-> ls[p].disc])
CartDiscount(c) == IF c.pct > 0 THEN (SubtotalsOf(c.lines) * c.pct) \div 100 ELSE c.amt
\* Cart::recalculate.
SlipGoesNegative(c) ==
  LET sub == SubtotalsOf(c.lines) - CartDiscount(c) IN
  [subtotal |-> sub, tax |-> TaxesOf(c.lines), discount |-> DiscountsOf(c.lines) + CartDiscount(c),
   grand |-> sub + TaxesOf(c.lines)]
SumsOf(c) ==
  LET sub == SubtotalsOf(c.lines) - CartDiscount(c)
      grand == sub + TaxesOf(c.lines) IN
  [subtotal |-> sub, tax |-> TaxesOf(c.lines), discount |-> DiscountsOf(c.lines) + CartDiscount(c),
   grand |-> IF grand < 0 THEN 0 ELSE grand]
Recalculated(c) == [c EXCEPT !.sums = SumsOf(c)]

EmptyCart == [lines |-> [p \in Products |-> NoLine], pct |-> 0, amt |-> 0, note |-> FALSE,
              customer |-> "none", balance |-> 0,
              sums |-> [subtotal |-> 0, tax |-> 0, discount |-> 0, grand |-> 0]]
HasLines(c) == \E p \in Products : c.lines[p].qty > 0
NoCart == [EmptyCart EXCEPT !.customer = "no-row"]

-----------------------------------------------------------------------------
Resting == [at |-> "idle", id |-> 0, cart |-> EmptyCart]
Doing(h, what) == hand[h].at = what
Then(h, what) == hand' = [hand EXCEPT ![h].at = what]
Rests(h) == hand' = [hand EXCEPT ![h] = Resting]
Begins(h) == Doing(h, "idle") /\ calls < MaxCalls /\ calls' = calls + 1
Excused(name) == cartHistory' = cartHistory \cup {name}
\* What may leave the row behind the cart when no call is under way.
Lapses == {"note", "deleted-under-a-change", "not-written", "not-read"}

(* CartService.                                                            *)
Changes(h, c) ==
  /\ Begins(h) /\ basket' = c /\ Then(h, "persisting")
  /\ UNCHANGED <<stored, held, parked, cartHistory>>
WithLine(p, l) == Recalculated([basket EXCEPT !.lines[p] = l])
Has(p) == basket.lines[p].qty > 0

AddItem(h, p, q) ==
  /\ q > 0 /\ basket.lines[p].qty + q <= MaxQuantity
  /\ Changes(h, WithLine(p, IF Has(p) THEN Priced([basket.lines[p] EXCEPT !.qty = @ + q]) ELSE NewLine(p, q)))

UpdateQuantity(h, p, q) ==
  Has(p) /\ Changes(h, WithLine(p, IF q = 0 THEN NoLine ELSE Priced([basket.lines[p] EXCEPT !.qty = q])))

Increment(h, p) == Has(p) /\ basket.lines[p].qty < MaxQuantity /\ UpdateQuantity(h, p, basket.lines[p].qty + 1)
Decrement(h, p) == Has(p) /\ UpdateQuantity(h, p, basket.lines[p].qty - 1)
RemoveItem(h, p) == Has(p) /\ Changes(h, WithLine(p, NoLine))

SlipForgetsTotals(h, p, pct, amt) ==
  Has(p) /\ Changes(h, [basket EXCEPT !.lines[p].pct = pct, !.lines[p].amt = amt])
\* A percentage clears the amount and the other way round; both may be cleared.
DiscountItem(h, p, pct, amt) ==
  Has(p) /\ Changes(h, WithLine(p, Priced([basket.lines[p] EXCEPT !.pct = pct, !.amt = amt])))

\* The one change that is not persisted.
SetItemNote(h, p) ==
  /\ Begins(h) /\ Has(p) /\ \E note \in BOOLEAN : basket' = [basket EXCEPT !.lines[p].note = note]
  /\ Excused("note") /\ UNCHANGED <<stored, held, parked, hand>>

DiscountCart(h, pct, amt) == Changes(h, Recalculated([basket EXCEPT !.pct = pct, !.amt = amt]))
SetCustomer(h, who, balance) == Changes(h, [basket EXCEPT !.customer = who, !.balance = balance])
SetCartNote(h) == \E note \in BOOLEAN : Changes(h, [basket EXCEPT !.note = note])
Clear(h) == Changes(h, [EmptyCart EXCEPT !.customer = basket.customer, !.balance = basket.balance])

\* The row is deleted without the lock.
ClearAll(h) ==
  /\ Begins(h) /\ basket' = EmptyCart /\ Then(h, "deleting")
  /\ UNCHANGED <<stored, held, parked, cartHistory>>
ClearActiveCart(h) ==
  /\ Doing(h, "deleting") /\ stored' = NoCart /\ Rests(h)
  /\ IF HasLines(basket) THEN Excused("deleted-under-a-change") ELSE cartHistory' = cartHistory \ {"not-written"}
  /\ UNCHANGED <<basket, held, parked, calls>>

SlipSkipsPersist(h) ==
  /\ Doing(h, "persisting") /\ Rests(h) /\ UNCHANGED <<basket, stored, held, parked, calls, cartHistory>>
Persist(h) ==
  /\ Doing(h, "persisting") /\ stored' = basket /\ Rests(h) /\ cartHistory' = cartHistory \ Lapses
  /\ UNCHANGED <<basket, held, parked, calls>>

\* The row was not saved, or not deleted: the call only logs it.
NotWritten(h) ==
  /\ Doing(h, "persisting") \/ Doing(h, "deleting")
  /\ Rests(h) /\ Excused("not-written") /\ UNCHANGED <<basket, stored, held, parked, calls>>

\* A crash, then restore: a cart without lines is not restored, nor one that
\* cannot be read.
Restarts ==
  /\ calls < MaxCalls /\ calls' = calls + 1
  /\ \E read \in BOOLEAN :
       LET lost == HasLines(stored) /\ ~read IN
       /\ basket' = IF HasLines(stored) /\ read THEN stored ELSE EmptyCart
       /\ cartHistory' = (cartHistory \ Lapses) \cup IF lost THEN {"not-read"} ELSE {}
  /\ hand' = [h \in Hands |-> Resting]
  /\ held' = [d \in Drafts |-> IF \E h \in Hands : hand[h].id = d /\ hand[h].at \in {"emptying", "replacing"}
                               THEN [held[d] EXCEPT !.died = TRUE] ELSE held[d]]
  /\ UNCHANGED <<stored, parked>>

-----------------------------------------------------------------------------
(* DraftService.  total, told, given and died are history.                 *)

NoDraft == [st |-> "none", row |-> EmptyCart, total |-> 0, told |-> FALSE, given |-> 0, died |-> FALSE]
Live == {d \in Drafts : held[d].st = "live"}
InTable(d) == held[d].st \in {"live", "expired"}

SlipDropsTheDiscount(c) == [c EXCEPT !.balance = 0, !.pct = 0]
\* to_db_row: everything but the customer's balance.
ToRow(c) == [c EXCEPT !.balance = 0]
FromRow(r) == Recalculated(r)

\* save_cart reads the count, then inserts.
SlipIgnoresTheLimit(h) ==
  /\ Begins(h) /\ HasLines(basket) /\ hand' = [hand EXCEPT ![h] = [Resting EXCEPT !.at = "saving", !.cart = basket]]
  /\ UNCHANGED <<basket, stored, held, parked, cartHistory>>
SaveCart(h) ==
  /\ Begins(h) /\ HasLines(basket) /\ Cardinality(Live) < MaxDrafts
  /\ hand' = [hand EXCEPT ![h] = [Resting EXCEPT !.at = "saving", !.cart = basket]]
  /\ IF \E g \in Hands : Doing(g, "saving") THEN Excused("two-saves") ELSE UNCHANGED cartHistory
  /\ UNCHANGED <<basket, stored, held, parked>>
SaveDraft(h, d) ==
  /\ Doing(h, "saving") /\ held[d] = NoDraft /\ Rests(h)
  /\ held' = [held EXCEPT ![d] = [NoDraft EXCEPT !.st = "live", !.row = ToRow(hand[h].cart),
                                               !.total = hand[h].cart.sums.grand, !.told = TRUE]]
  /\ UNCHANGED <<basket, stored, parked, calls, cartHistory>>

\* recall_and_delete, and the cart then replaces the one being rung up.
Recall(h, d) ==
  /\ Begins(h) /\ held[d].st = "live"
  /\ hand' = [hand EXCEPT ![h] = [at |-> "emptying", id |-> d, cart |-> FromRow(held[d].row)]]
  /\ IF \E g \in Hands : hand[g].id = d /\ Doing(g, "emptying") THEN Excused("two-recalls") ELSE UNCHANGED cartHistory
  /\ UNCHANGED <<basket, stored, held, parked>>
SlipKeepsTheRow(h) ==
  /\ Doing(h, "emptying") /\ Then(h, "replacing")
  /\ UNCHANGED <<basket, stored, held, parked, calls, cartHistory>>
DeleteRecalled(h) ==
  /\ Doing(h, "emptying") /\ Then(h, "replacing") /\ held' = [held EXCEPT ![hand[h].id].st = "gone"]
  /\ UNCHANGED <<basket, stored, parked, calls, cartHistory>>
ReplaceCart(h) ==
  /\ Doing(h, "replacing") /\ basket' = Recalculated(hand[h].cart)
  /\ hand' = [hand EXCEPT ![h] = [Resting EXCEPT !.at = "persisting"]]
  /\ held' = [d \in Drafts |-> IF d = hand[h].id THEN [held[d] EXCEPT !.given = @ + 1] ELSE held[d]]
  /\ UNCHANGED <<stored, parked, calls, cartHistory>>

\* rename reads the row, expired or not, and writes it back.
Rename(h, d) ==
  /\ Begins(h) /\ InTable(d)
  /\ hand' = [hand EXCEPT ![h] = [at |-> "renaming", id |-> d, cart |-> FromRow(held[d].row)]]
  /\ UNCHANGED <<basket, stored, held, parked, cartHistory>>
SaveRenamed(h) ==
  LET d == hand[h].id IN
  /\ Doing(h, "renaming") /\ Rests(h)
  /\ held' = [held EXCEPT ![d].row = ToRow(hand[h].cart), ![d].st = IF @ = "gone" THEN "live" ELSE @]
  /\ IF held[d].st = "gone" THEN Excused("renamed-back") ELSE UNCHANGED cartHistory
  /\ UNCHANGED <<basket, stored, parked, calls>>

\* delete, and cleanup_expired of the expired ones.
DeleteDraft(h, d) ==
  /\ Begins(h) /\ InTable(d) /\ held' = [held EXCEPT ![d].st = "gone", ![d].told = FALSE]
  /\ UNCHANGED <<basket, stored, parked, hand, cartHistory>>
SlipCleansEverything(h) ==
  /\ Begins(h) /\ held' = [d \in Drafts |-> IF InTable(d) THEN [held[d] EXCEPT !.st = "gone"] ELSE held[d]]
  /\ UNCHANGED <<basket, stored, parked, hand, cartHistory>>
CleanupExpired(h) ==
  /\ Begins(h)
  /\ held' = [d \in Drafts |-> IF held[d].st = "expired" THEN [held[d] EXCEPT !.st = "gone", !.told = FALSE]
                                                         ELSE held[d]]
  /\ UNCHANGED <<basket, stored, parked, hand, cartHistory>>
\* 24 hours later.
Expires(d) ==
  /\ calls < MaxCalls /\ calls' = calls + 1 /\ held[d].st = "live" /\ held' = [held EXCEPT ![d].st = "expired"]
  /\ UNCHANGED <<basket, stored, parked, hand, cartHistory>>

-----------------------------------------------------------------------------
(* The parking calls.  This till's and another's; the platform's lock is   *)
(* known from the calls alone.                                             *)

Tills == {"this", "other"}
NoPark == [st |-> "none", by |-> "none", lines |-> EmptyCart.lines, customer |-> "none", note |-> FALSE,
           total |-> 0, plain |-> FALSE, holds |-> {}, unsure |-> FALSE]

\* The request has no discount of the cart, and a line does not say that its
\* price includes tax.  What the platform makes of a line's amount is not to be
\* seen here: it takes it off per unit or per line, and its answer says the
\* amount asked, or what was taken off.
Conventions == [per : {"unit", "line"}, says : {"asked", "taken"}]
TakenOff(l, how) == IF l.pct > 0 THEN (Gross(l) * l.pct) \div 100
                    ELSE IF how.per = "unit" THEN l.amt * l.qty ELSE l.amt
Answered(l, how) ==
  LET sub == Gross(l) - TakenOff(l, how) IN
  [qty |-> l.qty, pct |-> l.pct, said |-> IF how.says = "asked" THEN l.amt ELSE TakenOff(l, how), note |-> l.note,
   sub |-> sub, tax |-> (sub * TaxRate) \div 100]
\* cart_from_parked_response: the figures are the answer's, and what it says of
\* the discount is at once the amount per unit and what was taken off the line.
FromAnswer(a) == IF a.qty = 0 THEN NoLine
                 ELSE [NoLine EXCEPT !.qty = a.qty, !.pct = a.pct, !.amt = a.said, !.disc = a.said,
                                     !.note = a.note, !.sub = a.sub, !.tax = a.tax, !.theirs = TRUE]
FromParked(k) == Recalculated([EmptyCart EXCEPT !.lines = [p \in Products |-> FromAnswer(parked[k].lines[p])],
                                                !.customer = parked[k].customer, !.note = parked[k].note])
PlainCart(c, how) ==
  /\ c.pct = 0 /\ c.amt = 0
  /\ \A p \in Products : LET l == c.lines[p] IN
       ~l.incl /\ ~l.theirs /\ (l.amt = 0 \/ l.pct > 0 \/ how.per = "unit")

ParkCart(h, k) ==
  /\ Begins(h) /\ HasLines(basket) /\ parked[k] = NoPark
  /\ \E how \in Conventions :
       parked' = [parked EXCEPT ![k] = [NoPark EXCEPT !.st = "PARKED", !.customer = basket.customer,
                    !.lines = [p \in Products |-> Answered(basket.lines[p], how)], !.note = basket.note,
                    !.total = basket.sums.grand, !.plain = PlainCart(basket, how)]]
  /\ UNCHANGED <<basket, stored, held, hand, cartHistory>>

\* A soft lock: another till recalls it only by force.  The cart reaches the
\* till if the answer does.
SlipIgnoresTheLock(t, k, force) ==
  /\ calls < MaxCalls /\ calls' = calls + 1 /\ parked[k].st \in {"PARKED", "RECALLED"}
  /\ parked' = [parked EXCEPT ![k].st = "RECALLED", ![k].by = t, ![k].holds = @ \cup {t}]
  /\ UNCHANGED <<basket, stored, held, hand, cartHistory>>
RecallParked(t, k, force) ==
  /\ calls < MaxCalls /\ calls' = calls + 1
  /\ parked[k].st = "PARKED" \/ (parked[k].st = "RECALLED" /\ (parked[k].by = t \/ force))
  /\ \E heard \in BOOLEAN :
       parked' = [parked EXCEPT ![k].st = "RECALLED", ![k].by = t,
                    ![k].holds = IF heard THEN @ \cup {t} ELSE @,
                    ![k].unsure = @ \/ (force /\ parked[k].by \notin {t, "none"})]
  /\ UNCHANGED <<basket, stored, held, hand, cartHistory>>
ReplaceByParked(h, k) ==
  /\ Begins(h) /\ "this" \in parked[k].holds /\ basket' = FromParked(k) /\ Then(h, "persisting")
  /\ UNCHANGED <<stored, held, parked, cartHistory>>

\* release_parked_cart: a till that does not hear the answer keeps the cart.
ReleaseParked(t, k) ==
  /\ calls < MaxCalls /\ calls' = calls + 1 /\ parked[k].st = "RECALLED" /\ parked[k].by = t
  /\ \E heard \in BOOLEAN :
       parked' = [parked EXCEPT ![k].st = "PARKED", ![k].by = "none",
                    ![k].holds = IF heard THEN @ \ {t} ELSE @, ![k].unsure = @ \/ ~heard]
  /\ UNCHANGED <<basket, stored, held, hand, cartHistory>>
VoidParked(k) ==
  /\ calls < MaxCalls /\ calls' = calls + 1 /\ parked[k].st \in {"PARKED", "RECALLED"}
  /\ parked' = [parked EXCEPT ![k].st = "VOIDED"]
  /\ UNCHANGED <<basket, stored, held, hand, cartHistory>>

-----------------------------------------------------------------------------
CartInit ==
  /\ basket = EmptyCart /\ stored = NoCart /\ held = [d \in Drafts |-> NoDraft]
  /\ parked = [k \in Parks |-> NoPark] /\ hand = [h \in Hands |-> Resting]
  /\ calls = 0 /\ cartHistory = {}

\* 24 is more than a unit costs: the code has no upper bound on an amount.
Discounts == {<<0, 0>>, <<50, 0>>, <<0, 24>>}
RingsUp(h) ==
  \/ \E p \in Products : \/ \E q \in 1..MaxQuantity : AddItem(h, p, q) \/ UpdateQuantity(h, p, q - 1)
                         \/ Increment(h, p) \/ Decrement(h, p) \/ RemoveItem(h, p) \/ SetItemNote(h, p)
                         \/ \E d \in Discounts : DiscountItem(h, p, d[1], d[2])
  \/ \E d \in Discounts : DiscountCart(h, d[1], d[2])
Attends(h) == SetCustomer(h, "c", 1) \/ SetCustomer(h, "none", 0) \/ SetCartNote(h) \/ Clear(h)
Empties(h) == ClearAll(h) \/ ClearActiveCart(h)
Holds(h) ==
  \/ SaveCart(h) \/ DeleteRecalled(h) \/ ReplaceCart(h) \/ SaveRenamed(h) \/ CleanupExpired(h)
  \/ \E d \in Drafts : SaveDraft(h, d) \/ Recall(h, d) \/ Rename(h, d) \/ DeleteDraft(h, d)
Parking ==
  \/ \E h \in Hands, k \in Parks : ParkCart(h, k) \/ ReplaceByParked(h, k)
  \/ \E t \in Tills, k \in Parks : (\E force \in BOOLEAN : RecallParked(t, k, force)) \/ ReleaseParked(t, k)
  \/ \E k \in Parks : VoidParked(k)

CartNext ==
  \/ \E h \in Hands : RingsUp(h) \/ Attends(h) \/ Empties(h) \/ Persist(h) \/ NotWritten(h) \/ Holds(h)
  \/ Restarts \/ Parking \/ \E d \in Drafts : Expires(d)

CartSpec == CartInit /\ [][CartNext]_cartVars

-----------------------------------------------------------------------------
LineType == [qty : 0..MaxQuantity, pct : {0, 50}, amt : Nat, incl : BOOLEAN, note : BOOLEAN,
             disc : Nat, sub : Int, tax : Int, theirs : BOOLEAN]
IsCart(c) ==
  /\ c.lines \in [Products -> LineType] /\ c.pct \in {0, 50} /\ c.amt \in {0, 24} /\ c.sums.grand \in Nat
  /\ \A p \in Products : c.lines[p].qty = 0 => c.lines[p] = NoLine
CartTypeOK ==
  /\ \A c \in {basket, stored} \cup {held[d].row : d \in Drafts} \cup {hand[h].cart : h \in Hands} : IsCart(c)
  /\ \A d \in Drafts : held[d].st \in {"none", "live", "expired", "gone"}
  /\ \A k \in Parks : parked[k].st \in {"none", "PARKED", "RECALLED", "VOIDED"} /\ parked[k].holds \subseteq Tills
  /\ \A h \in Hands : hand[h].at \in
       {"idle", "persisting", "deleting", "saving", "emptying", "replacing", "renaming"}

\* What the customer is asked is the lines' amounts with their tax, less the
\* discount of the cart, and never below nothing; and the amounts of a line are
\* what its quantity and its discount come to - after any order of changes, a
\* restart, and a cart brought back.  A line brought back from the platform is
\* at the platform's figures until it is changed.
Asked(c) == SubtotalsOf(c.lines) + TaxesOf(c.lines) - CartDiscount(c)
SumsAreCurrent ==
  \A c \in {basket, stored} :
    /\ c.sums.grand = IF Asked(c) < 0 THEN 0 ELSE Asked(c)
    /\ \A p \in Products : c.lines[p].theirs \/ c.lines[p] = Priced(c.lines[p])

\* "a crash costs at most the last" change: with no call under way the disk
\* holds the cart in memory, but for what Lapses names.  A note set on a line is
\* not saved, the delete of clear_all may fall behind a change that overtook it,
\* and a write that fails, or a row that is not read after a crash, is logged.
CrashCostsTheLast ==
  (\A h \in Hands : Doing(h, "idle")) /\ cartHistory \cap Lapses = {} =>
    IF HasLines(basket) THEN stored = basket ELSE ~HasLines(stored)

\* A held cart is in the table, on its way to the till, or given back to it -
\* unless it was deleted or cleaned up, or the till died under the recall.
HeldCartKept ==
  \A d \in Drafts : held[d].told =>
    \/ InTable(d) \/ held[d].given > 0 \/ held[d].died
    \/ \E h \in Hands : hand[h].id = d /\ hand[h].at \in {"emptying", "replacing"}

\* A held cart is given back once and then is no longer held, unless two
\* recalls read the row before either deleted it, or a rename wrote it back.
HeldOnce ==
  \A d \in Drafts :
    /\ held[d].given > 0 /\ cartHistory \cap {"renamed-back", "two-recalls"} = {} => ~InTable(d)
    /\ held[d].given > 1 => cartHistory \cap {"renamed-back", "two-recalls"} # {}

\* MAX_DRAFTS_PER_OPERATOR, unless two saves counted before either inserted
\* or a rename wrote a deleted draft back.
DraftLimitHolds ==
  Cardinality(Live) <= MaxDrafts \/ cartHistory \cap {"two-saves", "renamed-back"} # {}

\* A cart comes back with the total it was put aside with: held, always; parked,
\* if it had no discount of its own, no price including tax and no line that was
\* at the platform's figures already, and where a line is less an amount, if the
\* platform takes that off per unit as the till does.
TotalSurvives ==
  /\ \A d \in Drafts : held[d].st # "none" => FromRow(held[d].row).sums.grand = held[d].total
  /\ \A k \in Parks : parked[k].plain => FromParked(k).sums.grand = parked[k].total

\* Two tills hold one parked cart only after a recall by force or a release
\* whose answer was not heard.
OneTillHolds == \A k \in Parks : Cardinality(parked[k].holds) <= 1 \/ parked[k].unsure

\* The cart on the screen says what it costs, and so does its copy on disk,
\* which is the cart but for its last change.
CartIsCurrent == CartTypeOK /\ SumsAreCurrent /\ CrashCostsTheLast

\* A cart put aside, held on this till or parked for another, comes back once,
\* at its price, and to one till.
CartsPutAside == HeldCartKept /\ HeldOnce /\ DraftLimitHolds /\ TotalSurvives /\ OneTillHolds
=============================================================================
