------------------------------ MODULE Checkout ------------------------------
(***************************************************************************)
(* The counter: one transaction in memory, the money taken for it, the     *)
(* receipt and the row of a completed sale, and the returns of what a       *)
(* receipt finds.  complete() and process_return() await the platform with  *)
(* nothing held, so every other call may come in between.                   *)
(*                                                                          *)
(* A sale is one line of Sold pieces at a price of one.  Sales have the ids  *)
(* 1..MaxSales, returns those above, as rows of one table.                   *)
(***************************************************************************)
EXTENDS Integers, Sequences, FiniteSets, Functions

CONSTANTS
  Tellers,     \* calls that may be under way
  MaxSales, MaxReturns, MaxReceipts   \* bounds on sales, returns and receipt numbers

ASSUME CheckoutAssumption == MaxSales \in Nat /\ MaxReturns \in Nat /\ MaxReceipts \in Nat

VARIABLES
  till,         \* current_transaction: the sale and what was paid for it
  book,         \* rows of offline_transactions
  nextReceipt,  \* receipt_sequence
  teller,       \* a call of complete() or of a return, with what it read
  receipts,     \* history: the receipts handed out
  taken,        \* history: the money taken for each sale
  strays        \* history: sales the code lost sight of, and why

checkoutVars == <<till, book, nextReceipt, teller, receipts, taken, strays>>

Sold    == 2
Sales   == 1..MaxSales
Returns == (MaxSales + 1)..(MaxSales + MaxReturns)
NoSale  == [sale |-> 0, paid |-> 0]
NoRow   == [st |-> "none", receipt |-> 0, pieces |-> 0, paid |-> 0, of |-> 0, entries |-> 0]
Away    == [at |-> "idle", sale |-> 0, receipt |-> 0]

Stored(i)   == book[i].st \notin {"none", "gone"}
Serving(t, stage) == teller[t].at = stage
ReturnsOf(s) == {r \in Returns : book[r].st # "none" /\ book[r].of = s}

\* What is dropped from memory strays unless its row holds all of it.
Strays(why) ==
  IF till.sale = 0 \/ till.paid = 0 \/ book'[till.sale].paid = till.paid THEN {}
  ELSE {[sale |-> till.sale, why |-> why]}

-----------------------------------------------------------------------------
\* create_from_cart replaces whatever transaction there is.
CreateFromCart ==
  /\ Len(taken) < MaxSales /\ taken' = Append(taken, 0)
  /\ till' = [sale |-> Len(taken) + 1, paid |-> 0]
  /\ UNCHANGED <<book, nextReceipt, teller, receipts>>
  /\ strays' = strays \cup Strays("replaced")

\* add_payment and its kinds: the payment is appended, whatever is due.
AddPayment(amount) ==
  /\ till.sale # 0 /\ till.paid + amount <= Sold + 1
  /\ till' = [till EXCEPT !.paid = @ + amount] /\ taken' = [taken EXCEPT ![till.sale] = @ + amount]
  /\ UNCHANGED <<book, nextReceipt, teller, receipts, strays>>

\* The sale's row, by its own id: a second completion writes it anew.
QueueOffline(receipt) ==
  book' = [book EXCEPT ![till.sale] =
             [NoRow EXCEPT !.st = "PENDING", !.receipt = receipt, !.pieces = Sold, !.paid = till.paid]]

IsFullyPaid == till.paid >= Sold

SlipClearsFirst(t) ==
  /\ Serving(t, "idle") /\ till.sale # 0 /\ IsFullyPaid /\ nextReceipt < MaxReceipts
  /\ nextReceipt' = nextReceipt + 1 /\ till' = NoSale
  /\ \/ QueueOffline(nextReceipt)
        /\ teller' = [teller EXCEPT ![t] = [at |-> "sending", sale |-> till.sale, receipt |-> nextReceipt]]
     \/ UNCHANGED <<book, teller>>
  /\ UNCHANGED <<receipts, taken, strays>>

\* A number, then the row, which may be refused; then the platform is asked.
Complete(t) ==
  /\ Serving(t, "idle") /\ till.sale # 0 /\ IsFullyPaid /\ nextReceipt < MaxReceipts
  /\ nextReceipt' = nextReceipt + 1
  /\ \/ QueueOffline(nextReceipt)
        /\ teller' = [teller EXCEPT ![t] = [at |-> "sending", sale |-> till.sale, receipt |-> nextReceipt]]
        /\ strays' = strays \cup (IF book[till.sale].st = "none" THEN {}
                                  ELSE {[sale |-> till.sale, why |-> "completed-twice"]})
     \/ UNCHANGED <<book, teller, strays>>
  /\ UNCHANGED <<till, receipts, taken>>

\* What the platform said goes into the row, if it can be written.
Marked(i, st) == book' = IF Stored(i) THEN [book EXCEPT ![i].st = st] ELSE book

\* Whatever transaction is current then is cleared.
CompleteEnds(t) ==
  /\ Serving(t, "sending")
  /\ \/ UNCHANGED book
     \/ Marked(teller[t].sale, "SYNCED") \/ Marked(teller[t].sale, "FAILED")
  /\ receipts' = receipts \cup {[sale |-> teller[t].sale, no |-> teller[t].receipt]}
  /\ till' = NoSale /\ teller' = [teller EXCEPT ![t] = Away]
  /\ strays' = strays \cup Strays(IF till.sale = teller[t].sale THEN "paid-late" ELSE "cleared-by-another")
  /\ UNCHANGED <<nextReceipt, taken>>

\* The money is given back.
Void ==
  /\ till.sale # 0 /\ till' = NoSale
  /\ UNCHANGED <<book, nextReceipt, teller, receipts, taken>> /\ strays' = strays \cup Strays("voided")

-----------------------------------------------------------------------------
SlipReturnsReturns(i) == Stored(i)

\* can_return: not of a return.  No row says that its sale was voided or
\* returned: check_eligibility reads those out of sync_status.
CanReturn(i) == Stored(i) /\ i \in Sales

\* The till's own rows first, then the platform's, which numbers receipts
\* for itself.
FindTransaction(t, no) ==
  /\ Serving(t, "idle")
  /\ \E i \in Sales \cup Returns :
       /\ IF \E j \in Sales \cup Returns : Stored(j) /\ book[j].receipt = no
          THEN book[i].receipt = no /\ CanReturn(i)
          ELSE i \in Sales /\ book[i].st \in {"SYNCED", "gone"}
       /\ teller' = [teller EXCEPT ![t] = [at |-> "found", sale |-> i, receipt |-> 0]]
  /\ UNCHANGED <<till, book, nextReceipt, receipts, taken, strays>>

SlipOnlyChecksTheSign(entries) == entries # <<>> /\ \A k \in DOMAIN entries : entries[k] > 0

\* Each entry against the quantity sold, one at a time.
ValidateReturnItems(entries) ==
  entries # <<>> /\ \A k \in DOMAIN entries : entries[k] > 0 /\ entries[k] <= Sold

\* A row of its own, with pieces below zero.
ProcessReturn(t, entries) ==
  /\ Serving(t, "found") /\ ValidateReturnItems(entries)
  /\ \E r \in Returns :
       /\ book[r].st = "none" /\ \A q \in Returns : q < r => book[q].st # "none"
       /\ book' = [book EXCEPT ![r] =
            [NoRow EXCEPT !.st = "PENDING", !.receipt = MaxReceipts + r, !.of = teller[t].sale,
                          !.pieces = -SumFunctionOnSet(entries, DOMAIN entries),
                          !.entries = Len(entries)]]
       /\ teller' = [teller EXCEPT ![t] = [at |-> "refunding", sale |-> r, receipt |-> 0]]
  /\ UNCHANGED <<till, nextReceipt, receipts, taken, strays>>

ReturnRefused(t) ==
  /\ Serving(t, "found") /\ teller' = [teller EXCEPT ![t] = Away]
  /\ UNCHANGED <<till, book, nextReceipt, receipts, taken, strays>>

SyncReturn(t) ==
  /\ Serving(t, "refunding") /\ teller' = [teller EXCEPT ![t] = Away]
  /\ \/ UNCHANGED book
     \/ Marked(teller[t].sale, "SYNCED") \/ Marked(teller[t].sale, "FAILED")
  /\ UNCHANGED <<till, nextReceipt, receipts, taken, strays>>

-----------------------------------------------------------------------------
\* The drain uploads a row, the cleanup forgets it.
Ages(i) ==
  /\ Stored(i) /\ book' = [book EXCEPT ![i].st = IF @ = "SYNCED" THEN "gone" ELSE "SYNCED"]
  /\ UNCHANGED <<till, nextReceipt, teller, receipts, taken, strays>>

\* The rows survive; receipts are numbered from one again.
CounterRestarts ==
  /\ [sale |-> 0, why |-> "numbered-anew"] \notin strays
  /\ till' = NoSale /\ nextReceipt' = 1 /\ teller' = [t \in Tellers |-> Away]
  /\ UNCHANGED <<book, receipts, taken>>
  /\ strays' = strays \cup Strays("restarted") \cup {[sale |-> 0, why |-> "numbered-anew"]}

CheckoutInit ==
  /\ till = NoSale /\ book = [i \in Sales \cup Returns |-> NoRow] /\ nextReceipt = 1
  /\ teller = [t \in Tellers |-> Away] /\ receipts = {} /\ taken = <<>> /\ strays = {}

Entries == {<<>>} \cup {<<q>> : q \in 0..(Sold + 1)} \cup {<<q, Sold>> : q \in 1..Sold}
Counter(t) ==
  \/ Complete(t) \/ CompleteEnds(t) \/ ReturnRefused(t) \/ SyncReturn(t)
  \/ \E no \in 1..(MaxReceipts + MaxSales + MaxReturns) : FindTransaction(t, no)
  \/ \E entries \in Entries : ProcessReturn(t, entries)
CheckoutNext ==
  \/ CreateFromCart \/ (\E amount \in 1..Sold : AddPayment(amount)) \/ Void \/ CounterRestarts
  \/ (\E i \in Sales \cup Returns : Ages(i)) \/ \E t \in Tellers : Counter(t)
CheckoutSpec == CheckoutInit /\ [][CheckoutNext]_checkoutVars

-----------------------------------------------------------------------------
\* Money taken for a sale is in the transaction at the counter or in the row of
\* the sale, unless the sale strayed: voided, replaced or cleared by another,
\* paid while it was being completed, or lost with the memory.
MoneyIsAccounted ==
  \A s \in DOMAIN taken :
    \/ taken[s] = 0 \/ till = [sale |-> s, paid |-> taken[s]] \/ book[s].paid = taken[s]
    \/ \E w \in strays : w.sale = s /\ w.why # "completed-twice"

\* A receipt handed out finds its sale and no other, unless the numbers began
\* anew, or the sale was completed twice and kept the later receipt.
ReceiptFindsItsSale ==
  \A h \in receipts :
    /\ [sale |-> 0, why |-> "numbered-anew"] \notin strays =>
         \A i \in Sales \cup Returns : Stored(i) /\ book[i].receipt = h.no => i = h.sale
    /\ [sale |-> h.sale, why |-> "completed-twice"] \notin strays => book[h.sale].receipt = h.no

\* A return is not returned itself.
ReturnsAreOfSales == \A r \in Returns : book[r].st # "none" => book[r].of \in Sales

\* More is returned than was sold only by naming the line more than once, in
\* one return or over several.
ReturnedWithinSold ==
  \A s \in Sales :
    SumFunctionOnSet([r \in Returns |-> -book[r].pieces], ReturnsOf(s))
      <= Sold * SumFunctionOnSet([r \in Returns |-> book[r].entries], ReturnsOf(s))

\* The counter accounts for money and goods: what was taken is on record, a
\* receipt is that of one sale, and what is given back was sold.
CounterAccounts == MoneyIsAccounted /\ ReceiptFindsItsSale /\ ReturnsAreOfSales /\ ReturnedWithinSold
=============================================================================
