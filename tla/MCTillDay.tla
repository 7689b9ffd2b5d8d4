----------------------------- MODULE MCTillDay -----------------------------
(* The day of a till, one part of it at a time: its operators, the screens  *)
(* they may open, their shifts and cash, the closing of the day, the cart   *)
(* being rung up, the carts put aside, the counter where they are paid, the *)
(* returns of one sale, and the printer.                                    *)
EXTENDS TillDay, TillCart, Checkout, Printing, StaffRoster, Navigation, TLC
CONSTANTS Cashier, Off
VARIABLE part
Elder == CHOOSE o \in Staff : TRUE
MCInit == /\ DayInit /\ CartInit /\ CheckoutInit
          /\ part \in {"cash", "closing", "ringing", "holding", "parking", "counter", "returns",
                       "printing", "staff", "screens"}
          /\ StaffInit /\ \A o \in Staff : profiles[o].name = "named" \/ (part = "staff" /\ o = Elder)
          /\ NavInit /\ (part = "screens" \/ state = [f \in Features |-> IF f = Off THEN "off" ELSE "on"])
          /\ PrintInit /\ (part = "printing" \/ hasPrinter)
Day == \/ Trade \/ Restart
       \/ part = "cash" /\ (Till \/ \E t \in Clerks : ShiftCall(t))
       \/ part = "closing" /\ \/ Generate /\ \A t \in Clerks : Busy(t, "idle")
                              \/ Midnights \/ \E t \in Clerks : ReportCall(t)
                              \/ ShiftCall(Cashier) /\ UNCHANGED issued
Fills(h) == (\E p \in Products : AddItem(h, p, 1)) \/ \E d \in Discounts : DiscountCart(h, d[1], d[2])
CartMoves ==
        \/ \E h \in Hands : Persist(h) \/ Empties(h) \/ Fills(h)
        \/ part \in {"ringing", "parking"} /\ \E h \in Hands : RingsUp(h)
        \/ part = "ringing" /\ (Restarts \/ \E h \in Hands : Attends(h) \/ NotWritten(h))
        \/ part = "holding" /\ (Restarts \/ (\E h \in Hands : Holds(h)) \/ \E d \in Drafts : Expires(d))
        \/ part = "parking" /\ Parking
Cart == CartMoves /\ (part = "ringing" => calls' < MaxCalls)   \* it has the most kinds of change
\* Of all but one operator the platform changes only whether he is there and active.
Desk == StaffNext /\ \A o \in Staff \ {Elder} :
          LET was == profiles[o] IN profiles'[o] = [was EXCEPT !.listed = profiles'[o].listed, !.active = profiles'[o].active]
Sells == \/ part = "counter" /\ \/ CreateFromCart \/ Void \/ CounterRestarts \/ \E i \in Sales : Ages(i)
                                \/ \E amount \in 1..Sold : AddPayment(amount)
                                \/ \E t \in Tellers : Complete(t) \/ CompleteEnds(t)
         \/ part = "returns" /\ \/ taken = <<>> /\ CreateFromCart
                                \/ AddPayment(Sold) \/ \E i \in Sales \cup Returns : Ages(i)
                                \/ \E t \in Tellers : Counter(t)
Turn(parts, next, vars) == IF part \in parts THEN next ELSE UNCHANGED vars
MCNext == /\ UNCHANGED part
          /\ Turn({"cash", "closing"}, Day, dayVars)
          /\ Turn({"ringing", "holding", "parking"}, Cart, cartVars)
          /\ Turn({"counter", "returns"}, Sells, checkoutVars)
          /\ Turn({"printing"}, PrintNext, printVars) /\ Turn({"staff"}, Desk, staffVars)
          /\ Turn({"screens"}, NavNext, navVars)
MCSpec == MCInit /\ [][MCNext]_<<dayVars, cartVars, checkoutVars, printVars, staffVars, navVars, part>>
=============================================================================
