----------------------------- MODULE SaleCustody -----------------------------
(***************************************************************************)
(* What the till owes for every sale it has taken money for, whatever the  *)
(* queue, the network and the manager do: somebody answers for it.  The    *)
(* till keeps a sale, the platform records it, or a manager waives it; the *)
(* till takes a sale into its keeping before the platform can have it, and *)
(* lets go of it only when somebody else answers for it.                   *)
(*                                                                         *)
(* The comment "this ensures we never lose a paid transaction" of          *)
(* transaction_service.rs, as a specification.  OfflineQueue implements it.*)
(***************************************************************************)
CONSTANT Sales

VARIABLES
  kept,      \* sales the till still has to deliver or to have resolved
  taken,     \* sales the till ever took into its keeping
  recorded,  \* sales the platform has
  waived     \* sales a manager gave up

custody == <<kept, taken, recorded, waived>>

Init == kept = {} /\ taken = {} /\ recorded = {} /\ waived = {}

\* A new sale, or one that is completed, voided or reset a second time.
Take(s) ==
  /\ kept' = kept \cup {s} /\ taken' = taken \cup {s}
  /\ UNCHANGED <<recorded, waived>>

Reopen(s) ==
  /\ s \in taken
  /\ kept' = kept \cup {s}
  /\ UNCHANGED <<taken, recorded, waived>>

Record(s) ==
  /\ s \in taken
  /\ recorded' = recorded \cup {s}
  /\ UNCHANGED <<kept, taken, waived>>

LetGo(s) ==
  /\ s \in recorded
  /\ kept' = kept \ {s}
  /\ UNCHANGED <<taken, recorded, waived>>

Waive(s) ==
  /\ s \in taken
  /\ waived' = waived \cup {s} /\ kept' \in {kept, kept \ {s}}
  /\ UNCHANGED <<taken, recorded>>

Next == \E s \in Sales :
  Take(s) \/ Reopen(s) \/ Record(s) \/ LetGo(s) \/ Waive(s)

Spec == Init /\ [][Next]_custody

SomebodyAnswers == taken \subseteq kept \cup recorded \cup waived
==============================================================================
