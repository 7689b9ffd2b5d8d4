---------------------------- MODULE ProductIndex ----------------------------
(***************************************************************************)
(* The products a synchronisation writes, the full-text index that three   *)
(* triggers keep beside the table, and the searches of the product service. *)
(* A product is saved by INSERT OR REPLACE: SQLite deletes the row in the  *)
(* way without firing the delete trigger and gives the new row another     *)
(* number, and numbers are reused once the last rows are gone.             *)
(*                                                                         *)
(* A product is indexed under one word of its name and under its barcode,  *)
(* which is its own; a query has a term whole, its start, its middle, or a *)
(* character that FTS5 reads as syntax.                                    *)
(***************************************************************************)
EXTENDS Integers, Sequences

CONSTANTS
  Goods,      \* products; each stands for its barcode as well
  Words,      \* of names
  MaxWrites   \* bound on the writes of synchronisations

ASSUME IndexAssumption == MaxWrites \in Nat /\ Goods \cap Words = {}

VARIABLES
  shelf,        \* the rows of products: their number, 0 for none
  postings,     \* products_fts: the terms each row number is listed under
  sized,        \* products_fts_docsize: the row numbers the index knows a size of
  overwritten,  \* history: the terms of rows a save wrote over
  writes

indexVars == <<shelf, postings, sized, overwritten, writes>>

Absent  == [number |-> 0, terms |-> {}, live |-> FALSE]
Stands(t, p) == t.rows[p].number # 0
Highest(t)   == CHOOSE n \in {0} \cup {t.rows[p].number : p \in Goods} :
                  \A p \in Goods : t.rows[p].number <= n

\* The three triggers, on the index alone, each run once for every row its
\* statement touches: rows that stand have numbers of their own, so that their
\* order does not matter.
Entries(rows) == UNION {{row.number} \X row.terms : row \in rows}
Numbers(rows) == {row.number : row \in rows}
InsertTrigger(t, rows) == [t EXCEPT !.postings = @ \cup Entries(rows), !.sized = @ \cup Numbers(rows)]
SlipKeepsTheEntry(t, rows) == [t EXCEPT !.sized = @ \ Numbers(rows)]
DeleteTrigger(t, rows) == [t EXCEPT !.postings = @ \ Entries(rows), !.sized = @ \ Numbers(rows)]
UpdateTrigger(t, old, new) == InsertTrigger(DeleteTrigger(t, old), new)

\* INSERT OR REPLACE: only the insert trigger runs.
Save(t, x) ==
  LET row == [number |-> Highest(t) + 1, terms |-> {x.id, x.word}, live |-> x.live] IN
  InsertTrigger([t EXCEPT !.rows[x.id] = row,
                          !.overwritten = @ \cup t.rows[x.id].terms], {row})
\* The rows of some products are deleted, or are live no more.
Standing(t, some) == {t.rows[p] : p \in {q \in some : Stands(t, q)}}
Retired(row) == [row EXCEPT !.live = FALSE]
Delist(t, some) ==
  [DeleteTrigger(t, Standing(t, some)) EXCEPT !.rows = [p \in Goods |-> IF p \in some THEN Absent ELSE @[p]]]
Retire(t, some) ==
  [UpdateTrigger(t, Standing(t, some), {Retired(row) : row \in Standing(t, some)})
     EXCEPT !.rows = [p \in Goods |-> IF p \in some THEN Retired(@[p]) ELSE @[p]]]

-----------------------------------------------------------------------------
\* Each write is one statement or one transaction under the connection's lock.
Write(t) == /\ writes < MaxWrites /\ writes' = writes + 1
            /\ shelf' = t.rows /\ postings' = t.postings
            /\ sized' = t.sized /\ overwritten' = t.overwritten
Held == [rows |-> shelf, postings |-> postings, sized |-> sized, overwritten |-> overwritten]

\* A batch of one or of two, in the order of the answer.
SaveProducts(list) ==
  Write(IF Len(list) = 1 THEN Save(Held, list[1]) ELSE Save(Save(Held, list[1]), list[2]))
DeleteProducts(some)  == Write(Delist(Held, some))
\* The full download empties the table first; a wipe empties it too.
DeleteAllProducts     == Write(Delist(Held, Goods))
DeactivateAllProducts == Write(Retire(Held, Goods))

-----------------------------------------------------------------------------
Queries == [how : {"whole", "start", "middle", "syntax"}, term : Words \cup Goods]
Live == {p \in Goods : shelf[p].live}
Matches(q) == {p \in Live : q.term \in shelf[p].terms}

Failed   == [failed |-> TRUE, found |-> {}]
Found(s) == [failed |-> FALSE, found |-> s]

\* search_products_fts: the query goes to FTS5 as it was typed, and ranking a
\* listed row whose size is gone is an error.
SearchFts(q) ==
  LET listed == {n \in sized \cup {e[1] : e \in postings} : q.how # "middle" /\ <<n, q.term>> \in postings} IN
  IF q.how = "syntax" \/ ~(listed \subseteq sized) THEN Failed
  ELSE Found({p \in Live : shelf[p].number \in listed})

\* The whole text is tried as a barcode first.
Search(q) == IF q.how = "whole" /\ q.term \in Live THEN Found({q.term}) ELSE SearchFts(q)

\* LIKE is asked only when the index answers with nothing.
SmartSearch(q) == IF Search(q) = Found({}) THEN Found(Matches(q)) ELSE Search(q)

IndexInit ==
  /\ shelf = [p \in Goods |-> Absent] /\ postings = {} /\ sized = {} /\ overwritten = {} /\ writes = 0
Batches == LET one == [id : Goods, word : Words, live : BOOLEAN] IN
           {<<x>> : x \in one} \cup {<<x, y>> : x, y \in one}
IndexNext ==
  \/ \E list \in Batches : SaveProducts(list)
  \/ \E some \in (SUBSET Goods) \ {{}} : DeleteProducts(some)
  \/ DeleteAllProducts \/ DeactivateAllProducts
IndexSpec == IndexInit /\ [][IndexNext]_indexVars

-----------------------------------------------------------------------------
\* What is on the shelf is found by its word and by its barcode, and nothing
\* else is found, by every history of saves, deletions and reused numbers,
\* except under a term that a save wrote over: there the index may name another
\* product, or fail.  A query FTS5 cannot parse fails as well.
SearchIsTrue == \A q \in Queries :
  LET answer == SmartSearch(q) IN
  IF answer.failed THEN q.how = "syntax" \/ q.term \in overwritten
  ELSE /\ Matches(q) \subseteq answer.found
       /\ answer.found \subseteq Matches(q) \/ q.term \in overwritten
=============================================================================
