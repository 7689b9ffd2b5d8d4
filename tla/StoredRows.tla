----------------------------- MODULE StoredRows -----------------------------
(***************************************************************************)
(* How a row is written and read back: one declaration of fields gives the  *)
(* columns of the insertion, the bound values and the cursor that reads     *)
(* them; what happens when the key exists belongs to the table; a batch is   *)
(* one transaction; one guard, which is not reentrant, is held by each call. *)
(*                                                                          *)
(* One table and, for features, the screens that a deletion cascades to.    *)
(* `promise` is the abstract store: what a caller that was told "written"   *)
(* may rely on.                                                             *)
(***************************************************************************)
EXTENDS Integers, Sequences, Functions

CONSTANTS
  Writers, RowKeys, Screens, Null,
  MaxCallsMade   \* bound on calls

ASSUME RowsAssumption ==
  MaxCallsMade \in Nat /\ Null \notin Writers \cup {"latin", "arabic", "good", "service"}

VARIABLES
  declared,   \* the fields in the order a mapping declares them, and its disposition
  store,      \* the rows, the screens, the next id
  journal,    \* what an open transaction would roll back to
  guard,      \* the writer that holds the connection
  writer,     \* what a writer is about
  promise,    \* history: what was committed, in the terms of the callers
  callsMade

rowVars == <<declared, store, journal, guard, writer, promise, callsMade>>

\* A name is one value in two columns, the second of which may be NULL.
Fields  == {"key", "name", "kind"}
ColumnsOf(f) == CASE f = "name" -> <<"name", "name_ar">> [] OTHER -> <<f>>
Values  == {[key |-> k, name |-> n, kind |-> IF n[2] = Null THEN "service" ELSE "good"] :
             k \in RowKeys, n \in {<<"latin", Null>>, <<"latin", "arabic">>}}

Encode(f, v) == CASE f = "key" -> <<v.key>> [] f = "name" -> v.name [] f = "kind" -> <<v.kind>>
Decode(f, cells) ==
  CASE f = "name" -> cells [] OTHER -> cells[1]
Field(i) == declared.fields[i]

\* The select list and the insertion name the same columns in the same order.
SelectList == ColumnsOf(Field(1)) \o ColumnsOf(Field(2)) \o ColumnsOf(Field(3))
Bind(v)    == Encode(Field(1), v) \o Encode(Field(2), v) \o Encode(Field(3), v)
Cells(v)   == [c \in Range(SelectList) |-> Bind(v)[CHOOSE i \in DOMAIN SelectList : SelectList[i] = c]]

SlipTakesOneColumn(i) == i - 1

\* The cursor: each field takes as many columns as it has, from where the one
\* before it stopped.
Taken(i) == CASE i = 1 -> 0
              [] i = 2 -> Len(ColumnsOf(Field(1)))
              [] i = 3 -> Len(ColumnsOf(Field(1)) \o ColumnsOf(Field(2)))
Read(cells) ==
  LET row == [i \in DOMAIN SelectList |-> cells[SelectList[i]]]
      at(f) == CHOOSE i \in 1..3 : Field(i) = f
      taken(f) == SubSeq(row, Taken(at(f)) + 1, Taken(at(f)) + Len(ColumnsOf(f))) IN
  [key |-> Decode("key", taken("key")), name |-> Decode("name", taken("name")), kind |-> Decode("kind", taken("kind"))]

-----------------------------------------------------------------------------
NoRow   == [id |-> 0, cells |-> <<>>]
NoKid   == [id |-> 0, title |-> 0]
Has(s, k)    == s.rows[k].id # 0
Childless(s, k) == [s EXCEPT !.kids = [p \in DOMAIN @ |-> IF p[1] = k THEN NoKid ELSE @[p]]]
AddRow(s, v) ==
  [rows |-> [s.rows EXCEPT ![v.key] = [id |-> s.next, cells |-> Cells(v)]], kids |-> s.kids, next |-> s.next + 1]
\* What a refused piece leaves, and what the journal is when nothing is open.
NoStore == [rows |-> <<>>, kids |-> <<>>, next |-> 0]

SlipReplacesFeatures(s, v) ==
  IF Has(s, v.key) /\ declared.conflict = "Fail" THEN NoStore ELSE AddRow(Childless(s, v.key), v)

\* The statement an insertion runs.  OR REPLACE deletes the row that is there,
\* and its screens with it; DO UPDATE keeps the row and its id.
Insert(s, v) ==
  IF ~Has(s, v.key) THEN AddRow(s, v)
  ELSE CASE declared.conflict = "Fail"    -> NoStore
         [] declared.conflict = "Replace" -> AddRow(Childless(s, v.key), v)
         [] declared.conflict = "Update"  ->
              [s EXCEPT !.rows[v.key].cells = [c \in DOMAIN @ |-> IF c = "key" THEN @[c] ELSE Cells(v)[c]]]

\* A screen needs its feature; one that is known keeps its id.
InsertScreen(s, p, title) ==
  IF ~Has(s, p[1]) THEN NoStore
  ELSE LET known == s.kids[p].id # 0 IN
       [rows |-> s.rows,
        kids |-> [s.kids EXCEPT ![p] = [id |-> IF known THEN s.kids[p].id ELSE s.next, title |-> title]],
        next |-> IF known THEN s.next ELSE s.next + 1]

\* One piece of a batch: a value, a screen, or a value its codec refuses.
Piece(s, x) ==
  CASE x.what = "value"  -> Insert(s, x.value)
    [] x.what = "screen" -> InsertScreen(s, x.at, x.title)
    [] OTHER -> NoStore
EmptyStore == [rows |-> [k \in RowKeys |-> NoRow], kids |-> [p \in RowKeys \X Screens |-> NoKid], next |-> 1]

\* The same in the terms of the callers: values by key, and who keeps an id.
Promised(s) ==
  [rows |-> [k \in RowKeys |-> IF Has(s, k) THEN Read(s.rows[k].cells) ELSE Null],
   kids |-> [p \in RowKeys \X Screens |-> s.kids[p]]]
Promise(pr, x, s) ==
  CASE x.what = "value"  -> [pr EXCEPT !.rows[x.value.key] = x.value]
    [] x.what = "screen" -> [pr EXCEPT !.kids[x.at] =
         [id |-> IF @.id # 0 THEN @.id ELSE s.kids[x.at].id, title |-> x.title]]
NothingHeld == [rows |-> [k \in RowKeys |-> Null], kids |-> [p \in RowKeys \X Screens |-> NoKid]]

-----------------------------------------------------------------------------
\* `hopes` is what the callers may rely on if the batch commits.
NotWriting == [at |-> "idle", todo |-> <<>>, hopes |-> NothingHeld]
Free(w) == writer[w] = NotWriting /\ guard = Null
Calls(w) == Free(w) /\ callsMade < MaxCallsMade /\ callsMade' = callsMade + 1 /\ UNCHANGED declared
Goes(w, stage) == writer[w].at = stage /\ UNCHANGED <<declared, callsMade>>
Frees(w) == guard' = Null /\ writer' = [writer EXCEPT ![w] = NotWriting]

\* insert: the guard is taken and given back in the call.
InsertOne(w, x) ==
  /\ Calls(w) /\ UNCHANGED <<journal, guard, writer>>
  /\ LET after == Piece(store, x) IN
       IF after.next = 0 THEN UNCHANGED <<store, promise>>
       ELSE store' = after /\ promise' = Promise(promise, x, after)

\* insert_all, and sync_features which empties both tables first: a
\* transaction under the guard.
InsertAll(w, list) ==
  /\ Calls(w) /\ guard' = w /\ journal' = store /\ UNCHANGED <<store, promise>>
  /\ writer' = [writer EXCEPT ![w] = [at |-> "writing", todo |-> list, hopes |-> promise]]

SyncFeatures(w, list) ==
  /\ declared.conflict = "Update"
  /\ Calls(w) /\ guard' = w /\ journal' = store /\ UNCHANGED promise
  /\ store' = [EmptyStore EXCEPT !.next = store.next]
  /\ writer' = [writer EXCEPT ![w] = [at |-> "replacing", todo |-> list, hopes |-> NothingHeld]]

SlipKeepsThePrefix(w) ==
  /\ writer[w].at \in {"writing", "replacing"} /\ writer[w].todo # <<>> /\ UNCHANGED <<declared, callsMade>>
  /\ LET after == Piece(store, Head(writer[w].todo)) IN
       IF after.next = 0 THEN journal' = NoStore /\ Frees(w) /\ UNCHANGED <<store, promise>>
       ELSE /\ store' = after /\ UNCHANGED <<journal, guard, promise>>
            /\ writer' = [writer EXCEPT ![w] =
                  [at |-> @.at, todo |-> Tail(@.todo), hopes |-> Promise(@.hopes, Head(@.todo), after)]]

\* Any refusal leaves through the transaction, which rolls back.
WritesNext(w) ==
  /\ writer[w].at \in {"writing", "replacing"} /\ writer[w].todo # <<>> /\ UNCHANGED <<declared, callsMade>>
  /\ LET after == Piece(store, Head(writer[w].todo)) IN
       IF after.next = 0 THEN store' = journal /\ journal' = NoStore /\ Frees(w) /\ UNCHANGED promise
       ELSE /\ store' = after /\ UNCHANGED <<journal, guard, promise>>
            /\ writer' = [writer EXCEPT ![w] =
                  [at |-> @.at, todo |-> Tail(@.todo), hopes |-> Promise(@.hopes, Head(@.todo), after)]]

Commits(w) ==
  /\ writer[w].at \in {"writing", "replacing"} /\ writer[w].todo = <<>> /\ UNCHANGED <<declared, callsMade, store>>
  /\ journal' = NoStore /\ Frees(w) /\ promise' = writer[w].hopes

\* clear_features: two statements under the guard and no transaction.
ClearFeatures(w) ==
  /\ declared.conflict = "Update" /\ Calls(w) /\ guard' = w /\ UNCHANGED journal
  /\ store' = [store EXCEPT !.kids = EmptyStore.kids] /\ promise' = [promise EXCEPT !.kids = NothingHeld.kids]
  /\ writer' = [writer EXCEPT ![w].at = "clearing"]
ClearRows(w) ==
  /\ Goes(w, "clearing") /\ Frees(w) /\ UNCHANGED journal
  /\ store' = [store EXCEPT !.rows = EmptyStore.rows] /\ promise' = NothingHeld

\* A kill rolls an open transaction back.
Killed ==
  /\ guard # Null /\ guard' = Null /\ journal' = NoStore /\ writer' = [w \in Writers |-> NotWriting]
  /\ store' = IF journal = NoStore THEN store ELSE journal
  /\ UNCHANGED <<declared, promise, callsMade>>

RowsInit ==
  /\ declared \in [fields : {s \in [1..3 -> Fields] : Range(s) = Fields}, conflict : {"Fail", "Replace", "Update"}]
  /\ store = EmptyStore /\ journal = NoStore /\ guard = Null
  /\ writer = [w \in Writers |-> NotWriting] /\ promise = NothingHeld /\ callsMade = 0

\* Screens belong to features only.
Pieces == [what : {"value"}, value : Values] \cup {[what |-> "unbindable"]}
          \cup (IF declared.conflict # "Update" THEN {}
                ELSE [what : {"screen"}, at : RowKeys \X Screens, title : {1, 2}])
Writes(w) ==
  \/ \E x \in Pieces : InsertOne(w, x)
  \/ \E list \in {<<x, y>> : x, y \in Pieces} : InsertAll(w, list) \/ SyncFeatures(w, list)
  \/ WritesNext(w) \/ Commits(w) \/ ClearFeatures(w) \/ ClearRows(w)
RowsNext == Killed \/ \E w \in Writers : Writes(w)
RowsSpec == RowsInit /\ [][RowsNext]_rowVars

-----------------------------------------------------------------------------
\* Whoever takes the guard reads back, by any order of the declaration, what
\* was last committed and nothing else: no batch leaves a prefix, no feature
\* loses its screens or renumbers them by being written again, no final record
\* is written over.
StoreKeepsItsPromise == guard = Null => Promised(store) = promise /\ journal = NoStore
=============================================================================
