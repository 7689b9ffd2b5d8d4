------------------------- MODULE CatalogSyncProofs -------------------------
(***************************************************************************)
(* What the till holds after any sequence of synchronisations, crashes and *)
(* changes at the platform, for every catalogue: the types for any number  *)
(* of callers, the catalogue and the lists for one caller at a time, as    *)
(* the till runs the service.                                              *)
(***************************************************************************)
EXTENDS CatalogSync, TLAPS

CallType == [at : Stages, mode : {"cycle", "retry", "manual"}, etag : Nat, got : AnswerType,
             todo : SUBSET Categories]
Writing  == {"clear products", "clear categories", "save categories"}

\* What a caller may be doing at a moment.
Fit(r, moment) ==
  /\ r \in CallType /\ (r.todo # {} => r.at \in Writing)
  /\ \A i \in Items : r.got.to[i] <= moment

Ledger ==
  /\ clock \in Nat \ {0} /\ catalog \in [Items -> [at : 1..clock, live : BOOLEAN]]
  /\ published \in [Lists -> Nat] /\ honoured \in BOOLEAN /\ online \in BOOLEAN
  /\ local \in [Items -> 0..clock] /\ held \in [Lists -> Nat]
  /\ etag \in [Lists \cup {Catalog} -> Nat] /\ since \in 0..clock
  /\ token \in {"none", "good", "lapsed"}
  /\ missed \subseteq Items /\ torn \in BOOLEAN /\ faults \in Nat

\* TypeOK does not say that an answer knows no moment to come.
SyncTyped ==
  /\ Ledger /\ calls \in [Callers -> CallType] /\ \A c \in Callers : Fit(calls[c], clock)

\* The stages in which an answer about the catalogue is being written.
Applying == Writing \cup {"drop categories", "save products", "drop products", "record"}

\* The items of an answer that are still to be written.
Left(r) ==
  {i \in r.got.items :
     \/ r.at = "clear products"
     \/ r.at = "clear categories" /\ (i \in Categories \/ r.got.to[i] # 0)
     \/ r.at = "save categories" /\ i \in Categories
        /\ (i \in r.todo \/ (r.got.of = "delta" /\ r.got.to[i] = 0))
     \/ r.at \in {"save categories", "save products"} /\ i \in Products
        /\ (r.got.of = "delta" \/ r.got.to[i] # 0)
     \/ r.at = "drop categories" /\ (i \in Products \/ r.got.to[i] = 0)
     \/ r.at = "drop products" /\ i \in Products /\ r.got.to[i] = 0}

\* An answer tells the platform's items as they were at its moment: all of
\* them, or those that had changed since the moment recorded.
Genuine(got) ==
  /\ got.version \in 1..clock
  /\ \A i \in Items : catalog[i].at <= got.version => got.to[i] = Current(i)
  /\ \/ got.of = "full" /\ got.items = Items
     \/ /\ got.of = "delta" /\ ~FullIsDue /\ since <= got.version
        /\ \A i \in Items : catalog[i].at <= got.version => (i \in got.items <=> catalog[i].at > since)

BookOf(r) ==
  /\ r.at = "delta" => ~FullIsDue
  /\ r.at \in Applying =>
       /\ Genuine(r.got) /\ \A i \in r.got.items \ Left(r) : local[i] = r.got.to[i]
       /\ r.got.of = "full" => /\ r.at \notin {"drop categories", "drop products"}
                               /\ r.at # "clear products" => torn
       /\ r.got.of = "delta" => r.at \notin {"clear products", "clear categories"}
  /\ r.at \in {"clear products", "clear categories"} =>
       \A i \in Categories : r.got.to[i] # 0 => i \in r.todo
  /\ r.at \in Writing => r.todo \subseteq r.got.items

\* A list is replaced only when the tag recorded is behind the platform's.
ListOf(r) ==
  /\ r.at \in Lists => r.etag = etag[r.at]
  /\ r.at \in {"deactivate", "save", "record list"} =>
       r.got.of \in Lists /\ etag[r.got.of] < r.got.version /\ r.got.version <= published[r.got.of]
  /\ r.at = "deactivate" => r.got.of = "operators"
  /\ r.at = "record list" => held[r.got.of] = r.got.version

\* The inductive invariants of one caller at a time, of the catalogue and of
\* the lists.
BookInv == StaleOnlyByTheGaps /\ \A c \in Callers : BookOf(calls[c])
ListInv ==
  /\ ListsAsClaimed /\ \A l \in Lists : etag[l] <= published[l] /\ published[l] > 0
  /\ \A c \in Callers : ListOf(calls[c])

OneCaller == \A c, d \in Callers : c = d

\* A caller goes from what it did to r.
Turning(c, r) == calls' = [calls EXCEPT ![c] = r]

-----------------------------------------------------------------------------
(* What each helper makes of a call.                                       *)

LEMMA IdleFits == \A n \in Nat : Fit(Idle, n)
<1>1. NoAnswer \in AnswerType /\ \A i \in Items : NoAnswer.to[i] = 0
  BY DEF NoAnswer, AnswerType
<1>2. Idle \in CallType
  BY <1>1 DEF Idle, CallType, Stages
<1> QED BY <1>1, <1>2 DEF Idle, Fit

LEMMA EndsMoves ==
  ASSUME SyncTyped, NEW c \in Callers, Ends(c)
  PROVE  \E r : Turning(c, r) /\ Fit(r, clock) /\ r.at = "idle"
<1>1. Fit(Idle, clock) /\ Idle.at = "idle"
  BY IdleFits DEF Idle, SyncTyped, Ledger
<1> QED BY <1>1 DEF Ends, Turning

LEMMA EntersMoves ==
  ASSUME SyncTyped, NEW c \in Callers, NEW s \in Stages, Enters(c, s),
         calls[c].todo = {} \/ s \in Writing
  PROVE  \E r : /\ Turning(c, r) /\ Fit(r, clock) /\ r.at = s /\ r.mode = calls[c].mode
                /\ r.got = calls[c].got /\ r.todo = calls[c].todo /\ r.etag = calls[c].etag
<1>1. PICK r : r = [calls[c] EXCEPT !.at = s] /\ Turning(c, r)
  BY DEF Enters, Turning
<1>2. calls[c] \in CallType /\ Fit(calls[c], clock)
  BY DEF SyncTyped
<1>3. /\ r \in CallType /\ r.at = s /\ r.mode = calls[c].mode /\ r.got = calls[c].got
      /\ r.todo = calls[c].todo /\ r.etag = calls[c].etag
  BY <1>1, <1>2 DEF CallType
<1> QED BY <1>1, <1>2, <1>3 DEF Fit

LEMMA TurnsMoves ==
  ASSUME SyncTyped, NEW c \in Callers, NEW list \in Lists, Turns(c, list)
  PROVE  \E r : Turning(c, r) /\ Fit(r, clock) /\ r.at = list /\ r.etag = etag[list]
<1>1. PICK r : /\ r = [calls[c] EXCEPT !.at = list, !.etag = etag[list], !.got = NoAnswer, !.todo = {}]
               /\ Turning(c, r)
  BY DEF Turns, Turning
<1>2. calls[c] \in CallType /\ etag[list] \in Nat /\ list \in Stages
  BY DEF SyncTyped, Ledger, Lists, Stages
<1>3. NoAnswer \in AnswerType /\ \A i \in Items : NoAnswer.to[i] = 0
  BY DEF NoAnswer, AnswerType
<1>4. r \in CallType /\ r.at = list /\ r.etag = etag[list] /\ r.todo = {} /\ r.got = NoAnswer
  BY <1>1, <1>2, <1>3 DEF CallType
<1>5. clock \in Nat
  BY DEF SyncTyped, Ledger
<1>6. Fit(r, clock)
  BY <1>3, <1>4, <1>5 DEF Fit
<1> QED BY <1>1, <1>4, <1>6

LEMMA SyncFailsMoves ==
  ASSUME SyncTyped, NEW c \in Callers, NEW declined, SyncFails(c, declined)
  PROVE  \E r : Turning(c, r) /\ Fit(r, clock) /\ r.at \in {"idle", "login"}
<1>1. PICK r : r = [Idle EXCEPT !.at = "login", !.mode = "retry"]
  OBVIOUS
<1>2. Fit(r, clock) /\ r.at = "login"
  BY <1>1, IdleFits DEF Fit, CallType, Idle, Stages, SyncTyped, Ledger
<1>3. Ends(c) \/ Turning(c, r)
  BY <1>1 DEF SyncFails, Turning
<1> QED BY <1>2, <1>3, EndsMoves

LEMMA WriteFailsMoves ==
  ASSUME SyncTyped, NEW c \in Callers, WriteFails(c)
  PROVE  \E r : Turning(c, r) /\ Fit(r, clock) /\ r.at \in {"full", "idle", "login"}
<1>1. CASE SyncFails(c, FALSE)
  BY <1>1, SyncFailsMoves
<1>2. CASE calls' = [calls EXCEPT ![c].at = "full", ![c].got = NoAnswer, ![c].todo = {}]
  <2>1. PICK r : r = [calls[c] EXCEPT !.at = "full", !.got = NoAnswer, !.todo = {}] /\ Turning(c, r)
    BY <1>2 DEF Turning
  <2>2. calls[c] \in CallType
    BY DEF SyncTyped
  <2>3. NoAnswer \in AnswerType /\ \A i \in Items : NoAnswer.to[i] = 0
    BY DEF NoAnswer, AnswerType
  <2>4. r \in CallType /\ r.at = "full" /\ r.todo = {} /\ r.got = NoAnswer
    BY <2>1, <2>2, <2>3 DEF CallType, Stages
  <2>5. clock \in Nat
    BY DEF SyncTyped, Ledger
  <2>6. Fit(r, clock)
    BY <2>3, <2>4, <2>5 DEF Fit
  <2> QED BY <2>1, <2>4, <2>6
<1> QED BY <1>1, <1>2 DEF WriteFails

LEMMA AfterMoves ==
  ASSUME SyncTyped, NEW c \in Callers, NEW list, After(c, list)
  PROVE  \E r : /\ Turning(c, r) /\ Fit(r, clock) /\ r.at \in {"features", "drain"}
                /\ r.at = "features" => list = "operators" /\ r.etag = etag["features"]
<1>1. CASE Turns(c, "features") /\ list = "operators"
  BY <1>1, TurnsMoves DEF Lists
<1>2. CASE calls' = [calls EXCEPT ![c] = [Idle EXCEPT !.at = "drain"]]
  <2>1. PICK r : r = [Idle EXCEPT !.at = "drain"]
    OBVIOUS
  <2>2. Fit(r, clock) /\ r.at = "drain"
    BY <2>1, IdleFits DEF Fit, CallType, Idle, Stages, SyncTyped, Ledger
  <2> QED BY <1>2, <2>1, <2>2 DEF Turning
<1> QED BY <1>1, <1>2 DEF After

\* The platform's answer about the catalogue.
LEMMA AnswersFit ==
  ASSUME SyncTyped, NEW kind \in {"delta", "full"}, NEW is \in SUBSET Items
  PROVE  /\ AnswerOf(kind, is) \in AnswerType /\ AnswerOf(kind, is).of = kind
         /\ AnswerOf(kind, is).items = is /\ AnswerOf(kind, is).version = clock
         /\ \A i \in Items : AnswerOf(kind, is).to[i] = Current(i)
         /\ \A i \in Items : Current(i) \in 0..clock /\ (Current(i) = 0 <=> ~catalog[i].live)
<1>1. \A i \in Items : Current(i) \in 0..clock /\ (Current(i) = 0 <=> ~catalog[i].live)
  BY DEF SyncTyped, Ledger, Current
<1>2. clock \in Nat
  BY DEF SyncTyped, Ledger
<1> QED BY <1>1, <1>2 DEF AnswerOf, AnswerType

\* A step of one caller leaves the others alone.
LEMMA OneCall ==
  ASSUME SyncTyped, NEW c \in Callers, NEW r, Turning(c, r), Fit(r, clock), clock' = clock
  PROVE  /\ calls' \in [Callers -> CallType] /\ \A d \in Callers : Fit(calls'[d], clock')
         /\ calls'[c] = r
  BY DEF SyncTyped, Turning, Fit

\* A caller gets to one of some stages.
Moved(c, ats) == \E r : Turning(c, r) /\ Fit(r, clock) /\ r.at \in ats

LEMMA Unencumbered ==
  ASSUME SyncTyped, NEW c \in Callers
  PROVE  calls[c] \in CallType /\ (calls[c].at \notin Writing => calls[c].todo = {})
  BY DEF SyncTyped, Fit

LEMMA EntersMoved ==
  ASSUME SyncTyped, NEW c \in Callers, calls[c].at \notin Writing, NEW s \in Stages, Enters(c, s)
  PROVE  Moved(c, {s})
  BY EntersMoves, Unencumbered DEF Moved

\* The calls whose steps leave the catalogue and the lists of the till alone.
LEMMA CycleMoves ==
  ASSUME SyncTyped, NEW c \in Callers
  PROVE  /\ RunSyncCycle(c) => Moved(c, {"probe"})
         /\ SyncAll(c) \/ ForceFullSync(c) => Moved(c, {"book"})
         /\ Probe(c) \/ TryReauthenticate(c) => Moved(c, {"idle", "book", "login"})
         /\ Drain(c) => Moved(c, {"idle"})
<1>1. ASSUME RunSyncCycle(c) PROVE Moved(c, {"probe"})
  <2>1. PICK r : r = [Idle EXCEPT !.at = "probe", !.mode = "cycle"] /\ Turning(c, r)
    BY <1>1 DEF RunSyncCycle, Turning
  <2>2. Fit(r, clock) /\ r.at = "probe"
    BY <2>1, IdleFits DEF Fit, CallType, Idle, Stages, SyncTyped, Ledger
  <2> QED BY <2>1, <2>2 DEF Moved
<1>2. SyncAll(c) \/ ForceFullSync(c) => Moved(c, {"book"})
  BY EntersMoved DEF SyncAll, ForceFullSync, At, Writing, Stages
<1>3. ASSUME Probe(c) \/ TryReauthenticate(c) PROVE Moved(c, {"idle", "book", "login"})
  <2>1. calls[c].at \notin Writing /\ "book" \in Stages /\ "login" \in Stages
    BY <1>3 DEF Probe, TryReauthenticate, At, Writing, Stages
  <2>2. Ends(c) \/ Enters(c, "book") \/ Enters(c, "login")
    BY <1>3 DEF Probe, TryReauthenticate
  <2> QED BY <2>1, <2>2, EndsMoves, EntersMoved DEF Moved
<1>4. Drain(c) => Moved(c, {"idle"})
  BY EndsMoves DEF Drain, Moved
<1> QED BY <1>1, <1>2, <1>3, <1>4

LEMMA OpensBookMoves ==
  ASSUME SyncTyped, NEW c \in Callers, OpensBook(c)
  PROVE  \E r : /\ Turning(c, r) /\ Fit(r, clock) /\ r.at \in {"delta", "full"}
                /\ r.at = "delta" => ~FullIsDue
<1>1. PICK r : /\ r = [calls[c] EXCEPT !.etag = etag[Catalog],
                         !.at = IF etag[Catalog] # 0 /\ since # 0 THEN "delta" ELSE "full"]
               /\ Turning(c, r)
  BY DEF OpensBook, Turning
<1>2. calls[c] \in CallType /\ calls[c].todo = {} /\ etag[Catalog] \in Nat /\ Fit(calls[c], clock)
  BY Unencumbered DEF OpensBook, At, Writing, SyncTyped, Ledger
<1>3. r \in CallType /\ r.todo = {} /\ r.got = calls[c].got /\ r.at \in {"delta", "full"}
  BY <1>1, <1>2 DEF CallType, Stages
<1>4. r.at = "delta" => ~FullIsDue
  BY <1>1, <1>2 DEF CallType, FullIsDue
<1> QED BY <1>1, <1>2, <1>3, <1>4 DEF Fit

\* The categories of an answer that live.
Living(got, todo) == \A i \in Items : i \in todo <=> i \in got.items \cap Categories /\ got.to[i] # 0

LEMMA FetchDeltaMoves ==
  ASSUME SyncTyped, NEW c \in Callers, FetchDelta(c)
  PROVE  \/ Moved(c, {"full"})
         \/ \E r : Turning(c, r) /\ Fit(r, clock) /\ r.at = "operators" /\ r.etag = etag["operators"]
         \/ \E r : /\ Turning(c, r) /\ Fit(r, clock) /\ r.at = "save categories"
                   /\ r.got = AnswerOf("delta", Changed(since)) /\ Living(r.got, r.todo)
<1>1. calls[c].at \notin Writing /\ "full" \in Stages /\ "save categories" \in Writing
      /\ "operators" \in Lists
  BY DEF FetchDelta, At, Writing, Stages, Lists
<1>2. CASE Enters(c, "full")
  BY <1>1, <1>2, EntersMoved DEF Moved
<1>3. CASE Turns(c, "operators")
  <2>1. \E r : Turning(c, r) /\ Fit(r, clock) /\ r.at = "operators" /\ r.etag = etag["operators"]
    BY <1>1, <1>3, TurnsMoves
  <2> QED BY <2>1
<1>4. CASE calls' = [calls EXCEPT ![c].at = "save categories",
                       ![c].got  = AnswerOf("delta", Changed(since)),
                       ![c].todo = {i \in Changed(since) \cap Categories : catalog[i].live}]
  <2> DEFINE todo == {i \in Changed(since) \cap Categories : catalog[i].live}
             got == AnswerOf("delta", Changed(since))
  <2>1. Changed(since) \in SUBSET Items
    BY DEF Changed
  <2>2. todo \in SUBSET Categories /\ got \in AnswerType /\ Living(got, todo)
        /\ \A i \in Items : got.to[i] <= clock
    BY <2>1, AnswersFit DEF Living, SyncTyped, Ledger
  <2>3. PICK r : /\ r = [calls[c] EXCEPT !.at = "save categories", !.got = got, !.todo = todo]
                 /\ Turning(c, r)
    BY <1>4 DEF Turning
  <2> HIDE DEF todo, got
  <2>4. calls[c] \in CallType
    BY DEF SyncTyped
  <2>5. r \in CallType /\ r.at = "save categories" /\ r.got = got /\ r.todo = todo
    BY <2>2, <2>3, <2>4 DEF CallType, Stages
  <2>6. Fit(r, clock)
    BY <2>2, <2>5 DEF Fit, Writing
  <2> QED BY <2>2, <2>3, <2>5, <2>6 DEF got
<1> QED BY <1>2, <1>3, <1>4 DEF FetchDelta

LEMMA FetchFullMoves ==
  ASSUME SyncTyped, NEW c \in Callers, FetchFull(c)
  PROVE  \/ Moved(c, {"idle", "login"})
         \/ \E r : Turning(c, r) /\ Fit(r, clock) /\ r.at = "operators" /\ r.etag = etag["operators"]
         \/ \E r : /\ Turning(c, r) /\ Fit(r, clock) /\ r.at = "clear products"
                   /\ r.got = AnswerOf("full", Items) /\ Living(r.got, r.todo)
<1>1. CASE SyncFails(c, TRUE) \/ SyncFails(c, FALSE)
  BY <1>1, SyncFailsMoves DEF Moved
<1>2. CASE Turns(c, "operators")
  BY <1>2, TurnsMoves DEF Lists
<1>3. CASE calls' = [calls EXCEPT ![c].at = "clear products",
                       ![c].got  = AnswerOf("full", Items),
                       ![c].todo = {i \in Categories : catalog[i].live}]
  <2> DEFINE todo == {i \in Categories : catalog[i].live}
             got == AnswerOf("full", Items)
  <2>2. todo \in SUBSET Categories /\ got \in AnswerType /\ Living(got, todo)
        /\ \A i \in Items : got.to[i] <= clock
    BY AnswersFit DEF Living, SyncTyped, Ledger
  <2>3. PICK r : /\ r = [calls[c] EXCEPT !.at = "clear products", !.got = got, !.todo = todo]
                 /\ Turning(c, r)
    BY <1>3 DEF Turning
  <2> HIDE DEF todo, got
  <2>4. calls[c] \in CallType
    BY DEF SyncTyped
  <2>5. r \in CallType /\ r.at = "clear products" /\ r.got = got /\ r.todo = todo
    BY <2>2, <2>3, <2>4 DEF CallType, Stages
  <2>6. Fit(r, clock)
    BY <2>2, <2>5 DEF Fit, Writing
  <2> QED BY <2>2, <2>3, <2>5, <2>6 DEF got
<1> QED BY <1>1, <1>2, <1>3 DEF FetchFull

-----------------------------------------------------------------------------
(* The types.                                                              *)

\* A step of a caller that keeps the ledger and moves it to a fit state.
LEMMA StepTyped ==
  ASSUME SyncTyped, Ledger', clock' = clock, NEW c \in Callers,
         \E r : Turning(c, r) /\ Fit(r, clock)
  PROVE  SyncTyped'
  BY OneCall DEF SyncTyped

LEMMA CycleTyped ==
  ASSUME SyncTyped, NEW c \in Callers,
         RunSyncCycle(c) \/ SyncAll(c) \/ ForceFullSync(c) \/ Probe(c) \/ TryReauthenticate(c)
           \/ Drain(c)
  PROVE  SyncTyped'
<1>1. /\ UNCHANGED <<clock, catalog, published, honoured, online, local, held, missed, torn>>
      /\ token' \in {token, "good"} /\ faults' \in {faults, faults + 1}
  BY DEF RunSyncCycle, SyncAll, ForceFullSync, Probe, TryReauthenticate, Drain, platform, store,
         history, Unheard, Fault, Calm
<1>2. etag' \in {etag, [r \in DOMAIN etag |-> 0]} /\ since' \in {since, 0}
  BY DEF RunSyncCycle, SyncAll, ForceFullSync, Probe, TryReauthenticate, Drain, store
<1>3. Ledger'
  BY <1>1, <1>2 DEF SyncTyped, Ledger
<1>4. \E r : Turning(c, r) /\ Fit(r, clock)
  BY CycleMoves DEF Moved
<1> QED BY <1>1, <1>3, <1>4, StepTyped

LEMMA BookTyped ==
  ASSUME SyncTyped, NEW c \in Callers, OpensBook(c) \/ FetchDelta(c) \/ FetchFull(c)
  PROVE  SyncTyped'
<1>1. UNCHANGED <<platform, online, store, token, history>> /\ faults' \in {faults, faults + 1}
  BY DEF OpensBook, FetchDelta, FetchFull, Unheard, Declined, Heard, Fault, Calm
<1>2. Ledger' /\ clock' = clock
  BY <1>1 DEF SyncTyped, Ledger, platform, store, history
<1>3. \E r : Turning(c, r) /\ Fit(r, clock)
  BY OpensBookMoves, FetchDeltaMoves, FetchFullMoves DEF Moved
<1> QED BY <1>2, <1>3, StepTyped

\* One category is written.
LEMMA SaveCategoryMoves ==
  ASSUME SyncTyped, NEW c \in Callers, NEW i \in Categories, SaveCategory(c, i)
  PROVE  \E r : /\ Turning(c, r) /\ Fit(r, clock) /\ r.at = "save categories"
                /\ r.got = calls[c].got /\ r.todo = calls[c].todo \ {i}
<1>1. PICK r : r = [calls[c] EXCEPT !.todo = @ \ {i}] /\ Turning(c, r)
  BY DEF SaveCategory, Turning
<1>2. calls[c] \in CallType /\ calls[c].at = "save categories" /\ Fit(calls[c], clock)
  BY DEF SyncTyped, SaveCategory, At
<1>3. /\ r \in CallType /\ r.at = "save categories" /\ r.got = calls[c].got
      /\ r.todo = calls[c].todo \ {i}
  BY <1>1, <1>2 DEF CallType
<1> QED BY <1>1, <1>2, <1>3 DEF Fit, Writing

\* The stages of a write, and what each one keeps of the answer.
WriteStep(c) ==
  \/ ClearProducts(c) \/ ClearCategories(c) \/ (\E i \in Categories : SaveCategory(c, i))
  \/ SaveOrphan(c) \/ CategoriesSaved(c) \/ DropCategories(c) \/ SaveProducts(c) \/ DropProducts(c)

LEMMA WriteMoves ==
  ASSUME SyncTyped, NEW c \in Callers, WriteStep(c)
  PROVE  \/ Moved(c, {"full", "idle", "login"}) /\ WriteFails(c)
         \/ \E r : /\ Turning(c, r) /\ Fit(r, clock) /\ r.got = calls[c].got
                   /\ r.todo = calls[c].todo \/ \E i \in Categories : SaveCategory(c, i)
<1>0. {"clear categories", "save categories", "save products", "drop categories", "record",
       "drop products"} \subseteq Stages
  BY DEF Stages
<1>1. CASE WriteFails(c)
  BY <1>1, WriteFailsMoves DEF Moved
<1>2. CASE \E i \in Categories : SaveCategory(c, i)
  BY <1>2, SaveCategoryMoves
<1>3. CASE \E s \in Stages : Enters(c, s) /\ (calls[c].todo = {} \/ s \in Writing)
  BY <1>3, EntersMoves
<1>4. WriteFails(c) \/ (\E i \in Categories : SaveCategory(c, i))
      \/ \E s \in Stages : Enters(c, s) /\ (calls[c].todo = {} \/ s \in Writing)
  BY <1>0, Unencumbered DEF WriteStep, ClearProducts, ClearCategories, SaveOrphan, CategoriesSaved,
     DropCategories, SaveProducts, DropProducts, At, Writing
<1> QED BY <1>1, <1>2, <1>3, <1>4

LEMMA WriteTyped ==
  ASSUME SyncTyped, NEW c \in Callers, WriteStep(c)
  PROVE  SyncTyped'
<1>1. /\ UNCHANGED <<platform, online, held, etag, since, token, missed, faults>>
      /\ torn' \in {torn, TRUE}
  BY DEF WriteStep, ClearProducts, ClearCategories, SaveCategory, SaveOrphan, CategoriesSaved,
     DropCategories, SaveProducts, DropProducts, store, history
<1>2. \A i \in Items : calls[c].got.to[i] \in 0..clock
  BY DEF SyncTyped, Fit, CallType, AnswerType, Ledger
<1>3. local' \in [Items -> 0..clock]
  <2>1. \A is : Rewritten(is, calls[c].got.to) \in [Items -> 0..clock]
    BY <1>2 DEF Rewritten, SyncTyped, Ledger
  <2>2. \A i \in Categories : [local EXCEPT ![i] = calls[c].got.to[i]] \in [Items -> 0..clock]
    BY <1>2 DEF SyncTyped, Ledger, Items
  <2>3. \A is : [i \in Items |-> IF i \in is THEN 0 ELSE local[i]] \in [Items -> 0..clock]
    BY DEF SyncTyped, Ledger
  <2>4. local \in [Items -> 0..clock]
    BY DEF SyncTyped, Ledger
  <2>5. CASE ClearProducts(c) \/ ClearCategories(c) \/ SaveOrphan(c) \/ CategoriesSaved(c)
    BY <2>3, <2>4, <2>5 DEF ClearProducts, ClearCategories, SaveOrphan, CategoriesSaved, store
  <2>6. CASE DropCategories(c) \/ SaveProducts(c) \/ DropProducts(c)
    BY <2>1, <2>4, <2>6 DEF DropCategories, SaveProducts, DropProducts
  <2>7. CASE \E i \in Categories : SaveCategory(c, i)
    BY <2>2, <2>7 DEF SaveCategory
  <2> QED BY <2>5, <2>6, <2>7 DEF WriteStep
<1>4. Ledger' /\ clock' = clock
  BY <1>1, <1>3 DEF SyncTyped, Ledger, platform
<1>5. \E r : Turning(c, r) /\ Fit(r, clock)
  BY WriteMoves DEF Moved
<1> QED BY <1>4, <1>5, StepTyped

\* A list is asked for.
LEMMA FetchListMoves ==
  ASSUME SyncTyped, NEW c \in Callers, NEW list \in Lists, FetchList(c, list)
  PROVE  \/ Moved(c, {"idle", "login", "drain"})
         \/ \E r : Turning(c, r) /\ Fit(r, clock) /\ r.at = "features" /\ r.etag = etag["features"]
         \/ /\ calls[c].etag # published[list]
            /\ \E r : /\ Turning(c, r) /\ Fit(r, clock) /\ r.got.of = list
                      /\ r.got.version = published[list]
                      /\ r.at = IF list = "operators" THEN "deactivate" ELSE "save"
<1> DEFINE s == IF list = "operators" THEN "deactivate" ELSE "save"
           got == [NoAnswer EXCEPT !.of = list, !.version = published[list]]
<1>1. CASE SyncFails(c, TRUE) \/ SyncFails(c, FALSE)
  <2>1. \E r : Turning(c, r) /\ Fit(r, clock) /\ r.at \in {"idle", "login"}
    BY <1>1, SyncFailsMoves
  <2> QED BY <2>1 DEF Moved
<1>2. CASE After(c, list)
  BY <1>2, AfterMoves DEF Moved
<1>3. CASE calls[c].etag # published[list] /\ calls' = [calls EXCEPT ![c].at = s, ![c].got = got]
  <2>1. PICK r : r = [calls[c] EXCEPT !.at = s, !.got = got] /\ Turning(c, r)
    BY <1>3 DEF Turning
  <2>2. /\ got \in AnswerType /\ got.of = list /\ got.version = published[list]
        /\ \A i \in Items : got.to[i] = 0
    BY DEF NoAnswer, AnswerType, SyncTyped, Ledger, Lists
  <2>3. calls[c] \in CallType /\ calls[c].todo = {}
    <3>1. calls[c].at \notin Writing
      BY DEF FetchList, At, Lists, Writing
    <3> QED BY <3>1, Unencumbered
  <2>4. s \in Stages
    BY DEF Stages
  <2> HIDE DEF s, got
  <2>5. r \in CallType /\ r.at = s /\ r.got = got /\ r.todo = {}
    BY <2>1, <2>2, <2>3, <2>4 DEF CallType
  <2>6. clock \in Nat
    BY DEF SyncTyped, Ledger
  <2>7. Fit(r, clock)
    BY <2>2, <2>5, <2>6 DEF Fit
  <2> QED BY <1>3, <2>1, <2>2, <2>5, <2>7 DEF s
<1> QED BY <1>1, <1>2, <1>3 DEF FetchList

LEMMA RecordMoves ==
  ASSUME SyncTyped, NEW c \in Callers
  PROVE  /\ RecordCatalog(c) => \E r : /\ Turning(c, r) /\ Fit(r, clock)
                                       /\ r.at = "operators" /\ r.etag = etag["operators"]
         /\ DeactivateAllOperators(c) =>
              \E r : Turning(c, r) /\ Fit(r, clock) /\ r.at = "save" /\ r.got = calls[c].got
         /\ SaveList(c) =>
              \E r : Turning(c, r) /\ Fit(r, clock) /\ r.at = "record list" /\ r.got = calls[c].got
         /\ RecordList(c) =>
              \E r : /\ Turning(c, r) /\ Fit(r, clock) /\ r.at \in {"features", "drain"}
                     /\ r.at = "features" => calls[c].got.of = "operators" /\ r.etag = etag["features"]
<1>1. RecordCatalog(c) => \E r : /\ Turning(c, r) /\ Fit(r, clock)
                                 /\ r.at = "operators" /\ r.etag = etag["operators"]
  BY TurnsMoves DEF RecordCatalog, Lists
<1>2. ASSUME DeactivateAllOperators(c)
      PROVE  \E r : Turning(c, r) /\ Fit(r, clock) /\ r.at = "save" /\ r.got = calls[c].got
  <2>1. Enters(c, "save") /\ calls[c].todo = {} /\ "save" \in Stages
    BY <1>2, Unencumbered DEF DeactivateAllOperators, At, Writing, Stages
  <2>2. PICK r : Turning(c, r) /\ Fit(r, clock) /\ r.at = "save" /\ r.got = calls[c].got
    BY <2>1, EntersMoves
  <2> QED BY <2>2
<1>3. ASSUME SaveList(c)
      PROVE  \E r : Turning(c, r) /\ Fit(r, clock) /\ r.at = "record list" /\ r.got = calls[c].got
  <2>1. Enters(c, "record list") /\ calls[c].todo = {} /\ "record list" \in Stages
    BY <1>3, Unencumbered DEF SaveList, At, Writing, Stages
  <2>2. PICK r : Turning(c, r) /\ Fit(r, clock) /\ r.at = "record list" /\ r.got = calls[c].got
    <3> DEFINE s == "record list"
    <3>1. Enters(c, s) /\ calls[c].todo = {} /\ s \in Stages
      BY <2>1
    <3> HIDE DEF s
    <3>2. PICK r : Turning(c, r) /\ Fit(r, clock) /\ r.at = s /\ r.got = calls[c].got
      BY <3>1, EntersMoves
    <3> QED BY <3>2 DEF s
  <2> QED BY <2>2
<1>4. ASSUME RecordList(c)
      PROVE  \E r : /\ Turning(c, r) /\ Fit(r, clock) /\ r.at \in {"features", "drain"}
                    /\ r.at = "features" =>
                         calls[c].got.of = "operators" /\ r.etag = etag["features"]
  <2>1. PICK list : list = calls[c].got.of /\ After(c, list)
    BY <1>4 DEF RecordList
  <2>2. \E r : /\ Turning(c, r) /\ Fit(r, clock) /\ r.at \in {"features", "drain"}
               /\ r.at = "features" => list = "operators" /\ r.etag = etag["features"]
    BY <2>1, AfterMoves
  <2> QED BY <2>1, <2>2
<1> QED BY <1>1, <1>2, <1>3, <1>4

ListStep(c) ==
  \/ \E l \in Lists : FetchList(c, l)
  \/ DeactivateAllOperators(c) \/ SaveList(c) \/ RecordList(c)

LEMMA ListTyped ==
  ASSUME SyncTyped, NEW c \in Callers, RecordCatalog(c) \/ ListStep(c)
  PROVE  SyncTyped'
<1>0. calls[c].got.version \in Nat
  BY DEF SyncTyped, CallType, AnswerType
<1>1. /\ UNCHANGED <<platform, online, local, token>> /\ faults' \in {faults, faults + 1}
  BY DEF RecordCatalog, ListStep, FetchList, DeactivateAllOperators, SaveList, RecordList, store,
     Unheard, Declined, Heard, Fault, Calm
<1>2. held' \in [Lists -> Nat]
  <2>1. held \in [Lists -> Nat]
    BY DEF SyncTyped, Ledger
  <2>2. CASE DeactivateAllOperators(c)
    BY <2>1, <2>2 DEF DeactivateAllOperators
  <2>3. CASE SaveList(c)
    BY <1>0, <2>1, <2>3 DEF SaveList
  <2>4. CASE UNCHANGED held
    BY <2>1, <2>4
  <2> QED BY <2>2, <2>3, <2>4 DEF RecordCatalog, ListStep, FetchList, RecordList, store
<1>3. etag' \in [Lists \cup {Catalog} -> Nat]
  <2>1. etag \in [Lists \cup {Catalog} -> Nat]
    BY DEF SyncTyped, Ledger
  <2>2. CASE RecordCatalog(c)
    BY <1>0, <2>1, <2>2 DEF RecordCatalog
  <2>3. CASE RecordList(c)
    BY <1>0, <2>1, <2>3 DEF RecordList
  <2>4. CASE UNCHANGED etag
    BY <2>1, <2>4
  <2> QED BY <2>2, <2>3, <2>4 DEF ListStep, FetchList, DeactivateAllOperators, SaveList, store
<1>4. since' \in {since, clock} /\ missed' \subseteq Items /\ torn' \in BOOLEAN
  <2>1. since' \in {since, clock}
    BY DEF RecordCatalog, ListStep, FetchList, DeactivateAllOperators, SaveList, RecordList, store
  <2>2. missed' \subseteq Items
    BY DEF RecordCatalog, ListStep, FetchList, DeactivateAllOperators, SaveList, RecordList, history,
       Changed, SyncTyped, Ledger
  <2>3. torn' \in BOOLEAN
    BY DEF RecordCatalog, ListStep, FetchList, DeactivateAllOperators, SaveList, RecordList, history,
       SyncTyped, Ledger
  <2> QED BY <2>1, <2>2, <2>3
<1>5. Ledger' /\ clock' = clock
  BY <1>1, <1>2, <1>3, <1>4 DEF SyncTyped, Ledger, platform
<1>6. \E r : Turning(c, r) /\ Fit(r, clock)
  BY FetchListMoves, RecordMoves DEF ListStep, Moved
<1> QED BY <1>5, <1>6, StepTyped

\* What the platform and the world do to the till.
World ==
  \/ \E i \in Items : Publish(i) \/ Withdraw(i)
  \/ \E l \in Lists : Republish(l)
  \/ Disown \/ SessionLapses \/ GoesOffline \/ ComesOnline \/ Crash \/ LogsIn

LEMMA TicksAre ==
  ASSUME NEW i \in Items, Publish(i) \/ Withdraw(i)
  PROVE  \E live \in BOOLEAN : Ticks(i, live)
  BY DEF Publish, Withdraw

LEMMA WorldTyped ==
  ASSUME SyncTyped, World
  PROVE  SyncTyped'
<1>1. CASE \E i \in Items : Publish(i) \/ Withdraw(i)
  <2>1. PICK i \in Items, live \in BOOLEAN : Ticks(i, live)
    BY <1>1, TicksAre
  <2>2. /\ clock' = clock + 1 /\ catalog' = [catalog EXCEPT ![i] = [at |-> clock', live |-> live]]
        /\ missed' = missed \ {i}
        /\ UNCHANGED <<published, honoured, online, store, token, calls, torn, faults>>
    BY <2>1 DEF Ticks
  <2>3. catalog' \in [Items -> [at : 1..clock', live : BOOLEAN]]
    <3>1. [at |-> clock', live |-> live] \in [at : 1..clock', live : BOOLEAN]
      BY <2>2 DEF SyncTyped, Ledger
    <3>2. \A j \in Items : catalog[j] \in [at : 1..clock', live : BOOLEAN]
      BY <2>2 DEF SyncTyped, Ledger
    <3> QED BY <2>2, <3>1, <3>2 DEF SyncTyped, Ledger
  <2>4. Ledger'
    <3>1. clock' \in Nat \ {0} /\ local' \in [Items -> 0..clock'] /\ since' \in 0..clock'
      BY <2>2 DEF SyncTyped, Ledger, store
    <3> QED BY <2>2, <2>3, <3>1 DEF SyncTyped, Ledger, store
  <2>5. \A c \in Callers : Fit(calls[c], clock')
    BY <2>2 DEF SyncTyped, Fit, CallType, AnswerType, Ledger
  <2> QED BY <2>2, <2>4, <2>5 DEF SyncTyped
<1>2. CASE \E l \in Lists : Republish(l)
  <2>1. PICK l \in Lists : Republish(l)
    BY <1>2
  <2>2. published' \in [Lists -> Nat]
    BY <2>1 DEF Republish, SyncTyped, Ledger
  <2> QED BY <2>1, <2>2 DEF Republish, SyncTyped, Ledger, store, history
<1>3. CASE Crash
  <2>1. \A c \in Callers : calls'[c] = Idle
    BY <1>3 DEF Crash
  <2>2. clock' = clock /\ clock \in Nat
    BY <1>3 DEF Crash, platform, SyncTyped, Ledger
  <2>3. calls' \in [Callers -> CallType] /\ \A c \in Callers : Fit(calls'[c], clock')
    BY <1>3, <2>1, <2>2, IdleFits DEF Crash, Fit
  <2>4. Ledger'
    BY <1>3 DEF Crash, Fault, SyncTyped, Ledger, platform, store, history
  <2> QED BY <2>3, <2>4 DEF SyncTyped
<1>4. CASE Disown \/ SessionLapses \/ GoesOffline \/ ComesOnline \/ LogsIn
  <2>1. /\ UNCHANGED <<clock, catalog, published, store, calls, history>>
        /\ honoured' = honoured \/ honoured' = FALSE
        /\ online' = online \/ online' = FALSE \/ online' = TRUE
        /\ token' \in {token, "lapsed", "good"} /\ faults' \in {faults, faults + 1}
    BY <1>4 DEF Disown, SessionLapses, GoesOffline, ComesOnline, LogsIn, Fault, platform
  <2>a. honoured' \in BOOLEAN /\ online' \in BOOLEAN
    BY <2>1, Zenon DEF SyncTyped, Ledger
  <2>2. Ledger'
    BY <2>1, <2>a DEF SyncTyped, Ledger, store, history
  <2> QED BY <2>1, <2>2 DEF SyncTyped
<1> QED BY <1>1, <1>2, <1>3, <1>4 DEF World

LEMMA SyncStartsTyped == Init => SyncTyped
<1> SUFFICES ASSUME Init PROVE SyncTyped
  OBVIOUS
<1>1. Ledger
  <2>1. clock = 1 /\ catalog \in [Items -> [at : 1..clock, live : BOOLEAN]]
    BY DEF Init
  <2>2. local \in [Items -> 0..clock] /\ since \in 0..clock
    BY <2>1 DEF Init
  <2>3. /\ published \in [Lists -> Nat] /\ held \in [Lists -> Nat]
        /\ etag \in [Lists \cup {Catalog} -> Nat]
    BY DEF Init
  <2>4. honoured \in BOOLEAN /\ online \in BOOLEAN /\ torn \in BOOLEAN /\ missed = {}
    BY DEF Init
  <2> QED BY <2>1, <2>2, <2>3, <2>4 DEF Init, Ledger
<1>2. clock = 1 /\ \A c \in Callers : calls[c] = Idle
  BY DEF Init
<1>3. Idle \in CallType /\ Fit(Idle, clock)
  BY <1>2, IdleFits DEF Fit
<1> QED BY <1>1, <1>2, <1>3 DEF Init, SyncTyped

\* The steps of the system: a caller's, or the world's.
LEMMA NextIs ==
  ASSUME Next
  PROVE  \/ World
         \/ \E c \in Callers :
              \/ RunSyncCycle(c) \/ SyncAll(c) \/ ForceFullSync(c) \/ Probe(c)
                   \/ TryReauthenticate(c) \/ Drain(c)
              \/ OpensBook(c) \/ FetchDelta(c) \/ FetchFull(c)
              \/ WriteStep(c) \/ RecordCatalog(c) \/ ListStep(c)
  BY DEF Next, Begins, Proceeds, World, WriteStep, ListStep

LEMMA SyncStepsTyped == SyncTyped /\ [Next]_vars => SyncTyped'
<1> SUFFICES ASSUME SyncTyped, [Next]_vars PROVE SyncTyped'
  OBVIOUS
<1>1. CASE Next
  BY <1>1, NextIs, WorldTyped, CycleTyped, BookTyped, WriteTyped, ListTyped
<1>2. CASE UNCHANGED vars
  BY <1>2 DEF vars, platform, store, history, SyncTyped, Ledger
<1> QED BY <1>1, <1>2

\* The types of the platform, the store and the calls, for every catalogue and
\* any number of callers at once.
THEOREM SyncTypes == Spec => []TypeOK
<1>1. SyncTyped => TypeOK
  BY DEF SyncTyped, Ledger, Fit, CallType, Writing, TypeOK
<1> QED BY <1>1, SyncStartsTyped, SyncStepsTyped, PTL DEF Spec

-----------------------------------------------------------------------------
(* The catalogue.                                                          *)

\* What the till's catalogue is judged by.
Book == <<catalog, clock, local, since, etag[Catalog], missed, torn>>

LEMMA BookTurns ==
  ASSUME SyncTyped, OneCaller, NEW c \in Callers, NEW r, Turning(c, r), StaleOnlyByTheGaps',
         BookOf(r)'
  PROVE  BookInv'
  BY DEF SyncTyped, Turning, OneCaller, BookInv

\* A step that leaves the catalogue alone and holds no answer about it.
LEMMA BookQuiet ==
  ASSUME SyncTyped, OneCaller, BookInv, NEW c \in Callers, UNCHANGED Book,
         NEW ats, Moved(c, ats), ats \cap (Applying \cup {"delta"}) = {}
  PROVE  BookInv'
<1>1. StaleOnlyByTheGaps'
  BY DEF BookInv, StaleOnlyByTheGaps, Book, Right, Current, Changed, FullIsDue
<1>2. PICK r : Turning(c, r) /\ r.at \in ats
  BY DEF Moved
<1>3. BookOf(r)'
  BY <1>2 DEF BookOf, Applying, Writing
<1> QED BY <1>1, <1>2, <1>3, BookTurns

LEMMA CycleBook ==
  ASSUME SyncTyped, OneCaller, BookInv, NEW c \in Callers,
         RunSyncCycle(c) \/ SyncAll(c) \/ ForceFullSync(c) \/ Probe(c) \/ TryReauthenticate(c)
           \/ Drain(c)
  PROVE  BookInv'
<1> DEFINE ats == {"probe", "idle", "book", "login"}
<1>1. ats \cap (Applying \cup {"delta"}) = {}
  BY DEF Applying, Writing
<1>2. Moved(c, ats)
  BY CycleMoves DEF Moved
<1> HIDE DEF ats
<1>3. CASE ~ForceFullSync(c)
  <2>1. UNCHANGED Book
    BY <1>3 DEF RunSyncCycle, SyncAll, Probe, TryReauthenticate, Drain, Book, platform, store, history
  <2> QED BY <1>1, <1>2, <2>1, BookQuiet
<1>4. CASE ForceFullSync(c)
  <2>1. PICK r : Turning(c, r) /\ r.at \in ats
    BY <1>2 DEF Moved
  <2>2. since' = 0
    BY <1>4 DEF ForceFullSync
  <2>3. StaleOnlyByTheGaps' /\ BookOf(r)'
    BY <1>1, <2>1, <2>2 DEF StaleOnlyByTheGaps, FullIsDue, BookOf, Applying, Writing
  <2> QED BY <2>1, <2>3, BookTurns
<1> QED BY <1>3, <1>4

LEMMA FetchBook ==
  ASSUME SyncTyped, OneCaller, BookInv, NEW c \in Callers,
         OpensBook(c) \/ FetchDelta(c) \/ FetchFull(c)
  PROVE  BookInv'
<1>1. UNCHANGED Book /\ UNCHANGED <<etag, since>>
  BY DEF OpensBook, FetchDelta, FetchFull, Book, platform, store, history
<1>2. StaleOnlyByTheGaps'
  BY <1>1 DEF BookInv, StaleOnlyByTheGaps, Book, Right, Current, Changed, FullIsDue
<1>3. CASE \E ats : Moved(c, ats) /\ ats \cap (Applying \cup {"delta"}) = {}
  BY <1>1, <1>3, BookQuiet
<1>4. CASE OpensBook(c)
  <2>1. PICK r : Turning(c, r) /\ r.at \in {"delta", "full"} /\ (r.at = "delta" => ~FullIsDue)
    BY <1>4, OpensBookMoves
  <2>2. BookOf(r)'
    BY <1>1, <2>1 DEF BookOf, Applying, Writing, FullIsDue
  <2> QED BY <1>2, <2>1, <2>2, BookTurns
<1>5. CASE FetchDelta(c)
  <2>1. CASE Moved(c, {"full"})
    <3>1. {"full"} \cap (Applying \cup {"delta"}) = {}
      BY DEF Applying, Writing
    <3> QED BY <1>3, <2>1, <3>1
  <2>3. CASE \E r : Turning(c, r) /\ Fit(r, clock) /\ r.at = "operators" /\ r.etag = etag["operators"]
    <3>1. {"operators"} \cap (Applying \cup {"delta"}) = {}
      BY DEF Applying, Writing
    <3>2. Moved(c, {"operators"})
      BY <2>3 DEF Moved
    <3> QED BY <1>3, <3>1, <3>2
  <2>2. CASE \E r : /\ Turning(c, r) /\ Fit(r, clock) /\ r.at = "save categories"
                    /\ r.got = AnswerOf("delta", Changed(since)) /\ Living(r.got, r.todo)
    <3>1. PICK r : /\ Turning(c, r) /\ Fit(r, clock) /\ r.at = "save categories"
                   /\ r.got = AnswerOf("delta", Changed(since)) /\ Living(r.got, r.todo)
      BY <2>2
    <3>2. /\ r.got.of = "delta" /\ r.got.items = Changed(since) /\ r.got.version = clock
          /\ \A i \in Items : r.got.to[i] = Current(i)
      <4> DEFINE is == Changed(since)
      <4>1. is \in SUBSET Items
        BY DEF Changed
      <4> HIDE DEF is
      <4>2. /\ AnswerOf("delta", is).of = "delta" /\ AnswerOf("delta", is).items = is
            /\ AnswerOf("delta", is).version = clock
            /\ \A i \in Items : AnswerOf("delta", is).to[i] = Current(i)
        BY <4>1, AnswersFit
      <4> QED BY <3>1, <4>2 DEF is
    <3>3. calls[c].at = "delta" /\ ~FullIsDue
      BY <1>5 DEF FetchDelta, At, BookInv, BookOf
    <3>4. Genuine(r.got)
      BY <3>2, <3>3 DEF Genuine, Changed, SyncTyped, Ledger
    <3>5. r.got.items \subseteq Left(r)
      BY <3>1, <3>2 DEF Left, Living, Changed, Items
    <3>6. BookOf(r)
      BY <3>1, <3>2, <3>4, <3>5 DEF BookOf, Living, Fit, CallType, Items
    <3>7. BookOf(r)'
      BY <1>1, <3>6 DEF BookOf, Genuine, Left, Book, Current, FullIsDue
    <3> QED BY <1>2, <3>1, <3>7, BookTurns
  <2> QED BY <1>5, <2>1, <2>2, <2>3, FetchDeltaMoves
<1>6. CASE FetchFull(c)
  <2>1. CASE Moved(c, {"idle", "login"})
    <3>1. {"idle", "login"} \cap (Applying \cup {"delta"}) = {}
      BY DEF Applying, Writing
    <3> QED BY <1>3, <2>1, <3>1
  <2>2. CASE \E r : Turning(c, r) /\ Fit(r, clock) /\ r.at = "operators" /\ r.etag = etag["operators"]
    <3>1. {"operators"} \cap (Applying \cup {"delta"}) = {}
      BY DEF Applying, Writing
    <3>2. Moved(c, {"operators"})
      BY <2>2 DEF Moved
    <3> QED BY <1>3, <3>1, <3>2
  <2>3. CASE \E r : /\ Turning(c, r) /\ Fit(r, clock) /\ r.at = "clear products"
                    /\ r.got = AnswerOf("full", Items) /\ Living(r.got, r.todo)
    <3>1. PICK r : /\ Turning(c, r) /\ Fit(r, clock) /\ r.at = "clear products"
                   /\ r.got = AnswerOf("full", Items) /\ Living(r.got, r.todo)
      BY <2>3
    <3>2. /\ r.got.of = "full" /\ r.got.items = Items /\ r.got.version = clock
          /\ \A i \in Items : r.got.to[i] = Current(i)
      <4>1. /\ AnswerOf("full", Items).of = "full" /\ AnswerOf("full", Items).items = Items
            /\ AnswerOf("full", Items).version = clock
            /\ \A i \in Items : AnswerOf("full", Items).to[i] = Current(i)
        BY AnswersFit
      <4> QED BY <3>1, <4>1
    <3>3. Genuine(r.got) /\ r.got.items \subseteq Left(r)
      <4>1. r.got.version \in 1..clock
        BY <3>2 DEF SyncTyped, Ledger
      <4> QED BY <3>1, <3>2, <4>1 DEF Genuine, Left
    <3>4. BookOf(r)
      BY <3>1, <3>2, <3>3 DEF BookOf, Living, Items, Fit, CallType
    <3>5. BookOf(r)'
      BY <1>1, <3>4 DEF BookOf, Genuine, Left, Book, Current, FullIsDue
    <3> QED BY <1>2, <3>1, <3>5, BookTurns
  <2> QED BY <1>6, <2>1, <2>2, <2>3, FetchFullMoves
<1> QED BY <1>4, <1>5, <1>6

\* What an answer to a delta knows of an item is true, or due again.
LEMMA Since ==
  ASSUME SyncTyped, NEW got, Genuine(got), got.of = "delta", NEW i \in Items
  PROVE  got.to[i] = Current(i) \/ i \in Changed(since)
<1>1. catalog[i].at \in Nat /\ clock \in Nat /\ since \in Nat
  BY DEF SyncTyped, Ledger
<1>2. got.version \in Nat /\ since <= got.version
  BY <1>1 DEF Genuine
<1>3. CASE catalog[i].at <= got.version
  BY <1>3 DEF Genuine
<1>4. CASE catalog[i].at > got.version
  BY <1>1, <1>2, <1>4 DEF Changed
<1> QED BY <1>1, <1>2, <1>3, <1>4

\* A write of an answer: what it puts in place is the answer's, and a full
\* replacement is marked as begun.
LEMMA WriteBook ==
  ASSUME SyncTyped, OneCaller, BookInv, NEW c \in Callers, calls[c].at \in Applying,
         UNCHANGED <<catalog, clock, since, etag, missed>>, torn => torn',
         NEW r, Turning(c, r), r.got = calls[c].got, r.at \in Applying \ {"clear products"},
         r.got.of = "full" => torn' /\ r.at \notin {"drop categories", "drop products"},
         r.got.of = "delta" => r.at # "clear categories",
         \A i \in Items : \/ local'[i] = local[i] \/ r.got.of = "full"
                          \/ i \in r.got.items /\ local'[i] = r.got.to[i],
         \A i \in r.got.items \ Left(r) : local'[i] = r.got.to[i],
         r.at = "clear categories" => \A i \in Categories : r.got.to[i] # 0 => i \in r.todo,
         r.todo \subseteq calls[c].todo
  PROVE  BookInv'
<1>1. Genuine(r.got) /\ (r.got.of = "full" \/ r.got.of = "delta")
  BY DEF BookInv, BookOf, Genuine
<1>2. Genuine(r.got)'
  BY <1>1 DEF Genuine, Current, FullIsDue
<1>3. Left(r)' = Left(r)
  BY DEF Left
<1>4. BookOf(r)'
  <2>1. r.at \in Writing => r.todo \subseteq r.got.items
    <3>1. calls[c].at \in Writing => calls[c].todo \subseteq r.got.items
      BY DEF BookInv, BookOf
    <3>2. calls[c].at \notin Writing => calls[c].todo = {}
      BY Unencumbered
    <3> QED BY <3>1, <3>2
  <2> QED BY <1>1, <1>2, <1>3, <2>1 DEF BookOf, Applying, Writing
<1>5. StaleOnlyByTheGaps'
  <2>1. CASE torn'
    BY <2>1 DEF StaleOnlyByTheGaps
  <2>2. CASE r.got.of = "delta"
    <3>1. ASSUME NEW i \in Items
          PROVE  (Right(i) \/ i \in Changed(since) \/ FullIsDue \/ i \in missed \/ torn)'
      <4>1. CASE local'[i] = local[i]
        <5>1. Right(i) \/ i \in Changed(since) \/ FullIsDue \/ i \in missed \/ torn
          BY DEF BookInv, StaleOnlyByTheGaps
        <5> QED BY <4>1, <5>1 DEF Right, Current, Changed, FullIsDue
      <4>2. CASE i \in r.got.items /\ local'[i] = r.got.to[i]
        BY <1>1, <2>2, <4>2, Since DEF Right, Current, Changed
      <4> QED BY <2>2, <4>1, <4>2
    <3> QED BY <3>1 DEF StaleOnlyByTheGaps
  <2> QED BY <1>1, <2>1, <2>2
<1> QED BY <1>4, <1>5, BookTurns

\* A write the database refuses leaves the catalogue as it was.
LEMMA RefusedBook ==
  ASSUME SyncTyped, OneCaller, BookInv, NEW c \in Callers, WriteFails(c), UNCHANGED Book
  PROVE  BookInv'
<1>1. \E r : Turning(c, r) /\ Fit(r, clock) /\ r.at \in {"full", "idle", "login"}
  BY WriteFailsMoves
<1>2. Moved(c, {"full", "idle", "login"})
  BY <1>1 DEF Moved
<1>3. {"full", "idle", "login"} \cap (Applying \cup {"delta"}) = {}
  BY DEF Applying, Writing
<1> QED BY <1>2, <1>3, BookQuiet

LEMMA ClearBook ==
  ASSUME SyncTyped, OneCaller, BookInv, NEW c \in Callers, ClearProducts(c) \/ ClearCategories(c)
  PROVE  BookInv'
<1>0. UNCHANGED <<catalog, clock, since, etag, missed>> /\ calls[c].at \in Applying
      /\ calls[c] \in CallType
  BY DEF ClearProducts, ClearCategories, platform, history, At, Applying, Writing, SyncTyped
<1>1. /\ BookOf(calls[c]) /\ Genuine(calls[c].got) /\ calls[c].got.of = "full"
      /\ calls[c].got.items = Items
  BY <1>0 DEF BookInv, BookOf, Genuine, ClearProducts, ClearCategories, At
<1>2. Categories \cap Products = {} /\ Items = Categories \cup Products
  BY SyncAssumption DEF SyncAssumption, Items
<1>3. CASE ClearProducts(c)
  <2>1. PICK r : /\ Turning(c, r) /\ r.at = "clear categories"
                 /\ r.got = calls[c].got /\ r.todo = calls[c].todo
    <3>1. PICK s : s = "clear categories" /\ Enters(c, s)
      BY <1>3 DEF ClearProducts
    <3>2. s \in Stages /\ s \in Writing
      BY <3>1 DEF Stages, Writing
    <3>3. \E r : /\ Turning(c, r) /\ Fit(r, clock) /\ r.at = s /\ r.mode = calls[c].mode
                 /\ r.got = calls[c].got /\ r.todo = calls[c].todo /\ r.etag = calls[c].etag
      BY <3>1, <3>2, EntersMoves, Zenon
    <3> QED BY <3>1, <3>3
  <2>2. torn' /\ local' = [i \in Items |-> IF i \in Products THEN 0 ELSE local[i]]
    BY <1>3 DEF ClearProducts
  <2>3. \A i \in Categories : r.got.to[i] # 0 => i \in r.todo
    BY <1>1, <1>3, <2>1 DEF BookOf, ClearProducts, At
  <2>4. \A i \in r.got.items \ Left(r) : local'[i] = r.got.to[i]
    BY <1>1, <1>2, <2>1, <2>2 DEF Left
  <2> QED BY <1>0, <1>1, <2>1, <2>2, <2>3, <2>4, WriteBook DEF Applying, Writing
<1>4. CASE ClearCategories(c) /\ Enters(c, "save categories")
           /\ local' = [i \in Items |-> IF i \in Categories THEN 0 ELSE local[i]]
  <2>1. PICK r : /\ Turning(c, r) /\ r.at = "save categories"
                 /\ r.got = calls[c].got /\ r.todo = calls[c].todo
    <3>1. PICK s : s = "save categories" /\ Enters(c, s)
      BY <1>4
    <3>2. s \in Stages /\ s \in Writing
      BY <3>1 DEF Stages, Writing
    <3>3. \E r : /\ Turning(c, r) /\ Fit(r, clock) /\ r.at = s /\ r.mode = calls[c].mode
                 /\ r.got = calls[c].got /\ r.todo = calls[c].todo /\ r.etag = calls[c].etag
      BY <3>1, <3>2, EntersMoves, Zenon
    <3> QED BY <3>1, <3>3
  <2>2. torn /\ torn' = torn
    BY <1>1, <1>4 DEF ClearCategories, BookOf, Applying, Writing, At, history
  <2>3. \A i \in Categories : r.got.to[i] # 0 => i \in r.todo
    BY <1>1, <1>4, <2>1 DEF BookOf, ClearCategories, At
  <2>4. \A i \in r.got.items \ Left(calls[c]) : local[i] = r.got.to[i]
    BY <1>0, <1>1, <2>1 DEF BookOf
  <2>5. \A i \in r.got.items \ Left(r) : local'[i] = r.got.to[i]
    <3>1. calls[c].at = "clear categories"
      BY <1>4 DEF ClearCategories, At
    <3>2. ASSUME NEW i \in Items, i \notin Left(r) PROVE local'[i] = r.got.to[i]
      <4>1. CASE i \in Categories
        BY <1>1, <1>4, <2>1, <2>3, <3>2, <4>1 DEF Left
      <4>2. CASE i \in Products
        BY <1>1, <1>2, <1>4, <2>1, <2>4, <3>1, <3>2, <4>2 DEF Left
      <4> QED BY <1>2, <4>1, <4>2
    <3> QED BY <1>1, <2>1, <3>2
  <2> QED BY <1>0, <1>1, <2>1, <2>2, <2>5, WriteBook DEF Applying, Writing
<1>5. CASE ClearCategories(c) /\ WriteFails(c) /\ UNCHANGED local
  BY <1>5, RefusedBook DEF ClearCategories, Book, platform, history
<1> QED BY <1>3, <1>4, <1>5 DEF ClearCategories

LEMMA SaveCategoryBook ==
  ASSUME SyncTyped, OneCaller, BookInv, NEW c \in Callers, NEW i \in Categories, SaveCategory(c, i)
  PROVE  BookInv'
<1>0. /\ UNCHANGED <<catalog, clock, since, etag, missed, torn>>
      /\ calls[c].at = "save categories" /\ calls[c].at \in Applying
      /\ calls[c] \in CallType /\ i \in calls[c].todo
  BY DEF SaveCategory, platform, history, At, Applying, Writing, SyncTyped
<1>1. BookOf(calls[c]) /\ Genuine(calls[c].got)
  BY <1>0 DEF BookInv, BookOf
<1>2. PICK r : /\ Turning(c, r) /\ r.at = "save categories"
               /\ r.got = calls[c].got /\ r.todo = calls[c].todo \ {i}
  BY SaveCategoryMoves
<1>3. local' = [local EXCEPT ![i] = r.got.to[i]] /\ i \in Items
  BY <1>2 DEF SaveCategory, Items
<1>4. \A j \in Items : local'[j] = IF j = i THEN r.got.to[i] ELSE local[j]
  BY <1>3 DEF SyncTyped, Ledger
<1>5. \A j \in r.got.items \ Left(calls[c]) : local[j] = r.got.to[j]
  BY <1>0, <1>1, <1>2 DEF BookOf
<1>6. r.got.items \subseteq Items
  BY <1>0, <1>2 DEF CallType, AnswerType
<1>7. \A j \in r.got.items \ Left(r) : local'[j] = r.got.to[j]
  BY <1>0, <1>2, <1>4, <1>5, <1>6 DEF Left
<1>8. r.got.of = "full" => torn'
  BY <1>0, <1>1, <1>2 DEF BookOf
<1>9. i \in r.got.items
  BY <1>0, <1>1, <1>2 DEF BookOf, Writing
<1> QED BY <1>0, <1>2, <1>4, <1>7, <1>8, <1>9, WriteBook DEF Applying, Writing

\* A stage that is entered with the answer and without categories left.
LEMMA EntersWriting ==
  ASSUME SyncTyped, NEW c \in Callers, NEW s \in Stages, Enters(c, s), calls[c].todo = {}
  PROVE  \E r : Turning(c, r) /\ r.at = s /\ r.got = calls[c].got /\ r.todo = {}
<1>1. \E r : /\ Turning(c, r) /\ Fit(r, clock) /\ r.at = s /\ r.mode = calls[c].mode
             /\ r.got = calls[c].got /\ r.todo = calls[c].todo /\ r.etag = calls[c].etag
  BY EntersMoves, Zenon
<1> QED BY <1>1

\* Categories and products are the items, and none is both.
LEMMA CatalogFacts ==
  ASSUME SyncTyped, NEW c \in Callers
  PROVE  /\ Categories \cap Products = {} /\ Items = Categories \cup Products
         /\ calls[c].got.items \subseteq Items
         /\ BookInv => BookOf(calls[c])
         /\ (BookInv /\ calls[c].at \in Applying) =>
              /\ Genuine(calls[c].got)
              /\ (calls[c].got.of = "full" /\ calls[c].got.items = Items)
                   \/ calls[c].got.of = "delta"
              /\ \A i \in calls[c].got.items \ Left(calls[c]) : local[i] = calls[c].got.to[i]
  BY SyncAssumption DEF SyncAssumption, Items, SyncTyped, CallType, AnswerType, BookInv, BookOf, Genuine

LEMMA CategoriesBook ==
  ASSUME SyncTyped, OneCaller, BookInv, NEW c \in Callers,
         SaveOrphan(c) \/ CategoriesSaved(c) \/ DropCategories(c)
  PROVE  BookInv'
<1>0. UNCHANGED <<catalog, clock, since, etag, missed, torn>>
  BY DEF SaveOrphan, CategoriesSaved, DropCategories, platform, history, store
<1>1. CASE WriteFails(c) /\ UNCHANGED local
  BY <1>0, <1>1, RefusedBook DEF Book
<1>2. CASE CategoriesSaved(c)
  <2>0. PICK s : /\ s = IF calls[c].got.of = "delta" THEN "drop categories" ELSE "save products"
                 /\ Enters(c, s)
    BY <1>2 DEF CategoriesSaved
  <2>1. /\ calls[c].at = "save categories" /\ calls[c].todo = {}
        /\ local' = local /\ s \in Stages /\ calls[c].at \in Applying
    BY <1>2, <2>0 DEF CategoriesSaved, At, store, Stages, Applying, Writing
  <2>2. PICK r : Turning(c, r) /\ r.at = s /\ r.got = calls[c].got /\ r.todo = {}
    <3>1. Enters(c, s) /\ s \in Stages /\ calls[c].todo = {}
      BY <2>0, <2>1
    <3> QED BY <3>1, EntersWriting
  <2>3. \A i \in r.got.items \ Left(r) : local[i] = r.got.to[i]
    <3>1. r.got.items \ Left(r) \subseteq calls[c].got.items \ Left(calls[c])
      BY <2>0, <2>1, <2>2, CatalogFacts DEF Left
    <3> QED BY <2>1, <2>2, <3>1, CatalogFacts
  <2>4. r.got.of = "full" => torn'
    BY <1>0, <2>1, <2>2, CatalogFacts DEF BookOf
  <2>5. /\ r.at \in Applying \ {"clear products"} /\ r.at # "clear categories"
        /\ r.got.of = "full" => r.at \notin {"drop categories", "drop products"}
    BY <2>0, <2>2 DEF Applying
  <2> QED BY <1>0, <2>1, <2>2, <2>3, <2>4, <2>5, WriteBook
<1>3. CASE DropCategories(c) /\ Enters(c, "save products")
           /\ local' = Rewritten(Gone(c, Categories), calls[c].got.to)
  <2>1. /\ calls[c].at = "drop categories" /\ calls[c].todo = {} /\ calls[c].at \in Applying
        /\ calls[c].got.of = "delta"
    BY <1>3, Unencumbered, CatalogFacts DEF DropCategories, At, Applying, Writing, BookOf
  <2>2. PICK s : s = "save products" /\ Enters(c, s)
    BY <1>3
  <2>3. s \in Stages
    BY <2>2 DEF Stages
  <2>4. PICK r : Turning(c, r) /\ r.at = s /\ r.got = calls[c].got /\ r.todo = {}
    BY <2>1, <2>2, <2>3, EntersWriting
  <2>5. \A i \in Items : local'[i] = IF i \in r.got.items \cap Categories /\ r.got.to[i] = 0
                                     THEN r.got.to[i] ELSE local[i]
    BY <1>3, <2>4 DEF Rewritten, Gone
  <2>6. \A i \in r.got.items \ Left(r) : local'[i] = r.got.to[i]
    <3>1. ASSUME NEW i \in r.got.items, i \notin Left(r), ~(i \in Categories /\ r.got.to[i] = 0)
          PROVE  i \notin Left(calls[c])
      BY <2>1, <2>2, <2>4, <3>1, CatalogFacts DEF Left
    <3> QED BY <2>1, <2>4, <2>5, <3>1, CatalogFacts
  <2>7. r.at \in Applying \ {"clear products"} /\ r.at # "clear categories"
    BY <2>2, <2>4 DEF Applying
  <2> QED BY <1>0, <2>1, <2>4, <2>5, <2>6, <2>7, WriteBook
<1> QED BY <1>1, <1>2, <1>3 DEF SaveOrphan, DropCategories, store

LEMMA ProductsBook ==
  ASSUME SyncTyped, OneCaller, BookInv, NEW c \in Callers, SaveProducts(c) \/ DropProducts(c)
  PROVE  BookInv'
<1>0. UNCHANGED <<catalog, clock, since, etag, missed, torn>>
  BY DEF SaveProducts, DropProducts, platform, history, store
<1>a. calls[c].todo = {} /\ calls[c].at \in Applying
  BY Unencumbered DEF SaveProducts, DropProducts, At, Applying, Writing
<1>1. CASE WriteFails(c) /\ UNCHANGED local
  BY <1>0, <1>1, RefusedBook DEF Book
<1>2. CASE SaveProducts(c) /\ ~(WriteFails(c) /\ UNCHANGED local)
  <2> DEFINE saved == {i \in calls[c].got.items \cap Products : calls[c].got.to[i] # 0}
  <2>0. PICK s : /\ s = IF calls[c].got.of = "delta" THEN "drop products" ELSE "record"
                 /\ Enters(c, s)
    BY <1>2 DEF SaveProducts
  <2>1. calls[c].at = "save products" /\ local' = Rewritten(saved, calls[c].got.to)
    BY <1>2 DEF SaveProducts, At
  <2>2. s \in Stages /\ s \in Applying \ {"clear products", "clear categories", "drop categories"}
        /\ (calls[c].got.of = "full" => s # "drop products")
    BY <2>0 DEF Stages, Applying, Writing
  <2>3. PICK r : Turning(c, r) /\ r.at = s /\ r.got = calls[c].got /\ r.todo = {}
    <3>1. Enters(c, s) /\ s \in Stages /\ calls[c].todo = {}
      BY <1>a, <2>0, <2>2
    <3> QED BY <3>1, EntersWriting
  <2>4. \A i \in Items : local'[i] = IF i \in r.got.items \cap Products /\ r.got.to[i] # 0
                                     THEN r.got.to[i] ELSE local[i]
    BY <2>1, <2>3 DEF Rewritten
  <2>5. \A i \in r.got.items \ Left(r) : local'[i] = r.got.to[i]
    <3>1. ASSUME NEW i \in r.got.items, i \notin Left(r), ~(i \in Products /\ r.got.to[i] # 0)
          PROVE  i \notin Left(calls[c])
      BY <1>a, <2>0, <2>1, <2>3, <3>1, CatalogFacts DEF Left
    <3> QED BY <1>a, <2>3, <2>4, <3>1, CatalogFacts
  <2>6. r.got.of = "full" => torn'
    BY <1>0, <1>a, <2>1, <2>3, CatalogFacts DEF BookOf
  <2> QED BY <1>0, <1>a, <2>2, <2>3, <2>4, <2>5, <2>6, WriteBook
<1>3. CASE DropProducts(c)
  <2>1. /\ calls[c].at = "drop products" /\ Enters(c, "record")
        /\ local' = Rewritten(Gone(c, Products), calls[c].got.to)
    BY <1>3 DEF DropProducts, At
  <2>2. "record" \in Stages /\ "record" \in Applying /\ calls[c].got.of = "delta"
    BY <1>a, <2>1, CatalogFacts DEF Stages, Applying, BookOf
  <2>3. PICK r : Turning(c, r) /\ r.at = "record" /\ r.got = calls[c].got /\ r.todo = {}
    BY <1>a, <2>1, <2>2, EntersWriting
  <2>4. \A i \in Items : local'[i] = IF i \in r.got.items \cap Products /\ r.got.to[i] = 0
                                     THEN r.got.to[i] ELSE local[i]
    BY <2>1, <2>3 DEF Rewritten, Gone
  <2>5. \A i \in r.got.items \ Left(r) : local'[i] = r.got.to[i]
    <3>1. ASSUME NEW i \in r.got.items, ~(i \in Products /\ r.got.to[i] = 0)
          PROVE  i \notin Left(calls[c])
      BY <1>a, <2>1, <2>3, <3>1, CatalogFacts DEF Left
    <3> QED BY <1>a, <2>3, <2>4, <3>1, CatalogFacts
  <2> QED BY <1>0, <1>a, <2>2, <2>3, <2>4, <2>5, WriteBook
<1> QED BY <1>1, <1>2, <1>3

\* The record: what was answered is in place, and what changed since is owed
\* to the gap.
LEMMA RecordBook ==
  ASSUME SyncTyped, OneCaller, BookInv, NEW c \in Callers, RecordCatalog(c)
  PROVE  BookInv'
<1> DEFINE got == calls[c].got
<1>1. /\ UNCHANGED <<catalog, clock, local>> /\ since' = clock
      /\ missed' = Changed(got.version) \cup (missed \ got.items)
      /\ torn' = (torn /\ got.of = "delta") /\ calls[c].at = "record"
  BY DEF RecordCatalog, platform, At
<1>2. calls[c].at \in Applying /\ calls[c].at = "record"
  BY <1>1 DEF Applying
<1>3. Genuine(got) /\ got.items \subseteq Items /\ \A i \in got.items : local[i] = got.to[i]
  BY <1>2, CatalogFacts DEF Left
<1>4. StaleOnlyByTheGaps'
  <2>1. ASSUME NEW i \in Items, i \notin Changed(got.version), i \notin missed \ got.items,
               ~(torn /\ got.of = "delta")
        PROVE  Right(i)
    <3>0. catalog[i].at <= got.version
      <4>1. catalog[i].at \in Nat /\ clock \in Nat
        BY DEF SyncTyped, Ledger
      <4>2. got.version \in Nat
        BY <1>3, <4>1 DEF Genuine
      <4> QED BY <2>1, <4>1, <4>2 DEF Changed
    <3>1. CASE i \in got.items
      BY <1>3, <3>0, <3>1 DEF Genuine, Right
    <3>2. CASE i \notin got.items
      <4>1. got.of = "delta" /\ ~FullIsDue /\ ~(catalog[i].at > since)
        BY <1>3, <3>0, <3>2 DEF Genuine
      <4>2. i \notin missed /\ ~torn /\ i \notin Changed(since)
        BY <2>1, <3>2, <4>1 DEF Changed
      <4> QED BY <4>1, <4>2 DEF BookInv, StaleOnlyByTheGaps
    <3> QED BY <3>1, <3>2
  <2> QED BY <1>1, <2>1 DEF StaleOnlyByTheGaps, Right, Current
<1>5. PICK r : Turning(c, r) /\ r.at = "operators"
  BY RecordMoves
<1>6. BookOf(r)'
  BY <1>5 DEF BookOf, Applying, Writing
<1> QED BY <1>4, <1>5, <1>6, BookTurns

LEMMA ListBook ==
  ASSUME SyncTyped, OneCaller, BookInv, NEW c \in Callers, ListStep(c)
  PROVE  BookInv'
<1> DEFINE ats == {"idle", "login", "drain", "features", "deactivate", "save", "record list"}
<1>1. ats \cap (Applying \cup {"delta"}) = {}
  BY DEF Applying, Writing
<1>2. Moved(c, ats)
  <2>1. CASE \E l \in Lists : FetchList(c, l)
    <3>1. PICK l \in Lists : FetchList(c, l)
      BY <2>1
    <3>2. CASE Moved(c, {"idle", "login", "drain"})
      BY <3>2 DEF Moved
    <3>3. CASE \E r : Turning(c, r) /\ Fit(r, clock) /\ r.at = "features" /\ r.etag = etag["features"]
      BY <3>3 DEF Moved
    <3>4. CASE \E r : /\ Turning(c, r) /\ Fit(r, clock) /\ r.got.of = l
                      /\ r.got.version = published[l]
                      /\ r.at = IF l = "operators" THEN "deactivate" ELSE "save"
      BY <3>4 DEF Moved
    <3>5. \/ Moved(c, {"idle", "login", "drain"})
          \/ \E r : Turning(c, r) /\ Fit(r, clock) /\ r.at = "features" /\ r.etag = etag["features"]
          \/ /\ calls[c].etag # published[l]
             /\ \E r : /\ Turning(c, r) /\ Fit(r, clock) /\ r.got.of = l
                       /\ r.got.version = published[l]
                       /\ r.at = IF l = "operators" THEN "deactivate" ELSE "save"
      BY <3>1, FetchListMoves
    <3> QED BY <3>2, <3>3, <3>4, <3>5
  <2>2. CASE DeactivateAllOperators(c) \/ SaveList(c) \/ RecordList(c)
    BY <2>2, RecordMoves DEF Moved
  <2> QED BY <2>1, <2>2 DEF ListStep
<1>3. etag'[Catalog] = etag[Catalog]
  <2>1. calls[c].got.of # Catalog
    BY DEF SyncTyped, CallType, AnswerType, Lists, Catalog
  <2> QED BY <2>1 DEF ListStep, FetchList, DeactivateAllOperators, SaveList, RecordList, store, SyncTyped, Ledger
<1>4. UNCHANGED Book
  BY <1>3 DEF ListStep, FetchList, DeactivateAllOperators, SaveList, RecordList, Book, store, platform, history
<1> HIDE DEF ats
<1> QED BY <1>1, <1>2, <1>4, BookQuiet

LEMMA WorldBook ==
  ASSUME SyncTyped, BookInv, World
  PROVE  BookInv'
<1>1. CASE \E i \in Items : Publish(i) \/ Withdraw(i)
  <2>1. PICK i \in Items, live \in BOOLEAN : Ticks(i, live)
    BY <1>1, TicksAre
  <2>2. /\ clock' = clock + 1 /\ missed' = missed \ {i}
        /\ catalog' = [catalog EXCEPT ![i] = [at |-> clock + 1, live |-> live]]
        /\ UNCHANGED <<local, since, etag, calls, torn>> /\ clock \in Nat /\ since \in 0..clock
    BY <2>1 DEF Ticks, store, SyncTyped, Ledger
  <2>3. \A j \in Items \ {i} : catalog'[j] = catalog[j]
    BY <2>2 DEF SyncTyped, Ledger
  <2>4. catalog'[i].at = clock + 1
    BY <2>2 DEF SyncTyped, Ledger
  <2>5. StaleOnlyByTheGaps'
    <3>1. ASSUME NEW j \in Items
          PROVE  (Right(j) \/ j \in Changed(since) \/ FullIsDue \/ j \in missed \/ torn)'
      <4>1. CASE j = i
        BY <2>2, <2>4, <4>1 DEF Changed
      <4>2. CASE j # i
        <5>1. Right(j) \/ j \in Changed(since) \/ FullIsDue \/ j \in missed \/ torn
          BY DEF BookInv, StaleOnlyByTheGaps
        <5> QED BY <2>2, <2>3, <4>2, <5>1 DEF Right, Current, Changed, FullIsDue
      <4> QED BY <4>1, <4>2
    <3> QED BY <3>1 DEF StaleOnlyByTheGaps
  <2>6. ASSUME NEW got, Genuine(got) PROVE Genuine(got)'
    <3>1. got.version \in 1..clock /\ got.version \in 1..clock'
      BY <2>2, <2>6 DEF Genuine
    <3>2. ~(catalog'[i].at <= got.version)
      BY <2>2, <2>4, <3>1
    <3> QED BY <2>2, <2>3, <2>6, <3>1, <3>2 DEF Genuine, Current, FullIsDue
  <2>7. ASSUME NEW c \in Callers PROVE BookOf(calls[c])'
    <3>1. BookOf(calls[c])
      BY DEF BookInv
    <3>2. calls'[c] = calls[c] /\ Left(calls[c])' = Left(calls[c])
      BY <2>2 DEF Left
    <3> QED BY <2>2, <2>6, <3>1, <3>2 DEF BookOf, FullIsDue
  <2> QED BY <2>5, <2>7 DEF BookInv
<1>2. CASE ~\E i \in Items : Publish(i) \/ Withdraw(i)
  <2>1. UNCHANGED <<catalog, clock, local, since, etag, missed, torn>>
    BY <1>2 DEF World, Republish, Disown, SessionLapses, GoesOffline, ComesOnline, Crash, LogsIn,
       store, history, platform
  <2>2. StaleOnlyByTheGaps'
    BY <2>1 DEF BookInv, StaleOnlyByTheGaps, Right, Current, Changed, FullIsDue
  <2>3. calls' = calls \/ \A c \in Callers : calls'[c] = Idle
    BY <1>2 DEF World, Republish, Disown, SessionLapses, GoesOffline, ComesOnline, Crash, LogsIn
  <2>4. ASSUME NEW c \in Callers PROVE BookOf(calls[c])'
    <3>1. CASE calls' = calls
      BY <2>1, <3>1 DEF BookInv, BookOf, Genuine, Left, Current, FullIsDue
    <3>2. CASE calls'[c] = Idle
      BY <3>2 DEF Idle, BookOf, Applying, Writing
    <3> QED BY <2>3, <3>1, <3>2
  <2> QED BY <2>2, <2>4 DEF BookInv
<1> QED BY <1>1, <1>2

LEMMA BookStarts == Init => BookInv
<1> SUFFICES ASSUME Init PROVE BookInv
  OBVIOUS
<1>1. StaleOnlyByTheGaps
  BY DEF Init, StaleOnlyByTheGaps, FullIsDue
<1>2. \A c \in Callers : calls[c] = Idle
  BY DEF Init
<1>3. BookOf(Idle)
  BY DEF Idle, BookOf, Applying, Writing
<1> QED BY <1>1, <1>2, <1>3 DEF BookInv

LEMMA BookSteps == SyncTyped /\ OneCaller /\ BookInv /\ [Next]_vars => BookInv'
<1> SUFFICES ASSUME SyncTyped, OneCaller, BookInv, [Next]_vars PROVE BookInv'
  OBVIOUS
<1>1. CASE Next
  <2>1. ASSUME NEW c \in Callers, WriteStep(c) PROVE BookInv'
    BY <2>1, ClearBook, SaveCategoryBook, CategoriesBook, ProductsBook DEF WriteStep
  <2> QED BY <1>1, <2>1, NextIs, WorldBook, CycleBook, FetchBook, RecordBook, ListBook
<1>2. CASE UNCHANGED vars
  <2>1. UNCHANGED <<catalog, clock, local, since, etag, missed, torn, calls>>
    BY <1>2 DEF vars, platform, store, history
  <2>2. StaleOnlyByTheGaps'
    BY <2>1 DEF BookInv, StaleOnlyByTheGaps, Right, Current, Changed, FullIsDue
  <2>3. ASSUME NEW c \in Callers PROVE BookOf(calls[c])'
    BY <2>1 DEF BookInv, BookOf, Genuine, Left, Current, FullIsDue
  <2> QED BY <2>2, <2>3 DEF BookInv
<1> QED BY <1>1, <1>2

\* For every catalogue: while one caller at a time runs the service, an item of
\* the till differs from the platform's only while its change is due again, or
\* by one of the two gaps.
THEOREM SyncStaleOnlyByTheGaps == OneCaller => (Spec => []StaleOnlyByTheGaps)
<1> SUFFICES ASSUME OneCaller PROVE Spec => []StaleOnlyByTheGaps
  OBVIOUS
<1>1. SyncTyped /\ BookInv /\ [Next]_vars => (SyncTyped /\ BookInv)'
  BY SyncStepsTyped, BookSteps
<1>2. Init => SyncTyped /\ BookInv
  BY SyncStartsTyped, BookStarts
<1>3. SyncTyped /\ BookInv => StaleOnlyByTheGaps
  BY DEF BookInv
<1> QED BY <1>1, <1>2, <1>3, PTL DEF Spec

-----------------------------------------------------------------------------
(* The lists.                                                              *)

Claims == <<held, etag, published>>
Handling == {"deactivate", "save", "record list"}

LEMMA ListTurns ==
  ASSUME SyncTyped, OneCaller, NEW c \in Callers, NEW r, Turning(c, r), ListsAsClaimed',
         \A l \in Lists : (etag[l] <= published[l] /\ published[l] > 0)', ListOf(r)'
  PROVE  ListInv'
  BY DEF SyncTyped, Turning, OneCaller, ListInv

\* A step that leaves the lists alone, and asks for one with the tag recorded.
LEMMA ListQuiet ==
  ASSUME SyncTyped, OneCaller, ListInv, NEW c \in Callers, UNCHANGED Claims,
         \E r : Turning(c, r) /\ r.at \notin Handling /\ (r.at \in Lists => r.etag = etag[r.at])
  PROVE  ListInv'
<1>1. ListsAsClaimed' /\ \A l \in Lists : (etag[l] <= published[l] /\ published[l] > 0)'
  BY DEF ListInv, ListsAsClaimed, Claims
<1>2. PICK r : Turning(c, r) /\ r.at \notin Handling /\ (r.at \in Lists => r.etag = etag[r.at])
  OBVIOUS
<1>3. ListOf(r)'
  BY <1>2 DEF ListOf, Handling, Claims
<1> QED BY <1>1, <1>2, <1>3, ListTurns

LEMMA Elsewhere ==
  ASSUME NEW c \in Callers, NEW ats, Moved(c, ats), ats \cap (Lists \cup Handling) = {}
  PROVE  \E r : Turning(c, r) /\ r.at \notin Handling /\ (r.at \in Lists => r.etag = etag[r.at])
  BY DEF Moved

LEMMA CycleList ==
  ASSUME SyncTyped, OneCaller, ListInv, NEW c \in Callers,
         RunSyncCycle(c) \/ SyncAll(c) \/ ForceFullSync(c) \/ Probe(c) \/ TryReauthenticate(c)
           \/ Drain(c)
  PROVE  ListInv'
<1> DEFINE ats == {"probe", "idle", "book", "login"}
<1>1. ats \cap (Lists \cup Handling) = {}
  BY DEF Lists, Handling
<1>2. Moved(c, ats)
  BY CycleMoves DEF Moved
<1> HIDE DEF ats
<1>3. CASE ~ForceFullSync(c)
  <2>1. UNCHANGED Claims
    BY <1>3 DEF RunSyncCycle, SyncAll, Probe, TryReauthenticate, Drain, Claims, platform, store
  <2> QED BY <1>1, <1>2, <2>1, Elsewhere, ListQuiet
<1>4. CASE ForceFullSync(c)
  <2>1. PICK r : Turning(c, r) /\ r.at \in ats
    BY <1>2 DEF Moved
  <2>2. held' = held /\ published' = published /\ \A l \in Lists : etag'[l] = 0
    BY <1>4 DEF ForceFullSync, platform, SyncTyped, Ledger
  <2>3. \A l \in Lists : published[l] > 0
    BY DEF ListInv
  <2>4. ListsAsClaimed' /\ \A l \in Lists : (etag[l] <= published[l] /\ published[l] > 0)'
    BY <2>2, <2>3 DEF ListsAsClaimed, SyncTyped, Ledger
  <2>5. ListOf(r)'
    BY <1>1, <2>1 DEF ListOf, Handling
  <2> QED BY <2>1, <2>4, <2>5, ListTurns
<1> QED BY <1>3, <1>4

LEMMA BookList ==
  ASSUME SyncTyped, OneCaller, ListInv, NEW c \in Callers,
         OpensBook(c) \/ FetchDelta(c) \/ FetchFull(c) \/ WriteStep(c)
  PROVE  ListInv'
<1>1. UNCHANGED Claims
  BY DEF OpensBook, FetchDelta, FetchFull, Claims, platform, store, WriteStep, ClearProducts,
     ClearCategories, SaveCategory, SaveOrphan, CategoriesSaved, DropCategories, SaveProducts, DropProducts
<1>2. CASE \E r : Turning(c, r) /\ r.at \notin Handling /\ (r.at \in Lists => r.etag = etag[r.at])
  BY <1>1, <1>2, ListQuiet
<1>3. CASE OpensBook(c)
  <2>1. \E r : Turning(c, r) /\ r.at \in {"delta", "full"}
    BY <1>3, OpensBookMoves
  <2> QED BY <1>2, <2>1 DEF Lists, Handling
<1>4. CASE FetchDelta(c)
  <2>1. CASE Moved(c, {"full"})
    BY <1>2, <2>1 DEF Moved, Lists, Handling
  <2>2. CASE \E r : Turning(c, r) /\ Fit(r, clock) /\ r.at = "operators" /\ r.etag = etag["operators"]
    BY <1>2, <2>2 DEF Handling
  <2>3. CASE \E r : /\ Turning(c, r) /\ Fit(r, clock) /\ r.at = "save categories"
                    /\ r.got = AnswerOf("delta", Changed(since)) /\ Living(r.got, r.todo)
    BY <1>2, <2>3 DEF Lists, Handling
  <2> QED BY <1>4, <2>1, <2>2, <2>3, FetchDeltaMoves
<1>5. CASE FetchFull(c)
  <2>1. CASE Moved(c, {"idle", "login"})
    BY <1>2, <2>1 DEF Moved, Lists, Handling
  <2>2. CASE \E r : Turning(c, r) /\ Fit(r, clock) /\ r.at = "operators" /\ r.etag = etag["operators"]
    BY <1>2, <2>2 DEF Handling
  <2>3. CASE \E r : /\ Turning(c, r) /\ Fit(r, clock) /\ r.at = "clear products"
                    /\ r.got = AnswerOf("full", Items) /\ Living(r.got, r.todo)
    BY <1>2, <2>3 DEF Lists, Handling
  <2> QED BY <1>5, <2>1, <2>2, <2>3, FetchFullMoves
<1>6. CASE WriteStep(c)
  <2>1. CASE WriteFails(c)
    <3>1. \E r : Turning(c, r) /\ Fit(r, clock) /\ r.at \in {"full", "idle", "login"}
      BY <2>1, WriteFailsMoves
    <3> QED BY <1>2, <3>1 DEF Lists, Handling
  <2>2. CASE \E i \in Categories : SaveCategory(c, i)
    <3>1. \E r : Turning(c, r) /\ r.at = "save categories"
      BY <2>2, SaveCategoryMoves
    <3> QED BY <1>2, <3>1 DEF Lists, Handling
  <2>3. CASE \E s \in Stages : Enters(c, s) /\ s \in Applying
    <3>1. PICK s \in Stages : Enters(c, s) /\ s \in Applying
      BY <2>3
    <3>2. PICK r : r = [calls[c] EXCEPT !.at = s] /\ Turning(c, r)
      BY <3>1 DEF Enters, Turning
    <3>3. r.at = s
      BY <3>2 DEF SyncTyped, CallType
    <3> QED BY <1>2, <3>1, <3>2, <3>3 DEF Applying, Writing, Lists, Handling
  <2> QED BY <1>6, <2>1, <2>2, <2>3 DEF WriteStep, ClearProducts, ClearCategories, SaveOrphan,
           CategoriesSaved, DropCategories, SaveProducts, DropProducts, Stages, Applying, Writing
<1> QED BY <1>3, <1>4, <1>5, <1>6

LEMMA RecordCatalogList ==
  ASSUME SyncTyped, OneCaller, ListInv, NEW c \in Callers, RecordCatalog(c)
  PROVE  ListInv'
<1>1. held' = held /\ published' = published /\ \A l \in Lists : etag'[l] = etag[l]
  BY DEF RecordCatalog, platform, SyncTyped, Ledger, Lists, Catalog
<1>2. PICK r : Turning(c, r) /\ r.at = "operators" /\ r.etag = etag["operators"]
  BY RecordMoves
<1>3. ListsAsClaimed' /\ \A l \in Lists : (etag[l] <= published[l] /\ published[l] > 0)'
  BY <1>1 DEF ListInv, ListsAsClaimed
<1>4. ListOf(r)'
  BY <1>1, <1>2 DEF ListOf, Lists
<1> QED BY <1>2, <1>3, <1>4, ListTurns

LEMMA FetchListList ==
  ASSUME SyncTyped, OneCaller, ListInv, NEW c \in Callers, NEW l \in Lists, FetchList(c, l)
  PROVE  ListInv'
<1>1. UNCHANGED Claims /\ calls[c].at = l /\ calls[c].etag = etag[l]
  BY DEF FetchList, Claims, platform, store, At, ListInv, ListOf
<1>2. CASE Moved(c, {"idle", "login", "drain"})
  BY <1>1, <1>2, ListQuiet DEF Moved, Lists, Handling
<1>3. CASE \E r : Turning(c, r) /\ Fit(r, clock) /\ r.at = "features" /\ r.etag = etag["features"]
  BY <1>1, <1>3, ListQuiet DEF Handling
<1>4. CASE /\ calls[c].etag # published[l]
           /\ \E r : /\ Turning(c, r) /\ Fit(r, clock) /\ r.got.of = l
                     /\ r.got.version = published[l]
                     /\ r.at = IF l = "operators" THEN "deactivate" ELSE "save"
  <2>1. PICK r : /\ Turning(c, r) /\ r.got.of = l /\ r.got.version = published[l]
                 /\ r.at = IF l = "operators" THEN "deactivate" ELSE "save"
    BY <1>4
  <2>2. etag[l] < published[l] /\ published[l] \in Nat
    BY <1>1, <1>4 DEF ListInv, SyncTyped, Ledger
  <2>3. ListOf(r)'
    BY <1>1, <2>1, <2>2 DEF ListOf, Lists, Claims
  <2>4. ListsAsClaimed' /\ \A m \in Lists : (etag[m] <= published[m] /\ published[m] > 0)'
    BY <1>1 DEF ListInv, ListsAsClaimed, Claims
  <2> QED BY <2>1, <2>3, <2>4, ListTurns
<1> QED BY <1>2, <1>3, <1>4, FetchListMoves

LEMMA HandledList ==
  ASSUME SyncTyped, OneCaller, ListInv, NEW c \in Callers,
         DeactivateAllOperators(c) \/ SaveList(c) \/ RecordList(c)
  PROVE  ListInv'
<1> DEFINE l == calls[c].got.of
           v == calls[c].got.version
<1>1. /\ ListOf(calls[c]) /\ l \in Lists /\ etag[l] < v /\ v <= published[l] /\ v \in Nat
      /\ published' = published
  BY DEF ListInv, ListOf, DeactivateAllOperators, SaveList, RecordList, At, SyncTyped, CallType,
     AnswerType, platform
<1>2. CASE DeactivateAllOperators(c) \/ SaveList(c)
  <2>1. etag' = etag /\ \A m \in Lists \ {l} : held'[m] = held[m]
    BY <1>1, <1>2 DEF DeactivateAllOperators, SaveList, SyncTyped, Ledger, ListOf, At
  <2>2. SaveList(c) => held'[l] = v
    BY <1>1 DEF SaveList, SyncTyped, Ledger
  <2>3. PICK r : /\ Turning(c, r) /\ r.got = calls[c].got
                 /\ r.at = IF SaveList(c) THEN "record list" ELSE "save"
    <3>1. CASE SaveList(c)
      BY <3>1, RecordMoves
    <3>2. CASE ~SaveList(c)
      BY <1>2, <3>2, RecordMoves
    <3> QED BY <3>1, <3>2
  <2>4. ListsAsClaimed'
    BY <1>1, <2>1 DEF ListInv, ListsAsClaimed, SyncTyped, Ledger
  <2>5. ListOf(r)'
    BY <1>1, <2>1, <2>2, <2>3 DEF ListOf, Lists
  <2>6. \A m \in Lists : (etag[m] <= published[m] /\ published[m] > 0)'
    BY <1>1, <2>1 DEF ListInv
  <2> QED BY <2>3, <2>4, <2>5, <2>6, ListTurns
<1>3. CASE RecordList(c)
  <2>1. /\ held' = held /\ held[l] = v /\ etag'[l] = v
        /\ \A m \in Lists \ {l} : etag'[m] = etag[m]
    BY <1>1, <1>3 DEF RecordList, SyncTyped, Ledger, ListOf, At
  <2>2. PICK r : /\ Turning(c, r) /\ r.at \in {"features", "drain"}
                 /\ r.at = "features" => l = "operators" /\ r.etag = etag["features"]
    BY <1>3, RecordMoves
  <2>3. ListsAsClaimed' /\ \A m \in Lists : (etag[m] <= published[m] /\ published[m] > 0)'
    BY <1>1, <2>1 DEF ListInv, ListsAsClaimed
  <2>4. ListOf(r)'
    BY <2>1, <2>2 DEF ListOf, Lists
  <2> QED BY <2>2, <2>3, <2>4, ListTurns
<1> QED BY <1>2, <1>3

LEMMA WorldList ==
  ASSUME SyncTyped, ListInv, World
  PROVE  ListInv'
<1>1. /\ held' = held /\ etag' = etag
      /\ published' = published \/ \E l \in Lists : published' = [published EXCEPT ![l] = @ + 1]
      /\ calls' = calls \/ \A c \in Callers : calls'[c] = Idle
  BY DEF World, Publish, Withdraw, Ticks, Republish, Disown, SessionLapses, GoesOffline,
     ComesOnline, Crash, LogsIn, store, platform
<1>2. \A l \in Lists : /\ published[l] \in Nat /\ etag[l] \in Nat /\ published'[l] \in Nat
                       /\ published'[l] = published[l] \/ published'[l] = published[l] + 1
  BY <1>1 DEF SyncTyped, Ledger
<1>3. ListsAsClaimed' /\ \A l \in Lists : (etag[l] <= published[l] /\ published[l] > 0)'
  BY <1>1, <1>2 DEF ListInv, ListsAsClaimed
<1>4. ASSUME NEW c \in Callers PROVE ListOf(calls[c])'
  <2>1. CASE calls' = calls
    <3> DEFINE got == calls[c].got
    <3>1. ListOf(calls[c]) /\ got.version \in Nat
      BY DEF ListInv, SyncTyped, CallType, AnswerType
    <3>2. ASSUME got.of \in Lists, etag[got.of] < got.version, got.version <= published[got.of]
          PROVE  got.version <= published'[got.of]
      <4>1. /\ published[got.of] \in Nat
            /\ published'[got.of] = published[got.of] \/ published'[got.of] = published[got.of] + 1
        BY <1>2, <3>2
      <4> HIDE DEF got
      <4> QED BY <3>1, <3>2, <4>1
    <3> QED BY <1>1, <2>1, <3>1, <3>2 DEF ListOf
  <2>2. CASE calls'[c] = Idle
    BY <2>2 DEF Idle, ListOf, Lists
  <2> QED BY <1>1, <2>1, <2>2
<1> QED BY <1>3, <1>4 DEF ListInv

LEMMA ListStarts == Init => ListInv
<1> SUFFICES ASSUME Init PROVE ListInv
  OBVIOUS
<1>1. \A l \in Lists : etag[l] = 0 /\ published[l] = 1
  BY DEF Init
<1>2. \A c \in Callers : calls[c] = Idle
  BY DEF Init
<1>3. ListOf(Idle)
  BY DEF Idle, ListOf, Lists
<1> QED BY <1>1, <1>2, <1>3 DEF ListInv, ListsAsClaimed

LEMMA ListSteps == SyncTyped /\ OneCaller /\ ListInv /\ [Next]_vars => ListInv'
<1> SUFFICES ASSUME SyncTyped, OneCaller, ListInv, [Next]_vars PROVE ListInv'
  OBVIOUS
<1>1. CASE Next
  <2>1. ASSUME NEW c \in Callers, ListStep(c) PROVE ListInv'
    BY <2>1, FetchListList, HandledList DEF ListStep
  <2> QED BY <1>1, <2>1, NextIs, WorldList, CycleList, BookList, RecordCatalogList
<1>2. CASE UNCHANGED vars
  <2>1. UNCHANGED Claims /\ calls' = calls
    BY <1>2 DEF vars, platform, store, Claims
  <2>2. ASSUME NEW c \in Callers PROVE ListOf(calls[c])'
    BY <2>1 DEF ListInv, ListOf, Claims
  <2> QED BY <2>1, <2>2 DEF ListInv, ListsAsClaimed, Claims
<1> QED BY <1>1, <1>2

\* While one caller at a time runs the service, a tag the platform would answer
\* "not modified" to names the very list the till holds: no crash between the
\* writes leaves the operators switched off behind a current tag.
THEOREM SyncListsAsClaimed == OneCaller => (Spec => []ListsAsClaimed)
<1> SUFFICES ASSUME OneCaller PROVE Spec => []ListsAsClaimed
  OBVIOUS
<1>1. SyncTyped /\ ListInv /\ [Next]_vars => (SyncTyped /\ ListInv)'
  BY SyncStepsTyped, ListSteps
<1>2. Init => SyncTyped /\ ListInv
  BY SyncStartsTyped, ListStarts
<1>3. SyncTyped /\ ListInv => ListsAsClaimed
  BY DEF ListInv
<1> QED BY <1>1, <1>2, <1>3, PTL DEF Spec
=============================================================================
