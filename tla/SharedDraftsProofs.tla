------------------------- MODULE SharedDraftsProofs -------------------------
(* A shared draft is in one place and what the operator was told of it is    *)
(* true or owed: proved for any number of drafts, carts, queue items, drains *)
(* that overlap, failed calls and crashes.                                   *)
EXTENDS SharedDrafts, FiniteSetTheorems, TLAPS

CallStages == {"sent", "answered", "failed"}
Made == Carts \ Unused            \* the carts the platform has created
Absent(s) == queue[s].st = "absent"
Creates(a, d) == work[a].op = "CREATE" /\ work[a].id = d

\* Types, without the bound on an item's failures.
DraftShape ==
  /\ carts \in [Carts -> [st : {"none", "ACTIVE", "CONVERTED", "DELETED"}, of : Drafts \cup {NoId}]]
  /\ cache \in [Ids -> RowType]
  /\ queue \in [Slots -> [op : Operations \cup {"none"}, id : Ids \cup {NoId}, retry : Nat,
                          st : QueueStatus \cup {"absent", "gone"}]]
  /\ work \in [Actors -> WorkType]
  /\ saved \subseteq Drafts /\ converted \subseteq Carts /\ deleted \subseteq Carts
  /\ ended \subseteq Drafts /\ replays \in [Drafts -> Nat] /\ stranded \subseteq Slots
  /\ faults \in 0..MaxFaults

\* An id the till holds is a draft's, or of a cart that was created.
Known ==
  /\ \A c \in Made : carts[c].of \in Drafts
  /\ \A c \in Unused : /\ ~Exists(c) /\ c \notin converted \cup deleted
                       /\ \A s \in Slots : queue[s].id # c
                       /\ \A a \in Actors : work[a].id # c /\ c \notin work[a].got

\* A draft's creation is queued once, when its save returned.
Queue ==
  /\ \A s \in Slots : ~Absent(s) => queue[s].op \in Operations /\ queue[s].id \in Ids
  /\ \A s \in Slots : queue[s].op = "CREATE" => queue[s].id \in saved
  /\ \A s, t \in Slots : queue[s].op = "CREATE" /\ queue[t].op = "CREATE" /\ queue[s].id = queue[t].id
                         => s = t

DeskWork ==
  LET w == work[Desk] IN
  /\ w.at \in {"idle", "sent", "answered", "failed", "queueing", "after"}
  /\ w.at = "idle" => w = Idle
  /\ w.at \in CallStages => w.op # "none"
  /\ w.at = "queueing" => w.op = "CREATE" /\ Exists(w.id)
  /\ w.op = "CREATE" => w.id \in Drafts \ saved
  /\ w.op \in {"CONVERT", "DELETE"} => w.id \in Ids
  /\ w.at = "after" => /\ w.op \in {"CONVERT", "DELETE"} /\ DraftOf(w.id) \in ended
                       /\ w.id \in Active => Owed(w.op, w.id)

DrainWork(k) ==
  LET w == work[k] IN
  /\ w.at \in {"idle", "next", "sent", "answered", "failed", "completing"}
  /\ w.at = "idle" => w = Idle
  /\ w.at = "next" => w.slot = 0 /\ w.op = "none"
  /\ w.at \in CallStages \cup {"completing"} =>
       /\ w.slot \in Slots \ w.todo /\ ~Absent(w.slot)
       /\ w.op = queue[w.slot].op /\ w.id = queue[w.slot].id
  /\ \A s \in w.todo : ~Absent(s)

\* What an answer says is so when it is read.
Answered(a) ==
  LET w == work[a] IN
  /\ At(a, "answered") /\ w.op = "CREATE" =>
       IF w.reply = "ok" THEN \E c \in Made : w.got = {c} /\ carts[c].of = w.id
                         ELSE w.reply = "refused" /\ w.got = {}
  /\ At(a, "answered") /\ w.op \in {"CONVERT", "DELETE"} =>
       /\ w.reply = "ok" => w.id \in Carts /\ DraftOf(w.id) \in ended
       /\ w.reply \in {"ok", "gone"} => w.id \notin Active
       /\ w.reply = "gone" => w.op = "DELETE"
       /\ w.reply # "none"
  /\ At(a, "completing") /\ w.op \in {"CONVERT", "DELETE"} => w.id \notin Active

\* A drain that holds an item may count one more failure, and only Drains that
\* joined while the item had a try left hold it.
Holders(s) == {k \in Drains : s \in work[k].todo \/ work[k].slot = s}
Tried == \A s \in Slots : queue[s].retry + Cardinality(Holders(s)) <= MaxTries

\* Creations of a draft that may still be handled: a call under way or failed
\* that will be queued again, an item that waits, a save that may be repeated.
Trying(d) == {a \in Actors : /\ Creates(a, d)
                             /\ \/ work[a].at \in {"sent", "failed", "queueing"}
                                \/ At(a, "answered") /\ work[a].reply # "ok"}
Awaiting(d) == \E s \in Slots : queue[s].op = "CREATE" /\ queue[s].id = d /\ queue[s].st = "PENDING"
Unsaved(d)  == d \notin saved /\ ~Creates(Desk, d)
Chance(d)   == (IF Awaiting(d) THEN 1 ELSE 0) + (IF Unsaved(d) THEN 1 ELSE 0)
Paid == \A d \in Drafts : Cardinality(CartsOf(d)) + Cardinality(Trying(d)) + Chance(d) <= 1 + replays[d]

DraftInv ==
  /\ DraftShape /\ Known /\ Queue /\ DeskWork /\ (\A k \in Drains : DrainWork(k))
  /\ (\A a \in Actors : Answered(a)) /\ Tried /\ Paid /\ DraftKept /\ ToldIsTrueOrOwed

-----------------------------------------------------------------------------
(* Counting, and the least of a set of numbers.                            *)

One(p) == IF p THEN 1 ELSE 0

\* Two sets that differ in one element at most.
LEMMA CountOne ==
  ASSUME NEW S, NEW T, NEW a, IsFiniteSet(S), S \ {a} = T \ {a}
  PROVE  /\ IsFiniteSet(T) /\ Cardinality(S) \in Nat /\ Cardinality(T) \in Nat
         /\ Cardinality(T) + One(a \in S) = Cardinality(S) + One(a \in T)
<1> DEFINE U == S \ {a}
<1>1. IsFiniteSet(U)
  BY FS_Subset
<1>2. Cardinality(U) \in Nat /\ a \notin U
  BY <1>1, FS_CardinalityType
<1>3. IsFiniteSet(U \cup {a}) /\ Cardinality(U \cup {a}) = Cardinality(U) + 1
  BY <1>1, <1>2, FS_AddElement
<1>4. S = IF a \in S THEN U \cup {a} ELSE U
  OBVIOUS
<1>5. T = IF a \in T THEN U \cup {a} ELSE U
  OBVIOUS
<1> HIDE DEF U
<1>6. Cardinality(S) = Cardinality(U) + One(a \in S)
  BY <1>2, <1>3, <1>4 DEF One
<1>7. IsFiniteSet(T) /\ Cardinality(T) = Cardinality(U) + One(a \in T)
  BY <1>1, <1>2, <1>3, <1>5 DEF One
<1> QED BY <1>2, <1>6, <1>7 DEF One

\* The lowest number of a set is in it.
LEMMA LowestIsOne ==
  ASSUME NEW S \in SUBSET Nat, S # {}
  PROVE  Lowest(S) \in S
<1>1. PICK n \in S : \A m \in S : ~(<<m, n>> \in OpToRel(<, Nat))
  BY WFMin, NatLessThanWellFounded, Zenon
<1>2. \A m \in S : ~(m < n)
  BY <1>1, Zenon DEF OpToRel
<1>3. \A m \in S : n <= m
  BY <1>2
<1> QED BY <1>3 DEF Lowest

\* The ids of carts, slots and drafts are told apart.
LEMMA DraftIds ==
  /\ Carts \subseteq Nat \ {0} /\ Slots \subseteq Nat \ {0} /\ NoId = 0
  /\ Drafts \cap Carts = {} /\ NoId \notin Ids /\ Desk \notin Drains
  /\ IsFiniteSet(Actors) /\ IsFiniteSet(Carts) /\ MaxRetries \in Nat \ {0}
  /\ Cardinality(Drains) \in Nat
<1>1. IsFiniteSet(Carts)
  BY DraftAssumption, FS_Interval DEF DraftAssumption, Carts
<1>2. IsFiniteSet(Actors)
  BY DraftAssumption, FS_AddElement DEF DraftAssumption, Actors
<1>3. Cardinality(Drains) \in Nat
  BY DraftAssumption, FS_CardinalityType DEF DraftAssumption
<1> QED BY <1>1, <1>2, <1>3, DraftAssumption DEF DraftAssumption, Carts, Slots, Ids, NoId

-----------------------------------------------------------------------------
(* What a step leaves of the work of the others.                           *)

Only(a) == work' \in [Actors -> WorkType] /\ \A b \in Actors \ {a} : work'[b] = work[b]

\* A cart keeps its draft, and is never active again.
CartsStep ==
  /\ \A c \in Made : c \in Made' /\ carts'[c].of = carts[c].of /\ (c \in Active' => c \in Active)
  /\ ended \subseteq ended'

\* An item keeps its operation and its id.
QueueStep ==
  \A s \in Slots : ~Absent(s) =>
    ~Absent(s)' /\ queue'[s].op = queue[s].op /\ queue'[s].id = queue[s].id

\* The answer another actor holds stays true.
LEMMA OthersAnswered ==
  ASSUME DraftShape, Known, CartsStep, NEW b \in Actors, work'[b] = work[b], Answered(b)
  PROVE  Answered(b)'
<1>1. work[b].id \in Carts => work[b].id \in Made
  BY DEF Known, Made
<1>2. work[b].id \in Active' => work[b].id \in Active
  BY <1>1 DEF CartsStep, Active
<1>3. DraftOf(work[b].id)' = DraftOf(work[b].id)
  BY <1>1 DEF CartsStep, DraftOf
<1>4. ended \subseteq ended'
  BY DEF CartsStep
<1>5. ASSUME NEW c \in Made, carts[c].of = work[b].id
      PROVE  c \in Made' /\ carts'[c].of = work[b].id
  BY <1>5 DEF CartsStep
<1> QED BY <1>2, <1>3, <1>4, <1>5 DEF Answered, At

\* The items another drain holds stay what they were.
LEMMA OthersDrain ==
  ASSUME DraftShape, QueueStep, NEW k \in Drains, work'[k] = work[k], DrainWork(k)
  PROVE  DrainWork(k)'
<1>1. work[k].todo \subseteq Slots
  BY DEF DraftShape, WorkType, Actors
<1> QED BY <1>1 DEF DrainWork, QueueStep, Absent

\* What the operator is waiting for stays true.
LEMMA DeskWaits ==
  ASSUME DraftShape, Known, CartsStep, DeskWork, work'[Desk] = work[Desk], saved' = saved,
         work[Desk].at = "queueing" => Exists(work[Desk].id)',
         \A op, c : c \in Active' /\ Owed(op, c) => Owed(op, c)'
  PROVE  DeskWork'
<1>1. work[Desk].id \in Carts => work[Desk].id \in Made
  BY DEF Known, Made, Actors
<1>2. work[Desk].id \in Active' => work[Desk].id \in Active
  BY <1>1 DEF CartsStep, Active
<1>3. DraftOf(work[Desk].id)' = DraftOf(work[Desk].id)
  BY <1>1 DEF CartsStep, DraftOf
<1>4. ended \subseteq ended'
  BY DEF CartsStep
<1> QED BY <1>2, <1>3, <1>4 DEF DeskWork

\* One actor's step leaves the others' failures as they were.
LEMMA TriedStep ==
  ASSUME DraftShape, Tried, NEW a \in Drains, Only(a), queue' \in [Slots -> [op : Operations \cup {"none"},
           id : Ids \cup {NoId}, retry : Nat, st : QueueStatus \cup {"absent", "gone"}]],
         \A s \in Slots : queue'[s].retry + One(a \in Holders(s)') <= queue[s].retry + One(a \in Holders(s))
  PROVE  Tried'
<1> SUFFICES ASSUME NEW s \in Slots PROVE queue'[s].retry + Cardinality(Holders(s)') <= MaxTries
  BY DEF Tried
<1>1. IsFiniteSet(Holders(s))
  BY DraftAssumption, FS_Subset DEF DraftAssumption, Holders
<1>2. Holders(s) \ {a} = Holders(s)' \ {a}
  BY DEF Only, Holders, Actors
<1>3. /\ Cardinality(Holders(s)) \in Nat /\ Cardinality(Holders(s)') \in Nat
      /\ Cardinality(Holders(s)') + One(a \in Holders(s)) = Cardinality(Holders(s)) + One(a \in Holders(s)')
  BY <1>1, <1>2, CountOne
<1>4. queue'[s].retry \in Nat /\ queue[s].retry \in Nat
  BY DEF DraftShape
<1>5. queue[s].retry + Cardinality(Holders(s)) <= MaxTries /\ MaxTries \in Int
  BY DraftIds DEF Tried, MaxTries
<1>6. queue'[s].retry + One(a \in Holders(s)') <= queue[s].retry + One(a \in Holders(s))
  OBVIOUS
<1> QED BY <1>3, <1>4, <1>5, <1>6 DEF One

\* So does a step of the operator.
LEMMA TriedAtDesk ==
  ASSUME DraftShape, DraftShape', Tried, Only(Desk),
         \A s \in Slots : queue'[s].retry <= queue[s].retry
  PROVE  Tried'
<1> SUFFICES ASSUME NEW s \in Slots PROVE queue'[s].retry + Cardinality(Holders(s)') <= MaxTries
  BY DEF Tried
<1>1. Holders(s)' = Holders(s)
  BY DraftIds DEF Only, Holders, Actors
<1>2. Cardinality(Holders(s)) \in Nat
  BY DraftAssumption, FS_Subset, FS_CardinalityType DEF DraftAssumption, Holders
<1>3. queue'[s].retry \in Nat /\ queue[s].retry \in Nat /\ queue'[s].retry <= queue[s].retry
  BY DEF DraftShape
<1>4. queue[s].retry + Cardinality(Holders(s)) <= MaxTries /\ MaxTries \in Int
  BY DraftIds DEF Tried, MaxTries
<1> QED BY <1>1, <1>2, <1>3, <1>4

\* One actor's step, draft by draft.
LEMMA PaidStep ==
  ASSUME DraftShape, Paid, NEW a \in Actors, Only(a), replays' \in [Drafts -> Nat],
         \A d \in Drafts :
           /\ IsFiniteSet(CartsOf(d)')
           /\ Cardinality(CartsOf(d)') + One(a \in Trying(d)') + Chance(d)' + replays[d]
                <= Cardinality(CartsOf(d)) + One(a \in Trying(d)) + Chance(d) + replays'[d]
  PROVE  Paid'
<1> SUFFICES ASSUME NEW d \in Drafts
             PROVE  Cardinality(CartsOf(d)') + Cardinality(Trying(d)') + Chance(d)' <= 1 + replays'[d]
  BY DEF Paid
<1>1. IsFiniteSet(Trying(d)) /\ IsFiniteSet(CartsOf(d))
  BY DraftIds, FS_Subset DEF Trying, CartsOf
<1>2. Trying(d) \ {a} = Trying(d)' \ {a}
  BY DEF Only, Trying, Creates, At
<1>3. /\ Cardinality(Trying(d)) \in Nat /\ Cardinality(Trying(d)') \in Nat
      /\ Cardinality(Trying(d)') + One(a \in Trying(d)) = Cardinality(Trying(d)) + One(a \in Trying(d)')
  BY <1>1, <1>2, CountOne
<1>4. /\ Cardinality(CartsOf(d)) \in Nat /\ Cardinality(CartsOf(d)') \in Nat
      /\ replays[d] \in Nat /\ replays'[d] \in Nat
  BY <1>1, FS_CardinalityType DEF DraftShape
<1>5. Cardinality(CartsOf(d)) + Cardinality(Trying(d)) + Chance(d) <= 1 + replays[d]
  BY DEF Paid
<1>6. Chance(d) \in Nat /\ Chance(d)' \in Nat
  BY DEF Chance
<1>7. Cardinality(CartsOf(d)') + One(a \in Trying(d)') + Chance(d)' + replays[d]
                <= Cardinality(CartsOf(d)) + One(a \in Trying(d)) + Chance(d) + replays'[d]
  OBVIOUS
<1> HIDE DEF Chance
<1> QED BY <1>3, <1>4, <1>5, <1>6, <1>7 DEF One

\* A step that creates nothing and sends nothing pays for nothing.
LEMMA PaidAsBefore ==
  ASSUME DraftInv, NEW a \in Actors, Only(a), UNCHANGED replays,
         \A d \in Drafts : /\ CartsOf(d)' = CartsOf(d)
                           /\ One(a \in Trying(d)') + Chance(d)' <= One(a \in Trying(d)) + Chance(d)
  PROVE  Paid'
<1>1. DraftShape /\ Paid /\ replays' \in [Drafts -> Nat]
  BY DEF DraftInv, DraftShape
<1>2. ASSUME NEW d \in Drafts
      PROVE  /\ IsFiniteSet(CartsOf(d)')
             /\ Cardinality(CartsOf(d)') + One(a \in Trying(d)') + Chance(d)' + replays[d]
                  <= Cardinality(CartsOf(d)) + One(a \in Trying(d)) + Chance(d) + replays'[d]
  <2>1. IsFiniteSet(CartsOf(d))
    BY DraftIds, FS_Subset DEF CartsOf
  <2>2. Cardinality(CartsOf(d)) \in Nat /\ replays[d] \in Nat /\ Chance(d) \in Nat /\ Chance(d)' \in Nat
    BY <1>1, <2>1, FS_CardinalityType DEF DraftShape, Chance
  <2>3. /\ CartsOf(d)' = CartsOf(d) /\ replays'[d] = replays[d]
        /\ One(a \in Trying(d)') + Chance(d)' <= One(a \in Trying(d)) + Chance(d)
    OBVIOUS
  <2> QED BY <2>1, <2>2, <2>3 DEF One
<1> QED BY <1>1, <1>2, PaidStep

\* The parts of the invariant, put together after a step of one actor.
LEMMA Assembled ==
  ASSUME DraftInv, NEW a \in Actors, DraftShape', Only(a), CartsStep, QueueStep,
         Known' /\ Queue' /\ Answered(a)',
         a \in Drains => DrainWork(a)' /\ saved' = saved,
         a = Desk => DeskWork',
         a # Desk /\ work[Desk].at = "queueing" => Exists(work[Desk].id)',
         \A op, c : c \in Active' /\ Owed(op, c) => Owed(op, c)',
         Tried' /\ Paid' /\ DraftKept' /\ ToldIsTrueOrOwed'
  PROVE  DraftInv'
<1>1. \A b \in Actors : Answered(b)'
  BY OthersAnswered DEF DraftInv, Only
<1>2. \A k \in Drains : DrainWork(k)'
  BY OthersDrain DEF DraftInv, Only, Actors
<1>3. DeskWork'
  <2>1. CASE a = Desk
    BY <2>1
  <2>2. CASE a # Desk
    <3>1. a \in Drains /\ work'[Desk] = work[Desk]
      BY <2>2 DEF Only, Actors
    <3> QED BY <2>2, <3>1, DeskWaits DEF DraftInv
  <2> QED BY <2>1, <2>2
<1> QED BY <1>1, <1>2, <1>3 DEF DraftInv

\* A draft that was kept stays kept, and one whose save returns is.
LEMMA KeptStep ==
  ASSUME DraftShape, DraftKept, Known, CartsStep,
         \A id \in Ids : Exists(id) => Exists(id)' \/ DraftOf(id) \in ended',
         \A c \in Active : c \in Active' \/ carts[c].of \in ended',
         \A d \in saved' \ saved : \/ \E id \in Ids : Exists(id)' /\ DraftOf(id)' = d
                                   \/ (CartsOf(d) \cap Active)' # {}
  PROVE  DraftKept'
<1> SUFFICES ASSUME NEW d \in saved' \ ended'
             PROVE  \/ \E id \in Ids : Exists(id)' /\ DraftOf(id)' = d
                    \/ (CartsOf(d) \cap Active)' # {}
  BY DEF DraftKept
<1>1. CASE d \in saved' \ saved
  BY <1>1
<1>2. CASE d \in saved
  <2>1. d \notin ended
    BY DEF CartsStep
  <2>2. CASE \E id \in Ids : Exists(id) /\ DraftOf(id) = d
    <3>1. PICK id \in Ids : Exists(id) /\ DraftOf(id) = d
      BY <2>2
    <3>2. Exists(id)'
      BY <3>1
    <3>3. id \in Carts => id \in Made
      BY <3>1 DEF Known, Made
    <3>4. DraftOf(id)' = d
      BY <3>1, <3>3 DEF CartsStep, DraftOf
    <3> QED BY <3>2, <3>4
  <2>3. CASE \E c \in Carts : c \in Active /\ carts[c].of = d
    <3>1. PICK c \in Active : carts[c].of = d
      BY <2>3
    <3>2. c \in Active'
      BY <3>1
    <3>3. c \in Made
      BY <3>1 DEF Active, Made, Unused
    <3>4. carts'[c].of = d
      BY <3>1, <3>3 DEF CartsStep
    <3> QED BY <3>2, <3>4 DEF CartsOf, Active
  <2> QED BY <1>2, <2>1, <2>2, <2>3 DEF DraftKept, CartsOf
<1> QED BY <1>1, <1>2

\* What was told stays true or owed where nothing owed is lost.
LEMMA ToldStep ==
  ASSUME DraftShape, Known, ToldIsTrueOrOwed, CartsStep,
         \A op, c : c \in Active' /\ Owed(op, c) => Owed(op, c)',
         \A c \in Active' : /\ c \in converted' \ converted => Owed("CONVERT", c)'
                            /\ c \in deleted' \ deleted => Owed("DELETE", c)'
  PROVE  ToldIsTrueOrOwed'
<1>1. ASSUME NEW c \in Active', c \in converted \cup deleted
      PROVE  c \in Active
  BY <1>1 DEF Known, Made, CartsStep, Active
<1>2. ASSUME NEW c \in (Active \cap converted)'
      PROVE  Owed("CONVERT", c)'
  BY <1>1, <1>2 DEF ToldIsTrueOrOwed
<1>3. ASSUME NEW c \in (Active \cap deleted)'
      PROVE  Owed("DELETE", c)'
  BY <1>1, <1>3 DEF ToldIsTrueOrOwed
<1> QED BY <1>2, <1>3 DEF ToldIsTrueOrOwed

-----------------------------------------------------------------------------
(* The work of an actor as it moves.                                       *)

WorkStages == {"idle", "next", "sent", "answered", "failed", "queueing", "after", "completing"}

\* A record is its fields.
Fields(w, at, op, id, slot, reply, got, todo) ==
  /\ w.at = at /\ w.op = op /\ w.id = id /\ w.slot = slot
  /\ w.reply = reply /\ w.got = got /\ w.todo = todo

LEMMA Entered ==
  ASSUME DraftShape, NEW a \in Actors, NEW stage \in WorkStages, Enters(a, stage)
  PROVE  /\ Only(a)
         /\ Fields(work'[a], stage, work[a].op, work[a].id, work[a].slot, work[a].reply,
                   work[a].got, work[a].todo)
  BY DEF DraftShape, Enters, Only, WorkType, WorkStages, Fields

LEMMA AnsweredNow ==
  ASSUME DraftShape, NEW a \in Actors, NEW reply \in {"ok", "gone", "refused"}, NEW got \in SUBSET Carts,
         Answers(a, reply, got)
  PROVE  /\ Only(a)
         /\ Fields(work'[a], "answered", work[a].op, work[a].id, work[a].slot, reply, got, work[a].todo)
<1> DEFINE r == [work[a] EXCEPT !.at = "answered", !.reply = reply, !.got = got]
<1>1. r \in WorkType
  <2> DEFINE r1 == [work[a] EXCEPT !.at = "answered"]
             r2 == [r1 EXCEPT !.reply = reply]
  <2>1. r1 \in WorkType
    BY DEF DraftShape, WorkType
  <2>2. r2 \in WorkType
    BY <2>1 DEF WorkType
  <2>3. [r2 EXCEPT !.got = got] \in WorkType
    BY <2>2 DEF WorkType
  <2>4. r = [r2 EXCEPT !.got = got]
    BY DEF DraftShape, WorkType
  <2> QED BY <2>3, <2>4
<1>2. work' = [work EXCEPT ![a] = r]
  BY DEF DraftShape, Answers, WorkType
<1>3. Fields(r, "answered", work[a].op, work[a].id, work[a].slot, reply, got, work[a].todo)
  BY DEF DraftShape, WorkType, Fields
<1> HIDE DEF r
<1>4. Only(a) /\ work'[a] = r
  BY <1>1, <1>2 DEF DraftShape, Only
<1> QED BY <1>3, <1>4

LEMMA DeskSends ==
  ASSUME DraftShape, NEW op \in Operations \cup {"LIST"}, NEW id \in Ids \cup {NoId}, Sends(op, id)
  PROVE  Only(Desk) /\ Fields(work'[Desk], "sent", op, id, 0, "none", {}, {})
<1> DEFINE r == [Idle EXCEPT !.at = "sent", !.op = op, !.id = id]
<1>1. r \in WorkType /\ Fields(r, "sent", op, id, 0, "none", {}, {})
  BY DEF WorkType, Idle, Operations, Fields
<1>2. work' = [work EXCEPT ![Desk] = r]
  BY DEF Sends
<1> HIDE DEF r
<1> QED BY <1>1, <1>2 DEF DraftShape, Only, Actors

LEMMA DeskDone ==
  ASSUME DraftShape, Done
  PROVE  /\ Only(Desk) /\ work'[Desk] = Idle
         /\ Fields(work'[Desk], "idle", "none", NoId, 0, "none", {}, {})
<1>1. Idle \in WorkType
  BY DEF Idle, WorkType, NoId, Operations
<1> QED BY <1>1 DEF DraftShape, Done, Only, Actors, Idle, Fields

\* A creation under way is a draft's, known to the queue or not yet saved.
LEMMA CreationsOfDrafts ==
  ASSUME DraftInv, NEW a \in Actors, work[a].op = "CREATE"
  PROVE  work[a].id \in Drafts /\ (a \in Drains => work[a].id \in saved)
<1>1. CASE a = Desk
  BY <1>1, DraftIds DEF DraftInv, DeskWork
<1>2. CASE a \in Drains
  <2>1. DrainWork(a)
    BY <1>2 DEF DraftInv
  <2>2. work[a].at \in CallStages \cup {"completing"}
    BY <2>1 DEF DrainWork, Idle, CallStages
  <2>3. work[a].slot \in Slots /\ work[a].op = queue[work[a].slot].op /\ work[a].id = queue[work[a].slot].id
    BY <2>1, <2>2 DEF DrainWork
  <2> QED BY <1>2, <2>3 DEF DraftInv, Queue, DraftShape
<1> QED BY <1>1, <1>2 DEF Actors

\* A step of a call under way: the till's tables stay as they were.
LEMMA CallStep ==
  ASSUME DraftInv, NEW a \in Actors, Only(a),
         work[a].at \in CallStages, work'[a].at \in CallStages,
         /\ work'[a].op = work[a].op /\ work'[a].id = work[a].id
         /\ work'[a].slot = work[a].slot /\ work'[a].todo = work[a].todo,
         work'[a].got \subseteq Made',
         UNCHANGED <<cache, queue, saved, converted, deleted, stranded>>,
         carts' \in [Carts -> [st : {"none", "ACTIVE", "CONVERTED", "DELETED"}, of : Drafts \cup {NoId}]],
         ended' \subseteq Drafts /\ replays' \in [Drafts -> Nat] /\ faults' \in 0..MaxFaults,
         CartsStep, \A c \in Made' : carts'[c].of \in Drafts,
         \A c \in Active : c \in Active' \/ carts[c].of \in ended',
         Answered(a)', Paid'
  PROVE  DraftInv'
<1>1. DraftShape'
  BY DEF DraftInv, DraftShape, Only
<1>2. QueueStep
  BY DEF QueueStep, Absent
<1>3. Unused' \subseteq Unused
  BY DEF CartsStep, Made, Unused
<1>4. \A b \in Actors : work'[b].id = work[b].id /\ (work'[b].got \subseteq work[b].got \/ b = a)
  BY DEF Only
<1>5. Known'
  <2>1. ASSUME NEW c \in Unused'
        PROVE  /\ ~Exists(c)' /\ c \notin converted' \cup deleted'
               /\ \A s \in Slots : queue'[s].id # c
               /\ \A b \in Actors : work'[b].id # c /\ c \notin work'[b].got
    <3>1. c \in Unused
      BY <1>3, <2>1
    <3>2. c \notin Made'
      BY <2>1 DEF Made
    <3> QED BY <1>4, <3>1, <3>2 DEF DraftInv, Known, Exists
  <2> QED BY <2>1 DEF Known
<1>6. Queue'
  BY DEF DraftInv, Queue, Absent
<1>7. a \in Drains => DrainWork(a)' /\ saved' = saved
  BY DraftIds DEF DraftInv, DrainWork, Absent, CallStages
<1>8. a = Desk => DeskWork'
  BY DEF DraftInv, DeskWork, CallStages
<1>9. a # Desk /\ work[Desk].at = "queueing" => Exists(work[Desk].id)'
  BY DEF DraftInv, DeskWork, Exists, Only, Actors
<1>10. \A op, c : c \in Active' /\ Owed(op, c) => Owed(op, c)'
  BY DEF Owed
<1>11. Tried'
  <2>1. CASE a = Desk
    BY <2>1, <1>1, TriedAtDesk DEF DraftInv, DraftShape
  <2>2. CASE a \in Drains
    <3>1. \A s \in Slots : (a \in Holders(s)') <=> (a \in Holders(s))
      BY DEF Holders
    <3> QED BY <2>2, <3>1, <1>1, TriedStep DEF DraftInv, DraftShape, One
  <2> QED BY <2>1, <2>2 DEF Actors
<1>12. DraftKept'
  BY KeptStep DEF DraftInv, Exists
<1>13. ToldIsTrueOrOwed'
  BY <1>10, ToldStep DEF DraftInv
<1> QED BY <1>1, <1>2, <1>5, <1>6, <1>7, <1>8, <1>9, <1>10, <1>11, <1>12, <1>13, Assembled

\* A step at the operator's desk: the platform and the drains stay as they were.
LEMMA DeskStep ==
  ASSUME DraftInv, Only(Desk), UNCHANGED <<carts, replays, stranded, faults>>,
         ended \subseteq ended' /\ ended' \subseteq Drafts /\ saved' \subseteq Drafts,
         converted' \subseteq Made /\ deleted' \subseteq Made,
         cache' \in [Ids -> RowType],
         queue' \in [Slots -> [op : Operations \cup {"none"}, id : Ids \cup {NoId}, retry : Nat,
                               st : QueueStatus \cup {"absent", "gone"}]],
         QueueStep, \A s \in Slots : queue'[s].retry <= queue[s].retry,
         \A op, c : c \in Active' /\ Owed(op, c) => Owed(op, c)',
         Known', Queue', DeskWork', Answered(Desk)', Paid', DraftKept', ToldIsTrueOrOwed'
  PROVE  DraftInv'
<1>1. DraftShape'
  BY DEF DraftInv, DraftShape, Only, Made
<1>2. CartsStep
  BY DEF CartsStep, Made, Unused, Active
<1>3. Tried'
  BY <1>1, TriedAtDesk DEF DraftInv
<1>4. Desk \in Actors /\ Desk \notin Drains
  BY DraftIds DEF Actors
<1> QED BY <1>1, <1>2, <1>3, <1>4, Assembled

\* A step of a drain: the platform and what the operator was told stay.
LEMMA DrainStep ==
  ASSUME DraftInv, NEW k \in Drains, Only(k),
         UNCHANGED <<carts, saved, converted, deleted, ended, stranded>>,
         replays' \in [Drafts -> Nat] /\ faults' \in 0..MaxFaults,
         cache' \in [Ids -> RowType],
         queue' \in [Slots -> [op : Operations \cup {"none"}, id : Ids \cup {NoId}, retry : Nat,
                               st : QueueStatus \cup {"absent", "gone"}]],
         \A s \in Slots : /\ queue'[s].op = queue[s].op /\ queue'[s].id = queue[s].id
                          /\ Absent(s)' <=> Absent(s),
         \A id \in Ids : Exists(id) => Exists(id)' \/ (DraftOf(id) \in ended /\ id \notin Drafts),
         \A c \in Unused : Exists(c)' => Exists(c),
         \A b \in Actors : work'[b].id \in {NoId, work[b].id} \cup {queue[s].id : s \in Slots},
         work'[k].got \subseteq work[k].got,
         \A op, c : c \in Active' /\ Owed(op, c) => Owed(op, c)',
         DrainWork(k)', Answered(k)', Tried', Paid'
  PROVE  DraftInv'
<1>1. DraftShape'
  BY DEF DraftInv, DraftShape, Only
<1>2. CartsStep
  BY DEF CartsStep, Made, Unused, Active
<1>3. QueueStep
  BY DEF QueueStep
<1>4. k \in Actors /\ k # Desk /\ work'[Desk] = work[Desk]
  BY DraftIds DEF Actors, Only
<1>5. Known'
  <2>1. ASSUME NEW c \in Unused
        PROVE  /\ ~Exists(c)' /\ c \notin converted \cup deleted
               /\ \A s \in Slots : queue'[s].id # c
               /\ \A b \in Actors : work'[b].id # c /\ c \notin work'[b].got
    <3>1. \A b \in Actors : work'[b].got \subseteq work[b].got
      BY <1>4 DEF Only
    <3>2. c # NoId
      BY DraftIds DEF Unused
    <3> QED BY <2>1, <3>1, <3>2 DEF DraftInv, Known
  <2>2. Unused' = Unused /\ Made' = Made
    BY DEF Unused, Made
  <2> QED BY <2>1, <2>2 DEF Known, DraftInv
<1>6. Queue'
  BY DEF DraftInv, Queue
<1>7. k # Desk /\ work[Desk].at = "queueing" => Exists(work[Desk].id)'
  BY <1>4 DEF DraftInv, DeskWork, Ids, Exists
<1>8. DraftKept'
  <2>1. \A id \in Ids : Exists(id) => Exists(id)' \/ DraftOf(id) \in ended'
    OBVIOUS
  <2>2. \A c \in Active : c \in Active'
    BY DEF Active
  <2> QED BY <1>2, <2>1, <2>2, KeptStep DEF DraftInv
<1>9. ToldIsTrueOrOwed'
  BY <1>2, ToldStep DEF DraftInv
<1> QED BY <1>1, <1>2, <1>3, <1>4, <1>5, <1>6, <1>7, <1>8, <1>9, Assembled

-----------------------------------------------------------------------------
(* The platform's steps, and calls that fail.                              *)

LEMMA HandleEndingKeeps ==
  ASSUME DraftInv, NEW a \in Actors, HandleConvert(a) \/ HandleDelete(a)
  PROVE  DraftInv'
<1>1. /\ work[a].at = "sent" /\ work[a].op \in {"CONVERT", "DELETE"}
      /\ UNCHANGED <<cache, queue, saved, converted, deleted, replays, stranded, faults>>
  BY DEF HandleConvert, HandleDelete, At
<1>2. PICK reply \in {"ok", "gone", "refused"}, got \in SUBSET Carts :
        /\ Answers(a, reply, got) /\ got = {}
        /\ reply = "gone" => work[a].op = "DELETE"
        /\ \/ /\ reply = "ok" /\ work[a].id \in Active
              /\ \E st \in {"CONVERTED", "DELETED"} : Ends(work[a].id, st)
           \/ /\ reply # "ok" /\ work[a].id \notin Active /\ UNCHANGED <<carts, ended>>
  BY DEF HandleConvert, HandleDelete
<1>3. /\ Only(a)
      /\ Fields(work'[a], "answered", work[a].op, work[a].id, work[a].slot, reply, got, work[a].todo)
  <2>1. DraftShape
    BY DEF DraftInv
  <2>2. Answers(a, reply, got)
    BY <1>2
  <2> QED BY <2>1, <2>2, AnsweredNow
<1>4. /\ work'[a].at = "answered" /\ work'[a].reply = reply /\ work'[a].got = {}
      /\ work'[a].op = work[a].op /\ work'[a].id = work[a].id
      /\ work'[a].slot = work[a].slot /\ work'[a].todo = work[a].todo
  BY <1>2, <1>3 DEF Fields
<1>5. /\ carts' \in [Carts -> [st : {"none", "ACTIVE", "CONVERTED", "DELETED"}, of : Drafts \cup {NoId}]]
      /\ \A c \in Carts : /\ carts'[c].of = carts[c].of
                          /\ carts'[c] = carts[c] \/ (c \in Active /\ carts'[c].st \in {"CONVERTED", "DELETED"}
                                                      /\ c = work[a].id /\ reply = "ok" /\ carts[c].of \in ended')
  BY <1>2 DEF DraftInv, DraftShape, Ends, Active
<1>6. ended \subseteq ended' /\ ended' \subseteq Drafts
  BY <1>2 DEF DraftInv, DraftShape, Known, Ends, Active, Made, Unused
<1>7. Made' = Made /\ Unused' = Unused
  BY <1>5 DEF Made, Unused, Active
<1>8. CartsStep /\ \A c \in Made' : carts'[c].of \in Drafts
  BY <1>5, <1>6, <1>7 DEF CartsStep, Made, Active, DraftInv, Known
<1>9. \A c \in Active : c \in Active' \/ carts[c].of \in ended'
  BY <1>5 DEF Active
<1>10. work[a].id \notin Active'
  BY <1>2, <1>5 DEF Active, Ends, DraftInv, DraftShape
<1>11. reply = "ok" => work[a].id \in Carts /\ DraftOf(work[a].id)' \in ended'
  BY <1>2, <1>4, <1>5 DEF DraftOf, Ends, Active
<1>12. Answered(a)'
  BY <1>1, <1>2, <1>4, <1>10, <1>11 DEF Answered, At, DraftOf
<1>13. Paid'
  <2>1. ASSUME NEW d \in Drafts
        PROVE  CartsOf(d)' = CartsOf(d) /\ a \notin Trying(d) /\ a \notin Trying(d)' /\ Chance(d)' = Chance(d)
    <3>1. CartsOf(d)' = CartsOf(d)
      BY <1>5 DEF CartsOf
    <3>2. a \notin Trying(d) /\ a \notin Trying(d)'
      BY <1>1, <1>4 DEF Trying, Creates
    <3>3. Creates(Desk, d)' <=> Creates(Desk, d)
      BY <1>3, <1>4 DEF Creates, Only, Actors
    <3> QED BY <1>1, <3>1, <3>2, <3>3 DEF Chance, Awaiting, Unsaved
  <2>2. \A d \in Drafts : /\ CartsOf(d)' = CartsOf(d)
                         /\ One(a \in Trying(d)') + Chance(d)' <= One(a \in Trying(d)) + Chance(d)
    <3> SUFFICES ASSUME NEW d \in Drafts
                 PROVE  /\ CartsOf(d)' = CartsOf(d)
                        /\ One(a \in Trying(d)') + Chance(d)' <= One(a \in Trying(d)) + Chance(d)
      OBVIOUS
    <3> QED BY <2>1 DEF One, Chance
  <2> QED BY <1>1, <1>3, <2>2, PaidAsBefore
<1>14. /\ replays' \in [Drafts -> Nat] /\ faults' \in 0..MaxFaults
       /\ work[a].at \in CallStages /\ work'[a].at \in CallStages /\ work'[a].got \subseteq Made'
  BY <1>1, <1>4 DEF DraftInv, DraftShape, CallStages
<1> QED BY <1>1, <1>3, <1>4, <1>5, <1>6, <1>8, <1>9, <1>12, <1>13, <1>14, CallStep

LEMMA HandleCreateKeeps ==
  ASSUME DraftInv, NEW a \in Actors, HandleCreate(a)
  PROVE  DraftInv'
<1>1. /\ work[a].at = "sent" /\ work[a].op = "CREATE"
      /\ UNCHANGED <<cache, queue, saved, converted, deleted, ended, replays, stranded, faults>>
  BY DEF HandleCreate, At, history
<1>2. work[a].id \in Drafts
  BY <1>1, CreationsOfDrafts
<1>3. PICK reply \in {"ok", "gone", "refused"}, got \in SUBSET Carts, c \in Carts \cup {NoId} :
        /\ Answers(a, reply, got)
        /\ \/ /\ reply = "ok" /\ c \in Unused /\ got = {c}
              /\ carts' = [carts EXCEPT ![c] = [st |-> "ACTIVE", of |-> work[a].id]]
           \/ reply = "refused" /\ got = {} /\ c = NoId /\ UNCHANGED carts
  <2>1. CASE Unused # {}
    <3>1. Lowest(Unused) \in Unused
      BY <2>1, LowestIsOne, DraftIds DEF Unused
    <3>2. PICK c \in Unused : c = Lowest(Unused)
      BY <3>1
    <3>3. carts' = [carts EXCEPT ![c] = [st |-> "ACTIVE", of |-> work[a].id]] /\ Answers(a, "ok", {c})
      BY <2>1, <3>2 DEF HandleCreate
    <3> QED BY <3>3 DEF Unused
  <2>2. CASE Unused = {}
    BY <2>2 DEF HandleCreate
  <2> QED BY <2>1, <2>2
<1>4. /\ Only(a)
      /\ Fields(work'[a], "answered", work[a].op, work[a].id, work[a].slot, reply, got, work[a].todo)
  <2>1. DraftShape
    BY DEF DraftInv
  <2>2. Answers(a, reply, got)
    BY <1>3
  <2> QED BY <2>1, <2>2, AnsweredNow
<1>5. /\ work'[a].at = "answered" /\ work'[a].reply = reply /\ work'[a].got = got
      /\ work'[a].op = work[a].op /\ work'[a].id = work[a].id
      /\ work'[a].slot = work[a].slot /\ work'[a].todo = work[a].todo
  BY <1>4 DEF Fields
<1>6. /\ carts' \in [Carts -> [st : {"none", "ACTIVE", "CONVERTED", "DELETED"}, of : Drafts \cup {NoId}]]
      /\ \A b \in Carts \ {c} : carts'[b] = carts[b]
      /\ reply = "ok" => carts'[c].st = "ACTIVE" /\ carts'[c].of = work[a].id
  BY <1>2, <1>3, DraftIds DEF DraftInv, DraftShape, Unused
<1>7. Made' = Made \cup got
  BY <1>3, <1>6, DraftIds DEF Made, Unused
<1>8. CartsStep /\ \A b \in Made' : carts'[b].of \in Drafts
  <2>1. c \notin Made
    BY <1>3, DraftIds DEF Made
  <2>2. \A b \in Made : b \in Carts /\ carts'[b] = carts[b]
    BY <1>6, <2>1 DEF Made
  <2> QED BY <1>1, <1>2, <1>3, <1>6, <1>7, <2>2 DEF CartsStep, Active, DraftInv, Known
<1>9. \A b \in Active : b \in Active'
  BY <1>3, <1>6, DraftIds DEF Active, Unused
<1>10. Answered(a)'
  BY <1>1, <1>3, <1>5, <1>6, <1>7 DEF Answered, At
<1>11. Paid'
  <2>1. ASSUME NEW d \in Drafts
        PROVE  /\ IsFiniteSet(CartsOf(d)')
               /\ Cardinality(CartsOf(d)') + One(a \in Trying(d)') + Chance(d)' + replays[d]
                    <= Cardinality(CartsOf(d)) + One(a \in Trying(d)) + Chance(d) + replays'[d]
    <3>1. IsFiniteSet(CartsOf(d)) /\ CartsOf(d) \ {c} = CartsOf(d)' \ {c}
      BY <1>6, DraftIds, FS_Subset DEF CartsOf
    <3>2. /\ IsFiniteSet(CartsOf(d)') /\ Cardinality(CartsOf(d)) \in Nat /\ Cardinality(CartsOf(d)') \in Nat
          /\ Cardinality(CartsOf(d)') + One(c \in CartsOf(d)) = Cardinality(CartsOf(d)) + One(c \in CartsOf(d)')
      BY <3>1, CountOne
    <3>3. c \in CartsOf(d)' => reply = "ok" /\ d = work[a].id
      BY <1>3, <1>6, DraftIds DEF CartsOf
    <3>4. /\ a \in Trying(d) <=> d = work[a].id
          /\ a \in Trying(d)' <=> d = work[a].id /\ reply # "ok"
      BY <1>1, <1>5 DEF Trying, Creates, At
    <3>5. Chance(d)' = Chance(d) /\ Chance(d) \in Nat /\ replays'[d] = replays[d] /\ replays[d] \in Nat
      <4>1. Creates(Desk, d)' <=> Creates(Desk, d)
        BY <1>4, <1>5 DEF Creates, Only, Actors
      <4> QED BY <1>1, <4>1 DEF Chance, Awaiting, Unsaved, DraftInv, DraftShape
    <3>6. One(a \in Trying(d)') + One(c \in CartsOf(d)') <= One(a \in Trying(d))
      BY <3>3, <3>4 DEF One
    <3>7. /\ One(a \in Trying(d)') \in Nat /\ One(c \in CartsOf(d)') \in Nat /\ One(a \in Trying(d)) \in Nat
          /\ One(c \in CartsOf(d)) \in Nat
      BY DEF One
    <3> QED BY <3>2, <3>5, <3>6, <3>7
  <2>2. DraftShape /\ Paid /\ replays' \in [Drafts -> Nat]
    BY <1>1 DEF DraftInv, DraftShape
  <2> QED BY <1>4, <2>1, <2>2, PaidStep
<1>12. /\ replays' \in [Drafts -> Nat] /\ faults' \in 0..MaxFaults /\ ended' \subseteq Drafts
       /\ work[a].at \in CallStages /\ work'[a].at \in CallStages /\ work'[a].got \subseteq Made'
  BY <1>1, <1>5, <1>7 DEF DraftInv, DraftShape, CallStages
<1> QED BY <1>1, <1>4, <1>5, <1>6, <1>8, <1>9, <1>10, <1>11, <1>12, CallStep

LEMMA HandleListKeeps ==
  ASSUME DraftInv, HandleList
  PROVE  DraftInv'
<1>1. /\ work[Desk].at = "sent" /\ work[Desk].op = "LIST"
      /\ UNCHANGED <<carts, cache, queue, saved, converted, deleted, ended, replays, stranded, faults>>
  BY DEF HandleList, At, history
<1>2. PICK reply \in {"ok", "gone", "refused"}, got \in SUBSET Carts, a \in Actors :
        Answers(a, reply, got) /\ a = Desk /\ got = Active
  BY DEF HandleList, Active, Actors
<1>3. /\ Only(a)
      /\ Fields(work'[a], "answered", work[a].op, work[a].id, work[a].slot, reply, got, work[a].todo)
  <2>1. DraftShape
    BY DEF DraftInv
  <2>2. Answers(a, reply, got)
    BY <1>2
  <2> QED BY <2>1, <2>2, AnsweredNow
<1>4. /\ work'[a].at = "answered" /\ work'[a].got = Active /\ work[a].op = "LIST" /\ work[a].at = "sent"
      /\ work'[a].op = work[a].op /\ work'[a].id = work[a].id
      /\ work'[a].slot = work[a].slot /\ work'[a].todo = work[a].todo
  BY <1>1, <1>2, <1>3 DEF Fields
<1>5. CartsStep /\ Made' = Made /\ Active' = Active /\ Active \subseteq Made
  BY <1>1 DEF CartsStep, Made, Active, Unused
<1>6. Answered(a)'
  BY <1>4 DEF Answered, At
<1>7. Paid'
  <2>1. \A d \in Drafts : /\ CartsOf(d)' = CartsOf(d)
                         /\ One(a \in Trying(d)') + Chance(d)' <= One(a \in Trying(d)) + Chance(d)
    <3> SUFFICES ASSUME NEW d \in Drafts
                 PROVE  /\ CartsOf(d)' = CartsOf(d)
                        /\ One(a \in Trying(d)') + Chance(d)' <= One(a \in Trying(d)) + Chance(d)
      OBVIOUS
    <3>1. CartsOf(d)' = CartsOf(d)
      BY <1>1 DEF CartsOf
    <3>2. a \notin Trying(d) /\ a \notin Trying(d)'
      BY <1>4 DEF Trying, Creates
    <3>3. Creates(Desk, d)' <=> Creates(Desk, d)
      BY <1>2, <1>4 DEF Creates
    <3> QED BY <1>1, <3>1, <3>2, <3>3 DEF Chance, Awaiting, Unsaved, One
  <2> QED BY <1>1, <1>3, <2>1, PaidAsBefore
<1>8. /\ replays' \in [Drafts -> Nat] /\ faults' \in 0..MaxFaults /\ ended' \subseteq Drafts
      /\ work[a].at \in CallStages /\ work'[a].at \in CallStages /\ work'[a].got \subseteq Made'
      /\ carts' \in [Carts -> [st : {"none", "ACTIVE", "CONVERTED", "DELETED"}, of : Drafts \cup {NoId}]]
      /\ \A c \in Made' : carts'[c].of \in Drafts
  BY <1>1, <1>4, <1>5 DEF DraftInv, DraftShape, CallStages, Known
<1> QED BY <1>1, <1>3, <1>4, <1>5, <1>6, <1>7, <1>8, CallStep

\* A failed call may be made again; if it had created a cart, the loss is
\* counted.
LEMMA CallLostKeeps ==
  ASSUME DraftInv, NEW a \in Actors, CallFails(a) \/ AnswerLost(a)
  PROVE  DraftInv'
<1>1. /\ work[a].at \in {"sent", "answered"} /\ faults' \in 0..MaxFaults /\ Enters(a, "failed")
      /\ UNCHANGED <<carts, cache, queue, saved, converted, deleted, ended, stranded>>
      /\ IF work[a].at = "sent" THEN UNCHANGED replays ELSE Unheard({a})
  BY DraftAssumption DEF CallFails, AnswerLost, At, history, Fault, DraftInv, DraftShape, DraftAssumption
<1>2. /\ Only(a)
      /\ work'[a].at = "failed" /\ work'[a].got = work[a].got
      /\ work'[a].op = work[a].op /\ work'[a].id = work[a].id
      /\ work'[a].slot = work[a].slot /\ work'[a].todo = work[a].todo
  <2>1. PICK stage \in WorkStages : stage = "failed" /\ Enters(a, stage)
    BY <1>1 DEF WorkStages
  <2>2. DraftShape
    BY DEF DraftInv
  <2>3. /\ Only(a)
        /\ Fields(work'[a], stage, work[a].op, work[a].id, work[a].slot, work[a].reply,
                  work[a].got, work[a].todo)
    BY <2>1, <2>2, Entered
  <2> QED BY <2>1, <2>3 DEF Fields
<1>3. CartsStep /\ Made' = Made /\ Active' = Active
  BY <1>1 DEF CartsStep, Made, Active, Unused
<1>4. Answered(a)'
  BY <1>2 DEF Answered, At
<1>5. ASSUME NEW d \in Drafts
      PROVE  /\ replays'[d] \in Nat /\ replays[d] <= replays'[d]
             /\ Creates(a, d) /\ work[a].at = "answered" /\ work[a].reply = "ok" => replays'[d] = replays[d] + 1
  <2>1. CASE work[a].at = "sent"
    BY <1>1, <2>1 DEF DraftInv, DraftShape
  <2>2. CASE work[a].at = "answered"
    <3> DEFINE U == {b \in {a} : work[b].got # {} /\ At(b, "answered") /\ work[b].op = "CREATE" /\ work[b].id = d}
    <3>1. replays'[d] = replays[d] + Cardinality(U)
      BY <1>1, <2>2 DEF Unheard
    <3>2. U = {} \/ U = {a}
      OBVIOUS
    <3>3. Creates(a, d) /\ work[a].reply = "ok" => U = {a}
      BY <2>2 DEF DraftInv, Answered, Creates, At
    <3> HIDE DEF U
    <3>4. Cardinality(U) \in Nat /\ (U = {a} => Cardinality(U) = 1)
      BY <3>2, FS_EmptySet, FS_Singleton
    <3> QED BY <3>1, <3>3, <3>4 DEF DraftInv, DraftShape
  <2> QED BY <1>1, <2>1, <2>2
<1>6. replays' \in [Drafts -> Nat]
  <2>1. replays' = replays \/ replays' = [d \in Drafts |-> replays'[d]]
    BY <1>1 DEF Unheard
  <2> QED BY <1>5, <2>1 DEF DraftInv, DraftShape
<1>7. Paid'
  <2>1. ASSUME NEW d \in Drafts
        PROVE  /\ IsFiniteSet(CartsOf(d)')
               /\ Cardinality(CartsOf(d)') + One(a \in Trying(d)') + Chance(d)' + replays[d]
                    <= Cardinality(CartsOf(d)) + One(a \in Trying(d)) + Chance(d) + replays'[d]
    <3>1. CartsOf(d)' = CartsOf(d) /\ IsFiniteSet(CartsOf(d)) /\ Cardinality(CartsOf(d)) \in Nat
      BY <1>1, DraftIds, FS_Subset, FS_CardinalityType DEF CartsOf
    <3>2. Chance(d)' = Chance(d) /\ Chance(d) \in Nat
      <4>1. Creates(Desk, d)' <=> Creates(Desk, d)
        BY <1>2 DEF Creates, Only, Actors
      <4> QED BY <1>1, <4>1 DEF Chance, Awaiting, Unsaved
    <3>3. /\ a \in Trying(d)' => Creates(a, d)
          /\ Creates(a, d) => a \in Trying(d) \/ (work[a].at = "answered" /\ work[a].reply = "ok")
      BY <1>1, <1>2 DEF Trying, Creates, At
    <3>4. replays[d] \in Nat
      BY DEF DraftInv, DraftShape
    <3>5. One(a \in Trying(d)') + replays[d] <= One(a \in Trying(d)) + replays'[d]
      BY <1>5, <3>3, <3>4 DEF One
    <3>6. One(a \in Trying(d)') \in Nat /\ One(a \in Trying(d)) \in Nat
      BY DEF One
    <3> QED BY <1>5, <3>1, <3>2, <3>4, <3>5, <3>6
  <2>2. DraftShape /\ Paid
    BY DEF DraftInv
  <2> QED BY <1>2, <1>6, <2>1, <2>2, PaidStep
<1>8. /\ ended' \subseteq Drafts
      /\ work[a].at \in CallStages /\ work'[a].at \in CallStages /\ work'[a].got \subseteq Made'
      /\ carts' \in [Carts -> [st : {"none", "ACTIVE", "CONVERTED", "DELETED"}, of : Drafts \cup {NoId}]]
      /\ \A c \in Made' : carts'[c].of \in Drafts
  <2>1. work[a].got \subseteq Made
    BY DEF DraftInv, DraftShape, WorkType, Known, Made
  <2> QED BY <1>1, <1>2, <1>3, <2>1 DEF DraftInv, DraftShape, CallStages, Known
<1> QED BY <1>1, <1>2, <1>3, <1>4, <1>6, <1>7, <1>8, CallStep

-----------------------------------------------------------------------------
(* The operator's steps.                                                   *)

\* A call of the operator's: a save may be made once more, a draft that is
\* sold or deleted is one the till holds.
LEMMA DeskCalls ==
  ASSUME DraftInv, work[Desk].at = "idle",
         NEW op \in Operations \cup {"LIST"}, NEW id \in Ids \cup {NoId}, Sends(op, id),
         op = "CREATE" => id \in Drafts \ saved,
         op \in {"CONVERT", "DELETE"} => id \in Ids,
         id \in Carts => Exists(id),
         UNCHANGED <<carts, cache, queue, history, faults>>
  PROVE  DraftInv'
<1>1. Only(Desk) /\ Fields(work'[Desk], "sent", op, id, 0, "none", {}, {})
  <2>1. DraftShape
    BY DEF DraftInv
  <2> QED BY <2>1, DeskSends
<1>2. /\ work'[Desk].at = "sent" /\ work'[Desk].op = op /\ work'[Desk].id = id
      /\ work'[Desk].slot = 0 /\ work'[Desk].got = {} /\ work'[Desk].todo = {}
      /\ work[Desk].op = "none"
  BY <1>1 DEF Fields, DraftInv, DeskWork, Idle
<1>3. UNCHANGED <<carts, cache, queue, saved, converted, deleted, ended, replays, stranded, faults>>
  BY DEF history
<1>4. Known'
  <2>1. Unused' = Unused /\ Made' = Made
    BY <1>3 DEF Unused, Made
  <2>2. \A c \in Unused : id # c
    BY DraftIds DEF DraftInv, Known, Unused
  <2>3. \A a \in Actors : a = Desk \/ work'[a] = work[a]
    BY <1>1 DEF Only
  <2> QED BY <1>2, <1>3, <2>1, <2>2, <2>3 DEF DraftInv, Known, Exists
<1>5. Queue'
  BY <1>3 DEF DraftInv, Queue, Absent
<1>6. DeskWork' /\ Answered(Desk)'
  BY <1>2, <1>3 DEF DeskWork, Answered, At, CallStages, Operations
<1>7. Paid'
  <2>1. \A d \in Drafts : /\ CartsOf(d)' = CartsOf(d)
                         /\ One(Desk \in Trying(d)') + Chance(d)' <= One(Desk \in Trying(d)) + Chance(d)
    <3> SUFFICES ASSUME NEW d \in Drafts
                 PROVE  /\ CartsOf(d)' = CartsOf(d)
                        /\ One(Desk \in Trying(d)') + Chance(d)' <= One(Desk \in Trying(d)) + Chance(d)
      OBVIOUS
    <3>1. CartsOf(d)' = CartsOf(d) /\ (Awaiting(d)' <=> Awaiting(d))
      BY <1>3 DEF CartsOf, Awaiting
    <3>2. Desk \notin Trying(d) /\ (Desk \in Trying(d)' => op = "CREATE" /\ id = d)
      BY <1>2 DEF Trying, Creates
    <3>3. ~Creates(Desk, d) /\ (Creates(Desk, d)' <=> op = "CREATE" /\ id = d)
      BY <1>2 DEF Creates
    <3>4. /\ Unsaved(d) <=> d \notin saved
          /\ Unsaved(d)' <=> d \notin saved /\ ~(op = "CREATE" /\ id = d)
      BY <1>3, <3>3 DEF Unsaved
    <3> QED BY <3>1, <3>2, <3>4 DEF Chance, One
  <2>2. Desk \in Actors /\ replays' = replays
    BY <1>3 DEF Actors
  <2> QED BY <1>1, <2>1, <2>2, PaidAsBefore
<1>8. DraftKept' /\ ToldIsTrueOrOwed'
  BY <1>3 DEF DraftInv, DraftKept, ToldIsTrueOrOwed, Exists, DraftOf, CartsOf, Active, Owed
<1>9. /\ ended \subseteq ended' /\ ended' \subseteq Drafts /\ saved' \subseteq Drafts
      /\ cache' \in [Ids -> RowType]
      /\ queue' \in [Slots -> [op : Operations \cup {"none"}, id : Ids \cup {NoId}, retry : Nat,
                               st : QueueStatus \cup {"absent", "gone"}]]
      /\ QueueStep /\ \A s \in Slots : queue'[s].retry <= queue[s].retry
  BY <1>3 DEF DraftInv, DraftShape, QueueStep, Absent
<1>10. converted' \subseteq Made /\ deleted' \subseteq Made
  BY <1>3 DEF DraftInv, DraftShape, Known, Made
<1>11. \A o, c : c \in Active' /\ Owed(o, c) => Owed(o, c)'
  BY <1>3 DEF Owed
<1> QED BY <1>1, <1>3, <1>4, <1>5, <1>6, <1>7, <1>8, <1>9, <1>10, <1>11, DeskStep

\* A sale or a deletion is queued: nothing the platform owes is forgotten.
LEMMA DeskQueues ==
  ASSUME DraftInv, NEW op \in {"CONVERT", "DELETE"}, NEW id \in Ids, QueueEnding(op, id),
         work[Desk].op # "CREATE", id \in Carts => id \in Made,
         UNCHANGED <<carts, cache, saved, converted, deleted, replays, stranded, faults>>
  PROVE  DraftInv'
<1>1. PICK s \in Slots : /\ queue[s].st = "absent"
                         /\ queue' = [queue EXCEPT ![s] = Item(op, id)]
  <2>1. Lowest(FreeSlots) \in FreeSlots
    BY LowestIsOne, DraftIds DEF QueueEnding, FreeSlots
  <2> QED BY <2>1 DEF QueueEnding, Queued, FreeSlots
<1>2. /\ queue' \in [Slots -> [op : Operations \cup {"none"}, id : Ids \cup {NoId}, retry : Nat,
                               st : QueueStatus \cup {"absent", "gone"}]]
      /\ queue'[s].op = op /\ queue'[s].id = id /\ queue'[s].st = "PENDING" /\ queue'[s].retry = 0
      /\ \A t \in Slots \ {s} : queue'[t] = queue[t]
  BY <1>1 DEF DraftInv, DraftShape, Item, Operations, QueueStatus
<1>3. /\ Only(Desk) /\ work'[Desk].at = "after" /\ work'[Desk].op = op /\ work'[Desk].id = id
      /\ work'[Desk].slot = 0 /\ work'[Desk].got = {} /\ work'[Desk].todo = {}
  <2> DEFINE r == [Idle EXCEPT !.at = "after", !.op = op, !.id = id]
  <2>1. r \in WorkType /\ r.at = "after" /\ r.op = op /\ r.id = id /\ r.slot = 0 /\ r.got = {} /\ r.todo = {}
    BY DEF WorkType, Idle, Operations
  <2>2. work' = [work EXCEPT ![Desk] = r]
    BY DEF QueueEnding
  <2> HIDE DEF r
  <2> QED BY <2>1, <2>2 DEF DraftInv, DraftShape, Only, Actors
<1>4. DraftOf(id) \in Drafts /\ ended' = ended \cup {DraftOf(id)} /\ DraftOf(id)' = DraftOf(id)
  BY DEF QueueEnding, DraftOf, DraftInv, Known, Ids
<1>5. Unused' = Unused /\ Made' = Made /\ Active' = Active
  BY DEF Unused, Made, Active
<1>6. Known'
  <2>1. \A c \in Unused : id # c
    BY DEF Made, Unused
  <2>2. \A a \in Actors : a = Desk \/ work'[a] = work[a]
    BY <1>3 DEF Only
  <2>3. \A t \in Slots, c \in Unused : queue'[t].id # c
    BY <1>2, <2>1 DEF DraftInv, Known
  <2> QED BY <1>3, <1>5, <2>1, <2>2, <2>3 DEF DraftInv, Known, Exists
<1>7. Queue'
  <2>1. \A t \in Slots : t = s \/ queue'[t] = queue[t]
    BY <1>2
  <2> QED BY <1>2, <2>1 DEF DraftInv, Queue, Absent, Operations
<1>8. \A o, c : c \in Active' /\ Owed(o, c) => Owed(o, c)'
  BY <1>1, <1>2 DEF Owed
<1>9. DeskWork' /\ Answered(Desk)'
  <2>1. Owed(op, id)'
    BY <1>2 DEF Owed
  <2> QED BY <1>3, <1>4, <2>1 DEF DeskWork, Answered, At, CallStages
<1>10. Paid'
  <2>1. \A d \in Drafts : /\ CartsOf(d)' = CartsOf(d)
                         /\ One(Desk \in Trying(d)') + Chance(d)' <= One(Desk \in Trying(d)) + Chance(d)
    <3> SUFFICES ASSUME NEW d \in Drafts
                 PROVE  /\ CartsOf(d)' = CartsOf(d)
                        /\ One(Desk \in Trying(d)') + Chance(d)' <= One(Desk \in Trying(d)) + Chance(d)
      OBVIOUS
    <3>1. CartsOf(d)' = CartsOf(d)
      BY DEF CartsOf
    <3>2. Awaiting(d)' => Awaiting(d)
      BY <1>2 DEF Awaiting
    <3>3. Desk \notin Trying(d)'
      BY <1>3 DEF Trying, Creates
    <3>4. Unsaved(d)' <=> Unsaved(d)
      BY <1>3 DEF Unsaved, Creates
    <3> QED BY <3>1, <3>2, <3>3, <3>4 DEF Chance, One
  <2>2. Desk \in Actors
    BY DEF Actors
  <2> QED BY <1>3, <2>1, <2>2, PaidAsBefore
<1>11. DraftKept'
  BY <1>4 DEF DraftInv, DraftKept, Exists, DraftOf, CartsOf, Active
<1>12. ToldIsTrueOrOwed'
  BY <1>5, <1>8 DEF DraftInv, ToldIsTrueOrOwed
<1>13. /\ ended \subseteq ended' /\ ended' \subseteq Drafts /\ saved' \subseteq Drafts
       /\ cache' \in [Ids -> RowType] /\ converted' \subseteq Made /\ deleted' \subseteq Made
  BY <1>4 DEF DraftInv, DraftShape, Known, Made
<1>14. QueueStep /\ \A t \in Slots : queue'[t].retry <= queue[t].retry
  <2>1. \A t \in Slots : t = s \/ queue'[t] = queue[t]
    BY <1>2
  <2> QED BY <1>1, <1>2, <2>1 DEF QueueStep, Absent, DraftInv, DraftShape
<1> QED BY <1>2, <1>3, <1>6, <1>7, <1>8, <1>9, <1>10, <1>11, <1>12, <1>13, <1>14, DeskStep

LEMMA StartsKeep ==
  ASSUME DraftInv, Starts
  PROVE  DraftInv'
<1> USE DEF Operations
<1>1. CASE ListSharedDrafts
  <2>1. PICK op \in Operations \cup {"LIST"}, id \in Ids \cup {NoId} :
          op = "LIST" /\ id = NoId /\ Sends(op, id)
    BY <1>1 DEF ListSharedDrafts
  <2>2. work[Desk].at = "idle" /\ UNCHANGED <<carts, cache, queue, history, faults>>
    BY <1>1 DEF ListSharedDrafts, At
  <2>3. /\ op = "CREATE" => id \in Drafts \ saved
        /\ op \in {"CONVERT", "DELETE"} => id \in Ids
        /\ id \in Carts => Exists(id)
    BY <2>1, DraftIds
  <2>4. Sends(op, id)
    BY <2>1
  <2> QED BY <2>2, <2>3, <2>4, DeskCalls
<1>2. ASSUME NEW d \in Drafts, SaveSharedDraft(d)
      PROVE  DraftInv'
  <2>1. PICK op \in Operations \cup {"LIST"}, id \in Ids \cup {NoId} :
          op = "CREATE" /\ id = d /\ Sends(op, id)
    BY <1>2 DEF SaveSharedDraft, Ids
  <2>2. work[Desk].at = "idle" /\ UNCHANGED <<carts, cache, queue, history, faults>> /\ d \notin saved
    BY <1>2 DEF SaveSharedDraft, At
  <2>3. /\ op = "CREATE" => id \in Drafts \ saved
        /\ op \in {"CONVERT", "DELETE"} => id \in Ids
        /\ id \in Carts => Exists(id)
    BY <2>1, <2>2, DraftIds
  <2>4. Sends(op, id)
    BY <2>1
  <2> QED BY <2>2, <2>3, <2>4, DeskCalls
<1>3. ASSUME NEW i \in Ids, RecallAndConvert(i) \/ DeleteDraft(i)
      PROVE  DraftInv'
  <2>1. /\ work[Desk].at = "idle" /\ Exists(i)
        /\ UNCHANGED <<carts, cache, saved, converted, deleted, replays, stranded, faults>>
    BY <1>3 DEF RecallAndConvert, DeleteDraft, At
  <2>2. PICK o \in {"CONVERT", "DELETE"} : (Sends(o, i) /\ UNCHANGED <<queue, ended>>) \/ QueueEnding(o, i)
    BY <1>3 DEF RecallAndConvert, DeleteDraft
  <2>3. CASE Sends(o, i) /\ UNCHANGED <<queue, ended>>
    <3>1. PICK op \in Operations \cup {"LIST"}, id \in Ids \cup {NoId} :
            op = o /\ id = i /\ Sends(op, id)
      BY <2>3
    <3>2. UNCHANGED <<carts, cache, queue, history, faults>>
      BY <2>1, <2>3 DEF history
    <3>3. /\ op = "CREATE" => id \in Drafts \ saved
          /\ op \in {"CONVERT", "DELETE"} => id \in Ids
          /\ id \in Carts => Exists(id)
      BY <2>1, <3>1
    <3>4. Sends(op, id)
      BY <3>1
    <3> QED BY <2>1, <3>2, <3>3, <3>4, DeskCalls
  <2>4. CASE QueueEnding(o, i)
    <3>1. i \in Carts => i \in Made
      BY <2>1 DEF DraftInv, Known, Made
    <3>2. work[Desk].op # "CREATE"
      BY <2>1 DEF DraftInv, DeskWork, Idle
    <3> QED BY <2>1, <2>4, <3>1, <3>2, DeskQueues
  <2> QED BY <2>2, <2>3, <2>4
<1> QED BY <1>1, <1>2, <1>3 DEF Starts

LEMMA NotSettledKeeps ==
  ASSUME DraftInv, NotSettled
  PROVE  DraftInv'
<1>1. PICK op \in {"CONVERT", "DELETE"} : NotHeard(Desk, op) /\ QueueEnding(op, work[Desk].id)
  BY DEF NotSettled
<1>2. UNCHANGED <<carts, cache, saved, converted, deleted, replays, stranded, faults>>
  BY DEF NotSettled
<1>3. work[Desk].op = op
  BY <1>1 DEF NotHeard
<1>4. PICK id \in Ids : id = work[Desk].id
  BY <1>3 DEF DraftInv, DeskWork
<1>5. QueueEnding(op, id) /\ work[Desk].op # "CREATE"
  BY <1>1, <1>3, <1>4
<1>6. id \in Carts => id \in Made
  BY <1>4 DEF DraftInv, Known, Made, Actors
<1> QED BY <1>2, <1>5, <1>6, DeskQueues

\* An operation ends at the desk, its rows written.
LEMMA DeskEnds ==
  ASSUME DraftInv, Done, UNCHANGED <<carts, queue, ended, replays, stranded, faults>>,
         cache' \in [Ids -> RowType], \A c \in Unused : ~Exists(c)',
         saved' = IF work[Desk].op = "CREATE" THEN saved \cup {work[Desk].id} ELSE saved,
         converted' \subseteq Made /\ deleted' \subseteq Made,
         \A id \in Ids : Exists(id) => Exists(id)' \/ DraftOf(id) \in ended,
         work[Desk].op = "CREATE" => \E id \in Ids : Exists(id)' /\ DraftOf(id) = work[Desk].id,
         \A c \in Active : /\ c \in converted' \ converted => Owed("CONVERT", c)
                           /\ c \in deleted' \ deleted => Owed("DELETE", c)
  PROVE  DraftInv'
<1>1. Only(Desk) /\ work'[Desk] = Idle /\ Fields(work'[Desk], "idle", "none", NoId, 0, "none", {}, {})
  <2>1. DraftShape
    BY DEF DraftInv
  <2> QED BY <2>1, DeskDone
<1>2. /\ work'[Desk].at = "idle" /\ work'[Desk].op = "none" /\ work'[Desk].id = NoId
      /\ work'[Desk].slot = 0 /\ work'[Desk].got = {} /\ work'[Desk].todo = {}
  BY <1>1 DEF Fields
<1>3. saved \subseteq saved' /\ saved' \subseteq Drafts
  BY DEF DraftInv, DraftShape, DeskWork
<1>4. Unused' = Unused /\ Made' = Made /\ Active' = Active
  BY DEF Unused, Made, Active
<1>5. Known'
  <2>1. \A a \in Actors : a = Desk \/ work'[a] = work[a]
    BY <1>1 DEF Only
  <2>2. \A c \in Unused : c # NoId /\ c \notin converted' \cup deleted'
    BY DraftIds DEF Unused, Made
  <2> QED BY <1>2, <1>4, <2>1, <2>2 DEF DraftInv, Known
<1>6. Queue'
  BY <1>3 DEF DraftInv, Queue, Absent
<1>7. DeskWork' /\ Answered(Desk)'
  BY <1>1, <1>2 DEF DeskWork, Answered, At, CallStages
<1>8. Paid'
  <2>1. \A d \in Drafts : /\ CartsOf(d)' = CartsOf(d)
                         /\ One(Desk \in Trying(d)') + Chance(d)' <= One(Desk \in Trying(d)) + Chance(d)
    <3> SUFFICES ASSUME NEW d \in Drafts
                 PROVE  /\ CartsOf(d)' = CartsOf(d)
                        /\ One(Desk \in Trying(d)') + Chance(d)' <= One(Desk \in Trying(d)) + Chance(d)
      OBVIOUS
    <3>1. CartsOf(d)' = CartsOf(d) /\ (Awaiting(d)' <=> Awaiting(d))
      BY DEF CartsOf, Awaiting
    <3>2. Desk \notin Trying(d)'
      BY <1>2 DEF Trying, Creates
    <3>3. Unsaved(d)' => Unsaved(d)
      BY <1>2 DEF Unsaved, Creates
    <3> QED BY <3>1, <3>2, <3>3 DEF Chance, One
  <2>2. Desk \in Actors
    BY DEF Actors
  <2> QED BY <1>1, <2>1, <2>2, PaidAsBefore
<1>9. CartsStep
  BY <1>4 DEF CartsStep
<1>10. DraftKept'
  <2>1. \A id \in Ids : Exists(id) => Exists(id)' \/ DraftOf(id) \in ended'
    OBVIOUS
  <2>2. \A c \in Active : c \in Active' \/ carts[c].of \in ended'
    BY <1>4
  <2>3. \A d \in saved' \ saved : \/ \E id \in Ids : Exists(id)' /\ DraftOf(id)' = d
                                  \/ (CartsOf(d) \cap Active)' # {}
    BY DEF DraftOf
  <2> QED BY <1>9, <2>1, <2>2, <2>3, KeptStep DEF DraftInv
<1>11. \A o, c : c \in Active' /\ Owed(o, c) => Owed(o, c)'
  BY DEF Owed
<1>12. ToldIsTrueOrOwed'
  <2>1. \A c \in Active' : /\ c \in converted' \ converted => Owed("CONVERT", c)'
                           /\ c \in deleted' \ deleted => Owed("DELETE", c)'
    BY <1>4, <1>11
  <2> QED BY <1>9, <1>11, <2>1, ToldStep DEF DraftInv
<1>13. /\ ended \subseteq ended' /\ ended' \subseteq Drafts
       /\ queue' \in [Slots -> [op : Operations \cup {"none"}, id : Ids \cup {NoId}, retry : Nat,
                                st : QueueStatus \cup {"absent", "gone"}]]
       /\ QueueStep /\ \A s \in Slots : queue'[s].retry <= queue[s].retry
  BY DEF DraftInv, DraftShape, QueueStep, Absent
<1> QED BY <1>1, <1>3, <1>5, <1>6, <1>7, <1>8, <1>10, <1>11, <1>12, <1>13, DeskStep

LEMMA CacheFromResponseKeeps ==
  ASSUME DraftInv, CacheFromResponse
  PROVE  DraftInv'
<1>1. /\ work[Desk].at = "answered" /\ work[Desk].op = "CREATE" /\ work[Desk].reply = "ok" /\ Done
      /\ cache' = [id \in Ids |-> IF id \in work[Desk].got THEN [st |-> "SYNCED", lines |-> "till"]
                                                           ELSE cache[id]]
      /\ saved' = saved \cup {work[Desk].id}
      /\ UNCHANGED <<carts, queue, converted, deleted, ended, replays, stranded, faults>>
  BY DEF CacheFromResponse, At
<1>2. PICK c \in Made : work[Desk].got = {c} /\ carts[c].of = work[Desk].id
  BY <1>1 DEF DraftInv, Answered, At, Actors
<1>3. cache' \in [Ids -> RowType]
  BY <1>1 DEF DraftInv, DraftShape, RowType
<1>4. \A u \in Unused : ~Exists(u)'
  BY <1>1, <1>2 DEF DraftInv, Known, Exists, Made, Unused, Ids
<1>5. converted' \subseteq Made /\ deleted' \subseteq Made
  BY <1>1 DEF DraftInv, DraftShape, Known, Made
<1>6. \A id \in Ids : Exists(id) => Exists(id)'
  BY <1>1 DEF Exists
<1>7. \E id \in Ids : Exists(id)' /\ DraftOf(id) = work[Desk].id
  BY <1>1, <1>2 DEF Exists, DraftOf, Made, Ids
<1>8. saved' = IF work[Desk].op = "CREATE" THEN saved \cup {work[Desk].id} ELSE saved
  BY <1>1
<1> QED BY <1>1, <1>3, <1>4, <1>5, <1>6, <1>7, <1>8, DeskEnds

LEMMA SettledKeeps ==
  ASSUME DraftInv, SettledAtOnce \/ AfterQueueing
  PROVE  DraftInv'
<1>1. /\ work[Desk].op \in {"CONVERT", "DELETE"} /\ Done /\ Tells(work[Desk].op, work[Desk].id)
      /\ UNCHANGED <<carts, queue, faults>>
  BY DEF SettledAtOnce, AfterQueueing, At, DraftInv, DeskWork
<1>2. PICK row : cache' = [cache EXCEPT ![work[Desk].id] = row] /\ row \in RowType
                 /\ (Exists(work[Desk].id) => row.st # "absent" \/ DraftOf(work[Desk].id) \in ended)
                 /\ (row.st # "absent" => Exists(work[Desk].id))
  <2>0. NoRow \in RowType /\ NoRow.st = "absent"
    BY DEF NoRow, RowType
  <2>1. CASE SettledAtOnce
    <3>1. DraftOf(work[Desk].id) \in ended
      BY <2>1 DEF SettledAtOnce, DraftInv, Answered, Actors
    <3>2. cache' = [cache EXCEPT ![work[Desk].id] = NoRow]
      BY <2>1 DEF SettledAtOnce
    <3> QED BY <3>1, <3>2, <2>0
  <2>2. CASE AfterQueueing
    <3> DEFINE id == work[Desk].id
    <3>1. DraftOf(id) \in ended /\ id \in Ids
      BY <1>1, <2>2 DEF AfterQueueing, At, DraftInv, DeskWork
    <3>2. CASE work[Desk].op = "DELETE"
      <4>1. cache' = [cache EXCEPT ![id] = NoRow]
        BY <2>2, <3>2 DEF AfterQueueing
      <4> QED BY <3>1, <4>1, <2>0
    <3>3. CASE work[Desk].op # "DELETE" /\ Exists(id)
      <4> DEFINE row == [cache[id] EXCEPT !.st = "PENDING_CONVERT"]
      <4>1. row \in RowType /\ row.st # "absent"
        BY <3>1 DEF DraftInv, DraftShape, RowType
      <4>2. cache' = [cache EXCEPT ![id] = row]
        BY <2>2, <3>1, <3>3 DEF AfterQueueing, DraftInv, DraftShape
      <4> QED BY <3>3, <4>1, <4>2
    <3>4. CASE work[Desk].op # "DELETE" /\ ~Exists(id)
      <4>1. cache' = [cache EXCEPT ![id] = cache[id]]
        BY <2>2, <3>1, <3>4 DEF AfterQueueing, DraftInv, DraftShape
      <4>2. cache[id] \in RowType /\ cache[id].st = "absent"
        BY <3>1, <3>4 DEF DraftInv, DraftShape, Exists
      <4> QED BY <3>4, <4>1, <4>2
    <3> QED BY <3>2, <3>3, <3>4
  <2> QED BY <2>1, <2>2
<1>3. UNCHANGED <<saved, ended, replays, stranded>>
  BY <1>1 DEF Tells
<1>4. work[Desk].id \in Ids /\ (work[Desk].id \in Carts => work[Desk].id \in Made)
  BY <1>1 DEF DraftInv, DeskWork, Known, Made, Actors
<1>5. cache' \in [Ids -> RowType] /\ \A i \in Ids \ {work[Desk].id} : cache'[i] = cache[i]
  BY <1>2 DEF DraftInv, DraftShape
<1>6. cache'[work[Desk].id] = row
  BY <1>2, <1>4 DEF DraftInv, DraftShape
<1>7. \A u \in Unused : ~Exists(u)'
  <2> SUFFICES ASSUME NEW u \in Unused PROVE cache'[u].st = "absent"
    BY DEF Exists
  <2>1. u # work[Desk].id /\ cache[u].st = "absent" /\ u \in Ids
    BY DEF DraftInv, Known, Exists, Actors, Ids, Unused
  <2> QED BY <1>5, <2>1
<1>8. \A id \in Ids : Exists(id) => Exists(id)' \/ DraftOf(id) \in ended
  BY <1>2, <1>5, <1>6 DEF Exists
<1>9. /\ converted' \subseteq converted \cup ({work[Desk].id} \cap Carts)
      /\ deleted' \subseteq deleted \cup ({work[Desk].id} \cap Carts)
      /\ work[Desk].op # "CONVERT" => converted' = converted
      /\ work[Desk].op # "DELETE" => deleted' = deleted
  BY <1>1 DEF Tells
<1>10. converted' \subseteq Made /\ deleted' \subseteq Made
  BY <1>4, <1>9 DEF DraftInv, DraftShape, Known, Made
<1>11. work[Desk].id \in Active => Owed(work[Desk].op, work[Desk].id)
  <2>1. CASE SettledAtOnce
    BY <2>1 DEF SettledAtOnce, DraftInv, Answered, Actors
  <2>2. CASE AfterQueueing
    BY <2>2 DEF AfterQueueing, At, DraftInv, DeskWork
  <2> QED BY <2>1, <2>2
<1>12. \A c \in Active : /\ c \in converted' \ converted => Owed("CONVERT", c)
                         /\ c \in deleted' \ deleted => Owed("DELETE", c)
  BY <1>9, <1>11
<1>13. /\ saved' = IF work[Desk].op = "CREATE" THEN saved \cup {work[Desk].id} ELSE saved
       /\ work[Desk].op # "CREATE"
  BY <1>1, <1>3
<1> QED BY <1>1, <1>3, <1>5, <1>7, <1>8, <1>10, <1>12, <1>13, DeskEnds

LEMMA ListEndsKeeps ==
  ASSUME DraftInv, ListEnds
  PROVE  DraftInv'
<1>1. work[Desk].op = "LIST" /\ Done /\ UNCHANGED <<carts, queue, history, faults>>
  BY DEF ListEnds
<1>2. cache' = cache \/ \E c \in work[Desk].got :
                          cache' = [cache EXCEPT ![c] = [st |-> "SYNCED", lines |-> "platform"]]
  BY DEF ListEnds
<1>3. work[Desk].got \subseteq Made /\ Made \subseteq Ids
  BY DEF DraftInv, DraftShape, WorkType, Known, Made, Actors, Ids
<1>4. /\ cache' \in [Ids -> RowType]
      /\ \A i \in Ids : cache'[i] = cache[i] \/ (cache'[i].st = "SYNCED" /\ i \in Made)
  BY <1>2, <1>3 DEF DraftInv, DraftShape, RowType
<1>5. \A u \in Unused : ~Exists(u)'
  BY <1>4 DEF DraftInv, Known, Exists, Made, Unused, Ids
<1>6. \A id \in Ids : Exists(id) => Exists(id)'
  BY <1>4 DEF Exists
<1>7. converted' \subseteq Made /\ deleted' \subseteq Made
  BY <1>1 DEF DraftInv, DraftShape, Known, Made, history
<1>8. /\ UNCHANGED <<ended, replays, stranded, converted, deleted>>
      /\ saved' = IF work[Desk].op = "CREATE" THEN saved \cup {work[Desk].id} ELSE saved
      /\ work[Desk].op # "CREATE"
  BY <1>1 DEF history
<1> QED BY <1>1, <1>4, <1>5, <1>6, <1>7, <1>8, DeskEnds

LEMMA CreateLocalDraftKeeps ==
  ASSUME DraftInv, CreateLocalDraft
  PROVE  DraftInv'
<1>1. /\ NotHeard(Desk, "CREATE") /\ Enters(Desk, "queueing")
      /\ cache' = [cache EXCEPT ![work[Desk].id] = [st |-> "PENDING", lines |-> "till"]]
      /\ UNCHANGED <<carts, queue, history, faults>>
  BY DEF CreateLocalDraft
<1>2. /\ work[Desk].op = "CREATE" /\ work[Desk].id \in Drafts \ saved
      /\ work[Desk].at = "failed" \/ (work[Desk].at = "answered" /\ work[Desk].reply # "ok")
  BY <1>1 DEF NotHeard, At, DraftInv, DeskWork
<1>3. /\ Only(Desk)
      /\ work'[Desk].at = "queueing" /\ work'[Desk].got = work[Desk].got
      /\ work'[Desk].op = work[Desk].op /\ work'[Desk].id = work[Desk].id
  <2>1. PICK stage \in WorkStages, a \in Actors : stage = "queueing" /\ a = Desk /\ Enters(a, stage)
    BY <1>1 DEF WorkStages, Actors
  <2>2. DraftShape
    BY DEF DraftInv
  <2>3. /\ Only(a)
        /\ Fields(work'[a], stage, work[a].op, work[a].id, work[a].slot, work[a].reply,
                  work[a].got, work[a].todo)
    BY <2>1, <2>2, Entered
  <2> QED BY <2>1, <2>3 DEF Fields
<1>4. UNCHANGED <<carts, queue, saved, converted, deleted, ended, replays, stranded, faults>>
  BY <1>1 DEF history
<1>5. /\ cache' \in [Ids -> RowType] /\ cache'[work[Desk].id].st = "PENDING"
      /\ \A i \in Ids \ {work[Desk].id} : cache'[i] = cache[i]
  BY <1>1, <1>2 DEF DraftInv, DraftShape, RowType, Ids
<1>6. Unused' = Unused /\ Made' = Made /\ Active' = Active
  BY <1>4 DEF Unused, Made, Active
<1>7. Known'
  <2>1. \A a \in Actors : work'[a].id = work[a].id /\ work'[a].got = work[a].got
    BY <1>3 DEF Only
  <2>2. \A c \in Unused : c \in Ids /\ c # work[Desk].id
    BY <1>2, DraftIds DEF Unused, Ids
  <2> QED BY <1>4, <1>5, <1>6, <2>1, <2>2 DEF DraftInv, Known, Exists
<1>8. Queue'
  BY <1>4 DEF DraftInv, Queue, Absent
<1>9. DeskWork' /\ Answered(Desk)'
  BY <1>2, <1>3, <1>4, <1>5 DEF DeskWork, Answered, At, CallStages, Exists
<1>10. Paid'
  <2>1. \A d \in Drafts : /\ CartsOf(d)' = CartsOf(d)
                         /\ One(Desk \in Trying(d)') + Chance(d)' <= One(Desk \in Trying(d)) + Chance(d)
    <3> SUFFICES ASSUME NEW d \in Drafts
                 PROVE  /\ CartsOf(d)' = CartsOf(d)
                        /\ One(Desk \in Trying(d)') + Chance(d)' <= One(Desk \in Trying(d)) + Chance(d)
      OBVIOUS
    <3>1. CartsOf(d)' = CartsOf(d) /\ (Awaiting(d)' <=> Awaiting(d))
      BY <1>4 DEF CartsOf, Awaiting
    <3>2. Desk \in Trying(d)' => Desk \in Trying(d)
      BY <1>2, <1>3 DEF Trying, Creates, At
    <3>3. Unsaved(d)' <=> Unsaved(d)
      BY <1>3, <1>4 DEF Unsaved, Creates
    <3> QED BY <3>1, <3>2, <3>3 DEF Chance, One
  <2>2. Desk \in Actors
    BY DEF Actors
  <2> QED BY <1>3, <1>4, <2>1, <2>2, PaidAsBefore
<1>11. CartsStep
  BY <1>4, <1>6 DEF CartsStep
<1>12. DraftKept'
  <2>1. \A id \in Ids : Exists(id) => Exists(id)'
    BY <1>5 DEF Exists
  <2> QED BY <1>4, <1>6, <1>11, <2>1, KeptStep DEF DraftInv
<1>13. \A o, c : c \in Active' /\ Owed(o, c) => Owed(o, c)'
  BY <1>4 DEF Owed
<1>14. ToldIsTrueOrOwed'
  BY <1>4, <1>6, <1>13 DEF DraftInv, ToldIsTrueOrOwed
<1>15. /\ ended \subseteq ended' /\ ended' \subseteq Drafts /\ saved' \subseteq Drafts
       /\ converted' \subseteq Made /\ deleted' \subseteq Made
       /\ queue' \in [Slots -> [op : Operations \cup {"none"}, id : Ids \cup {NoId}, retry : Nat,
                                st : QueueStatus \cup {"absent", "gone"}]]
       /\ QueueStep /\ \A s \in Slots : queue'[s].retry <= queue[s].retry
  BY <1>4 DEF DraftInv, DraftShape, QueueStep, Absent, Known, Made
<1> QED BY <1>3, <1>4, <1>5, <1>7, <1>8, <1>9, <1>10, <1>12, <1>13, <1>14, <1>15, DeskStep

\* The creation is queued once: the call that might have made the cart is over.
LEMMA QueueCreateKeeps ==
  ASSUME DraftInv, QueueCreate
  PROVE  DraftInv'
<1>0. PICK d : d = work[Desk].id
  OBVIOUS
<1>1. /\ work[Desk].at = "queueing" /\ Done /\ saved' = saved \cup {d}
      /\ UNCHANGED <<carts, cache, converted, deleted, ended, replays, stranded, faults>>
  BY <1>0 DEF QueueCreate, At
<1>2. work[Desk].op = "CREATE" /\ d \in Drafts \ saved /\ Exists(d)
  BY <1>0, <1>1 DEF DraftInv, DeskWork
<1>3. PICK s \in Slots : queue[s].st = "absent" /\ queue' = [queue EXCEPT ![s] = Item("CREATE", d)]
  <2>1. Lowest(FreeSlots) \in FreeSlots
    BY LowestIsOne, DraftIds DEF QueueCreate, FreeSlots
  <2> QED BY <1>0, <2>1 DEF QueueCreate, Queued, FreeSlots
<1>4. /\ queue' \in [Slots -> [op : Operations \cup {"none"}, id : Ids \cup {NoId}, retry : Nat,
                               st : QueueStatus \cup {"absent", "gone"}]]
      /\ queue'[s].op = "CREATE" /\ queue'[s].id = d /\ queue'[s].st = "PENDING" /\ queue'[s].retry = 0
      /\ \A t \in Slots \ {s} : queue'[t] = queue[t]
  BY <1>2, <1>3 DEF DraftInv, DraftShape, Item, Operations, QueueStatus, Ids
<1>5. \A t \in Slots : t = s \/ queue'[t] = queue[t]
  BY <1>4
<1>6. Only(Desk) /\ work'[Desk] = Idle /\ Fields(work'[Desk], "idle", "none", NoId, 0, "none", {}, {})
  <2>1. DraftShape
    BY DEF DraftInv
  <2> QED BY <1>1, <2>1, DeskDone
<1>7. /\ work'[Desk].at = "idle" /\ work'[Desk].op = "none" /\ work'[Desk].id = NoId
      /\ work'[Desk].slot = 0 /\ work'[Desk].got = {} /\ work'[Desk].todo = {}
  BY <1>6 DEF Fields
<1>8. Unused' = Unused /\ Made' = Made /\ Active' = Active
  BY <1>1 DEF Unused, Made, Active
<1>9. Known'
  <2>1. \A a \in Actors : a = Desk \/ work'[a] = work[a]
    BY <1>6 DEF Only
  <2>2. \A c \in Unused : c # NoId /\ c # d
    BY <1>2, DraftIds DEF Unused
  <2>3. \A t \in Slots, c \in Unused : queue'[t].id # c
    BY <1>4, <1>5, <2>2 DEF DraftInv, Known
  <2> QED BY <1>1, <1>7, <1>8, <2>1, <2>2, <2>3 DEF DraftInv, Known, Exists
<1>10. Queue'
  <2>1. d \in Ids /\ d \in saved'
    BY <1>1, <1>2 DEF Ids
  <2>2. \A t \in Slots : ~Absent(t)' => queue'[t].op \in Operations /\ queue'[t].id \in Ids
    BY <1>4, <1>5, <2>1 DEF DraftInv, Queue, Absent, Operations
  <2>3. \A t \in Slots : queue'[t].op = "CREATE" => queue'[t].id \in saved'
    BY <1>1, <1>4, <1>5, <2>1 DEF DraftInv, Queue
  <2>4. \A t \in Slots : queue[t].op = "CREATE" => queue[t].id # d
    BY <1>2 DEF DraftInv, Queue
  <2>5. \A t, u \in Slots : queue'[t].op = "CREATE" /\ queue'[u].op = "CREATE" /\ queue'[t].id = queue'[u].id
                            => t = u
    BY <1>4, <1>5, <2>4 DEF DraftInv, Queue
  <2> QED BY <2>2, <2>3, <2>5 DEF Queue
<1>11. DeskWork' /\ Answered(Desk)'
  BY <1>6, <1>7 DEF DeskWork, Answered, At, CallStages
<1>12. Paid'
  <2>1. \A e \in Drafts : /\ CartsOf(e)' = CartsOf(e)
                         /\ One(Desk \in Trying(e)') + Chance(e)' <= One(Desk \in Trying(e)) + Chance(e)
    <3> SUFFICES ASSUME NEW e \in Drafts
                 PROVE  /\ CartsOf(e)' = CartsOf(e)
                        /\ One(Desk \in Trying(e)') + Chance(e)' <= One(Desk \in Trying(e)) + Chance(e)
      OBVIOUS
    <3>1. CartsOf(e)' = CartsOf(e) /\ (e # d => (Awaiting(e)' => Awaiting(e)))
      BY <1>1, <1>4, <1>5 DEF CartsOf, Awaiting
    <3>2. Desk \notin Trying(e)' /\ (e = d => Desk \in Trying(e))
      BY <1>0, <1>1, <1>2, <1>7 DEF Trying, Creates, Actors
    <3>3. Unsaved(e)' => Unsaved(e)
      BY <1>0, <1>1, <1>7 DEF Unsaved, Creates
    <3>4. One(Desk \in Trying(e)') = 0 /\ (e = d => One(Desk \in Trying(e)) = 1)
      BY <3>2 DEF One
    <3>5. CASE e = d
      BY <3>1, <3>3, <3>4, <3>5 DEF Chance
    <3>6. CASE e # d
      BY <3>1, <3>3, <3>4, <3>6 DEF Chance, One
    <3> QED BY <3>5, <3>6
  <2>2. Desk \in Actors
    BY DEF Actors
  <2> QED BY <1>1, <1>6, <2>1, <2>2, PaidAsBefore
<1>13. CartsStep
  BY <1>1, <1>8 DEF CartsStep
<1>14. DraftKept'
  <2>1. \A id \in Ids : Exists(id)' <=> Exists(id)
    BY <1>1 DEF Exists
  <2>2. d \in Ids /\ DraftOf(d)' = d
    BY <1>2, DraftIds DEF DraftOf, Ids
  <2>3. \A e \in saved' \ saved : \E id \in Ids : Exists(id)' /\ DraftOf(id)' = e
    BY <1>1, <1>2, <2>1, <2>2
  <2> QED BY <1>1, <1>8, <1>13, <2>1, <2>3, KeptStep DEF DraftInv
<1>15. \A o, c : c \in Active' /\ Owed(o, c) => Owed(o, c)'
  BY <1>3, <1>5 DEF Owed
<1>16. ToldIsTrueOrOwed'
  BY <1>1, <1>8, <1>15 DEF DraftInv, ToldIsTrueOrOwed
<1>17. QueueStep /\ \A t \in Slots : queue'[t].retry <= queue[t].retry
  BY <1>3, <1>4, <1>5 DEF QueueStep, Absent, DraftInv, DraftShape
<1>18. /\ ended \subseteq ended' /\ ended' \subseteq Drafts /\ saved' \subseteq Drafts
       /\ converted' \subseteq Made /\ deleted' \subseteq Made /\ cache' \in [Ids -> RowType]
  BY <1>1, <1>2 DEF DraftInv, DraftShape, Known, Made
<1> QED BY <1>1, <1>4, <1>6, <1>9, <1>10, <1>11, <1>12, <1>14, <1>15, <1>16, <1>17, <1>18, DeskStep

\* Another till ends a cart: what was kept of its draft is ended with it.
LEMMA OtherTillKeeps ==
  ASSUME DraftInv, NEW c \in Carts, OtherTill(c)
  PROVE  DraftInv'
<1>1. /\ c \in Active /\ carts' = [carts EXCEPT ![c].st = "CONVERTED"]
      /\ ended' = ended \cup {carts[c].of}
      /\ UNCHANGED <<cache, queue, work, saved, converted, deleted, replays, stranded, faults>>
  BY DEF OtherTill, Ends, till
<1>2. /\ carts' \in [Carts -> [st : {"none", "ACTIVE", "CONVERTED", "DELETED"}, of : Drafts \cup {NoId}]]
      /\ \A b \in Carts : carts'[b].of = carts[b].of /\ (carts'[b] = carts[b] \/ b = c)
      /\ carts'[c].st = "CONVERTED"
  BY <1>1 DEF DraftInv, DraftShape
<1>3. Made' = Made /\ Unused' = Unused /\ Active' \subseteq Active
  BY <1>1, <1>2 DEF Made, Unused, Active
<1>4. carts[c].of \in Drafts
  BY <1>1 DEF DraftInv, Known, Made, Active, Unused
<1>5. CartsStep /\ QueueStep
  BY <1>1, <1>2, <1>3 DEF CartsStep, QueueStep, Made, Absent
<1>6. DraftShape'
  BY <1>1, <1>2, <1>4 DEF DraftInv, DraftShape
<1>7. Known'
  BY <1>1, <1>2, <1>3 DEF DraftInv, Known, Exists, Made
<1>8. Queue'
  BY <1>1 DEF DraftInv, Queue, Absent
<1>9. \A o, b : b \in Active' /\ Owed(o, b) => Owed(o, b)'
  BY <1>1 DEF Owed
<1>10. Desk \in Actors /\ work'[Desk] = work[Desk] /\ saved' = saved /\ Only(Desk) /\ Desk \notin Drains
  BY <1>1, DraftIds DEF Actors, Only, DraftInv, DraftShape
<1>11. DeskWork'
  <2>1. work[Desk].at = "queueing" => Exists(work[Desk].id)'
    BY <1>1 DEF DraftInv, DeskWork, Exists
  <2> QED BY <1>5, <1>9, <1>10, <2>1, DeskWaits DEF DraftInv
<1>12. Answered(Desk)'
  BY <1>5, <1>10, OthersAnswered DEF DraftInv
<1>13. Tried'
  BY <1>1 DEF DraftInv, Tried, Holders
<1>14. Paid'
  <2>1. \A d \in Drafts : CartsOf(d)' = CartsOf(d)
    BY <1>2 DEF CartsOf
  <2>2. \A d \in Drafts : Trying(d)' = Trying(d) /\ Chance(d)' = Chance(d)
    BY <1>1 DEF Trying, Creates, At, Chance, Awaiting, Unsaved
  <2> QED BY <1>1, <2>1, <2>2 DEF DraftInv, Paid
<1>15. DraftKept'
  <2>1. \A b \in Active : b \in Active' \/ carts[b].of \in ended'
    BY <1>1, <1>2 DEF Active
  <2>2. \A id \in Ids : Exists(id) => Exists(id)'
    BY <1>1 DEF Exists
  <2> QED BY <1>5, <1>10, <2>1, <2>2, KeptStep DEF DraftInv
<1>16. ToldIsTrueOrOwed'
  BY <1>1, <1>5, <1>9, ToldStep DEF DraftInv
<1> QED BY <1>5, <1>6, <1>7, <1>8, <1>9, <1>10, <1>11, <1>12, <1>13, <1>14, <1>15, <1>16, Assembled

-----------------------------------------------------------------------------
(* The drains' steps.                                                      *)

ItemTypes == [op : Operations \cup {"none"}, id : Ids \cup {NoId}, retry : Nat,
              st : QueueStatus \cup {"absent", "gone"}]

\* An item that is still there is marked; nothing else of the queue changes.
LEMMA Marked ==
  ASSUME DraftShape, NEW s \in Slots, NEW st \in QueueStatus, NEW n \in Nat,
         Updated(s, [queue[s] EXCEPT !.st = st, !.retry = n])
  PROVE  /\ queue' \in [Slots -> ItemTypes]
         /\ \A t \in Slots : t = s \/ queue'[t] = queue[t]
         /\ \A t \in Slots : queue'[t].op = queue[t].op /\ queue'[t].id = queue[t].id
         /\ IF queue[s].st \in QueueStatus THEN queue'[s].st = st /\ queue'[s].retry = n
                                           ELSE queue'[s] = queue[s]
<1> DEFINE q == [queue[s] EXCEPT !.st = st, !.retry = n]
<1>1. q \in ItemTypes /\ q.op = queue[s].op /\ q.id = queue[s].id /\ q.st = st /\ q.retry = n
  BY DEF DraftShape, ItemTypes, QueueStatus
<1>2. queue' = IF queue[s].st \in QueueStatus THEN [queue EXCEPT ![s] = q] ELSE queue
  BY DEF Updated
<1>3. queue \in [Slots -> ItemTypes]
  BY DEF DraftShape, ItemTypes
<1> HIDE DEF q
<1>4. CASE queue[s].st \in QueueStatus
  BY <1>1, <1>2, <1>3, <1>4
<1>5. CASE queue[s].st \notin QueueStatus
  BY <1>2, <1>3, <1>5
<1> QED BY <1>4, <1>5

\* A drain turns to the rest of its snapshot.
LEMMA DrainTurns ==
  ASSUME DraftShape, NEW k \in Drains, NEW todo \in SUBSET Slots,
         work' = [work EXCEPT ![k] = [Idle EXCEPT !.at = "next", !.todo = todo]]
  PROVE  /\ Only(k)
         /\ Fields(work'[k], "next", "none", NoId, 0, "none", {}, todo)
<1> DEFINE r == [Idle EXCEPT !.at = "next", !.todo = todo]
<1>1. r \in WorkType /\ Fields(r, "next", "none", NoId, 0, "none", {}, todo)
  BY DEF WorkType, Idle, Operations, Fields
<1> HIDE DEF r
<1>2. work' = [work EXCEPT ![k] = r]
  BY DEF r
<1> QED BY <1>1, <1>2 DEF DraftShape, Only, Actors

LEMMA ProcessSyncQueueKeeps ==
  ASSUME DraftInv, NEW k \in Drains, ProcessSyncQueue(k)
  PROVE  DraftInv'
<1>1. /\ work[k].at = "idle" /\ faults' \in 0..MaxFaults
      /\ work' = [work EXCEPT ![k] = [Idle EXCEPT !.at = "next", !.todo = Snapshot]]
      /\ UNCHANGED <<carts, cache, queue, saved, converted, deleted, ended, replays, stranded>>
  BY DraftAssumption
     DEF ProcessSyncQueue, At, Fault, history, DraftInv, DraftShape, DraftAssumption
<1>2. PICK todo \in SUBSET Slots : todo = Snapshot
  BY DEF Snapshot, PendingItems
<1>3. Only(k) /\ Fields(work'[k], "next", "none", NoId, 0, "none", {}, todo)
  <2>1. DraftShape
    BY DEF DraftInv
  <2>2. work' = [work EXCEPT ![k] = [Idle EXCEPT !.at = "next", !.todo = todo]]
    BY <1>1, <1>2
  <2> QED BY <2>1, <2>2, DrainTurns
<1>4. /\ work'[k].at = "next" /\ work'[k].op = "none" /\ work'[k].id = NoId
      /\ work'[k].slot = 0 /\ work'[k].got = {} /\ work'[k].todo = todo
      /\ work[k].slot = 0 /\ work[k].todo = {} /\ work[k].op = "none"
  BY <1>1, <1>3 DEF Fields, DraftInv, DrainWork, Idle
<1>5. DrainWork(k)' /\ Answered(k)'
  <2>1. \A s \in todo : ~Absent(s)'
    BY <1>1, <1>2 DEF Snapshot, PendingItems, Absent
  <2> QED BY <1>4, <2>1 DEF DrainWork, Answered, At, CallStages
<1>6. Tried'
  <2> SUFFICES ASSUME NEW s \in Slots PROVE queue'[s].retry + Cardinality(Holders(s)') <= MaxTries
    BY DEF Tried
  <2>1. CASE s \in todo
    <3>1. queue[s].retry < MaxRetries /\ queue[s].retry \in Nat
      BY <1>2, <2>1 DEF Snapshot, PendingItems, DraftInv, DraftShape
    <3>2. Cardinality(Holders(s)') \in Nat /\ Cardinality(Holders(s)') <= Cardinality(Drains)
      <4>1. Holders(s)' \subseteq Drains
        BY DEF Holders
      <4>2. IsFiniteSet(Drains)
        BY DraftAssumption DEF DraftAssumption
      <4> QED BY <4>1, <4>2, FS_Subset, FS_CardinalityType
    <3> QED BY <1>1, <3>1, <3>2, DraftIds DEF MaxTries
  <2>2. CASE s \notin todo
    <3>1. s # 0
      BY DraftIds
    <3>2. Holders(s)' = Holders(s)
      BY <1>3, <1>4, <2>2, <3>1 DEF Only, Holders, Actors
    <3> QED BY <1>1, <3>2 DEF DraftInv, Tried, MaxTries
  <2> QED BY <2>1, <2>2
<1>7. Paid'
  <2>1. \A d \in Drafts : /\ CartsOf(d)' = CartsOf(d)
                         /\ One(k \in Trying(d)') + Chance(d)' <= One(k \in Trying(d)) + Chance(d)
    <3> SUFFICES ASSUME NEW d \in Drafts
                 PROVE  /\ CartsOf(d)' = CartsOf(d)
                        /\ One(k \in Trying(d)') + Chance(d)' <= One(k \in Trying(d)) + Chance(d)
      OBVIOUS
    <3>1. CartsOf(d)' = CartsOf(d) /\ (Awaiting(d)' <=> Awaiting(d))
      BY <1>1 DEF CartsOf, Awaiting
    <3>2. k \notin Trying(d)'
      BY <1>4 DEF Trying, Creates
    <3>3. Unsaved(d)' <=> Unsaved(d)
      BY <1>1, <1>3, DraftIds DEF Unsaved, Creates, Only, Actors
    <3> QED BY <3>1, <3>2, <3>3 DEF Chance, One
  <2>2. k \in Actors
    BY DEF Actors
  <2> QED BY <1>1, <1>3, <2>1, <2>2, PaidAsBefore
<1>8. /\ replays' \in [Drafts -> Nat] /\ cache' \in [Ids -> RowType]
      /\ queue' \in [Slots -> [op : Operations \cup {"none"}, id : Ids \cup {NoId}, retry : Nat,
                               st : QueueStatus \cup {"absent", "gone"}]]
      /\ \A s \in Slots : /\ queue'[s].op = queue[s].op /\ queue'[s].id = queue[s].id
                          /\ Absent(s)' <=> Absent(s)
      /\ \A id \in Ids : Exists(id) => Exists(id)' \/ (DraftOf(id) \in ended /\ id \notin Drafts)
      /\ \A c \in Unused : Exists(c)' => Exists(c)
  BY <1>1 DEF DraftInv, DraftShape, Absent, Exists
<1>9. /\ \A b \in Actors : work'[b].id \in {NoId, work[b].id} \cup {queue[s].id : s \in Slots}
      /\ work'[k].got \subseteq work[k].got
  BY <1>3, <1>4 DEF Only
<1>10. \A o, c : c \in Active' /\ Owed(o, c) => Owed(o, c)'
  BY <1>1 DEF Owed
<1> QED BY <1>1, <1>3, <1>5, <1>6, <1>7, <1>8, <1>9, <1>10, DrainStep

LEMMA TakeItemKeeps ==
  ASSUME DraftInv, NEW k \in Drains, TakeItem(k)
  PROVE  DraftInv'
<1>0. DraftShape /\ k \in Actors /\ k # Desk
  BY DraftIds DEF DraftInv, Actors
<1>1. PICK s \in Slots : s = Lowest(work[k].todo) /\ s \in work[k].todo
  <2>1. work[k].todo \in SUBSET Slots /\ work[k].todo # {}
    BY <1>0 DEF TakeItem, DraftShape, WorkType
  <2>2. Lowest(work[k].todo) \in work[k].todo
    BY <2>1, LowestIsOne, DraftIds
  <2> QED BY <2>1, <2>2
<1>2. /\ work[k].at = "next" /\ Updated(s, [queue[s] EXCEPT !.st = "SYNCING"])
      /\ work' = [work EXCEPT ![k] = [@ EXCEPT !.at = "sent", !.slot = s, !.todo = work[k].todo \ {s},
                                              !.op = queue[s].op, !.id = queue[s].id]]
      /\ replays' = IF queue[s].op = "CREATE" /\ queue[s].st # "PENDING"
                    THEN [replays EXCEPT ![queue[s].id] = @ + 1] ELSE replays
      /\ UNCHANGED <<carts, cache, saved, converted, deleted, ended, stranded, faults>>
  BY <1>1 DEF TakeItem, At
<1>3. /\ work[k].op = "none" /\ work[k].slot = 0 /\ queue[s].op \in Operations /\ queue[s].id \in Ids
      /\ ~Absent(s) /\ \A t \in work[k].todo : ~Absent(t)
  BY <1>1, <1>2 DEF DraftInv, DrainWork, Queue
<1>4. /\ queue' \in [Slots -> ItemTypes]
      /\ \A t \in Slots : t = s \/ queue'[t] = queue[t]
      /\ \A t \in Slots : queue'[t].op = queue[t].op /\ queue'[t].id = queue[t].id
      /\ IF queue[s].st \in QueueStatus THEN queue'[s].st = "SYNCING" /\ queue'[s].retry = queue[s].retry
                                        ELSE queue'[s] = queue[s]
  <2>1. PICK st \in QueueStatus, n \in Nat :
          /\ st = "SYNCING" /\ n = queue[s].retry
          /\ Updated(s, [queue[s] EXCEPT !.st = st, !.retry = n])
    <3>1. [queue[s] EXCEPT !.st = "SYNCING"] = [queue[s] EXCEPT !.st = "SYNCING", !.retry = queue[s].retry]
      BY <1>0 DEF DraftShape
    <3>2. Updated(s, [queue[s] EXCEPT !.st = "SYNCING", !.retry = queue[s].retry])
      BY <1>2, <3>1
    <3> QED BY <1>0, <3>2 DEF DraftShape, QueueStatus
  <2>2. Updated(s, [queue[s] EXCEPT !.st = st, !.retry = n])
    BY <2>1
  <2>3. /\ queue' \in [Slots -> ItemTypes]
        /\ \A t \in Slots : t = s \/ queue'[t] = queue[t]
        /\ \A t \in Slots : queue'[t].op = queue[t].op /\ queue'[t].id = queue[t].id
        /\ IF queue[s].st \in QueueStatus THEN queue'[s].st = st /\ queue'[s].retry = n
                                          ELSE queue'[s] = queue[s]
    BY <1>0, <2>2, Marked
  <2> QED BY <2>1, <2>3
<1>5. /\ Only(k) /\ work'[k].at = "sent" /\ work'[k].slot = s /\ work'[k].todo = work[k].todo \ {s}
      /\ work'[k].op = queue[s].op /\ work'[k].id = queue[s].id /\ work'[k].got = work[k].got
  <2> DEFINE r == [work[k] EXCEPT !.at = "sent", !.slot = s, !.todo = work[k].todo \ {s},
                                  !.op = queue[s].op, !.id = queue[s].id]
  <2>1. /\ r \in WorkType /\ r.at = "sent" /\ r.slot = s /\ r.todo = work[k].todo \ {s}
        /\ r.op = queue[s].op /\ r.id = queue[s].id /\ r.got = work[k].got
    <3>1. work[k] \in WorkType
      BY <1>0 DEF DraftShape
    <3> QED BY <1>3, <3>1 DEF WorkType
  <2>2. work' = [work EXCEPT ![k] = r]
    BY <1>0, <1>2 DEF DraftShape
  <2> HIDE DEF r
  <2> QED BY <1>0, <2>1, <2>2 DEF DraftShape, Only
<1>6. \A t \in Slots : (Absent(t)' <=> Absent(t)) /\ queue'[t].retry = queue[t].retry
  BY <1>4 DEF Absent, QueueStatus
<1>7. DrainWork(k)' /\ Answered(k)'
  <2>1. \A t \in work'[k].todo : ~Absent(t)'
    BY <1>0, <1>3, <1>5, <1>6 DEF DraftShape, WorkType
  <2> QED BY <1>3, <1>4, <1>5, <1>6, <2>1 DEF DrainWork, Answered, At, CallStages
<1>8. Tried'
  <2>1. \A t \in Slots : (k \in Holders(t)') <=> (k \in Holders(t))
    BY <1>1, <1>3, <1>5, DraftIds DEF Holders
  <2>2. Tried /\ queue' \in [Slots -> [op : Operations \cup {"none"}, id : Ids \cup {NoId}, retry : Nat,
                                       st : QueueStatus \cup {"absent", "gone"}]]
    BY <1>4 DEF ItemTypes, DraftInv
  <2>3. \A t \in Slots : queue'[t].retry + One(k \in Holders(t)') <= queue[t].retry + One(k \in Holders(t))
    BY <1>0, <1>6, <2>1 DEF One, DraftShape
  <2> QED BY <1>0, <1>5, <2>2, <2>3, TriedStep
<1>9. /\ replays' \in [Drafts -> Nat]
      /\ \A d \in Drafts : replays'[d] = replays[d] + One(queue[s].op = "CREATE" /\ queue[s].id = d
                                                           /\ queue[s].st # "PENDING")
  <2>1. queue[s].op = "CREATE" => queue[s].id \in Drafts
    BY <1>0 DEF DraftInv, Queue, DraftShape
  <2>2. CASE queue[s].op = "CREATE" /\ queue[s].st # "PENDING"
    BY <1>0, <1>2, <2>1, <2>2 DEF DraftShape, One
  <2>3. CASE ~(queue[s].op = "CREATE" /\ queue[s].st # "PENDING")
    BY <1>0, <1>2, <2>3 DEF DraftShape, One
  <2> QED BY <2>2, <2>3
<1>10. Paid'
  <2>1. ASSUME NEW d \in Drafts
        PROVE  /\ IsFiniteSet(CartsOf(d)')
               /\ Cardinality(CartsOf(d)') + One(k \in Trying(d)') + Chance(d)' + replays[d]
                    <= Cardinality(CartsOf(d)) + One(k \in Trying(d)) + Chance(d) + replays'[d]
    <3>1. CartsOf(d)' = CartsOf(d) /\ IsFiniteSet(CartsOf(d)) /\ Cardinality(CartsOf(d)) \in Nat
      BY <1>2, DraftIds, FS_Subset, FS_CardinalityType DEF CartsOf
    <3>2. Unsaved(d)' <=> Unsaved(d)
      BY <1>0, <1>2, <1>5 DEF Unsaved, Creates, Only, Actors
    <3>3. k \in Trying(d)' => queue[s].op = "CREATE" /\ queue[s].id = d
      BY <1>5 DEF Trying, Creates
    <3>4. Awaiting(d)' => Awaiting(d)
      BY <1>4 DEF Awaiting, QueueStatus
    <3>5. queue[s].op = "CREATE" /\ queue[s].id = d /\ queue[s].st = "PENDING" => Awaiting(d) /\ ~Awaiting(d)'
      BY <1>4 DEF Awaiting, QueueStatus, DraftInv, Queue
    <3>6. replays[d] \in Nat /\ replays'[d] = replays[d] + One(queue[s].op = "CREATE" /\ queue[s].id = d
                                                           /\ queue[s].st # "PENDING")
      BY <1>0, <1>9 DEF DraftShape
    <3>7. One(k \in Trying(d)') + Chance(d)'
            <= Chance(d) + One(queue[s].op = "CREATE" /\ queue[s].id = d /\ queue[s].st # "PENDING")
      BY <3>2, <3>3, <3>4, <3>5 DEF Chance, One
    <3>8. /\ Chance(d) \in Nat /\ Chance(d)' \in Nat
          /\ One(k \in Trying(d)') \in Nat /\ One(k \in Trying(d)) \in Nat
          /\ One(queue[s].op = "CREATE" /\ queue[s].id = d /\ queue[s].st # "PENDING") \in Nat
      BY DEF Chance, One
    <3> QED BY <3>1, <3>6, <3>7, <3>8
  <2>2. Paid
    BY DEF DraftInv
  <2> QED BY <1>0, <1>5, <1>9, <2>1, <2>2, PaidStep
<1>11. /\ cache' \in [Ids -> RowType] /\ faults' \in 0..MaxFaults
       /\ \A id \in Ids : Exists(id) => Exists(id)' \/ (DraftOf(id) \in ended /\ id \notin Drafts)
       /\ \A c \in Unused : Exists(c)' => Exists(c)
  BY <1>0, <1>2 DEF DraftShape, Exists
<1>12. /\ \A b \in Actors : work'[b].id \in {NoId, work[b].id} \cup {queue[t].id : t \in Slots}
       /\ work'[k].got \subseteq work[k].got
  BY <1>5 DEF Only
<1>13. \A o, c : c \in Active' /\ Owed(o, c) => Owed(o, c)'
  BY <1>4 DEF Owed, QueueStatus
<1>14. queue' \in [Slots -> [op : Operations \cup {"none"}, id : Ids \cup {NoId}, retry : Nat,
                               st : QueueStatus \cup {"absent", "gone"}]]
  BY <1>4 DEF ItemTypes
<1> QED BY <1>2, <1>4, <1>5, <1>6, <1>7, <1>8, <1>9, <1>10, <1>11, <1>12, <1>13, <1>14, DrainStep
\* A drain that heard its answer: the till's own copy is written after, the
\* item before it is marked.
LEMMA HeardKeeps ==
  ASSUME DraftInv, NEW k \in Drains, work[k].at = "answered", Enters(k, "completing"),
         work[k].op = "CREATE" => work[k].reply = "ok",
         work[k].op \in {"CONVERT", "DELETE"} => work[k].id \notin Active,
         cache' \in [Ids -> RowType],
         \A id \in Ids : Exists(id) => Exists(id)' \/ (DraftOf(id) \in ended /\ id \notin Drafts),
         \A c \in Unused : Exists(c)' => Exists(c),
         UNCHANGED <<carts, queue, history, faults>>
  PROVE  DraftInv'
<1>1. /\ UNCHANGED <<carts, queue, saved, converted, deleted, ended, replays, stranded, faults>>
      /\ DraftShape /\ k \in Actors /\ k # Desk
  BY DraftIds DEF history, DraftInv, Actors
<1>2. /\ Only(k)
      /\ work'[k].at = "completing" /\ work'[k].got = work[k].got
      /\ work'[k].op = work[k].op /\ work'[k].id = work[k].id
      /\ work'[k].slot = work[k].slot /\ work'[k].todo = work[k].todo
  <2>1. PICK stage \in WorkStages : stage = "completing" /\ Enters(k, stage)
    BY DEF WorkStages
  <2>2. /\ Only(k)
        /\ Fields(work'[k], stage, work[k].op, work[k].id, work[k].slot, work[k].reply,
                  work[k].got, work[k].todo)
    BY <1>1, <2>1, Entered
  <2> QED BY <2>1, <2>2 DEF Fields
<1>3. DrainWork(k)' /\ Answered(k)'
  <2>1. DrainWork(k)
    BY DEF DraftInv
  <2>2. DrainWork(k)'
    BY <1>1, <1>2, <2>1 DEF DrainWork, Absent, CallStages
  <2> QED BY <1>1, <1>2, <2>2 DEF Answered, At, Active
<1>4. Tried'
  BY <1>1, <1>2, DraftIds DEF DraftInv, Tried, Holders, Only, MaxTries, Actors
<1>5. Paid'
  <2>1. \A d \in Drafts : /\ CartsOf(d)' = CartsOf(d)
                         /\ One(k \in Trying(d)') + Chance(d)' <= One(k \in Trying(d)) + Chance(d)
    <3> SUFFICES ASSUME NEW d \in Drafts
                 PROVE  /\ CartsOf(d)' = CartsOf(d)
                        /\ One(k \in Trying(d)') + Chance(d)' <= One(k \in Trying(d)) + Chance(d)
      OBVIOUS
    <3>1. CartsOf(d)' = CartsOf(d) /\ (Awaiting(d)' <=> Awaiting(d))
      BY <1>1 DEF CartsOf, Awaiting
    <3>2. k \notin Trying(d)'
      BY <1>2 DEF Trying, At
    <3>3. Unsaved(d)' <=> Unsaved(d)
      BY <1>1, <1>2 DEF Unsaved, Creates, Only, Actors
    <3> QED BY <3>1, <3>2, <3>3 DEF Chance, One
  <2> QED BY <1>1, <1>2, <2>1, PaidAsBefore
<1>6. /\ replays' \in [Drafts -> Nat] /\ faults' \in 0..MaxFaults
      /\ queue' \in [Slots -> [op : Operations \cup {"none"}, id : Ids \cup {NoId}, retry : Nat,
                               st : QueueStatus \cup {"absent", "gone"}]]
      /\ \A s \in Slots : /\ queue'[s].op = queue[s].op /\ queue'[s].id = queue[s].id
                          /\ Absent(s)' <=> Absent(s)
  BY <1>1 DEF DraftShape, Absent
<1>7. /\ \A b \in Actors : work'[b].id \in {NoId, work[b].id} \cup {queue[s].id : s \in Slots}
      /\ work'[k].got \subseteq work[k].got
  BY <1>2 DEF Only
<1>8. \A o, c : c \in Active' /\ Owed(o, c) => Owed(o, c)'
  BY <1>1 DEF Owed
<1> QED BY <1>1, <1>2, <1>3, <1>4, <1>5, <1>6, <1>7, <1>8, DrainStep

LEMMA ProcessSyncKeeps ==
  ASSUME DraftInv, NEW k \in Drains,
         ProcessCreateSync(k) \/ ProcessConvertSync(k) \/ ProcessDeleteSync(k)
  PROVE  DraftInv'
<1>1. /\ work[k].at = "answered" /\ Enters(k, "completing") /\ work[k].reply # "refused"
      /\ UNCHANGED <<carts, queue, history, faults>>
  BY DEF ProcessCreateSync, ProcessConvertSync, ProcessDeleteSync, Heard, At
<1>2. DraftShape /\ Answered(k) /\ k \in Actors
  BY DEF DraftInv, Actors
<1>3. CASE ProcessCreateSync(k)
  <2>1. work[k].op = "CREATE" /\ work[k].id \in Ids
    BY <1>2, <1>3, CreationsOfDrafts DEF ProcessCreateSync, Heard, Ids
  <2>2. work[k].reply = "ok" /\ work[k].got \cap Unused = {}
    BY <1>1, <1>2, <2>1 DEF Answered, At, Made
  <2>3. cache' = [id \in Ids |-> IF Exists(work[k].id) /\ id \in work[k].got
                                 THEN [cache[work[k].id] EXCEPT !.st = "SYNCED"] ELSE cache[id]]
    BY <1>3 DEF ProcessCreateSync
  <2>4. [cache[work[k].id] EXCEPT !.st = "SYNCED"] \in RowType
    BY <1>2, <2>1 DEF DraftShape, RowType
  <2>5. cache' \in [Ids -> RowType]
    BY <1>2, <2>3, <2>4 DEF DraftShape
  <2>6. \A id \in Ids : Exists(id) => Exists(id)'
    BY <1>2, <2>1, <2>3 DEF Exists, DraftShape, RowType
  <2>7. \A c \in Unused : Exists(c)' => Exists(c)
    BY <2>2, <2>3 DEF Exists, Ids, Unused
  <2> QED BY <1>1, <2>1, <2>2, <2>5, <2>6, <2>7, HeardKeeps
<1>4. CASE ProcessConvertSync(k)
  <2>1. work[k].op = "CONVERT" /\ cache' = [cache EXCEPT ![work[k].id] = NoRow]
    BY <1>4 DEF ProcessConvertSync, Heard
  <2>2. work[k].reply = "ok"
    BY <1>1, <1>2, <2>1 DEF Answered, At, DraftShape, WorkType
  <2>3. work[k].id \in Carts /\ DraftOf(work[k].id) \in ended /\ work[k].id \notin Active
    BY <1>1, <1>2, <2>1, <2>2 DEF Answered, At
  <2>4. cache' \in [Ids -> RowType]
    BY <1>2, <2>1 DEF DraftShape, NoRow, RowType
  <2>5. \A id \in Ids : id = work[k].id \/ (Exists(id)' <=> Exists(id))
    BY <1>2, <2>1 DEF DraftShape, Exists
  <2>6. work[k].id \notin Drafts /\ work[k].id \in Ids
    BY <2>3, DraftIds DEF Ids
  <2>7. \A c \in Unused : Exists(c)' => Exists(c)
    BY <1>2, <2>1, <2>5, <2>6 DEF DraftShape, Exists, NoRow, Ids, Unused
  <2> QED BY <1>1, <2>1, <2>3, <2>4, <2>5, <2>6, <2>7, HeardKeeps
<1>5. CASE ProcessDeleteSync(k)
  <2>1. work[k].op = "DELETE" /\ UNCHANGED cache
    BY <1>5 DEF ProcessDeleteSync, Heard
  <2>2. work[k].id \notin Active
    BY <1>1, <1>2, <2>1 DEF Answered, At, DraftShape, WorkType
  <2>3. cache' \in [Ids -> RowType] /\ \A id : Exists(id)' <=> Exists(id)
    BY <1>2, <2>1 DEF DraftShape, Exists
  <2> QED BY <1>1, <2>1, <2>2, <2>3, HeardKeeps
<1> QED BY <1>3, <1>4, <1>5
\* A drain is done with an item: it waits again, one failure more, or is synced.
LEMMA ItemEnds ==
  ASSUME DraftInv, NEW k \in Drains, NEW s \in Slots, s = work[k].slot,
         work[k].at \in {"failed", "answered", "completing"},
         NEW st \in {"PENDING", "SYNCED"}, NEW n \in Nat, n <= queue[s].retry + 1,
         Updated(s, [queue[s] EXCEPT !.st = st, !.retry = n]),
         st = "PENDING" => \/ work[k].at = "failed"
                           \/ work[k].at = "answered" /\ work[k].reply # "ok",
         st = "SYNCED" => queue[s].id \notin Active,
         work' = [work EXCEPT ![k] = [Idle EXCEPT !.at = "next", !.todo = work[k].todo]],
         UNCHANGED <<carts, cache, history, faults>>
  PROVE  DraftInv'
<1>1. /\ UNCHANGED <<carts, cache, saved, converted, deleted, ended, replays, stranded, faults>>
      /\ DraftShape /\ k \in Actors /\ k # Desk
  BY DraftIds DEF history, DraftInv, Actors
<1>2. PICK todo \in SUBSET Slots : todo = work[k].todo
  BY <1>1 DEF DraftShape, WorkType
<1>3. Only(k) /\ Fields(work'[k], "next", "none", NoId, 0, "none", {}, todo)
  <2>1. work' = [work EXCEPT ![k] = [Idle EXCEPT !.at = "next", !.todo = todo]]
    BY <1>2
  <2> QED BY <1>1, <2>1, DrainTurns
<1>4. /\ work'[k].at = "next" /\ work'[k].op = "none" /\ work'[k].id = NoId
      /\ work'[k].slot = 0 /\ work'[k].got = {} /\ work'[k].todo = todo
  BY <1>3 DEF Fields
<1>5. /\ queue' \in [Slots -> ItemTypes]
      /\ \A t \in Slots : t = s \/ queue'[t] = queue[t]
      /\ \A t \in Slots : queue'[t].op = queue[t].op /\ queue'[t].id = queue[t].id
      /\ IF queue[s].st \in QueueStatus THEN queue'[s].st = st /\ queue'[s].retry = n
                                        ELSE queue'[s] = queue[s]
  <2>1. st \in QueueStatus
    BY DEF QueueStatus
  <2> QED BY <1>1, <2>1, Marked
<1>6. \A t \in Slots : Absent(t)' <=> Absent(t)
  BY <1>5 DEF Absent, QueueStatus
<1>7. /\ s \notin todo /\ \A t \in todo : ~Absent(t)
      /\ work[k].op = queue[s].op /\ work[k].id = queue[s].id /\ queue[s].op \in Operations
  BY <1>2 DEF DraftInv, DrainWork, CallStages, Queue
<1>8. DrainWork(k)' /\ Answered(k)'
  <2>1. \A t \in todo : ~Absent(t)'
    BY <1>6, <1>7
  <2> QED BY <1>4, <2>1 DEF DrainWork, Answered, At, CallStages
<1>9. Tried'
  <2>1. k \in Holders(s) /\ k \notin Holders(s)'
    BY <1>4, <1>7, DraftIds DEF Holders
  <2>2. \A t \in Slots : k \in Holders(t)' => k \in Holders(t)
    BY <1>2, <1>4, DraftIds DEF Holders
  <2>3. queue' \in [Slots -> [op : Operations \cup {"none"}, id : Ids \cup {NoId}, retry : Nat,
                              st : QueueStatus \cup {"absent", "gone"}]]
    BY <1>5 DEF ItemTypes
  <2>4. ASSUME NEW t \in Slots
        PROVE  queue'[t].retry + One(k \in Holders(t)') <= queue[t].retry + One(k \in Holders(t))
    <3>1. queue[t].retry \in Nat
      BY <1>1 DEF DraftShape
    <3>2. CASE t = s
      <4>1. queue'[s].retry = n \/ queue'[s].retry = queue[s].retry
        BY <1>5
      <4>2. One(k \in Holders(s)) = 1 /\ One(k \in Holders(s)') = 0
        BY <2>1 DEF One
      <4> QED BY <3>1, <3>2, <4>1, <4>2
    <3>3. CASE t # s
      <4>1. queue'[t].retry = queue[t].retry
        BY <1>5, <3>3
      <4> QED BY <2>2, <3>1, <4>1 DEF One
    <3> QED BY <3>2, <3>3
  <2>5. Tried
    BY DEF DraftInv
  <2> QED BY <1>1, <1>3, <2>3, <2>4, <2>5, TriedStep
<1>10. Paid'
  <2>1. \A d \in Drafts : /\ CartsOf(d)' = CartsOf(d)
                         /\ One(k \in Trying(d)') + Chance(d)' <= One(k \in Trying(d)) + Chance(d)
    <3> SUFFICES ASSUME NEW d \in Drafts
                 PROVE  /\ CartsOf(d)' = CartsOf(d)
                        /\ One(k \in Trying(d)') + Chance(d)' <= One(k \in Trying(d)) + Chance(d)
      OBVIOUS
    <3>1. CartsOf(d)' = CartsOf(d)
      BY <1>1 DEF CartsOf
    <3>2. k \notin Trying(d)'
      BY <1>4 DEF Trying, Creates
    <3>3. Unsaved(d)' <=> Unsaved(d)
      BY <1>1, <1>3 DEF Unsaved, Creates, Only, Actors
    <3>4. Awaiting(d)' => Awaiting(d) \/ k \in Trying(d)
      <4>1. ASSUME NEW t \in Slots, queue'[t].op = "CREATE", queue'[t].id = d, queue'[t].st = "PENDING",
                   ~Awaiting(d)
            PROVE  k \in Trying(d)
        <5>1. t = s /\ queue[s].st # "PENDING"
          BY <1>5, <4>1 DEF Awaiting
        <5>2. st = "PENDING"
          BY <1>5, <4>1, <5>1 DEF QueueStatus
        <5> QED BY <1>1, <1>5, <1>7, <4>1, <5>1, <5>2 DEF Trying, Creates, At
      <4> QED BY <4>1 DEF Awaiting
    <3> QED BY <3>1, <3>2, <3>3, <3>4 DEF Chance, One
  <2> QED BY <1>1, <1>3, <2>1, PaidAsBefore
<1>11. /\ replays' \in [Drafts -> Nat] /\ cache' \in [Ids -> RowType] /\ faults' \in 0..MaxFaults
       /\ \A id \in Ids : Exists(id) => Exists(id)' \/ (DraftOf(id) \in ended /\ id \notin Drafts)
       /\ \A c \in Unused : Exists(c)' => Exists(c)
  BY <1>1 DEF DraftShape, Exists
<1>12. /\ \A b \in Actors : work'[b].id \in {NoId, work[b].id} \cup {queue[t].id : t \in Slots}
       /\ work'[k].got \subseteq work[k].got
  BY <1>3, <1>4 DEF Only
<1>13. \A o, c : c \in Active' /\ Owed(o, c) => Owed(o, c)'
  <2> SUFFICES ASSUME NEW o, NEW c, c \in Active', Owed(o, c) PROVE Owed(o, c)'
    OBVIOUS
  <2>1. PICK t \in Slots : queue[t].op = o /\ queue[t].id = c /\ queue[t].st \in {"PENDING", "SYNCING"}
    BY DEF Owed
  <2>2. c \in Active
    BY <1>1 DEF Active
  <2>3. queue'[t].st \in {"PENDING", "SYNCING"}
    BY <1>5, <2>1, <2>2 DEF QueueStatus
  <2> QED BY <1>5, <2>1, <2>3 DEF Owed
<1>14. queue' \in [Slots -> [op : Operations \cup {"none"}, id : Ids \cup {NoId}, retry : Nat,
                             st : QueueStatus \cup {"absent", "gone"}]]
  BY <1>5 DEF ItemTypes
<1> QED BY <1>1, <1>3, <1>5, <1>6, <1>8, <1>9, <1>10, <1>11, <1>12, <1>13, <1>14, DrainStep

LEMMA SyncFailsKeeps ==
  ASSUME DraftInv, NEW k \in Drains, SyncFails(k)
  PROVE  DraftInv'
<1>1. /\ work[k].at = "failed" \/ (work[k].at = "answered" /\ work[k].reply = "refused")
      /\ MarkFailed(work[k].slot)
      /\ work' = [work EXCEPT ![k] = [Idle EXCEPT !.at = "next", !.todo = work[k].todo]]
      /\ UNCHANGED <<carts, cache, history, faults>>
  BY DEF SyncFails, At
<1>2. PICK s \in Slots : s = work[k].slot
  BY <1>1 DEF DraftInv, DrainWork, CallStages
<1>3. PICK st \in {"PENDING", "SYNCED"}, n \in Nat :
        st = "PENDING" /\ n = queue[s].retry + 1 /\ Updated(s, [queue[s] EXCEPT !.st = st, !.retry = n])
  <2>1. queue[s].retry + 1 \in Nat
    BY DEF DraftInv, DraftShape
  <2> QED BY <1>1, <1>2, <2>1 DEF MarkFailed
<1>4. /\ work[k].at \in {"failed", "answered", "completing"} /\ n <= queue[s].retry + 1
      /\ st = "PENDING" => \/ work[k].at = "failed"
                           \/ work[k].at = "answered" /\ work[k].reply # "ok"
      /\ st = "SYNCED" => queue[s].id \notin Active
  BY <1>1, <1>3
<1>5. Updated(s, [queue[s] EXCEPT !.st = st, !.retry = n])
  BY <1>3
<1> QED BY <1>1, <1>2, <1>4, <1>5, ItemEnds

LEMMA MarkCompleteKeeps ==
  ASSUME DraftInv, NEW k \in Drains, MarkComplete(k)
  PROVE  DraftInv'
<1>1. /\ work[k].at = "completing"
      /\ Updated(work[k].slot, [queue[work[k].slot] EXCEPT !.st = "SYNCED"])
      /\ work' = [work EXCEPT ![k] = [Idle EXCEPT !.at = "next", !.todo = work[k].todo]]
      /\ UNCHANGED <<carts, cache, history, faults>>
  BY DEF MarkComplete, At
<1>2. PICK s \in Slots : /\ s = work[k].slot /\ ~Absent(s)
                         /\ work[k].op = queue[s].op /\ work[k].id = queue[s].id
  BY <1>1 DEF DraftInv, DrainWork
<1>3. PICK st \in {"PENDING", "SYNCED"}, n \in Nat :
        st = "SYNCED" /\ n = queue[s].retry /\ Updated(s, [queue[s] EXCEPT !.st = st, !.retry = n])
  <2>1. queue[s].retry \in Nat
    BY DEF DraftInv, DraftShape
  <2>2. [queue[s] EXCEPT !.st = "SYNCED"] = [queue[s] EXCEPT !.st = "SYNCED", !.retry = queue[s].retry]
    BY DEF DraftInv, DraftShape
  <2> QED BY <1>1, <1>2, <2>1, <2>2
<1>4. queue[s].id \notin Active
  <2>1. CASE queue[s].op = "CREATE"
    <3>1. queue[s].id \in Drafts
      BY <2>1 DEF DraftInv, DraftShape, Queue
    <3> QED BY <3>1, DraftIds DEF Active
  <2>2. CASE queue[s].op \in {"CONVERT", "DELETE"}
    <3>1. Answered(k)
      BY DEF DraftInv, Actors
    <3> QED BY <1>1, <1>2, <2>2, <3>1 DEF Answered, At
  <2> QED BY <1>2, <2>1, <2>2 DEF DraftInv, Queue, Operations
<1>5. /\ work[k].at \in {"failed", "answered", "completing"} /\ n <= queue[s].retry + 1
      /\ st = "PENDING" => \/ work[k].at = "failed"
                           \/ work[k].at = "answered" /\ work[k].reply # "ok"
      /\ st = "SYNCED" => queue[s].id \notin Active
  BY <1>1, <1>3, <1>4
<1>6. Updated(s, [queue[s] EXCEPT !.st = st, !.retry = n])
  BY <1>3
<1> QED BY <1>1, <1>2, <1>5, <1>6, ItemEnds

LEMMA CleanupCompletedKeeps ==
  ASSUME DraftInv, NEW k \in Drains, CleanupCompleted(k)
  PROVE  DraftInv'
<1>1. /\ UNCHANGED <<carts, cache, saved, converted, deleted, ended, replays, stranded, faults>>
      /\ DraftShape /\ k \in Actors /\ k # Desk /\ work[k].at = "next" /\ work[k].todo = {}
      /\ work' = [work EXCEPT ![k] = Idle]
      /\ queue' = [s \in Slots |-> IF queue[s].st = "SYNCED" THEN [queue[s] EXCEPT !.st = "gone"] ELSE queue[s]]
  BY DraftIds DEF CleanupCompleted, At, history, DraftInv, Actors
<1>2. /\ queue' \in [Slots -> [op : Operations \cup {"none"}, id : Ids \cup {NoId}, retry : Nat,
                               st : QueueStatus \cup {"absent", "gone"}]]
      /\ \A s \in Slots : /\ queue'[s].op = queue[s].op /\ queue'[s].id = queue[s].id
                          /\ queue'[s].retry = queue[s].retry
                          /\ queue'[s].st = IF queue[s].st = "SYNCED" THEN "gone" ELSE queue[s].st
  <2>1. ASSUME NEW s \in Slots
        PROVE  [queue[s] EXCEPT !.st = "gone"] \in ItemTypes
    BY <1>1, <2>1 DEF DraftShape, ItemTypes
  <2>2. queue' \in [Slots -> ItemTypes]
    BY <1>1, <2>1 DEF DraftShape, ItemTypes
  <2> QED BY <1>1, <2>2 DEF DraftShape, ItemTypes
<1>3. \A s \in Slots : Absent(s)' <=> Absent(s)
  BY <1>2 DEF Absent
<1>4. Only(k) /\ work'[k] = Idle
  <2>1. Idle \in WorkType
    BY DEF Idle, WorkType, NoId, Operations
  <2> QED BY <1>1, <2>1 DEF DraftShape, Only
<1>5. DrainWork(k)' /\ Answered(k)'
  BY <1>4 DEF DrainWork, Answered, At, CallStages, Idle
<1>6. Tried'
  <2>1. \A s \in Slots : k \notin Holders(s)'
    BY <1>4, DraftIds DEF Holders, Idle
  <2>2. \A s \in Slots : queue'[s].retry + One(k \in Holders(s)') <= queue[s].retry + One(k \in Holders(s))
    BY <1>1, <1>2, <2>1 DEF One, DraftShape
  <2>3. Tried
    BY DEF DraftInv
  <2> QED BY <1>1, <1>2, <1>4, <2>2, <2>3, TriedStep
<1>7. Paid'
  <2>1. \A d \in Drafts : /\ CartsOf(d)' = CartsOf(d)
                         /\ One(k \in Trying(d)') + Chance(d)' <= One(k \in Trying(d)) + Chance(d)
    <3> SUFFICES ASSUME NEW d \in Drafts
                 PROVE  /\ CartsOf(d)' = CartsOf(d)
                        /\ One(k \in Trying(d)') + Chance(d)' <= One(k \in Trying(d)) + Chance(d)
      OBVIOUS
    <3>1. CartsOf(d)' = CartsOf(d)
      BY <1>1 DEF CartsOf
    <3>2. k \notin Trying(d)' /\ (Awaiting(d)' => Awaiting(d))
      BY <1>2, <1>4 DEF Trying, Creates, Idle, Awaiting
    <3>3. Unsaved(d)' <=> Unsaved(d)
      BY <1>1, <1>4 DEF Unsaved, Creates, Only, Actors
    <3> QED BY <3>1, <3>2, <3>3 DEF Chance, One
  <2> QED BY <1>1, <1>4, <2>1, PaidAsBefore
<1>8. /\ replays' \in [Drafts -> Nat] /\ cache' \in [Ids -> RowType] /\ faults' \in 0..MaxFaults
      /\ \A id \in Ids : Exists(id) => Exists(id)' \/ (DraftOf(id) \in ended /\ id \notin Drafts)
      /\ \A c \in Unused : Exists(c)' => Exists(c)
  BY <1>1 DEF DraftShape, Exists
<1>9. /\ \A b \in Actors : work'[b].id \in {NoId, work[b].id} \cup {queue[t].id : t \in Slots}
      /\ work'[k].got \subseteq work[k].got
  BY <1>4 DEF Only, Idle
<1>10. \A o, c : c \in Active' /\ Owed(o, c) => Owed(o, c)'
  BY <1>2 DEF Owed
<1> QED BY <1>1, <1>2, <1>3, <1>4, <1>5, <1>6, <1>7, <1>8, <1>9, <1>10, DrainStep
-----------------------------------------------------------------------------
(* Crashes, and every step.                                                *)

\* The till dies: a creation the operator waited for may be made again, and
\* either was not handled or is counted as unheard.
LEMMA CrashKeeps ==
  ASSUME DraftInv, Crash
  PROVE  DraftInv'
<1> DEFINE U(d) == {a \in Actors : /\ work[a].got # {} /\ At(a, "answered")
                                   /\ work[a].op = "CREATE" /\ work[a].id = d}
<1>1. /\ work' = [a \in Actors |-> Idle] /\ faults' \in 0..MaxFaults
      /\ replays' = [d \in Drafts |-> replays[d] + Cardinality(U(d))]
      /\ stranded' \subseteq Slots
      /\ UNCHANGED <<carts, cache, queue, saved, converted, deleted, ended>>
  <2>1. faults' \in 0..MaxFaults
    BY DraftAssumption DEF Crash, Fault, DraftInv, DraftShape, DraftAssumption
  <2>2. stranded' \subseteq Slots
    BY DEF Crash, DraftInv, DraftShape
  <2> QED BY <2>1, <2>2 DEF Crash, Unheard
<1>2. \A d \in Drafts : IsFiniteSet(U(d)) /\ Cardinality(U(d)) \in Nat
  BY DraftIds, FS_Subset, FS_CardinalityType
<1>3. \A a \in Actors : work'[a] = Idle
  BY <1>1
<1>4. DraftShape'
  <2>1. replays' \in [Drafts -> Nat]
    <3> HIDE DEF U
    <3>1. \A d \in Drafts : replays[d] + Cardinality(U(d)) \in Nat
      BY <1>2 DEF DraftInv, DraftShape
    <3> QED BY <1>1, <3>1
  <2>2. Idle \in WorkType
    BY DEF Idle, WorkType, NoId, Operations
  <2> QED BY <1>1, <2>1, <2>2 DEF DraftInv, DraftShape
<1>5. Known' /\ Queue'
  <2>1. Unused' = Unused /\ Made' = Made
    BY <1>1 DEF Unused, Made
  <2>2. \A c \in Unused : c # NoId
    BY DraftIds DEF Unused
  <2> QED BY <1>1, <1>3, <2>1, <2>2 DEF DraftInv, Known, Queue, Exists, Absent, Idle
<1>6. DeskWork' /\ (\A k \in Drains : DrainWork(k)') /\ (\A a \in Actors : Answered(a)')
  BY <1>3 DEF DeskWork, DrainWork, Answered, At, CallStages, Idle, Actors
<1>7. Tried'
  <2> SUFFICES ASSUME NEW s \in Slots PROVE queue'[s].retry + Cardinality(Holders(s)') <= MaxTries
    BY DEF Tried
  <2>1. Holders(s)' = {} /\ Cardinality({}) = 0
    BY <1>3, DraftIds, FS_EmptySet DEF Holders, Idle, Actors
  <2>2. Cardinality(Holders(s)) \in Nat
    BY DraftAssumption, FS_Subset, FS_CardinalityType DEF DraftAssumption, Holders
  <2>3. queue'[s].retry = queue[s].retry /\ queue[s].retry \in Nat
    BY <1>1 DEF DraftInv, DraftShape
  <2>4. queue[s].retry + Cardinality(Holders(s)) <= MaxTries /\ MaxTries \in Int
    BY DraftIds DEF DraftInv, Tried, MaxTries
  <2> QED BY <2>1, <2>2, <2>3, <2>4
<1>8. Paid'
  <2> SUFFICES ASSUME NEW d \in Drafts
               PROVE  Cardinality(CartsOf(d)') + Cardinality(Trying(d)') + Chance(d)' <= 1 + replays'[d]
    BY DEF Paid
  <2>1. CartsOf(d)' = CartsOf(d) /\ (Awaiting(d)' <=> Awaiting(d)) /\ replays'[d] = replays[d] + Cardinality(U(d))
    BY <1>1 DEF CartsOf, Awaiting
  <2>2. Trying(d)' = {} /\ Cardinality({}) = 0
    BY <1>3, FS_EmptySet DEF Trying, Creates, Idle
  <2>3. IsFiniteSet(Trying(d)) /\ IsFiniteSet(CartsOf(d))
    BY DraftIds, FS_Subset DEF Trying, CartsOf
  <2>4. /\ Cardinality(Trying(d)) \in Nat /\ Cardinality(CartsOf(d)) \in Nat /\ replays[d] \in Nat
        /\ Cardinality(U(d)) \in Nat
    BY <1>2, <2>3, FS_CardinalityType DEF DraftInv, DraftShape
  <2>5. Unsaved(d)' => Unsaved(d) \/ Desk \in Trying(d) \/ Desk \in U(d)
    <3>1. Unsaved(d)' => Unsaved(d) \/ Creates(Desk, d)
      BY <1>1 DEF Unsaved
    <3>2. Desk \in Actors /\ DeskWork /\ Answered(Desk)
      BY DEF DraftInv, Actors
    <3>3. Creates(Desk, d) => work[Desk].at \in {"sent", "answered", "failed", "queueing"}
      BY <3>2 DEF DeskWork, Creates, Idle
    <3>4. Creates(Desk, d) /\ At(Desk, "answered") /\ work[Desk].reply = "ok" => work[Desk].got # {}
      BY <3>2 DEF Answered, Creates
    <3> QED BY <3>1, <3>2, <3>3, <3>4 DEF Trying, Creates, At
  <2>6. Desk \in Trying(d) => Cardinality(Trying(d)) # 0
    BY <2>3, FS_EmptySet
  <2>7. Desk \in U(d) => Cardinality(U(d)) # 0
    BY <1>2, FS_EmptySet
  <2>8. Cardinality(CartsOf(d)) + Cardinality(Trying(d)) + Chance(d) <= 1 + replays[d]
    BY DEF DraftInv, Paid
  <2>9. Chance(d) \in Nat /\ Chance(d)' \in Nat
    BY DEF Chance
  <2> HIDE DEF U
  <2>10. Chance(d)' <= Chance(d) + Cardinality(Trying(d)) + Cardinality(U(d))
    BY <2>1, <2>4, <2>5, <2>6, <2>7 DEF Chance
  <2> QED BY <2>1, <2>2, <2>4, <2>8, <2>9, <2>10
<1>9. DraftKept' /\ ToldIsTrueOrOwed'
  BY <1>1 DEF DraftInv, DraftKept, ToldIsTrueOrOwed, Exists, DraftOf, CartsOf, Active, Owed
<1> QED BY <1>4, <1>5, <1>6, <1>7, <1>8, <1>9 DEF DraftInv

LEMMA InitIsDraftInv == Init => DraftInv
<1> SUFFICES ASSUME Init PROVE DraftInv
  OBVIOUS
<1>1. DraftShape
  <2>1. Idle \in WorkType /\ NoRow \in RowType
    BY DEF Idle, NoRow, RowType, WorkType, NoId, Operations
  <2> QED BY <2>1, DraftAssumption DEF Init, DraftShape, NoItem, NoId, DraftAssumption
<1>2. Unused = Carts /\ Made = {} /\ \A d \in Drafts : CartsOf(d) = {}
  BY DraftAssumption DEF Init, Unused, Made, CartsOf, NoId, DraftAssumption
<1>3. \A id \in Ids : ~Exists(id)
  BY DEF Init, Exists, NoRow
<1>4. \A a \in Actors : work[a] = Idle
  BY DEF Init
<1>5. \A s \in Slots : queue[s] = NoItem
  BY DEF Init
<1>6. Known /\ Queue
  BY <1>2, <1>3, <1>4, <1>5, DraftIds DEF Init, Known, Queue, Absent, NoItem, Idle, Ids
<1>7. DeskWork /\ (\A k \in Drains : DrainWork(k)) /\ (\A a \in Actors : Answered(a))
  BY <1>4 DEF DeskWork, DrainWork, Answered, At, CallStages, Idle, Actors
<1>8. Tried
  <2> SUFFICES ASSUME NEW s \in Slots PROVE queue[s].retry + Cardinality(Holders(s)) <= MaxTries
    BY DEF Tried
  <2>1. Holders(s) = {} /\ Cardinality({}) = 0
    BY <1>4, DraftIds, FS_EmptySet DEF Holders, Idle, Actors
  <2>2. queue[s].retry = 0
    BY <1>5 DEF NoItem
  <2> QED BY <2>1, <2>2, DraftIds DEF MaxTries
<1>9. Paid
  <2> SUFFICES ASSUME NEW d \in Drafts
               PROVE  Cardinality(CartsOf(d)) + Cardinality(Trying(d)) + Chance(d) <= 1 + replays[d]
    BY DEF Paid
  <2>1. CartsOf(d) = {} /\ Trying(d) = {} /\ Cardinality({}) = 0
    BY <1>2, <1>4, FS_EmptySet DEF Trying, Creates, Idle
  <2>2. ~Awaiting(d) /\ replays[d] = 0
    BY <1>5 DEF Awaiting, NoItem, Init
  <2> QED BY <2>1, <2>2 DEF Chance
<1>10. DraftKept /\ ToldIsTrueOrOwed
  BY DEF Init, DraftKept, ToldIsTrueOrOwed
<1> QED BY <1>1, <1>6, <1>7, <1>8, <1>9, <1>10 DEF DraftInv

LEMMA DraftInvSteps ==
  ASSUME DraftInv, [Next]_vars
  PROVE  DraftInv'
<1>1. CASE Starts
  BY <1>1, StartsKeep
<1>2. CASE Continues
  BY <1>2, CacheFromResponseKeeps, CreateLocalDraftKeeps, SettledKeeps, NotSettledKeeps, QueueCreateKeeps,
     ListEndsKeeps, HandleListKeeps DEF Continues
<1>3. ASSUME NEW a \in Actors, Handles(a) \/ CallFails(a) \/ AnswerLost(a)
      PROVE  DraftInv'
  BY <1>3, HandleCreateKeeps, HandleEndingKeeps, CallLostKeeps DEF Handles
<1>4. ASSUME NEW k \in Drains, ProcessSyncQueue(k) \/ Replays(k)
      PROVE  DraftInv'
  BY <1>4, ProcessSyncQueueKeeps, TakeItemKeeps, ProcessSyncKeeps, SyncFailsKeeps, MarkCompleteKeeps,
     CleanupCompletedKeeps DEF Replays
<1>5. ASSUME NEW c \in Carts, OtherTill(c)
      PROVE  DraftInv'
  BY <1>5, OtherTillKeeps
<1>6. CASE Crash
  BY <1>6, CrashKeeps
<1>7. CASE UNCHANGED vars
  <2>1. UNCHANGED <<carts, cache, queue, work, saved, converted, deleted, ended, replays, stranded, faults>>
    BY <1>7 DEF vars, till, history
  <2>2. (DraftShape /\ Known /\ Queue /\ DeskWork)'
    BY <2>1 DEF DraftInv, DraftShape, Known, Queue, DeskWork, Made, Unused, Exists, Absent, DraftOf, Active, Owed
  <2>3. \A k \in Drains : DrainWork(k)'
    BY <2>1 DEF DraftInv, DrainWork, Absent
  <2>4. \A a \in Actors : Answered(a)'
    BY <2>1 DEF DraftInv, Answered, At, Made, Unused, DraftOf, Active
  <2>5. Tried'
    BY <2>1 DEF DraftInv, Tried, Holders, MaxTries
  <2>6. Paid'
    BY <2>1 DEF DraftInv, Paid, CartsOf, Trying, Creates, At, Chance, Awaiting, Unsaved
  <2>7. DraftKept' /\ ToldIsTrueOrOwed'
    BY <2>1 DEF DraftInv, DraftKept, ToldIsTrueOrOwed, Exists, DraftOf, CartsOf, Active, Owed
  <2> QED BY <2>2, <2>3, <2>4, <2>5, <2>6, <2>7 DEF DraftInv
<1> QED BY <1>1, <1>2, <1>3, <1>4, <1>5, <1>6, <1>7 DEF Next

\* The counts of the invariant bound what the runs see of them.
LEMMA DraftInvImplies == DraftInv => DraftInOnePlace
<1> SUFFICES ASSUME DraftInv PROVE TypeOK /\ DoubledOnlyByReplay
  BY DEF DraftInv, DraftInOnePlace
<1>1. TypeOK
  <2>1. ASSUME NEW s \in Slots
        PROVE  queue[s].retry \in 0..MaxTries
    <3>1. Cardinality(Holders(s)) \in Nat
      BY DraftAssumption, FS_Subset, FS_CardinalityType DEF DraftAssumption, Holders
    <3>2. queue[s].retry \in Nat /\ queue[s].retry + Cardinality(Holders(s)) <= MaxTries /\ MaxTries \in Int
      BY DraftIds DEF DraftInv, DraftShape, Tried, MaxTries
    <3> QED BY <3>1, <3>2
  <2>2. queue \in [Slots -> ItemType]
    BY <2>1 DEF DraftInv, DraftShape, ItemType
  <2> QED BY <2>2 DEF DraftInv, DraftShape, TypeOK
<1>2. DoubledOnlyByReplay
  <2> SUFFICES ASSUME NEW d \in Drafts PROVE Cardinality(CartsOf(d)) <= 1 + replays[d]
    BY DEF DoubledOnlyByReplay
  <2>1. IsFiniteSet(Trying(d)) /\ IsFiniteSet(CartsOf(d))
    BY DraftIds, FS_Subset DEF Trying, CartsOf
  <2>2. Cardinality(Trying(d)) \in Nat /\ Cardinality(CartsOf(d)) \in Nat /\ Chance(d) \in Nat
    BY <2>1, FS_CardinalityType DEF Chance
  <2>3. Cardinality(CartsOf(d)) + Cardinality(Trying(d)) + Chance(d) <= 1 + replays[d] /\ replays[d] \in Nat
    BY DEF DraftInv, DraftShape, Paid
  <2> QED BY <2>2, <2>3
<1> QED BY <1>1, <1>2

-----------------------------------------------------------------------------
\* A draft the operator was told is saved is kept until its sale or deletion is
\* queued or done, and the platform holds one cart of it for each creation
\* that was replayed and one: with any number of drafts, carts and drains that
\* overlap, whatever calls fail, answers are lost and crashes happen between
\* save_shared_draft, process_sync_queue and the other tills.
THEOREM DraftKeptAlways == Spec => []DraftInOnePlace
<1>1. Init => DraftInv
  BY InitIsDraftInv
<1>2. DraftInv /\ [Next]_vars => DraftInv'
  BY DraftInvSteps
<1>3. DraftInv => DraftInOnePlace
  BY DraftInvImplies
<1> QED BY <1>1, <1>2, <1>3, PTL DEF Spec

\* A cart the operator was told is converted or deleted is not active at the
\* platform, or the call that ends it is in draft_sync_queue, PENDING or
\* SYNCING: no drain and no crash drops it.
THEOREM ToldAlways == Spec => []ToldIsTrueOrOwed
<1>1. Init => DraftInv
  BY InitIsDraftInv
<1>2. DraftInv /\ [Next]_vars => DraftInv'
  BY DraftInvSteps
<1>3. DraftInv => ToldIsTrueOrOwed
  BY DEF DraftInv
<1> QED BY <1>1, <1>2, <1>3, PTL DEF Spec
=============================================================================
