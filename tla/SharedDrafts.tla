---------------------------- MODULE SharedDrafts ----------------------------
(***************************************************************************)
(* Drafts shared between the tills of a warehouse: the cache shared_drafts *)
(* and the table draft_sync_queue, the operator who saves, lists, converts *)
(* and deletes drafts (SharedDraftService), and the drains that replay the *)
(* queue (process_sync_queue, run by every synchronisation).               *)
(*                                                                         *)
(* A draft saved while the platform is out of reach gets a local id, and a *)
(* cart id when its creation is replayed.  A call is sent, handled and     *)
(* read in three steps; every database write is one.                       *)
(***************************************************************************)
EXTENDS Integers, FiniteSets, Sequences

CONSTANTS
  Drafts,      \* drafts the operator saves, each once; also their local ids
  Drains,      \* concurrent process_sync_queue calls
  MaxCarts,    \* bound on the carts the platform creates, its ids in order
  MaxItems,    \* bound on queue items, numbered in order of created_at
  MaxRetries,  \* MAX_DRAFT_SYNC_RETRIES, 5 in the code
  Batch,       \* the limit a drain passes, 10 in the code
  MaxFaults    \* bound on failed calls, lost answers, crashes and drains that overlap

Desk   == "desk"                        \* the operator's screen, one call at a time
Actors == Drains \cup {Desk}
Carts  == 1..MaxCarts
Slots  == 1..MaxItems
Ids    == Drafts \cup Carts
NoId   == 0

ASSUME DraftAssumption ==
  /\ MaxCarts \in Nat /\ MaxItems \in Nat /\ MaxRetries \in Nat \ {0} /\ IsFiniteSet(Drains)
  /\ Batch \in Nat \ {0} /\ MaxFaults \in Nat
  /\ Drafts \cap (Nat \cup Drains) = {} /\ Desk \notin Drains

VARIABLES
  carts,     \* the platform's carts, by cart id
  cache,     \* shared_drafts, by id (local or cart id)
  queue,     \* draft_sync_queue, by slot
  work,      \* what the desk and each drain are doing
  saved,     \* history: drafts whose save returned to the operator
  converted, \* history: carts the operator was told are converted
  deleted,   \* history: carts the operator was told are deleted
  ended,     \* history: drafts whose sale or deletion is queued or done, here or elsewhere
  replays,   \* history: creations handled unheard, or sent by two drains
  stranded,  \* history: items in SYNCING when the till died
  faults

till    == <<cache, queue, work>>
history == <<saved, converted, deleted, ended, replays, stranded>>
vars    == <<carts, till, history, faults>>

-----------------------------------------------------------------------------
Operations == {"CREATE", "CONVERT", "DELETE"}
QueueStatus == {"PENDING", "SYNCING", "SYNCED"}
NoItem == [op |-> "none", id |-> NoId, retry |-> 0, st |-> "absent"]
Item(op, id) == [op |-> op, id |-> id, retry |-> 0, st |-> "PENDING"]
\* Drains that hold an item together each count a failure.
MaxTries == MaxRetries + Cardinality(Drains) - 1
ItemType == [op : Operations \cup {"none"}, id : Ids \cup {NoId}, retry : 0..MaxTries,
             st : QueueStatus \cup {"absent", "gone"}]

\* The items of a row are the till's own cart lines, or those of an answer
\* of the platform, which cart_from_row cannot read.
NoRow   == [st |-> "absent", lines |-> "till"]
RowType == [st : {"absent", "SYNCED", "PENDING", "PENDING_CONVERT"}, lines : {"till", "platform"}]
Exists(id)   == cache[id].st # "absent"
Readable(id) == cache[id].lines = "till"

DraftOf(id) == IF id \in Carts THEN carts[id].of ELSE id
CartsOf(d)  == {c \in Carts : carts[c].of = d}
Active      == {c \in Carts : carts[c].st = "ACTIVE"}
Unused      == {c \in Carts : carts[c].st = "none"}
Lowest(S)   == CHOOSE n \in S : \A m \in S : n <= m

Idle == [at |-> "idle", op |-> "none", id |-> NoId, slot |-> 0,
         reply |-> "none", got |-> {}, todo |-> {}]
WorkType == [at : {"idle", "next", "sent", "answered", "failed", "queueing", "after", "completing"},
             op : Operations \cup {"none", "LIST"}, id : Ids \cup {NoId}, slot : Slots \cup {0},
             reply : {"none", "ok", "gone", "refused"}, got : SUBSET Carts, todo : SUBSET Slots]
At(a, stage) == work[a].at = stage
Enters(a, stage) == work' = [work EXCEPT ![a].at = stage]
Sends(op, id) == work' = [work EXCEPT ![Desk] = [Idle EXCEPT !.at = "sent", !.op = op, !.id = id]]
Done == work' = [work EXCEPT ![Desk] = Idle]
Fault == faults < MaxFaults /\ faults' = faults + 1

\* UPDATE ... WHERE id = ? on an item that was cleaned up changes nothing.
Updated(s, new) == queue' = IF queue[s].st \in QueueStatus THEN [queue EXCEPT ![s] = new] ELSE queue
SlipForgetsRetries(s) == Updated(s, [queue[s] EXCEPT !.st = "PENDING"])
MarkFailed(s) == Updated(s, [queue[s] EXCEPT !.st = "PENDING", !.retry = @ + 1])
SlipIgnoresRetries == {s \in Slots : queue[s].st = "PENDING"}
PendingItems == {s \in Slots : queue[s].st = "PENDING" /\ queue[s].retry < MaxRetries}
\* get_pending_draft_syncs: the oldest Batch of them.
Snapshot == {s \in PendingItems : Cardinality({t \in PendingItems : t < s}) < Batch}

-----------------------------------------------------------------------------
(* Calls to the platform, known only through the client.                   *)

Answers(a, reply, got) ==
  work' = [work EXCEPT ![a].at = "answered", ![a].reply = reply, ![a].got = got]

\* Past the bound MaxCarts the platform refuses.
HandleCreate(a) ==
  /\ At(a, "sent") /\ work[a].op = "CREATE"
  /\ IF Unused # {}
     THEN /\ carts' = [carts EXCEPT ![Lowest(Unused)] = [st |-> "ACTIVE", of |-> work[a].id]]
          /\ Answers(a, "ok", {Lowest(Unused)})
     ELSE Answers(a, "refused", {}) /\ UNCHANGED carts
  /\ UNCHANGED <<cache, queue, history, faults>>

Ends(c, st) == carts' = [carts EXCEPT ![c].st = st] /\ ended' = ended \cup {carts[c].of}

\* A local id names no cart; neither does one that is no longer active.
HandleConvert(a) ==
  /\ At(a, "sent") /\ work[a].op = "CONVERT"
  /\ IF work[a].id \in Active
     THEN Answers(a, "ok", {}) /\ Ends(work[a].id, "CONVERTED")
     ELSE Answers(a, "refused", {}) /\ UNCHANGED <<carts, ended>>
  /\ UNCHANGED <<cache, queue, saved, converted, deleted, replays, stranded, faults>>

HandleDelete(a) ==
  /\ At(a, "sent") /\ work[a].op = "DELETE"
  /\ IF work[a].id \in Active
     THEN Answers(a, "ok", {}) /\ Ends(work[a].id, "DELETED")
     ELSE Answers(a, "gone", {}) /\ UNCHANGED <<carts, ended>>
  /\ UNCHANGED <<cache, queue, saved, converted, deleted, replays, stranded, faults>>

HandleList ==
  /\ At(Desk, "sent") /\ work[Desk].op = "LIST" /\ Answers(Desk, "ok", Active)
  /\ UNCHANGED <<carts, cache, queue, history, faults>>

CallFails(a) ==
  /\ Fault /\ At(a, "sent") /\ Enters(a, "failed")
  /\ UNCHANGED <<carts, cache, queue, history>>

Unheard(S) == replays' = [d \in Drafts |->
  replays[d] + Cardinality({a \in S : work[a].got # {} /\ At(a, "answered") /\ work[a].op = "CREATE" /\ work[a].id = d})]

AnswerLost(a) ==
  /\ Fault /\ At(a, "answered") /\ Enters(a, "failed") /\ Unheard({a})
  /\ UNCHANGED <<carts, cache, queue, saved, converted, deleted, ended, stranded>>

-----------------------------------------------------------------------------
(* The operator's operations.                                              *)

NotHeard(a, op) == /\ work[a].op = op
                   /\ At(a, "failed") \/ (At(a, "answered") /\ work[a].reply # "ok")

SaveSharedDraft(d) ==
  /\ At(Desk, "idle") /\ d \notin saved /\ ~Exists(d) /\ Sends("CREATE", d)
  /\ UNCHANGED <<carts, cache, queue, history, faults>>

CacheFromResponse ==
  /\ At(Desk, "answered") /\ work[Desk].op = "CREATE" /\ work[Desk].reply = "ok" /\ Done
  /\ cache' = [id \in Ids |-> IF id \in work[Desk].got THEN [st |-> "SYNCED", lines |-> "till"]
                                                       ELSE cache[id]]
  /\ saved' = saved \cup {work[Desk].id}
  /\ UNCHANGED <<carts, queue, converted, deleted, ended, replays, stranded, faults>>

SlipSkipsTheCopy ==
  /\ NotHeard(Desk, "CREATE") /\ Enters(Desk, "queueing")
  /\ UNCHANGED <<carts, cache, queue, history, faults>>

CreateLocalDraft ==
  /\ NotHeard(Desk, "CREATE") /\ Enters(Desk, "queueing")
  /\ cache' = [cache EXCEPT ![work[Desk].id] = [st |-> "PENDING", lines |-> "till"]]
  /\ UNCHANGED <<carts, queue, history, faults>>

FreeSlots == {s \in Slots : queue[s].st = "absent"}
Queued(op, id) == queue' = [queue EXCEPT ![Lowest(FreeSlots)] = Item(op, id)]

QueueCreate ==
  /\ At(Desk, "queueing") /\ FreeSlots # {} /\ Queued("CREATE", work[Desk].id)
  /\ Done /\ saved' = saved \cup {work[Desk].id}
  /\ UNCHANGED <<carts, cache, converted, deleted, ended, replays, stranded, faults>>

\* queue_convert and queue_delete write the item first.
QueueEnding(op, id) ==
  /\ FreeSlots # {} /\ Queued(op, id) /\ ended' = ended \cup {DraftOf(id)}
  /\ work' = [work EXCEPT ![Desk] = [Idle EXCEPT !.at = "after", !.op = op, !.id = id]]

\* recall_and_convert: the cart must be readable; one that is not known as
\* SYNCED is only queued, under the id the till knows.
RecallAndConvert(id) ==
  /\ At(Desk, "idle") /\ Exists(id) /\ Readable(id)
  /\ IF cache[id].st = "SYNCED" THEN Sends("CONVERT", id) /\ UNCHANGED <<queue, ended>>
                                ELSE QueueEnding("CONVERT", id)
  /\ UNCHANGED <<carts, cache, saved, converted, deleted, replays, stranded, faults>>

DeleteDraft(id) ==
  /\ At(Desk, "idle") /\ Exists(id)
  /\ IF cache[id].st = "SYNCED" THEN Sends("DELETE", id) /\ UNCHANGED <<queue, ended>>
                                ELSE QueueEnding("DELETE", id)
  /\ UNCHANGED <<carts, cache, saved, converted, deleted, replays, stranded, faults>>

\* What the operator is told at the end of a conversion or a deletion.
Tells(op, id) ==
  /\ converted' = IF op = "CONVERT" THEN converted \cup ({id} \cap Carts) ELSE converted
  /\ deleted' = IF op = "DELETE" THEN deleted \cup ({id} \cap Carts) ELSE deleted
  /\ UNCHANGED <<saved, ended, replays, stranded>>

SettledAtOnce ==
  LET id == work[Desk].id IN
  /\ At(Desk, "answered") /\ work[Desk].op \in {"CONVERT", "DELETE"} /\ work[Desk].reply = "ok"
  /\ cache' = [cache EXCEPT ![id] = NoRow] /\ Done /\ Tells(work[Desk].op, id)
  /\ UNCHANGED <<carts, queue, faults>>

NotSettled ==
  /\ \E op \in {"CONVERT", "DELETE"} : NotHeard(Desk, op) /\ QueueEnding(op, work[Desk].id)
  /\ UNCHANGED <<carts, cache, saved, converted, deleted, replays, stranded, faults>>

\* After the item: a sold row is marked, a deleted one removed.
AfterQueueing ==
  LET id == work[Desk].id IN
  /\ At(Desk, "after") /\ Done /\ Tells(work[Desk].op, id)
  /\ cache' = [cache EXCEPT ![id] =
       IF work[Desk].op = "DELETE" THEN NoRow
       ELSE IF Exists(id) THEN [@ EXCEPT !.st = "PENDING_CONVERT"] ELSE @]
  /\ UNCHANGED <<carts, queue, faults>>

ListSharedDrafts ==
  /\ At(Desk, "idle") /\ Sends("LIST", NoId)
  /\ UNCHANGED <<carts, cache, queue, history, faults>>

\* The first cart of the answer is cached as the platform wrote it, over
\* whatever the till knew, then read back, which fails and ends the listing.
ListEnds ==
  /\ work[Desk].op = "LIST" /\ Done
  /\ \/ (At(Desk, "failed") \/ (At(Desk, "answered") /\ work[Desk].got = {})) /\ UNCHANGED cache
     \/ /\ At(Desk, "answered")
        /\ \E c \in work[Desk].got :
             cache' = [cache EXCEPT ![c] = [st |-> "SYNCED", lines |-> "platform"]]
  /\ UNCHANGED <<carts, queue, history, faults>>

-----------------------------------------------------------------------------
(* process_sync_queue.                                                     *)

ProcessSyncQueue(k) ==
  /\ At(k, "idle") /\ Snapshot # {}
  /\ IF \E j \in Drains : ~At(j, "idle") THEN Fault ELSE UNCHANGED faults
  /\ work' = [work EXCEPT ![k] = [Idle EXCEPT !.at = "next", !.todo = Snapshot]]
  /\ UNCHANGED <<carts, cache, queue, history>>

\* The item is marked SYNCING whatever it has become since the snapshot, and
\* the call made is the one the snapshot holds.
TakeItem(k) ==
  LET s == Lowest(work[k].todo) IN
  /\ At(k, "next") /\ work[k].todo # {}
  /\ Updated(s, [queue[s] EXCEPT !.st = "SYNCING"])
  /\ work' = [work EXCEPT ![k] = [@ EXCEPT !.at = "sent", !.slot = s, !.todo = work[k].todo \ {s},
                                          !.op = queue[s].op, !.id = queue[s].id]]
  /\ replays' = IF queue[s].op = "CREATE" /\ queue[s].st # "PENDING"
                THEN [replays EXCEPT ![queue[s].id] = @ + 1] ELSE replays
  /\ UNCHANGED <<carts, cache, saved, converted, deleted, ended, stranded, faults>>

Heard(k, op) == At(k, "answered") /\ work[k].op = op /\ work[k].reply # "refused"

\* The cached draft is written again under its cart id.
ProcessCreateSync(k) ==
  LET d == work[k].id IN
  /\ Heard(k, "CREATE") /\ Enters(k, "completing")
  /\ cache' = [id \in Ids |-> IF Exists(d) /\ id \in work[k].got
                              THEN [cache[d] EXCEPT !.st = "SYNCED"] ELSE cache[id]]
  /\ UNCHANGED <<carts, queue, history, faults>>

ProcessConvertSync(k) ==
  /\ Heard(k, "CONVERT") /\ Enters(k, "completing")
  /\ cache' = [cache EXCEPT ![work[k].id] = NoRow]
  /\ UNCHANGED <<carts, queue, history, faults>>

\* "If 404, it's already deleted - that's fine".
ProcessDeleteSync(k) ==
  /\ Heard(k, "DELETE") /\ Enters(k, "completing")
  /\ UNCHANGED <<carts, cache, queue, history, faults>>

SlipCompletesFailures(k) ==
  /\ k \in Drains /\ (At(k, "failed") \/ (At(k, "answered") /\ work[k].reply = "refused"))
  /\ Enters(k, "completing")
  /\ UNCHANGED <<carts, cache, queue, history, faults>>

SyncFails(k) ==
  /\ k \in Drains /\ (At(k, "failed") \/ (At(k, "answered") /\ work[k].reply = "refused"))
  /\ MarkFailed(work[k].slot)
  /\ work' = [work EXCEPT ![k] = [Idle EXCEPT !.at = "next", !.todo = work[k].todo]]
  /\ UNCHANGED <<carts, cache, history, faults>>

SlipLeavesItPending(k) ==
  LET s == work[k].slot IN
  /\ At(k, "completing") /\ Updated(s, [queue[s] EXCEPT !.st = "PENDING"])
  /\ work' = [work EXCEPT ![k] = [Idle EXCEPT !.at = "next", !.todo = work[k].todo]]
  /\ UNCHANGED <<carts, cache, history, faults>>

MarkComplete(k) ==
  LET s == work[k].slot IN
  /\ At(k, "completing") /\ Updated(s, [queue[s] EXCEPT !.st = "SYNCED"])
  /\ work' = [work EXCEPT ![k] = [Idle EXCEPT !.at = "next", !.todo = work[k].todo]]
  /\ UNCHANGED <<carts, cache, history, faults>>

CleanupCompleted(k) ==
  /\ At(k, "next") /\ work[k].todo = {} /\ work' = [work EXCEPT ![k] = Idle]
  /\ queue' = [s \in Slots |-> IF queue[s].st = "SYNCED" THEN [queue[s] EXCEPT !.st = "gone"] ELSE queue[s]]
  /\ UNCHANGED <<carts, cache, history, faults>>

-----------------------------------------------------------------------------
\* Another till of the warehouse sells or drops a draft.
OtherTill(c) ==
  /\ c \in Active /\ Ends(c, "CONVERTED")
  /\ UNCHANGED <<till, saved, converted, deleted, replays, stranded, faults>>

\* The database survives.  A creation under way may still have been handled.
Crash ==
  /\ Fault /\ work' = [a \in Actors |-> Idle] /\ Unheard(Actors)
  /\ stranded' = stranded \cup {s \in Slots : queue[s].st = "SYNCING"}
  /\ UNCHANGED <<carts, cache, queue, saved, converted, deleted, ended>>

Init ==
  /\ carts = [c \in Carts |-> [st |-> "none", of |-> NoId]]
  /\ cache = [id \in Ids |-> NoRow] /\ queue = [s \in Slots |-> NoItem]
  /\ work = [a \in Actors |-> Idle]
  /\ saved = {} /\ converted = {} /\ deleted = {} /\ ended = {}
  /\ replays = [d \in Drafts |-> 0] /\ stranded = {} /\ faults = 0

Handles(a) == HandleCreate(a) \/ HandleConvert(a) \/ HandleDelete(a)
Starts == \/ ListSharedDrafts \/ (\E d \in Drafts : SaveSharedDraft(d))
          \/ \E id \in Ids : RecallAndConvert(id) \/ DeleteDraft(id)
Continues == \/ CacheFromResponse \/ CreateLocalDraft \/ SettledAtOnce \/ NotSettled
             \/ QueueCreate \/ AfterQueueing \/ ListEnds \/ HandleList
Replays(k) == \/ TakeItem(k) \/ ProcessCreateSync(k) \/ ProcessConvertSync(k)
              \/ ProcessDeleteSync(k) \/ SyncFails(k) \/ MarkComplete(k) \/ CleanupCompleted(k)

Next ==
  \/ Starts \/ Continues
  \/ \E a \in Actors : Handles(a) \/ CallFails(a) \/ AnswerLost(a)
  \/ \E k \in Drains : ProcessSyncQueue(k) \/ Replays(k)
  \/ \E c \in Carts : OtherTill(c)
  \/ Crash

Spec == Init /\ [][Next]_vars

\* Every synchronisation drains the queue, and a call ends: each drain steps
\* for as long as it can.
Fairness == \A k \in Drains : WF_vars(ProcessSyncQueue(k) \/ Replays(k) \/ Handles(k))

FairSpec == Spec /\ Fairness

-----------------------------------------------------------------------------
TypeOK ==
  /\ carts \in [Carts -> [st : {"none", "ACTIVE", "CONVERTED", "DELETED"}, of : Drafts \cup {NoId}]]
  /\ cache \in [Ids -> RowType] /\ queue \in [Slots -> ItemType] /\ work \in [Actors -> WorkType]
  /\ saved \subseteq Drafts /\ converted \subseteq Carts /\ deleted \subseteq Carts
  /\ ended \subseteq Drafts /\ replays \in [Drafts -> Nat] /\ stranded \subseteq Slots
  /\ faults \in 0..MaxFaults

\* A draft the operator was told is saved is somewhere until it is sold or
\* deleted: a row of the till, or an active cart any till can recall - in
\* every order of saving, replaying, listing and dying.
DraftKept ==
  \A d \in saved \ ended : \/ \E id \in Ids : Exists(id) /\ DraftOf(id) = d
                           \/ CartsOf(d) \cap Active # {}

\* The platform holds more than one cart of a draft only where the queue
\* replayed a creation: its answer never came, or two drains had the item.
DoubledOnlyByReplay == \A d \in Drafts : Cardinality(CartsOf(d)) <= 1 + replays[d]

\* What the operator was told of a shared cart is true, or still owed: the
\* cart is not active, or the call that ends it is in the queue (where it
\* may have run out of retries, or been stranded by a crash).
Owed(op, c) == \E s \in Slots : queue[s].op = op /\ queue[s].id = c /\ queue[s].st \in {"PENDING", "SYNCING"}
ToldIsTrueOrOwed ==
  /\ \A c \in Active \cap converted : Owed("CONVERT", c)
  /\ \A c \in Active \cap deleted : Owed("DELETE", c)

\* Every queued operation is settled or given up after MAX_DRAFT_SYNC_RETRIES
\* - unless the till died while it was SYNCING, a state nothing reads back.
Waits(s) == queue[s].st = "PENDING" /\ queue[s].retry < MaxRetries
OperationsSettle ==
  \A s \in Slots : Waits(s) ~> queue[s].st \in {"SYNCED", "gone"} \/ queue[s].retry >= MaxRetries
                               \/ s \in stranded

\* A saved draft is in one place: kept until it is sold or deleted, and not
\* doubled at the platform but by a replay.
DraftInOnePlace == TypeOK /\ DraftKept /\ DoubledOnlyByReplay
=============================================================================
