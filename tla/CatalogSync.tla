---------------------------- MODULE CatalogSync ----------------------------
(***************************************************************************)
(* The synchronisation service of the till: the polling cycle and the      *)
(* manual calls (run_sync_cycle, sync_all, force_full_sync), the catalogue *)
(* by delta or by full replacement, the operators and the feature screens  *)
(* by etag, the session renewed when the platform declines it, and the     *)
(* drain of the sales queue, reached only when all before it went well.    *)
(*                                                                         *)
(* Every write is a transaction of its own, and the foreign keys of the    *)
(* catalogue are on: a category needs its parent, a product its category.  *)
(* Data is abstracted to the moment of its last change at the platform.    *)
(***************************************************************************)
EXTENDS Integers, FiniteSets

CONSTANTS
  Callers,     \* tasks that may run the service
  Categories, Products,
  Home,        \* the category an item belongs to, or NoHome
  NoHome,
  MaxChanges,  \* bound on changes of catalogue and lists at the platform
  MaxFaults    \* bound on failed calls, lost links, lapsed sessions, crashes

Items == Categories \cup Products
Lists == {"operators", "features"}

ASSUME SyncAssumption ==
  /\ Categories \cap Products = {} /\ NoHome \notin Items
  /\ Home \in [Items -> Categories \cup {NoHome}]
  /\ MaxChanges \in Nat /\ MaxFaults \in Nat

VARIABLES
  clock,      \* the moment, counted in changes of the catalogue; its version
  catalog,    \* the platform's items: when each changed last, and if it lives
  published,  \* the platform's version of each list
  honoured,   \* the platform still honours this terminal
  online,     \* whether requests get through
  local,      \* the till's items: the moment of the content held, 0 for none
  held,       \* the till's lists: the version held, 0 for nothing active
  etag,       \* sync_state.etag of the catalogue and of each list, 0 for none
  since,      \* sync_state.last_sync of the catalogue, 0 for none
  token,      \* the session token the client presents
  calls,      \* what each caller is doing
  missed,     \* history: items that changed between an answer and its record
  torn,       \* history: a full replacement began and has not been recorded
  faults

platform == <<clock, catalog, published, honoured>>
store    == <<local, held, etag, since>>
history  == <<missed, torn>>
vars     == <<platform, online, store, token, calls, history, faults>>

-----------------------------------------------------------------------------
Catalog  == "catalog"
Stages   == {"idle", "probe", "login", "book", "delta", "full", "clear products",
             "clear categories", "save categories", "drop categories",
             "save products", "drop products", "record",
             "operators", "deactivate", "features", "save", "record list", "drain"}
NoAnswer == [of |-> "none", items |-> {}, to |-> [i \in Items |-> 0], version |-> 0]
Idle     == [at |-> "idle", mode |-> "manual", etag |-> 0, got |-> NoAnswer, todo |-> {}]

Current(i) == IF catalog[i].live THEN catalog[i].at ELSE 0
Changed(t) == {i \in Items : catalog[i].at > t}
AnswerOf(kind, items) ==
  [of |-> kind, items |-> items, to |-> [i \in Items |-> Current(i)], version |-> clock]

At(c, stage) == calls[c].at = stage
Enters(c, stage) == calls' = [calls EXCEPT ![c].at = stage]
\* get_etag is read where the sync of a list begins.
Turns(c, list) == calls' = [calls EXCEPT ![c].at = list, ![c].etag = etag[list],
                                         ![c].got = NoAnswer, ![c].todo = {}]
Ends(c) == calls' = [calls EXCEPT ![c] = Idle]

Authorised == token = "good" /\ honoured
Fault  == faults < MaxFaults /\ faults' = faults + 1
Calm   == UNCHANGED faults
\* A call that gets no usable answer: no link, a fault, or a token declined.
Unheard == \/ ~online /\ Calm
           \/ online /\ Fault
Declined == online /\ ~Authorised /\ Calm
Heard == online /\ Authorised /\ Calm

\* An error of sync_all: the polling cycle renews a lapsed session and tries
\* once more; any other error, or caller, or second error, ends the call.
SyncFails(c, declined) ==
  IF declined /\ honoured /\ token = "lapsed" /\ calls[c].mode = "cycle"
  THEN calls' = [calls EXCEPT ![c] = [Idle EXCEPT !.at = "login", !.mode = "retry"]]
  ELSE Ends(c)

-----------------------------------------------------------------------------
(* The cycle around a synchronisation.                                     *)

RunSyncCycle(c) ==
  /\ At(c, "idle")
  /\ calls' = [calls EXCEPT ![c] = [Idle EXCEPT !.at = "probe", !.mode = "cycle"]]
  /\ UNCHANGED <<platform, online, store, token, history, faults>>

SyncAll(c) ==
  /\ At(c, "idle") /\ Enters(c, "book")
  /\ UNCHANGED <<platform, online, store, token, history, faults>>

ForceFullSync(c) ==
  /\ At(c, "idle") /\ Enters(c, "book")
  /\ etag' = [r \in DOMAIN etag |-> 0] /\ since' = 0
  /\ UNCHANGED <<platform, online, local, held, token, history, faults>>

SlipIgnoresRejection(c) ==
  /\ At(c, "probe")
  /\ \/ Unheard /\ Ends(c)
     \/ online /\ Calm /\ IF token = "none" \/ Authorised THEN Enters(c, "book") ELSE Ends(c)
  /\ UNCHANGED <<platform, online, store, token, history>>

\* is_online: without a token only the health of the platform is asked.
Probe(c) ==
  /\ At(c, "probe")
  /\ \/ Unheard /\ Ends(c)
     \/ online /\ Calm /\ Enters(c, IF token = "none" \/ Authorised THEN "book" ELSE "login")
  /\ UNCHANGED <<platform, online, store, token, history>>

\* try_reauthenticate, with the stored credentials of a paired terminal.
TryReauthenticate(c) ==
  /\ At(c, "login")
  /\ \/ Unheard /\ Ends(c) /\ UNCHANGED token
     \/ online /\ Calm /\ honoured /\ token' = "good" /\ Enters(c, "book")
     \/ online /\ Calm /\ ~honoured /\ Ends(c) /\ UNCHANGED token
  /\ UNCHANGED <<platform, online, store, history>>

-----------------------------------------------------------------------------
(* sync_catalog.                                                           *)

OpensBook(c) ==
  /\ At(c, "book")
  /\ calls' = [calls EXCEPT ![c].etag = etag[Catalog],
                 ![c].at = IF etag[Catalog] # 0 /\ since # 0 THEN "delta" ELSE "full"]
  /\ UNCHANGED <<platform, online, store, token, history, faults>>

\* Whatever goes wrong with a delta, the full download is asked for.
FetchDelta(c) ==
  /\ At(c, "delta")
  /\ \/ (Unheard \/ Declined) /\ Enters(c, "full")
     \/ Heard /\ Changed(since) = {} /\ Turns(c, "operators")
     \/ /\ Heard /\ Changed(since) # {}
        /\ calls' = [calls EXCEPT ![c].at = "save categories",
                       ![c].got  = AnswerOf("delta", Changed(since)),
                       ![c].todo = {i \in Changed(since) \cap Categories : catalog[i].live}]
  /\ UNCHANGED <<platform, online, store, token, history>>

FetchFull(c) ==
  /\ At(c, "full")
  /\ \/ Unheard /\ SyncFails(c, FALSE)
     \/ Declined /\ SyncFails(c, TRUE)
     \/ Heard /\ calls[c].etag = clock /\ Turns(c, "operators")
     \/ /\ Heard /\ calls[c].etag # clock
        /\ calls' = [calls EXCEPT ![c].at = "clear products",
                       ![c].got  = AnswerOf("full", Items),
                       ![c].todo = {i \in Categories : catalog[i].live}]
  /\ UNCHANGED <<platform, online, store, token, history>>

\* A write the database refuses: a delta falls back to the full download,
\* a full download ends the synchronisation.
SlipGoesOn(c) == calls' = [calls EXCEPT ![c].at = IF @ = "save categories" THEN "save products" ELSE "record",
                                        ![c].todo = {}]
SlipKeepsTodo(c) == IF calls[c].got.of = "delta" THEN Enters(c, "full") ELSE SyncFails(c, FALSE)
WriteFails(c) ==
  IF calls[c].got.of = "delta"
  THEN calls' = [calls EXCEPT ![c].at = "full", ![c].got = NoAnswer, ![c].todo = {}]
  ELSE SyncFails(c, FALSE)

Rewritten(is, to) == [i \in Items |-> IF i \in is THEN to[i] ELSE local[i]]
HasHome(i) == Home[i] # NoHome => local[Home[i]] # 0
Dwellers(is) == {i \in Items : local[i] # 0 /\ Home[i] \in is}

ClearProducts(c) ==
  /\ At(c, "clear products") /\ Enters(c, "clear categories")
  /\ local' = [i \in Items |-> IF i \in Products THEN 0 ELSE local[i]]
  /\ torn' = TRUE
  /\ UNCHANGED <<platform, online, held, etag, since, token, missed, faults>>

ClearCategories(c) ==
  /\ At(c, "clear categories")
  /\ IF \E i \in Products : local[i] # 0 /\ Home[i] # NoHome
     THEN WriteFails(c) /\ UNCHANGED local
     ELSE /\ Enters(c, "save categories")
          /\ local' = [i \in Items |-> IF i \in Categories THEN 0 ELSE local[i]]
  /\ UNCHANGED <<platform, online, held, etag, since, token, history, faults>>

\* One by one: a full download in the order of a hash map, a delta in the
\* order of the answer.
SaveCategory(c, i) ==
  /\ At(c, "save categories") /\ i \in calls[c].todo /\ HasHome(i)
  /\ local' = [local EXCEPT ![i] = calls[c].got.to[i]]
  /\ calls' = [calls EXCEPT ![c].todo = @ \ {i}]
  /\ UNCHANGED <<platform, online, held, etag, since, token, history, faults>>

SaveOrphan(c) ==
  /\ At(c, "save categories") /\ \E i \in calls[c].todo : ~HasHome(i)
  /\ WriteFails(c)
  /\ UNCHANGED <<platform, online, store, token, history, faults>>

CategoriesSaved(c) ==
  /\ At(c, "save categories") /\ calls[c].todo = {}
  /\ Enters(c, IF calls[c].got.of = "delta" THEN "drop categories" ELSE "save products")
  /\ UNCHANGED <<platform, online, store, token, history, faults>>

Gone(c, kind) == {i \in calls[c].got.items \cap kind : calls[c].got.to[i] = 0}

\* Refused while an item still lives there, one to be deleted next included.
DropCategories(c) ==
  /\ At(c, "drop categories")
  /\ \/ /\ Dwellers(Gone(c, Categories)) \subseteq Gone(c, Categories)
        /\ local' = Rewritten(Gone(c, Categories), calls[c].got.to) /\ Enters(c, "save products")
     \/ Dwellers(Gone(c, Categories)) # {} /\ WriteFails(c) /\ UNCHANGED local
  /\ UNCHANGED <<platform, online, held, etag, since, token, history, faults>>

SaveProducts(c) ==
  LET saved == {i \in calls[c].got.items \cap Products : calls[c].got.to[i] # 0} IN
  /\ At(c, "save products")
  /\ IF \A i \in saved : HasHome(i)
     THEN /\ local' = Rewritten(saved, calls[c].got.to)
          /\ Enters(c, IF calls[c].got.of = "delta" THEN "drop products" ELSE "record")
     ELSE WriteFails(c) /\ UNCHANGED local
  /\ UNCHANGED <<platform, online, held, etag, since, token, history, faults>>

DropProducts(c) ==
  /\ At(c, "drop products") /\ Enters(c, "record")
  /\ local' = Rewritten(Gone(c, Products), calls[c].got.to)
  /\ UNCHANGED <<platform, online, held, etag, since, token, history, faults>>

\* update_sync_state: last_sync is the moment of this write.
RecordCatalog(c) ==
  /\ At(c, "record") /\ Turns(c, "operators")
  /\ etag' = [etag EXCEPT ![Catalog] = calls[c].got.version]
  /\ since' = clock
  /\ missed' = Changed(calls[c].got.version) \cup (missed \ calls[c].got.items)
  /\ torn' = (torn /\ calls[c].got.of = "delta")
  /\ UNCHANGED <<platform, online, local, held, token, faults>>

-----------------------------------------------------------------------------
(* sync_operators and sync_features, and the end of sync_all.              *)

After(c, list) == IF list = "operators" THEN Turns(c, "features")
                  ELSE calls' = [calls EXCEPT ![c] = [Idle EXCEPT !.at = "drain"]]

SlipTrustsAnyTag(c, list) ==
  /\ At(c, list)
  /\ \/ Unheard /\ (IF list = "operators" THEN SyncFails(c, FALSE) ELSE After(c, list))
     \/ Declined /\ (IF list = "operators" THEN SyncFails(c, TRUE) ELSE After(c, list))
     \/ Heard /\ calls[c].etag # 0 /\ After(c, list)
     \/ /\ Heard /\ calls[c].etag = 0
        /\ calls' = [calls EXCEPT ![c].at = IF list = "operators" THEN "deactivate" ELSE "save",
                       ![c].got = [NoAnswer EXCEPT !.of = list, !.version = published[list]]]
  /\ UNCHANGED <<platform, online, store, token, history>>

\* A failure about the operators ends sync_all, one about the features is
\* logged.
FetchList(c, list) ==
  /\ At(c, list)
  /\ \/ Unheard /\ (IF list = "operators" THEN SyncFails(c, FALSE) ELSE After(c, list))
     \/ Declined /\ (IF list = "operators" THEN SyncFails(c, TRUE) ELSE After(c, list))
     \/ Heard /\ calls[c].etag = published[list] /\ After(c, list)
     \/ /\ Heard /\ calls[c].etag # published[list]
        /\ calls' = [calls EXCEPT ![c].at = IF list = "operators" THEN "deactivate" ELSE "save",
                       ![c].got = [NoAnswer EXCEPT !.of = list, !.version = published[list]]]
  /\ UNCHANGED <<platform, online, store, token, history>>

SlipRecordsFirst(c) ==
  /\ At(c, "deactivate") /\ Enters(c, "save")
  /\ held' = [held EXCEPT !["operators"] = 0]
  /\ etag' = [etag EXCEPT !["operators"] = calls[c].got.version]
  /\ UNCHANGED <<platform, online, local, since, token, history, faults>>

DeactivateAllOperators(c) ==
  /\ At(c, "deactivate") /\ Enters(c, "save")
  /\ held' = [held EXCEPT !["operators"] = 0]
  /\ UNCHANGED <<platform, online, local, etag, since, token, history, faults>>

SaveList(c) ==
  /\ At(c, "save") /\ Enters(c, "record list")
  /\ held' = [held EXCEPT ![calls[c].got.of] = calls[c].got.version]
  /\ UNCHANGED <<platform, online, local, etag, since, token, history, faults>>

RecordList(c) ==
  /\ At(c, "record list") /\ After(c, calls[c].got.of)
  /\ etag' = [etag EXCEPT ![calls[c].got.of] = calls[c].got.version]
  /\ UNCHANGED <<platform, online, local, held, since, token, history, faults>>

\* The draft queue and the sales queue, whose failures say nothing of the rest.
Drain(c) ==
  /\ At(c, "drain") /\ Ends(c)
  /\ UNCHANGED <<platform, online, store, token, history, faults>>

-----------------------------------------------------------------------------
(* The platform, and the world around the till.                            *)

MayChange == (clock - 1) + (published["operators"] - 1) + (published["features"] - 1) < MaxChanges

Ticks(i, live) ==
  /\ MayChange /\ clock' = clock + 1
  /\ catalog' = [catalog EXCEPT ![i] = [at |-> clock', live |-> live]]
  /\ missed' = missed \ {i}
  /\ UNCHANGED <<published, honoured, online, store, token, calls, torn, faults>>

Publish(i) == (Home[i] # NoHome => catalog[Home[i]].live) /\ Ticks(i, TRUE)
Withdraw(i) ==
  /\ catalog[i].live /\ \A j \in Items : Home[j] = i => ~catalog[j].live
  /\ Ticks(i, FALSE)

Republish(list) ==
  /\ MayChange
  /\ published' = [published EXCEPT ![list] = @ + 1]
  /\ UNCHANGED <<clock, catalog, honoured, online, store, token, calls, history, faults>>

Disown ==
  /\ Fault /\ honoured /\ honoured' = FALSE
  /\ UNCHANGED <<clock, catalog, published, online, store, token, calls, history>>

SessionLapses ==
  /\ Fault /\ token = "good" /\ token' = "lapsed"
  /\ UNCHANGED <<platform, online, store, calls, history>>

GoesOffline ==
  /\ Fault /\ online /\ online' = FALSE
  /\ UNCHANGED <<platform, store, token, calls, history>>

ComesOnline ==
  /\ ~online /\ online' = TRUE
  /\ UNCHANGED <<platform, store, token, calls, history, faults>>

\* Only the database survives; the client starts without a token.
Crash ==
  /\ Fault
  /\ calls' = [c \in Callers |-> Idle] /\ token' = "none"
  /\ UNCHANGED <<platform, online, store, history>>

\* The terminal is logged in again by the pairing or the sign-in screen.
LogsIn ==
  /\ token = "none" /\ honoured /\ online /\ token' = "good"
  /\ UNCHANGED <<platform, online, store, calls, history, faults>>

-----------------------------------------------------------------------------
\* A till just paired, facing a platform with a full catalogue.
Init ==
  /\ clock = 1 /\ catalog = [i \in Items |-> [at |-> 1, live |-> TRUE]]
  /\ published = [l \in Lists |-> 1] /\ honoured = TRUE /\ online = TRUE
  /\ local = [i \in Items |-> 0] /\ held = [l \in Lists |-> 0]
  /\ etag = [r \in Lists \cup {Catalog} |-> 0] /\ since = 0
  /\ token = "good" /\ calls = [c \in Callers |-> Idle]
  /\ missed = {} /\ torn = FALSE /\ faults = 0

Begins(c) == RunSyncCycle(c) \/ SyncAll(c) \/ ForceFullSync(c)
Proceeds(c) ==
  \/ Probe(c) \/ TryReauthenticate(c) \/ OpensBook(c) \/ FetchDelta(c) \/ FetchFull(c)
  \/ ClearProducts(c) \/ ClearCategories(c) \/ (\E i \in Categories : SaveCategory(c, i))
  \/ SaveOrphan(c) \/ CategoriesSaved(c) \/ DropCategories(c) \/ SaveProducts(c)
  \/ DropProducts(c) \/ RecordCatalog(c) \/ (\E l \in Lists : FetchList(c, l))
  \/ DeactivateAllOperators(c) \/ SaveList(c) \/ RecordList(c) \/ Drain(c)

Next ==
  \/ \E c \in Callers : Begins(c) \/ Proceeds(c)
  \/ \E i \in Items : Publish(i) \/ Withdraw(i)
  \/ \E l \in Lists : Republish(l)
  \/ Disown \/ SessionLapses \/ GoesOffline \/ ComesOnline \/ Crash \/ LogsIn

Spec == Init /\ [][Next]_vars

\* The polling loop gets its turn between the manual calls, and links come
\* back; the order of a hash map is random, so that no category of a full
\* download comes too early for ever.
Fairness ==
  /\ \A c \in Callers : SF_vars(RunSyncCycle(c)) /\ WF_vars(Proceeds(c))
  /\ \A c \in Callers, i \in Categories :
       SF_vars(calls[c].got.of = "full" /\ SaveCategory(c, i))
  /\ WF_vars(ComesOnline)

FairSpec == Spec /\ Fairness

-----------------------------------------------------------------------------
AnswerType == [of : {"none", "delta", "full"} \cup Lists, items : SUBSET Items,
               to : [Items -> Nat], version : Nat]

TypeOK ==
  /\ clock \in Nat /\ catalog \in [Items -> [at : 1..clock, live : BOOLEAN]]
  /\ published \in [Lists -> Nat] /\ honoured \in BOOLEAN /\ online \in BOOLEAN
  /\ local \in [Items -> 0..clock] /\ held \in [Lists -> Nat]
  /\ etag \in [Lists \cup {Catalog} -> Nat] /\ since \in 0..clock
  /\ token \in {"none", "good", "lapsed"}
  /\ \A c \in Callers :
       /\ calls[c].at \in Stages /\ calls[c].mode \in {"cycle", "retry", "manual"}
       /\ calls[c].etag \in Nat /\ calls[c].got \in AnswerType
       /\ calls[c].todo \subseteq Categories
       /\ calls[c].todo # {} =>
            calls[c].at \in {"clear products", "clear categories", "save categories"}
  /\ missed \subseteq Items /\ torn \in BOOLEAN /\ faults \in Nat

Right(i) == local[i] = Current(i)
FullIsDue == etag[Catalog] = 0 \/ since = 0

\* An item of the till differs from the platform's only while its change is
\* due in the next delta or a full download is due - save for the two gaps
\* of the code: a change that fell between an answer and the moment recorded
\* for it, and a replacement that was begun and never recorded.
StaleOnlyByTheGaps ==
  \A i \in Items : Right(i) \/ i \in Changed(since) \/ FullIsDue \/ i \in missed \/ torn

\* When the tag the till would send is the platform's, and the platform would
\* answer "not modified", the till holds exactly that list: no crash between
\* the writes may leave the operators off behind a current tag.
ListsAsClaimed == \A l \in Lists : etag[l] = published[l] => held[l] = published[l]

\* The till falls out of the cycle for good only without a token, which only
\* a person's login mends, or when the platform disowns it.
Adrift == token = "none" \/ ~honoured

\* A till whose operators or screens are behind, or switched off by a crash
\* half way, catches up by itself.
ListsCatchUp ==
  \A l \in Lists : held[l] # published[l] ~> held[l] = published[l] \/ Adrift

\* The sales queue is drained again and again, although it comes last.
DrainIsReached == (\E c \in Callers : At(c, "drain")) \/ Adrift
SalesAreDrained == []<>DrainIsReached

-----------------------------------------------------------------------------
\* sync_service.rs, of the delta: "Delta sync failed or returned nothing, fall
\* through to full sync" - the conditional download, which would notice that
\* the till is behind.  Then every item would be put right in the end.
CatalogCatchesUp == \A i \in Items : ~Right(i) ~> Right(i) \/ Adrift
=============================================================================
