---------------------------- MODULE OfflineQueue ----------------------------
(***************************************************************************)
(* The offline sales queue of the till: the table offline_transactions,    *)
(* the sale that writes it (TransactionService::complete), the drain that  *)
(* empties it (OfflineService::process_queue, run by the polling loop and  *)
(* by a manual sync_all), and the manager who resolves the conflicts       *)
(* (ConflictService).                                                      *)
(*                                                                         *)
(* Every HTTP call is three steps - the request leaves, the platform       *)
(* handles it, the caller reads the answer - because the callers hold no   *)
(* lock across the await and the others run in between.  A caller that     *)
(* gives up (TimesOut) or dies (Crash) may leave its request on the wire,  *)
(* where the platform still handles it.                                    *)
(***************************************************************************)
EXTENDS Integers, FiniteSets

CONSTANTS
  NSales,      \* sales the till rings up, numbered in order of created_at
  Counters,    \* concurrent TransactionService::complete calls
  Drains,      \* concurrent OfflineService::process_queue calls
  Forcers,     \* concurrent ConflictService::force_sync calls
  MaxRetry,    \* MAX_RETRY_COUNT, 10 in the code
  Batch,       \* BATCH_SIZE, 50 in the code
  Verdicts,    \* the answers about a sale the platform may give
  SharedKey,   \* the platform knows a replayed sale by its live posting
  DbMayFail,   \* a status write may fail (the code only logs it)
  Voidable,    \* sales that may be voided, each at most once
  MaxFaults,   \* bound on lost connections, lapsed sessions and crashes
  MaxLate      \* bound on requests left on the wire by a caller that is gone

Sales   == 1..NSales
NoSale  == 0
Callers == Counters \cup Drains \cup Forcers

ASSUME QueueAssumption ==
  /\ NSales \in Nat /\ MaxRetry \in Nat \ {0} /\ Batch \in Nat \ {0}
  /\ MaxFaults \in Nat /\ MaxLate \in Nat
  /\ Counters \cap Drains = {} /\ Counters \cap Forcers = {}
  /\ Drains \cap Forcers = {}
  /\ Verdicts \subseteq {"ok", "conflict", "permanent", "busy", "unreadable"}
  /\ SharedKey \in BOOLEAN /\ DbMayFail \in BOOLEAN
  /\ Voidable \subseteq Sales

VARIABLES
  row,      \* offline_transactions, by sale
  sold,     \* sales whose completion was persisted
  calls,    \* what each caller is doing
  todo,     \* what is left of each drain's snapshot of the queue
  manager,  \* the ConflictService write loop in progress
  session,  \* the operator session the till presents
  online,   \* whether requests get through
  ledger,   \* the endpoints through which the platform recorded each sale
  late,     \* requests on the wire that nobody waits for
  faults,   \* how much of the fault budget is spent
  waived,   \* history: sales a manager chose to discard
  voided,   \* history: sales that were voided
  refused,  \* history: sales complete() saw the platform refuse
  unread,   \* history: sales complete() got an unreadable answer about
  dead      \* history: sales a drain wrote off as permanently failed

tillVars   == <<row, sold, calls, todo, manager, session>>
worldVars  == <<online, ledger, late, faults>>
history    == <<waived, voided, refused, unread, dead>>
vars       == <<tillVars, worldVars, history>>

-----------------------------------------------------------------------------
(* Rows of offline_transactions.                                           *)

Waiting  == {"PENDING", "FAILED"}            \* what get_pending_transactions reads
Stored   == Waiting \cup {"CONFLICT", "SYNCED", "DISCARDED"}
Sessions == {"none", "good", "lapsed"}
Answers  == {"none", "ok", "conflict", "permanent", "busy", "unreadable",
             "unreachable", "notpresented", "lapsed"}

\* "backoff" stands for last_retry_at: the pause after the last attempt is
\* still running.  It matters in Waiting rows only, so others carry FALSE.
RowType == [st : Stored \cup {"absent"}, retry : Nat, backoff : BOOLEAN]
Absent  == [st |-> "absent", retry |-> 0, backoff |-> FALSE]
Fresh   == [st |-> "PENDING", retry |-> 0, backoff |-> FALSE]

\* UPDATE ... WHERE offline_id = ? leaves a missing row missing.
Updated(r, new) == IF r.st = "absent" THEN r ELSE new

\* Operators named Slip... are mistakes these definitions could hold; each is
\* put in place of the definition after it to see a property fail.
SlipCountsDown(r) == Updated(r, [st |-> "FAILED", retry |-> r.retry - 1, backoff |-> TRUE])
SlipNeverCounts(r) == Updated(r, [r EXCEPT !.st = "FAILED", !.backoff = TRUE])

MarkSynced(r)    == Updated(r, [r EXCEPT !.st = "SYNCED", !.backoff = FALSE])
MarkConflict(r)  == Updated(r, [r EXCEPT !.st = "CONFLICT", !.backoff = FALSE])
MarkFailed(r)    == Updated(r, [st |-> "FAILED", retry |-> r.retry + 1, backoff |-> TRUE])
MarkVoided(r)    == Updated(r, [r EXCEPT !.st = "PENDING", !.backoff = TRUE])
SetMaxRetries(r) == Updated(r, [r EXCEPT !.retry = MaxRetry])
ResetForRetry(r) == Updated(r, Fresh)
Discarded(r)     == Updated(r, [r EXCEPT !.st = "DISCARDED", !.backoff = FALSE])

\* A write that fails is logged and the row stays as it was.
Written(s, new) == \/ row' = [row EXCEPT ![s] = new]
                   \/ DbMayFail /\ row' = row

PendingRows == {s \in Sales : row[s].st \in Waiting}
\* get_pending_transactions: the oldest Batch of them, whatever their retries.
Snapshot == {s \in PendingRows : Cardinality({t \in PendingRows : t < s}) < Batch}
SlipNoCeiling(r) == ~r.backoff
ShouldRetryNow(r) == r.retry < MaxRetry /\ ~r.backoff
NoManager == [op |-> "none", todo |-> {}]
Conflicts == {s \in Sales : row[s].st = "CONFLICT"}

-----------------------------------------------------------------------------
(* Calls to the platform.                                                  *)

Idle == [stage |-> "idle", at |-> NoSale, cred |-> "none", reply |-> "none"]
CallType == {Idle} \cup [stage : {"sending", "answered", "marking"},
                         at : Sales, cred : Sessions, reply : Answers]
Call(s) == [stage |-> "sending", at |-> s, cred |-> session, reply |-> "none"]

Kind(c) == IF c \in Counters THEN "live" ELSE IF c \in Drains THEN "replay" ELSE "force"
Endpoint(kind) == IF kind = "live" THEN "live" ELSE "offline"
RequestOf(c) == [kind |-> Kind(c), at |-> calls[c].at]
Requests == [kind : {"live", "replay", "force"}, at : Sales]

Send(c, s) == calls' = [calls EXCEPT ![c] = Call(s)]
HangUp(c)  == calls' = [calls EXCEPT ![c] = Idle]
Reading(c, s) == calls[c].stage = "answered" /\ calls[c].at = s

(* The platform, known only through the client.  It refuses what it has    *)
(* already recorded as a duplicate unless forced, and an answer it gives   *)
(* may reach the till unreadable whether it recorded the sale or not.      *)
Recognised(kind, s) ==
  Endpoint(kind) \in ledger[s] \/ (SharedKey /\ ledger[s] # {})

Outcomes(kind, s) ==    \* <<answer, recorded>>
  IF kind # "force" /\ Recognised(kind, s)
  THEN {<<a, FALSE>> : a \in {"conflict"} \cup (Verdicts \cap {"unreadable"})}
  ELSE {<<a, FALSE>> : a \in Verdicts \ {"ok"}} \cup
       {<<a, TRUE>> : a \in Verdicts \cap {"ok", "unreadable"}}

Posted(kind, s, recorded) ==
  ledger' = IF recorded THEN [ledger EXCEPT ![s] = @ \cup {Endpoint(kind)}] ELSE ledger

(* The request reaches the platform and its answer the caller.             *)
Answer(c) ==
  /\ online /\ calls[c].stage = "sending"
  /\ IF calls[c].cred = "good"
     THEN \E o \in Outcomes(Kind(c), calls[c].at) :
            /\ Posted(Kind(c), calls[c].at, o[2])
            /\ calls' = [calls EXCEPT ![c].stage = "answered", ![c].reply = o[1]]
     ELSE /\ calls' = [calls EXCEPT ![c].stage = "answered",
                       ![c].reply = IF calls[c].cred = "none" THEN "notpresented" ELSE "lapsed"]
          /\ UNCHANGED ledger
  /\ UNCHANGED <<row, sold, todo, manager, session, online, late, faults, history>>

\* Requests in flight that the platform would act on.
OnTheWire(cs) == {RequestOf(c) : c \in {d \in cs : calls[d].stage = "sending" /\ calls[d].cred = "good"}}
Abandon(cs) == \E left \in SUBSET OnTheWire(cs) :
  late' = late \cup left /\ Cardinality(late') <= MaxLate

TimesOut(c) ==
  /\ ~online /\ calls[c].stage = "sending"
  /\ Abandon({c})
  /\ calls' = [calls EXCEPT ![c].stage = "answered", ![c].reply = "unreachable"]
  /\ UNCHANGED <<row, sold, todo, manager, session, online, ledger, faults, history>>

\* The platform handles a request whose caller is gone.
LateArrival(q) ==
  /\ late' = late \ {q}
  /\ \E o \in Outcomes(q.kind, q.at) : Posted(q.kind, q.at, o[2])
  /\ UNCHANGED <<tillVars, online, faults, history>>

-----------------------------------------------------------------------------
(* TransactionService: completing and voiding a sale.                      *)

SlipSendsUnstored(c, s) ==
  /\ calls[c].stage = "idle" /\ s \notin sold /\ \A t \in Sales : t < s => t \in sold
  /\ sold' = sold \cup {s} /\ Send(c, s)
  /\ UNCHANGED <<row, todo, manager, session, worldVars, history>>

\* The row is stored before the sale is sent.  A sale completed a second
\* time while its first call is out replaces its own row.
Complete(c, s) ==
  /\ calls[c].stage = "idle"
  /\ \/ s \notin sold /\ \A t \in Sales : t < s => t \in sold
     \/ \E b \in Counters : calls[b].stage # "idle" /\ calls[b].at = s
  /\ row' = [row EXCEPT ![s] = Fresh]
  /\ sold' = sold \cup {s}
  /\ Send(c, s)
  /\ dead' = dead \ {s}
  /\ UNCHANGED <<todo, manager, session, worldVars, waived, voided, refused, unread>>

\* queue_transaction: the sale is stored and nothing is sent.
QueueTransaction(s) ==
  /\ s \notin sold /\ \A t \in Sales : t < s => t \in sold
  /\ row' = [row EXCEPT ![s] = Fresh]
  /\ sold' = sold \cup {s}
  /\ UNCHANGED <<calls, todo, manager, session, worldVars, history>>

\* PlatformSync::of
Refusals == {"conflict", "permanent", "busy", "notpresented", "lapsed"}

SlipSilenceIsConsent(c, s) ==
  /\ Reading(c, s) /\ HangUp(c)
  /\ Written(s, IF calls[c].reply \in Refusals THEN MarkFailed(row[s]) ELSE MarkSynced(row[s]))
  /\ UNCHANGED <<sold, todo, manager, session, worldVars, history>>

CompleteReads(c, s) ==
  /\ Reading(c, s) /\ HangUp(c)
  /\ CASE calls[c].reply = "ok" -> Written(s, MarkSynced(row[s]))
       [] calls[c].reply \in Refusals -> Written(s, MarkFailed(row[s]))
       [] OTHER -> row' = row
  /\ refused' = IF calls[c].reply \in Refusals THEN refused \cup {s} ELSE refused
  /\ unread' = IF calls[c].reply = "unreadable" THEN unread \cup {s} ELSE unread
  /\ UNCHANGED <<sold, todo, manager, session, worldVars, waived, voided, dead>>

\* The void call it spawns reaches a route the till may not use, and its
\* result is dropped: only the row changes.
VoidTransaction(s) ==
  /\ s \in Voidable \ voided /\ row[s].st # "absent"
  /\ row' = [row EXCEPT ![s] = MarkVoided(@)]
  /\ voided' = voided \cup {s}
  /\ UNCHANGED <<sold, calls, todo, manager, session, worldVars, waived, refused, unread, dead>>

-----------------------------------------------------------------------------
(* OfflineService: one pass of the drain.                                  *)

DrainBegin(d) ==
  /\ calls[d].stage = "idle" /\ todo[d] = {} /\ online
  /\ todo' = [todo EXCEPT ![d] = {s \in Snapshot : ShouldRetryNow(row[s])}]
  /\ UNCHANGED <<row, sold, calls, manager, session, worldVars, history>>

\* The pass decides on the snapshot, never on the row as it is now.
DrainSend(d, s) ==
  /\ calls[d].stage = "idle" /\ s \in todo[d] /\ \A t \in todo[d] : s <= t
  /\ todo' = [todo EXCEPT ![d] = @ \ {s}]
  /\ Send(d, s)
  /\ UNCHANGED <<row, sold, manager, session, worldVars, history>>

SlipPassGoesOn(d, s) ==
  /\ Reading(d, s) /\ calls[d].reply \in {"notpresented", "lapsed"}
  /\ session' = IF calls[d].reply = "lapsed" THEN "none" ELSE session
  /\ HangUp(d)
  /\ UNCHANGED <<row, sold, todo, manager, worldVars, history>>

\* A refusal of the operator's session ends the pass and costs no row.
DrainUnauthorized(d, s) ==
  /\ Reading(d, s) /\ calls[d].reply \in {"notpresented", "lapsed"}
  /\ session' = IF calls[d].reply = "lapsed" THEN "none" ELSE session
  /\ todo' = [todo EXCEPT ![d] = {}]
  /\ HangUp(d)
  /\ UNCHANGED <<row, sold, manager, worldVars, history>>

Transient == {"busy", "unreadable", "unreachable"}

DrainReads(d, s) ==
  /\ Reading(d, s) /\ HangUp(d)
  /\ \/ calls[d].reply = "ok" /\ Written(s, MarkSynced(row[s]))
     \/ calls[d].reply = "conflict" /\ Written(s, MarkConflict(row[s]))
     \/ calls[d].reply \in Transient /\ Written(s, MarkFailed(row[s]))
  /\ UNCHANGED <<sold, todo, manager, session, worldVars, history>>

\* A permanent failure is two writes: the retry ceiling, then FAILED.
DrainSetsMax(d, s) ==
  /\ Reading(d, s) /\ calls[d].reply = "permanent"
  /\ Written(s, SetMaxRetries(row[s]))
  /\ calls' = [calls EXCEPT ![d].stage = "marking"]
  /\ UNCHANGED <<sold, todo, manager, session, worldVars, history>>

DrainMarksFailed(d, s) ==
  /\ calls[d].stage = "marking" /\ calls[d].at = s
  /\ Written(s, MarkFailed(row[s])) /\ HangUp(d)
  /\ dead' = IF row'[s] # row[s] /\ row'[s].retry > MaxRetry THEN dead \cup {s} ELSE dead
  /\ UNCHANGED <<sold, todo, manager, session, worldVars, waived, voided, refused, unread>>

SlipCleansEverything(last) ==
  /\ row' = [s \in Sales |-> IF s <= last THEN Absent ELSE row[s]]
  /\ UNCHANGED <<sold, calls, todo, manager, session, worldVars, history>>

\* cleanup_synced: synced rows created before some day.
CleanupSynced(last) ==
  /\ row' = [s \in Sales |-> IF s <= last /\ row[s].st = "SYNCED" THEN Absent ELSE row[s]]
  /\ UNCHANGED <<sold, calls, todo, manager, session, worldVars, history>>

-----------------------------------------------------------------------------
(* ConflictService.                                                        *)

\* retry and discard look at one conflict, retry_all and discard_all at all
\* of them; the writes follow, newest first, without looking again.
ManagerLooks(op, targets) ==
  /\ manager.op = "none" /\ targets # {} /\ targets \subseteq Conflicts
  /\ Cardinality(targets) = 1 \/ targets = Conflicts
  /\ manager' = [op |-> op, todo |-> targets]
  /\ UNCHANGED <<row, sold, calls, todo, session, worldVars, history>>

ManagerWrites(s) ==
  /\ s \in manager.todo /\ \A t \in manager.todo : t <= s
  /\ \/ manager.op = "retry" /\ Written(s, ResetForRetry(row[s]))
        /\ dead' = dead \ {s} /\ waived' = waived
     \/ manager.op = "discard" /\ Written(s, Discarded(row[s]))
        /\ waived' = waived \cup {s} /\ dead' = dead
  /\ manager' = IF manager.todo = {s} THEN NoManager
                ELSE [manager EXCEPT !.todo = @ \ {s}]
  /\ UNCHANGED <<sold, calls, todo, session, worldVars, voided, refused, unread>>

ForceBegin(f, s) ==
  /\ calls[f].stage = "idle" /\ s \in Conflicts
  /\ Send(f, s)
  /\ UNCHANGED <<row, sold, todo, manager, session, worldVars, history>>

ForceReads(f, s) ==
  /\ Reading(f, s) /\ HangUp(f)
  /\ IF calls[f].reply = "ok" THEN Written(s, MarkSynced(row[s])) ELSE row' = row
  /\ session' = IF calls[f].reply = "lapsed" THEN "none" ELSE session
  /\ UNCHANGED <<sold, todo, manager, worldVars, history>>

-----------------------------------------------------------------------------
(* The world around the queue.                                             *)

SignIn ==
  /\ session # "good" /\ session' = "good"
  /\ UNCHANGED <<row, sold, calls, todo, manager, worldVars, history>>

Fault == faults < MaxFaults /\ faults' = faults + 1

\* The operator signs out, or the platform stops honouring the session.
SessionEnds ==
  /\ Fault /\ session = "good" /\ session' \in {"none", "lapsed"}
  /\ UNCHANGED <<row, sold, calls, todo, manager, online, ledger, late, history>>

GoesOffline ==
  /\ Fault /\ online /\ online' = FALSE
  /\ UNCHANGED <<tillVars, ledger, late, history>>

ComesOnline ==
  /\ ~online /\ online' = TRUE
  /\ UNCHANGED <<tillVars, ledger, late, faults, history>>

BackoffElapses(s) ==
  /\ row[s].backoff
  /\ row' = [row EXCEPT ![s].backoff = FALSE]
  /\ UNCHANGED <<sold, calls, todo, manager, session, worldVars, history>>

\* Power is lost: only the database is left, and the stored operator
\* session is presented again at the restart.
Crash ==
  /\ Fault
  /\ Abandon(Callers)
  /\ calls' = [c \in Callers |-> Idle]
  /\ todo' = [d \in Drains |-> {}]
  /\ manager' = NoManager
  /\ UNCHANGED <<row, sold, session, online, ledger, history>>

-----------------------------------------------------------------------------
Init ==
  /\ row = [s \in Sales |-> Absent] /\ sold = {}
  /\ calls = [c \in Callers |-> Idle] /\ todo = [d \in Drains |-> {}]
  /\ manager = NoManager /\ session = "good" /\ online = TRUE
  /\ ledger = [s \in Sales |-> {}] /\ late = {} /\ faults = 0
  /\ waived = {} /\ voided = {} /\ refused = {} /\ unread = {} /\ dead = {}

CounterStep(c, s) == Complete(c, s) \/ CompleteReads(c, s)
DrainStep(d, s) ==
  \/ DrainSend(d, s) \/ DrainUnauthorized(d, s) \/ DrainReads(d, s)
  \/ DrainSetsMax(d, s) \/ DrainMarksFailed(d, s)
ForceStep(f, s) == ForceBegin(f, s) \/ ForceReads(f, s)

Next ==
  \/ \E c \in Callers : Answer(c) \/ TimesOut(c)
  \/ \E q \in late : LateArrival(q)
  \/ \E s \in Sales : \/ \E c \in Counters : CounterStep(c, s)
                      \/ \E d \in Drains : DrainStep(d, s)
                      \/ \E f \in Forcers : ForceStep(f, s)
                      \/ QueueTransaction(s) \/ VoidTransaction(s)
                      \/ CleanupSynced(s) \/ ManagerWrites(s) \/ BackoffElapses(s)
  \/ \E d \in Drains : DrainBegin(d)
  \/ \E op \in {"retry", "discard"}, targets \in SUBSET Sales : ManagerLooks(op, targets)
  \/ SignIn \/ SessionEnds \/ GoesOffline \/ ComesOnline \/ Crash

Spec == Init /\ [][Next]_vars

\* The polling loop runs the drain again and again, a client call ends by
\* itself, connections come back, and an operator signs in again.
Fairness ==
  /\ \A c \in Callers : WF_vars(Answer(c)) /\ WF_vars(TimesOut(c))
  /\ \A d \in Drains : WF_vars(DrainBegin(d)) /\ WF_vars(\E s \in Sales : DrainStep(d, s))
  /\ \A c \in Counters : WF_vars(\E s \in Sales : CompleteReads(c, s))
  /\ \A f \in Forcers : WF_vars(\E s \in Sales : ForceReads(f, s))
  /\ \A s \in Sales : WF_vars(BackoffElapses(s))
  /\ WF_vars(SignIn) /\ WF_vars(ComesOnline)

FairSpec == Spec /\ Fairness

-----------------------------------------------------------------------------
(* What the queue promises.                                                *)

TypeOK ==
  /\ row \in [Sales -> RowType] /\ sold \subseteq Sales
  /\ calls \in [Callers -> CallType] /\ todo \in [Drains -> SUBSET Sales]
  /\ manager \in [op : {"none", "retry", "discard"}, todo : SUBSET Sales]
  /\ session \in Sessions /\ online \in BOOLEAN
  /\ ledger \in [Sales -> SUBSET {"live", "offline"}]
  /\ late \subseteq Requests /\ faults \in Nat
  /\ waived \subseteq Sales /\ voided \subseteq Sales
  /\ refused \subseteq Sales /\ unread \subseteq Sales /\ dead \subseteq Sales

\* A sale whose completion was persisted is waiting in the queue, or lies in
\* conflict, or the platform has it, or a manager chose to give it up:
\* through crashes, lost answers, failed writes and concurrent callers.
NoSaleLost ==
  \A s \in sold : row[s].st \in Waiting \cup {"CONFLICT"} \/ ledger[s] # {} \/ s \in waived

\* A row says SYNCED only of a sale the platform recorded.
SyncedMeansRecorded ==
  \A s \in Sales : row[s].st = "SYNCED" => ledger[s] # {}

\* Reading that the operator's session was declined costs no sale anything
\* and ends the pass: no row changes, nothing of the snapshot is still sent.
SessionRefusalCostsNothing ==
  [][\A d \in Drains :
       calls[d].stage = "answered" /\ calls[d].reply \in {"notpresented", "lapsed"}
         /\ calls'[d] # calls[d]
       => row' = row /\ (todo'[d] = {})]_vars

DrainStartsOn(d, s) ==
  calls[d].stage = "idle" /\ calls'[d].stage = "sending" /\ calls'[d].at = s

\* A sale the drain wrote off as permanently failed is not sent by the drain
\* again unless a manager resets it.
WrittenOffIsNotSent ==
  [][\A d \in Drains, s \in Sales : DrainStartsOn(d, s) => s \notin dead]_vars

Settled(s) == row[s].st \notin Waiting \/ row[s].retry >= MaxRetry

\* Every sale that waits is settled: synced, in conflict, discarded, or out
\* of retries - when the batch can hold every waiting sale.
EverySaleSettles == \A s \in Sales : ~Settled(s) ~> Settled(s)

\* The queue keeps custody of every sale as SaleCustody promises it.
Kept     == {s \in Sales : row[s].st \in Waiting \cup {"CONFLICT"}}
Recorded == {s \in Sales : ledger[s] # {}}
Custody  == INSTANCE SaleCustody WITH kept <- Kept, taken <- sold, recorded <- Recorded
KeepsCustody == Custody!Spec

-----------------------------------------------------------------------------
(* What comments of the code say of the queue, and the code does not do.   *)

\* platform_sync.rs, of PlatformSync::deserves_a_replay: of the four outcomes
\* of the live call only "nobody answered" lets the queue try the sale again.
\* (doc: refused "never replay", unreadable "not safe to replay".)
ReplaysOnlyTheUnanswered ==
  [][\A d \in Drains, s \in Sales : DrainStartsOn(d, s) => s \notin refused \cup unread]_vars

=============================================================================
