------------------------- MODULE OfflineQueueProofs -------------------------
(***************************************************************************)
(* For any number of sales, callers, retries and faults: no sale is lost,  *)
(* and the queue implements SaleCustody.                                   *)
(***************************************************************************)
EXTENDS OfflineQueue, TLAPS

\* The platform, the wire, the callers and the loops know stored sales only.
StoredBeforeSent ==
  /\ \A s \in Sales : ledger[s] # {} => s \in sold
  /\ \A q \in late : q.at \in sold
  /\ \A c \in Callers : calls[c].stage # "idle" => calls[c].at \in sold
  /\ \A d \in Drains : todo[d] \subseteq sold
  /\ manager.todo \subseteq sold

\* An answer "ok" that a caller holds is true.
OkMeansRecorded ==
  \A c \in Callers : calls[c].stage = "answered" /\ calls[c].reply = "ok"
                       => ledger[calls[c].at] # {}

\* Only a stored sale has a row, and its row leaves the till's keeping only
\* for the platform or by waiver.
RowAnswers(s) ==
  /\ row[s].st # "absent" => s \in sold
  /\ row[s].st = "SYNCED" => ledger[s] # {}
  /\ s \in sold /\ row[s].st = "absent" => ledger[s] # {}
  /\ s \in sold /\ row[s].st = "DISCARDED" => s \in waived

RowsAnswer == \A s \in Sales : RowAnswers(s)

IInv == TypeOK /\ StoredBeforeSent /\ OkMeansRecorded /\ RowsAnswer

-----------------------------------------------------------------------------
(* The writes to a row.                                                    *)

LEMMA RowWrites ==
  ASSUME NEW r \in RowType
  PROVE  /\ MarkSynced(r) \in RowType /\ MarkConflict(r) \in RowType
         /\ MarkFailed(r) \in RowType /\ MarkVoided(r) \in RowType
         /\ SetMaxRetries(r) \in RowType /\ ResetForRetry(r) \in RowType
         /\ Discarded(r) \in RowType
         /\ Fresh \in RowType /\ Absent \in RowType
<1> USE DEF RowType, Stored, Waiting, Updated
<1>1. MarkSynced(r) \in RowType /\ MarkConflict(r) \in RowType /\ Discarded(r) \in RowType
  BY DEF MarkSynced, MarkConflict, Discarded
<1>2. MarkFailed(r) \in RowType
  BY DEF MarkFailed
<1>3. MarkVoided(r) \in RowType
  BY DEF MarkVoided
<1>4. SetMaxRetries(r) \in RowType
  BY QueueAssumption DEF SetMaxRetries
<1>5. ResetForRetry(r) \in RowType /\ Fresh \in RowType /\ Absent \in RowType
  BY DEF ResetForRetry, Fresh, Absent
<1> QED
  BY <1>1, <1>2, <1>3, <1>4, <1>5

\* An absent row stays absent, and the others go where the name says.
LEMMA RowStates ==
  ASSUME NEW r \in RowType
  PROVE  /\ r.st = "absent" => /\ MarkSynced(r) = r /\ MarkConflict(r) = r
                               /\ MarkFailed(r) = r /\ MarkVoided(r) = r
                               /\ SetMaxRetries(r) = r /\ ResetForRetry(r) = r
                               /\ Discarded(r) = r
         /\ r.st # "absent" => /\ MarkSynced(r).st = "SYNCED"
                               /\ MarkConflict(r).st = "CONFLICT"
                               /\ MarkFailed(r).st = "FAILED"
                               /\ MarkVoided(r).st = "PENDING"
                               /\ SetMaxRetries(r).st = r.st
                               /\ ResetForRetry(r).st = "PENDING"
                               /\ Discarded(r).st = "DISCARDED"
         /\ Fresh.st = "PENDING" /\ Absent.st = "absent"
BY DEF RowType, Stored, Waiting, Updated, MarkSynced, MarkConflict,
   MarkFailed, MarkVoided, SetMaxRetries, ResetForRetry, Discarded, Fresh, Absent

-----------------------------------------------------------------------------
(* The types.                                                              *)

LEMMA CallTypes ==
  ASSUME TypeOK
  PROVE  Idle \in CallType /\ \A s \in Sales : Call(s) \in CallType
<1>1. session \in Sessions /\ "none" \in Answers
  BY DEF TypeOK, Answers
<1>2. Idle \in CallType
  BY DEF CallType
<1>3. ASSUME NEW s \in Sales PROVE Call(s) \in CallType
  BY <1>1 DEF Call, CallType
<1> QED
  BY <1>2, <1>3

\* The platform says "ok" only of a sale it records.
LEMMA OutcomeTypes ==
  ASSUME NEW kind, NEW s, NEW o \in Outcomes(kind, s)
  PROVE  /\ o[1] \in {"ok", "conflict", "permanent", "busy", "unreadable"}
         /\ o[2] \in BOOLEAN
         /\ o[1] = "ok" => o[2] = TRUE
<1>1. PICK a \in Verdicts \cup {"conflict"}, b \in BOOLEAN :
        o = <<a, b>> /\ (a = "ok" => b = TRUE)
  <2>1. \/ \E a \in {"conflict"} \cup (Verdicts \cap {"unreadable"}) : o = <<a, FALSE>>
        \/ \E a \in Verdicts \ {"ok"} : o = <<a, FALSE>>
        \/ \E a \in Verdicts \cap {"ok", "unreadable"} : o = <<a, TRUE>>
    BY Zenon DEF Outcomes
  <2> QED
    BY <2>1
<1>2. o[1] = a /\ o[2] = b
  BY <1>1
<1> QED
  BY <1>1, <1>2, QueueAssumption

LEMMA TypeInit == Init => TypeOK
<1> SUFFICES ASSUME Init PROVE TypeOK
  OBVIOUS
<1>1. Absent \in RowType
  BY DEF Absent, RowType
<1>2. Idle \in CallType
  BY DEF CallType
<1> QED
  BY <1>1, <1>2 DEF Init, TypeOK, Sessions, NoManager

\* A step of each kind keeps a call of that kind well typed.
LEMMA CallSteps ==
  ASSUME TypeOK, NEW c \in Callers
  PROVE  /\ \A s \in Sales : Send(c, s) => calls' \in [Callers -> CallType]
         /\ HangUp(c) => calls' \in [Callers -> CallType]
         /\ \A a \in Answers :
              /\ calls[c].stage # "idle"
              /\ calls' = [calls EXCEPT ![c].stage = "answered", ![c].reply = a]
              => calls' \in [Callers -> CallType]
         /\ calls[c].stage # "idle" /\ calls' = [calls EXCEPT ![c].stage = "marking"]
              => calls' \in [Callers -> CallType]
<1>1. calls \in [Callers -> CallType]
  BY DEF TypeOK
<1>2. \A s \in Sales : Send(c, s) => calls' \in [Callers -> CallType]
  BY <1>1, CallTypes DEF Send
<1>3. HangUp(c) => calls' \in [Callers -> CallType]
  BY <1>1, CallTypes DEF HangUp
<1>6. calls[c].stage # "idle"
        => calls[c] \in [stage : {"sending", "answered", "marking"},
                         at : Sales, cred : Sessions, reply : Answers]
  BY <1>1 DEF CallType, Idle
<1>4. ASSUME NEW a \in Answers, calls[c].stage # "idle",
             calls' = [calls EXCEPT ![c].stage = "answered", ![c].reply = a]
      PROVE  calls' \in [Callers -> CallType]
  <2>1. [calls[c] EXCEPT !.stage = "answered", !.reply = a] \in CallType
    BY <1>4, <1>6 DEF CallType
  <2> QED
    BY <1>1, <1>4, <2>1
<1>5. ASSUME calls[c].stage # "idle", calls' = [calls EXCEPT ![c].stage = "marking"]
      PROVE  calls' \in [Callers -> CallType]
  <2>1. [calls[c] EXCEPT !.stage = "marking"] \in CallType
    BY <1>5, <1>6 DEF CallType
  <2> QED
    BY <1>1, <1>5, <2>1
<1> QED
  BY <1>2, <1>3, <1>4, <1>5, Zenon

LEMMA WrittenType ==
  ASSUME TypeOK, NEW s \in Sales, NEW r \in RowType, Written(s, r)
  PROVE  row' \in [Sales -> RowType]
BY DEF TypeOK, Written

LEMMA WireTypes ==
  ASSUME TypeOK, NEW cs \in SUBSET Callers, Abandon(cs)
  PROVE  late' \subseteq Requests
<1>1. OnTheWire(cs) \subseteq Requests
  BY DEF TypeOK, OnTheWire, RequestOf, Requests, Kind, CallType, Idle
<1> QED
  BY <1>1 DEF Abandon, TypeOK

LEMMA TypeStep == TypeOK /\ [Next]_vars => TypeOK'
<1> SUFFICES ASSUME TypeOK, [Next]_vars PROVE TypeOK'
  OBVIOUS
<1> USE DEF history, worldVars, tillVars
<1>1. ASSUME NEW c \in Callers, Answer(c) PROVE TypeOK'
  <2>1. CASE calls[c].cred = "good"
    <3>1. PICK o \in Outcomes(Kind(c), calls[c].at) :
            /\ Posted(Kind(c), calls[c].at, o[2])
            /\ calls' = [calls EXCEPT ![c].stage = "answered", ![c].reply = o[1]]
      BY <1>1, <2>1 DEF Answer
    <3>2. o[1] \in Answers
      BY OutcomeTypes DEF Answers
    <3>3. ledger' \in [Sales -> SUBSET {"live", "offline"}]
      BY <3>1 DEF TypeOK, Posted, Endpoint
    <3>4. calls' \in [Callers -> CallType]
      BY <1>1, <3>1, <3>2, CallSteps DEF Answer
    <3> QED
      BY <1>1, <3>3, <3>4 DEF Answer, TypeOK
  <2>2. CASE calls[c].cred # "good"
    <3>1. calls' \in [Callers -> CallType]
      BY <1>1, <2>2, CallSteps DEF Answer, Answers
    <3> QED
      BY <1>1, <2>2, <3>1 DEF Answer, TypeOK
  <2> QED
    BY <2>1, <2>2
<1>2. ASSUME NEW c \in Callers, TimesOut(c) PROVE TypeOK'
  <2>1. calls' \in [Callers -> CallType]
    BY <1>2, CallSteps DEF TimesOut, Answers
  <2>2. late' \subseteq Requests
    BY <1>2, WireTypes DEF TimesOut
  <2> QED
    BY <1>2, <2>1, <2>2 DEF TimesOut, TypeOK
<1>3. ASSUME NEW q \in late, LateArrival(q) PROVE TypeOK'
  BY <1>3 DEF LateArrival, Posted, Endpoint, TypeOK, Requests
<1>4. ASSUME NEW s \in Sales, NEW c \in Counters, Complete(c, s) PROVE TypeOK'
  <2>1. calls' \in [Callers -> CallType]
    BY <1>4, CallSteps DEF Complete, Callers
  <2> QED
    BY <1>4, <2>1, RowWrites DEF Complete, TypeOK, Absent, RowType, Fresh, Stored, Waiting
<1>5. ASSUME NEW s \in Sales, NEW c \in Counters, CompleteReads(c, s) PROVE TypeOK'
  <2>1. calls' \in [Callers -> CallType]
    BY <1>5, CallSteps DEF CompleteReads, Callers
  <2>2. row' \in [Sales -> RowType]
    BY <1>5, WrittenType, RowWrites DEF CompleteReads, TypeOK
  <2> QED
    BY <1>5, <2>1, <2>2 DEF CompleteReads, TypeOK
<1>6. ASSUME NEW s \in Sales, NEW d \in Drains, DrainStep(d, s) PROVE TypeOK'
  <2> USE DEF TypeOK
  <2>0. d \in Callers
    BY DEF Callers
  <2>1. CASE DrainSend(d, s)
    BY <2>0, <2>1, CallSteps DEF DrainSend
  <2>2. CASE DrainUnauthorized(d, s)
    BY <2>0, <2>2, CallSteps DEF DrainUnauthorized, Sessions
  <2>3. CASE DrainReads(d, s)
    BY <2>0, <2>3, CallSteps, WrittenType, RowWrites DEF DrainReads
  <2>4. CASE DrainSetsMax(d, s)
    BY <2>0, <2>4, CallSteps, WrittenType, RowWrites DEF DrainSetsMax, Reading
  <2>5. CASE DrainMarksFailed(d, s)
    BY <2>0, <2>5, CallSteps, WrittenType, RowWrites DEF DrainMarksFailed
  <2> QED
    BY <1>6, <2>1, <2>2, <2>3, <2>4, <2>5 DEF DrainStep
<1>7. ASSUME NEW s \in Sales, NEW f \in Forcers, ForceStep(f, s) PROVE TypeOK'
  <2> USE DEF TypeOK
  <2>0. f \in Callers
    BY DEF Callers
  <2>1. CASE ForceBegin(f, s)
    BY <2>0, <2>1, CallSteps DEF ForceBegin
  <2>2. CASE ForceReads(f, s)
    BY <2>0, <2>2, CallSteps, WrittenType, RowWrites DEF ForceReads, Sessions
  <2> QED
    BY <1>7, <2>1, <2>2 DEF ForceStep
<1>8. ASSUME NEW s \in Sales, QueueTransaction(s) PROVE TypeOK'
  BY <1>8, RowWrites DEF QueueTransaction, TypeOK, RowType, Fresh, Stored, Waiting
<1>9. ASSUME NEW s \in Sales, VoidTransaction(s) PROVE TypeOK'
  BY <1>9, RowWrites DEF VoidTransaction, TypeOK
<1>10. ASSUME NEW s \in Sales, CleanupSynced(s) PROVE TypeOK'
  BY <1>10 DEF CleanupSynced, TypeOK, Absent, RowType
<1>11. ASSUME NEW s \in Sales, ManagerWrites(s) PROVE TypeOK'
  BY <1>11, WrittenType, RowWrites DEF ManagerWrites, TypeOK, NoManager
<1>12. ASSUME NEW s \in Sales, BackoffElapses(s) PROVE TypeOK'
  BY <1>12 DEF BackoffElapses, TypeOK, RowType
<1>13. ASSUME NEW d \in Drains, DrainBegin(d) PROVE TypeOK'
  BY <1>13 DEF DrainBegin, TypeOK, Snapshot, PendingRows
<1>14. ASSUME NEW op \in {"retry", "discard"}, NEW targets \in SUBSET Sales,
              ManagerLooks(op, targets) PROVE TypeOK'
  BY <1>14 DEF ManagerLooks, TypeOK
<1>15. CASE SignIn \/ SessionEnds
  BY <1>15, QueueAssumption DEF SignIn, SessionEnds, Fault, TypeOK, Sessions
<1>18. CASE GoesOffline \/ ComesOnline
  <2>1. online' \in BOOLEAN /\ UNCHANGED <<tillVars, ledger, late, history>>
    BY <1>18 DEF GoesOffline, ComesOnline
  <2>2. faults' \in Nat
    BY <1>18 DEF GoesOffline, ComesOnline, Fault, TypeOK
  <2> QED
    BY <2>1, <2>2 DEF TypeOK
<1>16. CASE Crash
  <2>1. Idle \in CallType
    BY CallTypes
  <2>2. late' \subseteq Requests
    BY <1>16, WireTypes DEF Crash
  <2> QED
    BY <1>16, <2>1, <2>2 DEF Crash, Fault, TypeOK, NoManager
<1>17. CASE UNCHANGED vars
  BY <1>17 DEF vars, TypeOK
<1> QED
  BY <1>1, <1>2, <1>3, <1>4, <1>5, <1>6, <1>7, <1>8, <1>9, <1>10, <1>11, <1>12,
     <1>13, <1>14, <1>15, <1>16, <1>17, <1>18 DEF Next, CounterStep

\* Every state of the queue is well typed: no row, call or request is ever
\* malformed, whatever the callers do.
THEOREM TypeCorrect == Spec => []TypeOK
BY TypeInit, TypeStep, PTL DEF Spec

-----------------------------------------------------------------------------
(* The inductive invariant.                                                *)

\* A write to one row leaves every row answered for, when the new row does.
LEMMA OneRow ==
  ASSUME IInv, NEW s \in Sales, NEW r \in RowType, Written(s, r),
         sold' = sold, ledger' = ledger, waived \subseteq waived',
         r.st # "absent" => s \in sold,
         r.st = "SYNCED" => ledger[s] # {},
         r.st = "absent" => row[s].st = "absent",
         r.st = "DISCARDED" => s \in waived' \/ row[s].st = "DISCARDED"
  PROVE  RowsAnswer'
BY DEF IInv, TypeOK, RowsAnswer, RowAnswers, Written

\* Ending a call changes nothing that is promised of the calls.
LEMMA HangUpKeeps ==
  ASSUME IInv, NEW c \in Callers, HangUp(c),
         \A d \in Drains : todo'[d] \subseteq todo[d],
         UNCHANGED <<sold, manager, ledger, late>>
  PROVE  StoredBeforeSent' /\ OkMeansRecorded'
<1>1. calls'[c].stage = "idle" /\ \A b \in Callers \ {c} : calls'[b] = calls[b]
  BY DEF HangUp, Idle, IInv, TypeOK
<1> QED
  BY <1>1 DEF IInv, StoredBeforeSent, OkMeansRecorded

\* Neither does sending a stored sale.
LEMMA SendKeeps ==
  ASSUME IInv, NEW c \in Callers, NEW s \in sold, Send(c, s),
         \A d \in Drains : todo'[d] \subseteq todo[d],
         UNCHANGED <<sold, manager, ledger, late>>
  PROVE  StoredBeforeSent' /\ OkMeansRecorded'
<1>1. /\ calls'[c].stage = "sending" /\ calls'[c].at = s
      /\ \A b \in Callers \ {c} : calls'[b] = calls[b]
  BY DEF Send, Call, IInv, TypeOK
<1> QED
  BY <1>1 DEF IInv, StoredBeforeSent, OkMeansRecorded

\* Every write of the services leaves every row answered for.
LEMMA WritesAnswer ==
  ASSUME IInv, NEW s \in Sales, sold' = sold, ledger' = ledger,
         waived \subseteq waived',
         \/ row' = row
         \/ Written(s, MarkSynced(row[s])) /\ ledger[s] # {}
         \/ \E r \in {MarkConflict(row[s]), MarkFailed(row[s]), MarkVoided(row[s]),
                      SetMaxRetries(row[s]), ResetForRetry(row[s])} : Written(s, r)
         \/ Written(s, Discarded(row[s])) /\ s \in waived'
  PROVE  RowsAnswer'
<1>1. row[s] \in RowType /\ RowAnswers(s)
  BY DEF IInv, TypeOK, RowsAnswer
<1>2. CASE row' = row
  BY <1>2 DEF IInv, RowsAnswer, RowAnswers
<1>3. CASE Written(s, MarkSynced(row[s])) /\ ledger[s] # {}
  BY <1>1, <1>3, OneRow, RowWrites, RowStates DEF RowAnswers
<1>4. ASSUME NEW r \in {MarkConflict(row[s]), MarkFailed(row[s]), MarkVoided(row[s]),
                        SetMaxRetries(row[s]), ResetForRetry(row[s])}, Written(s, r)
      PROVE  RowsAnswer'
  <2>1. r \in RowType /\ (r = row[s] \/ r.st \in Waiting \cup {"CONFLICT", row[s].st})
    BY <1>1, RowWrites, RowStates DEF Waiting
  <2> QED
    BY <1>1, <1>4, <2>1, RowStates, OneRow DEF RowAnswers, Waiting
<1>5. CASE Written(s, Discarded(row[s])) /\ s \in waived'
  BY <1>1, <1>5, OneRow, RowWrites, RowStates DEF RowAnswers
<1> QED
  BY <1>2, <1>3, <1>4, <1>5

LEMMA InvInit == Init => IInv
BY TypeInit DEF Init, IInv, StoredBeforeSent, OkMeansRecorded, RowsAnswer, RowAnswers,
   Absent, Idle, NoManager

LEMMA InvStep == IInv /\ [Next]_vars => IInv'
<1> SUFFICES ASSUME IInv, [Next]_vars PROVE IInv'
  OBVIOUS
<1>0. TypeOK /\ TypeOK'
  BY TypeStep DEF IInv
<1> USE DEF history, worldVars, tillVars
<1>1. ASSUME NEW c \in Callers, Answer(c) PROVE IInv'
  <2>0. calls[c].stage = "sending" /\ calls[c].at \in sold /\ calls[c].at \in Sales
    BY <1>0, <1>1 DEF Answer, IInv, StoredBeforeSent, TypeOK
  <2>1. /\ \A s \in Sales : ledger[s] \subseteq ledger'[s]
        /\ \A s \in Sales : ledger'[s] # ledger[s] => s \in sold
    BY <1>0, <1>1, <2>0 DEF Answer, Posted, TypeOK
  <2>2. /\ calls' = [calls EXCEPT ![c].stage = "answered", ![c].reply = calls'[c].reply]
        /\ calls'[c].reply = "ok" => ledger'[calls[c].at] # {}
    <3>1. CASE calls[c].cred = "good"
      <4>1. PICK o \in Outcomes(Kind(c), calls[c].at) :
              /\ Posted(Kind(c), calls[c].at, o[2])
              /\ calls' = [calls EXCEPT ![c].stage = "answered", ![c].reply = o[1]]
        BY <1>1, <3>1 DEF Answer
      <4>2. calls'[c].reply = o[1]
        BY <1>0, <4>1 DEF TypeOK, CallType, Idle
      <4>3. o[1] = "ok" => ledger'[calls[c].at] # {}
        BY <1>0, <2>0, <4>1, OutcomeTypes DEF Posted, Endpoint, TypeOK
      <4> QED
        BY <4>1, <4>2, <4>3
    <3>2. CASE calls[c].cred # "good"
      BY <1>0, <1>1, <3>2 DEF Answer, TypeOK, CallType, Idle
    <3> QED
      BY <3>1, <3>2
  <2>3. /\ \A b \in Callers \ {c} : calls'[b] = calls[b]
        /\ calls'[c].at = calls[c].at /\ calls'[c].stage = "answered"
    BY <1>0, <2>2 DEF TypeOK, CallType, Idle
  <2>4. UNCHANGED <<row, sold, todo, manager, late, waived>>
    BY <1>1 DEF Answer
  <2>5. StoredBeforeSent'
    BY <2>0, <2>1, <2>3, <2>4 DEF IInv, StoredBeforeSent
  <2>6. OkMeansRecorded'
    BY <1>0, <2>0, <2>1, <2>2, <2>3, <2>4 DEF IInv, OkMeansRecorded, StoredBeforeSent, TypeOK, CallType, Idle
  <2>7. RowsAnswer'
    BY <2>1, <2>4 DEF IInv, RowsAnswer, RowAnswers
  <2> QED
    BY <1>0, <2>5, <2>6, <2>7 DEF IInv
<1>2. ASSUME NEW c \in Callers, TimesOut(c) PROVE IInv'
  <2>1. UNCHANGED <<row, sold, todo, manager, ledger, waived>>
    BY <1>2 DEF TimesOut
  <2>2. /\ \A b \in Callers \ {c} : calls'[b] = calls[b]
        /\ calls[c].stage = "sending" /\ calls'[c].at = calls[c].at
        /\ calls'[c].reply = "unreachable"
    BY <1>0, <1>2 DEF TimesOut, TypeOK, CallType, Idle
  <2>3. \A q \in late' : q.at \in sold
    BY <1>2 DEF TimesOut, Abandon, OnTheWire, RequestOf, IInv, StoredBeforeSent
  <2>4. StoredBeforeSent' /\ OkMeansRecorded'
    BY <2>1, <2>2, <2>3 DEF IInv, StoredBeforeSent, OkMeansRecorded
  <2> QED
    BY <1>0, <2>1, <2>4 DEF IInv, RowsAnswer, RowAnswers
<1>3. ASSUME NEW q \in late, LateArrival(q) PROVE IInv'
  <2>1. /\ UNCHANGED <<row, sold, calls, todo, manager, waived>>
        /\ late' \subseteq late /\ q.at \in sold
    BY <1>3 DEF LateArrival, IInv, StoredBeforeSent
  <2>2. /\ \A s \in Sales : ledger[s] \subseteq ledger'[s]
        /\ \A s \in Sales : ledger'[s] # ledger[s] => s \in sold
    BY <1>0, <1>3, <2>1 DEF LateArrival, Posted, TypeOK
  <2>3. StoredBeforeSent' /\ OkMeansRecorded'
    BY <1>0, <2>1, <2>2
    DEF IInv, StoredBeforeSent, OkMeansRecorded, TypeOK, CallType, Idle
  <2> QED
    BY <1>0, <2>1, <2>2, <2>3 DEF IInv, RowsAnswer, RowAnswers
<1>4. ASSUME NEW s \in Sales, NEW c \in Counters, Complete(c, s) PROVE IInv'
  <2>1. /\ UNCHANGED <<todo, manager, ledger, late, waived>>
        /\ sold' = sold \cup {s} /\ c \in Callers
    BY <1>4 DEF Complete, Callers
  <2>2. /\ \A b \in Callers \ {c} : calls'[b] = calls[b]
        /\ calls'[c].at = s /\ calls'[c].stage = "sending"
    BY <1>0, <1>4, <2>1 DEF Complete, Send, Call, TypeOK
  <2>3. StoredBeforeSent' /\ OkMeansRecorded'
    BY <2>1, <2>2 DEF IInv, StoredBeforeSent, OkMeansRecorded
  <2>4. RowsAnswer'
    BY <1>0, <1>4, <2>1 DEF Complete, Fresh, IInv, RowsAnswer, RowAnswers, TypeOK
  <2> QED
    BY <1>0, <2>3, <2>4 DEF IInv
<1>5. ASSUME NEW s \in Sales, QueueTransaction(s) PROVE IInv'
  <2>1. /\ UNCHANGED <<calls, todo, manager, ledger, late, waived>>
        /\ sold' = sold \cup {s}
    BY <1>5 DEF QueueTransaction
  <2>2. StoredBeforeSent' /\ OkMeansRecorded'
    BY <2>1 DEF IInv, StoredBeforeSent, OkMeansRecorded
  <2>3. RowsAnswer'
    BY <1>0, <1>5, <2>1 DEF QueueTransaction, Fresh, IInv, RowsAnswer, RowAnswers, TypeOK
  <2> QED
    BY <1>0, <2>2, <2>3 DEF IInv
\* A caller that reads its answer writes at most the row of its own sale.
<1>6. ASSUME NEW s \in Sales, NEW c \in Counters, CompleteReads(c, s) PROVE IInv'
  <2>1. /\ UNCHANGED <<sold, todo, manager, ledger, late, waived>>
        /\ c \in Callers /\ HangUp(c)
    BY <1>6 DEF CompleteReads, Callers
  <2>2. StoredBeforeSent' /\ OkMeansRecorded'
    BY <1>0, <2>1, HangUpKeeps
  <2>3. RowsAnswer'
    BY <1>6, <2>1, WritesAnswer DEF CompleteReads, Reading, IInv, OkMeansRecorded
  <2> QED
    BY <1>0, <2>2, <2>3 DEF IInv
<1>7. ASSUME NEW s \in Sales, NEW d \in Drains, DrainStep(d, s) PROVE IInv'
  <2>0. d \in Callers
    BY DEF Callers
  <2>1. CASE DrainSend(d, s)
    <3>1. /\ UNCHANGED <<row, sold, manager, ledger, late, waived>>
          /\ s \in sold /\ \A e \in Drains : todo'[e] \subseteq todo[e]
      BY <1>0, <2>1 DEF DrainSend, IInv, StoredBeforeSent, TypeOK
    <3>2. StoredBeforeSent' /\ OkMeansRecorded'
      BY <2>0, <2>1, <3>1, SendKeeps DEF DrainSend
    <3> QED
      BY <1>0, <3>1, <3>2 DEF IInv, RowsAnswer, RowAnswers
  <2>2. CASE DrainUnauthorized(d, s)
    <3>1. /\ UNCHANGED <<row, sold, manager, ledger, late, waived>>
          /\ HangUp(d) /\ \A e \in Drains : todo'[e] \subseteq todo[e]
      BY <1>0, <2>2 DEF DrainUnauthorized, TypeOK
    <3>2. StoredBeforeSent' /\ OkMeansRecorded'
      BY <2>0, <3>1, HangUpKeeps
    <3> QED
      BY <1>0, <3>1, <3>2 DEF IInv, RowsAnswer, RowAnswers
  <2>3. CASE DrainReads(d, s)
    <3>1. UNCHANGED <<sold, todo, manager, ledger, late, waived>> /\ HangUp(d)
      BY <2>3 DEF DrainReads
    <3>2. StoredBeforeSent' /\ OkMeansRecorded'
      BY <2>0, <3>1, HangUpKeeps
    <3>3. RowsAnswer'
      BY <2>0, <2>3, <3>1, WritesAnswer DEF DrainReads, Reading, IInv, OkMeansRecorded
    <3> QED
      BY <1>0, <3>2, <3>3 DEF IInv
  <2>4. CASE DrainSetsMax(d, s)
    <3>1. /\ UNCHANGED <<sold, todo, manager, ledger, late, waived>>
          /\ Written(s, SetMaxRetries(row[s]))
      BY <2>4 DEF DrainSetsMax
    <3>2. /\ \A b \in Callers \ {d} : calls'[b] = calls[b]
          /\ calls[d].stage = "answered" /\ calls'[d].stage = "marking"
          /\ calls'[d].at = calls[d].at
      BY <1>0, <2>0, <2>4 DEF DrainSetsMax, Reading, TypeOK, CallType, Idle
    <3>3. StoredBeforeSent' /\ OkMeansRecorded'
      BY <3>1, <3>2 DEF IInv, StoredBeforeSent, OkMeansRecorded
    <3> QED
      BY <1>0, <3>1, <3>3, WritesAnswer DEF IInv
  <2>5. CASE DrainMarksFailed(d, s)
    <3>1. /\ UNCHANGED <<sold, todo, manager, ledger, late, waived>>
          /\ HangUp(d) /\ Written(s, MarkFailed(row[s]))
      BY <2>5 DEF DrainMarksFailed
    <3> QED
      BY <1>0, <2>0, <3>1, HangUpKeeps, WritesAnswer DEF IInv
  <2> QED
    BY <1>7, <2>1, <2>2, <2>3, <2>4, <2>5 DEF DrainStep
<1>8. ASSUME NEW s \in Sales, NEW f \in Forcers, ForceStep(f, s) PROVE IInv'
  <2>0. f \in Callers
    BY DEF Callers
  <2>1. CASE ForceBegin(f, s)
    <3>1. UNCHANGED <<row, sold, todo, manager, ledger, late, waived>> /\ s \in sold
      BY <2>1 DEF ForceBegin, Conflicts, IInv, RowsAnswer, RowAnswers
    <3>2. StoredBeforeSent' /\ OkMeansRecorded'
      BY <2>0, <2>1, <3>1, SendKeeps DEF ForceBegin, IInv, StoredBeforeSent
    <3> QED
      BY <1>0, <3>1, <3>2 DEF IInv, RowsAnswer, RowAnswers
  <2>2. CASE ForceReads(f, s)
    <3>1. UNCHANGED <<sold, todo, manager, ledger, late, waived>> /\ HangUp(f)
      BY <2>2 DEF ForceReads
    <3>2. StoredBeforeSent' /\ OkMeansRecorded'
      BY <2>0, <3>1, HangUpKeeps
    <3>3. RowsAnswer'
      BY <2>0, <2>2, <3>1, WritesAnswer DEF ForceReads, Reading, IInv, OkMeansRecorded
    <3> QED
      BY <1>0, <3>2, <3>3 DEF IInv
  <2> QED
    BY <1>8, <2>1, <2>2 DEF ForceStep
<1>9. ASSUME NEW s \in Sales, VoidTransaction(s) \/ BackoffElapses(s) PROVE IInv'
  <2>1. UNCHANGED <<sold, calls, todo, manager, ledger, late, waived>>
    BY <1>9 DEF VoidTransaction, BackoffElapses
  <2>2. ASSUME VoidTransaction(s) PROVE RowsAnswer'
    BY <2>1, <2>2, WritesAnswer DEF VoidTransaction, Written
  <2>3. ASSUME BackoffElapses(s) PROVE RowsAnswer'
    BY <1>0, <2>1, <2>3 DEF BackoffElapses, IInv, RowsAnswer, RowAnswers, TypeOK, RowType
  <2>4. StoredBeforeSent' /\ OkMeansRecorded'
    BY <2>1 DEF IInv, StoredBeforeSent, OkMeansRecorded
  <2> QED
    BY <1>0, <1>9, <2>2, <2>3, <2>4 DEF IInv
<1>10. ASSUME NEW last \in Sales, CleanupSynced(last) PROVE IInv'
  <2>1. UNCHANGED <<sold, calls, todo, manager, ledger, late, waived>>
    BY <1>10 DEF CleanupSynced
  <2>2. RowsAnswer'
    BY <1>0, <1>10, <2>1 DEF CleanupSynced, Absent, IInv, RowsAnswer, RowAnswers, TypeOK
  <2>3. StoredBeforeSent' /\ OkMeansRecorded'
    BY <2>1 DEF IInv, StoredBeforeSent, OkMeansRecorded
  <2> QED
    BY <1>0, <2>2, <2>3 DEF IInv
<1>11. ASSUME NEW s \in Sales, ManagerWrites(s) PROVE IInv'
  <2>1. /\ UNCHANGED <<sold, calls, todo, ledger, late>> /\ waived \subseteq waived'
        /\ manager'.todo \subseteq manager.todo
    BY <1>0, <1>11 DEF ManagerWrites, NoManager, TypeOK
  <2>2. RowsAnswer'
    BY <1>11, <2>1, WritesAnswer DEF ManagerWrites
  <2>3. StoredBeforeSent' /\ OkMeansRecorded'
    BY <2>1 DEF IInv, StoredBeforeSent, OkMeansRecorded
  <2> QED
    BY <1>0, <2>2, <2>3 DEF IInv
<1>12. ASSUME NEW d \in Drains, DrainBegin(d) PROVE IInv'
  <2>1. UNCHANGED <<row, sold, calls, manager, ledger, late, waived>>
    BY <1>12 DEF DrainBegin
  <2>2. \A e \in Drains : todo'[e] \subseteq sold
    BY <1>0, <1>12 DEF DrainBegin, Snapshot, PendingRows, Waiting, IInv, TypeOK,
       StoredBeforeSent, RowsAnswer, RowAnswers
  <2> QED
    BY <1>0, <2>1, <2>2 DEF IInv, StoredBeforeSent, OkMeansRecorded, RowsAnswer, RowAnswers
<1>13. ASSUME NEW op \in {"retry", "discard"}, NEW targets \in SUBSET Sales,
              ManagerLooks(op, targets) PROVE IInv'
  <2>1. UNCHANGED <<row, sold, calls, todo, ledger, late, waived>>
    BY <1>13 DEF ManagerLooks
  <2>2. manager'.todo \subseteq sold
    BY <1>13 DEF ManagerLooks, Conflicts, IInv, RowsAnswer, RowAnswers
  <2> QED
    BY <1>0, <2>1, <2>2 DEF IInv, StoredBeforeSent, OkMeansRecorded, RowsAnswer, RowAnswers
<1>14. CASE SignIn \/ SessionEnds \/ GoesOffline \/ ComesOnline \/ UNCHANGED vars
  <2>1. UNCHANGED <<row, sold, calls, todo, manager, ledger, late, waived>>
    BY <1>14 DEF SignIn, SessionEnds, GoesOffline, ComesOnline, vars
  <2> QED
    BY <1>0, <2>1 DEF IInv, StoredBeforeSent, OkMeansRecorded, RowsAnswer, RowAnswers
<1>15. CASE Crash
  <2>1. /\ UNCHANGED <<row, sold, ledger, waived>>
        /\ \A d \in Drains : todo'[d] = {}
        /\ manager'.todo = {} /\ \A c \in Callers : calls'[c].stage = "idle"
    BY <1>15 DEF Crash, NoManager, Idle
  <2>2. \A q \in late' : q.at \in sold
    BY <1>15 DEF Crash, Abandon, OnTheWire, RequestOf, IInv, StoredBeforeSent
  <2> QED
    BY <1>0, <2>1, <2>2 DEF IInv, StoredBeforeSent, OkMeansRecorded, RowsAnswer, RowAnswers
<1> QED
  BY <1>1, <1>2, <1>3, <1>4, <1>5, <1>6, <1>7, <1>8, <1>9, <1>10, <1>11, <1>12,
     <1>13, <1>14, <1>15 DEF Next, CounterStep

LEMMA Invariant == Spec => []IInv
BY InvInit, InvStep, PTL DEF Spec

LEMMA NoSaleLostNow == IInv => NoSaleLost
BY DEF IInv, TypeOK, RowsAnswer, RowAnswers, NoSaleLost, RowType, Stored, Waiting

\* A sale whose completion was persisted is never lost, for any number of
\* sales and concurrent callers, whatever fails: somebody still has it.
THEOREM NothingIsLost == Spec => []NoSaleLost
BY Invariant, NoSaleLostNow, PTL

LEMMA SyncedNow == IInv => SyncedMeansRecorded
BY DEF IInv, RowsAnswer, RowAnswers, SyncedMeansRecorded

\* No row ever says SYNCED of a sale the platform never recorded.
THEOREM SyncedIsTrue == Spec => []SyncedMeansRecorded
BY Invariant, SyncedNow, PTL

-----------------------------------------------------------------------------
(* The queue implements SaleCustody.                                       *)

\* What a write to the row of s does to the set of sales kept.
LEMMA KeptWrite ==
  ASSUME TypeOK, NEW s \in Sales, NEW r \in RowType, Written(s, r)
  PROVE  \/ Kept' = Kept
         \/ r.st \in Waiting \cup {"CONFLICT"} /\ Kept' = Kept \cup {s}
         \/ r.st \notin Waiting \cup {"CONFLICT"} /\ Kept' = Kept \ {s}
<1>1. row' = row => Kept' = Kept
  BY DEF Kept
<1>2. ASSUME row' = [row EXCEPT ![s] = r]
      PROVE  \A t \in Sales : row'[t] = IF t = s THEN r ELSE row[t]
  BY <1>2 DEF TypeOK
<1>3. CASE row' = [row EXCEPT ![s] = r] /\ r.st \in Waiting \cup {"CONFLICT"}
  BY <1>2, <1>3 DEF Kept
<1>4. CASE row' = [row EXCEPT ![s] = r] /\ r.st \notin Waiting \cup {"CONFLICT"}
  BY <1>2, <1>4 DEF Kept
<1> QED
  BY <1>1, <1>3, <1>4 DEF Written

\* Every write that waives nothing lets go of a recorded sale or keeps one.
LEMMA WritesMove ==
  ASSUME IInv, NEW s \in Sales, UNCHANGED <<sold, ledger, waived>>,
         \/ row' = row
         \/ Written(s, MarkSynced(row[s])) /\ ledger[s] # {}
         \/ \E r \in {MarkConflict(row[s]), MarkFailed(row[s]), MarkVoided(row[s]),
                      SetMaxRetries(row[s]), ResetForRetry(row[s])} : Written(s, r)
  PROVE  [Custody!Next]_(Custody!custody)
<1>1. row[s] \in RowType /\ RowAnswers(s) /\ TypeOK
  BY DEF IInv, TypeOK, RowsAnswer
<1>2. UNCHANGED <<sold, Recorded, waived>>
  BY DEF Recorded
<1>3. CASE Kept' = Kept
  BY <1>2, <1>3 DEF Custody!custody
<1>4. CASE Kept' = Kept \cup {s} /\ s \in sold
  BY <1>2, <1>4 DEF Custody!Next, Custody!Reopen
<1>5. CASE Kept' = Kept \ {s} /\ ledger[s] # {}
  BY <1>2, <1>5 DEF Custody!Next, Custody!LetGo, Recorded
<1>6. \/ Kept' = Kept
      \/ Kept' = Kept \cup {s} /\ s \in sold
      \/ Kept' = Kept \ {s} /\ ledger[s] # {}
  <2>1. CASE row' = row
    BY <2>1 DEF Kept
  <2>2. CASE Written(s, MarkSynced(row[s])) /\ ledger[s] # {}
    BY <1>1, <2>2, KeptWrite, RowWrites, RowStates DEF RowAnswers, Waiting
  <2>3. ASSUME NEW r \in {MarkConflict(row[s]), MarkFailed(row[s]), MarkVoided(row[s]),
                          SetMaxRetries(row[s]), ResetForRetry(row[s])}, Written(s, r)
        PROVE  Kept' = Kept \/ (Kept' = Kept \cup {s} /\ s \in sold)
    <3>1. /\ r \in RowType
          /\ r.st = row[s].st \/ (r.st \in Waiting \cup {"CONFLICT"} /\ s \in sold)
      BY <1>1, <2>3, RowWrites, RowStates DEF RowAnswers, Waiting
    <3>2. row[s].st \in Waiting \cup {"CONFLICT"} <=> s \in Kept
      BY DEF Kept
    <3> QED
      BY <1>1, <2>3, <3>1, <3>2, KeptWrite DEF RowAnswers, Waiting
  <2> QED
    BY <2>1, <2>2, <2>3
<1> QED
  BY <1>3, <1>4, <1>5, <1>6

LEMMA CustodyInit == Init => Custody!Init
BY DEF Init, Custody!Init, Kept, Recorded, Absent, Waiting

\* Steps that leave rows, platform and waivers alone are stutters.
LEMMA StutterMove ==
  ASSUME UNCHANGED <<row, sold, ledger, waived>>
  PROVE  [Custody!Next]_(Custody!custody)
BY DEF Custody!custody, Kept, Recorded

LEMMA PostMove ==
  ASSUME IInv, NEW s \in Sales, s \in sold, NEW kind, NEW recorded,
         Posted(kind, s, recorded), UNCHANGED <<row, sold, waived>>
  PROVE  [Custody!Next]_(Custody!custody)
<1>1. Kept' = Kept
  BY DEF Kept
<1>2. Recorded' = Recorded \/ Recorded' = Recorded \cup {s}
  BY DEF Recorded, Posted, Endpoint, IInv, TypeOK
<1> QED
  BY <1>1, <1>2 DEF Custody!Next, Custody!Record, Custody!custody

LEMMA CustodyStep == IInv /\ [Next]_vars => [Custody!Next]_(Custody!custody)
<1> SUFFICES ASSUME IInv, [Next]_vars PROVE [Custody!Next]_(Custody!custody)
  OBVIOUS
<1> USE DEF history, worldVars, tillVars
<1>0. TypeOK
  BY DEF IInv
<1>1. ASSUME NEW c \in Callers, Answer(c) PROVE [Custody!Next]_(Custody!custody)
  <2>1. /\ calls[c].at \in Sales /\ calls[c].at \in sold
        /\ UNCHANGED <<row, sold, waived>>
    BY <1>0, <1>1 DEF Answer, TypeOK, IInv, StoredBeforeSent
  <2>2. ledger' = ledger \/ \E o \in Outcomes(Kind(c), calls[c].at) :
                              Posted(Kind(c), calls[c].at, o[2])
    BY <1>1 DEF Answer
  <2> QED
    BY <2>1, <2>2, PostMove, StutterMove
<1>2. ASSUME NEW q \in late, LateArrival(q) PROVE [Custody!Next]_(Custody!custody)
  BY <1>0, <1>2, PostMove DEF LateArrival, IInv, StoredBeforeSent, TypeOK, Requests
<1>3. ASSUME NEW s \in Sales, row' = [row EXCEPT ![s] = Fresh], sold' = sold \cup {s},
             UNCHANGED <<ledger, waived>>
      PROVE  [Custody!Next]_(Custody!custody)
  <2>1. Kept' = Kept \cup {s} /\ Recorded' = Recorded
    BY <1>0, <1>3 DEF Kept, Recorded, Fresh, Waiting, TypeOK
  <2> QED
    BY <1>3, <2>1 DEF Custody!Next, Custody!Take
<1>4. ASSUME NEW s \in Sales, NEW c \in Counters, CounterStep(c, s)
      PROVE  [Custody!Next]_(Custody!custody)
  <2>1. CASE Complete(c, s)
    BY <1>3, <2>1 DEF Complete
  <2>2. CASE CompleteReads(c, s)
    <3>1. c \in Callers /\ UNCHANGED <<sold, ledger, waived>>
      BY <2>2 DEF CompleteReads, Callers
    <3> QED
      BY <2>2, <3>1, WritesMove DEF CompleteReads, Reading, IInv, OkMeansRecorded
  <2> QED
    BY <1>4, <2>1, <2>2 DEF CounterStep
<1>5. ASSUME NEW s \in Sales, NEW d \in Drains, DrainStep(d, s)
      PROVE  [Custody!Next]_(Custody!custody)
  <2>1. d \in Callers /\ UNCHANGED <<sold, ledger, waived>>
    BY <1>5 DEF DrainStep, DrainSend, DrainUnauthorized, DrainReads, DrainSetsMax,
       DrainMarksFailed, Callers
  <2>2. CASE DrainSend(d, s) \/ DrainUnauthorized(d, s)
    BY <2>1, <2>2, StutterMove DEF DrainSend, DrainUnauthorized
  <2>3. CASE DrainReads(d, s)
    BY <2>1, <2>3, WritesMove DEF DrainReads, Reading, IInv, OkMeansRecorded
  <2>4. CASE DrainSetsMax(d, s) \/ DrainMarksFailed(d, s)
    BY <2>1, <2>4, WritesMove DEF DrainSetsMax, DrainMarksFailed
  <2> QED
    BY <1>5, <2>2, <2>3, <2>4 DEF DrainStep
<1>6. ASSUME NEW s \in Sales, NEW f \in Forcers, ForceStep(f, s)
      PROVE  [Custody!Next]_(Custody!custody)
  <2>1. f \in Callers /\ UNCHANGED <<sold, ledger, waived>>
    BY <1>6 DEF ForceStep, ForceBegin, ForceReads, Callers
  <2>2. row' = row \/ (Written(s, MarkSynced(row[s])) /\ ledger[s] # {})
    BY <1>6, <2>1 DEF ForceStep, ForceBegin, ForceReads, Reading, IInv, OkMeansRecorded
  <2> QED
    BY <2>1, <2>2, WritesMove
<1>7. ASSUME NEW s \in Sales, ManagerWrites(s) PROVE [Custody!Next]_(Custody!custody)
  <2>1. UNCHANGED <<sold, ledger>> /\ s \in sold
    BY <1>7 DEF ManagerWrites, IInv, StoredBeforeSent
  <2>2. CASE Written(s, ResetForRetry(row[s])) /\ waived' = waived
    BY <2>1, <2>2, WritesMove
  <2>3. CASE Written(s, Discarded(row[s])) /\ waived' = waived \cup {s}
    <3>1. row[s] \in RowType
      BY <1>0 DEF TypeOK
    <3>2. Kept' \in {Kept, Kept \ {s}}
      BY <1>0, <2>3, <3>1, KeptWrite, RowWrites, RowStates DEF Kept, Waiting
    <3> QED
      BY <2>1, <2>3, <3>2 DEF Custody!Next, Custody!Waive, Recorded
  <2> QED
    BY <1>7, <2>2, <2>3 DEF ManagerWrites
<1>8. ASSUME NEW s \in Sales, VoidTransaction(s) PROVE [Custody!Next]_(Custody!custody)
  BY <1>8, WritesMove DEF VoidTransaction, Written
<1>9. ASSUME NEW s \in Sales, CleanupSynced(s) \/ BackoffElapses(s)
      PROVE  [Custody!Next]_(Custody!custody)
  <2>1. UNCHANGED <<sold, ledger, waived>>
    BY <1>9 DEF CleanupSynced, BackoffElapses
  <2>2. Kept' = Kept /\ Recorded' = Recorded
    BY <1>0, <1>9, <2>1
    DEF CleanupSynced, BackoffElapses, Kept, Recorded, Absent, Waiting, TypeOK, RowType
  <2> QED
    BY <2>1, <2>2 DEF Custody!custody
<1>10. CASE \/ \E c \in Callers : TimesOut(c)
            \/ \E d \in Drains : DrainBegin(d)
            \/ \E op \in {"retry", "discard"}, targets \in SUBSET Sales :
                 ManagerLooks(op, targets)
            \/ SignIn \/ SessionEnds \/ GoesOffline \/ ComesOnline \/ Crash
            \/ UNCHANGED vars
  BY <1>10, StutterMove DEF TimesOut, DrainBegin, ManagerLooks, SignIn, SessionEnds,
     GoesOffline, ComesOnline, Crash, vars
<1>11. ASSUME NEW s \in Sales, QueueTransaction(s) PROVE [Custody!Next]_(Custody!custody)
  BY <1>3, <1>11 DEF QueueTransaction
<1> QED
  BY <1>1, <1>2, <1>4, <1>5, <1>6, <1>7, <1>8, <1>9, <1>10, <1>11 DEF Next

\* The queue implements SaleCustody: it takes a sale into its keeping before
\* the platform can have it, and lets go of it only when the platform has it
\* or a manager waived it, whatever fails in between.
THEOREM ImplementsCustody == Spec => KeepsCustody
BY CustodyInit, CustodyStep, Invariant, PTL DEF Spec, KeepsCustody, Custody!Spec

\* A declined operator session costs no sale anything and ends the pass, for
\* any number of drains and whatever the others do at that moment.
THEOREM DeclinedSessionIsFree == Spec => SessionRefusalCostsNothing
<1> DEFINE Free == \A d \in Drains :
       calls[d].stage = "answered" /\ calls[d].reply \in {"notpresented", "lapsed"}
         /\ calls'[d] # calls[d]
       => row' = row /\ (todo'[d] = {})
<1>1. TypeOK /\ [Next]_vars => [Free]_vars
  <2> SUFFICES ASSUME TypeOK, Next, NEW d \in Drains,
                      calls[d].stage = "answered",
                      calls[d].reply \in {"notpresented", "lapsed"},
                      calls'[d] # calls[d]
               PROVE  row' = row /\ todo'[d] = {}
    OBVIOUS
  <2> USE DEF history, worldVars, tillVars
  <2>1. d \in Callers /\ calls \in [Callers -> CallType] /\ d \notin Counters \cup Forcers
    BY QueueAssumption DEF Callers, TypeOK
  <2>2. CASE Crash
    BY <2>2 DEF Crash
  <2>3. ASSUME NEW s \in Sales, DrainStep(d, s) PROVE row' = row /\ todo'[d] = {}
    BY <2>3 DEF DrainStep, DrainSend, DrainUnauthorized, DrainReads, DrainSetsMax,
       DrainMarksFailed, Reading, Transient, TypeOK
  <2>4. ASSUME NEW c \in Callers \ {d}, NEW s \in Sales,
               CounterStep(c, s) \/ DrainStep(c, s) \/ ForceStep(c, s)
        PROVE  FALSE
    BY <2>1, <2>4 DEF CounterStep, Complete, CompleteReads, DrainStep, DrainSend,
       DrainUnauthorized, DrainReads, DrainSetsMax, DrainMarksFailed, ForceStep, ForceBegin,
       ForceReads, Send, HangUp
  <2>5. ASSUME NEW c \in Callers, Answer(c) \/ TimesOut(c) PROVE FALSE
    BY <2>1, <2>5 DEF Answer, TimesOut
  <2>6. CASE UNCHANGED calls
    BY <2>6
  <2> QED
    BY <2>1, <2>2, <2>3, <2>4, <2>5, <2>6
    DEF Next, Callers, LateArrival, QueueTransaction, VoidTransaction, CleanupSynced,
        ManagerWrites, BackoffElapses, DrainBegin, ManagerLooks, SignIn, SessionEnds,
        GoesOffline, ComesOnline
<1> QED
  BY <1>1, TypeInit, TypeStep, PTL DEF Spec, SessionRefusalCostsNothing, Free

-----------------------------------------------------------------------------
(* What the drain wrote off.                                               *)

\* Nothing in the code keeps a manual sync_all from draining while the
\* polling loop does; a second drain decides on its own, older snapshot.
OneDrain == \A d, e \in Drains : d = e

\* A row at the ceiling, or gone, is not picked by ShouldRetryNow.
Over(r)  == r.st = "absent" \/ r.retry >= MaxRetry
DeadStay == \A s \in dead : s \in sold /\ Over(row[s])

\* A pass is not going to send what was written off, nor what it is sending.
NotAgain ==
  \A d \in Drains :
    /\ todo[d] \cap dead = {}
    /\ calls[d].stage # "idle" => calls[d].at \notin todo[d]

\* No write of the services but a reset takes a row from the ceiling.
LEMMA WritesStayOver ==
  ASSUME NEW r \in RowType, Over(r)
  PROVE  /\ Over(MarkSynced(r)) /\ Over(MarkConflict(r)) /\ Over(MarkFailed(r))
         /\ Over(MarkVoided(r)) /\ Over(SetMaxRetries(r)) /\ Over(Discarded(r))
<1> USE QueueAssumption DEF RowType, Over, Updated
<1>1. Over(MarkSynced(r)) /\ Over(MarkConflict(r)) /\ Over(Discarded(r))
  BY DEF MarkSynced, MarkConflict, Discarded
<1>2. Over(MarkFailed(r))
  BY DEF MarkFailed
<1>3. Over(MarkVoided(r)) /\ Over(SetMaxRetries(r))
  BY DEF MarkVoided, SetMaxRetries
<1> QED
  BY <1>1, <1>2, <1>3

\* So such a write leaves what was written off at the ceiling.
LEMMA WritesLeaveDead ==
  ASSUME TypeOK, DeadStay, NEW s \in Sales, sold \subseteq sold', dead' \subseteq dead,
         \/ row' = row
         \/ \E r \in {MarkSynced(row[s]), MarkConflict(row[s]), MarkFailed(row[s]),
                      MarkVoided(row[s]), SetMaxRetries(row[s]), Discarded(row[s])} :
              Written(s, r)
         \/ \E r \in RowType : Written(s, r) /\ s \notin dead'
  PROVE  DeadStay'
<1>1. row \in [Sales -> RowType] /\ dead \subseteq Sales
  BY DEF TypeOK
<1>2. ASSUME NEW t \in dead' PROVE row'[t] = row[t] \/ (t = s /\ Over(row'[s]))
  <2>1. t \in dead /\ t \in Sales
    BY <1>1, <1>2
  <2>2. ASSUME NEW r, Written(s, r) PROVE row'[t] = row[t] \/ (t = s /\ row'[s] = r)
    BY <1>1, <2>1, <2>2 DEF Written
  <2>3. t = s => Over(row[s])
    BY <2>1 DEF DeadStay
  <2>4. CASE row' = row
    BY <2>4
  <2>5. ASSUME NEW r \in {MarkSynced(row[s]), MarkConflict(row[s]), MarkFailed(row[s]),
                          MarkVoided(row[s]), SetMaxRetries(row[s]), Discarded(row[s])},
               Written(s, r)
        PROVE  row'[t] = row[t] \/ (t = s /\ Over(row'[s]))
    <3>1. CASE t = s
      <4>1. Over(r)
        BY <1>1, <2>3, <2>5, <3>1, WritesStayOver
      <4> QED
        BY <2>2, <2>5, <4>1
    <3>2. CASE t # s
      BY <2>2, <2>5, <3>2
    <3> QED
      BY <3>1, <3>2
  <2>6. ASSUME NEW r \in RowType, Written(s, r), s \notin dead'
        PROVE  row'[t] = row[t]
    BY <1>2, <2>2, <2>6
  <2> QED
    BY <2>4, <2>5, <2>6
<1> QED
  BY <1>2 DEF DeadStay, Over

\* A step that starts no call and writes nothing off promises nothing anew.
LEMMA CallsGoOn ==
  ASSUME NotAgain, dead' \subseteq dead, \A d \in Drains : todo'[d] \subseteq todo[d],
         \A d \in Drains : calls'[d].stage # "idle"
           => calls[d].stage # "idle" /\ calls'[d].at = calls[d].at
  PROVE  NotAgain'
<1> SUFFICES ASSUME NEW d \in Drains
             PROVE  /\ todo'[d] \cap dead' = {}
                    /\ calls'[d].stage # "idle" => calls'[d].at \notin todo'[d]
  BY DEF NotAgain
<1>1. todo'[d] \subseteq todo[d] /\ todo[d] \cap dead = {}
  BY DEF NotAgain
<1> QED
  BY <1>1 DEF NotAgain

\* What one caller does to the calls of the others: nothing.
LEMMA OneCall ==
  ASSUME TypeOK, NEW c \in Callers
  PROVE  /\ HangUp(c) => \A d \in Callers :
              calls'[d].stage # "idle" => calls'[d] = calls[d]
         /\ \A s : Send(c, s) => \A d \in Callers \ {c} : calls'[d] = calls[d]
BY DEF TypeOK, HangUp, Send, Idle

LEMMA DeadStep == IInv /\ DeadStay /\ [Next]_vars => DeadStay'
<1> SUFFICES ASSUME IInv, DeadStay, [Next]_vars PROVE DeadStay'
  OBVIOUS
<1> USE DEF history, worldVars, tillVars
<1>0. TypeOK /\ row \in [Sales -> RowType] /\ dead \subseteq Sales
  BY DEF IInv, TypeOK
<1>1. CASE UNCHANGED <<row, sold, dead>>
  BY <1>1 DEF DeadStay, Over
<1>2. ASSUME NEW s \in Sales, NEW c \in Counters, Complete(c, s) PROVE DeadStay'
  <2>1. Written(s, Fresh) /\ s \notin dead' /\ sold \subseteq sold' /\ dead' \subseteq dead
    BY <1>2 DEF Complete, Written
  <2> QED
    BY <1>0, <2>1, RowWrites, WritesLeaveDead
<1>3. ASSUME NEW s \in Sales, QueueTransaction(s) PROVE DeadStay'
  <2>1. /\ Written(s, Fresh) /\ s \notin dead'
        /\ sold \subseteq sold' /\ dead' \subseteq dead
    BY <1>3 DEF QueueTransaction, Written, DeadStay
  <2> QED
    BY <1>0, <2>1, RowWrites, WritesLeaveDead
<1>4. ASSUME NEW s \in Sales, NEW c \in Counters, CompleteReads(c, s) PROVE DeadStay'
  <2>1. sold \subseteq sold' /\ dead' \subseteq dead
    BY <1>4 DEF CompleteReads
  <2>2. \/ row' = row
        \/ Written(s, MarkSynced(row[s])) \/ Written(s, MarkFailed(row[s]))
    BY <1>4 DEF CompleteReads
  <2> QED
    BY <1>0, <2>1, <2>2, WritesLeaveDead
<1>5. ASSUME NEW s \in Sales, VoidTransaction(s) PROVE DeadStay'
  <2>1. Written(s, MarkVoided(row[s])) /\ sold \subseteq sold' /\ dead' \subseteq dead
    BY <1>5 DEF VoidTransaction, Written
  <2> QED
    BY <1>0, <2>1, WritesLeaveDead
<1>6. ASSUME NEW s \in Sales, NEW d \in Drains, DrainReads(d, s) \/ DrainSetsMax(d, s)
      PROVE  DeadStay'
  <2>1. sold \subseteq sold' /\ dead' \subseteq dead
    BY <1>6 DEF DrainReads, DrainSetsMax
  <2>2. \E r \in {MarkSynced(row[s]), MarkConflict(row[s]), MarkFailed(row[s]),
                  SetMaxRetries(row[s])} : Written(s, r)
    BY <1>6 DEF DrainReads, DrainSetsMax
  <2> QED
    BY <1>0, <2>1, <2>2, WritesLeaveDead
<1>7. ASSUME NEW s \in Sales, NEW d \in Drains, DrainMarksFailed(d, s)
      PROVE  DeadStay'
  <2>0. s \in sold
    BY <1>7 DEF DrainMarksFailed, Callers, IInv, StoredBeforeSent
  <2>1. Written(s, MarkFailed(row[s])) /\ sold' = sold
    BY <1>7 DEF DrainMarksFailed
  <2>2. CASE dead' = dead
    BY <1>0, <2>1, <2>2, WritesLeaveDead
  <2>3. CASE dead' # dead
    <3>1. dead' = dead \cup {s} /\ row'[s].retry > MaxRetry
      BY <1>7, <2>3 DEF DrainMarksFailed
    <3>2. row' \in [Sales -> RowType]
      BY <1>0, <2>1, RowWrites, WrittenType
    <3>3. Over(row'[s])
      BY <3>1, <3>2, QueueAssumption DEF Over, RowType
    <3>4. \A t \in dead \ {s} : row'[t] = row[t]
      BY <1>0, <2>1 DEF Written
    <3> QED
      BY <2>0, <2>1, <3>1, <3>3, <3>4 DEF DeadStay, Over
  <2> QED
    BY <2>2, <2>3
<1>8. ASSUME NEW last \in Sales, CleanupSynced(last) PROVE DeadStay'
  BY <1>0, <1>8 DEF CleanupSynced, DeadStay, Over, Absent
<1>9. ASSUME NEW s \in Sales, ManagerWrites(s) PROVE DeadStay'
  <2>1. sold \subseteq sold' /\ dead' \subseteq dead
    BY <1>9 DEF ManagerWrites
  <2>2. \/ Written(s, Discarded(row[s]))
        \/ Written(s, ResetForRetry(row[s])) /\ s \notin dead'
    BY <1>9 DEF ManagerWrites
  <2>3. ResetForRetry(row[s]) \in RowType
    BY <1>0, RowWrites
  <2> QED
    BY <1>0, <2>1, <2>2, <2>3, WritesLeaveDead
<1>10. ASSUME NEW s \in Sales, BackoffElapses(s) PROVE DeadStay'
  BY <1>0, <1>10 DEF BackoffElapses, DeadStay, Over, RowType
<1>11. ASSUME NEW f \in Forcers, NEW s \in Sales, ForceReads(f, s) PROVE DeadStay'
  <2>1. /\ sold \subseteq sold' /\ dead' \subseteq dead
        /\ Written(s, MarkSynced(row[s])) \/ row' = row
    BY <1>11 DEF ForceReads
  <2> QED
    BY <1>0, <2>1, WritesLeaveDead
<1> QED
  BY <1>1, <1>2, <1>3, <1>4, <1>5, <1>6, <1>7, <1>8, <1>9, <1>10, <1>11
  DEF Next, vars, CounterStep, DrainStep, ForceStep, Answer, TimesOut, LateArrival,
      DrainSend, DrainUnauthorized, ForceBegin, DrainBegin, ManagerLooks, SignIn,
      SessionEnds, GoesOffline, ComesOnline, Crash

LEMMA AgainStep == OneDrain /\ IInv /\ DeadStay /\ NotAgain /\ [Next]_vars => NotAgain'
<1> SUFFICES ASSUME OneDrain, IInv, DeadStay, NotAgain, [Next]_vars PROVE NotAgain'
  OBVIOUS
<1> USE DEF history, worldVars, tillVars
<1>0. TypeOK /\ row \in [Sales -> RowType] /\ calls \in [Callers -> CallType]
        /\ todo \in [Drains -> SUBSET Sales]
  BY DEF IInv, TypeOK
<1>c. Counters \subseteq Callers /\ Drains \subseteq Callers /\ Forcers \subseteq Callers
  BY DEF Callers
<1>1. CASE UNCHANGED <<calls, todo, dead>>
  BY <1>1 DEF NotAgain
<1>2. ASSUME NEW c \in Callers, Answer(c) \/ TimesOut(c) PROVE NotAgain'
  <2>1. \A d \in Callers : calls'[d].stage # "idle"
          => calls[d].stage # "idle" /\ calls'[d].at = calls[d].at
    <3>1. /\ calls[c].stage = "sending"
          /\ \E a : calls' = [calls EXCEPT ![c].stage = "answered", ![c].reply = a]
      BY <1>2 DEF Answer, TimesOut
    <3> QED
      BY <1>0, <3>1
  <2> QED
    BY <1>2, <1>c, <2>1, CallsGoOn DEF Answer, TimesOut
<1>3. ASSUME NEW c \in Counters \cup Forcers, NEW s \in Sales,
             CounterStep(c, s) \/ ForceStep(c, s)
      PROVE  NotAgain'
  <2>1. \A d \in Drains : calls'[d] = calls[d]
    <3>1. c \in Callers /\ c \notin Drains /\ (Send(c, s) \/ HangUp(c))
      BY <1>3, <1>c, QueueAssumption DEF CounterStep, Complete, CompleteReads, ForceStep,
         ForceBegin, ForceReads
    <3> QED
      BY <1>0, <1>c, <3>1 DEF Send, HangUp
  <2>2. UNCHANGED todo /\ dead' \subseteq dead
    BY <1>3 DEF CounterStep, Complete, CompleteReads, ForceStep, ForceBegin, ForceReads
  <2> QED
    BY <2>1, <2>2, CallsGoOn
<1>4. ASSUME NEW d \in Drains, NEW s \in Sales, DrainSend(d, s) PROVE NotAgain'
  <2>1. /\ calls'[d].at = s /\ todo'[d] = todo[d] \ {s} /\ dead' = dead
        /\ \A e \in Drains : e = d
    BY <1>0, <1>4, <1>c DEF DrainSend, Send, Call, OneDrain
  <2> QED
    BY <2>1 DEF NotAgain
<1>5. ASSUME NEW d \in Drains, NEW s \in Sales, DrainUnauthorized(d, s) \/ DrainReads(d, s)
      PROVE  NotAgain'
  <2>1. HangUp(d) /\ dead' = dead /\ \A e \in Drains : todo'[e] \subseteq todo[e]
    BY <1>0, <1>5 DEF DrainUnauthorized, DrainReads
  <2> QED
    BY <1>0, <1>c, <2>1, OneCall, CallsGoOn
<1>6. ASSUME NEW d \in Drains, NEW s \in Sales, DrainSetsMax(d, s) PROVE NotAgain'
  <2>1. /\ calls[d].stage = "answered" /\ calls' = [calls EXCEPT ![d].stage = "marking"]
        /\ todo' = todo /\ dead' = dead
    BY <1>6 DEF DrainSetsMax, Reading
  <2>2. \A e \in Drains : calls'[e].stage # "idle"
          => calls[e].stage # "idle" /\ calls'[e].at = calls[e].at
    BY <1>0, <1>c, <2>1
  <2> QED
    BY <2>1, <2>2, CallsGoOn
<1>7. ASSUME NEW d \in Drains, NEW s \in Sales, DrainMarksFailed(d, s) PROVE NotAgain'
  <2>1. s \notin todo[d] /\ todo' = todo /\ dead' \subseteq dead \cup {s} /\ HangUp(d)
    BY <1>7 DEF DrainMarksFailed, NotAgain
  <2>2. \A e \in Drains : e = d
    BY DEF OneDrain
  <2>3. calls'[d].stage = "idle"
    BY <1>0, <1>c, <2>1 DEF HangUp, Idle
  <2> QED
    BY <2>1, <2>2, <2>3 DEF NotAgain
<1>8. ASSUME NEW d \in Drains, DrainBegin(d) PROVE NotAgain'
  <2>1. /\ todo'[d] = {t \in Snapshot : ShouldRetryNow(row[t])}
        /\ calls[d].stage = "idle" /\ calls' = calls /\ dead' = dead
    BY <1>0, <1>8 DEF DrainBegin
  <2>2. ASSUME NEW t \in todo'[d] PROVE t \notin dead
    <3>1. t \in Sales /\ row[t].st \in Waiting /\ row[t].retry < MaxRetry
      BY <2>1, <2>2 DEF Snapshot, PendingRows, ShouldRetryNow
    <3>2. ~Over(row[t])
      BY <1>0, <3>1, QueueAssumption DEF Over, Waiting, RowType
    <3> QED
      BY <3>2 DEF DeadStay
  <2>3. \A e \in Drains : e = d
    BY DEF OneDrain
  <2> QED
    BY <2>1, <2>2, <2>3 DEF NotAgain
<1>9. CASE Crash
  <2>1. \A d \in Drains : calls'[d].stage = "idle" /\ todo'[d] = {}
    BY <1>9, <1>c DEF Crash, Idle
  <2> QED
    BY <2>1 DEF NotAgain
<1>10. ASSUME NEW s \in Sales, ManagerWrites(s) PROVE NotAgain'
  BY <1>10, CallsGoOn DEF ManagerWrites
<1> QED
  BY <1>1, <1>2, <1>3, <1>4, <1>5, <1>6, <1>7, <1>8, <1>9, <1>10
  DEF Next, vars, DrainStep, LateArrival, QueueTransaction, VoidTransaction, CleanupSynced,
      BackoffElapses, ManagerLooks, SignIn, SessionEnds, GoesOffline, ComesOnline

LEMMA WrittenOffInit == Init => DeadStay /\ NotAgain
BY DEF Init, DeadStay, NotAgain, Idle, Callers

\* While one drain runs, for any number of sales, of other callers and of
\* faults: the drain never sends again, by itself, a sale it wrote off.
THEOREM WrittenOffStaysOff == OneDrain => (Spec => WrittenOffIsNotSent)
<1> DEFINE Off == \A d \in Drains, s \in Sales : DrainStartsOn(d, s) => s \notin dead
<1>1. IInv /\ NotAgain /\ [Next]_vars => [Off]_vars
  <2> SUFFICES ASSUME IInv, NotAgain, Next, NEW d \in Drains, NEW s \in Sales,
                      calls[d].stage = "idle", calls'[d].stage = "sending",
                      calls'[d].at = s
               PROVE  s \notin dead
    BY DEF DrainStartsOn
  <2> USE DEF history, worldVars, tillVars
  <2>1. /\ d \in Callers /\ d \notin Counters \cup Forcers
        /\ calls \in [Callers -> CallType]
    BY QueueAssumption DEF Callers, IInv, TypeOK
  <2>2. CASE Crash
    BY <2>1, <2>2 DEF Crash, Idle
  <2>3. ASSUME NEW t \in Sales, DrainSend(d, t) PROVE s \notin dead
    BY <2>1, <2>3 DEF DrainSend, Send, Call, NotAgain
  <2>4. ASSUME NEW t \in Sales,
               DrainUnauthorized(d, t) \/ DrainReads(d, t) \/ DrainSetsMax(d, t)
                 \/ DrainMarksFailed(d, t)
        PROVE  FALSE
    BY <2>1, <2>4 DEF DrainUnauthorized, DrainReads, DrainSetsMax, DrainMarksFailed, Reading
  <2>5. ASSUME NEW c \in Callers \ {d}, NEW t \in Sales,
               CounterStep(c, t) \/ DrainStep(c, t) \/ ForceStep(c, t)
        PROVE  FALSE
    BY <2>1, <2>5 DEF CounterStep, Complete, CompleteReads, DrainStep, DrainSend,
       DrainUnauthorized, DrainReads, DrainSetsMax, DrainMarksFailed, ForceStep, ForceBegin,
       ForceReads, Send, HangUp
  <2>6. ASSUME NEW c \in Callers, Answer(c) \/ TimesOut(c) PROVE FALSE
    <3>1. calls[c].stage = "sending" /\ (c # d => calls'[d] = calls[d])
      BY <2>1, <2>6 DEF Answer, TimesOut
    <3> QED
      BY <3>1
  <2>7. CASE UNCHANGED calls
    BY <2>7
  <2> QED
    BY <2>1, <2>2, <2>3, <2>4, <2>5, <2>6, <2>7
    DEF Next, Callers, DrainStep, LateArrival, QueueTransaction, VoidTransaction,
        CleanupSynced, ManagerWrites, BackoffElapses, DrainBegin, ManagerLooks, SignIn,
        SessionEnds, GoesOffline, ComesOnline
<1>2. ASSUME OneDrain PROVE Spec => WrittenOffIsNotSent
  <2>1. OneDrain /\ IInv /\ DeadStay /\ NotAgain /\ [Next]_vars => DeadStay' /\ NotAgain'
    BY DeadStep, AgainStep
  <2> QED
    BY <1>1, <1>2, <2>1, WrittenOffInit, Invariant, PTL DEF Spec, WrittenOffIsNotSent, Off
<1> QED
  BY <1>2
=============================================================================
