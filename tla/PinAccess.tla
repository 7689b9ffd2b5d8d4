----------------------------- MODULE PinAccess -----------------------------
(***************************************************************************)
(* A PIN at the keypad and the operator session it earns: verify_pin with  *)
(* its one renewal of the terminal session and its offline leg, the        *)
(* session on disk and in the client's header slot (OperatorSignIn), and   *)
(* the calls that present it and read its refusals (the queue's drains).   *)
(*                                                                         *)
(* A call is sent, judged by the platform and read in three steps, and may *)
(* be lost on either way; the disk and the slot are written in two.        *)
(***************************************************************************)
EXTENDS Integers, FiniteSets

CONSTANTS
  Jobs,         \* concurrent calls under the operator's session
  MaxAttempts,  \* PinPolicy.max_attempts
  MaxMinted,    \* bound on operator sessions, numbered as they are minted
  MaxSubmits,   \* bound on PINs entered
  MaxTroubles   \* bound on losses, unreadable answers, failed writes, platform
                \* decisions against the till or the operator, and restarts

ASSUME PinAssumption ==
  MaxAttempts \in Nat \ {0} /\ MaxMinted \in Nat /\ MaxSubmits \in Nat /\ MaxTroubles \in Nat

VARIABLES
  attempts,   \* platform: what is left of the operator's budget, 0 is locked
  standing,   \* platform: how this terminal stands
  lapsed,     \* platform: the terminal session the client presents has lapsed
  minted,     \* platform: operator sessions minted
  honoured,   \* platform: the ones not expired or revoked
  keypad,     \* the submission under way
  jobs,
  presented,  \* ApiClient.operator_token, 0 for none
  stored,     \* table operator_sessions, 0 for no row
  waking,     \* the till has not restored its session yet
  told,       \* the outcome of the last submission, and the answers it was read from
  submits, wrong, spent,  \* history: PINs entered, wrong ones, attempts spent on them
  pinHistory, \* history: sessions whose refusal was acted on, and what excuses the properties
  troubles

account  == <<attempts, standing, lapsed, minted, honoured>>
slots    == <<presented, stored, waking>>
tally    == <<told, submits, wrong, spent, pinHistory>>
pinVars  == <<account, keypad, jobs, slots, tally, troubles>>

Standings   == {"enrolled", "suspended", "withdrawn", "unprovisioned"}
Verdicts    == {"wrong", "locked", "inactive", "rotation", "accepted"}
Silent      == [what |-> "none", by |-> "nobody", heard |-> {}]
NoSubmit    == [at |-> "idle", leg |-> 1, right |-> FALSE, reply |-> "none",
                session |-> 0, heard |-> {}]
NoJob       == [at |-> "idle", session |-> 0, reply |-> "none"]

Keying(stage)   == keypad.at = stage
Keys(stage)     == keypad' = [keypad EXCEPT !.at = stage]
Trouble         == troubles < MaxTroubles /\ troubles' = troubles + 1
NoTrouble       == UNCHANGED troubles
Excusing(e)     == pinHistory' = [pinHistory EXCEPT !.excuses = @ \cup e]

\* The submission ends with an outcome: a verdict of the platform, of the till
\* itself (the offline leg), or none (Undetermined).
Concludes(what, by) ==
  /\ keypad' = NoSubmit
  /\ told' = [what |-> what, by |-> by, heard |-> keypad.heard]
  /\ UNCHANGED <<account, jobs, slots, submits, wrong, spent, pinHistory>>

-----------------------------------------------------------------------------
(* The platform, as the till's code reads it.                              *)

\* Lapsed is tested before standing, and both before the PIN.
TerminalRefusal ==
  IF lapsed THEN "lapsed" ELSE IF standing # "enrolled" THEN standing ELSE "none"

JudgePin ==
  /\ Keying("asked")
  /\ \/ /\ TerminalRefusal # "none"
        /\ keypad' = [keypad EXCEPT !.at = "answered", !.reply = TerminalRefusal]
        /\ UNCHANGED <<account, spent>>
     \/ /\ TerminalRefusal = "none" /\ attempts = 0
        /\ keypad' = [keypad EXCEPT !.at = "answered", !.reply = "locked"]
        /\ UNCHANGED <<account, spent>>
     \/ /\ TerminalRefusal = "none" /\ attempts > 0 /\ ~keypad.right
        /\ attempts' = attempts - 1 /\ spent' = spent + 1
        /\ keypad' = [keypad EXCEPT !.at = "answered", !.reply = IF attempts = 1 THEN "locked" ELSE "wrong"]
        /\ UNCHANGED <<standing, lapsed, minted, honoured>>
     \/ /\ TerminalRefusal = "none" /\ attempts > 0 /\ keypad.right
        /\ keypad' = [keypad EXCEPT !.at = "answered", !.reply = "rotation"]
        /\ UNCHANGED <<account, spent>>
     \/ /\ TerminalRefusal = "none" /\ attempts > 0 /\ keypad.right /\ minted < MaxMinted
        /\ minted' = minted + 1 /\ honoured' = honoured \cup {minted'} /\ attempts' = MaxAttempts
        /\ keypad' = [keypad EXCEPT !.at = "answered", !.reply = "accepted", !.session = minted']
        /\ UNCHANGED <<standing, lapsed, spent>>
  /\ UNCHANGED <<jobs, slots, told, submits, wrong, pinHistory>> /\ NoTrouble

\* A terminal that no longer stands is refused a renewal, perhaps as lapsed.
JudgeRenewal ==
  /\ Keying("renewing")
  /\ \E reply \in IF standing = "enrolled" THEN {"renewed"} ELSE {standing, "lapsed"} :
       keypad' = [keypad EXCEPT !.at = "renewed", !.reply = reply]
  /\ UNCHANGED <<account, jobs, slots, tally>> /\ NoTrouble

JudgeJob(j) ==
  LET s == jobs[j].session IN
  /\ jobs[j].at = "sent"
  /\ jobs' = [jobs EXCEPT ![j].at = "answered", ![j].reply =
       IF TerminalRefusal # "none" THEN "terminal"
       ELSE IF s = 0 THEN "required"
       ELSE IF s \notin honoured \/ attempts = 0 THEN "refused" ELSE "ok"]
  /\ UNCHANGED <<account, keypad, slots, tally>> /\ NoTrouble

PlatformDecides ==
  /\ \/ lapsed' = TRUE /\ UNCHANGED <<attempts, standing, honoured>>
     \/ standing' \in Standings /\ UNCHANGED <<attempts, lapsed, honoured>>
     \/ attempts' = 0 /\ UNCHANGED <<standing, lapsed, honoured>>      \* spent at another till
     \/ \E s \in honoured : honoured' = honoured \ {s} /\ UNCHANGED <<attempts, standing, lapsed>>
  /\ UNCHANGED <<minted, keypad, jobs, slots, tally>> /\ Trouble

-----------------------------------------------------------------------------
(* AuthService::verify_pin.                                                *)

Submit(right) ==
  /\ Keying("idle") /\ ~waking /\ submits < MaxSubmits
  /\ keypad' = [NoSubmit EXCEPT !.at = "asked", !.right = right]
  /\ submits' = submits + 1 /\ wrong' = wrong + (IF right THEN 0 ELSE 1)
  /\ UNCHANGED <<account, jobs, slots, told, spent, pinHistory>> /\ NoTrouble

\* verify_pin_offline knows the operator's row, and no credential.
VerifyOffline == \E what \in {"unknown", "inactive", "unreachable"} : Concludes(what, "till")

SlipAsksAgain ==
  /\ keypad.at \in {"asked", "answered"} /\ Keys("asked")
  /\ UNCHANGED <<account, jobs, slots, tally>> /\ Trouble

\* Nobody answered: the request was lost, or the answer to it.
Unreachable == keypad.at \in {"asked", "answered", "renewing", "renewed"} /\ VerifyOffline /\ Trouble

Unreadable ==
  keypad.at \in {"answered", "renewed"} /\ Concludes("breach", "nobody") /\ Trouble

Heard == keypad.heard \cup {keypad.reply}

\* What each refusal means, and a session that lapses again after its renewal.
OutcomeOf(reply) ==
  CASE reply \in {"suspended", "withdrawn"} -> [what |-> "disowned", by |-> "nobody"]
    [] reply = "unprovisioned" -> [what |-> "not provisioned", by |-> "nobody"]
    [] reply = "lapsed" -> [what |-> "not renewed", by |-> "nobody"]
    [] OTHER -> [what |-> reply, by |-> "platform"]

SlipRenewsAlways ==
  /\ Keying("answered") /\ NoTrouble
  /\ \/ /\ keypad.reply = "lapsed"
        /\ keypad' = [keypad EXCEPT !.at = "renewing", !.heard = Heard]
        /\ UNCHANGED <<account, jobs, slots, tally>>
     \/ /\ keypad.reply = "accepted" /\ Keys("recording")
        /\ UNCHANGED <<account, jobs, slots, tally>>
     \/ /\ keypad.reply \notin {"accepted", "lapsed"}
        /\ Concludes(OutcomeOf(keypad.reply).what, OutcomeOf(keypad.reply).by)

ReadVerdict ==
  /\ Keying("answered") /\ NoTrouble
  /\ \/ /\ keypad.reply = "lapsed" /\ keypad.leg = 1
        /\ keypad' = [keypad EXCEPT !.at = "renewing", !.heard = Heard]
        /\ UNCHANGED <<account, jobs, slots, tally>>
     \/ /\ keypad.reply = "accepted" /\ Keys("recording")
        /\ UNCHANGED <<account, jobs, slots, tally>>
     \/ /\ keypad.reply # "accepted" /\ ~(keypad.reply = "lapsed" /\ keypad.leg = 1)
        /\ Concludes(OutcomeOf(keypad.reply).what, OutcomeOf(keypad.reply).by)

SlipFallsBack ==
  /\ Keying("renewed") /\ NoTrouble
  /\ \/ /\ keypad.reply = "renewed" /\ lapsed' = FALSE
        /\ keypad' = [keypad EXCEPT !.at = "asked", !.leg = @ + 1]
        /\ UNCHANGED <<attempts, standing, minted, honoured, jobs, slots, tally>>
     \/ /\ keypad.reply # "renewed"
        /\ \E what \in {"unknown", "inactive", "unreachable"} :
             /\ keypad' = NoSubmit /\ told' = [what |-> what, by |-> "till", heard |-> Heard]
             /\ UNCHANGED <<account, jobs, slots, submits, wrong, spent, pinHistory>>

\* after_renewing_the_session: asked again, once; a refused renewal is final.
ReadRenewal ==
  /\ Keying("renewed") /\ NoTrouble
  /\ \/ /\ keypad.reply = "renewed" /\ lapsed' = FALSE
        /\ keypad' = [keypad EXCEPT !.at = "asked", !.leg = @ + 1, !.heard = Heard]
        /\ UNCHANGED <<attempts, standing, minted, honoured, jobs, slots, tally>>
     \/ /\ keypad.reply # "renewed"
        /\ Concludes(OutcomeOf(keypad.reply).what, OutcomeOf(keypad.reply).by)

-----------------------------------------------------------------------------
(* OperatorSignIn.                                                         *)

Discarding == \E j \in Jobs : jobs[j].at = "discarding"

\* record_and_present: the row - a failed write is only logged - then the slot.
Record ==
  /\ Keying("recording") /\ Keys("presenting")
  /\ \/ stored' = keypad.session /\ NoTrouble /\ Excusing(IF Discarding THEN {"crossed"} ELSE {})
     \/ Trouble /\ UNCHANGED stored /\ Excusing({"write failed"})
  /\ UNCHANGED <<account, jobs, presented, waking, told, submits, wrong, spent>>

Present ==
  /\ Keying("presenting") /\ presented' = keypad.session /\ keypad' = NoSubmit
  /\ told' = [what |-> "accepted", by |-> "platform", heard |-> Heard]
  /\ Excusing(IF Discarding THEN {"crossed"} ELSE {})
  /\ UNCHANGED <<account, jobs, stored, waking, submits, wrong, spent>> /\ NoTrouble

Send(j) ==
  /\ jobs[j].at = "idle" /\ ~waking
  /\ jobs' = [jobs EXCEPT ![j] = [NoJob EXCEPT !.at = "sent", !.session = presented]]
  /\ UNCHANGED <<account, keypad, slots, tally>> /\ NoTrouble

Lose(j) ==
  /\ jobs[j].at \in {"sent", "answered"} /\ jobs' = [jobs EXCEPT ![j] = NoJob]
  /\ UNCHANGED <<account, keypad, slots, tally>> /\ Trouble

SlipDiscardsAlways(reply) == reply \in {"refused", "required"}

\* discards_the_held_session: every refusal but NotPresented.
Discards(reply) == reply = "refused"

SlipKeepsTheSlot(j) ==
  /\ jobs[j].at = "answered" /\ Discards(jobs[j].reply)
  /\ jobs' = [jobs EXCEPT ![j].at = "discarding"]
  /\ pinHistory' = [refused |-> pinHistory.refused \cup {jobs[j].session}, excuses |-> pinHistory.excuses]
  /\ UNCHANGED <<account, keypad, slots, told, submits, wrong, spent>> /\ NoTrouble

\* sign_out, first the slot - whatever session it holds by now -
ClearSlot(j) ==
  /\ jobs[j].at = "answered" /\ Discards(jobs[j].reply) /\ presented' = 0
  /\ jobs' = [jobs EXCEPT ![j].at = "discarding"]
  /\ pinHistory' = [refused |-> pinHistory.refused \cup {jobs[j].session},
                    excuses |-> pinHistory.excuses \cup (IF Keying("presenting") THEN {"crossed"} ELSE {})]
  /\ UNCHANGED <<account, keypad, stored, waking, told, submits, wrong, spent>> /\ NoTrouble

SlipKeepsTheRow(j) ==
  /\ jobs[j].at = "discarding" /\ jobs' = [jobs EXCEPT ![j] = NoJob]
  /\ UNCHANGED <<account, keypad, slots, tally>> /\ NoTrouble

\* - then the row; a failed delete is only logged.
DeleteRow(j) ==
  /\ jobs[j].at = "discarding" /\ jobs' = [jobs EXCEPT ![j] = NoJob]
  /\ \/ stored' = 0 /\ NoTrouble /\ Excusing(IF Keying("presenting") THEN {"crossed"} ELSE {})
     \/ Trouble /\ UNCHANGED stored /\ Excusing({"delete failed"})
  /\ UNCHANGED <<account, keypad, presented, waking, told, submits, wrong, spent>>

ReadAnswer(j) ==
  /\ jobs[j].at = "answered" /\ ~Discards(jobs[j].reply) /\ jobs' = [jobs EXCEPT ![j] = NoJob]
  /\ UNCHANGED <<account, keypad, slots, tally>> /\ NoTrouble

Restart ==
  /\ Trouble /\ keypad' = NoSubmit /\ jobs' = [j \in Jobs |-> NoJob]
  /\ presented' = 0 /\ waking' = TRUE /\ told' = Silent
  /\ Excusing(IF Discarding THEN {"delete failed"} ELSE {})
  /\ UNCHANGED <<account, stored, submits, wrong, spent>>

\* restore, before anything is asked.
Restore ==
  /\ waking /\ waking' = FALSE /\ presented' = stored
  /\ UNCHANGED <<account, keypad, jobs, stored, tally>> /\ NoTrouble

PinInit ==
  /\ attempts = MaxAttempts /\ standing = "enrolled" /\ lapsed = FALSE /\ minted = 0 /\ honoured = {}
  /\ keypad = NoSubmit /\ jobs = [j \in Jobs |-> NoJob]
  /\ presented = 0 /\ stored = 0 /\ waking = TRUE
  /\ told = Silent /\ submits = 0 /\ wrong = 0 /\ spent = 0
  /\ pinHistory = [refused |-> {}, excuses |-> {}] /\ troubles = 0

Entry == (\E right \in BOOLEAN : Submit(right)) \/ Unreachable \/ Unreadable \/ ReadVerdict
         \/ ReadRenewal \/ Record \/ Present
Call(j) == Send(j) \/ JudgeJob(j) \/ Lose(j) \/ ClearSlot(j) \/ DeleteRow(j) \/ ReadAnswer(j)
PinNext == JudgePin \/ JudgeRenewal \/ PlatformDecides \/ Entry \/ (\E j \in Jobs : Call(j))
           \/ Restart \/ Restore

PinSpec == PinInit /\ [][PinNext]_pinVars

-----------------------------------------------------------------------------
\* Types; a renewal is followed by one more question, never by another renewal.
PinTypeOK ==
  /\ attempts \in 0..MaxAttempts /\ standing \in Standings /\ minted \in 0..MaxMinted
  /\ honoured \subseteq 1..minted /\ presented \in 0..minted /\ stored \in 0..minted
  /\ keypad.leg \in 1..2      \* asked at most twice
  /\ keypad.at \in {"idle", "asked", "answered", "renewing", "renewed", "recording", "presenting"}
  /\ \A j \in Jobs : jobs[j].at \in {"idle", "sent", "answered", "discarding"}
                     /\ jobs[j].session \in 0..minted

\* A PIN entered once is charged at most once, and only when it was wrong,
\* through renewals, lost answers and restarts.
EachPinChargedOnce == spent <= wrong

\* Once the platform has answered about the terminal or the PIN, the till does
\* not decide for itself: the offline leg follows silence, not a refusal.
RefusalIsFinal == told.by = "till" => told.heard \subseteq {"lapsed", "renewed"}

\* A session whose refusal was acted on is not presented again, unless its row
\* outlived it: the delete failed, or the till died before it.
RefusedIsNotPresented ==
  presented \in pinHistory.refused => pinHistory.excuses \cap {"delete failed", "crossed"} # {}

\* What is presented is what a restart would present, unless a write failed or
\* a sign-in crossed a sign-out.
SlotAndRowAgree ==
  ~waking /\ ~Discarding /\ ~Keying("presenting") /\ pinHistory.excuses = {} => presented = stored

LateRefusal(j) ==
  jobs[j].at = "answered" /\ jobs'[j].at = "discarding" /\ jobs[j].session \notin {0, presented}

SlotIsEmptied == presented \in honoured /\ attempts > 0 /\ presented' = 0

\* A session the platform honours leaves the slot only at a restart, or for the
\* late refusal of an older one.
HonouredIsKept == [][SlotIsEmptied => waking' \/ \E j \in Jobs : LateRefusal(j)]_pinVars

\* No more entries were charged than were wrong, and the till judges for itself
\* only after silence about the PIN.
PinIsJudged == PinTypeOK /\ EachPinChargedOnce /\ RefusalIsFinal

\* The operator session in the client's slot and the one in its row are one, once
\* no write of theirs has failed or crossed another; and a session that was seen
\* refused is not presented, but for a delete that failed, was not reached before
\* the till stopped, or crossed a sign-in.
SessionsAgree == RefusedIsNotPresented /\ SlotAndRowAgree
=============================================================================
