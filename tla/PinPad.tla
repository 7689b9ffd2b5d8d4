------------------------------- MODULE PinPad -------------------------------
(***************************************************************************)
(* One operator's PIN entry, from the first key to what the screen shows:  *)
(* the keypad and its buffer under the length rule the till carries, the   *)
(* PIN sent, the platform's ruling with its code and its figures, the      *)
(* reading of both (RefusalDetails, refused_by_platform), the notice and   *)
(* the way back it offers.                                                 *)
(*                                                                         *)
(* The phase PinEntry is where Init starts, as the tests build it: nothing *)
(* constructs it in production yet.  How the terminal's own session is     *)
(* renewed on the way is module PinAccess.                                 *)
(***************************************************************************)
EXTENDS Integers, Sequences

CONSTANTS
  Digits,      \* Digit: 0 to 9
  PinLengths,  \* PinLength: 4, 5 and 6
  Tries,       \* PinPolicy.max_attempts
  MaxKeys,     \* bound on keys pressed in one entry
  MaxEntries,  \* bound on PINs sent
  MaxHitches    \* bound on lost and garbled answers and on what others change meanwhile

ASSUME PadAssumption ==
  /\ PinLengths \subseteq Nat \ {0}
  /\ \E n \in PinLengths : \A m \in PinLengths : m <= n
  /\ \E n \in PinLengths : \A m \in PinLengths : n <= m
  /\ Tries \in Nat \ {0} /\ {MaxKeys, MaxEntries, MaxHitches} \subseteq Nat

VARIABLES
  carried,   \* PinEntry.policy.length, from the login
  screen,    \* PinEntry.standing, and what it shows
  typed,     \* EnteredDigits
  sent,      \* the PIN of VerifyPin
  reply,     \* the platform's answer on the wire
  rule,      \* platform: the length it requires now
  secret,    \* platform: the operator's PIN, minted under some rule
  left,      \* platform: attempts left, 0 is locked
  active,    \* platform: the operator is
  row,       \* the till's row of the operator
  keyed,     \* history: the keys pressed, whether or not the pad took them
  ruling,    \* history: what the platform found in the PIN last sent
  entries, hitches

world   == <<rule, secret, left, active>>
padVars == <<carried, screen, typed, sent, reply, world, row, keyed, ruling, entries, hitches>>

Longest  == CHOOSE n \in PinLengths : \A m \in PinLengths : m <= n
Shortest == CHOOSE n \in PinLengths : \A m \in PinLengths : n <= m
Pins     == UNION {[1..n -> Digits] : n \in PinLengths}

AnyLength   == 0        \* RequiredPinLength::AnyPlatformLength
WireLengths == {AnyLength, Longest + 1} \cup PinLengths
NoFigure    == -1       \* `details` that did not arrive, or did not parse
NoReply     == [code |-> "none", figure |-> NoFigure]
NoRuling    == [on |-> "nothing", keyed |-> <<>>, left |-> Tries]

Hitch == hitches < MaxHitches /\ hitches' = hitches + 1
Quiet == UNCHANGED hitches

Plain(at)           == [at |-> at, offer |-> "none", figure |-> NoFigure]
Notice(at, o, n)    == [at |-> at, offer |-> o, figure |-> n]

\* TerminalPinPolicy::assemble and RequiredPinLength::read: a length that is no
\* PinLength makes no policy, and without a policy there is no PIN entry.
Assembles(wire) == wire = AnyLength \/ wire \in PinLengths

-----------------------------------------------------------------------------
(* The pad.                                                                *)

SlipCapsShort(required) == IF required = AnyLength THEN Shortest ELSE required

\* capacity_and_minimum.
Capacity(required) == IF required = AnyLength THEN Longest ELSE required
Minimum(required)  == IF required = AnyLength THEN Shortest ELSE required

\* The keypad at capacity, and EnteredDigits::push, ignore a press.
PressDigit(d) ==
  /\ screen.at = "entering" /\ Len(keyed) < MaxKeys
  /\ keyed' = Append(keyed, d)
  /\ typed' = IF Len(typed) < Capacity(carried) /\ Len(typed) < Longest THEN Append(typed, d) ELSE typed
  /\ UNCHANGED <<carried, screen, sent, reply, world, row, ruling, entries>> /\ Quiet

\* A correction is made looking at the dots: what counts as keyed is what they show.
Backspace ==
  /\ screen.at = "entering" /\ typed # <<>>
  /\ typed' = SubSeq(typed, 1, Len(typed) - 1) /\ keyed' = typed'
  /\ UNCHANGED <<carried, screen, sent, reply, world, row, ruling, entries>> /\ Quiet

ClearEntry ==
  /\ screen.at = "entering" /\ typed # <<>> /\ typed' = <<>> /\ keyed' = <<>>
  /\ UNCHANGED <<carried, screen, sent, reply, world, row, ruling, entries>> /\ Quiet

\* The button opens at the minimum; EnteredDigits::finish parses a PIN.
SubmitPin ==
  /\ screen.at = "entering" /\ Len(typed) >= Minimum(carried) /\ typed \in Pins
  /\ entries < MaxEntries /\ entries' = entries + 1
  /\ screen' = Plain("verifying") /\ sent' = typed /\ typed' = <<>>
  /\ reply' = NoReply /\ ruling' = NoRuling
  /\ UNCHANGED <<carried, world, row, keyed>> /\ Quiet

-----------------------------------------------------------------------------
(* The platform, as the till's code describes it.                          *)

\* The details of a ruling arrive, or do not.
Answers(code, figure) ==
  \/ reply' = [code |-> code, figure |-> figure] /\ Quiet
  \/ figure # NoFigure /\ reply' = [code |-> code, figure |-> NoFigure] /\ Hitch

Rules(on) == ruling' = [on |-> on, keyed |-> keyed, left |-> left']

\* verify_operator_pin at the platform: the operator, the lock, the PIN, its length.
JudgeEntry ==
  /\ screen.at = "verifying" /\ reply = NoReply
  /\ \/ /\ ~active /\ UNCHANGED left /\ Rules("operator")
        /\ \E code \in {"inactive", "not found"} : Answers(code, NoFigure)
     \/ /\ active /\ left = 0 /\ UNCHANGED left /\ Rules("lock") /\ Answers("locked", NoFigure)
     \/ /\ active /\ left > 0 /\ sent # secret
        /\ left' = left - 1 /\ Rules("wrong")
        /\ \/ left' = 0 /\ Answers("locked", NoFigure)
           \/ Answers("invalid", left')     \* with 0: the partition contradicted
     \/ /\ active /\ left > 0 /\ sent = secret /\ rule \in {AnyLength, Len(secret)}
        /\ left' = Tries /\ Rules("right") /\ Answers("accepted", NoFigure)
     \/ /\ active /\ left > 0 /\ sent = secret /\ rule \notin {AnyLength, Len(secret)}
        /\ UNCHANGED left /\ Rules("right") /\ Answers("rotation", rule)
  /\ UNCHANGED <<carried, screen, typed, sent, rule, secret, active, row, keyed, entries>>

\* Refused before the PIN is looked at: the terminal's standing.
RefuseTerminal ==
  /\ screen.at = "verifying" /\ reply = NoReply
  /\ reply' = [NoReply EXCEPT !.code = "terminal"]
  /\ UNCHANGED <<carried, screen, typed, sent, world, row, keyed, ruling, entries>> /\ Hitch

OthersDecide ==
  /\ \/ rule' \in WireLengths /\ UNCHANGED <<left, active>>
     \/ left' = 0 /\ UNCHANGED <<rule, active>>       \* spent at another till
     \/ active' = FALSE /\ UNCHANGED <<rule, left>>
  /\ UNCHANGED <<carried, screen, typed, sent, reply, secret, row, keyed, ruling, entries>> /\ Hitch

-----------------------------------------------------------------------------
(* Reading the answer.                                                     *)

\* RefusalDetails::read: a figure is read beside the code that carries it, and
\* one that is not a count or a PinLength is a breach - except a count of none.
Details(code, figure) ==
  CASE code = "invalid" /\ figure = 0 -> [kind |-> "exhausted", figure |-> NoFigure]
    [] code = "invalid" /\ figure > 0 -> [kind |-> "count", figure |-> figure]
    [] code = "rotation" /\ figure \in PinLengths -> [kind |-> "length", figure |-> figure]
    [] OTHER -> [kind |-> "none", figure |-> NoFigure]

SlipCountsNone(code, d) ==
  CASE code = "invalid" -> [what |-> "wrong", figure |-> d.figure]
    [] code = "locked" -> [what |-> "locked", figure |-> NoFigure]
    [] code \in {"inactive", "not found", "terminal"} -> [what |-> code, figure |-> NoFigure]
    [] code = "rotation" /\ d.kind = "length" -> [what |-> "rotation", figure |-> d.figure]
    [] OTHER -> [what |-> "breach", figure |-> NoFigure]

\* refused_by_platform: a code without the figure it needs is no refusal.
Refusal(code, d) ==
  CASE code = "invalid" /\ d.kind = "count" -> [what |-> "wrong", figure |-> d.figure]
    [] code = "locked" \/ (code = "invalid" /\ d.kind = "exhausted") -> [what |-> "locked", figure |-> NoFigure]
    [] code \in {"inactive", "not found", "terminal"} -> [what |-> code, figure |-> NoFigure]
    [] code = "rotation" /\ d.kind = "length" -> [what |-> "rotation", figure |-> d.figure]
    [] OTHER -> [what |-> "breach", figure |-> NoFigure]

SlipOffersAlways(what, figure) ==
  CASE what \in {"wrong", "locked"} -> Notice("refused", "at cost", figure)
    [] what = "rotation" -> Notice("refused", "free", figure)
    [] what \in {"inactive", "not found"} -> Notice("refused", "withheld", NoFigure)
    [] what = "unreachable" -> Notice("undecided", "worth retrying", NoFigure)
    [] OTHER -> Notice("undecided", "futile", NoFigure)

\* RefusalNotice::for_refusal and UndecidedNotice::for_cause.
NoticeOf(what, figure) ==
  CASE what = "wrong" -> Notice("refused", "at cost", figure)
    [] what = "rotation" -> Notice("refused", "free", figure)
    [] what \in {"locked", "inactive", "not found"} -> Notice("refused", "withheld", NoFigure)
    [] what = "unreachable" -> Notice("undecided", "worth retrying", NoFigure)
    [] OTHER -> Notice("undecided", "futile", NoFigure)

Shows(notice) ==
  /\ screen' = notice /\ reply' = NoReply /\ sent' = <<>>
  /\ UNCHANGED <<carried, typed, world, row, keyed, ruling, entries>>

\* advance, with the answer of the enquiry in flight.
ReadReply ==
  /\ screen.at = "verifying" /\ reply # NoReply /\ Quiet
  /\ IF reply.code = "accepted" THEN Shows(Plain("signed in"))
     ELSE LET r == Refusal(reply.code, Details(reply.code, reply.figure)) IN
          Shows(NoticeOf(r.what, r.figure))

\* The request or its answer was lost: the till's row says what it can.
Unanswered ==
  /\ screen.at = "verifying" /\ Hitch
  /\ Shows(NoticeOf(CASE row = "absent" -> "not found" [] row = "inactive" -> "inactive"
                      [] OTHER -> "unreachable", NoFigure))

Garbled ==
  /\ screen.at = "verifying" /\ reply # NoReply /\ Hitch /\ Shows(NoticeOf("breach", NoFigure))

SlipKeepsTheDigits ==
  /\ screen.offer \in {"at cost", "free", "worth retrying"}
  /\ screen' = Plain("entering") /\ typed' = SubSeq(keyed, 1, 1) /\ keyed' = <<>>
  /\ UNCHANGED <<carried, sent, reply, world, row, ruling, entries>> /\ Quiet

\* Intent::Retry, drawn where it can help: an empty buffer.
RetryEntry ==
  /\ screen.offer \in {"at cost", "free", "worth retrying"}
  /\ screen' = Plain("entering") /\ typed' = <<>> /\ keyed' = <<>>
  /\ UNCHANGED <<carried, sent, reply, world, row, ruling, entries>> /\ Quiet

PadInit ==
  /\ carried \in {w \in WireLengths : Assembles(w)}
  /\ screen = Plain("entering") /\ typed = <<>> /\ sent = <<>> /\ reply = NoReply
  /\ rule = carried /\ secret \in Pins /\ left = Tries /\ active = TRUE
  /\ row \in {"active", "inactive", "absent"}
  /\ keyed = <<>> /\ ruling = NoRuling /\ entries = 0 /\ hitches = 0

Typing   == (\E d \in Digits : PressDigit(d)) \/ Backspace \/ ClearEntry \/ SubmitPin
Learning == ReadReply \/ Unanswered \/ Garbled
PadNext  == Typing \/ JudgeEntry \/ RefuseTerminal \/ OthersDecide \/ Learning \/ RetryEntry

PadSpec == PadInit /\ [][PadNext]_padVars

-----------------------------------------------------------------------------
\* A count is shown only for a PIN the platform found wrong and charged, and it
\* is the count it keeps.
CountIsThePlatforms ==
  screen.offer = "at cost" => ruling.on = "wrong" /\ ruling.left > 0 /\ screen.figure = ruling.left

\* The required length is shown only to somebody who has just proved the PIN.
LengthIsEarned == screen.offer = "free" => ruling.on = "right" /\ screen.figure \in PinLengths

\* The pad is withheld only when no PIN could be accepted: the operator locked
\* or gone at the platform, or not in the till's own table.
DeadEndIsReal ==
  screen.offer = "withheld" => row # "active" \/ ruling.left = 0 \/ ruling.on = "operator"

\* Somebody who presses the keys of the right PIN is not charged for a wrong
\* one, unless the till carries an exact length and the PIN is of another.
RightPinNotCharged ==
  ruling.on = "wrong" /\ ruling.keyed = secret => carried \notin {AnyLength, Len(secret)}

\* What PIN entry says of a PIN is what became of it.
PadIsHonest == CountIsThePlatforms /\ LengthIsEarned /\ DeadEndIsReal /\ RightPinNotCharged
=============================================================================
