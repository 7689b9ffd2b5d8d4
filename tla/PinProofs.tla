----------------------------- MODULE PinProofs -----------------------------
(* PINs: what the pad shows, for every set of lengths, every budget and       *)
(* every number of entries; and PINs judged, operator sessions presented and  *)
(* refused, for any number of calls, attempts, sessions and losses.           *)
EXTENDS PinAccess, PinPad, SequenceTheorems, TLAPS

-----------------------------------------------------------------------------
(* The pad (PinPad).                                                       *)

\* The digits the pad kept are the keys pressed, or the first of them, up to
\* the pad's capacity.
Kept(digits) ==
  /\ Len(digits) <= Capacity(carried)
  /\ digits = keyed \/ (Len(digits) = Capacity(carried) /\ Len(keyed) > Len(digits))

\* An answer on the wire agrees with what the platform found.
ReplyFits ==
  /\ reply.code = "invalid" => ruling.on = "wrong" /\ reply.figure \in {NoFigure, ruling.left}
  /\ reply.code = "locked" => ruling.left = 0
  /\ reply.code \in {"inactive", "not found"} => ruling.on = "operator"
  /\ reply.code = "rotation" => ruling.on = "right"

PadShape ==
  /\ carried \in {AnyLength} \cup PinLengths
  /\ typed \in Seq(Digits) /\ keyed \in Seq(Digits) /\ sent \in Seq(Digits)
  /\ secret \in Pins /\ left \in Nat
  /\ ruling.left \in Nat
  /\ screen.at \in {"entering", "verifying", "signed in"} => screen.offer = "none"

\* The inductive invariant: PadIsHonest says nothing of the buffer, of the PIN
\* sent or of an answer not yet read, on which the next screen depends.
PadInv ==
  /\ PadShape /\ ReplyFits /\ PadIsHonest
  /\ screen.at = "entering" => Kept(typed)
  /\ screen.at = "verifying" => Kept(sent)

\* The longest and the shortest PIN length bound the others, and the pad's
\* capacity is a PIN length.
LEMMA Lengths ==
  /\ Longest \in PinLengths /\ \A m \in PinLengths : m <= Longest
  /\ Shortest \in PinLengths /\ \A m \in PinLengths : Shortest <= m
  /\ \A r \in {AnyLength} \cup PinLengths : Capacity(r) \in PinLengths
  /\ PinLengths \subseteq Nat \ {0}
<1>1. PinLengths \subseteq Nat \ {0}
  BY PadAssumption DEF PadAssumption
<1>2. Longest \in PinLengths /\ \A m \in PinLengths : m <= Longest
  BY PadAssumption DEF PadAssumption, Longest
<1>3. Shortest \in PinLengths /\ \A m \in PinLengths : Shortest <= m
  BY PadAssumption DEF PadAssumption, Shortest
<1> QED BY <1>1, <1>2, <1>3 DEF Capacity

\* An empty buffer is a sequence of digits.
LEMMA NoDigits == <<>> \in Seq(Digits)
  OBVIOUS

\* A PIN is a sequence of digits whose length is one of the PIN lengths.
LEMMA PinsAreSequences ==
  ASSUME NEW p \in Pins
  PROVE  p \in Seq(Digits) /\ Len(p) \in PinLengths
<1>1. PICK n \in PinLengths : p \in [1..n -> Digits]
  BY DEF Pins
<1> QED BY <1>1, Lengths

\* What the till makes of an answer.
Outcome(code, figure) == Refusal(code, Details(code, figure))

\* The figure of a refusal is the one its code carries, if it parsed.
LEMMA Read ==
  ASSUME NEW code, NEW figure, code = "invalid" => figure \in Int
  PROVE  /\ Outcome(code, figure).what = "wrong" =>
              code = "invalid" /\ figure > 0 /\ Outcome(code, figure).figure = figure
         /\ Outcome(code, figure).what = "rotation" =>
              code = "rotation" /\ Outcome(code, figure).figure \in PinLengths
         /\ Outcome(code, figure).what = "locked" =>
              code = "locked" \/ (code = "invalid" /\ figure = 0)
         /\ Outcome(code, figure).what \in {"inactive", "not found"} =>
              Outcome(code, figure).what = code
<1> DEFINE d == Details(code, figure)
           r == Refusal(code, d)
<1>0. Outcome(code, figure) = r
  BY DEF Outcome
<1> HIDE DEF r
<1>1. CASE code = "invalid" /\ figure > 0
  <2>1. d.kind = "count" /\ d.figure = figure
    BY <1>1 DEF Details
  <2>2. r = [what |-> "wrong", figure |-> figure]
    BY <1>1, <2>1 DEF Refusal, r
  <2> QED BY <1>0, <1>1, <2>2
<1>2. CASE code = "invalid" /\ figure = 0
  <2>1. d.kind = "exhausted"
    BY <1>2 DEF Details
  <2>2. r.what = "locked"
    BY <1>2, <2>1 DEF Refusal, r
  <2> QED BY <1>0, <1>2, <2>2
<1>3. CASE code = "rotation" /\ figure \in PinLengths
  <2>1. d.kind = "length" /\ d.figure = figure
    BY <1>3 DEF Details
  <2>2. r = [what |-> "rotation", figure |-> figure]
    BY <1>3, <2>1 DEF Refusal, r
  <2> QED BY <1>0, <1>3, <2>2
<1>4. CASE /\ ~(code = "invalid" /\ figure > 0) /\ ~(code = "invalid" /\ figure = 0)
           /\ ~(code = "rotation" /\ figure \in PinLengths)
  <2>1. d.kind = "none"
    BY <1>4 DEF Details
  <2>2. r.what = "locked" => code = "locked"
    BY <2>1 DEF Refusal, r
  <2>3. r.what # "wrong" /\ r.what # "rotation"
    BY <2>1 DEF Refusal, r
  <2>4. r.what \in {"inactive", "not found"} => r.what = code
    BY <2>1 DEF Refusal, r
  <2> QED BY <1>0, <2>2, <2>3, <2>4
<1> QED BY <1>1, <1>2, <1>3, <1>4

\* What a notice offers.
LEMMA Offers ==
  ASSUME NEW what, NEW figure
  PROVE  /\ NoticeOf(what, figure).at \in {"refused", "undecided"}
         /\ NoticeOf(what, figure).offer = "at cost" =>
              what = "wrong" /\ NoticeOf(what, figure).figure = figure
         /\ NoticeOf(what, figure).offer = "free" =>
              what = "rotation" /\ NoticeOf(what, figure).figure = figure
         /\ NoticeOf(what, figure).offer = "withheld" => what \in {"locked", "inactive", "not found"}
<1>1. CASE what = "wrong"
  BY <1>1 DEF NoticeOf, Notice
<1>2. CASE what = "rotation"
  BY <1>2 DEF NoticeOf, Notice
<1>3. CASE what \in {"locked", "inactive", "not found"}
  BY <1>3 DEF NoticeOf, Notice
<1>4. CASE what = "unreachable"
  BY <1>4 DEF NoticeOf, Notice
<1>5. CASE what \notin {"wrong", "rotation", "locked", "inactive", "not found", "unreachable"}
  BY <1>5 DEF NoticeOf, Notice
<1> QED BY <1>1, <1>2, <1>3, <1>4, <1>5

-----------------------------------------------------------------------------
\* The capacity of the pad is a length the platform takes.
LEMMA CapacityFits ==
  ASSUME PadShape
  PROVE  /\ Capacity(carried) \in Nat /\ Longest \in Nat /\ Capacity(carried) <= Longest
         /\ typed \in Seq(Digits) /\ keyed \in Seq(Digits) /\ sent \in Seq(Digits)
<1>1. Capacity(carried) \in PinLengths
  BY Lengths DEF PadShape
<1> QED BY <1>1, Lengths DEF PadShape

\* The pad keeps the keys pressed, until it is full.
LEMMA PressKeeps ==
  ASSUME PadShape, Kept(typed), NEW d \in Digits, PressDigit(d)
  PROVE  typed' \in Seq(Digits) /\ keyed' \in Seq(Digits) /\ Kept(typed)'
<1>1. /\ Capacity(carried) \in Nat /\ Longest \in Nat /\ Capacity(carried) <= Longest
      /\ typed \in Seq(Digits) /\ keyed \in Seq(Digits)
  BY CapacityFits
<1>2. keyed' = Append(keyed, d) /\ carried' = carried
  BY DEF PressDigit
<1>3. keyed' \in Seq(Digits) /\ Len(keyed') = Len(keyed) + 1
  BY <1>1, <1>2
<1>4. CASE Len(typed) < Capacity(carried)
  <2>1. typed = keyed
    BY <1>1, <1>4 DEF Kept
  <2>2. typed' = Append(typed, d)
    BY <1>1, <1>4 DEF PressDigit
  <2>3. typed' = keyed' /\ Len(typed') <= Capacity(carried)
    BY <2>1, <2>2, <1>1, <1>2, <1>4
  <2> QED BY <2>3, <1>2, <1>3 DEF Kept, Capacity
<1>5. CASE ~(Len(typed) < Capacity(carried))
  <2>1. typed' = typed
    BY <1>1, <1>5 DEF PressDigit
  <2>2. Len(typed) = Capacity(carried) /\ Len(keyed) >= Len(typed)
    BY <1>1, <1>5 DEF Kept
  <2>3. Len(keyed') > Len(typed')
    BY <2>1, <2>2, <1>3, <1>1
  <2> QED BY <2>1, <2>2, <2>3, <1>2, <1>3, <1>1 DEF Kept, Capacity
<1> QED BY <1>4, <1>5

\* A shorter entry is kept as it is.
LEMMA CorrectionKeeps ==
  ASSUME PadShape, Kept(typed), Backspace
  PROVE  typed' \in Seq(Digits) /\ keyed' = typed' /\ Kept(typed)'
<1>1. Capacity(carried) \in Nat /\ typed \in Seq(Digits)
  BY CapacityFits
<1>2. typed' = SubSeq(typed, 1, Len(typed) - 1) /\ keyed' = typed' /\ carried' = carried /\ typed # <<>>
  BY DEF Backspace
<1>3. Len(typed) \in Nat /\ Len(typed) > 0
  BY <1>1, <1>2
<1>4. typed' \in Seq(Digits) /\ Len(typed') = Len(typed) - 1
  <2>1. \A i \in 1..(Len(typed) - 1) : typed[i] \in Digits
    BY <1>1, <1>3
  <2>2. /\ SubSeq(typed, 1, Len(typed) - 1) \in Seq(Digits)
        /\ Len(SubSeq(typed, 1, Len(typed) - 1)) =
             IF 1 <= Len(typed) - 1 THEN Len(typed) - 1 - 1 + 1 ELSE 0
    BY <1>3, <2>1, SubSeqProperties
  <2>3. /\ typed' \in Seq(Digits)
        /\ Len(typed') = IF 1 <= Len(typed) - 1 THEN Len(typed) - 1 - 1 + 1 ELSE 0
    BY <1>2, <2>2, Zenon
  <2> DEFINE n == Len(typed)
             m == Len(typed')
  <2>4. n \in Nat /\ n > 0 /\ m = IF 1 <= n - 1 THEN n - 1 - 1 + 1 ELSE 0
    BY <1>3, <2>3
  <2> HIDE DEF n, m
  <2>5. m = n - 1
    BY <2>4
  <2> QED BY <2>3, <2>5 DEF n, m
<1>5. Len(typed') <= Capacity(carried)
  BY <1>1, <1>3, <1>4 DEF Kept
<1> QED BY <1>2, <1>4, <1>5 DEF Kept, Capacity

\* An empty entry.
LEMMA EmptyKeeps ==
  ASSUME PadShape, typed' = <<>>, keyed' = <<>>, carried' = carried
  PROVE  typed' \in Seq(Digits) /\ keyed' \in Seq(Digits) /\ Kept(typed)'
<1>1. Capacity(carried) \in Nat
  BY CapacityFits
<1>2. Len(<<>>) = 0 /\ <<>> \in Seq(Digits)
  OBVIOUS
<1> QED BY <1>1, <1>2 DEF Kept, Capacity

\* A PIN found wrong although its keys were pressed was longer than the pad.
LEMMA WrongAsKeyed ==
  ASSUME PadShape, Kept(sent), sent # secret, keyed = secret
  PROVE  carried \notin {AnyLength, Len(secret)}
<1>1. Len(sent) = Capacity(carried) /\ Len(secret) > Capacity(carried)
  BY DEF Kept
<1>2. Len(secret) \in PinLengths /\ Len(secret) <= Longest
  BY PinsAreSequences, Lengths DEF PadShape
<1>3. Longest \in Nat /\ Len(secret) \in Nat /\ Len(secret) # 0
  BY <1>2, Lengths
<1>4. CASE carried = AnyLength
  <2>1. Capacity(carried) = Longest
    BY <1>4 DEF Capacity
  <2> QED BY <1>1, <1>2, <1>3, <2>1
<1>5. CASE carried = Len(secret) /\ carried # AnyLength
  <2>1. Capacity(carried) = Len(secret)
    BY <1>5 DEF Capacity
  <2> QED BY <1>1, <1>3, <2>1
<1> QED BY <1>4, <1>5

-----------------------------------------------------------------------------
\* Nothing is shown, and nothing is typed, when PIN entry opens.
LEMMA PadInitInv == PadInit => PadInv
<1> SUFFICES ASSUME PadInit PROVE PadInv
  OBVIOUS
<1>1. carried \in {AnyLength} \cup PinLengths
  BY DEF PadInit, Assembles, WireLengths
<1>2. <<>> \in Seq(Digits) /\ Len(<<>>) = 0
  OBVIOUS
<1>3. Tries \in Nat
  BY PadAssumption DEF PadAssumption
<1>4. PadShape
  BY <1>1, <1>2, <1>3 DEF PadInit, PadShape, NoRuling, Plain
<1>5. ReplyFits
  BY DEF PadInit, ReplyFits, NoReply
<1>6. PadIsHonest
  BY DEF PadInit, PadIsHonest, CountIsThePlatforms, LengthIsEarned, DeadEndIsReal,
         RightPinNotCharged, NoRuling, Plain
<1>7. Kept(typed)
  BY <1>2, <1>4, CapacityFits DEF PadInit, Kept
<1>8. screen.at = "entering"
  BY DEF PadInit, Plain
<1> QED BY <1>4, <1>5, <1>6, <1>7, <1>8 DEF PadInv

\* While digits are typed, what was found and what is on the wire stand.
LEMMA TypingInv ==
  ASSUME PadInv, Typing
  PROVE  PadInv'
<1> USE DEF PadInv
<1>1. ASSUME NEW d \in Digits, PressDigit(d) PROVE PadInv'
  <2>1. typed' \in Seq(Digits) /\ keyed' \in Seq(Digits) /\ Kept(typed)'
    BY <1>1, PressKeeps DEF PressDigit
  <2>2. UNCHANGED <<carried, screen, sent, reply, world, row, ruling>> /\ screen.at = "entering"
    BY <1>1 DEF PressDigit
  <2>3. PadShape' /\ ReplyFits' /\ PadIsHonest'
    BY <2>1, <2>2 DEF PadShape, ReplyFits, PadIsHonest, CountIsThePlatforms, LengthIsEarned,
                      DeadEndIsReal, RightPinNotCharged, world, Pins
  <2> QED BY <2>1, <2>2, <2>3
<1>2. ASSUME Backspace PROVE PadInv'
  <2>1. typed' \in Seq(Digits) /\ keyed' \in Seq(Digits) /\ Kept(typed)'
    BY <1>2, CorrectionKeeps DEF Backspace
  <2>2. UNCHANGED <<carried, screen, sent, reply, world, row, ruling>> /\ screen.at = "entering"
    BY <1>2 DEF Backspace
  <2>3. PadShape' /\ ReplyFits' /\ PadIsHonest'
    BY <2>1, <2>2 DEF PadShape, ReplyFits, PadIsHonest, CountIsThePlatforms, LengthIsEarned,
                      DeadEndIsReal, RightPinNotCharged, world, Pins
  <2> QED BY <2>1, <2>2, <2>3
<1>3. ASSUME ClearEntry PROVE PadInv'
  <2>1. typed' \in Seq(Digits) /\ keyed' \in Seq(Digits) /\ Kept(typed)'
    BY <1>3, EmptyKeeps DEF ClearEntry
  <2>2. UNCHANGED <<carried, screen, sent, reply, world, row, ruling>> /\ screen.at = "entering"
    BY <1>3 DEF ClearEntry
  <2>3. PadShape' /\ ReplyFits' /\ PadIsHonest'
    BY <2>1, <2>2 DEF PadShape, ReplyFits, PadIsHonest, CountIsThePlatforms, LengthIsEarned,
                      DeadEndIsReal, RightPinNotCharged, world, Pins
  <2> QED BY <2>1, <2>2, <2>3
<1>4. ASSUME SubmitPin PROVE PadInv'
  <2>1. /\ screen' = Plain("verifying") /\ sent' = typed /\ typed' = <<>> /\ reply' = NoReply
        /\ ruling' = NoRuling /\ UNCHANGED <<carried, world, row, keyed>> /\ screen.at = "entering"
    BY <1>4 DEF SubmitPin
  <2>2. Kept(sent)'
    BY <2>1 DEF Kept, Capacity
  <2>3. PadShape'
    <3>1. <<>> \in Seq(Digits)
      BY NoDigits
    <3>2. Tries \in Nat
      BY PadAssumption DEF PadAssumption
    <3> QED BY <2>1, <3>1, <3>2 DEF PadShape, NoRuling, Plain, world, Pins
  <2>4. ReplyFits' /\ PadIsHonest'
    BY <2>1 DEF ReplyFits, NoReply, NoRuling, Plain, PadIsHonest, CountIsThePlatforms,
                LengthIsEarned, DeadEndIsReal, RightPinNotCharged
  <2>5. screen'.at = "verifying"
    BY <2>1 DEF Plain
  <2> QED BY <2>2, <2>3, <2>4, <2>5
<1> QED BY <1>1, <1>2, <1>3, <1>4 DEF Typing

\* A ruling, and the answer sent with it.
LEMMA JudgeInv ==
  ASSUME PadInv, JudgeEntry
  PROVE  PadInv'
<1>1. /\ screen.at = "verifying" /\ reply = NoReply
      /\ UNCHANGED <<carried, screen, typed, sent, rule, secret, active, row, keyed>>
  BY DEF JudgeEntry
<1>2. PadShape /\ Kept(sent) /\ screen.offer = "none" /\ Tries \in Nat
  BY <1>1, PadAssumption DEF PadInv, PadShape, PadAssumption
<1>3. /\ left' \in Nat /\ ruling' = [on |-> ruling'.on, keyed |-> keyed, left |-> left']
      /\ ruling'.on = "wrong" => sent # secret
      /\ ReplyFits'
  <2>1. CASE ~active
    <3>1. left' = left /\ Rules("operator") /\ \E code \in {"inactive", "not found"} : Answers(code, NoFigure)
      BY <2>1 DEF JudgeEntry
    <3>2. PICK code \in {"inactive", "not found"} : Answers(code, NoFigure)
      BY <3>1
    <3>3. reply' = [code |-> code, figure |-> NoFigure]
      BY <3>2 DEF Answers
    <3>4. reply'.code = code
      BY <3>3
    <3> QED BY <1>2, <3>1, <3>2, <3>4 DEF Rules, ReplyFits, PadShape
  <2>2. CASE active /\ left = 0
    <3>1. left' = left /\ Rules("lock") /\ Answers("locked", NoFigure)
      BY <2>2 DEF JudgeEntry
    <3>2. reply'.code = "locked"
      BY <3>1 DEF Answers
    <3> QED BY <1>2, <2>2, <3>1, <3>2 DEF Rules, ReplyFits, PadShape
  <2>3. CASE active /\ left # 0 /\ sent # secret
    <3>1. /\ left > 0 /\ left' = left - 1 /\ Rules("wrong")
          /\ (left' = 0 /\ Answers("locked", NoFigure)) \/ Answers("invalid", left')
      BY <2>3 DEF JudgeEntry
    <3>2. left' \in Nat
      BY <1>2, <3>1 DEF PadShape
    <3>3. \/ left' = 0 /\ reply'.code = "locked"
          \/ reply'.code = "invalid" /\ reply'.figure \in {NoFigure, left'}
      BY <3>1 DEF Answers
    <3> QED BY <2>3, <3>1, <3>2, <3>3 DEF Rules, ReplyFits
  <2>4. CASE active /\ left # 0 /\ sent = secret
    <3>1. /\ left' \in {left, Tries} /\ Rules("right")
          /\ Answers("accepted", NoFigure) \/ Answers("rotation", rule)
      BY <2>4 DEF JudgeEntry
    <3>2. reply'.code \in {"accepted", "rotation"}
      BY <3>1 DEF Answers
    <3> QED BY <1>2, <3>1, <3>2 DEF Rules, ReplyFits, PadShape
  <2> QED BY <2>1, <2>2, <2>3, <2>4
<1>4. PadShape'
  BY <1>1, <1>2, <1>3 DEF PadShape, Pins
<1>5. Kept(sent)'
  BY <1>1, <1>2 DEF Kept, Capacity
<1>6. ruling'.on = "wrong" /\ ruling'.keyed = secret => carried \notin {AnyLength, Len(secret)}
  BY <1>2, <1>3, WrongAsKeyed
<1>7. PadIsHonest'
  BY <1>1, <1>2, <1>6 DEF PadIsHonest, CountIsThePlatforms, LengthIsEarned, DeadEndIsReal,
                          RightPinNotCharged
<1> QED BY <1>1, <1>3, <1>4, <1>5, <1>7 DEF PadInv

\* The terminal refused, or others deciding: nothing that is shown changes.
LEMMA WorldInv ==
  ASSUME PadInv, RefuseTerminal \/ OthersDecide
  PROVE  PadInv'
<1> USE DEF PadInv
<1>1. UNCHANGED <<carried, screen, typed, sent, secret, row, keyed, ruling>>
  BY DEF RefuseTerminal, OthersDecide, world
<1>2. left' \in Nat
  <2>1. left' \in {left, 0}
    BY DEF RefuseTerminal, OthersDecide, world
  <2>2. left \in Nat
    BY DEF PadShape
  <2> QED BY <2>1, <2>2
<1>3. ReplyFits'
  BY <1>1 DEF RefuseTerminal, OthersDecide, ReplyFits, NoReply
<1>4. PadShape' /\ PadIsHonest'
  BY <1>1, <1>2 DEF PadShape, Pins, PadIsHonest, CountIsThePlatforms, LengthIsEarned,
                    DeadEndIsReal, RightPinNotCharged
<1>5. Kept(typed)' = Kept(typed) /\ Kept(sent)' = Kept(sent)
  BY <1>1 DEF Kept, Capacity
<1> QED BY <1>1, <1>3, <1>4, <1>5

\* A notice is shown that fits what was found.
LEMMA ShowsInv ==
  ASSUME PadInv, screen.at = "verifying", NEW what, NEW figure, Shows(NoticeOf(what, figure)),
         what = "wrong" => ruling.on = "wrong" /\ ruling.left > 0 /\ figure = ruling.left,
         what = "rotation" => ruling.on = "right" /\ figure \in PinLengths,
         what \in {"locked", "inactive", "not found"} =>
           row # "active" \/ ruling.left = 0 \/ ruling.on = "operator"
  PROVE  PadInv'
<1> USE DEF PadInv
<1>1. /\ screen' = NoticeOf(what, figure) /\ reply' = NoReply /\ sent' = <<>>
      /\ UNCHANGED <<carried, typed, secret, left, row, keyed, ruling>>
  BY DEF Shows, world
<1> DEFINE n == NoticeOf(what, figure)
<1>0. /\ n.at \in {"refused", "undecided"}
      /\ n.offer = "at cost" => what = "wrong" /\ n.figure = figure
      /\ n.offer = "free" => what = "rotation" /\ n.figure = figure
      /\ n.offer = "withheld" => what \in {"locked", "inactive", "not found"}
  BY Offers
<1>2. screen' = n /\ screen'.at \in {"refused", "undecided"}
  BY <1>0, <1>1
<1> HIDE DEF n
<1>3. PadShape'
  <2>1. <<>> \in Seq(Digits)
    BY NoDigits
  <2>2. screen'.at \notin {"entering", "verifying", "signed in"}
    BY <1>2
  <2> QED BY <1>1, <2>1, <2>2 DEF PadShape, Pins
<1>4. ReplyFits'
  BY <1>1 DEF ReplyFits, NoReply
<1>5. CountIsThePlatforms' /\ LengthIsEarned' /\ DeadEndIsReal'
  <2>1. row' = row /\ ruling' = ruling
    BY <1>1
  <2>2. CountIsThePlatforms'
    BY <1>0, <1>2, <2>1 DEF CountIsThePlatforms
  <2>3. LengthIsEarned'
    BY <1>0, <1>2, <2>1 DEF LengthIsEarned
  <2>4. DeadEndIsReal'
    BY <1>0, <1>2, <2>1 DEF DeadEndIsReal
  <2> QED BY <2>2, <2>3, <2>4
<1>6. RightPinNotCharged'
  BY <1>1 DEF RightPinNotCharged, PadIsHonest
<1> QED BY <1>2, <1>3, <1>4, <1>5, <1>6 DEF PadIsHonest

\* An answer read shows what the platform found in the PIN.
LEMMA ReadReplyInv ==
  ASSUME PadInv, ReadReply
  PROVE  PadInv'
<1>0. reply.code = "invalid" => reply.figure \in Int
  <2>1. ruling.left \in Nat /\ (reply.code = "invalid" => reply.figure \in {NoFigure, ruling.left})
    BY DEF PadInv, PadShape, ReplyFits
  <2> QED BY <2>1 DEF NoFigure
<1>1. CASE reply.code = "accepted"
  <2>1. /\ screen' = Plain("signed in") /\ reply' = NoReply /\ sent' = <<>>
        /\ UNCHANGED <<carried, typed, secret, left, row, keyed, ruling>>
    BY <1>1 DEF ReadReply, Shows, world
  <2>2. PadShape'
    <3>1. <<>> \in Seq(Digits)
      BY NoDigits
    <3>2. PadShape
      BY DEF PadInv
    <3> QED BY <2>1, <3>1, <3>2 DEF PadShape, Pins, Plain
  <2>4. ReplyFits'
    BY <2>1 DEF ReplyFits, NoReply
  <2>5. PadIsHonest'
    BY <2>1 DEF PadInv, Plain, PadIsHonest, CountIsThePlatforms, LengthIsEarned, DeadEndIsReal,
                RightPinNotCharged
  <2>3. screen'.at = "signed in"
    BY <2>1 DEF Plain
  <2> QED BY <2>2, <2>3, <2>4, <2>5 DEF PadInv
<1>2. CASE reply.code # "accepted"
  <2> DEFINE r == Outcome(reply.code, reply.figure)
  <2>1. screen.at = "verifying" /\ Shows(NoticeOf(r.what, r.figure))
    BY <1>2 DEF ReadReply, Outcome
  <2>2. r.what = "wrong" => reply.code = "invalid" /\ reply.figure > 0 /\ r.figure = reply.figure
    BY <1>0, Read
  <2>3. r.what = "rotation" => reply.code = "rotation" /\ r.figure \in PinLengths
    BY <1>0, Read
  <2>4. r.what = "locked" => reply.code = "locked" \/ (reply.code = "invalid" /\ reply.figure = 0)
    BY <1>0, Read
  <2>5. r.what \in {"inactive", "not found"} => r.what = reply.code
    BY <1>0, Read
  <2> HIDE DEF r
  <2>6. r.what = "wrong" => ruling.on = "wrong" /\ ruling.left > 0 /\ r.figure = ruling.left
    <3>1. r.what = "wrong" => reply.figure # NoFigure /\ reply.figure > 0
      BY <2>2 DEF NoFigure
    <3>2. reply.code = "invalid" => ruling.on = "wrong" /\ reply.figure \in {NoFigure, ruling.left}
      BY DEF PadInv, ReplyFits
    <3> QED BY <2>2, <3>1, <3>2
  <2>7. r.what = "rotation" => ruling.on = "right" /\ r.figure \in PinLengths
    BY <2>3 DEF PadInv, ReplyFits
  <2>8. r.what \in {"locked", "inactive", "not found"} => ruling.left = 0 \/ ruling.on = "operator"
    <3>1. reply.figure = 0 => reply.figure # NoFigure
      BY DEF NoFigure
    <3>2. /\ reply.code = "invalid" => reply.figure \in {NoFigure, ruling.left}
          /\ reply.code = "locked" => ruling.left = 0
          /\ reply.code \in {"inactive", "not found"} => ruling.on = "operator"
      BY DEF PadInv, ReplyFits
    <3> QED BY <2>4, <2>5, <3>1, <3>2
  <2> QED BY <2>1, <2>6, <2>7, <2>8, ShowsInv
<1> QED BY <1>1, <1>2

\* Without an answer that can be read, the screen names neither count nor length.
LEMMA NoReplyInv ==
  ASSUME PadInv, Unanswered \/ Garbled
  PROVE  PadInv'
<1>1. CASE Unanswered
  <2> DEFINE what == CASE row = "absent" -> "not found" [] row = "inactive" -> "inactive"
                       [] OTHER -> "unreachable"
  <2>1. screen.at = "verifying" /\ Shows(NoticeOf(what, NoFigure))
    BY <1>1 DEF Unanswered
  <2>2. what \in {"not found", "inactive", "unreachable"} /\ (what # "unreachable" => row # "active")
    OBVIOUS
  <2> HIDE DEF what
  <2> QED BY <2>1, <2>2, ShowsInv
<1>2. CASE Garbled
  <2>1. screen.at = "verifying" /\ Shows(NoticeOf("breach", NoFigure))
    BY <1>2 DEF Garbled
  <2> QED BY <2>1, ShowsInv
<1> QED BY <1>1, <1>2

\* The way back opens an empty pad.
LEMMA RetryInv ==
  ASSUME PadInv, RetryEntry
  PROVE  PadInv'
<1> USE DEF PadInv
<1>1. /\ screen' = Plain("entering") /\ typed' = <<>> /\ keyed' = <<>>
      /\ UNCHANGED <<carried, sent, reply, secret, left, row, ruling>>
  BY DEF RetryEntry, world
<1>2. typed' \in Seq(Digits) /\ keyed' \in Seq(Digits) /\ Kept(typed)'
  BY <1>1, EmptyKeeps
<1>3. PadShape' /\ ReplyFits' /\ PadIsHonest'
  BY <1>1, <1>2 DEF PadShape, Pins, Plain, ReplyFits, PadIsHonest, CountIsThePlatforms,
                    LengthIsEarned, DeadEndIsReal, RightPinNotCharged
<1>4. screen'.at = "entering"
  BY <1>1 DEF Plain
<1> QED BY <1>2, <1>3, <1>4

-----------------------------------------------------------------------------
\* Every step keeps the invariant.
LEMMA PadStepInv == PadInv /\ [PadNext]_padVars => PadInv'
<1> SUFFICES ASSUME PadInv, [PadNext]_padVars PROVE PadInv'
  OBVIOUS
<1>1. CASE Typing
  BY <1>1, TypingInv
<1>2. CASE JudgeEntry
  BY <1>2, JudgeInv
<1>3. CASE RefuseTerminal \/ OthersDecide
  BY <1>3, WorldInv
<1>4. CASE Learning
  BY <1>4, ReadReplyInv, NoReplyInv DEF Learning
<1>5. CASE RetryEntry
  BY <1>5, RetryInv
<1>6. CASE UNCHANGED padVars
  BY <1>6 DEF padVars, world, PadInv, PadShape, ReplyFits, Kept, Capacity, Pins, PadIsHonest,
              CountIsThePlatforms, LengthIsEarned, DeadEndIsReal, RightPinNotCharged
<1> QED BY <1>1, <1>2, <1>3, <1>4, <1>5, <1>6 DEF PadNext

\* What PIN entry says of a PIN is what became of it: whatever the lengths, the
\* budget and the answers lost, a count is the platform's, a length is shown to
\* who proved the PIN, and a dead end is one.
THEOREM PadHonest == PadSpec => []PadIsHonest
<1>1. PadInv => PadIsHonest
  BY DEF PadInv
<1> QED BY PadInitInv, PadStepInv, <1>1, PTL DEF PadSpec

-----------------------------------------------------------------------------
(* Verification and sessions (PinAccess).                                  *)

Stages == {"idle", "asked", "answered", "renewing", "renewed", "recording", "presenting"}
Replies == Standings \cup Verdicts \cup {"none", "lapsed", "renewed"}
SubmitType == [at : Stages, leg : 1..2, right : BOOLEAN, reply : Replies, session : Nat,
               heard : SUBSET {"lapsed", "renewed"}]
JobType == [at : {"idle", "sent", "answered", "discarding"}, session : Nat,
            reply : {"none", "terminal", "required", "refused", "ok"}]
Excuses == {"write failed", "delete failed", "crossed"}

PinShape ==
  /\ keypad \in SubmitType /\ jobs \in [Jobs -> JobType]
  /\ pinHistory \in [refused : SUBSET Nat, excuses : SUBSET Excuses]
  /\ attempts \in Nat /\ minted \in Nat /\ honoured \subseteq Nat
  /\ presented \in Nat /\ stored \in Nat /\ spent \in Nat /\ wrong \in Nat

\* Sessions are numbered as they are minted: nothing names a later one.
Numbered ==
  /\ attempts <= MaxAttempts /\ standing \in Standings /\ minted <= MaxMinted
  /\ \A s \in honoured \cup pinHistory.refused : 0 < s /\ s <= minted
  /\ presented <= minted /\ stored <= minted /\ keypad.session <= minted
  /\ \A j \in Jobs : jobs[j].session <= minted

\* A submission is asked again only before it was judged, after one renewal.
Unjudged ==
  \/ keypad.at \in {"asked", "renewing", "renewed"}
  \/ keypad.at = "answered" /\ keypad.reply = "lapsed"
Judged ==
  /\ spent <= wrong
  /\ Unjudged /\ ~keypad.right => spent < wrong
  /\ keypad.at \in {"renewing", "renewed"} => keypad.leg = 1

\* The session of a submission under way is nobody else's yet.
Fresh ==
  /\ keypad.at \in {"recording", "presenting"} \/ (keypad.at = "answered" /\ keypad.reply = "accepted")
     => keypad.session # 0
  /\ keypad.session # 0 => /\ keypad.session \notin pinHistory.refused /\ keypad.session # presented
                           /\ \A j \in Jobs : jobs[j].session # keypad.session

\* A refusal stays true: the session is never honoured again, a budget that is
\* spent is never refilled.
Refusals ==
  \A j \in Jobs : jobs[j].at = "answered" /\ jobs[j].reply = "refused"
                  => jobs[j].session # 0 /\ (jobs[j].session \notin honoured \/ attempts = 0)

Excused == "delete failed" \in pinHistory.excuses \/ "crossed" \in pinHistory.excuses

\* Nothing is under way before the till has restored its session.
Asleep ==
  waking => /\ keypad.at = "idle" /\ keypad.session = 0 /\ presented = 0
            /\ \A j \in Jobs : jobs[j].at = "idle"

\* A refused session is nowhere but in a row about to be deleted.
Forgotten ==
  ~Excused => /\ presented \notin pinHistory.refused
              /\ stored \in pinHistory.refused => Discarding

\* Between the two writes of a sign-in or a sign-out, slot and row differ in
\* one way only.
InStep ==
  pinHistory.excuses = {} =>
    /\ Discarding => presented = 0 /\ keypad.at # "presenting"
    /\ keypad.at = "presenting" => stored = keypad.session
    /\ ~waking /\ ~Discarding /\ keypad.at # "presenting" => presented = stored

\* The inductive invariant: what the properties say of the outcome told and of
\* the slot, carried back to the answers, the calls and the writes under way.
PinInv ==
  /\ PinShape /\ Numbered /\ Judged
  /\ RefusalIsFinal /\ Fresh /\ Refusals /\ Asleep /\ Forgotten /\ InStep

\* No submission and no call under way.
LEMMA AtRest == NoSubmit \in SubmitType /\ NoJob \in JobType
  BY DEF NoSubmit, NoJob, SubmitType, JobType, Stages, Replies

\* An excuse noted changes nothing else of the history.
LEMMA Noted ==
  ASSUME PinShape, NEW e \in SUBSET Excuses, Excusing(e)
  PROVE  /\ pinHistory' \in [refused : SUBSET Nat, excuses : SUBSET Excuses]
         /\ pinHistory'.refused = pinHistory.refused
         /\ pinHistory'.excuses = pinHistory.excuses \cup e
  BY DEF PinShape, Excusing

\* The end of a submission, whoever decided it.
LEMMA Concluded ==
  ASSUME PinInv, NEW what, NEW by, Concludes(what, by), keypad.at # "presenting"
  PROVE  PinInv'
<1>1. PinShape'
  BY AtRest DEF PinInv, PinShape, Concludes, account, slots
<1>2. Numbered'
  BY PinAssumption DEF PinInv, PinShape, SubmitType, JobType, Numbered, Concludes, Keying, account, slots, tally, NoSubmit, NoJob, PinAssumption
<1>3. Judged'
  BY DEF PinInv, PinShape, SubmitType, JobType, Judged, Unjudged, Concludes, Keying, account, slots, tally, NoSubmit, NoJob
<1>4. RefusalIsFinal'
  BY DEF PinInv, PinShape, SubmitType, JobType, RefusalIsFinal, Concludes, Keying, account, slots, tally, NoSubmit, NoJob
<1>5. Fresh'
  BY DEF PinInv, PinShape, SubmitType, JobType, Fresh, Concludes, Keying, account, slots, tally, NoSubmit, NoJob
<1>6. Refusals'
  BY DEF PinInv, PinShape, SubmitType, JobType, Refusals, Concludes, Keying, account, slots, tally, NoSubmit, NoJob
<1>7. Asleep'
  BY DEF PinInv, PinShape, SubmitType, JobType, Asleep, Concludes, Keying, account, slots, tally, NoSubmit, NoJob
<1>8. Forgotten'
  BY DEF PinInv, PinShape, SubmitType, JobType, Forgotten, Excused, Discarding, Concludes, Keying, account, slots, tally, NoSubmit, NoJob
<1>9. InStep'
  BY DEF PinInv, PinShape, SubmitType, JobType, InStep, Discarding, Concludes, Keying, account, slots, tally, NoSubmit, NoJob
<1> QED BY <1>1, <1>2, <1>3, <1>4, <1>5, <1>6, <1>7, <1>8, <1>9 DEF PinInv

\* An answer that leads on: to a renewal, or to the session's recording.
LEMMA Keyed ==
  ASSUME PinInv, NEW stage, stage \in {"renewing", "recording"}, keypad.at = "answered",
         stage = "renewing" => keypad.reply = "lapsed" /\ keypad.leg = 1,
         stage = "recording" => keypad.reply = "accepted",
         NEW heard, heard \subseteq {"lapsed", "renewed"},
         keypad' = [keypad EXCEPT !.at = stage, !.heard = heard],
         UNCHANGED <<account, jobs, slots, tally>>
  PROVE  PinInv'
<1>1. PinShape'
  BY DEF PinInv, PinShape, Stages, Replies, Standings, Verdicts, SubmitType, JobType, Excuses, Keying, account, slots, tally, NoSubmit, NoJob
<1>2. Numbered'
  BY PinAssumption DEF PinInv, PinShape, SubmitType, JobType, Numbered, Keying, account, slots, tally, NoSubmit, NoJob, PinAssumption
<1>3. Judged'
  BY DEF PinInv, PinShape, SubmitType, JobType, Judged, Unjudged, Keying, account, slots, tally, NoSubmit, NoJob
<1>4. RefusalIsFinal'
  BY DEF PinInv, PinShape, SubmitType, JobType, RefusalIsFinal, Keying, account, slots, tally, NoSubmit, NoJob
<1>5. Fresh'
  BY DEF PinInv, PinShape, SubmitType, JobType, Fresh, Keying, account, slots, tally, NoSubmit, NoJob
<1>6. Refusals'
  BY DEF PinInv, PinShape, SubmitType, JobType, Refusals, Keying, account, slots, tally, NoSubmit, NoJob
<1>7. Asleep'
  BY DEF PinInv, PinShape, SubmitType, JobType, Asleep, Keying, account, slots, tally, NoSubmit, NoJob
<1>8. Forgotten'
  BY DEF PinInv, PinShape, SubmitType, JobType, Forgotten, Excused, Discarding, Keying, account, slots, tally, NoSubmit, NoJob
<1>9. InStep'
  BY DEF PinInv, PinShape, SubmitType, JobType, InStep, Discarding, Keying, account, slots, tally, NoSubmit, NoJob
<1> QED BY <1>1, <1>2, <1>3, <1>4, <1>5, <1>6, <1>7, <1>8, <1>9 DEF PinInv

\* An answer that neither charges nor mints.
LEMMA Refused ==
  ASSUME PinInv, NEW at, at \in {"answered", "renewed"}, NEW code, code \in Replies \ {"accepted"},
         at = "answered" => keypad.at = "asked", at = "renewed" => keypad.at = "renewing",
         keypad' = [keypad EXCEPT !.at = at, !.reply = code],
         UNCHANGED <<account, jobs, slots, tally>>
  PROVE  PinInv'
<1>1. PinShape'
  BY DEF PinInv, PinShape, Stages, Replies, Standings, Verdicts, SubmitType, JobType, Excuses, Keying, account, slots, tally, NoSubmit, NoJob
<1>2. Numbered'
  BY PinAssumption DEF PinInv, PinShape, SubmitType, JobType, Numbered, Keying, account, slots, tally, NoSubmit, NoJob, PinAssumption
<1>3. Judged'
  BY DEF PinInv, PinShape, SubmitType, JobType, Judged, Unjudged, Keying, account, slots, tally, NoSubmit, NoJob
<1>4. RefusalIsFinal'
  BY DEF PinInv, PinShape, SubmitType, JobType, RefusalIsFinal, Keying, account, slots, tally, NoSubmit, NoJob
<1>5. Fresh'
  BY DEF PinInv, PinShape, SubmitType, JobType, Fresh, Keying, account, slots, tally, NoSubmit, NoJob
<1>6. Refusals'
  BY DEF PinInv, PinShape, SubmitType, JobType, Refusals, Keying, account, slots, tally, NoSubmit, NoJob
<1>7. Asleep'
  BY DEF PinInv, PinShape, SubmitType, JobType, Asleep, Keying, account, slots, tally, NoSubmit, NoJob
<1>8. Forgotten'
  BY DEF PinInv, PinShape, SubmitType, JobType, Forgotten, Excused, Discarding, Keying, account, slots, tally, NoSubmit, NoJob
<1>9. InStep'
  BY DEF PinInv, PinShape, SubmitType, JobType, InStep, Discarding, Keying, account, slots, tally, NoSubmit, NoJob
<1> QED BY <1>1, <1>2, <1>3, <1>4, <1>5, <1>6, <1>7, <1>8, <1>9 DEF PinInv

LEMMA SubmitKeeps ==
  ASSUME PinInv, NEW right \in BOOLEAN, Submit(right)
  PROVE  PinInv'
<1>1. PinShape'
  <2>1. keypad' \in SubmitType
    <3>1. CASE right
      <4>1. right = TRUE
        BY <3>1
      <4> QED BY <4>1, AtRest DEF Submit, NoSubmit, SubmitType, Stages
    <3>2. CASE ~right
      <4>1. right = FALSE
        BY <3>2
      <4> QED BY <4>1, AtRest DEF Submit, NoSubmit, SubmitType, Stages
    <3> QED BY <3>1, <3>2
  <2> QED BY <2>1 DEF PinInv, PinShape, Submit, account, slots
<1>2. Numbered'
  BY PinAssumption DEF PinInv, PinShape, SubmitType, JobType, Numbered, Submit, Keying, account, slots, tally, NoSubmit, NoJob, PinAssumption
<1>3. Judged'
  BY DEF PinInv, PinShape, SubmitType, JobType, Judged, Unjudged, Submit, Keying, account, slots, tally, NoSubmit, NoJob
<1>4. RefusalIsFinal'
  BY DEF PinInv, PinShape, SubmitType, JobType, RefusalIsFinal, Submit, Keying, account, slots, tally, NoSubmit, NoJob
<1>5. Fresh'
  BY DEF PinInv, PinShape, SubmitType, JobType, Fresh, Submit, Keying, account, slots, tally, NoSubmit, NoJob
<1>6. Refusals'
  BY DEF PinInv, PinShape, SubmitType, JobType, Refusals, Submit, Keying, account, slots, tally, NoSubmit, NoJob
<1>7. Asleep'
  BY DEF PinInv, PinShape, SubmitType, JobType, Asleep, Submit, Keying, account, slots, tally, NoSubmit, NoJob
<1>8. Forgotten'
  BY DEF PinInv, PinShape, SubmitType, JobType, Forgotten, Excused, Discarding, Submit, Keying, account, slots, tally, NoSubmit, NoJob
<1>9. InStep'
  BY DEF PinInv, PinShape, SubmitType, JobType, InStep, Discarding, Submit, Keying, account, slots, tally, NoSubmit, NoJob
<1> QED BY <1>1, <1>2, <1>3, <1>4, <1>5, <1>6, <1>7, <1>8, <1>9 DEF PinInv

LEMMA JudgeJobKeeps ==
  ASSUME PinInv, NEW j \in Jobs, JudgeJob(j)
  PROVE  PinInv'
<1>1. PinShape'
  <2>1. PICK r \in {"terminal", "required", "refused", "ok"} :
          jobs' = [jobs EXCEPT ![j].at = "answered", ![j].reply = r]
    BY DEF JudgeJob
  <2>2. jobs' \in [Jobs -> JobType]
    BY <2>1 DEF PinInv, PinShape, JobType
  <2> QED BY <2>2 DEF PinInv, PinShape, JudgeJob, account, slots, tally
<1>2. Numbered'
  BY PinAssumption DEF PinInv, PinShape, SubmitType, JobType, Numbered, JudgeJob, TerminalRefusal, Keying, account, slots, tally, NoSubmit, NoJob, PinAssumption
<1>3. Judged'
  BY DEF PinInv, PinShape, SubmitType, JobType, Judged, Unjudged, JudgeJob, TerminalRefusal, Keying, account, slots, tally, NoSubmit, NoJob
<1>4. RefusalIsFinal'
  BY DEF PinInv, PinShape, SubmitType, JobType, RefusalIsFinal, JudgeJob, TerminalRefusal, Keying, account, slots, tally, NoSubmit, NoJob
<1>5. Fresh'
  BY DEF PinInv, PinShape, SubmitType, JobType, Fresh, JudgeJob, TerminalRefusal, Keying, account, slots, tally, NoSubmit, NoJob
<1>6. Refusals'
  BY DEF PinInv, PinShape, SubmitType, JobType, Refusals, JudgeJob, TerminalRefusal, Keying, account, slots, tally, NoSubmit, NoJob
<1>7. Asleep'
  BY DEF PinInv, PinShape, SubmitType, JobType, Asleep, JudgeJob, TerminalRefusal, Keying, account, slots, tally, NoSubmit, NoJob
<1>8. Forgotten'
  BY DEF PinInv, PinShape, SubmitType, JobType, Forgotten, Excused, Discarding, JudgeJob, TerminalRefusal, Keying, account, slots, tally, NoSubmit, NoJob
<1>9. InStep'
  BY DEF PinInv, PinShape, SubmitType, JobType, InStep, Discarding, JudgeJob, TerminalRefusal, Keying, account, slots, tally, NoSubmit, NoJob
<1> QED BY <1>1, <1>2, <1>3, <1>4, <1>5, <1>6, <1>7, <1>8, <1>9 DEF PinInv

LEMMA PlatformDecidesKeeps ==
  ASSUME PinInv, PlatformDecides
  PROVE  PinInv'
<1>1. PinShape'
  <2>1. attempts' \in Nat /\ honoured' \in SUBSET Nat
    <3>1. attempts' = attempts \/ attempts' = 0
      BY DEF PlatformDecides
    <3>2. honoured' = honoured \/ \E s \in honoured : honoured' = honoured \ {s}
      BY DEF PlatformDecides
    <3>3. attempts' \in Nat
      BY <3>1 DEF PinInv, PinShape
    <3>4. honoured' \in SUBSET Nat
      BY <3>2 DEF PinInv, PinShape
    <3> QED BY <3>3, <3>4
  <2> QED BY <2>1 DEF PinInv, PinShape, PlatformDecides, slots, tally
<1>2. Numbered'
  <2>1. attempts' <= MaxAttempts /\ standing' \in Standings /\ honoured' \subseteq honoured
    BY PinAssumption DEF PinAssumption, PinInv, PinShape, Numbered, PlatformDecides
  <2> QED BY <2>1 DEF PinInv, PinShape, Numbered, PlatformDecides, slots, tally
<1>3. Judged'
  BY DEF PinInv, PinShape, SubmitType, JobType, Judged, Unjudged, PlatformDecides, Keying, account, slots, tally, NoSubmit, NoJob
<1>4. RefusalIsFinal'
  BY DEF PinInv, PinShape, SubmitType, JobType, RefusalIsFinal, PlatformDecides, Keying, account, slots, tally, NoSubmit, NoJob
<1>5. Fresh'
  BY DEF PinInv, PinShape, SubmitType, JobType, Fresh, PlatformDecides, Keying, account, slots, tally, NoSubmit, NoJob
<1>6. Refusals'
  BY DEF PinInv, PinShape, SubmitType, JobType, Refusals, PlatformDecides, Keying, account, slots, tally, NoSubmit, NoJob
<1>7. Asleep'
  BY DEF PinInv, PinShape, SubmitType, JobType, Asleep, PlatformDecides, Keying, account, slots, tally, NoSubmit, NoJob
<1>8. Forgotten'
  BY DEF PinInv, PinShape, SubmitType, JobType, Forgotten, Excused, Discarding, PlatformDecides, Keying, account, slots, tally, NoSubmit, NoJob
<1>9. InStep'
  BY DEF PinInv, PinShape, SubmitType, JobType, InStep, Discarding, PlatformDecides, Keying, account, slots, tally, NoSubmit, NoJob
<1> QED BY <1>1, <1>2, <1>3, <1>4, <1>5, <1>6, <1>7, <1>8, <1>9 DEF PinInv

LEMMA RecordKeeps ==
  ASSUME PinInv, Record
  PROVE  PinInv'
<1>0. PICK e \in SUBSET Excuses :
        /\ Excusing(e)
        /\ \/ stored' = keypad.session /\ (e = {} => ~Discarding) /\ e \in {{}, {"crossed"}}
           \/ stored' = stored /\ e = {"write failed"}
  BY DEF Record, Excuses
<1>a. /\ pinHistory' \in [refused : SUBSET Nat, excuses : SUBSET Excuses]
      /\ pinHistory'.refused = pinHistory.refused
      /\ pinHistory'.excuses = pinHistory.excuses \cup e
  BY <1>0, Noted DEF PinInv
<1>b. /\ keypad.at = "recording" /\ keypad' = [keypad EXCEPT !.at = "presenting"]
      /\ UNCHANGED <<account, jobs, presented, waking, told, submits, wrong, spent>>
  BY DEF Record, Keying, Keys
<1>1. PinShape'
  BY <1>0, <1>a, <1>b DEF PinInv, PinShape, SubmitType, Stages, account
<1>2. Numbered'
  BY PinAssumption DEF PinInv, PinShape, SubmitType, JobType, Numbered, Record, Keys, Excusing, Keying, account, slots, tally, NoSubmit, NoJob, PinAssumption
<1>3. Judged'
  BY DEF PinInv, PinShape, SubmitType, JobType, Judged, Unjudged, Record, Keys, Excusing, Keying, account, slots, tally, NoSubmit, NoJob
<1>4. RefusalIsFinal'
  BY DEF PinInv, PinShape, SubmitType, JobType, RefusalIsFinal, Record, Keys, Excusing, Keying, account, slots, tally, NoSubmit, NoJob
<1>5. Fresh'
  BY DEF PinInv, PinShape, SubmitType, JobType, Fresh, Record, Keys, Excusing, Keying, account, slots, tally, NoSubmit, NoJob
<1>6. Refusals'
  BY DEF PinInv, PinShape, SubmitType, JobType, Refusals, Record, Keys, Excusing, Keying, account, slots, tally, NoSubmit, NoJob
<1>7. Asleep'
  BY DEF PinInv, PinShape, SubmitType, JobType, Asleep, Record, Keys, Excusing, Keying, account, slots, tally, NoSubmit, NoJob
<1>8. Forgotten'
  BY <1>0, <1>a, <1>b DEF PinInv, PinShape, SubmitType, Fresh, Forgotten, Excused, Discarding
<1>9. InStep'
  BY <1>0, <1>a, <1>b DEF PinInv, PinShape, SubmitType, InStep, Asleep, Discarding
<1> QED BY <1>1, <1>2, <1>3, <1>4, <1>5, <1>6, <1>7, <1>8, <1>9 DEF PinInv

LEMMA PresentKeeps ==
  ASSUME PinInv, Present
  PROVE  PinInv'
<1>0. PICK e \in SUBSET Excuses : Excusing(e) /\ (e = {} => ~Discarding)
  BY DEF Present, Excuses
<1>a. /\ pinHistory' \in [refused : SUBSET Nat, excuses : SUBSET Excuses]
      /\ pinHistory'.refused = pinHistory.refused
      /\ pinHistory'.excuses = pinHistory.excuses \cup e
  BY <1>0, Noted DEF PinInv
<1>b. /\ keypad.at = "presenting" /\ presented' = keypad.session /\ keypad' = NoSubmit
      /\ UNCHANGED <<account, jobs, stored, waking, submits, wrong, spent>>
  BY DEF Present, Keying
<1>1. PinShape'
  BY <1>a, <1>b, AtRest DEF PinInv, PinShape, SubmitType, account
<1>2. Numbered'
  BY PinAssumption DEF PinInv, PinShape, SubmitType, JobType, Numbered, Present, Excusing, Keying, account, slots, tally, NoSubmit, NoJob, PinAssumption
<1>3. Judged'
  BY DEF PinInv, PinShape, SubmitType, JobType, Judged, Unjudged, Present, Excusing, Keying, account, slots, tally, NoSubmit, NoJob
<1>4. RefusalIsFinal'
  BY DEF PinInv, PinShape, SubmitType, JobType, RefusalIsFinal, Present, Excusing, Keying, account, slots, tally, NoSubmit, NoJob
<1>5. Fresh'
  BY DEF PinInv, PinShape, SubmitType, JobType, Fresh, Present, Excusing, Keying, account, slots, tally, NoSubmit, NoJob
<1>6. Refusals'
  BY DEF PinInv, PinShape, SubmitType, JobType, Refusals, Present, Excusing, Keying, account, slots, tally, NoSubmit, NoJob
<1>7. Asleep'
  BY DEF PinInv, PinShape, SubmitType, JobType, Asleep, Present, Excusing, Keying, account, slots, tally, NoSubmit, NoJob
<1>8. Forgotten'
  BY <1>a, <1>b DEF PinInv, PinShape, Fresh, Numbered, Forgotten, Excused, Discarding
<1>9. InStep'
  BY DEF PinInv, PinShape, SubmitType, JobType, InStep, Discarding, Present, Excusing, Keying, account, slots, tally, NoSubmit, NoJob
<1> QED BY <1>1, <1>2, <1>3, <1>4, <1>5, <1>6, <1>7, <1>8, <1>9 DEF PinInv

LEMMA SendKeeps ==
  ASSUME PinInv, NEW j \in Jobs, Send(j)
  PROVE  PinInv'
<1>1. PinShape'
  BY DEF PinInv, PinShape, Stages, Replies, Standings, Verdicts, SubmitType, JobType, Excuses, Send, Keying, account, slots, tally, NoSubmit, NoJob
<1>2. Numbered'
  BY PinAssumption DEF PinInv, PinShape, SubmitType, JobType, Numbered, Send, Keying, account, slots, tally, NoSubmit, NoJob, PinAssumption
<1>3. Judged'
  BY DEF PinInv, PinShape, SubmitType, JobType, Judged, Unjudged, Send, Keying, account, slots, tally, NoSubmit, NoJob
<1>4. RefusalIsFinal'
  BY DEF PinInv, PinShape, SubmitType, JobType, RefusalIsFinal, Send, Keying, account, slots, tally, NoSubmit, NoJob
<1>5. Fresh'
  BY DEF PinInv, PinShape, SubmitType, JobType, Fresh, Send, Keying, account, slots, tally, NoSubmit, NoJob
<1>6. Refusals'
  BY DEF PinInv, PinShape, SubmitType, JobType, Refusals, Send, Keying, account, slots, tally, NoSubmit, NoJob
<1>7. Asleep'
  BY DEF PinInv, PinShape, SubmitType, JobType, Asleep, Send, Keying, account, slots, tally, NoSubmit, NoJob
<1>8. Forgotten'
  BY DEF PinInv, PinShape, SubmitType, JobType, Forgotten, Excused, Discarding, Send, Keying, account, slots, tally, NoSubmit, NoJob
<1>9. InStep'
  BY DEF PinInv, PinShape, SubmitType, JobType, InStep, Discarding, Send, Keying, account, slots, tally, NoSubmit, NoJob
<1> QED BY <1>1, <1>2, <1>3, <1>4, <1>5, <1>6, <1>7, <1>8, <1>9 DEF PinInv

LEMMA LoseKeeps ==
  ASSUME PinInv, NEW j \in Jobs, Lose(j)
  PROVE  PinInv'
<1>1. PinShape'
  BY DEF PinInv, PinShape, Stages, Replies, Standings, Verdicts, SubmitType, JobType, Excuses, Lose, Keying, account, slots, tally, NoSubmit, NoJob
<1>2. Numbered'
  BY PinAssumption DEF PinInv, PinShape, SubmitType, JobType, Numbered, Lose, Keying, account, slots, tally, NoSubmit, NoJob, PinAssumption
<1>3. Judged'
  BY DEF PinInv, PinShape, SubmitType, JobType, Judged, Unjudged, Lose, Keying, account, slots, tally, NoSubmit, NoJob
<1>4. RefusalIsFinal'
  BY DEF PinInv, PinShape, SubmitType, JobType, RefusalIsFinal, Lose, Keying, account, slots, tally, NoSubmit, NoJob
<1>5. Fresh'
  BY DEF PinInv, PinShape, SubmitType, JobType, Fresh, Lose, Keying, account, slots, tally, NoSubmit, NoJob
<1>6. Refusals'
  BY DEF PinInv, PinShape, SubmitType, JobType, Refusals, Lose, Keying, account, slots, tally, NoSubmit, NoJob
<1>7. Asleep'
  BY DEF PinInv, PinShape, SubmitType, JobType, Asleep, Lose, Keying, account, slots, tally, NoSubmit, NoJob
<1>8. Forgotten'
  BY DEF PinInv, PinShape, SubmitType, JobType, Forgotten, Excused, Discarding, Lose, Keying, account, slots, tally, NoSubmit, NoJob
<1>9. InStep'
  BY DEF PinInv, PinShape, SubmitType, JobType, InStep, Discarding, Lose, Keying, account, slots, tally, NoSubmit, NoJob
<1> QED BY <1>1, <1>2, <1>3, <1>4, <1>5, <1>6, <1>7, <1>8, <1>9 DEF PinInv

LEMMA ClearSlotKeeps ==
  ASSUME PinInv, NEW j \in Jobs, ClearSlot(j)
  PROVE  PinInv'
<1>1. PinShape'
  BY DEF PinInv, PinShape, Stages, Replies, Standings, Verdicts, SubmitType, JobType, Excuses, ClearSlot, Discards, Keying, account, slots, tally, NoSubmit, NoJob
<1>2. Numbered'
  BY PinAssumption DEF Refusals, PinInv, PinShape, SubmitType, JobType, Numbered, ClearSlot, Discards, Keying, account, slots, tally, NoSubmit, NoJob, PinAssumption
<1>3. Judged'
  BY DEF PinInv, PinShape, SubmitType, JobType, Judged, Unjudged, ClearSlot, Discards, Keying, account, slots, tally, NoSubmit, NoJob
<1>4. RefusalIsFinal'
  BY DEF PinInv, PinShape, SubmitType, JobType, RefusalIsFinal, ClearSlot, Discards, Keying, account, slots, tally, NoSubmit, NoJob
<1>5. Fresh'
  BY DEF PinInv, PinShape, SubmitType, JobType, Fresh, ClearSlot, Discards, Keying, account, slots, tally, NoSubmit, NoJob
<1>6. Refusals'
  BY DEF PinInv, PinShape, SubmitType, JobType, Refusals, ClearSlot, Discards, Keying, account, slots, tally, NoSubmit, NoJob
<1>7. Asleep'
  BY DEF PinInv, PinShape, SubmitType, JobType, Asleep, ClearSlot, Discards, Keying, account, slots, tally, NoSubmit, NoJob
<1>8. Forgotten'
  <2>1. 0 \notin pinHistory'.refused /\ Discarding'
    BY DEF ClearSlot, Discards, PinInv, PinShape, JobType, Numbered, Refusals, Discarding
  <2> QED BY <2>1 DEF Forgotten, ClearSlot
<1>9. InStep'
  BY DEF PinInv, PinShape, SubmitType, JobType, InStep, Discarding, ClearSlot, Discards, Keying, account, slots, tally, NoSubmit, NoJob
<1> QED BY <1>1, <1>2, <1>3, <1>4, <1>5, <1>6, <1>7, <1>8, <1>9 DEF PinInv

LEMMA DeleteRowKeeps ==
  ASSUME PinInv, NEW j \in Jobs, DeleteRow(j)
  PROVE  PinInv'
<1>0. PICK e \in SUBSET Excuses :
        /\ Excusing(e)
        /\ \/ stored' = 0 /\ (e = {} => ~Keying("presenting"))
           \/ stored' = stored /\ e = {"delete failed"}
  BY DEF DeleteRow, Excuses
<1>a. /\ pinHistory' \in [refused : SUBSET Nat, excuses : SUBSET Excuses]
      /\ pinHistory'.refused = pinHistory.refused
      /\ pinHistory'.excuses = pinHistory.excuses \cup e
  BY <1>0, Noted DEF PinInv
<1>b. /\ jobs[j].at = "discarding" /\ jobs' = [jobs EXCEPT ![j] = NoJob]
      /\ UNCHANGED <<account, keypad, presented, waking, told, submits, wrong, spent>>
  BY DEF DeleteRow
<1>c. stored' \in {0, stored}
  BY <1>0
<1>1. PinShape'
  <2>1. jobs' \in [Jobs -> JobType]
    BY <1>b, AtRest DEF PinInv, PinShape
  <2> QED BY <2>1, <1>a, <1>b, <1>c DEF PinInv, PinShape, account
<1>2. Numbered'
  <2>1. \A i \in Jobs : jobs'[i].session <= minted
    BY <1>b DEF PinInv, PinShape, Numbered, NoJob
  <2> QED BY <2>1, <1>a, <1>b, <1>c DEF PinInv, PinShape, Numbered, account
<1>3. Judged'
  BY DEF PinInv, PinShape, SubmitType, JobType, Judged, Unjudged, DeleteRow, Excusing, Keying, account, slots, tally, NoSubmit, NoJob
<1>4. RefusalIsFinal'
  BY DEF PinInv, PinShape, SubmitType, JobType, RefusalIsFinal, DeleteRow, Excusing, Keying, account, slots, tally, NoSubmit, NoJob
<1>5. Fresh'
  BY DEF PinInv, PinShape, SubmitType, JobType, Fresh, DeleteRow, Excusing, Keying, account, slots, tally, NoSubmit, NoJob
<1>6. Refusals'
  BY DEF PinInv, PinShape, SubmitType, JobType, Refusals, DeleteRow, Excusing, Keying, account, slots, tally, NoSubmit, NoJob
<1>7. Asleep'
  BY DEF PinInv, PinShape, SubmitType, JobType, Asleep, DeleteRow, Excusing, Keying, account, slots, tally, NoSubmit, NoJob
<1>8. Forgotten'
  <2>1. CASE Excused'
    BY <2>1 DEF Forgotten
  <2>2. CASE ~Excused'
    <3>1. ~Excused /\ "delete failed" \notin e
      BY <2>2, <1>a DEF Excused
    <3>2. stored' = 0
      BY <3>1, <1>0
    <3>3. 0 \notin pinHistory'.refused /\ presented' \notin pinHistory'.refused
      <4>1. 0 \notin pinHistory.refused
        BY DEF PinInv, PinShape, Numbered
      <4>2. presented \notin pinHistory.refused
        BY <3>1 DEF PinInv, Forgotten
      <4> QED BY <4>1, <4>2, <1>a, <1>b
    <3> QED BY <3>2, <3>3 DEF Forgotten
  <2> QED BY <2>1, <2>2
<1>9. InStep'
  BY <1>0, <1>a, <1>b DEF PinInv, PinShape, InStep, Discarding, Asleep, Keying, NoJob, JobType
<1> QED BY <1>1, <1>2, <1>3, <1>4, <1>5, <1>6, <1>7, <1>8, <1>9 DEF PinInv

LEMMA ReadAnswerKeeps ==
  ASSUME PinInv, NEW j \in Jobs, ReadAnswer(j)
  PROVE  PinInv'
<1>1. PinShape'
  BY DEF PinInv, PinShape, Stages, Replies, Standings, Verdicts, SubmitType, JobType, Excuses, ReadAnswer, Discards, Keying, account, slots, tally, NoSubmit, NoJob
<1>2. Numbered'
  BY PinAssumption DEF PinInv, PinShape, SubmitType, JobType, Numbered, ReadAnswer, Discards, Keying, account, slots, tally, NoSubmit, NoJob, PinAssumption
<1>3. Judged'
  BY DEF PinInv, PinShape, SubmitType, JobType, Judged, Unjudged, ReadAnswer, Discards, Keying, account, slots, tally, NoSubmit, NoJob
<1>4. RefusalIsFinal'
  BY DEF PinInv, PinShape, SubmitType, JobType, RefusalIsFinal, ReadAnswer, Discards, Keying, account, slots, tally, NoSubmit, NoJob
<1>5. Fresh'
  BY DEF PinInv, PinShape, SubmitType, JobType, Fresh, ReadAnswer, Discards, Keying, account, slots, tally, NoSubmit, NoJob
<1>6. Refusals'
  BY DEF PinInv, PinShape, SubmitType, JobType, Refusals, ReadAnswer, Discards, Keying, account, slots, tally, NoSubmit, NoJob
<1>7. Asleep'
  BY DEF PinInv, PinShape, SubmitType, JobType, Asleep, ReadAnswer, Discards, Keying, account, slots, tally, NoSubmit, NoJob
<1>8. Forgotten'
  BY DEF PinInv, PinShape, SubmitType, JobType, Forgotten, Excused, Discarding, ReadAnswer, Discards, Keying, account, slots, tally, NoSubmit, NoJob
<1>9. InStep'
  BY DEF PinInv, PinShape, SubmitType, JobType, InStep, Discarding, ReadAnswer, Discards, Keying, account, slots, tally, NoSubmit, NoJob
<1> QED BY <1>1, <1>2, <1>3, <1>4, <1>5, <1>6, <1>7, <1>8, <1>9 DEF PinInv

LEMMA RestartKeeps ==
  ASSUME PinInv, Restart
  PROVE  PinInv'
<1>0. PICK e \in SUBSET Excuses : Excusing(e) /\ (e = {"delete failed"} \/ ~Discarding)
  BY DEF Restart, Excuses
<1>a. /\ pinHistory' \in [refused : SUBSET Nat, excuses : SUBSET Excuses]
      /\ pinHistory'.refused = pinHistory.refused
      /\ pinHistory'.excuses = pinHistory.excuses \cup e
  BY <1>0, Noted DEF PinInv
<1>b. /\ keypad' = NoSubmit /\ jobs' = [i \in Jobs |-> NoJob]
      /\ presented' = 0 /\ waking'
      /\ UNCHANGED <<account, stored, submits, wrong, spent>>
  BY DEF Restart
<1>1. PinShape'
  BY <1>a, <1>b, AtRest DEF PinInv, PinShape, account
<1>2. Numbered'
  BY <1>a, <1>b DEF PinInv, PinShape, Numbered, NoJob, NoSubmit, account
<1>3. Judged'
  BY DEF PinInv, PinShape, SubmitType, JobType, Judged, Unjudged, Restart, Excusing, Silent, Discarding, Keying, account, slots, tally, NoSubmit, NoJob
<1>4. RefusalIsFinal'
  BY DEF PinInv, PinShape, SubmitType, JobType, RefusalIsFinal, Restart, Excusing, Silent, Discarding, Keying, account, slots, tally, NoSubmit, NoJob
<1>5. Fresh'
  BY DEF PinInv, PinShape, SubmitType, JobType, Fresh, Restart, Excusing, Silent, Discarding, Keying, account, slots, tally, NoSubmit, NoJob
<1>6. Refusals'
  BY DEF PinInv, PinShape, SubmitType, JobType, Refusals, Restart, Excusing, Silent, Discarding, Keying, account, slots, tally, NoSubmit, NoJob
<1>7. Asleep'
  BY DEF PinInv, PinShape, SubmitType, JobType, Asleep, Restart, Excusing, Silent, Discarding, Keying, account, slots, tally, NoSubmit, NoJob
<1>8. Forgotten'
  <2>1. CASE Excused'
    BY <2>1 DEF Forgotten
  <2>2. CASE ~Excused'
    <3>1. ~Excused /\ ~Discarding
      BY <2>2, <1>0, <1>a DEF Excused
    <3>2. 0 \notin pinHistory'.refused /\ stored \notin pinHistory'.refused
      BY <3>1, <1>a DEF PinInv, PinShape, Numbered, Forgotten
    <3> QED BY <3>2, <1>b DEF Forgotten
  <2> QED BY <2>1, <2>2
<1>9. InStep'
  BY DEF PinInv, PinShape, SubmitType, JobType, InStep, Discarding, Restart, Excusing, Silent, Keying, account, slots, tally, NoSubmit, NoJob
<1> QED BY <1>1, <1>2, <1>3, <1>4, <1>5, <1>6, <1>7, <1>8, <1>9 DEF PinInv

LEMMA RestoreKeeps ==
  ASSUME PinInv, Restore
  PROVE  PinInv'
<1>1. PinShape'
  BY DEF PinInv, PinShape, Stages, Replies, Standings, Verdicts, SubmitType, JobType, Excuses, Restore, Keying, account, slots, tally, NoSubmit, NoJob
<1>2. Numbered'
  BY PinAssumption DEF PinInv, PinShape, SubmitType, JobType, Numbered, Restore, Keying, account, slots, tally, NoSubmit, NoJob, PinAssumption
<1>3. Judged'
  BY DEF PinInv, PinShape, SubmitType, JobType, Judged, Unjudged, Restore, Keying, account, slots, tally, NoSubmit, NoJob
<1>4. RefusalIsFinal'
  BY DEF PinInv, PinShape, SubmitType, JobType, RefusalIsFinal, Restore, Keying, account, slots, tally, NoSubmit, NoJob
<1>5. Fresh'
  BY DEF Asleep, PinInv, PinShape, SubmitType, JobType, Fresh, Restore, Keying, account, slots, tally, NoSubmit, NoJob
<1>6. Refusals'
  BY DEF PinInv, PinShape, SubmitType, JobType, Refusals, Restore, Keying, account, slots, tally, NoSubmit, NoJob
<1>7. Asleep'
  BY DEF PinInv, PinShape, SubmitType, JobType, Asleep, Restore, Keying, account, slots, tally, NoSubmit, NoJob
<1>8. Forgotten'
  BY DEF Asleep, PinInv, PinShape, SubmitType, JobType, Forgotten, Excused, Discarding, Restore, Keying, account, slots, tally, NoSubmit, NoJob
<1>9. InStep'
  BY DEF Asleep, PinInv, PinShape, SubmitType, JobType, InStep, Discarding, Restore, Keying, account, slots, tally, NoSubmit, NoJob
<1> QED BY <1>1, <1>2, <1>3, <1>4, <1>5, <1>6, <1>7, <1>8, <1>9 DEF PinInv
LEMMA JudgePinKeeps ==
  ASSUME PinInv, JudgePin
  PROVE  PinInv'
<1>0. keypad.at = "asked" /\ UNCHANGED <<jobs, slots, told, submits, wrong, pinHistory>>
  BY DEF JudgePin, Keying
<1>1. CASE \E r \in Replies \ {"accepted"} :
             /\ keypad' = [keypad EXCEPT !.at = "answered", !.reply = r]
             /\ UNCHANGED <<account, spent>>
  <2>1. PICK r : r \in Replies \ {"accepted"} /\ keypad' = [keypad EXCEPT !.at = "answered", !.reply = r]
    BY <1>1
  <2>2. UNCHANGED <<account, jobs, slots, tally>>
    BY <1>0, <1>1 DEF tally
  <2>3. PICK at : at = "answered"
    OBVIOUS
  <2> QED BY <2>1, <2>2, <2>3, <1>0, Refused
<1>2. CASE /\ TerminalRefusal = "none" /\ attempts > 0 /\ ~keypad.right
           /\ attempts' = attempts - 1 /\ spent' = spent + 1
           /\ keypad' = [keypad EXCEPT !.at = "answered", !.reply = IF attempts = 1 THEN "locked" ELSE "wrong"]
           /\ UNCHANGED <<standing, lapsed, minted, honoured>>
  <2>1. PICK r : r \in {"locked", "wrong"} /\ keypad' = [keypad EXCEPT !.at = "answered", !.reply = r]
    BY <1>2
  <2>2. attempts' \in Nat /\ attempts' <= MaxAttempts
    BY <1>2, PinAssumption DEF PinInv, PinShape, Numbered, PinAssumption
  <2>3. PinShape'
    <3>1. keypad' \in SubmitType
      BY <2>1 DEF PinInv, PinShape, SubmitType, Stages, Replies, Verdicts
    <3>2. spent' \in Nat
      BY <1>2 DEF PinInv, PinShape
    <3>3. UNCHANGED <<jobs, pinHistory, minted, honoured, presented, stored, wrong>>
      BY <1>0, <1>2 DEF slots
    <3> QED BY <2>2, <3>1, <3>2, <3>3 DEF PinInv, PinShape
  <2>4. Numbered'
    BY <1>0, <1>2, <2>1, <2>2 DEF PinInv, PinShape, SubmitType, Numbered, slots
  <2>5. Judged' /\ RefusalIsFinal'
    BY <1>0, <1>2, <2>1 DEF PinInv, PinShape, SubmitType, Judged, Unjudged, RefusalIsFinal
  <2>6. Fresh' /\ Refusals'
    BY <1>0, <1>2, <2>1 DEF PinInv, PinShape, SubmitType, Fresh, Refusals, slots
  <2>7. Asleep'
    BY <1>0, <2>1 DEF PinInv, PinShape, SubmitType, Asleep, slots
  <2>8. Forgotten' /\ InStep'
    BY <1>0, <2>1 DEF PinInv, PinShape, SubmitType, Forgotten, InStep, Excused, Discarding, slots
  <2> QED BY <2>3, <2>4, <2>5, <2>6, <2>7, <2>8 DEF PinInv
<1>3. CASE /\ TerminalRefusal = "none" /\ attempts > 0 /\ keypad.right /\ minted < MaxMinted
           /\ minted' = minted + 1 /\ honoured' = honoured \cup {minted'} /\ attempts' = MaxAttempts
           /\ keypad' = [keypad EXCEPT !.at = "answered", !.reply = "accepted", !.session = minted']
           /\ UNCHANGED <<standing, lapsed, spent>>
  <2>1. minted' \in Nat /\ minted' <= MaxMinted /\ minted < minted' /\ attempts' \in Nat \ {0}
    BY <1>3, PinAssumption DEF PinInv, PinShape, PinAssumption
  <2>2. PinShape'
    BY <1>0, <1>3, <2>1 DEF PinInv, PinShape, SubmitType, Stages, Replies, Verdicts, slots
  <2>3. Numbered'
    BY <1>0, <1>3, <2>1 DEF PinInv, PinShape, SubmitType, JobType, Numbered, slots
  <2>4. Judged' /\ RefusalIsFinal'
    BY <1>0, <1>3 DEF PinInv, PinShape, SubmitType, Judged, Unjudged, RefusalIsFinal
  <2>5. Fresh'
    BY <1>0, <1>3, <2>1 DEF PinInv, PinShape, SubmitType, JobType, Numbered, Fresh, slots
  <2>6. Refusals'
    BY <1>0, <1>3, <2>1 DEF PinInv, PinShape, JobType, Numbered, Refusals
  <2>7. Asleep'
    BY <1>0 DEF PinInv, Asleep, slots
  <2>8. Forgotten' /\ InStep'
    BY <1>0, <1>3 DEF PinInv, PinShape, SubmitType, Forgotten, InStep, Excused, Discarding, slots
  <2> QED BY <2>2, <2>3, <2>4, <2>5, <2>6, <2>7, <2>8 DEF PinInv
<1>4. TerminalRefusal \in {"lapsed", "none"} \cup Standings
  BY DEF TerminalRefusal, PinInv, Numbered
<1> QED BY <1>1, <1>2, <1>3, <1>4 DEF JudgePin, Replies, Verdicts, Standings

LEMMA JudgeRenewalKeeps ==
  ASSUME PinInv, JudgeRenewal
  PROVE  PinInv'
<1>1. PICK r : /\ r \in Replies \ {"accepted"}
               /\ keypad' = [keypad EXCEPT !.at = "renewed", !.reply = r]
  BY DEF JudgeRenewal, PinInv, Numbered, Replies, Standings, Verdicts
<1>2. PICK at : at = "renewed"
  OBVIOUS
<1>3. keypad.at = "renewing" /\ UNCHANGED <<account, jobs, slots, tally>>
  BY DEF JudgeRenewal, Keying
<1> QED BY <1>1, <1>2, <1>3, Refused

LEMMA ReadVerdictKeeps ==
  ASSUME PinInv, ReadVerdict
  PROVE  PinInv'
<1>1. keypad.at = "answered"
  BY DEF ReadVerdict, Keying
<1>2. CASE /\ keypad.reply = "lapsed" /\ keypad.leg = 1
           /\ keypad' = [keypad EXCEPT !.at = "renewing", !.heard = Heard]
           /\ UNCHANGED <<account, jobs, slots, tally>>
  <2>1. Heard \subseteq {"lapsed", "renewed"}
    BY <1>2 DEF Heard, PinInv, PinShape, SubmitType
  <2>2. PICK stage : stage = "renewing"
    OBVIOUS
  <2>3. PICK heard : heard = Heard
    OBVIOUS
  <2> QED BY <1>1, <1>2, <2>1, <2>2, <2>3, Keyed
<1>3. CASE /\ keypad.reply = "accepted" /\ Keys("recording")
           /\ UNCHANGED <<account, jobs, slots, tally>>
  <2>1. PICK stage : stage = "recording"
    OBVIOUS
  <2>2. PICK heard : heard = keypad.heard
    OBVIOUS
  <2>3. heard \subseteq {"lapsed", "renewed"} /\ keypad' = [keypad EXCEPT !.at = stage, !.heard = heard]
    BY <1>3, <2>1, <2>2 DEF Keys, PinInv, PinShape, SubmitType
  <2> QED BY <1>1, <1>3, <2>1, <2>3, Keyed
<1>4. CASE Concludes(OutcomeOf(keypad.reply).what, OutcomeOf(keypad.reply).by)
  <2>1. PICK what, by : Concludes(what, by)
    BY <1>4
  <2> QED BY <1>1, <2>1, Concluded
<1> QED BY <1>2, <1>3, <1>4 DEF ReadVerdict

LEMMA ReadRenewalKeeps ==
  ASSUME PinInv, ReadRenewal
  PROVE  PinInv'
<1>0. keypad.at = "renewed" /\ keypad.leg = 1
  BY DEF ReadRenewal, Keying, PinInv, Judged
<1>1. CASE /\ keypad.reply = "renewed" /\ lapsed' = FALSE
           /\ keypad' = [keypad EXCEPT !.at = "asked", !.leg = @ + 1, !.heard = Heard]
           /\ UNCHANGED <<attempts, standing, minted, honoured, jobs, slots, tally>>
  <2>1. Heard \in SUBSET {"lapsed", "renewed"}
    BY <1>1 DEF Heard, PinInv, PinShape, SubmitType
  <2>2. PICK heard \in SUBSET {"lapsed", "renewed"} :
          keypad' = [keypad EXCEPT !.at = "asked", !.leg = 2, !.heard = heard]
    <3>1. keypad' = [keypad EXCEPT !.at = "asked", !.leg = 1 + 1, !.heard = Heard]
      BY <1>0, <1>1 DEF PinInv, PinShape, SubmitType
    <3>2. keypad' = [keypad EXCEPT !.at = "asked", !.leg = 2, !.heard = Heard]
      BY <3>1
    <3> QED BY <2>1, <3>2
  <2>3. PinShape'
    <3>1. keypad' \in SubmitType
      <4>1. PICK n \in 1..2, stage \in Stages :
              keypad' = [keypad EXCEPT !.at = stage, !.leg = n, !.heard = heard]
        BY <2>2 DEF Stages
      <4> QED BY <4>1 DEF PinInv, PinShape, SubmitType
    <3> QED BY <1>1, <3>1 DEF PinInv, PinShape, slots, tally
  <2>4. Numbered'
    BY <1>1, <2>2 DEF PinInv, PinShape, SubmitType, Numbered, slots, tally
  <2>5. Judged' /\ RefusalIsFinal'
    BY <1>0, <1>1, <2>2 DEF PinInv, PinShape, SubmitType, Judged, Unjudged, RefusalIsFinal, tally
  <2>6. Fresh' /\ Refusals'
    BY <1>1, <2>2 DEF PinInv, PinShape, SubmitType, Fresh, Refusals, slots, tally
  <2>7. Asleep'
    BY <1>0, <1>1 DEF PinInv, Asleep, slots
  <2>8. Forgotten' /\ InStep'
    BY <1>0, <1>1, <2>2 DEF PinInv, PinShape, SubmitType, Forgotten, InStep, Excused, Discarding, slots, tally
  <2> QED BY <2>3, <2>4, <2>5, <2>6, <2>7, <2>8 DEF PinInv
<1>2. CASE Concludes(OutcomeOf(keypad.reply).what, OutcomeOf(keypad.reply).by)
  <2>1. PICK what, by : Concludes(what, by)
    BY <1>2
  <2> QED BY <1>0, <2>1, Concluded
<1> QED BY <1>1, <1>2 DEF ReadRenewal

\* Nobody answered, or not in a form the till reads.
LEMMA SilenceKeeps ==
  ASSUME PinInv, Unreachable \/ Unreadable
  PROVE  PinInv'
<1>1. /\ keypad.at \in {"asked", "answered", "renewing", "renewed"}
      /\ \E what, by : Concludes(what, by)
  BY DEF Unreachable, Unreadable, VerifyOffline
<1>2. PICK what, by : Concludes(what, by)
  BY <1>1
<1> QED BY <1>1, <1>2, Concluded

LEMMA PinInvStarts == PinInit => PinInv
<1> SUFFICES ASSUME PinInit PROVE PinInv
  OBVIOUS
<1>1. PinShape
  BY AtRest, PinAssumption DEF PinInit, PinShape, PinAssumption
<1>2. Numbered
  BY PinAssumption DEF PinInit, Numbered, PinAssumption, NoSubmit, NoJob, Standings
<1>3. Judged /\ RefusalIsFinal
  BY DEF PinInit, Judged, Unjudged, RefusalIsFinal, NoSubmit, Silent
<1>4. Fresh /\ Refusals /\ Asleep
  BY DEF PinInit, Fresh, Refusals, Asleep, NoSubmit, NoJob
<1>5. Forgotten /\ InStep
  BY DEF PinInit, Forgotten, InStep, Excused, Discarding, NoSubmit, NoJob
<1> QED BY <1>1, <1>2, <1>3, <1>4, <1>5 DEF PinInv

\* The conjuncts of the invariant read the variables of the module only.
LEMMA PinInvStutters ==
  ASSUME PinInv, UNCHANGED pinVars
  PROVE  PinInv'
<1>1. UNCHANGED <<attempts, standing, minted, honoured, keypad, jobs, presented, stored, waking,
                  told, submits, wrong, spent, pinHistory>>
  BY DEF pinVars, account, slots, tally
<1> QED BY <1>1 DEF PinInv, PinShape, Numbered, Judged, Unjudged, RefusalIsFinal, Fresh, Refusals,
                    Asleep, Forgotten, InStep, Excused, Discarding

LEMMA PinInvSteps ==
  ASSUME PinInv, [PinNext]_pinVars
  PROVE  PinInv'
<1>1. CASE JudgePin
  BY <1>1, JudgePinKeeps
<1>2. CASE JudgeRenewal
  BY <1>2, JudgeRenewalKeeps
<1>3. CASE PlatformDecides
  BY <1>3, PlatformDecidesKeeps
<1>4. CASE Entry
  BY <1>4, SubmitKeeps, SilenceKeeps, ReadVerdictKeeps, ReadRenewalKeeps, RecordKeeps, PresentKeeps
     DEF Entry
<1>5. CASE \E j \in Jobs : Call(j)
  BY <1>5, SendKeeps, JudgeJobKeeps, LoseKeeps, ClearSlotKeeps, DeleteRowKeeps, ReadAnswerKeeps DEF Call
<1>6. CASE Restart
  BY <1>6, RestartKeeps
<1>7. CASE Restore
  BY <1>7, RestoreKeeps
<1>8. CASE UNCHANGED pinVars
  BY <1>8, PinInvStutters
<1> QED BY <1>1, <1>2, <1>3, <1>4, <1>5, <1>6, <1>7, <1>8 DEF PinNext

\* The inductive invariant holds of every state.
LEMMA PinAlways == PinSpec => []PinInv
  BY PinInvStarts, PinInvSteps, PTL DEF PinSpec

\* The state is well typed, a question is asked at most twice, no more entries are
\* charged than were wrong, and the till decides for itself only when the platform
\* said nothing of the terminal or the PIN: every order of answers, losses,
\* renewals and restarts.
THEOREM PinJudgedAlways == PinSpec => []PinIsJudged
<1>1. PinInv => PinTypeOK
  BY DEF PinInv, PinTypeOK, PinShape, Numbered, SubmitType, JobType, Stages
<1>2. PinInv => EachPinChargedOnce /\ RefusalIsFinal
  BY DEF PinInv, Judged, EachPinChargedOnce
<1>3. PinInv => PinIsJudged
  BY <1>1, <1>2 DEF PinIsJudged
<1> QED BY <1>3, PinAlways, PTL

\* The client's slot and the row on disk hold one session, outside the two writes
\* of a sign-in or a sign-out and the time a start takes to restore the row, as
\* long as no write has failed and no sign-in crossed a sign-out; and a session
\* whose refusal was acted on is presented only after a delete that failed, that
\* the till did not live to make, or that a sign-in crossed.  What the platform
\* holds is not part of it.
THEOREM SessionsAgreeAlways == PinSpec => []SessionsAgree
<1>1. PinInv => RefusedIsNotPresented
  BY DEF PinInv, Forgotten, Excused, RefusedIsNotPresented
<1>2. PinInv => SlotAndRowAgree
  BY DEF PinInv, InStep, Keying, SlotAndRowAgree
<1>3. PinInv => SessionsAgree
  BY <1>1, <1>2 DEF SessionsAgree
<1> QED BY <1>3, PinAlways, PTL

\* No step empties the slot of a session the platform honours, except a restart
\* and the late refusal of an older session.
THEOREM HonouredKept == PinSpec => HonouredIsKept
<1>1. ASSUME PinInv, [PinNext]_pinVars, SlotIsEmptied
      PROVE  waking' \/ \E j \in Jobs : LateRefusal(j)
  <2>1. presented # 0 /\ presented' = 0 /\ presented \in honoured /\ attempts > 0
    BY <1>1 DEF PinInv, PinShape, Numbered, SlotIsEmptied
  <2>2. ASSUME NEW j \in Jobs, ClearSlot(j)
        PROVE  LateRefusal(j)
    <3>1. /\ jobs[j].at = "answered" /\ jobs[j].reply = "refused"
          /\ jobs' = [jobs EXCEPT ![j].at = "discarding"]
      BY <2>2 DEF ClearSlot, Discards
    <3>2. jobs[j].session \notin {0, presented}
      BY <1>1, <2>1, <3>1 DEF PinInv, PinShape, Refusals
    <3> QED BY <1>1, <3>1, <3>2 DEF LateRefusal, PinInv, PinShape, JobType
  <2>3. ~Present
    BY <1>1, <2>1 DEF PinInv, Fresh, Present, Keying
  <2>4. ~Restore
    BY <1>1, <2>1 DEF PinInv, Asleep, Restore
  <2>5. Restart => waking'
    BY DEF Restart
  <2>6. UNCHANGED presented \/ Present \/ Restore \/ Restart \/ \E j \in Jobs : ClearSlot(j)
    <3>1. JudgePin \/ JudgeRenewal \/ PlatformDecides => UNCHANGED presented
      BY DEF JudgePin, JudgeRenewal, PlatformDecides, slots
    <3>2. Entry => UNCHANGED presented \/ Present
      BY DEF Entry, Submit, Unreachable, Unreadable, VerifyOffline, Concludes, ReadVerdict, ReadRenewal,
             Record, slots
    <3>3. ASSUME NEW j \in Jobs, Call(j)
          PROVE  UNCHANGED presented \/ ClearSlot(j)
      BY <3>3 DEF Call, Send, JudgeJob, Lose, DeleteRow, ReadAnswer, slots
    <3>4. UNCHANGED pinVars => UNCHANGED presented
      BY DEF pinVars, slots
    <3> QED BY <1>1, <3>1, <3>2, <3>3, <3>4 DEF PinNext
  <2> QED BY <2>1, <2>2, <2>3, <2>4, <2>5, <2>6
<1>2. PinInv /\ [PinNext]_pinVars
        => [SlotIsEmptied => waking' \/ \E j \in Jobs : LateRefusal(j)]_pinVars
  BY <1>1
<1> QED BY <1>2, PinAlways, PTL DEF PinSpec, HonouredIsKept
=============================================================================
