--------------------------- MODULE PrintingProofs ---------------------------
(***************************************************************************)
(* What is printed is what was built, for a receipt of any number of items *)
(* and payments, any number of documents, and writes that fail anywhere.   *)
(*                                                                         *)
(* A document is led through stages, one before and after each of its      *)
(* calls, that say what the device and the console must be like there      *)
(* (Leads, proved part by part of each document); the bytes of a call take *)
(* either from the stage before it to the stage after it (CommandByte,     *)
(* LineByte, ConsoleByte); and PrintInv says that at every byte a job is   *)
(* where its stage has it, in the middle of a call as between calls.       *)
(***************************************************************************)
EXTENDS Printing, FiniteSetTheorems, SequenceTheorems, TLAPS

-----------------------------------------------------------------------------
(* Documents, call by call.                                                *)

\* What a call may be: a line of a sort, or a command with its parameter.
Sorts  == {"title", "heading", "total", "centred", "row", "text", "rule", "blank"}
QrDoings == {"qr model", "qr size", "qr level", "qr store", "qr print"}
Doings == {"init", "page", "align", "size", "bold", "feed", "cut", "drawer", "height", "width", "below",
           "barcode"} \cup QrDoings
Params == {0, 1, 2, 3, 4, 5, 17, 23, 48, 49, 60}
AllCalls == [do : {"line"}, n : {0}, as : Sorts] \cup [do : Doings, n : Params, as : {"nothing"}]

\* A stage of a document: whether the device has been reset, the modes it must be in,
\* whether the console still skips a byte when the next call begins, whether it has
\* taken a command's bytes for text, and the cuts and pulses made and still owed.
Tallies == [cuts : Nat, kicks : Nat, owed : Nat]
Stages  == [begun : {0, 1}, modes : [bold : Params, size : Params, align : Params], skip : {0, 1},
            junk : {0, 1}, tally : Tallies]

\* What a call makes of a stage.
AfterModes(m, c) ==
  IF c.do = "init" THEN Modes
  ELSE [bold |-> IF c.do = "bold" THEN c.n ELSE m.bold, size |-> IF c.do = "size" THEN c.n ELSE m.size,
        align |-> IF c.do = "align" THEN c.n ELSE m.align]
AfterTally(t, c) ==
  [cuts |-> IF c.do = "cut" THEN t.cuts + 1 ELSE t.cuts,
   kicks |-> IF c.do = "drawer" THEN t.kicks + 1 ELSE t.kicks,
   owed |-> IF c.do = "drawer" THEN t.owed - 1 ELSE t.owed]
After(a, c) ==
  [begun |-> 1, modes |-> AfterModes(a.modes, c),
   skip |-> IF a.skip = 0 /\ c.do \in {"init", "size", "cut", "height", "width", "below"} THEN 1 ELSE 0,
   junk |-> IF c.do # "line" /\ (a.junk = 1 \/ a.skip = 1 \/ c.do \in {"drawer", "barcode"} \cup QrDoings)
            THEN 1 ELSE 0,
   tally |-> AfterTally(a.tally, c)]

\* A call that may be made at a stage: what is seen is set as it is meant to look, a
\* figure begins on a console that skips nothing and has nothing stray, no blank line
\* meets one that skips, and no pulse is sent that was not asked for.
Fits(a, c) ==
  /\ c \in AllCalls /\ a \in Stages
  /\ a.begun = 1 \/ c.do = "init"
  /\ IsSeen(c) => a.modes = Look(IF c.do = "line" THEN c.as ELSE "centred")
  /\ IsFigure(c) => a.skip = 0 /\ a.junk = 0
  /\ c.do = "line" /\ a.skip = 1 => c.as # "blank"
  /\ c.do = "drawer" => a.tally.owed > 0

\* The calls s lead from the stage a to the stage b, each of them fitting.
StagesOf(g, s, a, b) ==
  /\ s \in Seq(AllCalls) /\ g \in [0..Len(s) -> Stages] /\ g[0] = a /\ g[Len(s)] = b
  /\ \A i \in 1..Len(s) : Fits(g[i - 1], s[i]) /\ g[i] = After(g[i - 1], s[i])
Leads(s, a, b) == \E g : StagesOf(g, s, a, b)

\* No calls leave a document where it is, one takes it a stage on, and two parts of
\* a document lead from the first's stage to the second's.
LEMMA NoCalls == ASSUME NEW a \in Stages PROVE Leads(<<>>, a, a)
<1> DEFINE g == [i \in 0..0 |-> a]
<1>1. StagesOf(g, <<>>, a, a)  BY DEF StagesOf
<1> QED  BY <1>1 DEF Leads

LEMMA AfterIsAStage == ASSUME NEW a, NEW c, Fits(a, c) PROVE After(a, c) \in Stages
<1>1. AfterModes(a.modes, c) \in [bold : Params, size : Params, align : Params]
  BY DEF Fits, AllCalls, AfterModes, Modes, Stages, Params
<1>2. AfterTally(a.tally, c) \in Tallies
  BY DEF Fits, AllCalls, AfterTally, Tallies, Stages
<1> QED  BY <1>1, <1>2 DEF After, Stages

LEMMA OneCall == ASSUME NEW a, NEW c, Fits(a, c) PROVE Leads(<<c>>, a, After(a, c))
<1> DEFINE g == [i \in 0..1 |-> IF i = 0 THEN a ELSE After(a, c)]
<1>1. After(a, c) \in Stages  BY AfterIsAStage
<1>2. a \in Stages /\ c \in AllCalls  BY DEF Fits
<1>3. <<c>> \in Seq(AllCalls) /\ Len(<<c>>) = 1 /\ <<c>>[1] = c  BY <1>2
<1>4. g \in [0..1 -> Stages] /\ g[0] = a /\ g[1] = After(a, c)  BY <1>1, <1>2
<1> HIDE DEF g
<1>5. StagesOf(g, <<c>>, a, After(a, c))  BY <1>3, <1>4 DEF StagesOf
<1> QED  BY <1>5 DEF Leads

LEMMA ThenCalls ==
  ASSUME NEW s, NEW t, NEW a, NEW b, NEW c, Leads(s, a, b), Leads(t, b, c) PROVE Leads(s \o t, a, c)
<1>1. PICK f : StagesOf(f, s, a, b)  BY DEF Leads
<1>2. PICK h : StagesOf(h, t, b, c)  BY DEF Leads
<1> DEFINE n == Len(s)
           m == Len(t)
           g == [i \in 0..(n + m) |-> IF i <= n THEN f[i] ELSE h[i - n]]
<1>3. s \in Seq(AllCalls) /\ t \in Seq(AllCalls) /\ n \in Nat /\ m \in Nat
  BY <1>1, <1>2 DEF StagesOf
<1>4. s \o t \in Seq(AllCalls) /\ Len(s \o t) = n + m  BY <1>3
<1>5. \A i \in 1..(n + m) : (s \o t)[i] = IF i <= n THEN s[i] ELSE t[i - n]  BY <1>3
<1>6. f \in [0..n -> Stages] /\ h \in [0..m -> Stages] /\ f[n] = b /\ h[0] = b
  BY <1>1, <1>2 DEF StagesOf
<1>7. g \in [0..(n + m) -> Stages]  BY <1>3, <1>6
<1>8. g[0] = a /\ g[n + m] = c
  <2>1. f[0] = a /\ h[m] = c  BY <1>1, <1>2 DEF StagesOf
  <2>2. CASE m = 0  BY <2>1, <2>2, <1>3, <1>6
  <2>3. CASE m # 0  BY <2>1, <2>3, <1>3, <1>6
  <2> QED  BY <2>2, <2>3
<1>9. \A i \in 1..(n + m) : Fits(g[i - 1], (s \o t)[i]) /\ g[i] = After(g[i - 1], (s \o t)[i])
  <2> TAKE i \in 1..(n + m)
  <2>1. CASE i <= n
    <3>1. i \in 1..n /\ g[i - 1] = f[i - 1] /\ g[i] = f[i] /\ (s \o t)[i] = s[i]  BY <2>1, <1>3, <1>5
    <3> QED  BY <3>1, <1>1 DEF StagesOf
  <2>2. CASE i > n
    <3>1. i - n \in 1..m /\ g[i] = h[i - n] /\ (s \o t)[i] = t[i - n]  BY <2>2, <1>3, <1>5
    <3>2. g[i - 1] = h[(i - n) - 1]  BY <2>2, <1>3, <1>6
    <3> QED  BY <3>1, <3>2, <1>2 DEF StagesOf
  <2> QED  BY <2>1, <2>2, <1>3
<1> HIDE DEF g
<1>10. StagesOf(g, s \o t, a, c)  BY <1>4, <1>7, <1>8, <1>9 DEF StagesOf
<1> QED  BY <1>10 DEF Leads

\* Calls that change nothing.
LEMMA IdleCalls ==
  ASSUME NEW a \in Stages, NEW s \in Seq(AllCalls), \A i \in 1..Len(s) : Fits(a, s[i]) /\ After(a, s[i]) = a
  PROVE  Leads(s, a, a)
<1> DEFINE g == [i \in 0..Len(s) |-> a]
<1>1. StagesOf(g, s, a, a)  BY DEF StagesOf
<1> QED  BY <1>1 DEF Leads

\* One call from a stage to a stage.
Takes1(a, c, b) == Fits(a, c) /\ After(a, c) = b

\* Short runs of calls, each from the stage the last one left.
LEMMA TwoCalls ==
  ASSUME NEW a, NEW b, NEW e, NEW c1, NEW c2, Takes1(a, c1, b), Takes1(b, c2, e)
  PROVE  Leads(<<c1, c2>>, a, e)
<1> DEFINE s == <<c1, c2>>
           g == [i \in 0..2 |-> IF i = 0 THEN a ELSE IF i = 1 THEN b ELSE e]
<1>1. a \in Stages /\ b \in Stages /\ e \in Stages /\ c1 \in AllCalls /\ c2 \in AllCalls
  BY AfterIsAStage DEF Takes1, Fits
<1>2. s \in Seq(AllCalls) /\ Len(s) = 2 /\ s[1] = c1 /\ s[2] = c2  BY <1>1
<1>3. g \in [0..2 -> Stages] /\ g[0] = a /\ g[1] = b /\ g[2] = e  BY <1>1
<1> HIDE DEF g, s
<1>4. \A i \in 1..2 : Fits(g[i - 1], s[i]) /\ g[i] = After(g[i - 1], s[i])
  <2> TAKE i \in 1..2
  <2>1. CASE i = 1  BY <2>1, <1>2, <1>3 DEF Takes1
  <2>2. CASE i = 2  BY <2>2, <1>2, <1>3 DEF Takes1
  <2> QED  BY <2>1, <2>2
<1>5. StagesOf(g, s, a, e)  BY <1>2, <1>3, <1>4 DEF StagesOf
<1> QED  BY <1>5 DEF Leads, s

LEMMA FourCalls ==
  ASSUME NEW a, NEW b, NEW e, NEW f, NEW h, NEW c1, NEW c2, NEW c3, NEW c4,
         Takes1(a, c1, b), Takes1(b, c2, e), Takes1(e, c3, f), Takes1(f, c4, h)
  PROVE  Leads(<<c1, c2, c3, c4>>, a, h)
<1> DEFINE s == <<c1, c2, c3, c4>>
           g == [i \in 0..4 |-> IF i = 0 THEN a ELSE IF i = 1 THEN b ELSE IF i = 2 THEN e
                 ELSE IF i = 3 THEN f ELSE h]
<1>1. /\ a \in Stages /\ b \in Stages /\ e \in Stages /\ f \in Stages /\ h \in Stages
      /\ c1 \in AllCalls /\ c2 \in AllCalls /\ c3 \in AllCalls /\ c4 \in AllCalls
  BY AfterIsAStage DEF Takes1, Fits
<1>2. s \in Seq(AllCalls) /\ Len(s) = 4 /\ s[1] = c1 /\ s[2] = c2 /\ s[3] = c3 /\ s[4] = c4  BY <1>1
<1>3. g \in [0..4 -> Stages] /\ g[0] = a /\ g[1] = b /\ g[2] = e /\ g[3] = f /\ g[4] = h  BY <1>1
<1> HIDE DEF g, s
<1>4. \A i \in 1..4 : Fits(g[i - 1], s[i]) /\ g[i] = After(g[i - 1], s[i])
  <2> TAKE i \in 1..4
  <2>1. CASE i = 1  BY <2>1, <1>2, <1>3 DEF Takes1
  <2>2. CASE i = 2  BY <2>2, <1>2, <1>3 DEF Takes1
  <2>3. CASE i = 3  BY <2>3, <1>2, <1>3 DEF Takes1
  <2>4. CASE i = 4  BY <2>4, <1>2, <1>3 DEF Takes1
  <2> QED  BY <2>1, <2>2, <2>3, <2>4
<1>5. StagesOf(g, s, a, h)  BY <1>2, <1>3, <1>4 DEF StagesOf
<1> QED  BY <1>5 DEF Leads, s

LEMMA FiveCalls ==
  ASSUME NEW a, NEW b, NEW e, NEW f, NEW h, NEW k, NEW c1, NEW c2, NEW c3, NEW c4, NEW c5,
         Takes1(a, c1, b), Takes1(b, c2, e), Takes1(e, c3, f), Takes1(f, c4, h), Takes1(h, c5, k)
  PROVE  Leads(<<c1, c2, c3, c4, c5>>, a, k)
<1> DEFINE s == <<c1, c2, c3, c4, c5>>
           g == [i \in 0..5 |-> IF i = 0 THEN a ELSE IF i = 1 THEN b ELSE IF i = 2 THEN e ELSE IF i = 3 THEN f
                                ELSE IF i = 4 THEN h ELSE k]
<1>1. /\ a \in Stages /\ b \in Stages /\ e \in Stages /\ f \in Stages /\ h \in Stages /\ k \in Stages
      /\ c1 \in AllCalls /\ c2 \in AllCalls /\ c3 \in AllCalls /\ c4 \in AllCalls /\ c5 \in AllCalls
  BY AfterIsAStage DEF Takes1, Fits
<1>2. s \in Seq(AllCalls) /\ Len(s) = 5 /\ s[1] = c1 /\ s[2] = c2 /\ s[3] = c3 /\ s[4] = c4 /\ s[5] = c5
  BY <1>1
<1>3. g \in [0..5 -> Stages] /\ g[0] = a /\ g[1] = b /\ g[2] = e /\ g[3] = f /\ g[4] = h /\ g[5] = k  BY <1>1
<1> HIDE DEF g, s
<1>4. \A i \in 1..5 : Fits(g[i - 1], s[i]) /\ g[i] = After(g[i - 1], s[i])
  <2> TAKE i \in 1..5
  <2>1. CASE i = 1  BY <2>1, <1>2, <1>3 DEF Takes1
  <2>2. CASE i = 2  BY <2>2, <1>2, <1>3 DEF Takes1
  <2>3. CASE i = 3  BY <2>3, <1>2, <1>3 DEF Takes1
  <2>4. CASE i = 4  BY <2>4, <1>2, <1>3 DEF Takes1
  <2>5. CASE i = 5  BY <2>5, <1>2, <1>3 DEF Takes1
  <2> QED  BY <2>1, <2>2, <2>3, <2>4, <2>5
<1>5. StagesOf(g, s, a, k)  BY <1>2, <1>3, <1>4 DEF StagesOf
<1> QED  BY <1>5 DEF Leads, s

\* A stage after the reset: bold, size, align, skip, junk, tally.
St(b, z, l, k, j, t) ==
  [begun |-> 1, modes |-> [bold |-> b, size |-> z, align |-> l], skip |-> k, junk |-> j, tally |-> t]

IsSt(a, b, z, l, k, j, t) ==
  /\ a \in Stages /\ a.begun = 1 /\ a.modes.bold = b /\ a.modes.size = z /\ a.modes.align = l
  /\ a.skip = k /\ a.junk = j /\ a.tally = t /\ a.modes = [bold |-> b, size |-> z, align |-> l]

\* A stage is known by its six parts.
LEMMA StageIs ==
  ASSUME NEW b \in Params, NEW z \in Params, NEW l \in Params, NEW k \in {0, 1}, NEW j \in {0, 1},
         NEW t \in Tallies
  PROVE  IsSt(St(b, z, l, k, j, t), b, z, l, k, j, t)
  BY DEF St, Stages, IsSt

\* Whether the console is left with stray text by a command more.
Dirt(k, j) == IF k = 1 \/ j = 1 THEN 1 ELSE 0

\* A tally after a cut, and after a pulse.
Cut(t)    == [cuts |-> t.cuts + 1, kicks |-> t.kicks, owed |-> t.owed]
Opened(t) == [cuts |-> t.cuts, kicks |-> t.kicks + 1, owed |-> t.owed - 1]

\* What each command makes of a stage.
LEMMA AlignTakes ==
  ASSUME NEW b \in Params, NEW z \in Params, NEW l \in Params, NEW k \in {0, 1}, NEW j \in {0, 1},
         NEW t \in Tallies,
         NEW n \in {0, 1}
  PROVE  Takes1(St(b, z, l, k, j, t), Call("align", n), St(b, z, n, 0, Dirt(k, j), t))
<1> DEFINE a == St(b, z, l, k, j, t)
           c == Call("align", n)
<1>1. IsSt(a, b, z, l, k, j, t)  BY StageIs
<1>0. "align" \in Doings /\ n \in Params  BY DEF Doings, QrDoings, Params
<1>2. c \in AllCalls /\ c.do = "align" /\ c.n = n  BY <1>0 DEF AllCalls, Call
<1> HIDE DEF a, c
<1>3. Fits(a, c)
  BY <1>1, <1>2 DEF Fits, IsSeen, IsFigure, IsSt
<1>4. AfterModes(a.modes, c) = [bold |-> b, size |-> z, align |-> n]
  BY <1>1, <1>2 DEF IsSt, AfterModes, Modes
<1>5. AfterTally(a.tally, c) = t
  BY <1>1, <1>2 DEF IsSt, AfterTally, Tallies, Cut, Opened
<1>6. (IF c.do # "line" /\ (a.junk = 1 \/ a.skip = 1 \/ c.do \in {"drawer", "barcode"} \cup QrDoings)
       THEN 1 ELSE 0) = Dirt(k, j)
  BY <1>1, <1>2 DEF IsSt, QrDoings, Dirt
<1>7. (IF a.skip = 0 /\ c.do \in {"init", "size", "cut", "height", "width", "below"} THEN 1 ELSE 0) = 0
  BY <1>1, <1>2 DEF IsSt, QrDoings
<1>8. After(a, c) = St(b, z, n, 0, Dirt(k, j), t)
  BY <1>4, <1>5, <1>6, <1>7 DEF After, St
<1> QED  BY <1>3, <1>8 DEF Takes1, a, c

LEMMA BoldTakes ==
  ASSUME NEW b \in Params, NEW z \in Params, NEW l \in Params, NEW k \in {0, 1}, NEW j \in {0, 1},
         NEW t \in Tallies,
         NEW n \in {0, 1}
  PROVE  Takes1(St(b, z, l, k, j, t), Call("bold", n), St(n, z, l, 0, Dirt(k, j), t))
<1> DEFINE a == St(b, z, l, k, j, t)
           c == Call("bold", n)
<1>1. IsSt(a, b, z, l, k, j, t)  BY StageIs
<1>0. "bold" \in Doings /\ n \in Params  BY DEF Doings, QrDoings, Params
<1>2. c \in AllCalls /\ c.do = "bold" /\ c.n = n  BY <1>0 DEF AllCalls, Call
<1> HIDE DEF a, c
<1>3. Fits(a, c)
  BY <1>1, <1>2 DEF Fits, IsSeen, IsFigure, IsSt
<1>4. AfterModes(a.modes, c) = [bold |-> n, size |-> z, align |-> l]
  BY <1>1, <1>2 DEF IsSt, AfterModes, Modes
<1>5. AfterTally(a.tally, c) = t
  BY <1>1, <1>2 DEF IsSt, AfterTally, Tallies, Cut, Opened
<1>6. (IF c.do # "line" /\ (a.junk = 1 \/ a.skip = 1 \/ c.do \in {"drawer", "barcode"} \cup QrDoings)
       THEN 1 ELSE 0) = Dirt(k, j)
  BY <1>1, <1>2 DEF IsSt, QrDoings, Dirt
<1>7. (IF a.skip = 0 /\ c.do \in {"init", "size", "cut", "height", "width", "below"} THEN 1 ELSE 0) = 0
  BY <1>1, <1>2 DEF IsSt, QrDoings
<1>8. After(a, c) = St(n, z, l, 0, Dirt(k, j), t)
  BY <1>4, <1>5, <1>6, <1>7 DEF After, St
<1> QED  BY <1>3, <1>8 DEF Takes1, a, c

LEMMA SizeTakes ==
  ASSUME NEW b \in Params, NEW z \in Params, NEW l \in Params, NEW k \in {0, 1}, NEW j \in {0, 1},
         NEW t \in Tallies,
         NEW n \in {0, 17}
  PROVE  Takes1(St(b, z, l, k, j, t), Call("size", n), St(b, n, l, 1 - k, Dirt(k, j), t))
<1> DEFINE a == St(b, z, l, k, j, t)
           c == Call("size", n)
<1>1. IsSt(a, b, z, l, k, j, t)  BY StageIs
<1>0. "size" \in Doings /\ n \in Params  BY DEF Doings, QrDoings, Params
<1>2. c \in AllCalls /\ c.do = "size" /\ c.n = n  BY <1>0 DEF AllCalls, Call
<1> HIDE DEF a, c
<1>3. Fits(a, c)
  BY <1>1, <1>2 DEF Fits, IsSeen, IsFigure, IsSt
<1>4. AfterModes(a.modes, c) = [bold |-> b, size |-> n, align |-> l]
  BY <1>1, <1>2 DEF IsSt, AfterModes, Modes
<1>5. AfterTally(a.tally, c) = t
  BY <1>1, <1>2 DEF IsSt, AfterTally, Tallies, Cut, Opened
<1>6. (IF c.do # "line" /\ (a.junk = 1 \/ a.skip = 1 \/ c.do \in {"drawer", "barcode"} \cup QrDoings)
       THEN 1 ELSE 0) = Dirt(k, j)
  BY <1>1, <1>2 DEF IsSt, QrDoings, Dirt
<1>7. (IF a.skip = 0 /\ c.do \in {"init", "size", "cut", "height", "width", "below"} THEN 1 ELSE 0) = 1 - k
  BY <1>1, <1>2 DEF IsSt, QrDoings
<1>8. After(a, c) = St(b, n, l, 1 - k, Dirt(k, j), t)
  BY <1>4, <1>5, <1>6, <1>7 DEF After, St
<1> QED  BY <1>3, <1>8 DEF Takes1, a, c

LEMMA PlainTakes ==
  ASSUME NEW b \in Params, NEW z \in Params, NEW l \in Params, NEW k \in {0, 1}, NEW j \in {0, 1},
         NEW t \in Tallies,
         NEW do \in {"page", "feed"}, NEW n \in Params
  PROVE  Takes1(St(b, z, l, k, j, t), Call(do, n), St(b, z, l, 0, Dirt(k, j), t))
<1> DEFINE a == St(b, z, l, k, j, t)
           c == Call(do, n)
<1>1. IsSt(a, b, z, l, k, j, t)  BY StageIs
<1>0. do \in Doings /\ n \in Params  BY DEF Doings, QrDoings, Params
<1>2. c \in AllCalls /\ c.do = do /\ c.n = n  BY <1>0 DEF AllCalls, Call
<1> HIDE DEF a, c
<1>3. Fits(a, c)
  BY <1>1, <1>2 DEF Fits, IsSeen, IsFigure, IsSt
<1>4. AfterModes(a.modes, c) = [bold |-> b, size |-> z, align |-> l]
  BY <1>1, <1>2 DEF IsSt, AfterModes, Modes
<1>5. AfterTally(a.tally, c) = t
  BY <1>1, <1>2 DEF IsSt, AfterTally, Tallies, Cut, Opened
<1>6. (IF c.do # "line" /\ (a.junk = 1 \/ a.skip = 1 \/ c.do \in {"drawer", "barcode"} \cup QrDoings)
       THEN 1 ELSE 0) = Dirt(k, j)
  BY <1>1, <1>2 DEF IsSt, QrDoings, Dirt
<1>7. (IF a.skip = 0 /\ c.do \in {"init", "size", "cut", "height", "width", "below"} THEN 1 ELSE 0) = 0
  BY <1>1, <1>2 DEF IsSt, QrDoings
<1>8. After(a, c) = St(b, z, l, 0, Dirt(k, j), t)
  BY <1>4, <1>5, <1>6, <1>7 DEF After, St
<1> QED  BY <1>3, <1>8 DEF Takes1, a, c

LEMMA CodeTakes ==
  ASSUME NEW b \in Params, NEW z \in Params, NEW l \in Params, NEW k \in {0, 1}, NEW j \in {0, 1},
         NEW t \in Tallies,
         NEW do \in {"height", "width", "below"}, NEW n \in Params
  PROVE  Takes1(St(b, z, l, k, j, t), Call(do, n), St(b, z, l, 1 - k, Dirt(k, j), t))
<1> DEFINE a == St(b, z, l, k, j, t)
           c == Call(do, n)
<1>1. IsSt(a, b, z, l, k, j, t)  BY StageIs
<1>0. do \in Doings /\ n \in Params  BY DEF Doings, QrDoings, Params
<1>2. c \in AllCalls /\ c.do = do /\ c.n = n  BY <1>0 DEF AllCalls, Call
<1> HIDE DEF a, c
<1>3. Fits(a, c)
  BY <1>1, <1>2 DEF Fits, IsSeen, IsFigure, IsSt
<1>4. AfterModes(a.modes, c) = [bold |-> b, size |-> z, align |-> l]
  BY <1>1, <1>2 DEF IsSt, AfterModes, Modes
<1>5. AfterTally(a.tally, c) = t
  BY <1>1, <1>2 DEF IsSt, AfterTally, Tallies, Cut, Opened
<1>6. (IF c.do # "line" /\ (a.junk = 1 \/ a.skip = 1 \/ c.do \in {"drawer", "barcode"} \cup QrDoings)
       THEN 1 ELSE 0) = Dirt(k, j)
  BY <1>1, <1>2 DEF IsSt, QrDoings, Dirt
<1>7. (IF a.skip = 0 /\ c.do \in {"init", "size", "cut", "height", "width", "below"} THEN 1 ELSE 0) = 1 - k
  BY <1>1, <1>2 DEF IsSt, QrDoings
<1>8. After(a, c) = St(b, z, l, 1 - k, Dirt(k, j), t)
  BY <1>4, <1>5, <1>6, <1>7 DEF After, St
<1> QED  BY <1>3, <1>8 DEF Takes1, a, c

LEMMA QrTakes ==
  ASSUME NEW b \in Params, NEW z \in Params, NEW l \in Params, NEW k \in {0, 1}, NEW j \in {0, 1},
         NEW t \in Tallies,
         NEW do \in {"qr model", "qr size", "qr level", "qr store"}, NEW n \in Params
  PROVE  Takes1(St(b, z, l, k, j, t), Call(do, n), St(b, z, l, 0, 1, t))
<1> DEFINE a == St(b, z, l, k, j, t)
           c == Call(do, n)
<1>1. IsSt(a, b, z, l, k, j, t)  BY StageIs
<1>0. do \in Doings /\ n \in Params  BY DEF Doings, QrDoings, Params
<1>2. c \in AllCalls /\ c.do = do /\ c.n = n  BY <1>0 DEF AllCalls, Call
<1> HIDE DEF a, c
<1>3. Fits(a, c)
  BY <1>1, <1>2 DEF Fits, IsSeen, IsFigure, IsSt
<1>4. AfterModes(a.modes, c) = [bold |-> b, size |-> z, align |-> l]
  BY <1>1, <1>2 DEF IsSt, AfterModes, Modes
<1>5. AfterTally(a.tally, c) = t
  BY <1>1, <1>2 DEF IsSt, AfterTally, Tallies, Cut, Opened
<1>6. (IF c.do # "line" /\ (a.junk = 1 \/ a.skip = 1 \/ c.do \in {"drawer", "barcode"} \cup QrDoings)
       THEN 1 ELSE 0) = 1
  BY <1>1, <1>2 DEF IsSt, QrDoings, Dirt
<1>7. (IF a.skip = 0 /\ c.do \in {"init", "size", "cut", "height", "width", "below"} THEN 1 ELSE 0) = 0
  BY <1>1, <1>2 DEF IsSt, QrDoings
<1>8. After(a, c) = St(b, z, l, 0, 1, t)
  BY <1>4, <1>5, <1>6, <1>7 DEF After, St
<1> QED  BY <1>3, <1>8 DEF Takes1, a, c

LEMMA PrintTakes ==
  ASSUME NEW b \in Params, NEW z \in Params, NEW l \in Params, NEW k \in {0, 1}, NEW j \in {0, 1},
         NEW t \in Tallies,
         NEW do \in {"barcode", "qr print"}, NEW n \in Params,
         [bold |-> b, size |-> z, align |-> l] = Look("centred")
  PROVE  Takes1(St(b, z, l, k, j, t), Call(do, n), St(b, z, l, 0, 1, t))
<1> DEFINE a == St(b, z, l, k, j, t)
           c == Call(do, n)
<1>1. IsSt(a, b, z, l, k, j, t)  BY StageIs
<1>0. do \in Doings /\ n \in Params  BY DEF Doings, QrDoings, Params
<1>2. c \in AllCalls /\ c.do = do /\ c.n = n  BY <1>0 DEF AllCalls, Call
<1> HIDE DEF a, c
<1>3. Fits(a, c)
  BY <1>1, <1>2 DEF Fits, IsSeen, IsFigure, IsSt
<1>4. AfterModes(a.modes, c) = [bold |-> b, size |-> z, align |-> l]
  BY <1>1, <1>2 DEF IsSt, AfterModes, Modes
<1>5. AfterTally(a.tally, c) = t
  BY <1>1, <1>2 DEF IsSt, AfterTally, Tallies, Cut, Opened
<1>6. (IF c.do # "line" /\ (a.junk = 1 \/ a.skip = 1 \/ c.do \in {"drawer", "barcode"} \cup QrDoings)
       THEN 1 ELSE 0) = 1
  BY <1>1, <1>2 DEF IsSt, QrDoings, Dirt
<1>7. (IF a.skip = 0 /\ c.do \in {"init", "size", "cut", "height", "width", "below"} THEN 1 ELSE 0) = 0
  BY <1>1, <1>2 DEF IsSt, QrDoings
<1>8. After(a, c) = St(b, z, l, 0, 1, t)
  BY <1>4, <1>5, <1>6, <1>7 DEF After, St
<1> QED  BY <1>3, <1>8 DEF Takes1, a, c

LEMMA CutTakes ==
  ASSUME NEW b \in Params, NEW z \in Params, NEW l \in Params, NEW k \in {0, 1}, NEW j \in {0, 1},
         NEW t \in Tallies
  PROVE  Takes1(St(b, z, l, k, j, t), Call("cut", 0), St(b, z, l, 1 - k, Dirt(k, j), Cut(t)))
<1> DEFINE a == St(b, z, l, k, j, t)
           c == Call("cut", 0)
<1>1. IsSt(a, b, z, l, k, j, t)  BY StageIs
<1>0. "cut" \in Doings /\ 0 \in Params  BY DEF Doings, QrDoings, Params
<1>2. c \in AllCalls /\ c.do = "cut" /\ c.n = 0  BY <1>0 DEF AllCalls, Call
<1> HIDE DEF a, c
<1>3. Fits(a, c)
  BY <1>1, <1>2 DEF Fits, IsSeen, IsFigure, IsSt
<1>4. AfterModes(a.modes, c) = [bold |-> b, size |-> z, align |-> l]
  BY <1>1, <1>2 DEF IsSt, AfterModes, Modes
<1>5. AfterTally(a.tally, c) = Cut(t)
  BY <1>1, <1>2 DEF IsSt, AfterTally, Tallies, Cut, Opened
<1>6. (IF c.do # "line" /\ (a.junk = 1 \/ a.skip = 1 \/ c.do \in {"drawer", "barcode"} \cup QrDoings)
       THEN 1 ELSE 0) = Dirt(k, j)
  BY <1>1, <1>2 DEF IsSt, QrDoings, Dirt
<1>7. (IF a.skip = 0 /\ c.do \in {"init", "size", "cut", "height", "width", "below"} THEN 1 ELSE 0) = 1 - k
  BY <1>1, <1>2 DEF IsSt, QrDoings
<1>8. After(a, c) = St(b, z, l, 1 - k, Dirt(k, j), Cut(t))
  BY <1>4, <1>5, <1>6, <1>7 DEF After, St
<1> QED  BY <1>3, <1>8 DEF Takes1, a, c

LEMMA DrawerTakes ==
  ASSUME NEW b \in Params, NEW z \in Params, NEW l \in Params, NEW k \in {0, 1}, NEW j \in {0, 1},
         NEW t \in Tallies,
         t.owed > 0
  PROVE  Takes1(St(b, z, l, k, j, t), Call("drawer", 0), St(b, z, l, 0, 1, Opened(t)))
<1> DEFINE a == St(b, z, l, k, j, t)
           c == Call("drawer", 0)
<1>1. IsSt(a, b, z, l, k, j, t)  BY StageIs
<1>0. "drawer" \in Doings /\ 0 \in Params  BY DEF Doings, QrDoings, Params
<1>2. c \in AllCalls /\ c.do = "drawer" /\ c.n = 0  BY <1>0 DEF AllCalls, Call
<1> HIDE DEF a, c
<1>3. Fits(a, c)
  BY <1>1, <1>2 DEF Fits, IsSeen, IsFigure, IsSt
<1>4. AfterModes(a.modes, c) = [bold |-> b, size |-> z, align |-> l]
  BY <1>1, <1>2 DEF IsSt, AfterModes, Modes
<1>5. AfterTally(a.tally, c) = Opened(t)
  BY <1>1, <1>2 DEF IsSt, AfterTally, Tallies, Cut, Opened
<1>6. (IF c.do # "line" /\ (a.junk = 1 \/ a.skip = 1 \/ c.do \in {"drawer", "barcode"} \cup QrDoings)
       THEN 1 ELSE 0) = 1
  BY <1>1, <1>2 DEF IsSt, QrDoings, Dirt
<1>7. (IF a.skip = 0 /\ c.do \in {"init", "size", "cut", "height", "width", "below"} THEN 1 ELSE 0) = 0
  BY <1>1, <1>2 DEF IsSt, QrDoings
<1>8. After(a, c) = St(b, z, l, 0, 1, Opened(t))
  BY <1>4, <1>5, <1>6, <1>7 DEF After, St
<1> QED  BY <1>3, <1>8 DEF Takes1, a, c

\* Before the first call nothing is known of the modes.
Start(t) == [begun |-> 0, modes |-> [bold |-> 0, size |-> 0, align |-> 0], skip |-> 0, junk |-> 0, tally |-> t]

LEMMA InitTakes ==
  ASSUME NEW t \in Tallies PROVE Takes1(Start(t), Call("init", 0), St(0, 0, 0, 1, 0, t))
<1> DEFINE a == Start(t)
           c == Call("init", 0)
<1>0. 0 \in Params /\ "init" \in Doings  BY DEF Params, Doings
<1>1. a \in Stages /\ a.begun = 0 /\ a.skip = 0 /\ a.junk = 0 /\ a.tally = t  BY <1>0 DEF Start, Stages
<1>2. c \in AllCalls /\ c.do = "init"  BY <1>0 DEF AllCalls, Call
<1> HIDE DEF a, c
<1>3. Fits(a, c)  BY <1>1, <1>2 DEF Fits, IsSeen, IsFigure
<1>4. AfterModes(a.modes, c) = [bold |-> 0, size |-> 0, align |-> 0]  BY <1>2 DEF AfterModes, Modes
<1>5. AfterTally(a.tally, c) = t  BY <1>1, <1>2 DEF AfterTally, Tallies
<1>6. (IF c.do # "line" /\ (a.junk = 1 \/ a.skip = 1 \/ c.do \in {"drawer", "barcode"} \cup QrDoings)
       THEN 1 ELSE 0) = 0
  BY <1>1, <1>2 DEF QrDoings
<1>7. After(a, c) = St(0, 0, 0, 1, 0, t)  BY <1>1, <1>2, <1>4, <1>5, <1>6 DEF After, St
<1> QED  BY <1>3, <1>7 DEF Takes1, a, c

LEMMA LineTakes ==
  ASSUME NEW b \in Params, NEW z \in Params, NEW l \in Params, NEW k \in {0, 1}, NEW j \in {0, 1},
         NEW t \in Tallies,
         NEW as \in Sorts, [bold |-> b, size |-> z, align |-> l] = Look(as) \/ as = "blank",
         as \in {"row", "total"} => k = 0 /\ j = 0, k = 1 => as # "blank"
  PROVE  Takes1(St(b, z, l, k, j, t), Line(as), St(b, z, l, 0, 0, t))
<1> DEFINE a == St(b, z, l, k, j, t)
           c == Line(as)
<1>1. IsSt(a, b, z, l, k, j, t)  BY StageIs
<1>2. c \in AllCalls /\ c.do = "line" /\ c.as = as  BY DEF AllCalls, Line
<1> HIDE DEF a, c
<1>3. Fits(a, c)
  <2>1. IsSeen(c) => a.modes = Look(c.as)  BY <1>1, <1>2 DEF IsSt, IsSeen
  <2>2. IsFigure(c) => a.skip = 0 /\ a.junk = 0  BY <1>1, <1>2 DEF IsSt, IsFigure
  <2>3. a.skip = 1 => c.as # "blank"  BY <1>1, <1>2 DEF IsSt
  <2> QED  BY <1>1, <1>2, <2>1, <2>2, <2>3 DEF Fits, IsSt
<1>4. AfterModes(a.modes, c) = [bold |-> b, size |-> z, align |-> l]
  BY <1>1, <1>2 DEF IsSt, AfterModes
<1>5. AfterTally(a.tally, c) = t
  BY <1>1, <1>2 DEF IsSt, AfterTally, Tallies
<1>8. After(a, c) = St(b, z, l, 0, 0, t)
  BY <1>2, <1>4, <1>5 DEF After, St
<1> QED  BY <1>3, <1>8 DEF Takes1, a, c

\* One call, and lines that are only sometimes there.
LEMMA JustOne == ASSUME NEW a, NEW b, NEW c, Takes1(a, c, b) PROVE Leads(<<c>>, a, b)
  BY OneCall DEF Takes1

LEMMA WhenLeads ==
  ASSUME NEW c, NEW s, NEW a \in Stages, c => Leads(s, a, a)
  PROVE  Leads(When(c, s), a, a)
  BY NoCalls DEF When

LEMMA SomeParams == 0 \in Params /\ 1 \in Params /\ 3 \in Params /\ 4 \in Params /\ 5 \in Params
    /\ 17 \in Params /\ 23 \in Params
                    /\ 48 \in Params /\ 49 \in Params /\ 60 \in Params /\ 2 \in Params
  BY DEF Params

\* The parts every document is made of.
LEMMA TitleLeads ==
  ASSUME NEW t \in Tallies, NEW k \in {0, 1}, NEW j \in {0, 1}, k = 1 \/ j = 1
  PROVE  Leads(Title, St(0, 0, 0, k, j, t), St(1, 0, 1, 1, 0, t))
<1>0. Dirt(k, j) = 1 /\ Dirt(0, 1) = 1 /\ Dirt(1, 1) = 1 /\ Dirt(0, 0) = 0  BY DEF Dirt
<1>1. Takes1(St(0, 0, 0, k, j, t), Call("align", 1), St(0, 0, 1, 0, 1, t))
  BY <1>0, AlignTakes, SomeParams
<1>2. Takes1(St(0, 0, 1, 0, 1, t), Call("size", 17), St(0, 17, 1, 1, 1, t))
  BY <1>0, SizeTakes, SomeParams
<1>3. Takes1(St(0, 17, 1, 1, 1, t), Call("bold", 1), St(1, 17, 1, 0, 1, t))
  BY <1>0, BoldTakes, SomeParams
<1>4. Takes1(St(1, 17, 1, 0, 1, t), Line("title"), St(1, 17, 1, 0, 0, t))
  BY LineTakes, SomeParams DEF Sorts, Look
<1>5. Takes1(St(1, 17, 1, 0, 0, t), Call("size", 0), St(1, 0, 1, 1, 0, t))
  BY <1>0, SizeTakes, SomeParams
<1> QED  BY <1>1, <1>2, <1>3, <1>4, <1>5, FiveCalls DEF Title

\* The plain stage, aligned l, at which every part of a document but its head begins.
P(l, t) == St(0, 0, l, 0, 0, t)

\* The plain stage is one, and what a line makes of it.
LEMMA PlainStage == ASSUME NEW l \in {0, 1}, NEW t \in Tallies PROVE P(l, t) \in Stages
<1>1. l \in Params  BY SomeParams
<1> QED  BY <1>1, StageIs, SomeParams DEF P, IsSt

LEMMA DirtIs == Dirt(0, 0) = 0 /\ Dirt(1, 0) = 1 /\ Dirt(0, 1) = 1 /\ Dirt(1, 1) = 1
  BY DEF Dirt

\* Lines at the left, and in the middle.
LEMMA PlainLines ==
  ASSUME NEW t \in Tallies
  PROVE  /\ Takes1(P(0, t), Line("row"), P(0, t)) /\ Takes1(P(0, t), Line("text"), P(0, t))
         /\ Takes1(P(0, t), Line("rule"), P(0, t)) /\ Takes1(P(0, t), Line("blank"), P(0, t))
<1>1. Takes1(P(0, t), Line("row"), P(0, t))  BY LineTakes, SomeParams DEF P, Sorts, Look
<1>2. Takes1(P(0, t), Line("text"), P(0, t))  BY LineTakes, SomeParams DEF P, Sorts, Look
<1>3. Takes1(P(0, t), Line("rule"), P(0, t))  BY LineTakes, SomeParams DEF P, Sorts, Look
<1>4. Takes1(P(0, t), Line("blank"), P(0, t))  BY LineTakes, SomeParams DEF P, Sorts, Look
<1> QED  BY <1>1, <1>2, <1>3, <1>4

LEMMA CentredLines ==
  ASSUME NEW t \in Tallies
  PROVE  Takes1(P(1, t), Line("centred"), P(1, t)) /\ Takes1(P(1, t), Line("blank"), P(1, t))
<1>1. Takes1(P(1, t), Line("centred"), P(1, t))  BY LineTakes, SomeParams DEF P, Sorts, Look
<1>2. Takes1(P(1, t), Line("blank"), P(1, t))  BY LineTakes, SomeParams DEF P, Sorts, Look
<1> QED  BY <1>1, <1>2

\* Lines at the plain stage leave it as it is.
LEMMA RowsLead == ASSUME NEW t \in Tallies, NEW n \in Nat PROVE Leads(Rows(n), P(0, t), P(0, t))
<1>1. Takes1(P(0, t), Line("row"), P(0, t))  BY PlainLines
<1>2. Rows(n) \in Seq(AllCalls) /\ Len(Rows(n)) = n /\ \A i \in 1..n : Rows(n)[i] = Line("row")
  BY <1>1 DEF Rows, Takes1, Fits
<1>3. P(0, t) \in Stages  BY PlainStage
<1> QED  BY <1>1, <1>2, <1>3, IdleCalls DEF Takes1

LEMMA BlankLeads == ASSUME NEW t \in Tallies, NEW l \in {0, 1} PROVE Leads(Blank, P(l, t), P(l, t))
<1>1. Takes1(P(l, t), Line("blank"), P(l, t))  BY PlainLines, CentredLines
<1> QED  BY <1>1, JustOne DEF Blank

LEMMA RuleLeads == ASSUME NEW t \in Tallies PROVE Leads(Rule, P(0, t), P(0, t))
<1>1. Takes1(P(0, t), Line("rule"), P(0, t))  BY PlainLines
<1> QED  BY <1>1, JustOne DEF Rule

LEMMA TextLeads == ASSUME NEW t \in Tallies PROVE Leads(<<Line("text")>>, P(0, t), P(0, t))
<1>1. Takes1(P(0, t), Line("text"), P(0, t))  BY PlainLines
<1> QED  BY <1>1, JustOne

LEMMA CentredLeads == ASSUME NEW t \in Tallies PROVE Leads(<<Line("centred")>>, P(1, t), P(1, t))
<1>1. Takes1(P(1, t), Line("centred"), P(1, t))  BY CentredLines
<1> QED  BY <1>1, JustOne

LEMMA LeftLeads == ASSUME NEW t \in Tallies, NEW l \in {0, 1} PROVE Leads(Left, P(l, t), P(0, t))
<1>1. Takes1(P(l, t), Call("align", 0), P(0, t))  BY AlignTakes, SomeParams, DirtIs DEF P
<1> QED  BY <1>1, JustOne DEF Left

LEMMA CentreLeads == ASSUME NEW t \in Tallies PROVE Leads(<<Call("align", 1)>>, P(0, t), P(1, t))
<1>1. Takes1(P(0, t), Call("align", 1), P(1, t))  BY AlignTakes, SomeParams, DirtIs DEF P
<1> QED  BY <1>1, JustOne

\* What is printed bold: a total at the left, a heading in the middle.
LEMMA BoldLeads ==
  ASSUME NEW t \in Tallies, NEW l \in {0, 1}, NEW as \in {"total", "heading"}, l = IF as = "total" THEN 0 ELSE 1
  PROVE  Leads(Bold(<<Line(as)>>), P(l, t), P(l, t))
<1>1. Takes1(P(l, t), Call("bold", 1), St(1, 0, l, 0, 0, t))  BY BoldTakes, SomeParams, DirtIs DEF P
<1>2. Takes1(St(1, 0, l, 0, 0, t), Line(as), St(1, 0, l, 0, 0, t))
  BY LineTakes, SomeParams DEF Sorts, Look
<1>3. Takes1(St(1, 0, l, 0, 0, t), Call("bold", 0), P(l, t))  BY BoldTakes, SomeParams, DirtIs DEF P
<1>4. Leads(<<Call("bold", 1)>> \o <<Line(as)>>, P(l, t), St(1, 0, l, 0, 0, t))
  BY <1>1, <1>2, JustOne, ThenCalls
<1> QED  BY <1>3, <1>4, JustOne, ThenCalls DEF Bold

\* The feed and the cut a document ends in, and the reset it begins with.
LEMMA EndingLeads ==
  ASSUME NEW t \in Tallies, NEW n \in {3, 4}, NEW l \in {0, 1}, NEW j \in {0, 1}
  PROVE  Leads(Ending(n), St(0, 0, l, 0, j, t), St(0, 0, l, 1, j, Cut(t)))
<1>1. Takes1(St(0, 0, l, 0, j, t), Call("feed", n), St(0, 0, l, 0, j, t))
  BY PlainTakes, SomeParams, DirtIs
<1>2. Takes1(St(0, 0, l, 0, j, t), Call("cut", 0), St(0, 0, l, 1, j, Cut(t)))
  BY CutTakes, SomeParams, DirtIs
<1> QED  BY <1>1, <1>2, TwoCalls DEF Ending

LEMMA StartsLead ==
  ASSUME NEW t \in Tallies, NEW d, d.arabic \in BOOLEAN
  PROVE  \E k \in {0, 1}, j \in {0, 1} : (k = 1 \/ j = 1) /\ Leads(Starts(d), Start(t), St(0, 0, 0, k, j, t))
<1>1. Takes1(Start(t), Call("init", 0), St(0, 0, 0, 1, 0, t))  BY InitTakes
<1>2. Takes1(St(0, 0, 0, 1, 0, t), Call("page", 23), St(0, 0, 0, 0, 1, t))  BY PlainTakes, SomeParams, DirtIs
<1>3. Leads(<<Call("init", 0)>>, Start(t), St(0, 0, 0, 1, 0, t))
      /\ Leads(<<Call("page", 23)>>, St(0, 0, 0, 1, 0, t), St(0, 0, 0, 0, 1, t))
  BY <1>1, <1>2, JustOne
<1>4. CASE d.arabic
  <2>1. Starts(d) = <<Call("init", 0)>> \o <<Call("page", 23)>>  BY <1>4 DEF Starts, When
  <2>2. Leads(Starts(d), Start(t), St(0, 0, 0, 0, 1, t))  BY <2>1, <1>3, ThenCalls
  <2> QED  BY <2>2
<1>5. CASE ~d.arabic
  <2>1. Starts(d) = <<Call("init", 0)>> \o <<>>  BY <1>5 DEF Starts, When
  <2>2. St(0, 0, 0, 1, 0, t) \in Stages  BY StageIs, SomeParams DEF IsSt
  <2>3. Leads(Starts(d), Start(t), St(0, 0, 0, 1, 0, t))  BY <2>1, <2>2, <1>3, ThenCalls, NoCalls
  <2> QED  BY <2>3
<1> QED  BY <1>4, <1>5

LEMMA TalliesAfter ==
  ASSUME NEW t \in Tallies PROVE Cut(t) \in Tallies /\ (t.owed > 0 => Opened(t) \in Tallies)
  BY DEF Tallies, Cut, Opened

\* After a title the device sets normal size, and the first line's mode is to come.
LEMMA NormalLeads ==
  ASSUME NEW t \in Tallies
  PROVE  /\ Leads(<<Call("bold", 0), Line("centred")>>, St(1, 0, 1, 1, 0, t), P(1, t))
         /\ Leads(<<Call("bold", 0)>>, St(1, 0, 1, 1, 0, t), St(0, 0, 1, 0, 1, t))
         /\ Leads(Blank, St(0, 0, 1, 0, 1, t), P(1, t))
         /\ Leads(<<Line("heading"), Call("bold", 0)>>, St(1, 0, 1, 1, 0, t), P(1, t))
<1>1. Takes1(St(1, 0, 1, 1, 0, t), Call("bold", 0), St(0, 0, 1, 0, 1, t))  BY BoldTakes, SomeParams, DirtIs
<1>2. Takes1(St(0, 0, 1, 0, 1, t), Line("centred"), P(1, t))  BY LineTakes, SomeParams DEF P, Sorts, Look
<1>3. Takes1(St(0, 0, 1, 0, 1, t), Line("blank"), P(1, t))  BY LineTakes, SomeParams DEF P, Sorts, Look
<1>4. Takes1(St(1, 0, 1, 1, 0, t), Line("heading"), St(1, 0, 1, 0, 0, t))
  BY LineTakes, SomeParams DEF Sorts, Look
<1>5. Takes1(St(1, 0, 1, 0, 0, t), Call("bold", 0), P(1, t))  BY BoldTakes, SomeParams, DirtIs DEF P
<1>6. Leads(<<Call("bold", 0), Line("centred")>>, St(1, 0, 1, 1, 0, t), P(1, t))  BY <1>1, <1>2, TwoCalls
<1>7. Leads(<<Call("bold", 0)>>, St(1, 0, 1, 1, 0, t), St(0, 0, 1, 0, 1, t))
      /\ Leads(Blank, St(0, 0, 1, 0, 1, t), P(1, t))
  BY <1>1, <1>3, JustOne DEF Blank
<1>8. Leads(<<Line("heading"), Call("bold", 0)>>, St(1, 0, 1, 1, 0, t), P(1, t))  BY <1>4, <1>5, TwoCalls
<1> QED  BY <1>6, <1>7, <1>8

\* The codes of a receipt: what they leave stray on the console goes with the blank line.
LEMMA BarCodeLeads == ASSUME NEW t \in Tallies PROVE Leads(BarCode, P(1, t), St(0, 0, 1, 0, 1, t))
<1>1. Takes1(P(1, t), Call("height", 60), St(0, 0, 1, 1, 0, t))  BY CodeTakes, SomeParams, DirtIs DEF P
<1>2. Takes1(St(0, 0, 1, 1, 0, t), Call("width", 3), St(0, 0, 1, 0, 1, t))  BY CodeTakes, SomeParams, DirtIs
<1>3. Takes1(St(0, 0, 1, 0, 1, t), Call("below", 2), St(0, 0, 1, 1, 1, t))  BY CodeTakes, SomeParams, DirtIs
<1>4. Takes1(St(0, 0, 1, 1, 1, t), Call("barcode", 0), St(0, 0, 1, 0, 1, t))
  BY PrintTakes, SomeParams DEF Look
<1> QED  BY <1>1, <1>2, <1>3, <1>4, FourCalls DEF BarCode

LEMMA QrCodeLeads == ASSUME NEW t \in Tallies PROVE Leads(QrCode, P(1, t), St(0, 0, 1, 0, 1, t))
<1>1. Takes1(P(1, t), Call("qr model", 0), St(0, 0, 1, 0, 1, t))  BY QrTakes, SomeParams DEF P
<1>2. Takes1(St(0, 0, 1, 0, 1, t), Call("qr size", 5), St(0, 0, 1, 0, 1, t))  BY QrTakes, SomeParams
<1>3. Takes1(St(0, 0, 1, 0, 1, t), Call("qr level", 49), St(0, 0, 1, 0, 1, t))  BY QrTakes, SomeParams
<1>4. Takes1(St(0, 0, 1, 0, 1, t), Call("qr store", 48), St(0, 0, 1, 0, 1, t))  BY QrTakes, SomeParams
<1>5. Takes1(St(0, 0, 1, 0, 1, t), Call("qr print", 48), St(0, 0, 1, 0, 1, t))
  BY PrintTakes, SomeParams DEF Look
<1> QED  BY <1>1, <1>2, <1>3, <1>4, <1>5, FiveCalls DEF QrCode

\* A code and the line end that takes what the console made of it.
LEMMA CodesLead ==
  ASSUME NEW t \in Tallies
  PROVE  Leads(BarCode \o Blank, P(1, t), P(1, t)) /\ Leads(QrCode \o Blank, P(1, t), P(1, t))
<1>2. Leads(Blank, St(0, 0, 1, 0, 1, t), P(1, t))  BY NormalLeads
<1> QED  BY <1>2, BarCodeLeads, QrCodeLeads, ThenCalls

\* The headings of a Z report.
LEMMA SectionLeads == ASSUME NEW t \in Tallies PROVE Leads(Section, P(0, t), P(0, t))
<1>1. Takes1(P(0, t), Call("bold", 1), St(1, 0, 0, 0, 0, t))  BY BoldTakes, SomeParams, DirtIs DEF P
<1>2. Takes1(St(1, 0, 0, 0, 0, t), Call("align", 1), St(1, 0, 1, 0, 0, t))  BY AlignTakes, SomeParams, DirtIs
<1>3. Takes1(St(1, 0, 1, 0, 0, t), Line("heading"), St(1, 0, 1, 0, 0, t))
  BY LineTakes, SomeParams DEF Sorts, Look
<1>4. Takes1(St(1, 0, 1, 0, 0, t), Call("bold", 0), P(1, t))  BY BoldTakes, SomeParams, DirtIs DEF P
<1>5. Leads(<<Call("bold", 1), Call("align", 1), Line("heading"), Call("bold", 0)>>, P(0, t), P(1, t))
  BY <1>1, <1>2, <1>3, <1>4, FourCalls
<1> QED  BY <1>5, LeftLeads, ThenCalls DEF Section

\* The parts of a receipt.
LEMMA HeaderLeads ==
  ASSUME NEW t \in Tallies, NEW d, d.full \in BOOLEAN, d.arabic \in BOOLEAN,
         NEW k \in {0, 1}, NEW j \in {0, 1}, k = 1 \/ j = 1
  PROVE  Leads(Header(d), St(0, 0, 0, k, j, t), P(0, t))
<1>0. Leads(<<Line("centred"), Line("centred")>>, P(1, t), P(1, t))  BY CentredLines, TwoCalls
<1>1. Leads(Title, St(0, 0, 0, k, j, t), St(1, 0, 1, 1, 0, t))  BY TitleLeads
<1>2. Leads(<<Call("bold", 0), Line("centred")>>, St(1, 0, 1, 1, 0, t), P(1, t))  BY NormalLeads
<1>3. Leads(When(d.full, <<Line("centred"), Line("centred")>>), P(1, t), P(1, t))
  BY <1>0, PlainStage, WhenLeads
<1>4. Leads(Blank, P(1, t), P(1, t))  BY BlankLeads
<1>5. Leads(Left, P(1, t), P(0, t))  BY LeftLeads
<1>6. Leads(Rule, P(0, t), P(0, t))  BY RuleLeads
<1>7. Leads(Title \o <<Call("bold", 0), Line("centred")>>, St(0, 0, 0, k, j, t), P(1, t))
  BY <1>1, <1>2, ThenCalls
<1>8. Leads(Title \o <<Call("bold", 0), Line("centred")>>
        \o When(d.full, <<Line("centred"), Line("centred")>>), St(0, 0, 0, k, j, t), P(1, t))
  BY <1>7, <1>3, ThenCalls
<1>9. Leads(Title \o <<Call("bold", 0), Line("centred")>>
        \o When(d.full, <<Line("centred"), Line("centred")>>) \o Blank, St(0, 0, 0, k, j, t), P(1, t))
  BY <1>8, <1>4, ThenCalls
<1>10. Leads(Title \o <<Call("bold", 0), Line("centred")>>
         \o When(d.full, <<Line("centred"), Line("centred")>>) \o Blank \o Left, St(0, 0, 0, k, j, t), P(0, t))
  BY <1>9, <1>5, ThenCalls
<1> QED  BY <1>10, <1>6, ThenCalls DEF Header

LEMMA InfoLeads ==
  ASSUME NEW t \in Tallies, NEW d, d.full \in BOOLEAN, d.arabic \in BOOLEAN
  PROVE  Leads(Info(d), P(0, t), P(0, t))
<1>1. Leads(Rows(3), P(0, t), P(0, t))  BY RowsLead
<1>2. Leads(When(d.full, Rows(2)), P(0, t), P(0, t))  BY RowsLead, PlainStage, WhenLeads
<1>3. Leads(Rule, P(0, t), P(0, t))  BY RuleLeads
<1>4. Leads(Rows(3) \o When(d.full, Rows(2)), P(0, t), P(0, t))  BY <1>1, <1>2, ThenCalls
<1> QED  BY <1>4, <1>3, ThenCalls DEF Info

LEMMA TotalsLead ==
  ASSUME NEW t \in Tallies, NEW d, d.full \in BOOLEAN, d.arabic \in BOOLEAN
  PROVE  Leads(Totals(d), P(0, t), P(0, t))
<1>1. Leads(Rows(1), P(0, t), P(0, t))  BY RowsLead
<1>2. Leads(When(d.full, Rows(1)), P(0, t), P(0, t))  BY RowsLead, PlainStage, WhenLeads
<1>3. Leads(Rows(1), P(0, t), P(0, t))  BY RowsLead
<1>4. Leads(Bold(<<Line("total")>>), P(0, t), P(0, t))  BY BoldLeads
<1>5. Leads(Blank, P(0, t), P(0, t))  BY BlankLeads
<1>6. Leads(Rows(1) \o When(d.full, Rows(1)), P(0, t), P(0, t))  BY <1>1, <1>2, ThenCalls
<1>7. Leads(Rows(1) \o When(d.full, Rows(1)) \o Rows(1), P(0, t), P(0, t))  BY <1>6, <1>3, ThenCalls
<1>8. Leads(Rows(1) \o When(d.full, Rows(1)) \o Rows(1) \o Bold(<<Line("total")>>), P(0, t), P(0, t))
  BY <1>7, <1>4, ThenCalls
<1> QED  BY <1>8, <1>5, ThenCalls DEF Totals

LEMMA PaymentsLead ==
  ASSUME NEW t \in Tallies, NEW d, d.full \in BOOLEAN, d.arabic \in BOOLEAN
  PROVE  Leads(Payments(d), P(0, t), P(0, t))
<1>1. Leads(<<Line("text")>>, P(0, t), P(0, t))  BY TextLeads
<1>2. Leads(Rows(Tendered), P(0, t), P(0, t))  BY RowsLead, ReceiptAssumption
<1>3. Leads(When(d.full, Bold(<<Line("total")>>)), P(0, t), P(0, t))  BY BoldLeads, PlainStage, WhenLeads
<1>4. Leads(Blank, P(0, t), P(0, t))  BY BlankLeads
<1>5. Leads(<<Line("text")>> \o Rows(Tendered), P(0, t), P(0, t))  BY <1>1, <1>2, ThenCalls
<1>6. Leads(<<Line("text")>> \o Rows(Tendered) \o When(d.full, Bold(<<Line("total")>>)), P(0, t), P(0, t))
  BY <1>5, <1>3, ThenCalls
<1> QED  BY <1>6, <1>4, ThenCalls DEF Payments

LEMMA FooterLeads ==
  ASSUME NEW t \in Tallies, NEW d, d.full \in BOOLEAN, d.arabic \in BOOLEAN, t.owed > 0
  PROVE  Leads(Footer(d), P(0, t), St(0, 0, 1, 0, 1, Opened(Cut(t))))
<1>0. Takes1(St(0, 0, 1, 1, 0, Cut(t)), Call("drawer", 0), St(0, 0, 1, 0, 1, Opened(Cut(t))))
  <2>1. Cut(t) \in Tallies /\ Cut(t).owed > 0  BY TalliesAfter DEF Cut, Tallies
  <2> QED  BY <2>1, DrawerTakes, SomeParams
<1>1. Leads(Rule, P(0, t), P(0, t))  BY RuleLeads
<1>2. Leads(<<Call("align", 1)>>, P(0, t), P(1, t))  BY CentreLeads
<1>3. Leads(When(d.full \/ ~d.arabic, <<Line("centred")>>), P(1, t), P(1, t))
  BY CentredLeads, PlainStage, WhenLeads
<1>4. Leads(Blank, P(1, t), P(1, t))  BY BlankLeads
<1>5. Leads(When("barcode" \in d.codes, BarCode \o Blank), P(1, t), P(1, t))
  BY CodesLead, PlainStage, WhenLeads
<1>6. Leads(When("qr" \in d.codes, QrCode \o Blank), P(1, t), P(1, t))  BY CodesLead, PlainStage, WhenLeads
<1>7. Leads(<<Line("centred")>>, P(1, t), P(1, t))  BY CentredLeads
<1>8. Leads(Ending(3), P(1, t), St(0, 0, 1, 1, 0, Cut(t)))  BY EndingLeads, SomeParams DEF P
<1>9. Leads(<<Call("drawer", 0)>>, St(0, 0, 1, 1, 0, Cut(t)), St(0, 0, 1, 0, 1, Opened(Cut(t))))
  BY <1>0, JustOne
<1>10. Leads(Rule \o <<Call("align", 1)>>, P(0, t), P(1, t))  BY <1>1, <1>2, ThenCalls
<1>11. Leads(Rule \o <<Call("align", 1)>> \o When(d.full \/ ~d.arabic, <<Line("centred")>>), P(0, t), P(1, t))
  BY <1>10, <1>3, ThenCalls
<1>12. Leads(Rule \o <<Call("align", 1)>> \o When(d.full \/ ~d.arabic, <<Line("centred")>>) \o Blank,
         P(0, t), P(1, t))
  BY <1>11, <1>4, ThenCalls
<1>13. Leads(Rule \o <<Call("align", 1)>> \o When(d.full \/ ~d.arabic, <<Line("centred")>>) \o Blank
         \o (When("barcode" \in d.codes, BarCode \o Blank)), P(0, t), P(1, t))
  BY <1>12, <1>5, ThenCalls
<1>14. Leads(Rule \o <<Call("align", 1)>> \o When(d.full \/ ~d.arabic, <<Line("centred")>>) \o Blank
         \o (When("barcode" \in d.codes, BarCode \o Blank)) \o (When("qr" \in d.codes, QrCode \o Blank)),
             P(0, t), P(1, t))
  BY <1>13, <1>6, ThenCalls
<1>15. Leads(Rule \o <<Call("align", 1)>> \o When(d.full \/ ~d.arabic, <<Line("centred")>>) \o Blank
         \o (When("barcode" \in d.codes, BarCode \o Blank)) \o (When("qr" \in d.codes, QrCode \o Blank))
             \o <<Line("centred")>>, P(0, t), P(1, t))
  BY <1>14, <1>7, ThenCalls
<1>16. Leads(Rule \o <<Call("align", 1)>> \o When(d.full \/ ~d.arabic, <<Line("centred")>>) \o Blank
         \o (When("barcode" \in d.codes, BarCode \o Blank)) \o (When("qr" \in d.codes, QrCode \o Blank))
             \o <<Line("centred")>> \o Ending(3), P(0, t), St(0, 0, 1, 1, 0, Cut(t)))
  BY <1>15, <1>8, ThenCalls
<1> QED  BY <1>16, <1>9, ThenCalls DEF Footer

\* The parts of an X report.
LEMMA XHeadLeads ==
  ASSUME NEW t \in Tallies, NEW d, d.full \in BOOLEAN, d.arabic \in BOOLEAN,
         NEW k \in {0, 1}, NEW j \in {0, 1}, k = 1 \/ j = 1
  PROVE  Leads(XHead(d), St(0, 0, 0, k, j, t), P(0, t))
<1>1. Leads(Title, St(0, 0, 0, k, j, t), St(1, 0, 1, 1, 0, t))  BY TitleLeads
<1>2. Leads(<<Line("heading"), Call("bold", 0)>>, St(1, 0, 1, 1, 0, t), P(1, t))  BY NormalLeads
<1>3. Leads(Blank, P(1, t), P(1, t))  BY BlankLeads
<1>4. Leads(Left, P(1, t), P(0, t))  BY LeftLeads
<1>5. Leads(Rule, P(0, t), P(0, t))  BY RuleLeads
<1>6. Leads(Rows(3), P(0, t), P(0, t))  BY RowsLead
<1>7. Leads(When(d.full, Rows(1)), P(0, t), P(0, t))  BY RowsLead, PlainStage, WhenLeads
<1>8. Leads(Rule, P(0, t), P(0, t))  BY RuleLeads
<1>9. Leads(Title \o <<Line("heading"), Call("bold", 0)>>, St(0, 0, 0, k, j, t), P(1, t))
  BY <1>1, <1>2, ThenCalls
<1>10. Leads(Title \o <<Line("heading"), Call("bold", 0)>> \o Blank, St(0, 0, 0, k, j, t), P(1, t))
  BY <1>9, <1>3, ThenCalls
<1>11. Leads(Title \o <<Line("heading"), Call("bold", 0)>> \o Blank \o Left, St(0, 0, 0, k, j, t), P(0, t))
  BY <1>10, <1>4, ThenCalls
<1>12. Leads(Title \o <<Line("heading"), Call("bold", 0)>> \o Blank \o Left \o Rule, St(0, 0, 0, k, j, t),
         P(0, t))
  BY <1>11, <1>5, ThenCalls
<1>13. Leads(Title \o <<Line("heading"), Call("bold", 0)>> \o Blank \o Left \o Rule \o Rows(3),
         St(0, 0, 0, k, j, t), P(0, t))
  BY <1>12, <1>6, ThenCalls
<1>14. Leads(Title \o <<Line("heading"), Call("bold", 0)>> \o Blank \o Left \o Rule \o Rows(3)
         \o When(d.full, Rows(1)), St(0, 0, 0, k, j, t), P(0, t))
  BY <1>13, <1>7, ThenCalls
<1> QED  BY <1>14, <1>8, ThenCalls DEF XHead

LEMMA XSalesLead ==
  ASSUME NEW t \in Tallies
  PROVE  Leads(XSales, P(0, t), P(0, t))
<1>1. Leads(Rows(4), P(0, t), P(0, t))  BY RowsLead
<1>2. Leads(Bold(<<Line("total")>>), P(0, t), P(0, t))  BY BoldLeads
<1>3. Leads(Rule, P(0, t), P(0, t))  BY RuleLeads
<1>4. Leads(Rows(4) \o Bold(<<Line("total")>>), P(0, t), P(0, t))  BY <1>1, <1>2, ThenCalls
<1> QED  BY <1>4, <1>3, ThenCalls DEF XSales

LEMMA XMoneyLeads ==
  ASSUME NEW t \in Tallies
  PROVE  Leads(XMoney, P(0, t), P(0, t))
<1>1. Leads(<<Line("text")>>, P(0, t), P(0, t))  BY TextLeads
<1>2. Leads(Rows(4), P(0, t), P(0, t))  BY RowsLead
<1>3. Leads(Rule, P(0, t), P(0, t))  BY RuleLeads
<1>4. Leads(<<Line("text")>>, P(0, t), P(0, t))  BY TextLeads
<1>5. Leads(Rows(2), P(0, t), P(0, t))  BY RowsLead
<1>6. Leads(<<Line("text")>> \o Rows(4), P(0, t), P(0, t))  BY <1>1, <1>2, ThenCalls
<1>7. Leads(<<Line("text")>> \o Rows(4) \o Rule, P(0, t), P(0, t))  BY <1>6, <1>3, ThenCalls
<1>8. Leads(<<Line("text")>> \o Rows(4) \o Rule \o <<Line("text")>>, P(0, t), P(0, t))  BY <1>7, <1>4, ThenCalls
<1> QED  BY <1>8, <1>5, ThenCalls DEF XMoney

LEMMA XFootLeads ==
  ASSUME NEW t \in Tallies, NEW d, d.full \in BOOLEAN, d.arabic \in BOOLEAN
  PROVE  Leads(XFoot(d), P(0, t), St(0, 0, 1, 1, 0, Cut(t)))
<1>0. Takes1(P(0, t), Call("align", 1), P(1, t))  BY AlignTakes, SomeParams, DirtIs DEF P
<1>1. Leads(When(d.full, Rule \o Rows(2)), P(0, t), P(0, t))
  BY RuleLeads, RowsLead, ThenCalls, PlainStage, WhenLeads
<1>2. Leads(Blank, P(0, t), P(0, t))  BY BlankLeads
<1>3. Leads(<<Call("align", 1), Line("centred")>>, P(0, t), P(1, t))  BY <1>0, CentredLines, TwoCalls
<1>4. Leads(Ending(3), P(1, t), St(0, 0, 1, 1, 0, Cut(t)))  BY EndingLeads, SomeParams DEF P
<1>5. Leads(When(d.full, Rule \o Rows(2)) \o Blank, P(0, t), P(0, t))  BY <1>1, <1>2, ThenCalls
<1>6. Leads(When(d.full, Rule \o Rows(2)) \o Blank \o <<Call("align", 1), Line("centred")>>, P(0, t), P(1, t))
  BY <1>5, <1>3, ThenCalls
<1> QED  BY <1>6, <1>4, ThenCalls DEF XFoot

\* The parts of a Z report.
LEMMA ZHeadLeads ==
  ASSUME NEW t \in Tallies, NEW d, d.full \in BOOLEAN, d.arabic \in BOOLEAN,
         NEW k \in {0, 1}, NEW j \in {0, 1}, k = 1 \/ j = 1
  PROVE  Leads(ZHead(d), St(0, 0, 0, k, j, t), P(0, t))
<1>1. Leads(Title, St(0, 0, 0, k, j, t), St(1, 0, 1, 1, 0, t))  BY TitleLeads
<1>2. Leads(<<Call("bold", 0)>>, St(1, 0, 1, 1, 0, t), St(0, 0, 1, 0, 1, t))  BY NormalLeads
<1>3. Leads(Blank, St(0, 0, 1, 0, 1, t), P(1, t))  BY NormalLeads
<1>4. Leads(When(d.full \/ ~d.arabic, <<Line("centred")>>), P(1, t), P(1, t))
  BY CentredLeads, PlainStage, WhenLeads
<1>5. Leads(Blank, P(1, t), P(1, t))  BY BlankLeads
<1>6. Leads(Left, P(1, t), P(0, t))  BY LeftLeads
<1>7. Leads(Rule, P(0, t), P(0, t))  BY RuleLeads
<1>8. Leads(Rows(3), P(0, t), P(0, t))  BY RowsLead
<1>9. Leads(When(d.full, Rows(2)), P(0, t), P(0, t))  BY RowsLead, PlainStage, WhenLeads
<1>10. Leads(Rule, P(0, t), P(0, t))  BY RuleLeads
<1>11. Leads(Title \o <<Call("bold", 0)>>, St(0, 0, 0, k, j, t), St(0, 0, 1, 0, 1, t))  BY <1>1, <1>2, ThenCalls
<1>12. Leads(Title \o <<Call("bold", 0)>> \o Blank, St(0, 0, 0, k, j, t), P(1, t))  BY <1>11, <1>3, ThenCalls
<1>13. Leads(Title \o <<Call("bold", 0)>> \o Blank \o When(d.full \/ ~d.arabic, <<Line("centred")>>),
         St(0, 0, 0, k, j, t), P(1, t))
  BY <1>12, <1>4, ThenCalls
<1>14. Leads(Title \o <<Call("bold", 0)>> \o Blank \o When(d.full \/ ~d.arabic, <<Line("centred")>>)
         \o Blank, St(0, 0, 0, k, j, t), P(1, t))
  BY <1>13, <1>5, ThenCalls
<1>15. Leads(Title \o <<Call("bold", 0)>> \o Blank \o When(d.full \/ ~d.arabic, <<Line("centred")>>)
         \o Blank \o Left, St(0, 0, 0, k, j, t), P(0, t))
  BY <1>14, <1>6, ThenCalls
<1>16. Leads(Title \o <<Call("bold", 0)>> \o Blank \o When(d.full \/ ~d.arabic, <<Line("centred")>>)
         \o Blank \o Left \o Rule, St(0, 0, 0, k, j, t), P(0, t))
  BY <1>15, <1>7, ThenCalls
<1>17. Leads(Title \o <<Call("bold", 0)>> \o Blank \o When(d.full \/ ~d.arabic, <<Line("centred")>>)
         \o Blank \o Left \o Rule \o Rows(3), St(0, 0, 0, k, j, t), P(0, t))
  BY <1>16, <1>8, ThenCalls
<1>18. Leads(Title \o <<Call("bold", 0)>> \o Blank \o When(d.full \/ ~d.arabic, <<Line("centred")>>)
         \o Blank \o Left \o Rule \o Rows(3) \o When(d.full, Rows(2)), St(0, 0, 0, k, j, t), P(0, t))
  BY <1>17, <1>9, ThenCalls
<1> QED  BY <1>18, <1>10, ThenCalls DEF ZHead

LEMMA ZSalesLead ==
  ASSUME NEW t \in Tallies
  PROVE  Leads(ZSales, P(0, t), P(0, t))
<1>1. Leads(Section, P(0, t), P(0, t))  BY SectionLeads
<1>2. Leads(Rows(4), P(0, t), P(0, t))  BY RowsLead
<1>3. Leads(Rule, P(0, t), P(0, t))  BY RuleLeads
<1>4. Leads(Bold(<<Line("total")>>), P(0, t), P(0, t))  BY BoldLeads
<1>5. Leads(Rule, P(0, t), P(0, t))  BY RuleLeads
<1>6. Leads(Section \o Rows(4), P(0, t), P(0, t))  BY <1>1, <1>2, ThenCalls
<1>7. Leads(Section \o Rows(4) \o Rule, P(0, t), P(0, t))  BY <1>6, <1>3, ThenCalls
<1>8. Leads(Section \o Rows(4) \o Rule \o Bold(<<Line("total")>>), P(0, t), P(0, t))  BY <1>7, <1>4, ThenCalls
<1> QED  BY <1>8, <1>5, ThenCalls DEF ZSales

LEMMA ZMoneyLeads ==
  ASSUME NEW t \in Tallies, NEW d, d.full \in BOOLEAN, d.arabic \in BOOLEAN
  PROVE  Leads(ZMoney(d), P(0, t), P(0, t))
<1>1. Leads(Section, P(0, t), P(0, t))  BY SectionLeads
<1>2. Leads(Rows(4), P(0, t), P(0, t))  BY RowsLead
<1>3. Leads(Rule, P(0, t), P(0, t))  BY RuleLeads
<1>4. Leads(Section, P(0, t), P(0, t))  BY SectionLeads
<1>5. Leads(Rows(2), P(0, t), P(0, t))  BY RowsLead
<1>6. Leads(When(d.full, Rows(1) \o Bold(<<Line("total")>>)), P(0, t), P(0, t))
  BY RowsLead, BoldLeads, ThenCalls, PlainStage, WhenLeads
<1>7. Leads(Section \o Rows(4), P(0, t), P(0, t))  BY <1>1, <1>2, ThenCalls
<1>8. Leads(Section \o Rows(4) \o Rule, P(0, t), P(0, t))  BY <1>7, <1>3, ThenCalls
<1>9. Leads(Section \o Rows(4) \o Rule \o Section, P(0, t), P(0, t))  BY <1>8, <1>4, ThenCalls
<1>10. Leads(Section \o Rows(4) \o Rule \o Section \o Rows(2), P(0, t), P(0, t))  BY <1>9, <1>5, ThenCalls
<1> QED  BY <1>10, <1>6, ThenCalls DEF ZMoney

LEMMA ZFootLeads ==
  ASSUME NEW t \in Tallies, NEW d, d.full \in BOOLEAN, d.arabic \in BOOLEAN
  PROVE  Leads(ZFoot(d), P(0, t), St(0, 0, 1, 1, 0, Cut(t)))
<1>0. Leads(Rule \o Section \o Rows(2), P(0, t), P(0, t))  BY RuleLeads, SectionLeads, RowsLead, ThenCalls
<1>1. Leads(When(d.full, Rule \o Section \o Rows(2)), P(0, t), P(0, t))  BY <1>0, PlainStage, WhenLeads
<1>2. Leads(Rule, P(0, t), P(0, t))  BY RuleLeads
<1>3. Leads(Blank, P(0, t), P(0, t))  BY BlankLeads
<1>4. Leads(<<Call("align", 1)>>, P(0, t), P(1, t))  BY CentreLeads
<1>5. Leads(Bold(<<Line("heading")>>), P(1, t), P(1, t))  BY BoldLeads
<1>6. Leads(Blank, P(1, t), P(1, t))  BY BlankLeads
<1>7. Leads(<<Line("centred")>>, P(1, t), P(1, t))  BY CentredLeads
<1>8. Leads(Ending(4), P(1, t), St(0, 0, 1, 1, 0, Cut(t)))  BY EndingLeads, SomeParams DEF P
<1>9. Leads(When(d.full, Rule \o Section \o Rows(2)) \o Rule, P(0, t), P(0, t))  BY <1>1, <1>2, ThenCalls
<1>10. Leads(When(d.full, Rule \o Section \o Rows(2)) \o Rule \o Blank, P(0, t), P(0, t))
  BY <1>9, <1>3, ThenCalls
<1>11. Leads(When(d.full, Rule \o Section \o Rows(2)) \o Rule \o Blank \o <<Call("align", 1)>>, P(0, t),
         P(1, t))
  BY <1>10, <1>4, ThenCalls
<1>12. Leads(When(d.full, Rule \o Section \o Rows(2)) \o Rule \o Blank \o <<Call("align", 1)>>
         \o Bold(<<Line("heading")>>), P(0, t), P(1, t))
  BY <1>11, <1>5, ThenCalls
<1>13. Leads(When(d.full, Rule \o Section \o Rows(2)) \o Rule \o Blank \o <<Call("align", 1)>>
         \o Bold(<<Line("heading")>>) \o Blank, P(0, t), P(1, t))
  BY <1>12, <1>6, ThenCalls
<1>14. Leads(When(d.full, Rule \o Section \o Rows(2)) \o Rule \o Blank \o <<Call("align", 1)>>
         \o Bold(<<Line("heading")>>) \o Blank \o <<Line("centred")>>, P(0, t), P(1, t))
  BY <1>13, <1>7, ThenCalls
<1> QED  BY <1>14, <1>8, ThenCalls DEF ZFoot

\* The items of a receipt, however many were bought.
LEMMA ItemsLead == ASSUME NEW t \in Tallies, NEW d, d.full \in BOOLEAN, d.arabic \in BOOLEAN
    PROVE Leads(Items(d), P(0, t), P(0, t))
<1> DEFINE item == Item(d)
           s == [i \in 1..(Bought * Len(item)) |-> Line(item[((i - 1) % Len(item)) + 1])]
<1>1. Len(item) \in {2, 3} /\ \A i \in 1..Len(item) : item[i] \in {"text", "row"}
  <2>1. CASE d.full
    <3>1. item = <<"text", "row">> \o <<"row">>  BY <2>1 DEF Item, When
    <3>2. Len(item) = 3 /\ item[1] = "text" /\ item[2] = "row" /\ item[3] = "row"  BY <3>1
    <3> QED  BY <3>2
  <2>2. CASE ~d.full
    <3>1. item = <<"text", "row">> \o <<>>  BY <2>2 DEF Item, When
    <3>2. Len(item) = 2 /\ item[1] = "text" /\ item[2] = "row"  BY <3>1
    <3> QED  BY <3>2
  <2> QED  BY <2>1, <2>2
<1> HIDE DEF item
<1>2. \A i \in 1..(Bought * Len(item)) : ((i - 1) % Len(item)) + 1 \in 1..Len(item)
  <2>1. CASE Len(item) = 2  BY <2>1, ReceiptAssumption
  <2>2. CASE Len(item) = 3  BY <2>2, ReceiptAssumption
  <2> QED  BY <1>1, <2>1, <2>2
<1>3. Bought * Len(item) \in Nat  BY <1>1, ReceiptAssumption
<1>4. Takes1(P(0, t), Line("text"), P(0, t)) /\ Takes1(P(0, t), Line("row"), P(0, t))  BY PlainLines
<1>5. \A i \in 1..(Bought * Len(item)) : s[i] \in {Line("text"), Line("row")}  BY <1>1, <1>2
<1>6. s \in Seq(AllCalls) /\ Len(s) = Bought * Len(item)
  <2>1. Line("text") \in AllCalls /\ Line("row") \in AllCalls  BY <1>4 DEF Takes1, Fits
  <2>2. s \in [1..(Bought * Len(item)) -> AllCalls]  BY <2>1, <1>5
  <2>3. \A n \in Nat : \A q : q \in [1..n -> AllCalls] => q \in Seq(AllCalls) /\ Len(q) = n  OBVIOUS
  <2> HIDE DEF s
  <2> QED  BY <2>2, <2>3, <1>3
<1> HIDE DEF s
<1>7. \A i \in 1..Len(s) : Fits(P(0, t), s[i]) /\ After(P(0, t), s[i]) = P(0, t)  BY <1>4, <1>5, <1>6 DEF Takes1
<1>8. Leads(s, P(0, t), P(0, t))  BY <1>6, <1>7, PlainStage, IdleCalls
<1>9. Items(d) = s \o Rule  BY DEF Items, s, item
<1> QED  BY <1>8, <1>9, RuleLeads, ThenCalls

\* The five documents.
LEMMA ReceiptLeads ==
  ASSUME NEW t \in Tallies, NEW d, d.full \in BOOLEAN, d.arabic \in BOOLEAN, t.owed > 0
  PROVE  Leads(Receipt(d), Start(t), St(0, 0, 1, 0, 1, Opened(Cut(t))))
<1>0. PICK k \in {0, 1}, j \in {0, 1} : (k = 1 \/ j = 1) /\ Leads(Starts(d), Start(t), St(0, 0, 0, k, j, t))
  BY StartsLead
<1>1. Leads(Header(d), St(0, 0, 0, k, j, t), P(0, t))  BY <1>0, HeaderLeads
<1>2. Leads(Starts(d) \o Header(d), Start(t), P(0, t))  BY <1>0, <1>1, ThenCalls
<1>3. Leads(Info(d), P(0, t), P(0, t))  BY InfoLeads
<1>4. Leads(Starts(d) \o Header(d) \o Info(d), Start(t), P(0, t))  BY <1>2, <1>3, ThenCalls
<1>5. Leads(Items(d), P(0, t), P(0, t))  BY ItemsLead
<1>6. Leads(Starts(d) \o Header(d) \o Info(d) \o Items(d), Start(t), P(0, t))  BY <1>4, <1>5, ThenCalls
<1>7. Leads(Totals(d), P(0, t), P(0, t))  BY TotalsLead
<1>8. Leads(Starts(d) \o Header(d) \o Info(d) \o Items(d) \o Totals(d), Start(t), P(0, t))
  BY <1>6, <1>7, ThenCalls
<1>9. Leads(Payments(d), P(0, t), P(0, t))  BY PaymentsLead
<1>10. Leads(Starts(d) \o Header(d) \o Info(d) \o Items(d) \o Totals(d) \o Payments(d), Start(t), P(0, t))
  BY <1>8, <1>9, ThenCalls
<1>11. Leads(Footer(d), P(0, t), St(0, 0, 1, 0, 1, Opened(Cut(t))))  BY FooterLeads
<1> QED  BY <1>10, <1>11, ThenCalls DEF Receipt

LEMMA XReportLeads ==
  ASSUME NEW t \in Tallies, NEW d, d.full \in BOOLEAN, d.arabic \in BOOLEAN
  PROVE  Leads(XReport(d), Start(t), St(0, 0, 1, 1, 0, Cut(t)))
<1>0. PICK k \in {0, 1}, j \in {0, 1} : (k = 1 \/ j = 1) /\ Leads(Starts(d), Start(t), St(0, 0, 0, k, j, t))
  BY StartsLead
<1>1. Leads(XHead(d), St(0, 0, 0, k, j, t), P(0, t))  BY <1>0, XHeadLeads
<1>2. Leads(Starts(d) \o XHead(d), Start(t), P(0, t))  BY <1>0, <1>1, ThenCalls
<1>3. Leads(XSales, P(0, t), P(0, t))  BY XSalesLead
<1>4. Leads(Starts(d) \o XHead(d) \o XSales, Start(t), P(0, t))  BY <1>2, <1>3, ThenCalls
<1>5. Leads(XMoney, P(0, t), P(0, t))  BY XMoneyLeads
<1>6. Leads(Starts(d) \o XHead(d) \o XSales \o XMoney, Start(t), P(0, t))  BY <1>4, <1>5, ThenCalls
<1>7. Leads(XFoot(d), P(0, t), St(0, 0, 1, 1, 0, Cut(t)))  BY XFootLeads
<1> QED  BY <1>6, <1>7, ThenCalls DEF XReport

LEMMA ZReportLeads ==
  ASSUME NEW t \in Tallies, NEW d, d.full \in BOOLEAN, d.arabic \in BOOLEAN
  PROVE  Leads(ZReport(d), Start(t), St(0, 0, 1, 1, 0, Cut(t)))
<1>0. PICK k \in {0, 1}, j \in {0, 1} : (k = 1 \/ j = 1) /\ Leads(Starts(d), Start(t), St(0, 0, 0, k, j, t))
  BY StartsLead
<1>1. Leads(ZHead(d), St(0, 0, 0, k, j, t), P(0, t))  BY <1>0, ZHeadLeads
<1>2. Leads(Starts(d) \o ZHead(d), Start(t), P(0, t))  BY <1>0, <1>1, ThenCalls
<1>3. Leads(ZSales, P(0, t), P(0, t))  BY ZSalesLead
<1>4. Leads(Starts(d) \o ZHead(d) \o ZSales, Start(t), P(0, t))  BY <1>2, <1>3, ThenCalls
<1>5. Leads(ZMoney(d), P(0, t), P(0, t))  BY ZMoneyLeads
<1>6. Leads(Starts(d) \o ZHead(d) \o ZSales \o ZMoney(d), Start(t), P(0, t))  BY <1>4, <1>5, ThenCalls
<1>7. Leads(ZFoot(d), P(0, t), St(0, 0, 1, 1, 0, Cut(t)))  BY ZFootLeads
<1> QED  BY <1>6, <1>7, ThenCalls DEF ZReport

LEMMA TestPrintLeads ==
  ASSUME NEW t \in Tallies, NEW d, d.full \in BOOLEAN, d.arabic \in BOOLEAN
  PROVE  Leads(TestPrint(d), Start(t), St(0, 0, 1, 1, 1, Cut(t)))
<1>0. PICK k \in {0, 1}, j \in {0, 1} : (k = 1 \/ j = 1) /\ Leads(Starts(d), Start(t), St(0, 0, 0, k, j, t))
  BY StartsLead
<1>1. Leads(Title, St(0, 0, 0, k, j, t), St(1, 0, 1, 1, 0, t))  BY <1>0, TitleLeads
<1>2. Leads(Starts(d) \o Title, Start(t), St(1, 0, 1, 1, 0, t))  BY <1>0, <1>1, ThenCalls
<1>3. Leads(<<Call("bold", 0), Line("centred")>>, St(1, 0, 1, 1, 0, t), P(1, t))  BY NormalLeads
<1>4. Leads(Starts(d) \o Title \o <<Call("bold", 0), Line("centred")>>, Start(t), P(1, t))
  BY <1>2, <1>3, ThenCalls
<1>5. Leads(Blank, P(1, t), P(1, t))  BY BlankLeads
<1>6. Leads(Starts(d) \o Title \o <<Call("bold", 0), Line("centred")>> \o Blank, Start(t), P(1, t))
  BY <1>4, <1>5, ThenCalls
<1>7. Leads(BarCode, P(1, t), St(0, 0, 1, 0, 1, t))  BY BarCodeLeads
<1>8. Leads(Starts(d) \o Title \o <<Call("bold", 0), Line("centred")>> \o Blank \o BarCode, Start(t),
        St(0, 0, 1, 0, 1, t))
  BY <1>6, <1>7, ThenCalls
<1>9. Leads(Ending(3), St(0, 0, 1, 0, 1, t), St(0, 0, 1, 1, 1, Cut(t)))  BY EndingLeads
<1> QED  BY <1>8, <1>9, ThenCalls DEF TestPrint

LEMMA PulseLeads ==
  ASSUME NEW t \in Tallies, NEW d, d.full \in BOOLEAN, d.arabic \in BOOLEAN, t.owed > 0
  PROVE  Leads(Starts(d) \o <<Call("drawer", 0)>>, Start(t), St(0, 0, 0, 0, 1, Opened(t)))
<1>0. PICK k \in {0, 1}, j \in {0, 1} : (k = 1 \/ j = 1) /\ Leads(Starts(d), Start(t), St(0, 0, 0, k, j, t))
  BY StartsLead
<1>1. Takes1(St(0, 0, 0, k, j, t), Call("drawer", 0), St(0, 0, 0, 0, 1, Opened(t)))  BY DrawerTakes, SomeParams
<1> QED  BY <1>0, <1>1, JustOne, ThenCalls

\* What a document owes when it begins.
Due(d) == [cuts |-> 0, kicks |-> 0, owed |-> IF Opens(d) THEN 1 ELSE 0]

\* Every document leads from a device in any mode to its end, each line set as it is
\* meant to look on the way, and is cut and opens the drawer as often as it should.
LEMMA DocumentLeads ==
  ASSUME NEW d \in Documents
  PROVE  \E b : /\ Leads(Calls(d), Start(Due(d)), b)
                /\ b.tally.cuts = (IF d.kind = "drawer" THEN 0 ELSE 1)
                /\ b.tally.kicks = (IF Opens(d) THEN 1 ELSE 0)
<1> DEFINE t == Due(d)
<1>1. t \in Tallies /\ (Opens(d) => t.owed > 0) /\ t.cuts = 0 /\ t.kicks = 0  BY DEF Due, Tallies
<1>2. /\ d.full \in BOOLEAN /\ d.arabic \in BOOLEAN
      /\ d.kind = "receipt" \/ d.kind = "X" \/ d.kind = "Z" \/ d.kind = "drawer" \/ d.kind = "test"
  BY DEF Documents
<1> HIDE DEF t
<1>3. CASE d.kind = "receipt"
  <2>1. Calls(d) = Receipt(d)  BY <1>3, Zenon DEF Calls
  <2>2. Opens(d) /\ d.kind # "drawer"  BY <1>3 DEF Opens
  <2>3. Leads(Calls(d), Start(t), St(0, 0, 1, 0, 1, Opened(Cut(t))))  BY <2>1, <2>2, <1>1, <1>2, ReceiptLeads
  <2>4. Opened(Cut(t)).cuts = 1 /\ Opened(Cut(t)).kicks = 1  BY <1>1 DEF Opened, Cut
  <2>5. St(0, 0, 1, 0, 1, Opened(Cut(t))).tally = Opened(Cut(t))  BY DEF St
  <2> QED  BY <2>2, <2>3, <2>4, <2>5 DEF t
<1>4. CASE d.kind = "X"
  <2>1. Calls(d) = XReport(d)  BY <1>4, Zenon DEF Calls
  <2>2. ~Opens(d) /\ d.kind # "drawer"  BY <1>4 DEF Opens
  <2>3. Leads(Calls(d), Start(t), St(0, 0, 1, 1, 0, Cut(t)))  BY <2>1, <1>1, <1>2, XReportLeads
  <2>4. Cut(t).cuts = 1 /\ Cut(t).kicks = 0  BY <1>1 DEF Cut
  <2>5. St(0, 0, 1, 1, 0, Cut(t)).tally = Cut(t)  BY DEF St
  <2> QED  BY <2>2, <2>3, <2>4, <2>5 DEF t
<1>5. CASE d.kind = "Z"
  <2>1. Calls(d) = ZReport(d)  BY <1>5, Zenon DEF Calls
  <2>2. ~Opens(d) /\ d.kind # "drawer"  BY <1>5 DEF Opens
  <2>3. Leads(Calls(d), Start(t), St(0, 0, 1, 1, 0, Cut(t)))  BY <2>1, <1>1, <1>2, ZReportLeads
  <2>4. Cut(t).cuts = 1 /\ Cut(t).kicks = 0  BY <1>1 DEF Cut
  <2>5. St(0, 0, 1, 1, 0, Cut(t)).tally = Cut(t)  BY DEF St
  <2> QED  BY <2>2, <2>3, <2>4, <2>5 DEF t
<1>6. CASE d.kind = "test"
  <2>1. Calls(d) = TestPrint(d)  BY <1>6, Zenon DEF Calls
  <2>2. ~Opens(d) /\ d.kind # "drawer"  BY <1>6 DEF Opens
  <2>3. Leads(Calls(d), Start(t), St(0, 0, 1, 1, 1, Cut(t)))  BY <2>1, <1>1, <1>2, TestPrintLeads
  <2>4. Cut(t).cuts = 1 /\ Cut(t).kicks = 0  BY <1>1 DEF Cut
  <2>5. St(0, 0, 1, 1, 1, Cut(t)).tally = Cut(t)  BY DEF St
  <2> QED  BY <2>2, <2>3, <2>4, <2>5 DEF t
<1>7. CASE d.kind = "drawer"
  <2>1. Calls(d) = Starts(d) \o <<Call("drawer", 0)>>  BY <1>7, Zenon DEF Calls
  <2>2. Opens(d)  BY <1>7 DEF Opens
  <2>3. Leads(Calls(d), Start(t), St(0, 0, 0, 0, 1, Opened(t)))  BY <2>1, <2>2, <1>1, <1>2, PulseLeads
  <2>4. Opened(t).cuts = 0 /\ Opened(t).kicks = 1  BY <1>1 DEF Opened
  <2>5. St(0, 0, 0, 0, 1, Opened(t)).tally = Opened(t)  BY DEF St
  <2> QED  BY <1>7, <2>2, <2>3, <2>4, <2>5 DEF t
<1> QED  BY <1>2, <1>3, <1>4, <1>5, <1>6, <1>7

-----------------------------------------------------------------------------
(* The bytes of a call.                                                    *)

\* Short sequences of bytes, written out.
LEMMA TupleIs ==
  /\ \A s \in Seq(Nat) : Len(s) = 2 => s = <<s[1], s[2]>>
  /\ \A s \in Seq(Nat) : Len(s) = 5 => s = <<s[1], s[2], s[3], s[4], s[5]>>
  /\ \A s \in Seq(Nat) : Len(s) = 8 => s = <<s[1], s[2], s[3], s[4], s[5], s[6], s[7], s[8]>>
  /\ \A s \in Seq(Nat) : Len(s) = 9 => s = <<s[1], s[2], s[3], s[4], s[5], s[6], s[7], s[8], s[9]>>
  OBVIOUS

\* The parts of a QR code and the bar code, byte for byte.
LEMMA QrPartOfOne ==
  ASSUME NEW f \in Nat, NEW n \in Nat PROVE QrPart(f, <<n>>) = <<29, 40, 107, 3, 0, 49, f, n>>
<1> DEFINE s == <<29, 40, 107, 3, 0, 49, f>> \o <<n>>
<1>1. QrPart(f, <<n>>) = s  BY DEF QrPart, GS
<1>2. s \in Seq(Nat) /\ Len(s) = 8  OBVIOUS
<1>3. s[1] = 29 /\ s[2] = 40 /\ s[3] = 107 /\ s[4] = 3 /\ s[5] = 0 /\ s[6] = 49 /\ s[7] = f /\ s[8] = n  OBVIOUS
<1> HIDE DEF s
<1> QED  BY <1>1, <1>2, <1>3, TupleIs

LEMMA QrPartOfTwo ==
  ASSUME NEW f \in Nat, NEW n \in Nat, NEW m \in Nat
  PROVE  QrPart(f, <<n, m>>) = <<29, 40, 107, 4, 0, 49, f, n, m>>
<1> DEFINE s == <<29, 40, 107, 4, 0, 49, f>> \o <<n, m>>
<1>1. QrPart(f, <<n, m>>) = s  BY DEF QrPart, GS
<1>2. s \in Seq(Nat) /\ Len(s) = 9  OBVIOUS
<1>3. s[1] = 29 /\ s[2] = 40 /\ s[3] = 107 /\ s[4] = 4 /\ s[5] = 0 /\ s[6] = 49 /\ s[7] = f /\ s[8] = n
      /\ s[9] = m
  OBVIOUS
<1> HIDE DEF s
<1> QED  BY <1>1, <1>2, <1>3, TupleIs

LEMMA CodesAre ==
  /\ <<GS, 107, 73, Len(CodeData)>> \o CodeData = <<29, 107, 73, 1, 82>>
  /\ \A n \in Nat : <<n>> \o CodeData = <<n, 82>>
<1>1. CodeData = <<82>> /\ GS = 29  BY DEF CodeData, GS
<1>2. <<GS, 107, 73, Len(CodeData)>> \o CodeData = <<29, 107, 73, 1, 82>>
  <2> DEFINE s == <<29, 107, 73, 1>> \o <<82>>
  <2>1. s \in Seq(Nat) /\ Len(s) = 5  OBVIOUS
  <2>2. s[1] = 29 /\ s[2] = 107 /\ s[3] = 73 /\ s[4] = 1 /\ s[5] = 82  OBVIOUS
  <2>3. <<GS, 107, 73, Len(CodeData)>> \o CodeData = s  BY <1>1
  <2> HIDE DEF s
  <2> QED  BY <2>1, <2>2, <2>3, TupleIs
<1>3. ASSUME NEW n \in Nat PROVE <<n>> \o CodeData = <<n, 82>>
  <2> DEFINE s == <<n>> \o <<82>>
  <2>1. s \in Seq(Nat) /\ Len(s) = 2 /\ s[1] = n /\ s[2] = 82  OBVIOUS
  <2>2. <<n>> \o CodeData = s  BY <1>1
  <2> HIDE DEF s
  <2> QED  BY <2>1, <2>2, TupleIs
<1> QED  BY <1>2, <1>3

\* The commands, by the shape of their bytes.
EscDoings == [page |-> 116, align |-> 97, bold |-> 69, feed |-> 100]
GsDoings  == [size |-> 33, cut |-> 86, height |-> 104, width |-> 119, below |-> 72]
Shaped(c, bs) ==
  \/ c.do = "init" /\ bs = <<27, 64>>
  \/ c.do \in DOMAIN EscDoings /\ bs = <<27, EscDoings[c.do], c.n>>
  \/ c.do \in DOMAIN GsDoings /\ bs = <<29, GsDoings[c.do], IF c.do = "cut" THEN 0 ELSE c.n>>
  \/ c.do = "drawer" /\ bs = <<27, 112, 0, 25, 250>>
  \/ c.do = "barcode" /\ bs = <<29, 107, 73, 1, 82>>
  \/ c.do = "qr model" /\ bs = <<29, 40, 107, 4, 0, 49, 65, 50, 0>>
  \/ c.do = "qr size" /\ bs = <<29, 40, 107, 3, 0, 49, 67, c.n>>
  \/ c.do = "qr level" /\ bs = <<29, 40, 107, 3, 0, 49, 69, c.n>>
  \/ c.do = "qr store" /\ bs = <<29, 40, 107, 4, 0, 49, 80, c.n, 82>>
  \/ c.do = "qr print" /\ bs = <<29, 40, 107, 3, 0, 49, 81, c.n>>

\* Every command the documents make has a shape.
LEMMA CommandsAreShaped ==
  ASSUME NEW c \in AllCalls, c.do # "line", NEW ar PROVE Shaped(c, Bytes(c, ar))
<1> DEFINE bs == Bytes(c, ar)
<1>0. ESC = 27 /\ GS = 29  BY DEF ESC, GS
<1>1. c.do = "init" => bs = <<ESC, 64>>  BY Zenon DEF Bytes
<1>2. c.do = "page" => bs = <<ESC, 116, c.n>>  BY Zenon DEF Bytes
<1>3. c.do = "align" => bs = <<ESC, 97, c.n>>  BY Zenon DEF Bytes
<1>4. c.do = "bold" => bs = <<ESC, 69, c.n>>  BY Zenon DEF Bytes
<1>5. c.do = "feed" => bs = <<ESC, 100, c.n>>  BY Zenon DEF Bytes
<1>6. c.do = "size" => bs = <<GS, 33, c.n>>  BY Zenon DEF Bytes
<1>7. c.do = "cut" => bs = <<GS, 86, 0>>  BY Zenon DEF Bytes
<1>8. c.do = "height" => bs = <<GS, 104, c.n>>  BY Zenon DEF Bytes
<1>9. c.do = "width" => bs = <<GS, 119, c.n>>  BY Zenon DEF Bytes
<1>10. c.do = "below" => bs = <<GS, 72, c.n>>  BY Zenon DEF Bytes
<1>11. c.do = "drawer" => bs = <<ESC, 112, 0, 25, 250>>  BY Zenon DEF Bytes
<1>12. c.do = "barcode" => bs = <<GS, 107, 73, Len(CodeData)>> \o CodeData  BY Zenon DEF Bytes
<1>13. c.do = "qr model" => bs = QrPart(65, <<50, 0>>)  BY Zenon DEF Bytes
<1>14. c.do = "qr size" => bs = QrPart(67, <<c.n>>)  BY Zenon DEF Bytes
<1>15. c.do = "qr level" => bs = QrPart(69, <<c.n>>)  BY Zenon DEF Bytes
<1>16. c.do = "qr store" => bs = QrPart(80, <<c.n>> \o CodeData)  BY Zenon DEF Bytes
<1>17. c.do = "qr print" => bs = QrPart(81, <<c.n>>)  BY Zenon DEF Bytes
<1>18. c.n \in Nat /\ c.do \in Doings  BY DEF AllCalls, Params
<1> HIDE DEF bs
<1>19. CASE c.do = "init"  BY <1>19, <1>0, <1>1 DEF Shaped, bs
<1>20. CASE c.do \in {"page", "align", "bold", "feed"}
  <2>1. c.do \in DOMAIN EscDoings /\ bs = <<27, EscDoings[c.do], c.n>>
    BY <1>20, <1>0, <1>2, <1>3, <1>4, <1>5 DEF EscDoings
  <2> QED  BY <2>1 DEF Shaped, bs
<1>21. CASE c.do \in {"size", "cut", "height", "width", "below"}
  <2>1. c.do \in DOMAIN GsDoings /\ bs = <<29, GsDoings[c.do], IF c.do = "cut" THEN 0 ELSE c.n>>
    BY <1>21, <1>0, <1>6, <1>7, <1>8, <1>9, <1>10 DEF GsDoings
  <2> QED  BY <2>1 DEF Shaped, bs
<1>22. CASE c.do = "drawer"  BY <1>22, <1>0, <1>11 DEF Shaped, bs
<1>23. CASE c.do = "barcode"  BY <1>23, <1>12, CodesAre DEF Shaped, bs
<1>24. CASE c.do = "qr model"
  <2>1. QrPart(65, <<50, 0>>) = <<29, 40, 107, 4, 0, 49, 65, 50, 0>>  BY QrPartOfTwo
  <2> QED  BY <2>1, <1>24, <1>13 DEF Shaped, bs
<1>25. CASE c.do = "qr size"  BY <1>25, <1>14, <1>18, QrPartOfOne DEF Shaped, bs
<1>26. CASE c.do = "qr level"  BY <1>26, <1>15, <1>18, QrPartOfOne DEF Shaped, bs
<1>27. CASE c.do = "qr store"
  <2>1. bs = QrPart(80, <<c.n, 82>>)  BY <1>27, <1>16, <1>18, CodesAre
  <2>2. QrPart(80, <<c.n, 82>>) = <<29, 40, 107, 4, 0, 49, 80, c.n, 82>>  BY <1>18, QrPartOfTwo
  <2> QED  BY <2>1, <2>2, <1>27 DEF Shaped, bs
<1>28. CASE c.do = "qr print"  BY <1>28, <1>17, <1>18, QrPartOfOne DEF Shaped, bs
<1> QED
  BY <1>18, <1>19, <1>20, <1>21, <1>22, <1>23, <1>24, <1>25, <1>26, <1>27, <1>28 DEF Doings, QrDoings

\* Bytes of a shape: at least two, ESC or GS first and neither nor a line feed again,
\* and a 112 only as the second of a pulse.
LEMMA ShapesAre ==
  ASSUME NEW c \in AllCalls, c.do # "line", NEW bs, Shaped(c, bs)
  PROVE  /\ bs \in Seq(Nat) /\ Len(bs) >= 2 /\ bs[1] \in {27, 29}
         /\ \A i \in 2..Len(bs) : bs[i] \notin {10, 27, 29}
         /\ \A i \in 1..Len(bs) : bs[i] = 112 <=> (c.do = "drawer" /\ i = 2)
<1>0. /\ c.n \in Nat /\ c.n \notin {10, 27, 29, 112}
      /\ \A x \in DOMAIN EscDoings : EscDoings[x] \in {116, 97, 69, 100} /\ x # "drawer"
      /\ \A x \in DOMAIN GsDoings : GsDoings[x] \in {33, 86, 104, 119, 72} /\ x # "drawer"
  BY DEF AllCalls, Params, EscDoings, GsDoings
<1>1. CASE c.do = "init" /\ bs = <<27, 64>>
  BY <1>1, <1>0
<1>2. CASE c.do \in DOMAIN EscDoings /\ bs = <<27, EscDoings[c.do], c.n>>
  BY <1>2, <1>0
<1>3. CASE c.do \in DOMAIN GsDoings /\ bs = <<29, GsDoings[c.do], IF c.do = "cut" THEN 0 ELSE c.n>>
  BY <1>3, <1>0
<1>4. CASE c.do = "drawer" /\ bs = <<27, 112, 0, 25, 250>>
  BY <1>4, <1>0
<1>5. CASE c.do = "barcode" /\ bs = <<29, 107, 73, 1, 82>>
  BY <1>5, <1>0
<1>6. CASE c.do = "qr model" /\ bs = <<29, 40, 107, 4, 0, 49, 65, 50, 0>>
  <2>1. Len(bs) = 9 /\ bs[1] = 29 /\ bs[2] = 40 /\ bs[3] = 107 /\ bs[4] = 4 /\ bs[5] = 0 /\ bs[6] = 49
        /\ bs[7] = 65 /\ bs[8] = 50 /\ bs[9] = 0
    BY <1>6
  <2>8. \A n \in Nat : <<29, 40, 107, 4, 0, 49, 65, 50, 0>> \in Seq(Nat)  OBVIOUS
  <2>2. bs \in Seq(Nat)  BY <2>8, <1>6, <1>0
  <2>7. c.do # "drawer"  BY <1>6
  <2>3. \A i \in 1..Len(bs) : i = 1 \/ i = 2 \/ i = 3 \/ i = 4 \/ i = 5 \/ i = 6 \/ i = 7 \/ i = 8 \/ i = 9
    BY <2>1
  <2>4. 40 \notin {10, 27, 29, 112} /\ 107 \notin {10, 27, 29, 112} /\ 4 \notin {10, 27, 29, 112}
        /\ 0 \notin {10, 27, 29, 112} /\ 49 \notin {10, 27, 29, 112} /\ 65 \notin {10, 27, 29, 112}
            /\ 50 \notin {10, 27, 29, 112} /\ 0 \notin {10, 27, 29, 112}
    BY <1>0
  <2>5. \A i \in 2..Len(bs) : bs[i] \notin {10, 27, 29, 112}  BY <2>1, <2>3, <2>4
  <2>6. \A i \in 1..Len(bs) : bs[i] # 112  BY <2>1, <2>5
  <2> QED  BY <2>7, <2>1, <2>2, <2>5, <2>6
<1>7. CASE c.do = "qr size" /\ bs = <<29, 40, 107, 3, 0, 49, 67, c.n>>
  <2>1. Len(bs) = 8 /\ bs[1] = 29 /\ bs[2] = 40 /\ bs[3] = 107 /\ bs[4] = 3 /\ bs[5] = 0 /\ bs[6] = 49
        /\ bs[7] = 67 /\ bs[8] = c.n
    BY <1>7
  <2>8. \A n \in Nat : <<29, 40, 107, 3, 0, 49, 67, n>> \in Seq(Nat)  OBVIOUS
  <2>2. bs \in Seq(Nat)  BY <2>8, <1>7, <1>0
  <2>7. c.do # "drawer"  BY <1>7
  <2>3. \A i \in 1..Len(bs) : i = 1 \/ i = 2 \/ i = 3 \/ i = 4 \/ i = 5 \/ i = 6 \/ i = 7 \/ i = 8
    BY <2>1
  <2>4. 40 \notin {10, 27, 29, 112} /\ 107 \notin {10, 27, 29, 112} /\ 3 \notin {10, 27, 29, 112}
        /\ 0 \notin {10, 27, 29, 112} /\ 49 \notin {10, 27, 29, 112} /\ 67 \notin {10, 27, 29, 112}
            /\ c.n \notin {10, 27, 29, 112}
    BY <1>0
  <2>5. \A i \in 2..Len(bs) : bs[i] \notin {10, 27, 29, 112}  BY <2>1, <2>3, <2>4
  <2>6. \A i \in 1..Len(bs) : bs[i] # 112  BY <2>1, <2>5
  <2> QED  BY <2>7, <2>1, <2>2, <2>5, <2>6
<1>8. CASE c.do = "qr level" /\ bs = <<29, 40, 107, 3, 0, 49, 69, c.n>>
  <2>1. Len(bs) = 8 /\ bs[1] = 29 /\ bs[2] = 40 /\ bs[3] = 107 /\ bs[4] = 3 /\ bs[5] = 0 /\ bs[6] = 49
        /\ bs[7] = 69 /\ bs[8] = c.n
    BY <1>8
  <2>8. \A n \in Nat : <<29, 40, 107, 3, 0, 49, 69, n>> \in Seq(Nat)  OBVIOUS
  <2>2. bs \in Seq(Nat)  BY <2>8, <1>8, <1>0
  <2>7. c.do # "drawer"  BY <1>8
  <2>3. \A i \in 1..Len(bs) : i = 1 \/ i = 2 \/ i = 3 \/ i = 4 \/ i = 5 \/ i = 6 \/ i = 7 \/ i = 8
    BY <2>1
  <2>4. 40 \notin {10, 27, 29, 112} /\ 107 \notin {10, 27, 29, 112} /\ 3 \notin {10, 27, 29, 112}
        /\ 0 \notin {10, 27, 29, 112} /\ 49 \notin {10, 27, 29, 112} /\ 69 \notin {10, 27, 29, 112}
            /\ c.n \notin {10, 27, 29, 112}
    BY <1>0
  <2>5. \A i \in 2..Len(bs) : bs[i] \notin {10, 27, 29, 112}  BY <2>1, <2>3, <2>4
  <2>6. \A i \in 1..Len(bs) : bs[i] # 112  BY <2>1, <2>5
  <2> QED  BY <2>7, <2>1, <2>2, <2>5, <2>6
<1>9. CASE c.do = "qr store" /\ bs = <<29, 40, 107, 4, 0, 49, 80, c.n, 82>>
  <2>1. Len(bs) = 9 /\ bs[1] = 29 /\ bs[2] = 40 /\ bs[3] = 107 /\ bs[4] = 4 /\ bs[5] = 0 /\ bs[6] = 49
        /\ bs[7] = 80 /\ bs[8] = c.n /\ bs[9] = 82
    BY <1>9
  <2>8. \A n \in Nat : <<29, 40, 107, 4, 0, 49, 80, n, 82>> \in Seq(Nat)  OBVIOUS
  <2>2. bs \in Seq(Nat)  BY <2>8, <1>9, <1>0
  <2>7. c.do # "drawer"  BY <1>9
  <2>3. \A i \in 1..Len(bs) : i = 1 \/ i = 2 \/ i = 3 \/ i = 4 \/ i = 5 \/ i = 6 \/ i = 7 \/ i = 8 \/ i = 9
    BY <2>1
  <2>4. 40 \notin {10, 27, 29, 112} /\ 107 \notin {10, 27, 29, 112} /\ 4 \notin {10, 27, 29, 112}
        /\ 0 \notin {10, 27, 29, 112} /\ 49 \notin {10, 27, 29, 112} /\ 80 \notin {10, 27, 29, 112}
            /\ c.n \notin {10, 27, 29, 112} /\ 82 \notin {10, 27, 29, 112}
    BY <1>0
  <2>5. \A i \in 2..Len(bs) : bs[i] \notin {10, 27, 29, 112}  BY <2>1, <2>3, <2>4
  <2>6. \A i \in 1..Len(bs) : bs[i] # 112  BY <2>1, <2>5
  <2> QED  BY <2>7, <2>1, <2>2, <2>5, <2>6
<1>10. CASE c.do = "qr print" /\ bs = <<29, 40, 107, 3, 0, 49, 81, c.n>>
  <2>1. Len(bs) = 8 /\ bs[1] = 29 /\ bs[2] = 40 /\ bs[3] = 107 /\ bs[4] = 3 /\ bs[5] = 0 /\ bs[6] = 49
        /\ bs[7] = 81 /\ bs[8] = c.n
    BY <1>10
  <2>8. \A n \in Nat : <<29, 40, 107, 3, 0, 49, 81, n>> \in Seq(Nat)  OBVIOUS
  <2>2. bs \in Seq(Nat)  BY <2>8, <1>10, <1>0
  <2>7. c.do # "drawer"  BY <1>10
  <2>3. \A i \in 1..Len(bs) : i = 1 \/ i = 2 \/ i = 3 \/ i = 4 \/ i = 5 \/ i = 6 \/ i = 7 \/ i = 8
    BY <2>1
  <2>4. 40 \notin {10, 27, 29, 112} /\ 107 \notin {10, 27, 29, 112} /\ 3 \notin {10, 27, 29, 112}
        /\ 0 \notin {10, 27, 29, 112} /\ 49 \notin {10, 27, 29, 112} /\ 81 \notin {10, 27, 29, 112}
            /\ c.n \notin {10, 27, 29, 112}
    BY <1>0
  <2>5. \A i \in 2..Len(bs) : bs[i] \notin {10, 27, 29, 112}  BY <2>1, <2>3, <2>4
  <2>6. \A i \in 1..Len(bs) : bs[i] # 112  BY <2>1, <2>5
  <2> QED  BY <2>7, <2>1, <2>2, <2>5, <2>6
<1> QED  BY <1>1, <1>2, <1>3, <1>4, <1>5, <1>6, <1>7, <1>8, <1>9, <1>10 DEF Shaped

\* How long a command is, told from each of its beginnings.
LEMMA WantedIs ==
  ASSUME NEW c \in AllCalls, c.do # "line", NEW bs, Shaped(c, bs), NEW j \in 2..Len(bs),
         NEW p, Len(p) = j, \A i \in 1..j : p[i] = bs[i]
  PROVE  Len(p) < Wanted(p) <=> j < Len(bs)
<1>0. /\ \A x \in DOMAIN EscDoings : EscDoings[x] \in {116, 97, 69, 100}
      /\ \A x \in DOMAIN GsDoings : GsDoings[x] \in {33, 86, 104, 119, 72}
      /\ p[1] = bs[1] /\ p[2] = bs[2] /\ (j >= 4 => p[4] = bs[4]) /\ (j >= 5 => p[5] = bs[5])
      /\ ESC = 27 /\ GS = 29
  BY DEF EscDoings, GsDoings, ESC, GS
<1>1. CASE c.do = "init" /\ bs = <<27, 64>>
  BY <1>1, <1>0 DEF Wanted
<1>2. CASE c.do \in DOMAIN EscDoings /\ bs = <<27, EscDoings[c.do], c.n>>
  BY <1>2, <1>0 DEF Wanted
<1>3. CASE c.do \in DOMAIN GsDoings /\ bs = <<29, GsDoings[c.do], IF c.do = "cut" THEN 0 ELSE c.n>>
  BY <1>3, <1>0 DEF Wanted
<1>4. CASE c.do = "drawer" /\ bs = <<27, 112, 0, 25, 250>>
  BY <1>4, <1>0 DEF Wanted
<1>5. CASE c.do = "barcode" /\ bs = <<29, 107, 73, 1, 82>>
  BY <1>5, <1>0 DEF Wanted
<1>6. CASE c.do = "qr model" /\ bs = <<29, 40, 107, 4, 0, 49, 65, 50, 0>>
  <2>1. Len(bs) = 9 /\ bs[1] = 29 /\ bs[2] = 40 /\ bs[3] = 107 /\ bs[4] = 4 /\ bs[5] = 0 /\ bs[6] = 49
        /\ bs[7] = 65 /\ bs[8] = 50 /\ bs[9] = 0
    BY <1>6
  <2>2. (j < 5 => j = 2 \/ j = 3 \/ j = 4) /\ Len(p) = j /\ j \in 2..9  BY <2>1
  <2> QED  BY <2>1, <2>2, <1>0 DEF Wanted
<1>7. CASE c.do = "qr size" /\ bs = <<29, 40, 107, 3, 0, 49, 67, c.n>>
  <2>1. Len(bs) = 8 /\ bs[1] = 29 /\ bs[2] = 40 /\ bs[3] = 107 /\ bs[4] = 3 /\ bs[5] = 0 /\ bs[6] = 49
        /\ bs[7] = 67 /\ bs[8] = c.n
    BY <1>7
  <2>2. (j < 5 => j = 2 \/ j = 3 \/ j = 4) /\ Len(p) = j /\ j \in 2..8  BY <2>1
  <2> QED  BY <2>1, <2>2, <1>0 DEF Wanted
<1>8. CASE c.do = "qr level" /\ bs = <<29, 40, 107, 3, 0, 49, 69, c.n>>
  <2>1. Len(bs) = 8 /\ bs[1] = 29 /\ bs[2] = 40 /\ bs[3] = 107 /\ bs[4] = 3 /\ bs[5] = 0 /\ bs[6] = 49
        /\ bs[7] = 69 /\ bs[8] = c.n
    BY <1>8
  <2>2. (j < 5 => j = 2 \/ j = 3 \/ j = 4) /\ Len(p) = j /\ j \in 2..8  BY <2>1
  <2> QED  BY <2>1, <2>2, <1>0 DEF Wanted
<1>9. CASE c.do = "qr store" /\ bs = <<29, 40, 107, 4, 0, 49, 80, c.n, 82>>
  <2>1. Len(bs) = 9 /\ bs[1] = 29 /\ bs[2] = 40 /\ bs[3] = 107 /\ bs[4] = 4 /\ bs[5] = 0 /\ bs[6] = 49
        /\ bs[7] = 80 /\ bs[8] = c.n /\ bs[9] = 82
    BY <1>9
  <2>2. (j < 5 => j = 2 \/ j = 3 \/ j = 4) /\ Len(p) = j /\ j \in 2..9  BY <2>1
  <2> QED  BY <2>1, <2>2, <1>0 DEF Wanted
<1>10. CASE c.do = "qr print" /\ bs = <<29, 40, 107, 3, 0, 49, 81, c.n>>
  <2>1. Len(bs) = 8 /\ bs[1] = 29 /\ bs[2] = 40 /\ bs[3] = 107 /\ bs[4] = 3 /\ bs[5] = 0 /\ bs[6] = 49
        /\ bs[7] = 81 /\ bs[8] = c.n
    BY <1>10
  <2>2. (j < 5 => j = 2 \/ j = 3 \/ j = 4) /\ Len(p) = j /\ j \in 2..8  BY <2>1
  <2> QED  BY <2>1, <2>2, <1>0 DEF Wanted
<1> QED  BY <1>1, <1>2, <1>3, <1>4, <1>5, <1>6, <1>7, <1>8, <1>9, <1>10 DEF Shaped

\* Which command it is.
Reads(c, bs) ==
  /\ (bs[1] = 27 /\ bs[2] = 64) <=> c.do = "init"
  /\ (bs[1] = 27 /\ bs[2] = 69) <=> c.do = "bold"
  /\ (bs[1] = 29 /\ bs[2] = 33) <=> c.do = "size"
  /\ (bs[1] = 27 /\ bs[2] = 97) <=> c.do = "align"
  /\ (bs[1] = 29 /\ bs[2] = 86) <=> c.do = "cut"
  /\ (bs[1] = 27 /\ bs[2] = 112) <=> c.do = "drawer"
  /\ (bs[1] = 29 /\ bs[2] = 107) <=> c.do = "barcode"
  /\ (bs[1] = 29 /\ bs[2] = 40 /\ Len(bs) > 6 /\ bs[7] = 81) <=> c.do = "qr print"
  /\ c.do \in {"bold", "size", "align"} => bs[3] = c.n
  /\ c.do = "barcode" => bs = <<29, 107, 73, 1, 82>>

\* What the device reads in the bytes of a command is that command.
LEMMA ReadsAs ==
  ASSUME NEW c \in AllCalls, c.do # "line", NEW bs, Shaped(c, bs)
  PROVE  Reads(c, bs)
<1>1. CASE c.do = "init" /\ bs = <<27, 64>>  BY <1>1 DEF Reads
<1>2. CASE c.do \in DOMAIN EscDoings /\ bs = <<27, EscDoings[c.do], c.n>>
  <2>1. bs[1] = 27 /\ bs[2] = EscDoings[c.do] /\ bs[3] = c.n  BY <1>2
  <2>2. EscDoings[c.do] # 64 /\ EscDoings[c.do] # 112 /\ (EscDoings[c.do] = 69 <=> c.do = "bold")
        /\ (EscDoings[c.do] = 97 <=> c.do = "align")
    BY <1>2 DEF EscDoings
  <2>3. c.do \notin {"init", "size", "cut", "drawer", "barcode", "qr print"}  BY <1>2 DEF EscDoings
  <2>4. /\ bs[1] # 29 /\ bs[1] = 27 /\ bs[2] # 64 /\ bs[2] # 112
        /\ bs[2] = 69 <=> c.do = "bold"
        /\ bs[2] = 97 <=> c.do = "align"
    BY <2>1, <2>2
  <2> QED  BY <2>1, <2>3, <2>4, Zenon DEF Reads
<1>3. CASE c.do \in DOMAIN GsDoings /\ bs = <<29, GsDoings[c.do], IF c.do = "cut" THEN 0 ELSE c.n>>
  <2>1. bs[1] = 29 /\ bs[2] = GsDoings[c.do] /\ (c.do # "cut" => bs[3] = c.n)  BY <1>3
  <2>2. GsDoings[c.do] # 40 /\ GsDoings[c.do] # 107 /\ (GsDoings[c.do] = 33 <=> c.do = "size")
        /\ (GsDoings[c.do] = 86 <=> c.do = "cut")
    BY <1>3 DEF GsDoings
  <2>3. c.do \notin {"init", "bold", "align", "drawer", "barcode", "qr print"}  BY <1>3 DEF GsDoings
  <2>4. /\ bs[1] # 27 /\ bs[1] = 29 /\ bs[2] # 40 /\ bs[2] # 107
        /\ bs[2] = 33 <=> c.do = "size"
        /\ bs[2] = 86 <=> c.do = "cut"
    BY <2>1, <2>2
  <2>5. c.do = "size" => bs[3] = c.n
    <3>1. "size" # "cut"  OBVIOUS
    <3> QED  BY <2>1, <3>1
  <2> QED  BY <2>3, <2>4, <2>5, Zenon DEF Reads
<1>4. CASE c.do = "drawer" /\ bs = <<27, 112, 0, 25, 250>>  BY <1>4 DEF Reads
<1>5. CASE c.do = "barcode" /\ bs = <<29, 107, 73, 1, 82>>  BY <1>5 DEF Reads
<1>6. CASE c.do = "qr model" /\ bs = <<29, 40, 107, 4, 0, 49, 65, 50, 0>>
  <2>1. bs[1] = 29 /\ bs[2] = 40 /\ bs[7] = 65  BY <1>6
  <2>4. bs[1] # 27 /\ bs[2] # 33 /\ bs[2] # 86 /\ bs[2] # 107  BY <2>1
  <2>5. c.do \notin {"init", "bold", "size", "align", "cut", "drawer", "barcode"}  BY <1>6
  <2>6. bs[7] # 81  BY <2>1
  <2>7. c.do # "qr print"  BY <1>6
  <2> QED  BY <2>4, <2>5, <2>6, <2>7, Zenon DEF Reads
<1>7. CASE c.do = "qr size" /\ bs = <<29, 40, 107, 3, 0, 49, 67, c.n>>
  <2>1. bs[1] = 29 /\ bs[2] = 40 /\ bs[7] = 67  BY <1>7
  <2>4. bs[1] # 27 /\ bs[2] # 33 /\ bs[2] # 86 /\ bs[2] # 107  BY <2>1
  <2>5. c.do \notin {"init", "bold", "size", "align", "cut", "drawer", "barcode"}  BY <1>7
  <2>6. bs[7] # 81  BY <2>1
  <2>7. c.do # "qr print"  BY <1>7
  <2> QED  BY <2>4, <2>5, <2>6, <2>7, Zenon DEF Reads
<1>8. CASE c.do = "qr level" /\ bs = <<29, 40, 107, 3, 0, 49, 69, c.n>>
  <2>1. bs[1] = 29 /\ bs[2] = 40 /\ bs[7] = 69  BY <1>8
  <2>4. bs[1] # 27 /\ bs[2] # 33 /\ bs[2] # 86 /\ bs[2] # 107  BY <2>1
  <2>5. c.do \notin {"init", "bold", "size", "align", "cut", "drawer", "barcode"}  BY <1>8
  <2>6. bs[7] # 81  BY <2>1
  <2>7. c.do # "qr print"  BY <1>8
  <2> QED  BY <2>4, <2>5, <2>6, <2>7, Zenon DEF Reads
<1>9. CASE c.do = "qr store" /\ bs = <<29, 40, 107, 4, 0, 49, 80, c.n, 82>>
  <2>1. bs[1] = 29 /\ bs[2] = 40 /\ bs[7] = 80  BY <1>9
  <2>4. bs[1] # 27 /\ bs[2] # 33 /\ bs[2] # 86 /\ bs[2] # 107  BY <2>1
  <2>5. c.do \notin {"init", "bold", "size", "align", "cut", "drawer", "barcode"}  BY <1>9
  <2>6. bs[7] # 81  BY <2>1
  <2>7. c.do # "qr print"  BY <1>9
  <2> QED  BY <2>4, <2>5, <2>6, <2>7, Zenon DEF Reads
<1>10. CASE c.do = "qr print" /\ bs = <<29, 40, 107, 3, 0, 49, 81, c.n>>
  <2>1. bs[1] = 29 /\ bs[2] = 40 /\ bs[7] = 81  BY <1>10
  <2>2. Len(bs) = 8  BY <1>10
  <2>3. Len(bs) > 6  BY <2>2
  <2>4. bs[1] # 27 /\ bs[2] # 33 /\ bs[2] # 86 /\ bs[2] # 107  BY <2>1
  <2>5. c.do \notin {"init", "bold", "size", "align", "cut", "drawer", "barcode"}  BY <1>10
  <2> QED  BY <1>10, <2>1, <2>3, <2>4, <2>5, Zenon DEF Reads
<1> QED  BY <1>1, <1>2, <1>3, <1>4, <1>5, <1>6, <1>7, <1>8, <1>9, <1>10 DEF Shaped


\* The device with what came out of it, of whatever bytes.
Outs    == [lines : Seq([text : Seq(Nat), bold : Nat, size : Nat, align : Nat]), cuts : Nat, kicks : Nat]
Devices == [modes : [bold : Nat, size : Nat, align : Nat], pend : Seq(Nat), line : Seq(Nat), out : Outs]

\* What a whole command makes of the device.
Coded(s, c) ==
  [modes |-> AfterModes(s.modes, c), pend |-> <<>>, line |-> IF c.do = "init" THEN <<>> ELSE s.line,
   out |-> [lines |-> s.out.lines \o (IF IsSeen(c) THEN <<Set(s.modes, CodeData)>> ELSE <<>>),
            cuts |-> s.out.cuts + (IF c.do = "cut" THEN 1 ELSE 0),
            kicks |-> s.out.kicks + (IF c.do = "drawer" THEN 1 ELSE 0)]]

\* The data of a bar code.
LEMMA CodeTail == SubSeq(<<29, 107, 73, 1, 82>>, 5, Len(<<29, 107, 73, 1, 82>>)) = <<82>>
<1> DEFINE s == <<29, 107, 73, 1, 82>>
           t == SubSeq(s, 5, 5)
<1>1. s \in Seq(Nat) /\ Len(s) = 5 /\ s[5] = 82  OBVIOUS
<1> HIDE DEF s
<1>2. t \in Seq(Nat) /\ Len(t) = 1 /\ t[1] = 82  BY <1>1
<1> HIDE DEF t
<1>3. t = <<82>>  BY <1>2
<1> QED  BY <1>1, <1>3 DEF t, s

\* The device does what the call says.
LEMMA ObeysCommand ==
  ASSUME NEW c \in AllCalls, c.do # "line", NEW bs, Shaped(c, bs), NEW s \in Devices
  PROVE  Obeys(s, bs) = Coded(s, c)
<1> DEFINE is(a, b) == bs[1] = a /\ bs[2] = b
           sets(a, b, mode) == IF is(a, b) THEN bs[3] ELSE mode
           prints == IF is(GS, 107) THEN <<Set(s.modes, SubSeq(bs, 5, Len(bs)))>>
                     ELSE IF is(GS, 40) /\ Len(bs) > 6 /\ bs[7] = 81 THEN <<Set(s.modes, CodeData)>> ELSE <<>>
<1>0. ESC = 27 /\ GS = 29  BY DEF ESC, GS
<1>9. Reads(c, bs)  BY ReadsAs
<1>10. is(ESC, 64) <=> c.do = "init"  BY <1>0, <1>9, Zenon DEF Reads
<1>11. is(ESC, 69) <=> c.do = "bold"  BY <1>0, <1>9, Zenon DEF Reads
<1>12. is(GS, 33) <=> c.do = "size"  BY <1>0, <1>9, Zenon DEF Reads
<1>13. is(ESC, 97) <=> c.do = "align"  BY <1>0, <1>9, Zenon DEF Reads
<1>14. is(GS, 86) <=> c.do = "cut"  BY <1>0, <1>9, Zenon DEF Reads
<1>15. is(ESC, 112) <=> c.do = "drawer"  BY <1>0, <1>9, Zenon DEF Reads
<1>16. is(GS, 107) <=> c.do = "barcode"  BY <1>0, <1>9, Zenon DEF Reads
<1>17. (is(GS, 40) /\ Len(bs) > 6 /\ bs[7] = 81) <=> c.do = "qr print"  BY <1>0, <1>9, Zenon DEF Reads
<1>18. c.do \in {"bold", "size", "align"} => bs[3] = c.n  BY <1>9, Zenon DEF Reads
<1>19. c.do = "barcode" => bs = <<29, 107, 73, 1, 82>>  BY <1>9, Zenon DEF Reads
<1>2. IsSeen(c) <=> c.do = "barcode" \/ c.do = "qr print"  BY DEF IsSeen
<1>3. prints = (IF IsSeen(c) THEN <<Set(s.modes, CodeData)>> ELSE <<>>)
  <2>1. c.do = "barcode" => SubSeq(bs, 5, Len(bs)) = CodeData
    <3> QED  BY <1>19, CodeTail DEF CodeData
  <2> QED  BY <1>2, <2>1, <1>16, <1>17
<1>4. (IF is(ESC, 64) THEN Modes
       ELSE [bold |-> sets(ESC, 69, s.modes.bold), size |-> sets(GS, 33, s.modes.size),
             align |-> sets(ESC, 97, s.modes.align)]) = AfterModes(s.modes, c)
  <2>1. CASE c.do = "init"  BY <2>1, <1>10 DEF AfterModes
  <2>2. CASE c.do # "init"
    <3>1. sets(ESC, 69, s.modes.bold) = (IF c.do = "bold" THEN c.n ELSE s.modes.bold)  BY <1>11, <1>18
    <3>2. sets(GS, 33, s.modes.size) = (IF c.do = "size" THEN c.n ELSE s.modes.size)  BY <1>12, <1>18
    <3>3. sets(ESC, 97, s.modes.align) = (IF c.do = "align" THEN c.n ELSE s.modes.align)  BY <1>13, <1>18
    <3>4. ~is(ESC, 64)  BY <2>2, <1>10
    <3> HIDE DEF is, sets
    <3> QED  BY <2>2, <3>1, <3>2, <3>3, <3>4 DEF AfterModes
  <2> QED  BY <2>1, <2>2
<1>5. (IF is(ESC, 64) THEN <<>> ELSE s.line) = (IF c.do = "init" THEN <<>> ELSE s.line)  BY <1>10
<1>6. (IF is(GS, 86) THEN 1 ELSE 0) = (IF c.do = "cut" THEN 1 ELSE 0)  BY <1>14
<1>7. (IF is(ESC, 112) THEN 1 ELSE 0) = (IF c.do = "drawer" THEN 1 ELSE 0)  BY <1>15
<1> DEFINE m1 == IF is(ESC, 64) THEN Modes
                 ELSE [bold |-> sets(ESC, 69, s.modes.bold), size |-> sets(GS, 33, s.modes.size),
                       align |-> sets(ESC, 97, s.modes.align)]
           l1 == IF is(ESC, 64) THEN <<>> ELSE s.line
           c1 == IF is(GS, 86) THEN 1 ELSE 0
           k1 == IF is(ESC, 112) THEN 1 ELSE 0
           m2 == AfterModes(s.modes, c)
           l2 == IF c.do = "init" THEN <<>> ELSE s.line
           p2 == IF IsSeen(c) THEN <<Set(s.modes, CodeData)>> ELSE <<>>
           c2 == IF c.do = "cut" THEN 1 ELSE 0
           k2 == IF c.do = "drawer" THEN 1 ELSE 0
<1>8. Obeys(s, bs) = [modes |-> m1, pend |-> <<>>, line |-> l1,
                      out |-> [lines |-> s.out.lines \o prints, cuts |-> s.out.cuts + c1,
                            kicks |-> s.out.kicks + k1]]
  BY Zenon DEF Obeys
<1>20. Coded(s, c) = [modes |-> m2, pend |-> <<>>, line |-> l2,
                      out |-> [lines |-> s.out.lines \o p2, cuts |-> s.out.cuts + c2,
                            kicks |-> s.out.kicks + k2]]
  BY Zenon DEF Coded
<1>21. m1 = m2 /\ l1 = l2 /\ prints = p2 /\ c1 = c2 /\ k1 = k2  BY <1>3, <1>4, <1>5, <1>6, <1>7
<1> HIDE DEF m1, l1, prints, c1, k1, m2, l2, p2, c2, k2, is, sets
<1> QED  BY <1>8, <1>20, <1>21


\* A byte of a command waits until the command is whole, and then it is done.
CommandOn(c, bs, j, s) ==
  /\ j < Len(bs) => Takes(s, bs[j]) = [s EXCEPT !.pend = SubSeq(bs, 1, j)]
  /\ j = Len(bs) => Takes(s, bs[j]) = Coded(s, c)

\* A byte of a command: the command grows, or is obeyed with its last byte.
LEMMA CommandByte ==
  ASSUME NEW c \in AllCalls, c.do # "line", NEW bs, Shaped(c, bs), NEW j \in 1..Len(bs), NEW s \in Devices,
         s.pend = SubSeq(bs, 1, j - 1)
  PROVE  CommandOn(c, bs, j, s)
<1> DEFINE q == SubSeq(bs, 1, j)
<1>1. bs \in Seq(Nat) /\ Len(bs) >= 2 /\ bs[1] \in {27, 29}  BY ShapesAre
<1>2. Append(s.pend, bs[j]) = q  BY <1>1
<1>3. Len(q) = j /\ \A i \in 1..j : q[i] = bs[i]  BY <1>1
<1>4. s.pend # <<>> \/ bs[j] \in {ESC, GS}
  <2>1. CASE j = 1  BY <2>1, <1>1 DEF ESC, GS
  <2>2. CASE j # 1
    <3>1. Len(s.pend) = j - 1  BY <1>1
    <3> QED  BY <2>2, <3>1
  <2> QED  BY <2>1, <2>2
<1>5. Len(q) < Wanted(q) <=> j < Len(bs)
  <2>1. CASE j = 1  BY <2>1, <1>1, <1>3 DEF Wanted
  <2>2. CASE j # 1
    <3> j \in 2..Len(bs)  BY <2>2
    <3> HIDE DEF q
    <3> QED  BY <1>3, WantedIs
  <2> QED  BY <2>1, <2>2
<1>6. Takes(s, bs[j]) = IF Len(q) < Wanted(q) THEN [s EXCEPT !.pend = q] ELSE Obeys(s, q)
  <2> HIDE DEF q
  <2> QED  BY <1>2, <1>4 DEF Takes
<1>7. j = Len(bs) => q = bs  BY <1>1
<1>8. Obeys(s, bs) = Coded(s, c)  BY ObeysCommand
<1> HIDE DEF q
<1>9. j = Len(bs) => ~(j < Len(bs))  BY <1>1
<1> QED  BY <1>5, <1>6, <1>7, <1>8, <1>9 DEF q, CommandOn

\* The text of a line, and how it is sent.
IsText(x, as, ar) ==
  /\ x \in Seq(Nat)
  /\ \A i \in 1..Len(x) : x[i] \notin {10, 27, 29, 112}
  /\ as = "blank" => x = <<>>
  /\ as # "blank" => x # <<>>
  /\ ar = FALSE => \A i \in 1..Len(x) : x[i] \in 32..126
  /\ ar = FALSE /\ as \in {"row", "total"} => x = Text("row", FALSE)
  /\ ar = FALSE /\ as \notin {"row", "total"} => x # Text("row", FALSE)

\* A row of the console, and the text of every sort of line.
LEMMA RowText ==
  /\ Text("row", FALSE) = <<65>> \o <<32, 48>> /\ Text("row", FALSE) \in Seq(Nat) /\ Len(Text("row", FALSE)) = 3
  /\ Text("row", FALSE)[1] = 65 /\ Text("row", FALSE)[2] = 32 /\ Text("row", FALSE)[3] = 48
<1>1. Text("row", FALSE) = Word(FALSE) \o <<32, 48>>  BY Zenon DEF Text
<1>2. Word(FALSE) = <<65>>  BY DEF Word
<1> DEFINE r == <<65>> \o <<32, 48>>
<1>3. r \in Seq(Nat) /\ Len(r) = 3 /\ r[1] = 65 /\ r[2] = 32 /\ r[3] = 48  OBVIOUS
<1> HIDE DEF r
<1> QED  BY <1>1, <1>2, <1>3 DEF r

LEMMA TextIs == ASSUME NEW as \in Sorts, NEW ar \in BOOLEAN PROVE IsText(Text(as, ar), as, ar)
<1> DEFINE x == Text(as, ar)
           row == Text("row", FALSE)
<1>1. as = "blank" => x = <<>>  BY Zenon DEF Text
<1>2. as = "rule" => x = <<45>>  BY Zenon DEF Text
<1>3. as \in {"row", "total"} => x = Word(ar) \o <<32, 48>>  BY Zenon DEF Text
<1>4. as \in {"title", "heading", "centred", "text"} => x = Word(ar)  BY Zenon DEF Text
<1>5. (ar = TRUE => Word(ar) = <<216, 169>>) /\ (ar = FALSE => Word(ar) = <<65>>)  BY DEF Word
<1>6. row \in Seq(Nat) /\ Len(row) = 3 /\ row = <<65>> \o <<32, 48>> /\ row[1] = 65 /\ row[2] = 32
      /\ row[3] = 48
  BY RowText
<1>7. ar = TRUE \/ ar = FALSE  OBVIOUS
<1> HIDE DEF x, row
<1> SUFFICES IsText(x, as, ar)  BY DEF x
<1>8. CASE as = "blank"
  <2>1. x \in Seq(Nat) /\ Len(x) = 0  BY <1>8, <1>1
  <2>2. \A i \in 1..Len(x) : FALSE  BY <2>1
  <2>3. \A i \in 1..Len(x) : x[i] \notin {10, 27, 29, 112}  BY <2>1, <2>2
  <2>10. 65 \in 32..126 /\ 45 \in 32..126 /\ 32 \in 32..126 /\ 48 \in 32..126  OBVIOUS
  <2>4. \A i \in 1..Len(x) : x[i] \in 32..126  BY <2>1, <2>2, <2>10
  <2>5. x = <<>> /\ as = "blank"  BY <1>8, <2>1
  <2>6. as \notin {"row", "total"} /\ x # row  BY <1>8, <2>1, <1>6
  <2> QED  BY <2>1, <2>3, <2>4, <2>5, <2>6, Zenon DEF IsText, row
<1>9. CASE as = "rule"
  <2>7. x = <<45>>  BY <1>9, <1>2
  <2>1. x \in Seq(Nat) /\ Len(x) = 1 /\ x[1] = 45  BY <2>7
  <2>2. \A i \in 1..Len(x) : i = 1  BY <2>1
  <2>3. \A i \in 1..Len(x) : x[i] \notin {10, 27, 29, 112}  BY <2>1, <2>2
  <2>10. 65 \in 32..126 /\ 45 \in 32..126 /\ 32 \in 32..126 /\ 48 \in 32..126  OBVIOUS
  <2>4. \A i \in 1..Len(x) : x[i] \in 32..126  BY <2>1, <2>2, <2>10
  <2>8. as # "blank"  BY <1>9
  <2>13. Len(x) # 0  BY <2>1
  <2>9. x # <<>>  BY <2>13
  <2>5. x # <<>> /\ as # "blank"  BY <2>8, <2>9
  <2>11. as \notin {"row", "total"}  BY <1>9
  <2>12. x # row  BY <2>1, <1>6
  <2>6. as \notin {"row", "total"} /\ x # row  BY <2>11, <2>12
  <2> QED  BY <2>1, <2>3, <2>4, <2>5, <2>6, Zenon DEF IsText, row
<1>10. CASE as \in {"row", "total"} /\ ar = TRUE
  <2>7. x = <<216, 169>> \o <<32, 48>>  BY <1>10, <1>3, <1>5
  <2>1. x \in Seq(Nat) /\ Len(x) = 4 /\ x[1] = 216 /\ x[2] = 169 /\ x[3] = 32 /\ x[4] = 48  BY <2>7
  <2>2. \A i \in 1..Len(x) : i = 1 \/ i = 2 \/ i = 3 \/ i = 4  BY <2>1
  <2>3. \A i \in 1..Len(x) : x[i] \notin {10, 27, 29, 112}  BY <2>1, <2>2
  <2>4. ar = FALSE => \A i \in 1..Len(x) : x[i] \in 32..126  BY <1>10
  <2>8. as # "blank"  BY <1>10
  <2>13. Len(x) # 0  BY <2>1
  <2>9. x # <<>>  BY <2>13
  <2>5. x # <<>> /\ as # "blank"  BY <2>8, <2>9
  <2>6. ar = TRUE /\ ar # FALSE  BY <1>10
  <2> QED  BY <2>1, <2>3, <2>4, <2>5, <2>6, Zenon DEF IsText, row
<1>11. CASE as \in {"row", "total"} /\ ar = FALSE
  <2>7. x = <<65>> \o <<32, 48>>  BY <1>11, <1>3, <1>5
  <2>1. x \in Seq(Nat) /\ Len(x) = 3 /\ x[1] = 65 /\ x[2] = 32 /\ x[3] = 48  BY <2>7
  <2>2. \A i \in 1..Len(x) : i = 1 \/ i = 2 \/ i = 3  BY <2>1
  <2>3. \A i \in 1..Len(x) : x[i] \notin {10, 27, 29, 112}  BY <2>1, <2>2
  <2>10. 65 \in 32..126 /\ 45 \in 32..126 /\ 32 \in 32..126 /\ 48 \in 32..126  OBVIOUS
  <2>4. \A i \in 1..Len(x) : x[i] \in 32..126  BY <2>1, <2>2, <2>10
  <2>8. as # "blank"  BY <1>11
  <2>13. Len(x) # 0  BY <2>1
  <2>9. x # <<>>  BY <2>13
  <2>5. x # <<>> /\ as # "blank"  BY <2>8, <2>9
  <2>6. as \in {"row", "total"} /\ x = row  BY <1>11, <1>3, <1>5, <1>6
  <2> QED  BY <2>1, <2>3, <2>4, <2>5, <2>6, Zenon DEF IsText, row
<1>12. CASE as \in {"title", "heading", "centred", "text"} /\ ar = TRUE
  <2>7. x = <<216, 169>>  BY <1>12, <1>4, <1>5
  <2>1. x \in Seq(Nat) /\ Len(x) = 2 /\ x[1] = 216 /\ x[2] = 169  BY <2>7
  <2>2. \A i \in 1..Len(x) : i = 1 \/ i = 2  BY <2>1
  <2>3. \A i \in 1..Len(x) : x[i] \notin {10, 27, 29, 112}  BY <2>1, <2>2
  <2>4. ar = FALSE => \A i \in 1..Len(x) : x[i] \in 32..126  BY <1>12
  <2>8. as # "blank"  BY <1>12
  <2>13. Len(x) # 0  BY <2>1
  <2>9. x # <<>>  BY <2>13
  <2>5. x # <<>> /\ as # "blank"  BY <2>8, <2>9
  <2>6. ar = TRUE /\ ar # FALSE  BY <1>12
  <2> QED  BY <2>1, <2>3, <2>4, <2>5, <2>6, Zenon DEF IsText, row
<1>13. CASE as \in {"title", "heading", "centred", "text"} /\ ar = FALSE
  <2>7. x = <<65>>  BY <1>13, <1>4, <1>5
  <2>1. x \in Seq(Nat) /\ Len(x) = 1 /\ x[1] = 65  BY <2>7
  <2>2. \A i \in 1..Len(x) : i = 1  BY <2>1
  <2>3. \A i \in 1..Len(x) : x[i] \notin {10, 27, 29, 112}  BY <2>1, <2>2
  <2>10. 65 \in 32..126 /\ 45 \in 32..126 /\ 32 \in 32..126 /\ 48 \in 32..126  OBVIOUS
  <2>4. \A i \in 1..Len(x) : x[i] \in 32..126  BY <2>1, <2>2, <2>10
  <2>8. as # "blank"  BY <1>13
  <2>13. Len(x) # 0  BY <2>1
  <2>9. x # <<>>  BY <2>13
  <2>5. x # <<>> /\ as # "blank"  BY <2>8, <2>9
  <2>11. as \notin {"row", "total"}  BY <1>13
  <2>12. x # row  BY <2>1, <1>6
  <2>6. as \notin {"row", "total"} /\ x # row  BY <2>11, <2>12
  <2> QED  BY <2>1, <2>3, <2>4, <2>5, <2>6, Zenon DEF IsText, row
<1> QED  BY <1>7, <1>8, <1>9, <1>10, <1>11, <1>12, <1>13 DEF Sorts

\* The bytes of a line are its text and a line feed.
LEMMA LinesAre ==
  ASSUME NEW c \in AllCalls, c.do = "line", NEW ar \in BOOLEAN
  PROVE  /\ c.as \in Sorts /\ Bytes(c, ar) = Append(Text(c.as, ar), 10) /\ Bytes(c, ar) \in Seq(Nat)
         /\ Len(Bytes(c, ar)) = Len(Text(c.as, ar)) + 1
         /\ \A i \in 1..Len(Text(c.as, ar)) : Bytes(c, ar)[i] = Text(c.as, ar)[i]
         /\ Bytes(c, ar)[Len(Bytes(c, ar))] = 10
<1>1. Bytes(c, ar) = Append(Text(c.as, ar), LF)  BY Zenon DEF Bytes
<1>2. c.as \in Sorts
  <2>1. c \in [do : {"line"}, n : {0}, as : Sorts]  BY DEF AllCalls, Doings, QrDoings
  <2> QED  BY <2>1
<1>3. Text(c.as, ar) \in Seq(Nat)  BY <1>2, TextIs DEF IsText
<1> QED  BY <1>1, <1>2, <1>3 DEF LF

\* A byte of a line is set, and the line feed brings it to paper.
LineTaken(c, ar, j, s) ==
  /\ j < Len(Bytes(c, ar)) => Takes(s, Bytes(c, ar)[j]) = [s EXCEPT !.line = SubSeq(Text(c.as, ar), 1, j)]
  /\ j = Len(Bytes(c, ar)) => Takes(s, Bytes(c, ar)[j]) = EndsLine(s) /\ s.line = Text(c.as, ar)

\* A byte of a line: the line grows, or is set with its last byte.
LEMMA LineByte ==
  ASSUME NEW c \in AllCalls, c.do = "line", NEW ar \in BOOLEAN, NEW j \in 1..Len(Bytes(c, ar)),
         NEW s \in Devices,
         s.pend = <<>>, s.line = SubSeq(Text(c.as, ar), 1, j - 1)
  PROVE  LineTaken(c, ar, j, s)
<1> DEFINE x == Text(c.as, ar)
<1>1. /\ c.as \in Sorts /\ Bytes(c, ar) \in Seq(Nat) /\ Len(Bytes(c, ar)) = Len(x) + 1
      /\ \A i \in 1..Len(x) : Bytes(c, ar)[i] = x[i]
      /\ Bytes(c, ar)[Len(Bytes(c, ar))] = 10
  BY LinesAre
<1>2. x \in Seq(Nat) /\ \A i \in 1..Len(x) : x[i] \notin {10, 27, 29}
  <2>1. IsText(x, c.as, ar)  BY <1>1, TextIs DEF x
  <2> HIDE DEF x
  <2> QED  BY <2>1 DEF IsText
<1> HIDE DEF x
<1>3. CASE j < Len(Bytes(c, ar))
  <2>1. j \in 1..Len(x) /\ Bytes(c, ar)[j] = x[j]  BY <1>1, <1>2, <1>3
  <2>2. Append(s.line, x[j]) = SubSeq(x, 1, j)  BY <1>2, <2>1 DEF x
  <2>3. x[j] \notin {ESC, GS, LF}  BY <1>2, <2>1 DEF ESC, GS, LF
  <2>4. Takes(s, x[j]) = [s EXCEPT !.line = Append(@, x[j])]  BY <2>3 DEF Takes
  <2>5. [s EXCEPT !.line = Append(@, x[j])] = [s EXCEPT !.line = SubSeq(x, 1, j)]  BY <2>2
  <2>6. ~(j = Len(Bytes(c, ar)))  BY <1>1, <1>3
  <2> QED  BY <1>3, <2>1, <2>4, <2>5, <2>6 DEF x, LineTaken
<1>4. CASE j = Len(Bytes(c, ar))
  <2>1. s.line = x  BY <1>4, <1>1, <1>2 DEF x
  <2>2. Bytes(c, ar)[j] = LF /\ LF \notin {ESC, GS}  BY <1>4, <1>1 DEF ESC, GS, LF
  <2>3. Takes(s, Bytes(c, ar)[j]) = EndsLine(s)  BY <2>2 DEF Takes
  <2>6. ~(j < Len(Bytes(c, ar)))  BY <1>1, <1>4
  <2> QED  BY <1>4, <2>1, <2>3, <2>6 DEF x, LineTaken
<1>5. Len(Bytes(c, ar)) \in Nat  BY <1>1
<1> QED  BY <1>3, <1>4, <1>5


\* Whatever the device has of a command, a byte more leaves it a device, and a pulse
\* it sends or has loaded came of a 112.
Enough(p) == ~(Len(p) < Wanted(p))

\* A command the device takes for whole has the bytes it looks at.
LEMMA EnoughIs ==
  ASSUME NEW p \in Seq(Nat), Enough(p)
  PROVE  /\ Len(p) >= 2
         /\ p[1] = 27 /\ p[2] \in {97, 69} => Len(p) >= 3
         /\ p[1] = 29 /\ p[2] = 33 => Len(p) >= 3
         /\ p[1] = 29 /\ p[2] = 107 => Len(p) >= 4
         /\ p[1] = 27 /\ p[2] = 112 => Len(p) >= 5
<1>1. Len(p) \in Nat  OBVIOUS
<1>2. Len(p) >= 2
  <2>1. CASE Len(p) < 2  BY <2>1, <1>1 DEF Enough, Wanted
  <2> QED  BY <2>1, <1>1
<1>3. p[1] \in Nat /\ p[2] \in Nat /\ (Len(p) >= 4 => p[4] \in Nat) /\ ~(Len(p) < 2) /\ ESC = 27 /\ GS = 29
  BY <1>1, <1>2 DEF ESC, GS
<1>4. p[1] = 27 /\ p[2] \in {97, 69} => Len(p) >= 3  BY <1>1, <1>3 DEF Enough, Wanted
<1>5. p[1] = 29 /\ p[2] = 33 => Len(p) >= 3  BY <1>1, <1>3 DEF Enough, Wanted
<1>6. p[1] = 29 /\ p[2] = 107 => Len(p) >= 4
  <2>1. CASE p[1] = 29 /\ p[2] = 107 /\ Len(p) < 4  BY <2>1, <1>1, <1>3 DEF Enough, Wanted
  <2> QED  BY <2>1, <1>1
<1>7. p[1] = 27 /\ p[2] = 112 => Len(p) >= 5  BY <1>1, <1>3 DEF Enough, Wanted
<1> QED  BY <1>2, <1>4, <1>5, <1>6, <1>7

\* Done, a command leaves the device a device, and only ESC 112 sends a pulse.
LEMMA ObeysTyped ==
  ASSUME NEW s \in Devices, NEW p \in Seq(Nat), Enough(p)
  PROVE  /\ Obeys(s, p) \in Devices /\ Obeys(s, p).pend = <<>>
         /\ Obeys(s, p).out.kicks = s.out.kicks + (IF p[1] = 27 /\ p[2] = 112 THEN 1 ELSE 0)
<1> DEFINE is(a, b) == p[1] = a /\ p[2] = b
           sets(a, b, mode) == IF is(a, b) THEN p[3] ELSE mode
           prints == IF is(GS, 107) THEN <<Set(s.modes, SubSeq(p, 5, Len(p)))>>
                     ELSE IF is(GS, 40) /\ Len(p) > 6 /\ p[7] = 81 THEN <<Set(s.modes, CodeData)>> ELSE <<>>
           m1 == IF is(ESC, 64) THEN Modes
                 ELSE [bold |-> sets(ESC, 69, s.modes.bold), size |-> sets(GS, 33, s.modes.size),
                       align |-> sets(ESC, 97, s.modes.align)]
           l1 == IF is(ESC, 64) THEN <<>> ELSE s.line
           c1 == IF is(GS, 86) THEN 1 ELSE 0
           k1 == IF is(ESC, 112) THEN 1 ELSE 0
           Shown == [text : Seq(Nat), bold : Nat, size : Nat, align : Nat]
<1>1. ESC = 27 /\ GS = 29  BY DEF ESC, GS
<1>2. s.modes \in [bold : Nat, size : Nat, align : Nat] /\ s.line \in Seq(Nat) /\ s.out \in Outs  BY DEF Devices
<1>3. /\ is(27, 69) \/ is(27, 97) \/ is(29, 33) => Len(p) >= 3
      /\ is(29, 107) => Len(p) >= 4
  BY EnoughIs
<1>4. m1 \in [bold : Nat, size : Nat, align : Nat]
  <2>1. sets(27, 69, s.modes.bold) \in Nat  BY <1>2, <1>3
  <2>2. sets(29, 33, s.modes.size) \in Nat  BY <1>2, <1>3
  <2>3. sets(27, 97, s.modes.align) \in Nat  BY <1>2, <1>3
  <2>4. Modes \in [bold : Nat, size : Nat, align : Nat]  BY DEF Modes
  <2> HIDE DEF is, sets
  <2> QED  BY <1>1, <2>1, <2>2, <2>3, <2>4
<1>5. prints \in Seq(Shown)
  <2>1. CodeData \in Seq(Nat)  BY DEF CodeData
  <2>2. is(29, 107) => SubSeq(p, 5, Len(p)) \in Seq(Nat)  BY <1>3
  <2>3. \A x \in Seq(Nat) : <<Set(s.modes, x)>> \in Seq(Shown)  BY <1>2 DEF Set
  <2>4. <<>> \in Seq(Shown)  OBVIOUS
  <2> HIDE DEF is, Shown
  <2>5. CASE is(29, 107)  BY <1>1, <2>2, <2>3, <2>5
  <2>6. CASE ~is(29, 107) /\ is(29, 40) /\ Len(p) > 6 /\ p[7] = 81  BY <1>1, <2>1, <2>3, <2>6
  <2>7. CASE ~is(29, 107) /\ ~(is(29, 40) /\ Len(p) > 6 /\ p[7] = 81)  BY <1>1, <2>4, <2>7
  <2> QED  BY <2>5, <2>6, <2>7
<1>6. l1 \in Seq(Nat) /\ c1 \in {0, 1} /\ k1 \in {0, 1}  BY <1>2
<1>7. Obeys(s, p) = [modes |-> m1, pend |-> <<>>, line |-> l1,
                      out |-> [lines |-> s.out.lines \o prints, cuts |-> s.out.cuts + c1,
                            kicks |-> s.out.kicks + k1]]
  BY Zenon DEF Obeys
<1>8. s.out.lines \in Seq(Shown) /\ s.out.cuts \in Nat /\ s.out.kicks \in Nat  BY <1>2 DEF Outs
<1>9. k1 = (IF p[1] = 27 /\ p[2] = 112 THEN 1 ELSE 0)  BY <1>1
<1> HIDE DEF prints, m1, l1, c1, k1, Shown
<1>10. s.out.lines \o prints \in Seq(Shown)  BY <1>5, <1>8
<1>11. [lines |-> s.out.lines \o prints, cuts |-> s.out.cuts + c1, kicks |-> s.out.kicks + k1] \in Outs
  BY <1>6, <1>8, <1>10 DEF Outs, Shown
<1>12. Obeys(s, p) \in Devices  BY <1>4, <1>6, <1>7, <1>11 DEF Devices
<1> QED  BY <1>7, <1>9, <1>12

\* A pulse the device has begun to read.
Loaded(p) == IF Len(p) >= 2 /\ p[1] = 27 /\ p[2] = 112 THEN 1 ELSE 0

\* The device after a line feed.
Ended(s) ==
  [modes |-> s.modes, pend |-> s.pend, line |-> <<>>,
   out |-> [lines |-> IF s.line = <<>> THEN s.out.lines ELSE Append(s.out.lines, Set(s.modes, s.line)),
            cuts |-> s.out.cuts, kicks |-> s.out.kicks]]

\* It is that: no line is brought out twice, and no pulse sent.
LEMMA EndsLineIs == ASSUME NEW s \in Devices PROVE EndsLine(s) = Ended(s)
<1> DEFINE o == [s.out EXCEPT !.lines = IF s.line = <<>> THEN @ ELSE Append(@, Set(s.modes, s.line))]
<1>1. s.out = [lines |-> s.out.lines, cuts |-> s.out.cuts, kicks |-> s.out.kicks]  BY DEF Devices, Outs
<1>2. o = Ended(s).out  BY <1>1 DEF Ended
<1>3. EndsLine(s) = [modes |-> s.modes, pend |-> s.pend, line |-> <<>>, out |-> o]  BY DEF EndsLine
<1> HIDE DEF o
<1> QED  BY <1>2, <1>3 DEF Ended

LEMMA EndsLineTyped ==
  ASSUME NEW s \in Devices
  PROVE  EndsLine(s) \in Devices /\ EndsLine(s).pend = s.pend /\ EndsLine(s).out.kicks = s.out.kicks
<1> DEFINE Shown == [text : Seq(Nat), bold : Nat, size : Nat, align : Nat]
           ls == IF s.line = <<>> THEN s.out.lines ELSE Append(s.out.lines, Set(s.modes, s.line))
<1>1. s.modes \in [bold : Nat, size : Nat, align : Nat] /\ s.pend \in Seq(Nat) /\ s.line \in Seq(Nat)
      /\ s.out \in Outs
  BY DEF Devices
<1>2. s.out.lines \in Seq(Shown) /\ s.out.cuts \in Nat /\ s.out.kicks \in Nat  BY <1>1 DEF Outs
<1>3. Set(s.modes, s.line) \in Shown  BY <1>1 DEF Set
<1>4. ls \in Seq(Shown)
  <2> HIDE DEF Shown
  <2> QED  BY <1>2, <1>3
<1>5. EndsLine(s) = [modes |-> s.modes, pend |-> s.pend, line |-> <<>>,
                     out |-> [lines |-> ls, cuts |-> s.out.cuts, kicks |-> s.out.kicks]]
  BY EndsLineIs DEF Ended
<1> HIDE DEF ls
<1>6. [lines |-> ls, cuts |-> s.out.cuts, kicks |-> s.out.kicks] \in Outs  BY <1>2, <1>4 DEF Outs
<1> QED  BY <1>1, <1>5, <1>6 DEF Devices

\* A byte leaves the device a device; a pulse sent or begun came of a 112.
LEMMA TakesTyped ==
  ASSUME NEW s \in Devices, NEW b \in Nat
  PROVE  /\ Takes(s, b) \in Devices
         /\ Takes(s, b).out.kicks + Loaded(Takes(s, b).pend)
              <= s.out.kicks + Loaded(s.pend) + (IF b = 112 THEN 1 ELSE 0)
<1> DEFINE p == Append(s.pend, b)
<1>1. s.pend \in Seq(Nat) /\ p \in Seq(Nat) /\ s.out.kicks \in Nat /\ Len(p) = Len(s.pend) + 1
  BY DEF Devices, Outs
<1>2. \A i \in 1..Len(s.pend) : p[i] = s.pend[i]  BY <1>1
<1>3. p[Len(p)] = b  BY <1>1
<1>4. Loaded(p) \in {0, 1} /\ Loaded(s.pend) \in {0, 1}  BY DEF Loaded
<1> HIDE DEF p
<1>5. CASE (s.pend # <<>> \/ b \in {ESC, GS}) /\ Len(p) < Wanted(p)
  <2>1. Takes(s, b) = [s EXCEPT !.pend = p]  BY <1>5 DEF Takes, p
  <2>2. [s EXCEPT !.pend = p] \in Devices /\ [s EXCEPT !.pend = p].pend = p
        /\ [s EXCEPT !.pend = p].out.kicks = s.out.kicks
    BY <1>1 DEF Devices
  <2>3. Loaded(p) <= Loaded(s.pend) + (IF b = 112 THEN 1 ELSE 0)
    <3>1. CASE Len(s.pend) >= 2
      <4>1. p[1] = s.pend[1] /\ p[2] = s.pend[2] /\ Len(p) >= 2  BY <1>1, <1>2, <3>1
      <4>2. Loaded(p) = Loaded(s.pend)  BY <4>1, <3>1 DEF Loaded
      <4> QED  BY <4>2, <1>4
    <3>2. CASE Len(s.pend) < 2
      <4>1. Len(p) >= 2 => p[2] = b  BY <1>1, <1>3, <3>2
      <4>2. b # 112 => Loaded(p) = 0  BY <4>1 DEF Loaded
      <4> QED  BY <4>2, <1>4
    <3> QED  BY <1>1, <3>1, <3>2
  <2> QED  BY <2>1, <2>2, <2>3, <1>1, <1>4
<1>6. CASE (s.pend # <<>> \/ b \in {ESC, GS}) /\ ~(Len(p) < Wanted(p))
  <2>1. Takes(s, b) = Obeys(s, p)  BY <1>6 DEF Takes, p
  <2>2. Enough(p)
    <3> QED  BY <1>6 DEF Enough
  <2>3. /\ Obeys(s, p) \in Devices /\ Obeys(s, p).pend = <<>>
        /\ Obeys(s, p).out.kicks = s.out.kicks + (IF p[1] = 27 /\ p[2] = 112 THEN 1 ELSE 0)
    BY <1>1, <2>2, ObeysTyped
  <2>4. p[1] = 27 /\ p[2] = 112 => Loaded(s.pend) = 1
    <3>1. p[1] = 27 /\ p[2] = 112 => Len(p) >= 5  BY <1>1, <2>2, EnoughIs
    <3>3. Len(p) >= 5 => Len(s.pend) >= 2  BY <1>1
    <3>2. Len(p) >= 5 => Len(s.pend) >= 2 /\ p[1] = s.pend[1] /\ p[2] = s.pend[2]  BY <1>1, <1>2, <3>3
    <3> QED  BY <3>1, <3>2 DEF Loaded
  <2>5. Loaded(<<>>) = 0  BY DEF Loaded
  <2> QED  BY <2>1, <2>3, <2>4, <2>5, <1>1, <1>4
<1>7. CASE ~(s.pend # <<>> \/ b \in {ESC, GS}) /\ b = LF
  <2>1. Takes(s, b) = EndsLine(s)  BY <1>7 DEF Takes
  <2> QED  BY <2>1, EndsLineTyped, <1>1, <1>4
<1>8. CASE ~(s.pend # <<>> \/ b \in {ESC, GS}) /\ b # LF
  <2>1. Takes(s, b) = [s EXCEPT !.line = Append(@, b)]  BY <1>8 DEF Takes
  <2>3. s.line \in Seq(Nat) /\ Append(s.line, b) \in Seq(Nat)  BY DEF Devices
  <2>2. [s EXCEPT !.line = Append(@, b)] \in Devices /\ [s EXCEPT !.line = Append(@, b)].pend = s.pend
        /\ [s EXCEPT !.line = Append(@, b)].out.kicks = s.out.kicks
    BY <2>3 DEF Devices
  <2> QED  BY <2>1, <2>2, <1>1, <1>4
<1> QED  BY <1>5, <1>6, <1>7, <1>8


\* What the console makes of a command.
SkipDoings == {"init", "size", "cut", "height", "width", "below"}
\* How a command passes the console: the bytes it skips, and the rest that it takes
\* for text.
JunkDoings == {"drawer", "barcode"} \cup QrDoings
Passes(c, bs) ==
  /\ bs \in Seq(Nat) /\ bs[2] \in 32..126
  /\ \A j \in 2..Len(bs) : j < 7 => bs[j] # 65
  /\ Len(bs) > 5 => Len(bs) > 7 /\ bs[6] = 49
  /\ c.do \notin JunkDoings => Len(bs) < 4
  /\ c.do \in SkipDoings => (bs[1] = 27 /\ Len(bs) = 2) \/ (bs[1] = 29 /\ Len(bs) = 3)
  /\ c.do \notin SkipDoings => (bs[1] = 27 /\ Len(bs) > 2) \/ (bs[1] = 29 /\ Len(bs) > 3)

\* Every command of the documents passes so.
LEMMA CommandsPass ==
  ASSUME NEW c \in AllCalls, c.do # "line", NEW bs, Shaped(c, bs) PROVE Passes(c, bs)
<1>0. bs \in Seq(Nat)  BY ShapesAre
<1>00. c.n \in Nat /\ c.n # 65 /\ c.n \in {0, 1, 2, 3, 4, 5, 17, 23, 48, 49, 60}  BY DEF AllCalls, Params
<1>1. CASE c.do = "init" /\ bs = <<27, 64>>
  <2>1. Len(bs) = 2 /\ bs[1] = 27 /\ bs[2] = 64  BY <1>1
  <2>2. bs[2] \in 32..126  BY <2>1
  <2>3. c.do \in SkipDoings /\ c.do \notin JunkDoings  BY <1>1 DEF SkipDoings, JunkDoings, QrDoings
  <2>4. \A j \in 2..Len(bs) : j < 7 => j = 2  BY <2>1
  <2>5. bs[2] # 65  BY <1>00, <2>1
  <2>6. \A j \in 2..Len(bs) : j < 7 => bs[j] # 65  BY <2>4, <2>5
  <2>7. bs[2] \in 32..126  BY <2>1, <2>2
  <2>8. Len(bs) > 5 => Len(bs) > 7 /\ bs[6] = 49  BY <2>1
  <2>9. c.do \notin JunkDoings => Len(bs) < 4  BY <2>1, <2>3
  <2>10. c.do \in SkipDoings => (bs[1] = 27 /\ Len(bs) = 2) \/ (bs[1] = 29 /\ Len(bs) = 3)  BY <2>1, <2>3
  <2>11. c.do \notin SkipDoings => (bs[1] = 27 /\ Len(bs) > 2) \/ (bs[1] = 29 /\ Len(bs) > 3)  BY <2>1, <2>3
  <2> QED  BY <1>0, <2>6, <2>7, <2>8, <2>9, <2>10, <2>11, Zenon DEF Passes
<1>2. CASE c.do \in DOMAIN EscDoings /\ bs = <<27, EscDoings[c.do], c.n>>
  <2>1. Len(bs) = 3 /\ bs[1] = 27 /\ bs[2] = EscDoings[c.do] /\ bs[3] = c.n  BY <1>2
  <2>2. EscDoings[c.do] \in 32..126 /\ EscDoings[c.do] # 65  BY <1>2 DEF EscDoings
  <2>3. c.do \notin SkipDoings /\ c.do \notin JunkDoings
    BY <1>2 DEF EscDoings, SkipDoings, JunkDoings, QrDoings
  <2>4. \A j \in 2..Len(bs) : j < 7 => j = 2 \/ j = 3  BY <2>1
  <2>5. bs[2] # 65 /\ bs[3] # 65  BY <1>00, <2>1, <2>2
  <2>6. \A j \in 2..Len(bs) : j < 7 => bs[j] # 65  BY <2>4, <2>5
  <2>7. bs[2] \in 32..126  BY <2>1, <2>2
  <2>8. Len(bs) > 5 => Len(bs) > 7 /\ bs[6] = 49  BY <2>1
  <2>9. c.do \notin JunkDoings => Len(bs) < 4  BY <2>1, <2>3
  <2>10. c.do \in SkipDoings => (bs[1] = 27 /\ Len(bs) = 2) \/ (bs[1] = 29 /\ Len(bs) = 3)  BY <2>1, <2>3
  <2>11. c.do \notin SkipDoings => (bs[1] = 27 /\ Len(bs) > 2) \/ (bs[1] = 29 /\ Len(bs) > 3)  BY <2>1, <2>3
  <2> QED  BY <1>0, <2>6, <2>7, <2>8, <2>9, <2>10, <2>11, Zenon DEF Passes
<1>3. CASE c.do \in DOMAIN GsDoings /\ bs = <<29, GsDoings[c.do], IF c.do = "cut" THEN 0 ELSE c.n>>
  <2>1. Len(bs) = 3 /\ bs[1] = 29 /\ bs[2] = GsDoings[c.do] /\ bs[3] = (IF c.do = "cut" THEN 0 ELSE c.n)
    BY <1>3
  <2>2. GsDoings[c.do] \in 32..126 /\ GsDoings[c.do] # 65  BY <1>3 DEF GsDoings
  <2>3. c.do \in SkipDoings /\ c.do \notin JunkDoings  BY <1>3 DEF GsDoings, SkipDoings, JunkDoings, QrDoings
  <2>4. \A j \in 2..Len(bs) : j < 7 => j = 2 \/ j = 3  BY <2>1
  <2>5. bs[2] # 65 /\ bs[3] # 65  BY <1>00, <2>1, <2>2
  <2>6. \A j \in 2..Len(bs) : j < 7 => bs[j] # 65  BY <2>4, <2>5
  <2>7. bs[2] \in 32..126  BY <2>1, <2>2
  <2>8. Len(bs) > 5 => Len(bs) > 7 /\ bs[6] = 49  BY <2>1
  <2>9. c.do \notin JunkDoings => Len(bs) < 4  BY <2>1, <2>3
  <2>10. c.do \in SkipDoings => (bs[1] = 27 /\ Len(bs) = 2) \/ (bs[1] = 29 /\ Len(bs) = 3)  BY <2>1, <2>3
  <2>11. c.do \notin SkipDoings => (bs[1] = 27 /\ Len(bs) > 2) \/ (bs[1] = 29 /\ Len(bs) > 3)  BY <2>1, <2>3
  <2> QED  BY <1>0, <2>6, <2>7, <2>8, <2>9, <2>10, <2>11, Zenon DEF Passes
<1>4. CASE c.do = "drawer" /\ bs = <<27, 112, 0, 25, 250>>
  <2>1. Len(bs) = 5 /\ bs[1] = 27 /\ bs[2] = 112 /\ bs[3] = 0 /\ bs[4] = 25 /\ bs[5] = 250  BY <1>4
  <2>2. bs[2] \in 32..126  BY <2>1
  <2>3. c.do \notin SkipDoings /\ c.do \in JunkDoings  BY <1>4 DEF SkipDoings, JunkDoings, QrDoings
  <2>4. \A j \in 2..Len(bs) : j < 7 => j = 2 \/ j = 3 \/ j = 4 \/ j = 5  BY <2>1
  <2>5. bs[2] # 65 /\ bs[3] # 65 /\ bs[4] # 65 /\ bs[5] # 65  BY <1>00, <2>1
  <2>6. \A j \in 2..Len(bs) : j < 7 => bs[j] # 65  BY <2>4, <2>5
  <2>7. bs[2] \in 32..126  BY <2>1, <2>2
  <2>8. Len(bs) > 5 => Len(bs) > 7 /\ bs[6] = 49  BY <2>1
  <2>9. c.do \notin JunkDoings => Len(bs) < 4  BY <2>1, <2>3
  <2>10. c.do \in SkipDoings => (bs[1] = 27 /\ Len(bs) = 2) \/ (bs[1] = 29 /\ Len(bs) = 3)  BY <2>1, <2>3
  <2>11. c.do \notin SkipDoings => (bs[1] = 27 /\ Len(bs) > 2) \/ (bs[1] = 29 /\ Len(bs) > 3)  BY <2>1, <2>3
  <2> QED  BY <1>0, <2>6, <2>7, <2>8, <2>9, <2>10, <2>11, Zenon DEF Passes
<1>5. CASE c.do = "barcode" /\ bs = <<29, 107, 73, 1, 82>>
  <2>1. Len(bs) = 5 /\ bs[1] = 29 /\ bs[2] = 107 /\ bs[3] = 73 /\ bs[4] = 1 /\ bs[5] = 82  BY <1>5
  <2>2. bs[2] \in 32..126  BY <2>1
  <2>3. c.do \notin SkipDoings /\ c.do \in JunkDoings  BY <1>5 DEF SkipDoings, JunkDoings, QrDoings
  <2>4. \A j \in 2..Len(bs) : j < 7 => j = 2 \/ j = 3 \/ j = 4 \/ j = 5  BY <2>1
  <2>5. bs[2] # 65 /\ bs[3] # 65 /\ bs[4] # 65 /\ bs[5] # 65  BY <1>00, <2>1
  <2>6. \A j \in 2..Len(bs) : j < 7 => bs[j] # 65  BY <2>4, <2>5
  <2>7. bs[2] \in 32..126  BY <2>1, <2>2
  <2>8. Len(bs) > 5 => Len(bs) > 7 /\ bs[6] = 49  BY <2>1
  <2>9. c.do \notin JunkDoings => Len(bs) < 4  BY <2>1, <2>3
  <2>10. c.do \in SkipDoings => (bs[1] = 27 /\ Len(bs) = 2) \/ (bs[1] = 29 /\ Len(bs) = 3)  BY <2>1, <2>3
  <2>11. c.do \notin SkipDoings => (bs[1] = 27 /\ Len(bs) > 2) \/ (bs[1] = 29 /\ Len(bs) > 3)  BY <2>1, <2>3
  <2> QED  BY <1>0, <2>6, <2>7, <2>8, <2>9, <2>10, <2>11, Zenon DEF Passes
<1>6. CASE c.do = "qr model" /\ bs = <<29, 40, 107, 4, 0, 49, 65, 50, 0>>
  <2>1. Len(bs) = 9 /\ bs[1] = 29 /\ bs[2] = 40 /\ bs[3] = 107 /\ bs[4] = 4 /\ bs[5] = 0 /\ bs[6] = 49
        /\ bs[7] = 65 /\ bs[8] = 50 /\ bs[9] = 0
    BY <1>6
  <2>2. bs[2] \in 32..126  BY <2>1
  <2>3. c.do \notin SkipDoings /\ c.do \in JunkDoings  BY <1>6 DEF SkipDoings, JunkDoings, QrDoings
  <2>4. \A j \in 2..Len(bs) : j < 7 => j = 2 \/ j = 3 \/ j = 4 \/ j = 5 \/ j = 6  BY <2>1
  <2>5. bs[2] # 65 /\ bs[3] # 65 /\ bs[4] # 65 /\ bs[5] # 65 /\ bs[6] # 65  BY <1>00, <2>1
  <2>6. \A j \in 2..Len(bs) : j < 7 => bs[j] # 65  BY <2>4, <2>5
  <2>7. bs[2] \in 32..126  BY <2>1, <2>2
  <2>8. Len(bs) > 5 => Len(bs) > 7 /\ bs[6] = 49  BY <2>1
  <2>9. c.do \notin JunkDoings => Len(bs) < 4  BY <2>1, <2>3
  <2>10. c.do \in SkipDoings => (bs[1] = 27 /\ Len(bs) = 2) \/ (bs[1] = 29 /\ Len(bs) = 3)  BY <2>1, <2>3
  <2>11. c.do \notin SkipDoings => (bs[1] = 27 /\ Len(bs) > 2) \/ (bs[1] = 29 /\ Len(bs) > 3)  BY <2>1, <2>3
  <2> QED  BY <1>0, <2>6, <2>7, <2>8, <2>9, <2>10, <2>11, Zenon DEF Passes
<1>7. CASE c.do = "qr size" /\ bs = <<29, 40, 107, 3, 0, 49, 67, c.n>>
  <2>1. Len(bs) = 8 /\ bs[1] = 29 /\ bs[2] = 40 /\ bs[3] = 107 /\ bs[4] = 3 /\ bs[5] = 0 /\ bs[6] = 49
        /\ bs[7] = 67 /\ bs[8] = c.n
    BY <1>7
  <2>2. bs[2] \in 32..126  BY <2>1
  <2>3. c.do \notin SkipDoings /\ c.do \in JunkDoings  BY <1>7 DEF SkipDoings, JunkDoings, QrDoings
  <2>4. \A j \in 2..Len(bs) : j < 7 => j = 2 \/ j = 3 \/ j = 4 \/ j = 5 \/ j = 6  BY <2>1
  <2>5. bs[2] # 65 /\ bs[3] # 65 /\ bs[4] # 65 /\ bs[5] # 65 /\ bs[6] # 65  BY <1>00, <2>1
  <2>6. \A j \in 2..Len(bs) : j < 7 => bs[j] # 65  BY <2>4, <2>5
  <2>7. bs[2] \in 32..126  BY <2>1, <2>2
  <2>8. Len(bs) > 5 => Len(bs) > 7 /\ bs[6] = 49  BY <2>1
  <2>9. c.do \notin JunkDoings => Len(bs) < 4  BY <2>1, <2>3
  <2>10. c.do \in SkipDoings => (bs[1] = 27 /\ Len(bs) = 2) \/ (bs[1] = 29 /\ Len(bs) = 3)  BY <2>1, <2>3
  <2>11. c.do \notin SkipDoings => (bs[1] = 27 /\ Len(bs) > 2) \/ (bs[1] = 29 /\ Len(bs) > 3)  BY <2>1, <2>3
  <2> QED  BY <1>0, <2>6, <2>7, <2>8, <2>9, <2>10, <2>11, Zenon DEF Passes
<1>8. CASE c.do = "qr level" /\ bs = <<29, 40, 107, 3, 0, 49, 69, c.n>>
  <2>1. Len(bs) = 8 /\ bs[1] = 29 /\ bs[2] = 40 /\ bs[3] = 107 /\ bs[4] = 3 /\ bs[5] = 0 /\ bs[6] = 49
        /\ bs[7] = 69 /\ bs[8] = c.n
    BY <1>8
  <2>2. bs[2] \in 32..126  BY <2>1
  <2>3. c.do \notin SkipDoings /\ c.do \in JunkDoings  BY <1>8 DEF SkipDoings, JunkDoings, QrDoings
  <2>4. \A j \in 2..Len(bs) : j < 7 => j = 2 \/ j = 3 \/ j = 4 \/ j = 5 \/ j = 6  BY <2>1
  <2>5. bs[2] # 65 /\ bs[3] # 65 /\ bs[4] # 65 /\ bs[5] # 65 /\ bs[6] # 65  BY <1>00, <2>1
  <2>6. \A j \in 2..Len(bs) : j < 7 => bs[j] # 65  BY <2>4, <2>5
  <2>7. bs[2] \in 32..126  BY <2>1, <2>2
  <2>8. Len(bs) > 5 => Len(bs) > 7 /\ bs[6] = 49  BY <2>1
  <2>9. c.do \notin JunkDoings => Len(bs) < 4  BY <2>1, <2>3
  <2>10. c.do \in SkipDoings => (bs[1] = 27 /\ Len(bs) = 2) \/ (bs[1] = 29 /\ Len(bs) = 3)  BY <2>1, <2>3
  <2>11. c.do \notin SkipDoings => (bs[1] = 27 /\ Len(bs) > 2) \/ (bs[1] = 29 /\ Len(bs) > 3)  BY <2>1, <2>3
  <2> QED  BY <1>0, <2>6, <2>7, <2>8, <2>9, <2>10, <2>11, Zenon DEF Passes
<1>9. CASE c.do = "qr store" /\ bs = <<29, 40, 107, 4, 0, 49, 80, c.n, 82>>
  <2>1. Len(bs) = 9 /\ bs[1] = 29 /\ bs[2] = 40 /\ bs[3] = 107 /\ bs[4] = 4 /\ bs[5] = 0 /\ bs[6] = 49
        /\ bs[7] = 80 /\ bs[8] = c.n /\ bs[9] = 82
    BY <1>9
  <2>2. bs[2] \in 32..126  BY <2>1
  <2>3. c.do \notin SkipDoings /\ c.do \in JunkDoings  BY <1>9 DEF SkipDoings, JunkDoings, QrDoings
  <2>4. \A j \in 2..Len(bs) : j < 7 => j = 2 \/ j = 3 \/ j = 4 \/ j = 5 \/ j = 6  BY <2>1
  <2>5. bs[2] # 65 /\ bs[3] # 65 /\ bs[4] # 65 /\ bs[5] # 65 /\ bs[6] # 65  BY <1>00, <2>1
  <2>6. \A j \in 2..Len(bs) : j < 7 => bs[j] # 65  BY <2>4, <2>5
  <2>7. bs[2] \in 32..126  BY <2>1, <2>2
  <2>8. Len(bs) > 5 => Len(bs) > 7 /\ bs[6] = 49  BY <2>1
  <2>9. c.do \notin JunkDoings => Len(bs) < 4  BY <2>1, <2>3
  <2>10. c.do \in SkipDoings => (bs[1] = 27 /\ Len(bs) = 2) \/ (bs[1] = 29 /\ Len(bs) = 3)  BY <2>1, <2>3
  <2>11. c.do \notin SkipDoings => (bs[1] = 27 /\ Len(bs) > 2) \/ (bs[1] = 29 /\ Len(bs) > 3)  BY <2>1, <2>3
  <2> QED  BY <1>0, <2>6, <2>7, <2>8, <2>9, <2>10, <2>11, Zenon DEF Passes
<1>10. CASE c.do = "qr print" /\ bs = <<29, 40, 107, 3, 0, 49, 81, c.n>>
  <2>1. Len(bs) = 8 /\ bs[1] = 29 /\ bs[2] = 40 /\ bs[3] = 107 /\ bs[4] = 3 /\ bs[5] = 0 /\ bs[6] = 49
        /\ bs[7] = 81 /\ bs[8] = c.n
    BY <1>10
  <2>2. bs[2] \in 32..126  BY <2>1
  <2>3. c.do \notin SkipDoings /\ c.do \in JunkDoings  BY <1>10 DEF SkipDoings, JunkDoings, QrDoings
  <2>4. \A j \in 2..Len(bs) : j < 7 => j = 2 \/ j = 3 \/ j = 4 \/ j = 5 \/ j = 6  BY <2>1
  <2>5. bs[2] # 65 /\ bs[3] # 65 /\ bs[4] # 65 /\ bs[5] # 65 /\ bs[6] # 65  BY <1>00, <2>1
  <2>6. \A j \in 2..Len(bs) : j < 7 => bs[j] # 65  BY <2>4, <2>5
  <2>7. bs[2] \in 32..126  BY <2>1, <2>2
  <2>8. Len(bs) > 5 => Len(bs) > 7 /\ bs[6] = 49  BY <2>1
  <2>9. c.do \notin JunkDoings => Len(bs) < 4  BY <2>1, <2>3
  <2>10. c.do \in SkipDoings => (bs[1] = 27 /\ Len(bs) = 2) \/ (bs[1] = 29 /\ Len(bs) = 3)  BY <2>1, <2>3
  <2>11. c.do \notin SkipDoings => (bs[1] = 27 /\ Len(bs) > 2) \/ (bs[1] = 29 /\ Len(bs) > 3)  BY <2>1, <2>3
  <2> QED  BY <1>0, <2>6, <2>7, <2>8, <2>9, <2>10, <2>11, Zenon DEF Passes
<1> QED  BY <1>1, <1>2, <1>3, <1>4, <1>5, <1>6, <1>7, <1>8, <1>9, <1>10 DEF Shaped


\* The console, whatever it was shown.
Consoles == [skip : Nat, line : Seq(Nat), shown : Seq(Seq(Nat))]

\* A line begun that no row of a document begins like.
Stray(l)  == l = <<>> \/ l[1] # 65
NotRow(l) == l = <<>> \/ l[1] # 65 \/ Len(l) < 3
\* The console when a call begins at a stage.
AtCall(a, k) == k.skip = a.skip /\ Stray(k.line) /\ (a.junk = 0 => k.line = <<>>)

\* What it still skips at byte j of a command, and the console there.
SkipAt(bs, z, j) ==
  IF j = 1 THEN z ELSE IF z = 1 THEN 0
  ELSE IF bs[1] = 27 THEN IF j < 4 THEN 4 - j ELSE 0 ELSE IF j < 5 THEN 5 - j ELSE 0
Within(bs, a, j, k) ==
  /\ k.skip = SkipAt(bs, a.skip, j) /\ Stray(k.line)
  /\ a.junk = 0 /\ (j = 1 \/ (a.skip = 0 /\ j < 5)) => k.line = <<>>
  /\ a.skip = 0 /\ j > 6 => k.line # <<>>
  /\ a.skip = 1 /\ j > 2 => k.line # <<>>

\* A line that begins stray stays so.
LEMMA StrayGrows ==
  ASSUME NEW l \in Seq(Nat), Stray(l), NEW b \in Nat, l # <<>> \/ b # 65
  PROVE  Stray(Append(l, b)) /\ Append(l, b) # <<>> /\ Append(l, b) \in Seq(Nat)
<1>1. Len(Append(l, b)) = Len(l) + 1 /\ Append(l, b) \in Seq(Nat)  OBVIOUS
<1>2. CASE l = <<>>  BY <1>1, <1>2 DEF Stray
<1>3. CASE l # <<>>
  <2>1. Len(l) >= 1  BY <1>3
  <2>2. Append(l, b)[1] = l[1]  BY <2>1
  <2>3. Append(l, b) # <<>>  BY <1>1, <2>1
  <2> QED  BY <1>1, <1>3, <2>2, <2>3 DEF Stray
<1> QED  BY <1>2, <1>3

\* Fields of the console, set one at a time.
LEMMA ConsoleSets ==
  /\ \A k \in Consoles, n \in Nat : /\ [k EXCEPT !.skip = n] \in Consoles
                                  /\ [k EXCEPT !.skip = n].skip = n /\ [k EXCEPT !.skip = n].line = k.line
                                  /\ [k EXCEPT !.skip = n].shown = k.shown
  /\ \A k \in Consoles, l \in Seq(Nat) : /\ [k EXCEPT !.line = l] \in Consoles
                                       /\ [k EXCEPT !.line = l].skip = k.skip /\ [k EXCEPT !.line = l].line = l
                                       /\ [k EXCEPT !.line = l].shown = k.shown
  BY DEF Consoles

\* A byte of a command on the console: it is shown nothing of, and skipped, or leaves a
\* stray beginning of a line.
LEMMA ConsoleCommandByte ==
  ASSUME NEW c \in AllCalls, c.do # "line", NEW bs, Shaped(c, bs), NEW j \in 1..Len(bs), NEW a \in Stages,
         NEW k \in Consoles, Within(bs, a, j, k)
  PROVE  Shows(k, bs[j]) \in Consoles /\ Shows(k, bs[j]).shown = k.shown
      /\ Within(bs, a, j + 1, Shows(k, bs[j]))
<1> DEFINE b == bs[j]
           k2 == Shows(k, b)
<1>1. /\ bs \in Seq(Nat) /\ Len(bs) >= 2 /\ bs[1] \in {27, 29} /\ b \in Nat
      /\ j > 1 => b \notin {10, 27, 29}
  <2>1. bs \in Seq(Nat) /\ Len(bs) >= 2 /\ bs[1] \in {27, 29} /\ \A i \in 2..Len(bs) : bs[i] \notin {10, 27, 29}
    BY ShapesAre
  <2> QED  BY <2>1
<1>2. /\ bs[2] \in 32..126
      /\ \A i \in 2..Len(bs) : i < 7 => bs[i] # 65
      /\ Len(bs) > 5 => Len(bs) > 7 /\ bs[6] = 49
  <2>1. Passes(c, bs)  BY CommandsPass
  <2> QED  BY <2>1, Zenon DEF Passes
<1>3. k.skip \in Nat /\ k.line \in Seq(Nat) /\ a.skip \in {0, 1} /\ a.junk \in {0, 1}  BY DEF Consoles, Stages
<1>4. k.skip = SkipAt(bs, a.skip, j) /\ Stray(k.line)
      /\ (a.junk = 0 /\ (j = 1 \/ (a.skip = 0 /\ j < 5)) => k.line = <<>>)
      /\ (a.skip = 0 /\ j > 6 => k.line # <<>>) /\ (a.skip = 1 /\ j > 2 => k.line # <<>>)
  BY DEF Within
<1> HIDE DEF b
<1>5. CASE k.skip > 0
  <2>1. k2 = [k EXCEPT !.skip = k.skip - 1] /\ k.skip - 1 \in Nat  BY <1>3, <1>5 DEF Shows, Skips
  <2>2. k2 \in Consoles /\ k2.shown = k.shown /\ k2.line = k.line /\ k2.skip = k.skip - 1
    BY <2>1, ConsoleSets
  <2>3. SkipAt(bs, a.skip, j + 1) = k.skip - 1 /\ (j = 1 => a.skip = 1) /\ (j > 1 => a.skip = 0 /\ j < 5)
    BY <1>1, <1>3, <1>4, <1>5 DEF SkipAt
  <2> HIDE DEF k2
  <2>4. Within(bs, a, j + 1, k2)  BY <1>1, <1>3, <1>4, <2>2, <2>3 DEF Within
  <2> QED  BY <2>2, <2>4 DEF k2, b
<1>6. CASE k.skip = 0 /\ j = 1
  <2>1. a.skip = 0 /\ b = bs[1]  BY <1>4, <1>6 DEF SkipAt, b
  <2>2. b \in {ESC, GS} /\ (b = ESC <=> bs[1] = 27)  BY <1>1, <2>1 DEF ESC, GS
  <2> DEFINE n == IF bs[1] = 27 THEN 2 ELSE 3
  <2>3. k2 = [k EXCEPT !.skip = n] /\ n \in Nat  BY <1>6, <2>2 DEF Shows, Skips
  <2>4. k2 \in Consoles /\ k2.shown = k.shown /\ k2.line = k.line /\ k2.skip = (IF bs[1] = 27 THEN 2 ELSE 3)
    <3> HIDE DEF n, k2
    <3>1. k2 \in Consoles /\ k2.shown = k.shown /\ k2.line = k.line /\ k2.skip = n  BY <2>3, ConsoleSets
    <3> QED  BY <3>1 DEF n
  <2>5. SkipAt(bs, a.skip, 2) = (IF bs[1] = 27 THEN 2 ELSE 3)  BY <2>1 DEF SkipAt
  <2> HIDE DEF k2
  <2>6. Within(bs, a, j + 1, k2)  BY <1>3, <1>4, <1>6, <2>1, <2>4, <2>5 DEF Within
  <2> QED  BY <2>4, <2>6 DEF k2, b
<1>7. CASE k.skip = 0 /\ j # 1
  <2>1. b \notin {ESC, GS} /\ b # LF  BY <1>1, <1>7 DEF ESC, GS, LF
  <2> DEFINE l == IF b \in 32..126 THEN Append(k.line, b) ELSE k.line
  <2>2. k2 = [k EXCEPT !.line = l] /\ l \in Seq(Nat)  BY <1>1, <1>3, <1>7, <2>1 DEF Shows, Skips
  <2>3. k2 \in Consoles /\ k2.shown = k.shown /\ k2.skip = 0
        /\ k2.line = (IF b \in 32..126 THEN Append(k.line, b) ELSE k.line)
    <3> HIDE DEF l, k2
    <3>1. k2 \in Consoles /\ k2.shown = k.shown /\ k2.skip = k.skip /\ k2.line = l  BY <2>2, ConsoleSets
    <3> QED  BY <3>1, <1>7 DEF l
  <2>4. SkipAt(bs, a.skip, j + 1) = 0 /\ (a.skip = 1 \/ j > 3)
    BY <1>1, <1>3, <1>4, <1>7 DEF SkipAt
  <2>5. k.line # <<>> \/ b # 65
    <3>1. CASE j > 6  BY <1>3, <1>4, <3>1
    <3>2. CASE j < 7  BY <1>2, <1>7, <3>2 DEF b
    <3> QED  BY <3>1, <3>2
  <2>6. Stray(Append(k.line, b)) /\ Append(k.line, b) # <<>>  BY <1>1, <1>3, <1>4, <2>5, StrayGrows
  <2>7. Stray(k2.line) /\ (k.line # <<>> \/ b \in 32..126 => k2.line # <<>>)  BY <1>4, <2>3, <2>6
  <2>8. a.skip = 0 /\ j + 1 > 6 => k2.line # <<>>
    <3>1. CASE j = 6  BY <1>1, <1>2, <2>7, <3>1 DEF b
    <3>2. CASE j > 6  BY <1>4, <2>7, <3>2
    <3> QED  BY <3>1, <3>2
  <2>9. a.skip = 1 /\ j + 1 > 2 => k2.line # <<>>
    <3>1. CASE j = 2  BY <1>2, <2>7, <3>1 DEF b
    <3>2. CASE j > 2  BY <1>4, <2>7, <3>2
    <3> QED  BY <1>7, <3>1, <3>2
  <2> HIDE DEF k2
  <2>11. ~(j + 1 = 1 \/ (a.skip = 0 /\ j + 1 < 5))  BY <1>3, <1>7, <2>4
  <2>12. k2.skip = SkipAt(bs, a.skip, j + 1)  BY <2>3, <2>4
  <2>13. Stray(k2.line)  BY <2>7
  <2>10. Within(bs, a, j + 1, k2)  BY <2>8, <2>9, <2>11, <2>12, <2>13 DEF Within
  <2> QED  BY <2>3, <2>10 DEF k2, b
<1> QED  BY <1>3, <1>5, <1>6, <1>7

\* A command begins where the call does, and at its end the next call does.
LEMMA CommandBegins == ASSUME NEW bs, NEW a \in Stages, NEW k, AtCall(a, k) PROVE Within(bs, a, 1, k)
  BY DEF Within, AtCall, SkipAt, Stages

LEMMA CommandEnds ==
  ASSUME NEW c \in AllCalls, c.do # "line", NEW bs, Shaped(c, bs), NEW a \in Stages, NEW k,
         Within(bs, a, Len(bs) + 1, k)
  PROVE  AtCall(After(a, c), k)
<1>1. bs \in Seq(Nat) /\ Len(bs) >= 2 /\ bs[1] \in {27, 29}  BY ShapesAre
<1>2. /\ c.do \notin JunkDoings => Len(bs) < 4
      /\ c.do \in SkipDoings => (bs[1] = 27 /\ Len(bs) = 2) \/ (bs[1] = 29 /\ Len(bs) = 3)
      /\ c.do \notin SkipDoings => (bs[1] = 27 /\ Len(bs) > 2) \/ (bs[1] = 29 /\ Len(bs) > 3)
  <2>1. Passes(c, bs)  BY CommandsPass
  <2> QED  BY <2>1, Zenon DEF Passes
<1>3. a.skip \in {0, 1} /\ a.junk \in {0, 1}  BY DEF Stages
<1>4. k.skip = SkipAt(bs, a.skip, Len(bs) + 1) /\ Stray(k.line)
      /\ (a.junk = 0 /\ a.skip = 0 /\ Len(bs) + 1 < 5 => k.line = <<>>)
  BY DEF Within
<1>5. After(a, c).skip = (IF a.skip = 0 /\ c.do \in SkipDoings THEN 1 ELSE 0)  BY DEF After, SkipDoings
<1>6. After(a, c).junk = (IF a.junk = 1 \/ a.skip = 1 \/ c.do \in JunkDoings THEN 1 ELSE 0)
  BY DEF After, JunkDoings
<1>7. k.skip = After(a, c).skip
  <2>1. CASE a.skip = 1  BY <2>1, <1>1, <1>4, <1>5 DEF SkipAt
  <2>2. CASE a.skip = 0 /\ c.do \in SkipDoings
    <3>1. CASE bs[1] = 27 /\ Len(bs) = 2  BY <3>1, <2>2, <1>4, <1>5 DEF SkipAt
    <3>2. CASE bs[1] = 29 /\ Len(bs) = 3
      <4>1. bs[1] # 27  BY <3>2
      <4> QED  BY <3>2, <4>1, <2>2, <1>4, <1>5 DEF SkipAt
    <3> QED  BY <3>1, <3>2, <2>2, <1>2
  <2>3. CASE a.skip = 0 /\ c.do \notin SkipDoings  BY <2>3, <1>1, <1>2, <1>4, <1>5 DEF SkipAt
  <2> QED  BY <1>3, <2>1, <2>2, <2>3
<1>8. After(a, c).junk = 0 => k.line = <<>>  BY <1>1, <1>2, <1>3, <1>4, <1>6
<1> QED  BY <1>4, <1>7, <1>8 DEF AtCall


\* The lines of the console.
WithinLine(c, a, j, k) ==
  IF j = 1 THEN AtCall(a, k)
  ELSE /\ k.skip = 0
       /\ IsFigure(c) => k.line = SubSeq(Text(c.as, FALSE), 1, j - 1)
       /\ ~IsFigure(c) => NotRow(k.line)

\* What is not a row of figures cannot be taken for one.
LEMMA ShortText == ASSUME NEW as \in Sorts, as \notin {"row", "total"} PROVE Len(Text(as, FALSE)) <= 1
<1> DEFINE x == Text(as, FALSE)
<1>1. as = "blank" => x = <<>>  BY Zenon DEF Text
<1>2. as = "rule" => x = <<45>>  BY Zenon DEF Text
<1>3. as \in {"title", "heading", "centred", "text"} => x = Word(FALSE)  BY Zenon DEF Text
<1>4. Word(FALSE) = <<65>>  BY DEF Word
<1>5. as = "blank" \/ as = "rule" \/ as \in {"title", "heading", "centred", "text"}  BY DEF Sorts
<1> HIDE DEF x
<1>6. x = <<>> \/ x = <<45>> \/ x = <<65>>  BY <1>1, <1>2, <1>3, <1>4, <1>5
<1>7. Len(x) <= 1  BY <1>6
<1> QED  BY <1>7 DEF x

LEMMA NotTheRow == ASSUME NEW l \in Seq(Nat), NotRow(l) PROVE l # Text("row", FALSE)
<1> DEFINE row == Text("row", FALSE)
<1>1. row \in Seq(Nat) /\ Len(row) = 3 /\ row[1] = 65  BY RowText
<1> HIDE DEF row
<1>2. Len(row) # 0 /\ ~(Len(row) < 3)  BY <1>1
<1>3. row # <<>>  BY <1>2
<1>4. ~NotRow(row)  BY <1>1, <1>2, <1>3 DEF NotRow
<1> QED  BY <1>4 DEF row

LEMMA NotRowGrows ==
  ASSUME NEW l \in Seq(Nat), Stray(l), NEW b \in Nat PROVE NotRow(Append(l, b)) /\ NotRow(l)
<1>1. Len(Append(l, b)) = Len(l) + 1 /\ Append(l, b) \in Seq(Nat)  OBVIOUS
<1>2. CASE l = <<>>  BY <1>1, <1>2 DEF NotRow
<1>3. CASE l # <<>>
  <2>1. Append(l, b)[1] = l[1]  BY <1>3
  <2> QED  BY <1>3, <2>1 DEF Stray, NotRow
<1> QED  BY <1>2, <1>3

\* A line feed shows the line, and it is a row exactly when the call is of a figure.
LineShown(c, k, k2) ==
  \E l \in Seq(Nat) : /\ k2.shown = Append(k.shown, l)
                      /\ IsFigure(c) => l = Text("row", FALSE)
                      /\ ~IsFigure(c) => l # Text("row", FALSE)
LineOn(c, a, j, n, k, k2) ==
  /\ k2 \in Consoles
  /\ j < n => k2.shown = k.shown /\ WithinLine(c, a, j + 1, k2)
  /\ j = n => LineShown(c, k, k2) /\ AtCall(After(a, c), k2)

\* A byte of a line on the console.
LEMMA ConsoleLineByte ==
  ASSUME NEW a \in Stages, NEW c \in AllCalls, c.do = "line", Fits(a, c), NEW j \in 1..Len(Bytes(c, FALSE)),
         NEW k \in Consoles, WithinLine(c, a, j, k)
  PROVE  LineOn(c, a, j, Len(Bytes(c, FALSE)), k, Shows(k, Bytes(c, FALSE)[j]))
<1> DEFINE x == Text(c.as, FALSE)
           b == Bytes(c, FALSE)[j]
           n == Len(Bytes(c, FALSE))
           k2 == Shows(k, b)
<1>1. /\ c.as \in Sorts /\ n = Len(x) + 1
      /\ \A i \in 1..Len(x) : Bytes(c, FALSE)[i] = x[i]
      /\ Bytes(c, FALSE)[n] = 10
  BY LinesAre
<1>2. /\ x \in Seq(Nat) /\ \A i \in 1..Len(x) : x[i] \notin {10, 27, 29, 112}
      /\ \A i \in 1..Len(x) : x[i] \in 32..126
      /\ c.as # "blank" => x # <<>>
      /\ c.as \in {"row", "total"} => x = Text("row", FALSE)
  <2>1. IsText(x, c.as, FALSE)  BY <1>1, TextIs
  <2> HIDE DEF x
  <2> QED  BY <2>1, Zenon DEF IsText
<1>3. IsFigure(c) <=> c.as \in {"row", "total"}  BY DEF IsFigure
<1>4. ~IsFigure(c) => Len(x) <= 1  BY <1>1, <1>3, ShortText
<1>5. /\ IsFigure(c) => a.skip = 0 /\ a.junk = 0
      /\ a.skip = 1 => c.as # "blank"
      /\ a.skip \in {0, 1}
  BY DEF Fits, Stages
<1>6. k.skip \in Nat /\ k.line \in Seq(Nat) /\ k.shown \in Seq(Seq(Nat))  BY DEF Consoles
<1>7. /\ j = 1 => k.skip = a.skip /\ Stray(k.line) /\ (a.junk = 0 => k.line = <<>>)
      /\ j # 1 => k.skip = 0 /\ (IsFigure(c) => k.line = SubSeq(x, 1, j - 1))
          /\ (~IsFigure(c) => NotRow(k.line))
  BY DEF WithinLine, AtCall
<1> SUFFICES LineOn(c, a, j, n, k, k2)  OBVIOUS
<1>12. j \in 1..n /\ Bytes(c, FALSE)[j] = b  OBVIOUS
<1> HIDE DEF x, n
<1>13. Len(x) \in Nat  BY <1>2
<1>8. j \in Nat /\ 1 <= j /\ j <= n /\ n = Len(x) + 1 /\ Len(x) \in Nat  BY <1>1, <1>12, <1>13
<1>11. \A i \in 1..Len(x) : x[i] \in Nat  BY <1>2
<1>9. CASE j < n
  <2>6. j \in 1..Len(x)  BY <1>8, <1>9
  <2>1. b = x[j] /\ j \in 1..Len(x)  BY <1>1, <2>6 DEF b
  <2>7. x[j] \notin {10, 27, 29, 112} /\ x[j] \in 32..126 /\ x[j] \in Nat  BY <1>2, <1>11, <2>6
  <2>2. b \in 32..126 /\ b \in Nat /\ b \notin {10, 27, 29}  BY <2>1, <2>7
  <2> HIDE DEF b
  <2>3. CASE k.skip > 0
    <3>1. j = 1 /\ a.skip = 1 /\ k.skip = 1 /\ ~IsFigure(c)  BY <1>5, <1>7, <2>3
    <3>2. k2 = [k EXCEPT !.skip = 0]  BY <3>1 DEF Shows, Skips
    <3>3. k2 \in Consoles /\ k2.skip = 0 /\ k2.line = k.line /\ k2.shown = k.shown  BY <3>2, ConsoleSets
    <3>4. NotRow(k2.line)  BY <1>6, <1>7, <3>1, <3>3 DEF NotRow, Stray
    <3> HIDE DEF k2
    <3>5. WithinLine(c, a, j + 1, k2)  BY <3>1, <3>3, <3>4, 1 + 1 # 1 DEF WithinLine
    <3>6. ~(j = n)  BY <1>8, <1>9
    <3> QED  BY <1>9, <3>3, <3>5, <3>6, Zenon DEF LineOn
  <2>4. CASE k.skip = 0
    <3>1. b \notin {ESC, GS} /\ b # LF  BY <2>2 DEF ESC, GS, LF
    <3>2. k2 = [k EXCEPT !.line = Append(k.line, b)]  BY <2>2, <2>4, <3>1 DEF Shows, Skips
    <3>3. Append(k.line, b) \in Seq(Nat)  BY <1>6, <2>2
    <3>4. k2 \in Consoles /\ k2.skip = 0 /\ k2.line = Append(k.line, b) /\ k2.shown = k.shown
      <4> DEFINE l == Append(k.line, b)
      <4>1. l \in Seq(Nat) /\ k2 = [k EXCEPT !.line = l]  BY <3>2, <3>3
      <4> HIDE DEF l, k2
      <4>2. k2 \in Consoles /\ k2.skip = k.skip /\ k2.line = l /\ k2.shown = k.shown  BY <4>1, ConsoleSets
      <4> QED  BY <2>4, <4>2 DEF l
    <3> HIDE DEF k2
    <3>5. IsFigure(c) => k2.line = SubSeq(x, 1, j)
      <4>1. IsFigure(c) => k.line = SubSeq(x, 1, j - 1)
        <5>1. CASE j = 1
          <6>1. SubSeq(x, 1, 0) = <<>>  BY <1>2
          <6>2. IsFigure(c) => k.line = <<>>  BY <1>5, <1>7, <5>1
          <6>3. SubSeq(x, 1, j - 1) = <<>>  BY <5>1, <6>1
          <6> QED  BY <6>2, <6>3
        <5> QED  BY <1>7, <5>1
      <4>2. Append(SubSeq(x, 1, j - 1), x[j]) = SubSeq(x, 1, j)  BY <1>2, <2>1
      <4> QED  BY <2>1, <3>4, <4>1, <4>2
    <3>6. ~IsFigure(c) => NotRow(k2.line)
      <4>1. ~IsFigure(c) => j = 1  BY <1>4, <1>8, <2>1
      <4> QED  BY <1>6, <1>7, <2>2, <3>4, <4>1, NotRowGrows
    <3>7. WithinLine(c, a, j + 1, k2)
      <4>1. j + 1 # 1 /\ (j + 1) - 1 = j  BY <2>1
      <4> QED  BY <3>4, <3>5, <3>6, <4>1 DEF WithinLine, x
    <3>8. ~(j = n)  BY <1>8, <1>9
    <3> QED  BY <1>9, <3>4, <3>7, <3>8, Zenon DEF LineOn
  <2> QED  BY <1>6, <2>3, <2>4
<1>10. CASE j = n
  <2>1. b = 10  BY <1>1, <1>10 DEF b
  <2>2. k.skip = 0
    <3>1. CASE j = 1
      <4>1. Len(x) = 0  BY <1>1, <1>8, <1>10, <3>1
      <4>2. x = <<>>  BY <1>2, <4>1
      <4> QED  BY <1>2, <1>5, <1>7, <3>1, <4>2
    <3> QED  BY <1>7, <3>1
  <2> HIDE DEF b
  <2>3. k2 = [skip |-> 0, line |-> <<>>, shown |-> Append(k.shown, k.line)]
    BY <2>1, <2>2 DEF Shows, Skips, LF, ESC, GS
  <2>4. Append(k.shown, k.line) \in Seq(Seq(Nat))  BY <1>6
  <2>11. \A h \in Seq(Seq(Nat)) : [skip |-> 0, line |-> <<>>, shown |-> h] \in Consoles  BY DEF Consoles
  <2> HIDE DEF k2
  <2>5. k2 \in Consoles /\ k2.skip = 0 /\ k2.line = <<>> /\ k2.shown = Append(k.shown, k.line)
    BY <2>3, <2>4, <2>11
  <2>6. IsFigure(c) => k.line = Text("row", FALSE)
    <3>5. IsFigure(c) => x = Text("row", FALSE)  BY <1>2, <1>3
    <3>1. IsFigure(c) => Len(x) = 3 /\ x = Text("row", FALSE)  BY <3>5, RowText
    <3>4. j - 1 = Len(x)  BY <1>8, <1>10
    <3>6. Len(x) = 3 => j # 1  BY <3>4
    <3>2. IsFigure(c) => j # 1 /\ j - 1 = Len(x)  BY <3>1, <3>4, <3>6
    <3>3. SubSeq(x, 1, Len(x)) = x  BY <1>2
    <3> QED  BY <1>7, <3>1, <3>2, <3>3
  <2>7. ~IsFigure(c) => k.line # Text("row", FALSE)
    <3>1. ~IsFigure(c) => NotRow(k.line)
      <4>1. Stray(k.line) => NotRow(k.line)  BY DEF Stray, NotRow
      <4> QED  BY <1>7, <4>1
    <3> QED  BY <1>6, <3>1, NotTheRow
  <2> HIDE DEF k2
  <2>8. AtCall(After(a, c), k2)
    <3>1. After(a, c).skip = 0 /\ After(a, c).junk = 0  BY DEF After
    <3> QED  BY <2>5, <3>1 DEF AtCall, Stray
  <2>9. LineShown(c, k, k2)  BY <1>6, <2>5, <2>6, <2>7 DEF LineShown
  <2>10. ~(j < n)  BY <1>8, <1>10
  <2> QED  BY <2>5, <2>8, <2>9, <2>10, Zenon DEF LineOn
<1>14. n \in Nat  BY <1>8
<1>15. j < n \/ j = n  BY <1>8, <1>14
<1> QED  BY <1>9, <1>10, <1>15


-----------------------------------------------------------------------------
(* What has come out.                                                      *)

\* One call more is one line more, or none.
LEMMA SeenGrows ==
  ASSUME NEW calls, NEW i \in Nat, i > 0
  PROVE  /\ IsFiniteSet(Seen(calls, i)) /\ IsFiniteSet(Figures(calls, i))
         /\ Cardinality(Seen(calls, i)) \in Nat /\ Cardinality(Figures(calls, i)) \in Nat
         /\ IsSeen(calls[i]) => Cardinality(Seen(calls, i)) = Cardinality(Seen(calls, i - 1)) + 1
         /\ ~IsSeen(calls[i]) => Seen(calls, i) = Seen(calls, i - 1)
         /\ IsFigure(calls[i]) => Cardinality(Figures(calls, i)) = Cardinality(Figures(calls, i - 1)) + 1
         /\ ~IsFigure(calls[i]) => Figures(calls, i) = Figures(calls, i - 1)
<1>0. 1..i = 1..(i - 1) \cup {i}  OBVIOUS
<1>1. \A n \in Nat : IsFiniteSet(1..n)  BY FS_Interval
<1>2. \A n \in Nat : /\ IsFiniteSet(Seen(calls, n)) /\ Cardinality(Seen(calls, n)) \in Nat
                     /\ IsFiniteSet(Figures(calls, n)) /\ Cardinality(Figures(calls, n)) \in Nat
  <2>1. \A n \in Nat : Seen(calls, n) \subseteq 1..n /\ Figures(calls, n) \subseteq 1..n  BY DEF Seen, Figures
  <2>2. \A n \in Nat : IsFiniteSet(Seen(calls, n)) /\ IsFiniteSet(Figures(calls, n))  BY <1>1, <2>1, FS_Subset
  <2> QED  BY <2>2, FS_CardinalityType
<1>3. i - 1 \in Nat  OBVIOUS
<1>4. i \notin Seen(calls, i - 1) /\ i \notin Figures(calls, i - 1)  BY DEF Seen, Figures
<1>5. IsSeen(calls[i]) => Seen(calls, i) = Seen(calls, i - 1) \cup {i}  BY <1>0 DEF Seen
<1>6. ~IsSeen(calls[i]) => Seen(calls, i) = Seen(calls, i - 1)  BY <1>0 DEF Seen
<1>7. IsFigure(calls[i]) => Figures(calls, i) = Figures(calls, i - 1) \cup {i}  BY <1>0 DEF Figures
<1>8. ~IsFigure(calls[i]) => Figures(calls, i) = Figures(calls, i - 1)  BY <1>0 DEF Figures
<1>9. Cardinality(Seen(calls, i - 1) \cup {i}) = Cardinality(Seen(calls, i - 1)) + 1
  BY <1>2, <1>3, <1>4, FS_AddElement
<1>10. Cardinality(Figures(calls, i - 1) \cup {i}) = Cardinality(Figures(calls, i - 1)) + 1
  BY <1>2, <1>3, <1>4, FS_AddElement
<1> QED  BY <1>2, <1>5, <1>6, <1>7, <1>8, <1>9, <1>10

\* The place on paper of a call that is seen.
LEMMA SeenPlaces ==
  ASSUME NEW calls, NEW n \in Nat, NEW i \in Seen(calls, n)
  PROVE  Cardinality(Seen(calls, i)) \in 1..Cardinality(Seen(calls, n))
<1>1. i \in 1..n /\ i \in Seen(calls, i) /\ Seen(calls, i) \subseteq Seen(calls, n)  BY DEF Seen
<1>2. i \in Nat /\ i > 0 /\ (n > 0)  BY <1>1
<1>3. /\ IsFiniteSet(Seen(calls, i)) /\ Cardinality(Seen(calls, i)) \in Nat
      /\ IsFiniteSet(Seen(calls, n)) /\ Cardinality(Seen(calls, n)) \in Nat
  BY <1>2, SeenGrows
<1>4. Cardinality(Seen(calls, i)) <= Cardinality(Seen(calls, n))  BY <1>1, <1>3, FS_Subset
<1>5. Cardinality(Seen(calls, i)) # 0  BY <1>1, <1>3, FS_EmptySet
<1> QED  BY <1>3, <1>4, <1>5

\* Before the first call nothing has come out.
LEMMA NothingYet == ASSUME NEW calls PROVE Seen(calls, 0) = {} /\ Figures(calls, 0) = {}
  BY DEF Seen, Figures

\* Lines on paper.
Shots == [text : Seq(Nat), bold : Nat, size : Nat, align : Nat]

\* A call seen comes out under those before it; one unseen changes nothing.
LEMMA MoreCameOut ==
  ASSUME NEW calls, NEW ar, NEW i \in Nat, i > 0, NEW lines \in Seq(Shots), CameOut(calls, ar, i - 1, lines)
  PROVE  /\ ~IsSeen(calls[i]) => CameOut(calls, ar, i, lines)
         /\ IsSeen(calls[i]) =>
              \A p \in Shots : p = Paper(calls[i], ar) => CameOut(calls, ar, i, Append(lines, p))
<1> DEFINE S == Seen(calls, i - 1)
           at(x) == Cardinality(Seen(calls, x))
<1>1. Len(lines) = Cardinality(S) /\ \A x \in S : lines[at(x)] = Paper(calls[x], ar)  BY DEF CameOut
<1>2. ~IsSeen(calls[i]) => Seen(calls, i) = S  BY SeenGrows
<1>3. IsSeen(calls[i]) => Cardinality(Seen(calls, i)) = Cardinality(S) + 1  BY SeenGrows
<1>4. ~IsSeen(calls[i]) => CameOut(calls, ar, i, lines)  BY <1>1, <1>2 DEF CameOut
<1>5. ASSUME IsSeen(calls[i]), NEW p \in Shots, p = Paper(calls[i], ar)
             PROVE CameOut(calls, ar, i, Append(lines, p))
  <2> DEFINE m == Append(lines, p)
  <2>1. Len(m) = Len(lines) + 1 /\ m[Len(lines) + 1] = p /\ \A y \in 1..Len(lines) : m[y] = lines[y]  OBVIOUS
  <2> HIDE DEF m
  <2>2. Len(m) = Cardinality(Seen(calls, i))  BY <1>1, <1>3, <1>5, <2>1
  <2>3. ASSUME NEW x \in Seen(calls, i) PROVE m[at(x)] = Paper(calls[x], ar)
    <3>1. CASE x = i  BY <3>1, <1>1, <1>3, <1>5, <2>1
    <3>2. CASE x # i
      <4>1. x \in S  BY <3>2 DEF Seen
      <4>2. i - 1 \in Nat  OBVIOUS
      <4>3. at(x) \in 1..Cardinality(S)  BY <4>1, <4>2, SeenPlaces
      <4> QED  BY <4>1, <4>3, <1>1, <2>1
    <3> QED  BY <3>1, <3>2
  <2> QED  BY <2>2, <2>3 DEF CameOut, m
<1> QED  BY <1>4, <1>5

\* The rows the console has shown.
RowsOf(shown) == {i \in DOMAIN shown : shown[i] = Text("row", FALSE)}

\* They grow by one with a row, and not otherwise.
LEMMA RowsOfMore ==
  ASSUME NEW shown \in Seq(Seq(Nat)), NEW l \in Seq(Nat)
  PROVE  /\ Cardinality(RowsOf(shown)) \in Nat
         /\ l = Text("row", FALSE) => Cardinality(RowsOf(Append(shown, l))) = Cardinality(RowsOf(shown)) + 1
         /\ l # Text("row", FALSE) => RowsOf(Append(shown, l)) = RowsOf(shown)
<1> DEFINE row == Text("row", FALSE)
           n == Len(shown)
           more == Append(shown, l)
<1>1. n \in Nat /\ DOMAIN shown = 1..n /\ DOMAIN more = 1..(n + 1) /\ more[n + 1] = l
      /\ \A i \in 1..n : more[i] = shown[i]
  OBVIOUS
<1>2. RowsOf(shown) = {i \in 1..n : shown[i] = row}  BY <1>1 DEF RowsOf
<1>3. RowsOf(more) = {i \in 1..(n + 1) : more[i] = row}  BY <1>1 DEF RowsOf
<1> HIDE DEF row, n, more
<1>4. IsFiniteSet(RowsOf(shown))
  <2>1. IsFiniteSet(1..n)  BY <1>1, FS_Interval
  <2>2. RowsOf(shown) \subseteq 1..n  BY <1>2
  <2> QED  BY <2>1, <2>2, FS_Subset
<1>5. n + 1 \notin RowsOf(shown)  BY <1>1, <1>2
<1>6. l = row => RowsOf(more) = RowsOf(shown) \cup {n + 1}  BY <1>1, <1>2, <1>3
<1>7. l # row => RowsOf(more) = RowsOf(shown)  BY <1>1, <1>2, <1>3
<1>8. Cardinality(RowsOf(shown) \cup {n + 1}) = Cardinality(RowsOf(shown)) + 1  BY <1>4, <1>5, FS_AddElement
<1>9. Cardinality(RowsOf(shown)) \in Nat  BY <1>4, FS_CardinalityType
<1> QED  BY <1>6, <1>7, <1>8, <1>9 DEF row, more


\* How much of a call the device has of it, at its n-th byte.
OnCall(c, ar, a, n, p) ==
  /\ c.do = "line" => p.pend = <<>> /\ p.line = SubSeq(Text(c.as, ar), 1, n - 1)
  /\ c.do # "line" => p.pend = SubSeq(Bytes(c, ar), 1, n - 1) /\ (a.begun = 1 => p.line = <<>>)

\* What a byte more of a call makes of the device and the paper.
OnPaper(c, ar, a, n, s, s2, last) ==
  /\ n < last => s2.modes = s.modes /\ s2.out = s.out /\ OnCall(c, ar, a, n + 1, s2)
  /\ n = last => /\ s2.modes = After(a, c).modes /\ s2.pend = <<>> /\ s2.line = <<>>
                 /\ s2.out.cuts = After(a, c).tally.cuts /\ s2.out.kicks = After(a, c).tally.kicks
                 /\ IsSeen(c) => Paper(c, ar) \in Shots /\ s2.out.lines = Append(s.out.lines, Paper(c, ar))
                 /\ ~IsSeen(c) => s2.out.lines = s.out.lines

\* Byte by byte, the device does a call as the stages say.
LEMMA LineOnPaper ==
  ASSUME NEW a \in Stages, NEW c \in AllCalls, c.do = "line", Fits(a, c), NEW ar \in BOOLEAN,
         NEW n \in 1..Len(Bytes(c, ar)), NEW s \in Devices, a.begun = 1 => s.modes = a.modes,
             OnCall(c, ar, a, n, s),
         s.out.cuts = a.tally.cuts, s.out.kicks = a.tally.kicks
  PROVE  OnPaper(c, ar, a, n, s, Takes(s, Bytes(c, ar)[n]), Len(Bytes(c, ar)))
<1> DEFINE x == Text(c.as, ar)
           last == Len(Bytes(c, ar))
           s2 == Takes(s, Bytes(c, ar)[n])
<1>1. s.pend = <<>> /\ s.line = SubSeq(x, 1, n - 1)  BY DEF OnCall
<1>2. /\ n < last => s2 = [s EXCEPT !.line = SubSeq(x, 1, n)]
      /\ n = last => s2 = EndsLine(s) /\ s.line = x
  <2>1. LineTaken(c, ar, n, s)  BY <1>1, LineByte
  <2> QED  BY <2>1 DEF LineTaken
<1>3. c.as \in Sorts /\ last \in Nat /\ n \in Nat  BY LinesAre
<1>4. /\ x \in Seq(Nat) /\ (c.as = "blank" => x = <<>>) /\ (c.as # "blank" => x # <<>>)
  <2>1. IsText(x, c.as, ar)  BY <1>3, TextIs
  <2> HIDE DEF x
  <2> QED  BY <2>1, Zenon DEF IsText
<1>5. a.begun = 1 /\ s.modes = a.modes  BY DEF Fits
<1>6. Paper(c, ar) = Set(Look(c.as), x) /\ (IsSeen(c) <=> c.as # "blank") /\ (IsSeen(c) => a.modes = Look(c.as))
  BY DEF Paper, IsSeen, Fits
<1> SUFFICES OnPaper(c, ar, a, n, s, s2, last)  OBVIOUS
<1> HIDE DEF last, s2, x
<1>7. CASE n < last
  <2>1. s2 = [s EXCEPT !.line = SubSeq(x, 1, n)]  BY <1>2, <1>7
  <2>2. s2.modes = s.modes /\ s2.out = s.out /\ s2.pend = <<>> /\ s2.line = SubSeq(x, 1, n)
    BY <2>1, <1>1 DEF Devices
  <2>3. (n + 1) - 1 = n  BY <1>3
  <2>4. OnCall(c, ar, a, n + 1, s2)  BY <2>2, <2>3 DEF OnCall, x
  <2>5. ~(n = last)  BY <1>3, <1>7
  <2> QED  BY <2>2, <2>4, <2>5, Zenon DEF OnPaper
<1>8. CASE n = last
  <2>1. s2 = Ended(s) /\ s.line = x  BY <1>2, <1>8, EndsLineIs
  <2>2. s2.modes = s.modes /\ s2.pend = <<>> /\ s2.line = <<>>
        /\ s2.out.cuts = s.out.cuts /\ s2.out.kicks = s.out.kicks
        /\ s2.out.lines = (IF x = <<>> THEN s.out.lines ELSE Append(s.out.lines, Set(s.modes, x)))
    BY <2>1, <1>1 DEF Ended
  <2>3. After(a, c).modes = AfterModes(a.modes, c) /\ After(a, c).tally = AfterTally(a.tally, c)  BY DEF After
  <2>4. AfterModes(a.modes, c) = a.modes  BY DEF AfterModes, Stages
  <2>5. AfterTally(a.tally, c).cuts = a.tally.cuts /\ AfterTally(a.tally, c).kicks = a.tally.kicks
    BY DEF AfterTally
  <2>6. IsSeen(c) => Paper(c, ar) \in Shots /\ s2.out.lines = Append(s.out.lines, Paper(c, ar))
    <3>1. IsSeen(c) => Paper(c, ar) = Set(s.modes, x) /\ x # <<>>  BY <1>4, <1>5, <1>6
    <3>2. Set(s.modes, x) \in Shots  BY <1>4 DEF Set, Shots, Devices
    <3> QED  BY <2>2, <3>1, <3>2
  <2>7. ~IsSeen(c) => s2.out.lines = s.out.lines  BY <1>4, <1>6, <2>2
  <2>8. ~(n < last)  BY <1>3, <1>8
  <2>9. s2.modes = After(a, c).modes  BY <1>5, <2>2, <2>3, <2>4
  <2>10. s2.out.cuts = After(a, c).tally.cuts /\ s2.out.kicks = After(a, c).tally.kicks  BY <2>2, <2>3, <2>5
  <2> QED  BY <2>2, <2>6, <2>7, <2>8, <2>9, <2>10, Zenon DEF OnPaper
<1>9. n \in 1..last  BY DEF last
<1> QED  BY <1>3, <1>7, <1>8, <1>9

\* So does a command.
LEMMA CommandOnPaper ==
  ASSUME NEW a \in Stages, NEW c \in AllCalls, c.do # "line", Fits(a, c), NEW ar \in BOOLEAN,
         NEW n \in 1..Len(Bytes(c, ar)), NEW s \in Devices, a.begun = 1 => s.modes = a.modes,
             OnCall(c, ar, a, n, s),
         s.out.cuts = a.tally.cuts, s.out.kicks = a.tally.kicks
  PROVE  OnPaper(c, ar, a, n, s, Takes(s, Bytes(c, ar)[n]), Len(Bytes(c, ar)))
<1> DEFINE bs == Bytes(c, ar)
           last == Len(bs)
           s2 == Takes(s, bs[n])
<1>0. Shaped(c, bs)  BY CommandsAreShaped
<1>1. s.pend = SubSeq(bs, 1, n - 1) /\ (a.begun = 1 => s.line = <<>>)  BY DEF OnCall
<1>2. /\ n < last => s2 = [s EXCEPT !.pend = SubSeq(bs, 1, n)]
      /\ n = last => s2 = Coded(s, c)
  <2>1. n \in 1..Len(bs)  OBVIOUS
  <2> HIDE DEF bs
  <2>2. CommandOn(c, bs, n, s)  BY <1>0, <1>1, <2>1, CommandByte
  <2> QED  BY <2>2 DEF CommandOn
<1>3. bs \in Seq(Nat)
  <2> HIDE DEF bs
  <2> QED  BY <1>0, ShapesAre
<1>4. last \in Nat /\ n \in 1..last  BY <1>3
<1>5. a.begun = 1 \/ c.do = "init"  BY DEF Fits
<1>6. Paper(c, ar) = Set(Look("centred"), CodeData) /\ (IsSeen(c) => a.modes = Look("centred") /\ c.do # "init")
  BY DEF Paper, IsSeen, Fits
<1> SUFFICES OnPaper(c, ar, a, n, s, s2, last)  OBVIOUS
<1>9. bs = Bytes(c, ar)  OBVIOUS
<1> HIDE DEF last, s2, bs
<1>7. CASE n < last
  <2>1. s2 = [s EXCEPT !.pend = SubSeq(bs, 1, n)]  BY <1>2, <1>7
  <2>2. s2.modes = s.modes /\ s2.out = s.out /\ s2.pend = SubSeq(bs, 1, n) /\ s2.line = s.line
    BY <2>1 DEF Devices
  <2>3. (n + 1) - 1 = n  BY <1>4
  <2>4. OnCall(c, ar, a, n + 1, s2)  BY <1>1, <1>9, <2>2, <2>3 DEF OnCall
  <2>5. ~(n = last)  BY <1>4, <1>7
  <2> QED  BY <2>2, <2>4, <2>5, Zenon DEF OnPaper
<1>8. CASE n = last
  <2>1. s2 = Coded(s, c)  BY <1>2, <1>8
  <2>2. /\ s2.modes = AfterModes(s.modes, c) /\ s2.pend = <<>>
        /\ s2.line = (IF c.do = "init" THEN <<>> ELSE s.line)
        /\ s2.out.lines = s.out.lines \o (IF IsSeen(c) THEN <<Set(s.modes, CodeData)>> ELSE <<>>)
        /\ s2.out.cuts = s.out.cuts + (IF c.do = "cut" THEN 1 ELSE 0)
        /\ s2.out.kicks = s.out.kicks + (IF c.do = "drawer" THEN 1 ELSE 0)
    BY <2>1 DEF Coded
  <2>3. After(a, c).modes = AfterModes(a.modes, c) /\ After(a, c).tally = AfterTally(a.tally, c)  BY DEF After
  <2>4. AfterModes(a.modes, c) = AfterModes(s.modes, c)
    <3>1. CASE c.do = "init"  BY <3>1 DEF AfterModes
    <3>2. CASE c.do # "init"  BY <3>2, <1>5
    <3> QED  BY <3>1, <3>2
  <2>5. a.tally.cuts \in Nat /\ a.tally.kicks \in Nat  BY DEF Stages, Tallies
  <2>6. s2.out.cuts = AfterTally(a.tally, c).cuts /\ s2.out.kicks = AfterTally(a.tally, c).kicks
    BY <2>2, <2>5 DEF AfterTally
  <2>7. s2.line = <<>>  BY <1>1, <1>5, <2>2
  <2>8. s.out.lines \in Seq(Shots)  BY DEF Devices, Outs, Shots
  <2>9. IsSeen(c) => Paper(c, ar) \in Shots /\ s2.out.lines = Append(s.out.lines, Paper(c, ar))
    <3>1. IsSeen(c) => Paper(c, ar) = Set(s.modes, CodeData)  BY <1>5, <1>6
    <3>2. CodeData \in Seq(Nat)  BY DEF CodeData
    <3>3. Set(s.modes, CodeData) \in Shots  BY <3>2 DEF Set, Shots, Devices
    <3>4. \A p \in Shots : s.out.lines \o <<p>> = Append(s.out.lines, p)  BY <2>8
    <3> QED  BY <2>2, <3>1, <3>3, <3>4
  <2>10. ~IsSeen(c) => s2.out.lines = s.out.lines  BY <2>2, <2>8
  <2>11. ~(n < last)  BY <1>4, <1>8
  <2>12. s2.modes = After(a, c).modes  BY <2>2, <2>3, <2>4
  <2>13. s2.out.cuts = After(a, c).tally.cuts /\ s2.out.kicks = After(a, c).tally.kicks  BY <2>3, <2>6
  <2> QED  BY <2>2, <2>7, <2>9, <2>10, <2>11, <2>12, <2>13, Zenon DEF OnPaper
<1> QED  BY <1>4, <1>7, <1>8


-----------------------------------------------------------------------------
(* The inductive invariant.                                                *)

\* The stages of a document, one before and after each of its calls.
Staged(d, g) ==
  \E b : /\ StagesOf(g, Calls(d), Start(Due(d)), b)
         /\ b.tally.cuts = (IF d.kind = "drawer" THEN 0 ELSE 1)
         /\ b.tally.kicks = (IF Opens(d) THEN 1 ELSE 0)
Staging(d) == CHOOSE g : Staged(d, g)

\* What they say of it.
Directs(d, g) ==
  /\ Calls(d) \in Seq(AllCalls) /\ Len(Calls(d)) \in Nat /\ Len(Calls(d)) > 0
  /\ g[0] = Start(Due(d))
  /\ \A i \in 0..Len(Calls(d)) : g[i] \in Stages
  /\ \A i \in 1..Len(Calls(d)) : Fits(g[i - 1], Calls(d)[i]) /\ g[i] = After(g[i - 1], Calls(d)[i])
  /\ g[Len(Calls(d))].tally.cuts = (IF d.kind = "drawer" THEN 0 ELSE 1)
  /\ g[Len(Calls(d))].tally.kicks = (IF Opens(d) THEN 1 ELSE 0)

\* Every document has them.
LEMMA StagingIs == ASSUME NEW d \in Documents PROVE Directs(d, Staging(d))
<1> DEFINE g == Staging(d)
           n == Len(Calls(d))
<1>1. \E h : Staged(d, h)  BY DocumentLeads DEF Leads, Staged
<1>2. Staged(d, g)  BY <1>1, Zenon DEF Staging
<1> HIDE DEF g
<1>3. PICK b : /\ StagesOf(g, Calls(d), Start(Due(d)), b)
               /\ b.tally.cuts = (IF d.kind = "drawer" THEN 0 ELSE 1)
               /\ b.tally.kicks = (IF Opens(d) THEN 1 ELSE 0)
  BY <1>2 DEF Staged
<1>4. /\ Calls(d) \in Seq(AllCalls) /\ g \in [0..n -> Stages] /\ g[0] = Start(Due(d)) /\ g[n] = b
      /\ \A i \in 1..n : Fits(g[i - 1], Calls(d)[i]) /\ g[i] = After(g[i - 1], Calls(d)[i])
  BY <1>3 DEF StagesOf
<1>5. n \in Nat  BY <1>4
<1>6. Start(Due(d)).tally.cuts = 0 /\ Start(Due(d)).tally.kicks = 0  BY DEF Start, Due
<1>7. n # 0
  <2> SUFFICES ASSUME n = 0 PROVE FALSE  OBVIOUS
  <2>1. b = Start(Due(d))  BY <1>4
  <2>2. d.kind = "drawer"  BY <1>3, <1>6, <2>1
  <2>3. ~Opens(d)  BY <1>3, <1>6, <2>1
  <2> QED  BY <2>2, <2>3 DEF Opens
<1>8. n > 0  BY <1>5, <1>7
<1>9. \A i \in 0..n : g[i] \in Stages  BY <1>4
<1> HIDE DEF n
<1>10. g[n].tally.cuts = (IF d.kind = "drawer" THEN 0 ELSE 1) /\ g[n].tally.kicks = (IF Opens(d) THEN 1 ELSE 0)
  BY <1>3, <1>4
<1> QED  BY <1>4, <1>5, <1>8, <1>9, <1>10, Zenon DEF Directs, g, n

\* The call, the bytes and the stage a job is at.
CallOf(j)   == j.calls[j.call]
BufferOf(j) == Bytes(CallOf(j), j.doc.arabic)
StageOf(j)  == Staging(j.doc)[j.call - 1]

\* Jobs, and one that is where a document can be.
Jobs == [at : {"idle", "sending", "printed"}, doc : Documents \cup {NoDocument},
         calls : Seq(AllCalls), call : Nat, byte : Nat, out : Outs, clean : BOOLEAN]
JobOK(j) ==
  /\ j \in Jobs
  /\ j.at # "idle" => j.doc \in Documents /\ j.calls = Calls(j.doc)
  /\ j.at = "sending" => j.call \in 1..Len(j.calls) /\ j.byte \in 1..Len(BufferOf(j))
  /\ j.at = "printed" => j.call = Len(j.calls) + 1

\* The device's own state.
Printers == [modes : [bold : Nat, size : Nat, align : Nat], pend : Seq(Nat), line : Seq(Nat)]

\* On paper is what was sent; the device is as the calls so far have left it.
PaperOK(j, p) ==
  j.at # "idle" /\ j.clean =>
    /\ j.out.cuts = StageOf(j).tally.cuts /\ j.out.kicks = StageOf(j).tally.kicks
    /\ CameOut(j.calls, j.doc.arabic, j.call - 1, j.out.lines)
    /\ StageOf(j).begun = 1 => p.modes = StageOf(j).modes
    /\ j.at = "sending" => OnCall(CallOf(j), j.doc.arabic, StageOf(j), j.byte, p)

\* Pulses the document still brings to a printer, one less once the 112 of it is sent.
Owed(j) ==
  IF j.at # "sending" THEN 0
  ELSE IF CallOf(j).do = "drawer" /\ j.byte > 2 THEN StageOf(j).tally.owed - 1 ELSE StageOf(j).tally.owed
\* Pulses sent, begun and owed were all asked for.
DrawerOK(j, p, d) == d.kicked + Loaded(p.pend) + Owed(j) <= d.asked

\* The console within a call, and over a document.
OnConsole(c, a, n, k) ==
  /\ c.do = "line" => WithinLine(c, a, n, k)
  /\ c.do # "line" => Within(Bytes(c, FALSE), a, n, k)
PreviewOK(j, k) ==
  j.at # "idle" /\ j.doc.arabic = FALSE =>
    /\ Cardinality(RowsOf(k.shown)) = Cardinality(Figures(j.calls, j.call - 1))
    /\ j.at = "sending" => OnConsole(CallOf(j), StageOf(j), j.byte, k)

\* The inductive invariant.  The paper and the drawer are the printer's, the figures
\* the console's: which of the two a till has does not change.
PrintTypes ==
  /\ hasPrinter \in BOOLEAN /\ JobOK(job) /\ printer \in Printers /\ console \in Consoles
  /\ drawer \in [asked : Nat, kicked : Int]

PrintInv ==
  /\ PrintTypes
  /\ hasPrinter => PaperOK(job, printer) /\ DrawerOK(job, printer, drawer)
  /\ ~hasPrinter => PreviewOK(job, console) /\ drawer.kicked = 0

\* The bytes of any call: there are some, and a 112 among them is the drawer's.
LEMMA BytesAre ==
  ASSUME NEW c \in AllCalls, NEW ar \in BOOLEAN
  PROVE  /\ Bytes(c, ar) \in Seq(Nat) /\ Len(Bytes(c, ar)) \in Nat /\ Len(Bytes(c, ar)) >= 1
         /\ \A n \in 1..Len(Bytes(c, ar)) :
              Bytes(c, ar)[n] \in Nat /\ (Bytes(c, ar)[n] = 112 <=> (c.do = "drawer" /\ n = 2))
         /\ c.do = "drawer" => Len(Bytes(c, ar)) = 5
<1> DEFINE bs == Bytes(c, ar)
           last == Len(bs)
<1>1. CASE c.do = "line"
  <2> DEFINE x == Text(c.as, ar)
  <2>1. c.as \in Sorts /\ bs \in Seq(Nat) /\ last = Len(x) + 1 /\ (\A i \in 1..Len(x) : bs[i] = x[i])
        /\ bs[last] = 10
    BY <1>1, LinesAre
  <2>2. IsText(x, c.as, ar)  BY <2>1, TextIs
  <2> HIDE DEF bs, x
  <2>3. x \in Seq(Nat) /\ \A i \in 1..Len(x) : x[i] # 112  BY <2>2 DEF IsText
  <2>4. \A n \in 1..last : n \in 1..Len(x) \/ n = last  BY <2>1, <2>3
  <2>5. \A n \in 1..last : bs[n] \in Nat /\ bs[n] # 112  BY <2>1, <2>3, <2>4
  <2> QED  BY <1>1, <2>1, <2>3, <2>5 DEF bs
<1>2. CASE c.do # "line"
  <2>1. Shaped(c, bs)  BY <1>2, CommandsAreShaped
  <2>2. c.do = "drawer" => bs = <<ESC, 112, 0, 25, 250>>  BY Zenon DEF Bytes
  <2> HIDE DEF bs
  <2>3. bs \in Seq(Nat) /\ Len(bs) >= 2 /\ \A i \in 1..Len(bs) : bs[i] = 112 <=> (c.do = "drawer" /\ i = 2)
    BY <1>2, <2>1, ShapesAre
  <2>4. c.do = "drawer" => Len(bs) = 5  BY <2>2
  <2>5. \A n \in 1..last : bs[n] \in Nat  BY <2>3
  <2> QED  BY <2>3, <2>4, <2>5 DEF bs
<1> QED  BY <1>1, <1>2


\* What is known of a job that is being sent.
Ready(j) ==
  /\ j.doc \in Documents /\ j.calls = Calls(j.doc) /\ j.doc.arabic \in BOOLEAN
  /\ Directs(j.doc, Staging(j.doc))
  /\ CallOf(j) \in AllCalls /\ StageOf(j) \in Stages /\ Fits(StageOf(j), CallOf(j))
  /\ Staging(j.doc)[j.call] = After(StageOf(j), CallOf(j))
  /\ j.call \in 1..Len(j.calls) /\ j.call \in Nat /\ j.byte \in Nat
  /\ j.byte \in 1..Len(BufferOf(j)) /\ BufferOf(j)[j.byte] \in Nat /\ j.out \in Outs

\* It is known of every such job.
LEMMA SendingIsReady == ASSUME NEW j, JobOK(j), j.at = "sending" PROVE Ready(j)
<1> DEFINE d == j.doc
           g == Staging(d)
<1>1. /\ d \in Documents /\ j.calls = Calls(d) /\ j.call \in 1..Len(j.calls) /\ j.byte \in 1..Len(BufferOf(j))
      /\ j.call \in Nat /\ j.byte \in Nat /\ j.out \in Outs
  BY DEF JobOK, Jobs
<1>2. Directs(d, g)  BY <1>1, StagingIs
<1>3. d.arabic \in BOOLEAN  BY <1>1 DEF Documents
<1> HIDE DEF d, g
<1>4. j.call - 1 \in 0..Len(Calls(d))  BY <1>1, <1>2 DEF Directs
<1>5. g[j.call - 1] \in Stages /\ Fits(g[j.call - 1], Calls(d)[j.call])
      /\ g[j.call] = After(g[j.call - 1], Calls(d)[j.call])
  BY <1>1, <1>2, <1>4 DEF Directs
<1>6. Calls(d)[j.call] \in AllCalls  BY <1>1, <1>2 DEF Directs
<1>7. CallOf(j) = Calls(d)[j.call] /\ StageOf(j) = g[j.call - 1]  BY <1>1 DEF CallOf, StageOf, d, g
<1>8. CallOf(j) \in AllCalls /\ StageOf(j) \in Stages /\ Fits(StageOf(j), CallOf(j))
      /\ g[j.call] = After(StageOf(j), CallOf(j))
  BY <1>5, <1>6, <1>7
<1>9. BufferOf(j)[j.byte] \in Nat
  <2>1. \A n \in 1..Len(Bytes(CallOf(j), d.arabic)) : Bytes(CallOf(j), d.arabic)[n] \in Nat
    BY <1>3, <1>8, BytesAre
  <2> QED  BY <1>1, <2>1 DEF BufferOf, d
<1> QED  BY <1>1, <1>2, <1>3, <1>8, <1>9, Zenon DEF Ready, d, g

\* Where the next byte leaves a job.
Onward(j, out, j2) ==
  /\ j2.doc = j.doc /\ j2.calls = j.calls /\ j2.clean = j.clean /\ j2.out = out
  /\ \/ /\ j.byte < Len(BufferOf(j)) /\ j2.at = "sending" /\ j2.call = j.call /\ j2.byte = j.byte + 1
     \/ /\ j.byte = Len(BufferOf(j)) /\ j.call < Len(j.calls)
        /\ j2.at = "sending" /\ j2.call = j.call + 1 /\ j2.byte = 1
     \/ /\ j.byte = Len(BufferOf(j)) /\ j.call = Len(j.calls)
        /\ j2.at = "printed" /\ j2.call = j.call + 1 /\ j2.byte = 1

\* NextByte takes a job there.
LEMMA NextByteIs ==
  ASSUME JobOK(job), job.at = "sending", NEW out \in Outs
  PROVE  Onward(job, out, NextByte(out)) /\ NextByte(out) \in Jobs
<1> DEFINE j2 == NextByte(out)
           n == Len(BufferOf(job))
           ends == job.byte = n
           at == IF ends /\ job.call = Len(job.calls) THEN "printed" ELSE "sending"
           call == IF ends THEN job.call + 1 ELSE job.call
           byte == IF ends THEN 1 ELSE job.byte + 1
<1>1. Buffer = BufferOf(job)  BY DEF Buffer, BufferOf, CallOf
<1>2. job \in Jobs /\ job.call \in Nat /\ job.byte \in Nat /\ job.calls \in Seq(AllCalls)  BY DEF JobOK, Jobs
<1>3. Ready(job)  BY SendingIsReady
<1>4. job.call \in 1..Len(job.calls) /\ job.byte \in 1..n  BY <1>3 DEF Ready
<1>5. n \in Nat /\ Len(job.calls) \in Nat
  <2>1. n \in Nat  BY <1>3, BytesAre DEF Ready, BufferOf
  <2> QED  BY <1>2, <2>1
<1>6. j2 = [job EXCEPT !.at = at, !.call = call, !.byte = byte, !.out = out]  BY <1>1 DEF NextByte
<1>7. job = [at |-> job.at, doc |-> job.doc, calls |-> job.calls, call |-> job.call, byte |-> job.byte,
             out |-> job.out, clean |-> job.clean]
  BY <1>2 DEF Jobs
<1>8. at \in {"idle", "sending", "printed"} /\ call \in Nat /\ byte \in Nat  BY <1>2
<1> HIDE DEF at, call, byte
<1>9. j2 = [at |-> at, doc |-> job.doc, calls |-> job.calls, call |-> call, byte |-> byte,
            out |-> out, clean |-> job.clean]
  BY <1>6, <1>7
<1> HIDE DEF j2
<1> SUFFICES Onward(job, out, j2) /\ j2 \in Jobs  BY DEF j2
<1>10. j2 \in Jobs
  <2>1. job.doc \in Documents \cup {NoDocument} /\ job.clean \in BOOLEAN  BY <1>2 DEF Jobs
  <2> QED  BY <1>2, <1>8, <1>9, <2>1 DEF Jobs
<1>11. j2.doc = job.doc /\ j2.calls = job.calls /\ j2.clean = job.clean /\ j2.out = out
       /\ j2.at = at /\ j2.call = call /\ j2.byte = byte
  BY <1>9
<1> HIDE DEF n
<1>12. CASE job.byte < n
  <2>1. at = "sending" /\ call = job.call /\ byte = job.byte + 1  BY <1>2, <1>5, <1>12 DEF at, call, byte
  <2> QED  BY <1>10, <1>11, <1>12, <2>1, Zenon DEF Onward, n
<1>13. CASE job.byte = n /\ job.call < Len(job.calls)
  <2>1. at = "sending" /\ call = job.call + 1 /\ byte = 1  BY <1>2, <1>5, <1>13 DEF at, call, byte
  <2> QED  BY <1>10, <1>11, <1>13, <2>1, Zenon DEF Onward, n
<1>14. CASE job.byte = n /\ job.call = Len(job.calls)
  <2>1. at = "printed" /\ call = job.call + 1 /\ byte = 1  BY <1>14 DEF at, call, byte
  <2> QED  BY <1>10, <1>11, <1>14, <2>1, Zenon DEF Onward, n
<1>15. job.byte < n \/ (job.byte = n /\ (job.call < Len(job.calls) \/ job.call = Len(job.calls)))
  BY <1>2, <1>4, <1>5 DEF n
<1> QED  BY <1>12, <1>13, <1>14, <1>15

\* A call begins with its first byte.
LEMMA FirstByte ==
  ASSUME NEW d \in Documents, NEW i \in 1..Len(Calls(d))
  PROVE  1 \in 1..Len(Bytes(Calls(d)[i], d.arabic))
<1>1. Calls(d)[i] \in AllCalls  BY StagingIs DEF Directs
<1>2. d.arabic \in BOOLEAN  BY DEF Documents
<1>3. Len(Bytes(Calls(d)[i], d.arabic)) \in Nat /\ Len(Bytes(Calls(d)[i], d.arabic)) >= 1
  BY <1>1, <1>2, BytesAre
<1> QED  BY <1>3

\* There, a job is where a document can be.
LEMMA OnwardIsOK ==
  ASSUME NEW j, JobOK(j), j.at = "sending", NEW out \in Outs, NEW j2 \in Jobs, Onward(j, out, j2)
  PROVE  JobOK(j2)
<1>1. Ready(j)  BY SendingIsReady
<1>2. /\ j.doc \in Documents /\ j.calls = Calls(j.doc) /\ j.call \in 1..Len(j.calls)
      /\ j.byte \in 1..Len(BufferOf(j)) /\ Len(j.calls) \in Nat
  BY <1>1 DEF Ready, Directs
<1>3. Len(BufferOf(j)) \in Nat  BY <1>1, BytesAre DEF Ready, BufferOf
<1>4. j2.doc = j.doc /\ j2.calls = j.calls  BY DEF Onward
<1>5. CASE j.byte < Len(BufferOf(j))
  <2>1. j2.at = "sending" /\ j2.call = j.call /\ j2.byte = j.byte + 1  BY <1>3, <1>5 DEF Onward
  <2>2. BufferOf(j2) = BufferOf(j)  BY <1>4, <2>1 DEF BufferOf, CallOf
  <2>3. j2.byte \in 1..Len(BufferOf(j2))  BY <1>2, <1>3, <1>5, <2>1, <2>2
  <2> QED  BY <1>2, <1>4, <2>1, <2>3 DEF JobOK
<1>6. CASE j.byte = Len(BufferOf(j)) /\ j.call < Len(j.calls)
  <2>1. j2.at = "sending" /\ j2.call = j.call + 1 /\ j2.byte = 1  BY <1>2, <1>3, <1>6 DEF Onward
  <2>2. j2.call \in 1..Len(j2.calls)  BY <1>2, <1>4, <1>6, <2>1
  <2>3. BufferOf(j2) = Bytes(Calls(j.doc)[j2.call], j.doc.arabic)  BY <1>2, <1>4 DEF BufferOf, CallOf
  <2>4. j2.byte \in 1..Len(BufferOf(j2))  BY <1>2, <1>4, <2>1, <2>2, <2>3, FirstByte
  <2> QED  BY <1>2, <1>4, <2>1, <2>2, <2>4 DEF JobOK
<1>7. CASE j.byte = Len(BufferOf(j)) /\ j.call = Len(j.calls)
  <2>1. j2.at = "printed" /\ j2.call = j.call + 1  BY <1>2, <1>3, <1>7 DEF Onward
  <2> QED  BY <1>2, <1>4, <1>7, <2>1 DEF JobOK
<1> QED  BY <1>2, <1>3, <1>5, <1>6, <1>7


\* The next call begins where the last one left the device.
LEMMA CallBegins ==
  ASSUME NEW c \in AllCalls, NEW ar, NEW a \in Stages, Fits(a, c), NEW p, p.pend = <<>>, a.begun = 1
         => p.line = <<>>
  PROVE  OnCall(c, ar, a, 1, p)
<1>1. c.do = "line" => a.begun = 1  BY DEF Fits
<1>2. \A x : SubSeq(x, 1, 1 - 1) = <<>>
  OBVIOUS
<1> QED  BY <1>1, <1>2 DEF OnCall

\* A byte taken keeps the paper right.
LEMMA PaperStep ==
  ASSUME NEW j, JobOK(j), j.at = "sending", NEW p, PaperOK(j, p), NEW s \in Devices,
         s.modes = p.modes, s.pend = p.pend, s.line = p.line, s.out = j.out,
         NEW s2 \in Devices, s2 = Takes(s, BufferOf(j)[j.byte]), NEW j2, Onward(j, s2.out, j2), JobOK(j2),
         NEW p2, p2.modes = s2.modes, p2.pend = s2.pend, p2.line = s2.line
  PROVE  PaperOK(j2, p2)
<1> DEFINE a == StageOf(j)
           c == CallOf(j)
           ar == j.doc.arabic
           last == Len(BufferOf(j))
<1> SUFFICES ASSUME j.clean PROVE PaperOK(j2, p2)  BY DEF PaperOK, Onward
<1>1. /\ c \in AllCalls /\ a \in Stages /\ Fits(a, c) /\ ar \in BOOLEAN /\ j.calls = Calls(j.doc)
      /\ Staging(j.doc)[j.call] = After(a, c) /\ j.call \in 1..Len(j.calls) /\ j.byte \in 1..last
          /\ j.doc \in Documents
      /\ j.call \in Nat /\ j.byte \in Nat
  BY SendingIsReady DEF Ready
<1>2. /\ j.out.cuts = a.tally.cuts /\ j.out.kicks = a.tally.kicks
      /\ CameOut(j.calls, ar, j.call - 1, j.out.lines)
      /\ (a.begun = 1 => p.modes = a.modes) /\ OnCall(c, ar, a, j.byte, p)
  BY DEF PaperOK
<1>3. OnCall(c, ar, a, j.byte, s)  BY <1>2 DEF OnCall
<1>4. BufferOf(j) = Bytes(c, ar)  BY DEF BufferOf
<1>5. last \in Nat  BY <1>1, <1>4, BytesAre
<1>6. OnPaper(c, ar, a, j.byte, s, s2, last)
  <2> HIDE DEF a, c, ar
  <2>1. j.byte \in 1..Len(Bytes(c, ar)) /\ s2 = Takes(s, Bytes(c, ar)[j.byte]) /\ last = Len(Bytes(c, ar))
    BY <1>1, <1>4
  <2>2. (a.begun = 1 => s.modes = a.modes) /\ s.out.cuts = a.tally.cuts /\ s.out.kicks = a.tally.kicks  BY <1>2
  <2>3. CASE c.do = "line"  BY <1>1, <1>3, <2>1, <2>2, <2>3, LineOnPaper
  <2>4. CASE c.do # "line"  BY <1>1, <1>3, <2>1, <2>2, <2>4, CommandOnPaper
  <2> QED  BY <2>3, <2>4
<1>7. j2.doc = j.doc /\ j2.calls = j.calls /\ j2.out = s2.out  BY DEF Onward
<1> HIDE DEF a, c, ar, last
<1>8. CASE j.byte < last
  <2>1. j2.at = "sending" /\ j2.call = j.call /\ j2.byte = j.byte + 1  BY <1>5, <1>8 DEF Onward, last
  <2>2. s2.modes = s.modes /\ s2.out = s.out /\ OnCall(c, ar, a, j.byte + 1, s2)
    BY <1>6, <1>8, Zenon DEF OnPaper
  <2>3. StageOf(j2) = a /\ CallOf(j2) = c /\ j2.doc.arabic = ar  BY <1>7, <2>1 DEF StageOf, CallOf, a, c, ar
  <2>4. OnCall(c, ar, a, j2.byte, p2)  BY <2>1, <2>2 DEF OnCall
  <2>5. a.begun = 1 => p2.modes = a.modes  BY <1>2, <2>2
  <2>6. j2.out = j.out  BY <1>7, <2>2
  <2> QED  BY <1>2, <1>7, <2>1, <2>3, <2>4, <2>5, <2>6 DEF PaperOK
<1>9. CASE j.byte = last
  <2>1. j2.call = j.call + 1 /\ j2.byte = 1 /\ j2.call - 1 = j.call  BY <1>1, <1>5, <1>9 DEF Onward, last
  <2> DEFINE e == After(a, c)
  <2>2. StageOf(j2) = e  BY <1>1, <1>7, <2>1 DEF StageOf
  <2>3. /\ s2.modes = e.modes /\ s2.pend = <<>> /\ s2.line = <<>>
        /\ s2.out.cuts = e.tally.cuts /\ s2.out.kicks = e.tally.kicks
        /\ IsSeen(c) => Paper(c, ar) \in Shots /\ s2.out.lines = Append(s.out.lines, Paper(c, ar))
        /\ ~IsSeen(c) => s2.out.lines = s.out.lines
    BY <1>6, <1>9, Zenon DEF OnPaper
  <2> HIDE DEF e
  <2>4. CameOut(j2.calls, ar, j.call, j2.out.lines)
    <3>1. c = j.calls[j.call] /\ j.call > 0  BY <1>1 DEF c, CallOf
    <3>2. s.out.lines \in Seq(Shots)  BY DEF Devices, Outs, Shots
    <3>3. CASE IsSeen(c)
      <4>1. Paper(c, ar) \in Shots /\ j2.out.lines = Append(j.out.lines, Paper(c, ar))  BY <1>7, <2>3, <3>3
      <4>2. \A q \in Shots : q = Paper(j.calls[j.call], ar)
            => CameOut(j.calls, ar, j.call, Append(j.out.lines, q))
        BY <1>1, <1>2, <3>1, <3>2, <3>3, MoreCameOut
      <4> QED  BY <1>7, <3>1, <4>1, <4>2
    <3>4. CASE ~IsSeen(c)
      <4>1. j2.out.lines = j.out.lines  BY <1>7, <2>3, <3>4
      <4>2. CameOut(j.calls, ar, j.call, j.out.lines)  BY <1>1, <1>2, <3>1, <3>2, <3>4, MoreCameOut
      <4> QED  BY <1>7, <4>1, <4>2
    <3> QED  BY <3>3, <3>4
  <2>5. j2.doc.arabic = ar  BY <1>7 DEF ar
  <2>6. j2.at = "sending" => OnCall(CallOf(j2), ar, e, 1, p2)
    <3> SUFFICES ASSUME j2.at = "sending" PROVE OnCall(CallOf(j2), ar, e, 1, p2)  OBVIOUS
    <3>1. CallOf(j2) \in AllCalls /\ StageOf(j2) \in Stages /\ Fits(StageOf(j2), CallOf(j2))
      BY SendingIsReady DEF Ready
    <3> QED  BY <2>2, <2>3, <3>1, CallBegins
  <2> QED  BY <2>1, <2>2, <2>3, <2>4, <2>5, <2>6, <1>7 DEF PaperOK
<1> QED  BY <1>1, <1>5, <1>8, <1>9


\* What is owed is a number: no document sends a pulse too many.
LEMMA OwedIsNat == ASSUME NEW j, JobOK(j) PROVE Owed(j) \in Nat
<1>1. CASE j.at # "sending"  BY <1>1 DEF Owed
<1>2. CASE j.at = "sending"
  <2>1. StageOf(j) \in Stages /\ Fits(StageOf(j), CallOf(j))  BY <1>2, SendingIsReady DEF Ready
  <2>2. StageOf(j).tally.owed \in Nat /\ (CallOf(j).do = "drawer" => StageOf(j).tally.owed > 0)
    BY <2>1 DEF Stages, Tallies, Fits
  <2> QED  BY <1>2, <2>2 DEF Owed
<1> QED  BY <1>1, <1>2

\* What a document owes falls with the 112 it sends, and no other byte.
LEMMA OwedFalls ==
  ASSUME NEW j, JobOK(j), j.at = "sending", NEW out, NEW j2, Onward(j, out, j2), JobOK(j2)
  PROVE  Owed(j2) + (IF BufferOf(j)[j.byte] = 112 THEN 1 ELSE 0) <= Owed(j)
<1> DEFINE a == StageOf(j)
           c == CallOf(j)
           b == BufferOf(j)[j.byte]
           last == Len(BufferOf(j))
<1>1. /\ c \in AllCalls /\ a \in Stages /\ Fits(a, c) /\ j.doc.arabic \in BOOLEAN
      /\ Staging(j.doc)[j.call] = After(a, c) /\ j.byte \in 1..last /\ j.call \in Nat /\ j.byte \in Nat
  BY SendingIsReady DEF Ready
<1>2. last \in Nat /\ (b = 112 <=> (c.do = "drawer" /\ j.byte = 2)) /\ (c.do = "drawer" => last = 5)
  <2>1. BufferOf(j) = Bytes(c, j.doc.arabic)  BY DEF BufferOf
  <2> HIDE DEF c
  <2> QED  BY <1>1, <2>1, BytesAre
<1>3. a.tally.owed \in Nat /\ (c.do = "drawer" => a.tally.owed > 0)  BY <1>1 DEF Stages, Tallies, Fits
<1>4. Owed(j) = (IF c.do = "drawer" /\ j.byte > 2 THEN a.tally.owed - 1 ELSE a.tally.owed)  BY DEF Owed
<1>5. j2.doc = j.doc /\ j2.calls = j.calls  BY DEF Onward
<1>6. After(a, c).tally.owed = (IF c.do = "drawer" THEN a.tally.owed - 1 ELSE a.tally.owed)
  <2> HIDE DEF a, c
  <2> QED  BY DEF After, AfterTally
<1>7. Owed(j2) \in Nat  BY OwedIsNat
<1> HIDE DEF a, c, b, last
<1>8. CASE j.byte < last
  <2>1. j2.at = "sending" /\ j2.call = j.call /\ j2.byte = j.byte + 1  BY <1>2, <1>8 DEF Onward, last
  <2>2. StageOf(j2) = a /\ CallOf(j2) = c  BY <1>5, <2>1 DEF StageOf, CallOf, a, c
  <2>3. Owed(j2) = (IF c.do = "drawer" /\ j.byte + 1 > 2 THEN a.tally.owed - 1 ELSE a.tally.owed)
    BY <2>1, <2>2 DEF Owed
  <2>4. Owed(j2) + (IF b = 112 THEN 1 ELSE 0) <= Owed(j)  BY <1>1, <1>2, <1>3, <1>4, <2>3
  <2> QED  BY <2>4 DEF b
<1>9. CASE j.byte = last
  <2>1. b # 112 /\ Owed(j) = (IF c.do = "drawer" THEN a.tally.owed - 1 ELSE a.tally.owed)  BY <1>2, <1>4, <1>9
  <2>2. j2.call - 1 = j.call /\ j2.byte = 1  BY <1>1, <1>2, <1>9 DEF Onward, last
  <2>3. StageOf(j2) = After(a, c)  BY <1>1, <1>5, <2>2 DEF StageOf
  <2>4. Owed(j2) <= After(a, c).tally.owed
    <3>1. CASE j2.at = "sending"
      <4>1. Owed(j2) = After(a, c).tally.owed  BY <2>2, <2>3, <3>1 DEF Owed
      <4> QED  BY <1>7, <4>1
    <3>2. CASE j2.at # "sending"
      <4>1. Owed(j2) = 0  BY <3>2 DEF Owed
      <4> QED  BY <1>3, <1>6, <4>1
    <3> QED  BY <3>1, <3>2
  <2>5. Owed(j2) + (IF b = 112 THEN 1 ELSE 0) <= Owed(j)  BY <1>3, <1>6, <1>7, <2>1, <2>4
  <2> QED  BY <2>5 DEF b
<1> QED  BY <1>1, <1>2, <1>8, <1>9

\* A byte taken keeps the drawer's account.
LEMMA DrawerStep ==
  ASSUME NEW j, JobOK(j), j.at = "sending", NEW p, NEW d, d.asked \in Nat, d.kicked \in Int, DrawerOK(j, p, d),
         NEW s \in Devices, s.pend = p.pend, s.out = j.out,
         NEW s2 \in Devices, s2 = Takes(s, BufferOf(j)[j.byte]), NEW j2, Onward(j, s2.out, j2), JobOK(j2),
         NEW p2, p2.pend = s2.pend, NEW d2, d2.asked = d.asked,
             d2.kicked = d.kicked + s2.out.kicks - j.out.kicks
  PROVE  DrawerOK(j2, p2, d2) /\ d2.kicked \in Int
<1> DEFINE b == BufferOf(j)[j.byte]
           u == IF b = 112 THEN 1 ELSE 0
<1>1. b \in Nat  BY SendingIsReady DEF Ready
<1>2. s2.out.kicks + Loaded(s2.pend) <= s.out.kicks + Loaded(s.pend) + u  BY <1>1, TakesTyped
<1>3. Owed(j2) + u <= Owed(j)  BY OwedFalls
<1>4. Owed(j) \in Nat /\ Owed(j2) \in Nat  BY OwedIsNat
<1>5. s2.out.kicks \in Nat /\ s.out.kicks \in Nat  BY DEF Devices, Outs
<1>6. Loaded(s2.pend) \in Nat /\ Loaded(s.pend) \in Nat /\ u \in Nat  BY DEF Loaded
<1>7. d.kicked + Loaded(p.pend) + Owed(j) <= d.asked  BY DEF DrawerOK
<1> HIDE DEF u, b
<1>8. d2.kicked + Loaded(p2.pend) + Owed(j2) <= d2.asked /\ d2.kicked \in Int
  BY <1>2, <1>3, <1>4, <1>5, <1>6, <1>7
<1> QED  BY <1>8 DEF DrawerOK

\* The next call begins where the last one left the console.
LEMMA ConsoleCallBegins ==
  ASSUME NEW c \in AllCalls, NEW a \in Stages, NEW k, AtCall(a, k) PROVE OnConsole(c, a, 1, k)
<1>1. Within(Bytes(c, FALSE), a, 1, k)  BY CommandBegins
<1>2. WithinLine(c, a, 1, k)  BY DEF WithinLine
<1> QED  BY <1>1, <1>2, Zenon DEF OnConsole

\* A byte more on the console: within a call, or at its end.
Console1(c, a, n, last, k, k2) ==
  /\ k2 \in Consoles
  /\ n < last => k2.shown = k.shown /\ OnConsole(c, a, n + 1, k2)
  /\ n = last => /\ AtCall(After(a, c), k2)
                 /\ IsFigure(c) => Cardinality(RowsOf(k2.shown)) = Cardinality(RowsOf(k.shown)) + 1
                 /\ ~IsFigure(c) => Cardinality(RowsOf(k2.shown)) = Cardinality(RowsOf(k.shown))

\* A byte more on the console does what the stages say.
LEMMA ConsoleByte ==
  ASSUME NEW a \in Stages, NEW c \in AllCalls, Fits(a, c), NEW n \in 1..Len(Bytes(c, FALSE)),
         NEW k \in Consoles,
         OnConsole(c, a, n, k)
  PROVE  Console1(c, a, n, Len(Bytes(c, FALSE)), k, Shows(k, Bytes(c, FALSE)[n]))
<1> DEFINE bs == Bytes(c, FALSE)
           last == Len(bs)
           k2 == Shows(k, bs[n])
<1>0. bs \in Seq(Nat) /\ last \in Nat  BY BytesAre
<1>1. CASE c.do = "line"
  <2>1. WithinLine(c, a, n, k)  BY <1>1 DEF OnConsole
  <2>2. LineOn(c, a, n, last, k, k2)  BY <1>1, <2>1, ConsoleLineByte
  <2> HIDE DEF last, k2
  <2>3. /\ k2 \in Consoles
        /\ n < last => k2.shown = k.shown /\ WithinLine(c, a, n + 1, k2)
        /\ n = last => LineShown(c, k, k2) /\ AtCall(After(a, c), k2)
    BY <2>2, Zenon DEF LineOn
  <2>4. n < last => OnConsole(c, a, n + 1, k2)  BY <1>1, <2>3 DEF OnConsole
  <2>5. n = last => /\ IsFigure(c) => Cardinality(RowsOf(k2.shown)) = Cardinality(RowsOf(k.shown)) + 1
                    /\ ~IsFigure(c) => Cardinality(RowsOf(k2.shown)) = Cardinality(RowsOf(k.shown))
    <3> SUFFICES ASSUME LineShown(c, k, k2)
                 PROVE  /\ IsFigure(c) => Cardinality(RowsOf(k2.shown)) = Cardinality(RowsOf(k.shown)) + 1
                        /\ ~IsFigure(c) => Cardinality(RowsOf(k2.shown)) = Cardinality(RowsOf(k.shown))
      BY <2>3
    <3>1. PICK l \in Seq(Nat) : /\ k2.shown = Append(k.shown, l)
                                /\ IsFigure(c) => l = Text("row", FALSE)
                                /\ ~IsFigure(c) => l # Text("row", FALSE)
      BY DEF LineShown
    <3>2. k.shown \in Seq(Seq(Nat))  BY DEF Consoles
    <3> QED  BY <3>1, <3>2, RowsOfMore
  <2>6. Console1(c, a, n, last, k, k2)  BY <2>3, <2>4, <2>5, Zenon DEF Console1
  <2> QED  BY <2>6 DEF last, k2
<1>2. CASE c.do # "line"
  <2>1. Within(bs, a, n, k) /\ Shaped(c, bs)  BY <1>2, CommandsAreShaped DEF OnConsole
  <2>2. n \in 1..Len(bs)  OBVIOUS
  <2>3. ~IsFigure(c)  BY <1>2 DEF IsFigure
  <2>9. bs = Bytes(c, FALSE)  OBVIOUS
  <2> HIDE DEF bs
  <2>4. k2 \in Consoles /\ k2.shown = k.shown /\ Within(bs, a, n + 1, k2)
    BY <1>2, <2>1, <2>2, ConsoleCommandByte
  <2> HIDE DEF last, k2
  <2>5. n < last => OnConsole(c, a, n + 1, k2)  BY <1>2, <2>4, <2>9 DEF OnConsole
  <2>6. n = last => AtCall(After(a, c), k2)  BY <1>2, <2>1, <2>4, CommandEnds DEF last
  <2>7. Console1(c, a, n, last, k, k2)  BY <2>3, <2>4, <2>5, <2>6, Zenon DEF Console1
  <2> QED  BY <2>7 DEF last, k2, bs
<1> QED  BY <1>1, <1>2

\* A byte shown keeps the figures counted.
LEMMA PreviewStep ==
  ASSUME NEW j, JobOK(j), j.at = "sending", NEW k \in Consoles, PreviewOK(j, k), j.doc.arabic = FALSE,
         NEW j2, Onward(j, j.out, j2), JobOK(j2), NEW k2, k2 = Shows(k, BufferOf(j)[j.byte])
  PROVE  PreviewOK(j2, k2) /\ k2 \in Consoles
<1> DEFINE a == StageOf(j)
           c == CallOf(j)
           last == Len(BufferOf(j))
<1>1. /\ c \in AllCalls /\ a \in Stages /\ Fits(a, c)
      /\ Staging(j.doc)[j.call] = After(a, c) /\ j.byte \in 1..last /\ j.call \in Nat /\ j.byte \in Nat
      /\ j.call \in 1..Len(j.calls)
  BY SendingIsReady DEF Ready
<1>2. /\ Cardinality(RowsOf(k.shown)) = Cardinality(Figures(j.calls, j.call - 1))
      /\ OnConsole(c, a, j.byte, k)
  BY DEF PreviewOK
<1>3. BufferOf(j) = Bytes(c, FALSE)  BY DEF BufferOf
<1>4. Console1(c, a, j.byte, last, k, k2) /\ last \in Nat
  <2> HIDE DEF a, c
  <2>1. j.byte \in 1..Len(Bytes(c, FALSE)) /\ k2 = Shows(k, Bytes(c, FALSE)[j.byte])  BY <1>1, <1>3
  <2>2. Console1(c, a, j.byte, Len(Bytes(c, FALSE)), k, k2)  BY <1>1, <1>2, <2>1, ConsoleByte
  <2>3. Len(Bytes(c, FALSE)) \in Nat  BY <1>1, BytesAre
  <2> QED  BY <1>3, <2>2, <2>3
<1>5. j2.doc = j.doc /\ j2.calls = j.calls /\ j2.doc.arabic = FALSE  BY DEF Onward
<1> HIDE DEF a, c, last
<1>6. k2 \in Consoles  BY <1>4 DEF Console1
<1>7. CASE j.byte < last
  <2>1. j2.at = "sending" /\ j2.call = j.call /\ j2.byte = j.byte + 1  BY <1>4, <1>7 DEF Onward, last
  <2>2. StageOf(j2) = a /\ CallOf(j2) = c  BY <1>5, <2>1 DEF StageOf, CallOf, a, c
  <2>3. k2.shown = k.shown /\ OnConsole(c, a, j.byte + 1, k2)  BY <1>4, <1>7, Zenon DEF Console1
  <2> QED  BY <1>2, <1>5, <1>6, <2>1, <2>2, <2>3 DEF PreviewOK
<1>8. CASE j.byte = last
  <2>1. j2.call - 1 = j.call /\ j2.byte = 1  BY <1>1, <1>4, <1>8 DEF Onward, last
  <2>2. StageOf(j2) = After(a, c)  BY <1>1, <1>5, <2>1 DEF StageOf
  <2>3. /\ AtCall(After(a, c), k2)
        /\ IsFigure(c) => Cardinality(RowsOf(k2.shown)) = Cardinality(RowsOf(k.shown)) + 1
        /\ ~IsFigure(c) => Cardinality(RowsOf(k2.shown)) = Cardinality(RowsOf(k.shown))
    BY <1>4, <1>8, Zenon DEF Console1
  <2>4. c = j.calls[j.call] /\ j.call > 0  BY <1>1 DEF c, CallOf
  <2>5. Cardinality(RowsOf(k2.shown)) = Cardinality(Figures(j.calls, j.call))
    BY <1>1, <1>2, <2>3, <2>4, SeenGrows
  <2>6. j2.at = "sending" => OnConsole(CallOf(j2), StageOf(j2), 1, k2)
    <3> SUFFICES ASSUME j2.at = "sending" PROVE OnConsole(CallOf(j2), StageOf(j2), 1, k2)  OBVIOUS
    <3>1. CallOf(j2) \in AllCalls /\ StageOf(j2) \in Stages  BY SendingIsReady DEF Ready
    <3> QED  BY <2>2, <2>3, <3>1, ConsoleCallBegins
  <2> QED  BY <1>5, <1>6, <2>1, <2>5, <2>6 DEF PreviewOK
<1> QED  BY <1>1, <1>4, <1>7, <1>8

\* Whatever the byte, the console stays one.
LEMMA ShowsTyped == ASSUME NEW k \in Consoles, NEW b \in Nat PROVE Shows(k, b) \in Consoles
<1>1. k.skip \in Nat /\ k.line \in Seq(Nat) /\ k.shown \in Seq(Seq(Nat))  BY DEF Consoles
<1>2. CASE k.skip > 0
  <2>1. Shows(k, b) = [k EXCEPT !.skip = k.skip - 1] /\ k.skip - 1 \in Nat  BY <1>1, <1>2 DEF Shows, Skips
  <2> QED  BY <2>1, ConsoleSets
<1>3. CASE ~(k.skip > 0) /\ b \in {ESC, GS}
  <2>1. Shows(k, b) = [k EXCEPT !.skip = IF b = ESC THEN 2 ELSE 3]  BY <1>3 DEF Shows, Skips
  <2>2. (IF b = ESC THEN 2 ELSE 3) \in Nat  OBVIOUS
  <2> QED  BY <2>1, <2>2, ConsoleSets
<1>4. CASE ~(k.skip > 0) /\ b \notin {ESC, GS} /\ b = LF
  <2>1. Shows(k, b) = [skip |-> 0, line |-> <<>>, shown |-> Append(k.shown, k.line)]  BY <1>4 DEF Shows, Skips
  <2>2. Append(k.shown, k.line) \in Seq(Seq(Nat))  BY <1>1
  <2> QED  BY <2>1, <2>2 DEF Consoles
<1>5. CASE ~(k.skip > 0) /\ b \notin {ESC, GS} /\ b # LF
  <2> DEFINE l == IF b \in 32..126 THEN Append(k.line, b) ELSE k.line
  <2>1. l \in Seq(Nat)  BY <1>1
  <2>2. Shows(k, b) = [k EXCEPT !.line = l]  BY <1>5 DEF Shows, Skips
  <2> HIDE DEF l
  <2> QED  BY <2>1, <2>2, ConsoleSets
<1> QED  BY <1>2, <1>3, <1>4, <1>5

\* A document begins with the device in any mode, and the console new.
LEMMA SendingBegins ==
  ASSUME NEW d \in Documents, NEW p \in Printers, NEW j,
         j = [at |-> "sending", doc |-> d, calls |-> Calls(d), call |-> 1, byte |-> 1, out |-> Nothing,
              clean |-> p.pend = <<>>]
  PROVE  /\ JobOK(j) /\ PaperOK(j, p) /\ PreviewOK(j, NoPreview)
         /\ Owed(j) = (IF Opens(d) THEN 1 ELSE 0)
<1> DEFINE a == Start(Due(d))
           c == Calls(d)[1]
<1>1. Directs(d, Staging(d))  BY StagingIs
<1>2. /\ Calls(d) \in Seq(AllCalls) /\ Len(Calls(d)) \in Nat /\ Len(Calls(d)) > 0 /\ Staging(d)[0] = a
      /\ Fits(Staging(d)[1 - 1], Calls(d)[1]) /\ Staging(d)[1 - 1] \in Stages
  BY <1>1 DEF Directs
<1>3. 1 \in 1..Len(Calls(d)) /\ 1 - 1 = 0  BY <1>2
<1>4. j.at = "sending" /\ j.doc = d /\ j.calls = Calls(d) /\ j.call = 1 /\ j.byte = 1 /\ j.out = Nothing
      /\ j.clean = (p.pend = <<>>)
  OBVIOUS
<1>5. StageOf(j) = a /\ CallOf(j) = c  BY <1>2, <1>3, <1>4 DEF StageOf, CallOf
<1>6. Fits(a, c) /\ a \in Stages /\ c \in AllCalls  BY <1>2, <1>3 DEF Fits
<1>7. /\ a.begun = 0 /\ a.skip = 0 /\ a.junk = 0 /\ a.tally.cuts = 0 /\ a.tally.kicks = 0
      /\ a.tally.owed = IF Opens(d) THEN 1 ELSE 0
  BY DEF Start, Due
<1>8. BufferOf(j) = Bytes(Calls(d)[1], d.arabic)  BY <1>4, <1>5 DEF BufferOf
<1> HIDE DEF a, c
<1>9. JobOK(j)
  <2>1. <<>> \in Seq([text : Seq(Nat), bold : Nat, size : Nat, align : Nat])  OBVIOUS
  <2>2. Nothing \in Outs  BY <2>1 DEF Nothing, Outs
  <2>3. (p.pend = <<>>) \in BOOLEAN  OBVIOUS
  <2>4. j \in Jobs  BY <1>2, <2>2, <2>3 DEF Jobs
  <2>5. 1 \in 1..Len(BufferOf(j))  BY <1>3, <1>8, FirstByte
  <2> QED  BY <1>3, <1>4, <2>4, <2>5 DEF JobOK
<1>10. PaperOK(j, p)
  <2>1. CameOut(j.calls, j.doc.arabic, 0, <<>>)
    <3>1. Seen(j.calls, 0) = {}  BY NothingYet
    <3>2. Len(<<>>) = Cardinality(Seen(j.calls, 0))  BY <3>1, FS_EmptySet
    <3> QED  BY <3>1, <3>2 DEF CameOut
  <2>2. p.pend = <<>> => OnCall(c, j.doc.arabic, a, 1, p)
    <3>1. a.begun = 1 => p.line = <<>>  BY <1>7
    <3> QED  BY <1>6, <3>1, CallBegins
  <2>3. Nothing.lines = <<>> /\ Nothing.cuts = 0 /\ Nothing.kicks = 0  BY DEF Nothing
  <2>4. j.clean => p.pend = <<>>  BY <1>4
  <2> QED  BY <1>3, <1>4, <1>5, <1>7, <2>1, <2>2, <2>3, <2>4 DEF PaperOK
<1>11. PreviewOK(j, NoPreview)
  <2>1. NoPreview.skip = 0 /\ NoPreview.line = <<>> /\ NoPreview.shown = <<>>  BY DEF NoPreview
  <2>2. AtCall(a, NoPreview)  BY <1>7, <2>1 DEF AtCall, Stray
  <2>3. OnConsole(c, a, 1, NoPreview)  BY <1>6, <2>2, ConsoleCallBegins
  <2>4. RowsOf(NoPreview.shown) = {}  BY <2>1 DEF RowsOf
  <2>5. Figures(j.calls, 0) = {}  BY NothingYet
  <2> QED  BY <1>3, <1>4, <1>5, <2>3, <2>4, <2>5 DEF PreviewOK
<1>12. Owed(j) = (IF Opens(d) THEN 1 ELSE 0)  BY <1>4, <1>5, <1>7 DEF Owed
<1> QED  BY <1>9, <1>10, <1>11, <1>12

\* No document is out: nothing is owed, nothing is claimed of the paper.
LEMMA UnsentIsOK ==
  /\ JobOK(Unsent) /\ Owed(Unsent) = 0 /\ Unsent.at = "idle"
  /\ \A p : PaperOK(Unsent, p)
  /\ \A k : PreviewOK(Unsent, k)
<1>1. <<>> \in Seq([text : Seq(Nat), bold : Nat, size : Nat, align : Nat])  OBVIOUS
<1>2. Nothing \in Outs  BY <1>1 DEF Nothing, Outs
<1>3. <<>> \in Seq(AllCalls)  OBVIOUS
<1>4. Unsent.at = "idle"  BY DEF Unsent
<1>5. Unsent \in Jobs
  <2>1. Unsent = [at |-> "idle", doc |-> NoDocument, calls |-> <<>>, call |-> 0, byte |-> 0,
          out |-> Nothing, clean |-> TRUE]
    BY DEF Unsent
  <2> QED  BY <1>2, <1>3, <2>1 DEF Jobs
<1>6. JobOK(Unsent)  BY <1>4, <1>5 DEF JobOK
<1>7. Owed(Unsent) = 0  BY <1>4 DEF Owed
<1> QED  BY <1>4, <1>6, <1>7 DEF PaperOK, PreviewOK


-----------------------------------------------------------------------------
(* The theorem.                                                            *)

\* PrintInv holds at the start.
LEMMA PrintBegins == PrintInit => PrintInv
<1> SUFFICES ASSUME PrintInit PROVE PrintInv  OBVIOUS
<1>1. /\ hasPrinter \in BOOLEAN /\ job = Unsent /\ console = NoPreview /\ drawer = [asked |-> 0, kicked |-> 0]
      /\ printer = [modes |-> Modes, pend |-> <<>>, line |-> <<>>]
  BY DEF PrintInit
<1>2. printer \in Printers
  <2>1. <<>> \in Seq(Nat)  OBVIOUS
  <2> QED  BY <1>1, <2>1 DEF Printers, Modes
<1>3. console \in Consoles
  <2>1. <<>> \in Seq(Nat) /\ <<>> \in Seq(Seq(Nat))  OBVIOUS
  <2> QED  BY <1>1, <2>1 DEF Consoles, NoPreview
<1>4. drawer \in [asked : Nat, kicked : Int] /\ drawer.asked = 0 /\ drawer.kicked = 0  BY <1>1
<1>5. PrintTypes  BY <1>1, <1>2, <1>3, <1>4, UnsentIsOK DEF PrintTypes
<1>6. Loaded(printer.pend) = 0
  <2>1. Len(printer.pend) = 0  BY <1>1
  <2> QED  BY <2>1 DEF Loaded
<1>7. DrawerOK(job, printer, drawer)  BY <1>1, <1>4, <1>6, UnsentIsOK DEF DrawerOK
<1> QED  BY <1>1, <1>4, <1>5, <1>7, UnsentIsOK DEF PrintInv

\* Each action keeps it.
LEMMA SendToPrinterKeeps ==
  ASSUME PrintInv, NEW d \in Documents, SendToPrinter(d) PROVE PrintInv'
<1>1. hasPrinter \in BOOLEAN /\ JobOK(job) /\ printer \in Printers /\ drawer \in [asked : Nat, kicked : Int]
  BY DEF PrintInv, PrintTypes
<1>2. /\ job' = [at |-> "sending", doc |-> d, calls |-> Calls(d), call |-> 1, byte |-> 1, out |-> Nothing,
                 clean |-> printer.pend = <<>>]
      /\ drawer' = [drawer EXCEPT !.asked = @ + IF Opens(d) THEN 1 ELSE 0]
      /\ console' = NoPreview /\ hasPrinter' = hasPrinter /\ printer' = printer
  BY DEF SendToPrinter
<1>3. /\ JobOK(job') /\ PaperOK(job', printer) /\ PreviewOK(job', NoPreview)
      /\ Owed(job') = (IF Opens(d) THEN 1 ELSE 0)
  <2> DEFINE j == job'
  <2>1. j = [at |-> "sending", doc |-> d, calls |-> Calls(d), call |-> 1, byte |-> 1, out |-> Nothing,
             clean |-> printer.pend = <<>>]
    BY <1>2
  <2> HIDE DEF j
  <2>2. JobOK(j) /\ PaperOK(j, printer) /\ PreviewOK(j, NoPreview) /\ Owed(j) = (IF Opens(d) THEN 1 ELSE 0)
    BY <1>1, <2>1, SendingBegins
  <2> QED  BY <2>2 DEF j
<1>4. /\ drawer' \in [asked : Nat, kicked : Int] /\ drawer'.kicked = drawer.kicked
      /\ drawer'.asked = drawer.asked + (IF Opens(d) THEN 1 ELSE 0)
  BY <1>1, <1>2
<1>5. NoPreview \in Consoles
  <2>1. <<>> \in Seq(Nat) /\ <<>> \in Seq(Seq(Nat))  OBVIOUS
  <2> QED  BY <2>1 DEF Consoles, NoPreview
<1>6. PrintTypes'  BY <1>1, <1>2, <1>3, <1>4, <1>5 DEF PrintTypes
<1>7. ASSUME hasPrinter PROVE DrawerOK(job', printer, drawer')
  <2>1. drawer.kicked + Loaded(printer.pend) + Owed(job) <= drawer.asked  BY <1>7 DEF PrintInv, DrawerOK
  <2>2. Owed(job) \in Nat  BY <1>1, OwedIsNat
  <2>3. Loaded(printer.pend) \in Nat  BY DEF Loaded
  <2> QED  BY <1>1, <1>3, <1>4, <2>1, <2>2, <2>3 DEF DrawerOK
<1>8. hasPrinter' => PaperOK(job', printer') /\ DrawerOK(job', printer', drawer')  BY <1>2, <1>3, <1>7
<1>9. ~hasPrinter' => PreviewOK(job', console') /\ drawer'.kicked = 0  BY <1>2, <1>3, <1>4 DEF PrintInv
<1> QED  BY <1>6, <1>8, <1>9 DEF PrintInv

LEMMA WriteAllKeeps == ASSUME PrintInv, WriteAll PROVE PrintInv'
<1> DEFINE s == [modes |-> printer.modes, pend |-> printer.pend, line |-> printer.line, out |-> job.out]
           s2 == Takes(s, Buffer[job.byte])
<1>1. hasPrinter \in BOOLEAN /\ JobOK(job) /\ printer \in Printers /\ drawer \in [asked : Nat, kicked : Int]
      /\ console \in Consoles
  BY DEF PrintInv, PrintTypes
<1>2. /\ job.at = "sending" /\ hasPrinter = TRUE /\ hasPrinter' = hasPrinter /\ console' = console
      /\ job' = NextByte(s2.out) /\ printer' = [modes |-> s2.modes, pend |-> s2.pend, line |-> s2.line]
      /\ drawer' = [drawer EXCEPT !.kicked = @ + s2.out.kicks - job.out.kicks]
  BY DEF WriteAll, Sends
<1>3. PaperOK(job, printer) /\ DrawerOK(job, printer, drawer)  BY <1>2 DEF PrintInv
<1>4. Buffer = BufferOf(job)  BY DEF Buffer, BufferOf, CallOf
<1>5. BufferOf(job)[job.byte] \in Nat /\ job.out \in Outs  BY <1>1, <1>2, SendingIsReady DEF Ready
<1>6. s \in Devices /\ s.modes = printer.modes /\ s.pend = printer.pend /\ s.line = printer.line
      /\ s.out = job.out
  BY <1>1, <1>5 DEF Printers, Devices
<1>7. s2 = Takes(s, BufferOf(job)[job.byte])  BY <1>4
<1> HIDE DEF s, s2
<1>8. s2 \in Devices  BY <1>5, <1>6, <1>7, TakesTyped
<1>9. s2.out \in Outs /\ s2.modes \in [bold : Nat, size : Nat, align : Nat] /\ s2.pend \in Seq(Nat)
      /\ s2.line \in Seq(Nat)
  BY <1>8 DEF Devices
<1>10. Onward(job, s2.out, job') /\ job' \in Jobs  BY <1>1, <1>2, <1>9, NextByteIs
<1>11. JobOK(job')  BY <1>1, <1>2, <1>9, <1>10, OnwardIsOK
<1>12. printer' \in Printers /\ printer'.modes = s2.modes /\ printer'.pend = s2.pend /\ printer'.line = s2.line
  BY <1>2, <1>9 DEF Printers
<1>13. PaperOK(job', printer')  BY <1>1, <1>2, <1>3, <1>6, <1>7, <1>8, <1>10, <1>11, <1>12, PaperStep
<1>14. drawer.asked \in Nat /\ drawer.kicked \in Int /\ s2.out.kicks \in Nat /\ job.out.kicks \in Nat
  BY <1>1, <1>5, <1>9 DEF Outs
<1>15. /\ drawer'.asked = drawer.asked /\ drawer'.kicked = drawer.kicked + s2.out.kicks - job.out.kicks
       /\ drawer' \in [asked : Nat, kicked : Int]
  BY <1>1, <1>2, <1>14
<1>16. DrawerOK(job', printer', drawer')
  BY <1>1, <1>2, <1>3, <1>6, <1>7, <1>8, <1>10, <1>11, <1>12, <1>14, <1>15, DrawerStep
<1>17. PrintTypes'  BY <1>1, <1>2, <1>11, <1>12, <1>15 DEF PrintTypes
<1> QED  BY <1>2, <1>13, <1>16, <1>17 DEF PrintInv

LEMMA WriteFailsKeeps == ASSUME PrintInv, WriteFails PROVE PrintInv'
<1>1. /\ job.at = "sending" /\ hasPrinter = TRUE /\ hasPrinter' = hasPrinter /\ console' = console
      /\ job' = Unsent /\ printer' = printer /\ drawer' = drawer
  BY DEF WriteFails, Sends
<1>2. PrintTypes'  BY <1>1, UnsentIsOK DEF PrintInv, PrintTypes
<1>3. DrawerOK(Unsent, printer, drawer)
  <2>1. drawer.kicked + Loaded(printer.pend) + Owed(job) <= drawer.asked  BY <1>1 DEF PrintInv, DrawerOK
  <2>2. Owed(job) \in Nat  BY OwedIsNat DEF PrintInv, PrintTypes
  <2>3. Loaded(printer.pend) \in Nat  BY DEF Loaded
  <2>4. drawer.asked \in Nat /\ drawer.kicked \in Int  BY DEF PrintInv, PrintTypes
  <2> QED  BY <2>1, <2>2, <2>3, <2>4, UnsentIsOK DEF DrawerOK
<1> QED  BY <1>1, <1>2, <1>3, UnsentIsOK DEF PrintInv

LEMMA PrintToConsoleKeeps == ASSUME PrintInv, PrintToConsole PROVE PrintInv'
<1>1. hasPrinter \in BOOLEAN /\ JobOK(job) /\ printer \in Printers /\ drawer \in [asked : Nat, kicked : Int]
      /\ console \in Consoles
  BY DEF PrintInv, PrintTypes
<1>2. /\ job.at = "sending" /\ hasPrinter = FALSE /\ hasPrinter' = hasPrinter /\ printer' = printer
      /\ drawer' = drawer /\ job' = NextByte(job.out) /\ console' = Shows(console, Buffer[job.byte])
  BY DEF PrintToConsole, Sends
<1>3. PreviewOK(job, console) /\ drawer.kicked = 0  BY <1>2 DEF PrintInv
<1>4. Buffer = BufferOf(job)  BY DEF Buffer, BufferOf, CallOf
<1>5. BufferOf(job)[job.byte] \in Nat /\ job.out \in Outs  BY <1>1, <1>2, SendingIsReady DEF Ready
<1>6. Onward(job, job.out, job') /\ job' \in Jobs  BY <1>1, <1>2, <1>5, NextByteIs
<1>7. JobOK(job')  BY <1>1, <1>2, <1>5, <1>6, OnwardIsOK
<1>8. console' = Shows(console, BufferOf(job)[job.byte])  BY <1>2, <1>4
<1>9. console' \in Consoles  BY <1>1, <1>5, <1>8, ShowsTyped
<1>10. job'.doc = job.doc  BY <1>6 DEF Onward
<1>11. PreviewOK(job', console')
  <2>1. CASE job.doc.arabic = FALSE  BY <1>1, <1>2, <1>3, <1>6, <1>7, <1>8, <2>1, PreviewStep
  <2>2. CASE job.doc.arabic # FALSE  BY <1>10, <2>2 DEF PreviewOK
  <2> QED  BY <2>1, <2>2
<1>12. PrintTypes'  BY <1>1, <1>2, <1>7, <1>9 DEF PrintTypes
<1> QED  BY <1>2, <1>3, <1>11, <1>12 DEF PrintInv

LEMMA PrintStutters == ASSUME PrintInv, UNCHANGED printVars PROVE PrintInv'
<1>1. hasPrinter' = hasPrinter /\ job' = job /\ printer' = printer /\ console' = console /\ drawer' = drawer
  BY DEF printVars
<1> QED  BY <1>1 DEF PrintInv, PrintTypes

\* Printed, a document is at its last stage, with its cuts and pulses made.
LEMMA PrintedIs ==
  ASSUME NEW j, JobOK(j), j.at = "printed"
  PROVE  /\ j.call - 1 = Len(j.calls) /\ j.doc \in Documents
         /\ StageOf(j).tally.cuts = (IF j.doc.kind = "drawer" THEN 0 ELSE 1)
         /\ StageOf(j).tally.kicks = (IF Opens(j.doc) THEN 1 ELSE 0)
<1>1. j.doc \in Documents /\ j.calls = Calls(j.doc) /\ j.call = Len(j.calls) + 1  BY DEF JobOK
<1>2. Directs(j.doc, Staging(j.doc))  BY <1>1, StagingIs
<1>3. /\ Len(Calls(j.doc)) \in Nat
      /\ Staging(j.doc)[Len(Calls(j.doc))].tally.cuts = (IF j.doc.kind = "drawer" THEN 0 ELSE 1)
      /\ Staging(j.doc)[Len(Calls(j.doc))].tally.kicks = (IF Opens(j.doc) THEN 1 ELSE 0)
  BY <1>2 DEF Directs
<1>4. j.call - 1 = Len(Calls(j.doc))  BY <1>1, <1>3
<1>5. StageOf(j) = Staging(j.doc)[Len(Calls(j.doc))]  BY <1>4 DEF StageOf
<1> QED  BY <1>1, <1>3, <1>4, <1>5

\* PrintInv says what is printed is what was built.
LEMMA InvIsTrue == PrintInv => PaperIsTrue
<1> SUFFICES ASSUME PrintInv PROVE PaperIsTrue  OBVIOUS
<1>1. hasPrinter \in BOOLEAN /\ JobOK(job) /\ drawer \in [asked : Nat, kicked : Int]
  BY DEF PrintInv, PrintTypes
<1>2. PrintsAsBuilt
  <2> SUFFICES ASSUME hasPrinter, job.at = "printed", job.clean
               PROVE  /\ CameOut(job.calls, job.doc.arabic, Len(job.calls), job.out.lines)
                      /\ job.out.cuts = (IF job.doc.kind = "drawer" THEN 0 ELSE 1)
                      /\ job.out.kicks = (IF Opens(job.doc) THEN 1 ELSE 0)
    BY DEF PrintsAsBuilt
  <2>1. /\ job.out.cuts = StageOf(job).tally.cuts /\ job.out.kicks = StageOf(job).tally.kicks
        /\ CameOut(job.calls, job.doc.arabic, job.call - 1, job.out.lines)
    BY DEF PrintInv, PaperOK
  <2> QED  BY <1>1, <2>1, PrintedIs
<1>3. DrawerWasAsked
  <2>1. CASE hasPrinter
    <3>1. drawer.kicked + Loaded(printer.pend) + Owed(job) <= drawer.asked  BY <2>1 DEF PrintInv, DrawerOK
    <3>2. Owed(job) \in Nat /\ Loaded(printer.pend) \in Nat  BY <1>1, OwedIsNat DEF Loaded
    <3>3. drawer.asked \in Nat /\ drawer.kicked \in Int  BY <1>1
    <3> QED  BY <3>1, <3>2, <3>3 DEF DrawerWasAsked
  <2>2. CASE ~hasPrinter
    <3>1. drawer.kicked = 0 /\ drawer.asked \in Nat  BY <1>1, <2>2 DEF PrintInv
    <3> QED  BY <3>1 DEF DrawerWasAsked
  <2> QED  BY <2>1, <2>2
<1>4. PreviewShowsTheFigures
  <2> SUFFICES ASSUME ~hasPrinter, job.at = "printed", ~job.doc.arabic
               PROVE  Cardinality(ShownFigures) = Cardinality(Figures(job.calls, Len(job.calls)))
    BY DEF PreviewShowsTheFigures
  <2>1. job.call - 1 = Len(job.calls) /\ job.doc \in Documents  BY <1>1, PrintedIs
  <2>2. job.doc.arabic \in BOOLEAN  BY <2>1 DEF Documents
  <2>3. job.doc.arabic = FALSE  BY <2>2
  <2>4. Cardinality(RowsOf(console.shown)) = Cardinality(Figures(job.calls, job.call - 1))
    BY <2>3 DEF PrintInv, PreviewOK
  <2>5. ShownFigures = RowsOf(console.shown)  BY Zenon DEF ShownFigures, RowsOf
  <2> QED  BY <2>1, <2>4, <2>5
<1> QED  BY <1>2, <1>3, <1>4 DEF PaperIsTrue

\* PaperIsTrue holds of every run of Printing, for every Bought, Tendered and MaxPrints:
\* a document printed by PrintService comes out of EscPos and the device as it was
\* built, the drawer opens no more often than it was asked to, and print_to_console
\* shows every figure of a document without Arabic.
THEOREM PaperTrueAlways == PrintSpec => []PaperIsTrue
<1>1. PrintInit => PrintInv  BY PrintBegins
<1>2. PrintInv /\ [PrintNext]_printVars => PrintInv'
  <2> SUFFICES ASSUME PrintInv, [PrintNext]_printVars PROVE PrintInv'  OBVIOUS
  <2>1. ASSUME NEW d \in Documents, SendToPrinter(d) PROVE PrintInv'  BY <2>1, SendToPrinterKeeps
  <2>2. CASE WriteAll  BY <2>2, WriteAllKeeps
  <2>3. CASE WriteFails  BY <2>3, WriteFailsKeeps
  <2>4. CASE PrintToConsole  BY <2>4, PrintToConsoleKeeps
  <2>5. CASE UNCHANGED printVars  BY <2>5, PrintStutters
  <2> QED  BY <2>1, <2>2, <2>3, <2>4, <2>5 DEF PrintNext
<1>3. PrintInv => PaperIsTrue  BY InvIsTrue
<1> QED  BY <1>1, <1>2, <1>3, PTL DEF PrintSpec
=============================================================================
