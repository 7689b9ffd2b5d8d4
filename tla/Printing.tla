------------------------------ MODULE Printing ------------------------------
(***************************************************************************)
(* What a till prints: the documents of PrintService as the calls they     *)
(* make on the EscPos builder, the bytes those become, their way into the  *)
(* printer's device file, whole or torn, and the console that stands in    *)
(* for a printer.                                                          *)
(*                                                                         *)
(* A line of text is one word and, in two columns, its figure.  An Arabic  *)
(* word is the two bytes UTF-8 has for its letter.                         *)
(***************************************************************************)
EXTENDS Integers, Sequences, FiniteSets

CONSTANTS
  Bought,      \* items on a receipt
  Tendered,    \* payments on it
  MaxPrints    \* bound on documents printed or shown

ASSUME ReceiptAssumption == Bought \in Nat /\ Tendered \in Nat

VARIABLES
  hasPrinter,  \* whether a device is configured
  job,         \* the document being sent, the call and its byte to come, and what came out
  printer,     \* the device: its modes, an unfinished command, the line being set
  console,     \* the console: bytes still to skip, the line being set, the lines shown
  drawer,      \* pulses asked of the device, and sent by it
  sentOff

printVars == <<hasPrinter, job, printer, console, drawer, sentOff>>

ESC == 27
GS  == 29
LF  == 10

Call(what, n) == [do |-> what, n |-> n, as |-> "nothing"]
Line(as)      == [do |-> "line", n |-> 0, as |-> as]
Rows(n)       == [i \in 1..n |-> Line("row")]
Bold(lines)   == <<Call("bold", 1)>> \o lines \o <<Call("bold", 0)>>
When(c, doing) == IF c THEN doing ELSE <<>>

-----------------------------------------------------------------------------
(* The documents: whether in Arabic, whether with the lines that are only  *)
(* sometimes there, and the codes of a receipt.                            *)

Documents ==
  [kind : {"receipt"}, arabic : BOOLEAN, full : BOOLEAN, codes : SUBSET {"barcode", "qr"}]
    \cup [kind : {"X", "Z"}, arabic : BOOLEAN, full : BOOLEAN, codes : {{}}]
    \cup [kind : {"drawer", "test"}, arabic : {FALSE}, full : {FALSE}, codes : {{}}]

SlipStartsBare(d) == When(d.arabic, <<Call("page", 23)>>)

Starts(d) == <<Call("init", 0)>> \o When(d.arabic, <<Call("page", 23)>>)
Title      == <<Call("align", 1), Call("size", 17), Call("bold", 1), Line("title"), Call("size", 0)>>
Blank      == <<Line("blank")>>
Rule       == <<Line("rule")>>
Left       == <<Call("align", 0)>>
Ending(n)  == <<Call("feed", n), Call("cut", 0)>>
BarCode    == <<Call("height", 60), Call("width", 3), Call("below", 2), Call("barcode", 0)>>
QrCode     == <<Call("qr model", 0), Call("qr size", 5), Call("qr level", 49), Call("qr store", 48),
                Call("qr print", 48)>>

Header(d) == Title \o <<Call("bold", 0), Line("centred")>> \o When(d.full, <<Line("centred"), Line("centred")>>)
             \o Blank \o Left \o Rule
Info(d)   == Rows(3) \o When(d.full, Rows(2)) \o Rule
Item(d)   == <<"text", "row">> \o When(d.full, <<"row">>)
Items(d)  == [i \in 1..(Bought * Len(Item(d))) |-> Line(Item(d)[((i - 1) % Len(Item(d))) + 1])] \o Rule
Totals(d) == Rows(1) \o When(d.full, Rows(1)) \o Rows(1) \o Bold(<<Line("total")>>) \o Blank
Payments(d) == <<Line("text")>> \o Rows(Tendered) \o When(d.full, Bold(<<Line("total")>>)) \o Blank
Footer(d) == Rule \o <<Call("align", 1)>> \o When(d.full \/ ~d.arabic, <<Line("centred")>>) \o Blank
             \o When("barcode" \in d.codes, BarCode \o Blank) \o When("qr" \in d.codes, QrCode \o Blank)
             \o <<Line("centred")>> \o Ending(3) \o <<Call("drawer", 0)>>

Receipt(d) == Starts(d) \o Header(d) \o Info(d) \o Items(d) \o Totals(d) \o Payments(d) \o Footer(d)

\* build_x_report.
XHead(d)    == Title \o <<Line("heading"), Call("bold", 0)>> \o Blank \o Left \o Rule
               \o Rows(3) \o When(d.full, Rows(1)) \o Rule
XSales      == Rows(4) \o Bold(<<Line("total")>>) \o Rule
XMoney      == <<Line("text")>> \o Rows(4) \o Rule \o <<Line("text")>> \o Rows(2)
XFoot(d)    == When(d.full, Rule \o Rows(2)) \o Blank \o <<Call("align", 1), Line("centred")>> \o Ending(3)
XReport(d)  == Starts(d) \o XHead(d) \o XSales \o XMoney \o XFoot(d)

\* build_z_report.
Section      == <<Call("bold", 1), Call("align", 1), Line("heading"), Call("bold", 0)>> \o Left
ZHead(d)     == Title \o <<Call("bold", 0)>> \o Blank \o When(d.full \/ ~d.arabic, <<Line("centred")>>) \o Blank
                \o Left \o Rule \o Rows(3) \o When(d.full, Rows(2)) \o Rule
ZSales       == Section \o Rows(4) \o Rule \o Bold(<<Line("total")>>) \o Rule
ZMoney(d)    == Section \o Rows(4) \o Rule \o Section \o Rows(2)
                \o When(d.full, Rows(1) \o Bold(<<Line("total")>>))
ZFoot(d)     == When(d.full, Rule \o Section \o Rows(2)) \o Rule \o Blank \o <<Call("align", 1)>>
                \o Bold(<<Line("heading")>>) \o Blank \o <<Line("centred")>> \o Ending(4)
ZReport(d)   == Starts(d) \o ZHead(d) \o ZSales \o ZMoney(d) \o ZFoot(d)

TestPrint(d) == Starts(d) \o Title \o <<Call("bold", 0), Line("centred")>> \o Blank
                \o BarCode \o Ending(3)

Calls(d) ==
  CASE d.kind = "receipt" -> Receipt(d) [] d.kind = "X" -> XReport(d) [] d.kind = "Z" -> ZReport(d)
    [] d.kind = "test" -> TestPrint(d) [] d.kind = "drawer" -> Starts(d) \o <<Call("drawer", 0)>>

-----------------------------------------------------------------------------
(* EscPos: the bytes of a call.                                            *)

Word(arabic) == IF arabic THEN <<216, 169>> ELSE <<65>>
CodeData     == <<82>>

Text(as, arabic) ==
  CASE as = "blank" -> <<>>
    [] as = "rule" -> <<45>>
    [] as \in {"row", "total"} -> Word(arabic) \o <<32, 48>>
    [] OTHER -> Word(arabic)

QrPart(function, data) == <<GS, 40, 107, Len(data) + 2, 0, 49, function>> \o data

Bytes(c, arabic) ==
  CASE c.do = "line"  -> Append(Text(c.as, arabic), LF)
    [] c.do = "init"  -> <<ESC, 64>>
    [] c.do = "page"  -> <<ESC, 116, c.n>>
    [] c.do = "align" -> <<ESC, 97, c.n>>
    [] c.do = "size"  -> <<GS, 33, c.n>>
    [] c.do = "bold"  -> <<ESC, 69, c.n>>
    [] c.do = "feed"  -> <<ESC, 100, c.n>>
    [] c.do = "cut"   -> <<GS, 86, 0>>
    [] c.do = "drawer" -> <<ESC, 112, 0, 25, 250>>
    [] c.do = "height" -> <<GS, 104, c.n>>
    [] c.do = "width" -> <<GS, 119, c.n>>
    [] c.do = "below" -> <<GS, 72, c.n>>
    [] c.do = "barcode" -> <<GS, 107, 73, Len(CodeData)>> \o CodeData
    [] c.do = "qr model" -> QrPart(65, <<50, 0>>)
    [] c.do = "qr size"  -> QrPart(67, <<c.n>>)
    [] c.do = "qr level" -> QrPart(69, <<c.n>>)
    [] c.do = "qr store" -> QrPart(80, <<c.n>> \o CodeData)
    [] c.do = "qr print" -> QrPart(81, <<c.n>>)

-----------------------------------------------------------------------------
(* The printer, as the builder's comments describe its commands.           *)

Modes   == [bold |-> 0, size |-> 0, align |-> 0]
Nothing == [lines |-> <<>>, cuts |-> 0, kicks |-> 0]

\* The length of the command that begins with p, as far as p tells it.
Wanted(p) ==
  IF Len(p) < 2 THEN 2
  ELSE IF p[1] = ESC THEN IF p[2] = 112 THEN 5 ELSE IF p[2] \in {97, 69, 116, 100} THEN 3 ELSE 2
  ELSE IF p[2] = 107 THEN IF Len(p) < 4 THEN 4 ELSE 4 + p[4]
  ELSE IF p[2] = 40 THEN IF Len(p) < 5 THEN 5 ELSE 5 + p[4] + 256 * p[5]
  ELSE 3

Set(m, line) == [text |-> line, bold |-> m.bold, size |-> m.size, align |-> m.align]

Obeys(s, p) ==
  LET is(a, b) == p[1] = a /\ p[2] = b
      sets(a, b, mode) == IF is(a, b) THEN p[3] ELSE mode
      prints == IF is(GS, 107) THEN <<Set(s.modes, SubSeq(p, 5, Len(p)))>>
                ELSE IF is(GS, 40) /\ Len(p) > 6 /\ p[7] = 81 THEN <<Set(s.modes, CodeData)>> ELSE <<>> IN
  [modes |-> IF is(ESC, 64) THEN Modes
             ELSE [bold |-> sets(ESC, 69, s.modes.bold), size |-> sets(GS, 33, s.modes.size),
                   align |-> sets(ESC, 97, s.modes.align)],
   pend |-> <<>>, line |-> IF is(ESC, 64) THEN <<>> ELSE s.line,
   out |-> [lines |-> s.out.lines \o prints, cuts |-> s.out.cuts + IF is(GS, 86) THEN 1 ELSE 0,
            kicks |-> s.out.kicks + IF is(ESC, 112) THEN 1 ELSE 0]]

EndsLine(s) ==
  [modes |-> s.modes, pend |-> s.pend, line |-> <<>>,
   out |-> [s.out EXCEPT !.lines = IF s.line = <<>> THEN @ ELSE Append(@, Set(s.modes, s.line))]]

\* One byte more: of a command, of a line, or the end of one.
Takes(s, b) ==
  LET p == Append(s.pend, b) IN
  IF s.pend # <<>> \/ b \in {ESC, GS}
  THEN IF Len(p) < Wanted(p) THEN [s EXCEPT !.pend = p] ELSE Obeys(s, p)
  ELSE IF b = LF THEN EndsLine(s) ELSE [s EXCEPT !.line = Append(@, b)]

-----------------------------------------------------------------------------
(* On the way to it.                                                       *)

NoDocument == [kind |-> "none", arabic |-> FALSE, full |-> FALSE, codes |-> {}]
Unsent     == [at |-> "idle", doc |-> NoDocument, calls |-> <<>>, call |-> 0, byte |-> 0,
               out |-> Nothing, clean |-> TRUE]
NoPreview  == [skip |-> 0, line |-> <<>>, shown |-> <<>>]
Opens(d)   == d.kind \in {"receipt", "drawer"}

\* A document is built and sent, to a device in whatever state the last one left it.
SendToPrinter(d) ==
  /\ job.at # "sending" /\ sentOff < MaxPrints /\ sentOff' = sentOff + 1
  /\ job' = [at |-> "sending", doc |-> d, calls |-> Calls(d), call |-> 1, byte |-> 1,
             out |-> Nothing, clean |-> printer.pend = <<>>]
  /\ drawer' = [drawer EXCEPT !.asked = @ + IF Opens(d) THEN 1 ELSE 0]
  /\ console' = NoPreview /\ UNCHANGED <<hasPrinter, printer>>

Sends(to) == job.at = "sending" /\ hasPrinter = to /\ UNCHANGED <<hasPrinter, sentOff>>

\* The buffer, call by call: the byte to come of it, and where the next is.
Buffer == Bytes(job.calls[job.call], job.doc.arabic)
NextByte(out) ==
  [job EXCEPT !.at = IF job.byte = Len(Buffer) /\ job.call = Len(job.calls) THEN "printed" ELSE @,
              !.call = IF job.byte = Len(Buffer) THEN @ + 1 ELSE @,
              !.byte = IF job.byte = Len(Buffer) THEN 1 ELSE @ + 1, !.out = out]

\* write_all, a byte at a time.
WriteAll ==
  /\ Sends(TRUE) /\ UNCHANGED console
  /\ LET s == Takes([modes |-> printer.modes, pend |-> printer.pend, line |-> printer.line,
                     out |-> job.out], Buffer[job.byte]) IN
     /\ job' = NextByte(s.out)
     /\ printer' = [modes |-> s.modes, pend |-> s.pend, line |-> s.line]
     /\ drawer' = [drawer EXCEPT !.kicked = @ + s.out.kicks - job.out.kicks]

SlipDropsTheError ==
  Sends(TRUE) /\ job' = [job EXCEPT !.at = "printed"] /\ UNCHANGED <<printer, console, drawer>>

\* The device is not there, goes, or takes no more: an error for the caller, and a
\* torn document.
WriteFails == Sends(TRUE) /\ job' = Unsent /\ UNCHANGED <<printer, console, drawer>>

-----------------------------------------------------------------------------
(* Without a printer.                                                      *)

Skips(s, b, ofEsc) ==
  IF s.skip > 0 THEN [s EXCEPT !.skip = @ - 1]
  ELSE IF b \in {ESC, GS} THEN [s EXCEPT !.skip = IF b = ESC THEN ofEsc ELSE 3]
  ELSE IF b = LF THEN [skip |-> 0, line |-> <<>>, shown |-> Append(s.shown, s.line)]
  ELSE [s EXCEPT !.line = IF b \in 32..126 THEN Append(@, b) ELSE @]

SlipSkipsThree(s, b) == Skips(s, b, 3)

\* print_to_console takes every command of ESC for three bytes, every one of GS for four.
Shows(s, b) == Skips(s, b, 2)

PrintToConsole ==
  /\ Sends(FALSE) /\ job' = NextByte(job.out)
  /\ console' = Shows(console, Buffer[job.byte]) /\ UNCHANGED <<printer, drawer>>

PrintInit ==
  /\ hasPrinter \in BOOLEAN /\ job = Unsent /\ printer = [modes |-> Modes, pend |-> <<>>, line |-> <<>>]
  /\ console = NoPreview /\ drawer = [asked |-> 0, kicked |-> 0] /\ sentOff = 0

PrintNext == (\E d \in Documents : SendToPrinter(d)) \/ WriteAll \/ WriteFails \/ PrintToConsole

PrintSpec == PrintInit /\ [][PrintNext]_printVars

-----------------------------------------------------------------------------
\* How a line of each sort is meant to look: only titles are large, only titles,
\* headings and totals bold, and only what belongs to no column is centred.
Look(as) == [bold |-> IF as \in {"title", "heading", "total"} THEN 1 ELSE 0,
             size |-> IF as = "title" THEN 17 ELSE 0,
             align |-> IF as \in {"title", "heading", "centred"} THEN 1 ELSE 0]

\* What is seen of a document on paper, and its figures on the console.
IsSeen(c)   == c.do \in {"barcode", "qr print"} \/ (c.do = "line" /\ c.as # "blank")
IsFigure(c) == c.do = "line" /\ c.as \in {"row", "total"}
Seen(calls, n)    == {i \in 1..n : IsSeen(calls[i])}
Figures(calls, n) == {i \in 1..n : IsFigure(calls[i])}
Paper(c, arabic) ==
  IF c.do = "line" THEN Set(Look(c.as), Text(c.as, arabic)) ELSE Set(Look("centred"), CodeData)

\* The first n calls of a document have come out, one under the other.
CameOut(calls, arabic, n, lines) ==
  /\ Len(lines) = Cardinality(Seen(calls, n))
  /\ \A i \in Seen(calls, n) : lines[Cardinality(Seen(calls, i))] = Paper(calls[i], arabic)

\* A document printed comes out as it is meant to look, whatever was printed or
\* torn off before it - unless that left the device inside a command.
PrintsAsBuilt == hasPrinter /\ job.at = "printed" /\ job.clean =>
  /\ CameOut(job.calls, job.doc.arabic, Len(job.calls), job.out.lines)
  /\ job.out.cuts = IF job.doc.kind = "drawer" THEN 0 ELSE 1
  /\ job.out.kicks = IF Opens(job.doc) THEN 1 ELSE 0

\* The drawer is not opened more often than a document asked for it.
DrawerWasAsked == drawer.kicked <= drawer.asked

\* The console shows every row and every total of a document without Arabic,
\* whatever it makes of the commands between them.
ShownFigures == {i \in DOMAIN console.shown : console.shown[i] = Text("row", FALSE)}
PreviewShowsTheFigures ==
  ~hasPrinter /\ job.at = "printed" /\ ~job.doc.arabic =>
    Cardinality(ShownFigures) = Cardinality(Figures(job.calls, Len(job.calls)))

\* What is printed is what was built.
PaperIsTrue == PrintsAsBuilt /\ DrawerWasAsked /\ PreviewShowsTheFigures
=============================================================================
