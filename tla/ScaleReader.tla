---------------------------- MODULE ScaleReader ----------------------------
(***************************************************************************)
(* The scale's reading loop: lines of a serial port, parsed by protocol,   *)
(* published on a watch channel; the port comes and goes, a read may time  *)
(* out in the middle of a line, the port may be gone before the line ends, *)
(* and tare and zero go through a clone of the port that another thread    *)
(* picks up.                                                               *)
(*                                                                         *)
(* A line is its fields; the weight has two digits, about its point, and   *)
(* its unit follows it, in its own field (Toledo) or not (CAS, Generic).   *)
(* What is left of a line that lost its head has fewer fields, or a        *)
(* damaged first one; a line the port's end cut short lost its unit, or    *)
(* part of it, or the last digit of the weight too.  What has not got as   *)
(* far as the weight is dropped, and is left out.                          *)
(***************************************************************************)
EXTENDS Integers

CONSTANTS
  Weights,    \* weights put on the pan, in tenths
  MaxLines    \* bound on lines sent, port losses and commands

ASSUME ScaleAssumption == Weights \subseteq 10..99 /\ MaxLines \in Nat

VARIABLES
  protocol,  \* config.protocol
  port,      \* the serial port is open
  handle,    \* port_handle holds a clone
  status,    \* ScaleStatus
  reading,   \* the last reading published, weight 0 before the first
  line,      \* what the reader is about to parse
  cut,       \* history: the reading is of a line that the port's end cut
  weighed,   \* history: what was on the pan, line by line
  lines

scaleVars == <<protocol, port, handle, status, reading, line, cut, weighed, lines>>

FieldsOf   == [cas |-> 3, toledo |-> 4, generic |-> 1]   \* fields of a whole line
WeightAt   == [cas |-> 3, toledo |-> 3, generic |-> 1]   \* the weight among them
KnownUnits == {"kg", "g", "lb"}
Units      == KnownUnits \cup {"other"}
Tails      == {"none", "in unit", "unit", "weight"}      \* where the port's end cuts
NoWeight   == -1                                         \* nothing Decimal reads
NoLine     == [at |-> "none", fields |-> 0, mark |-> FALSE, steady |-> FALSE, weight |-> NoWeight,
               unit |-> "other"]
Sending    == lines < MaxLines /\ lines' = lines + 1

\* What is left of a line sent: the head lost came before a timeout, which
\* dropped it, up to and into the first field left; the tail never came.
LeftOf(w, unit, steady, lost, into, tail) ==
  LET lopped == lost + 1 = WeightAt[protocol] /\ into
      unitGone == protocol = "toledo" /\ tail \in {"unit", "weight"}
  IN [at     |-> IF tail = "none" THEN "read" ELSE "last",
      fields |-> FieldsOf[protocol] - lost - (IF unitGone THEN 1 ELSE 0),
      mark   |-> lost = 0 /\ ~into,
      steady |-> steady,
      unit   |-> IF tail = "none" THEN unit ELSE "other",
      weight |-> IF lost >= WeightAt[protocol] \/ (lopped /\ tail = "weight") THEN NoWeight
                 ELSE (IF lopped THEN 0 ELSE w - (w % 10)) + (IF tail = "weight" THEN 0 ELSE w % 10)]

\* The scale sends a line, whole, or less of it.
SendLine(w, unit, steady) ==
  /\ port /\ handle # "opening" /\ line.at = "none" /\ Sending
  /\ \E lost \in 0..(FieldsOf[protocol] - 1), into \in BOOLEAN, tail \in Tails :
       /\ protocol = "toledo" /\ lost < 2 => ~into   \* its first two fields are one letter
       /\ tail = "in unit" => unit # "g"              \* which is one letter
       /\ line' = LeftOf(w, unit, steady, lost, into, tail)
  /\ weighed' = weighed \cup {[weight |-> w, unit |-> unit, steady |-> steady]}
  /\ UNCHANGED <<protocol, port, handle, status, reading, cut>>

-----------------------------------------------------------------------------
\* A unit that is missing, or is not one of the three, is kilograms.
UnitRead(unit) == IF unit \in KnownUnits THEN unit ELSE "kg"

SlipParsesAnyLength(l) == [weight |-> l.weight, unit |-> UnitRead(l.unit), stable |-> l.steady]

\* CasParser, ToledoParser and GenericParser: the first two count the fields
\* and read the mark of a stable weight, the last takes any number as stable.  A
\* line of CAS that is too short is dropped as well, as if it had not come.
Parse(l) ==
  LET counted == protocol = "generic" \/ l.fields >= FieldsOf[protocol]
  IN [weight |-> IF counted THEN l.weight ELSE NoWeight,
      unit   |-> UnitRead(l.unit),
      stable |-> protocol = "generic" \/ (l.mark /\ l.steady)]

\* A line is parsed whether or not it ended; after the last one comes the EOF.
ReadLine ==
  /\ line.at \in {"read", "last"}
  /\ line' = IF line.at = "last" THEN [NoLine EXCEPT !.at = "ended"] ELSE NoLine
  /\ IF Parse(line).weight = NoWeight THEN UNCHANGED <<reading, cut>>
     ELSE reading' = Parse(line) /\ cut' = (line.at = "last")
  /\ UNCHANGED <<protocol, port, handle, status, weighed, lines>>

\* Open, status, then the clone - which may fail, and tare and zero with it.
OpenPort ==
  /\ ~port /\ status = "connecting" /\ port' = TRUE /\ status' = "connected" /\ handle' = "opening"
  /\ UNCHANGED <<protocol, reading, line, cut, weighed, lines>>

CloneHandle ==
  /\ handle = "opening" /\ handle' \in {"held", "none"}
  /\ UNCHANGED <<protocol, port, status, reading, line, cut, weighed, lines>>

\* An open that fails says why for an instant, then is disconnected like the rest.
OpenFails ==
  /\ ~port /\ status = "connecting" /\ Sending /\ status' = "error"
  /\ UNCHANGED <<protocol, port, handle, reading, line, cut, weighed>>

SlipForgetsTheHandle ==
  /\ port /\ handle # "opening" /\ line.at \in {"none", "ended"} /\ Sending /\ port' = FALSE
  /\ line' = NoLine
  /\ UNCHANGED <<protocol, handle, status, reading, cut, weighed>>

\* EOF or a read error, which drops what had come of a line: the reader is done,
\* the handle is dropped.
ClosePort ==
  /\ port /\ handle # "opening" /\ line.at \in {"none", "ended"} /\ Sending
  /\ port' = FALSE /\ handle' = "none" /\ line' = NoLine
  /\ UNCHANGED <<protocol, status, reading, cut, weighed>>

Disconnect ==
  /\ ~port /\ status \in {"connected", "error"} /\ status' = "disconnected"
  /\ UNCHANGED <<protocol, port, handle, reading, line, cut, weighed, lines>>

Reconnect ==
  /\ ~port /\ status = "disconnected" /\ status' = "connecting"
  /\ UNCHANGED <<protocol, port, handle, reading, line, cut, weighed, lines>>

ScaleInit ==
  /\ protocol \in {"cas", "toledo", "generic"} /\ port = FALSE /\ handle = "none"
  /\ status = "disconnected" /\ reading = [weight |-> 0, unit |-> "kg", stable |-> FALSE]
  /\ line = NoLine /\ cut = FALSE /\ weighed = {} /\ lines = 0

ScaleNext ==
  \/ \E w \in Weights, unit \in Units, steady \in BOOLEAN : SendLine(w, unit, steady)
  \/ ReadLine \/ OpenPort \/ CloneHandle \/ OpenFails \/ ClosePort \/ Disconnect \/ Reconnect

ScaleSpec == ScaleInit /\ [][ScaleNext]_scaleVars

-----------------------------------------------------------------------------
\* What the till shows was weighed: a reading is a weight that was on the pan, in
\* the unit it was sent in, and is stable only if that weight was steady.  Three
\* exceptions: a protocol that cannot tell a damaged line from a whole one; a
\* unit the till does not know, which is read as kilograms; and a line that the
\* port's end cut, which is read as kilograms too, and, where the unit has no
\* field of its own, may show less than was on the pan - as steady as it was.
ReadingWasWeighed ==
  reading.weight # 0 /\ protocol # "generic" =>
    \E m \in weighed :
      /\ reading.stable => m.steady
      /\ ~cut /\ m.unit \in KnownUnits => reading.unit = m.unit
      /\ IF cut /\ protocol = "cas" THEN reading.weight <= m.weight ELSE reading.weight = m.weight

\* Tare and zero reach an open port or nothing: the handle outlives no port.
HandleIsLive == handle = "held" => port /\ status = "connected"

\* The weight shown was on the pan, but for what a cut line and the generic
\* protocol may show, and a command reaches the scale it is for.
ScaleIsTrue == ReadingWasWeighed /\ HandleIsLive
=============================================================================
