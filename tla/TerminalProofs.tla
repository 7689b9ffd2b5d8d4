--------------------------- MODULE TerminalProofs ---------------------------
(* The parts of a terminal around its sales, proved for every value of their *)
(* constants: the scale, the enrolment, the heartbeat, the policies, the     *)
(* updater, the migrations, the search index and the stored rows.  Each is a *)
(* specification of its own, with its own invariant.                         *)
EXTENDS ScaleReader, Enrolment, Heartbeat, SecurityPolicies, Updater, Migrations, ProductIndex,
        StoredRows, FiniteSetTheorems, SequenceTheorems, WellFoundedInduction, TLAPS

-----------------------------------------------------------------------------
(* The scale.                                                              *)

Protocols == {"cas", "toledo", "generic"}

\* A line with every field the protocol counts is a line that was sent, but for
\* what the port's end cut of it.
LineIsSent ==
  line.at \in {"read", "last"} /\ protocol # "generic" /\ line.fields >= FieldsOf[protocol] =>
    \E m \in weighed :
      /\ line.steady => m.steady
      /\ line.at = "read" => line.unit = m.unit
      /\ IF line.at = "last" /\ protocol = "cas" THEN line.weight <= m.weight ELSE line.weight = m.weight

ScaleInv ==
  /\ protocol \in Protocols /\ handle \in {"none", "opening", "held"}
  /\ handle # "none" => port
  /\ port => status = "connected"
  /\ line.fields \in Int
  /\ LineIsSent /\ ReadingWasWeighed

\* A line that kept every field the protocol counts kept its weight, the last
\* digit perhaps not where the unit has no field of its own.
LEMMA LeftOfShows ==
  ASSUME protocol \in {"cas", "toledo"}, NEW w \in Weights, NEW unit \in Units, NEW steady \in BOOLEAN,
         NEW lost \in Nat, NEW into \in BOOLEAN, NEW tail \in Tails,
         NEW l, l = LeftOf(w, unit, steady, lost, into, tail), l.fields >= FieldsOf[protocol]
  PROVE  /\ l.steady = steady
         /\ l.at = "read" => l.unit = unit
         /\ IF l.at = "last" /\ protocol = "cas" THEN l.weight <= w ELSE l.weight = w
<1> DEFINE lopped == lost + 1 = WeightAt[protocol] /\ into
           unitGone == protocol = "toledo" /\ tail \in {"unit", "weight"}
           weight == IF lost >= WeightAt[protocol] \/ (lopped /\ tail = "weight") THEN NoWeight
                     ELSE (IF lopped THEN 0 ELSE w - (w % 10)) + (IF tail = "weight" THEN 0 ELSE w % 10)
           fields == FieldsOf[protocol] - lost - (IF unitGone THEN 1 ELSE 0)
           at == IF tail = "none" THEN "read" ELSE "last"
           of == IF tail = "none" THEN unit ELSE "other"
           mark == lost = 0 /\ ~into
<1>1. l = [at |-> at, fields |-> fields, mark |-> mark, steady |-> steady, unit |-> of, weight |-> weight]
  BY Zenon DEF LeftOf
<1>2. /\ w \in Int /\ w % 10 \in Int /\ 0 <= w % 10 /\ WeightAt[protocol] = 3
      /\ FieldsOf[protocol] \in {3, 4}
  BY ScaleAssumption DEF WeightAt, FieldsOf
<1>3. fields >= FieldsOf[protocol] => lost = 0 /\ ~unitGone
  BY <1>2
<1>4. lost = 0 => weight = (w - (w % 10)) + (IF tail = "weight" THEN 0 ELSE w % 10)
  BY <1>2
<1>5. at = "read" => tail = "none"
  OBVIOUS
<1>6. lost = 0 /\ ~unitGone => IF at = "last" /\ protocol = "cas" THEN weight <= w ELSE weight = w
  <2> DEFINE units == w % 10
  <2>1. units \in Int /\ 0 <= units /\ (lost = 0 => weight = (w - units) + (IF tail = "weight" THEN 0 ELSE units))
    BY <1>2, <1>4
  <2> HIDE DEF weight, units
  <2>2. lost = 0 /\ tail = "weight" => weight <= w
    BY <1>2, <2>1
  <2>3. lost = 0 /\ tail # "weight" => weight = w
    BY <1>2, <2>1
  <2> QED BY <1>2, <2>2, <2>3
<1> HIDE DEF weight, fields, at, of, mark, lopped, unitGone
<1>7. /\ l.at = at /\ l.fields = fields /\ l.unit = of /\ l.weight = weight /\ l.steady = steady
  BY <1>1
<1> QED BY <1>3, <1>5, <1>6, <1>7 DEF of

LEMMA SendLineKeeps ==
  ASSUME ScaleInv, NEW w \in Weights, NEW unit \in Units, NEW steady \in BOOLEAN, SendLine(w, unit, steady)
  PROVE  ScaleInv'
<1>1. /\ UNCHANGED <<protocol, port, handle, status, reading, cut>>
      /\ weighed' = weighed \cup {[weight |-> w, unit |-> unit, steady |-> steady]}
  BY DEF SendLine
<1>2. PICK lost \in Nat, into \in BOOLEAN, tail \in Tails : line' = LeftOf(w, unit, steady, lost, into, tail)
  <2>1. FieldsOf[protocol] \in Int
    BY DEF ScaleInv, Protocols, FieldsOf
  <2>2. \E lost \in 0..(FieldsOf[protocol] - 1), into \in BOOLEAN, tail \in Tails :
          line' = LeftOf(w, unit, steady, lost, into, tail)
    BY DEF SendLine
  <2>3. 0..(FieldsOf[protocol] - 1) \subseteq Nat
    BY <2>1
  <2> QED BY <2>2, <2>3, Zenon
<1>3. LineIsSent'
  <2> SUFFICES ASSUME protocol \in {"cas", "toledo"}, line'.fields >= FieldsOf[protocol] PROVE LineIsSent'
    BY <1>1 DEF LineIsSent, ScaleInv, Protocols
  <2>1. /\ line'.steady = steady
        /\ line'.at = "read" => line'.unit = unit
        /\ IF line'.at = "last" /\ protocol = "cas" THEN line'.weight <= w ELSE line'.weight = w
    BY <1>2, LeftOfShows
  <2>2. PICK m \in weighed' : m.weight = w /\ m.unit = unit /\ m.steady = steady
    <3> DEFINE m == [weight |-> w, unit |-> unit, steady |-> steady]
    <3>1. m \in weighed' /\ m.weight = w /\ m.unit = unit /\ m.steady = steady
      BY <1>1
    <3> HIDE DEF m
    <3> QED BY <3>1
  <2> QED BY <1>1, <2>1, <2>2 DEF LineIsSent
<1>4. ReadingWasWeighed'
  BY <1>1 DEF ScaleInv, ReadingWasWeighed
<1>5. line'.fields \in Int
  <2> DEFINE gone == IF protocol = "toledo" /\ tail \in {"unit", "weight"} THEN 1 ELSE 0
  <2>1. line'.fields = FieldsOf[protocol] - lost - gone
    BY <1>2 DEF LeftOf
  <2>2. gone \in Int /\ FieldsOf[protocol] \in Int
    BY DEF ScaleInv, Protocols, FieldsOf
  <2> HIDE DEF gone
  <2> QED BY <2>1, <2>2
<1> QED BY <1>1, <1>3, <1>4, <1>5 DEF ScaleInv

LEMMA ReadLineKeeps ==
  ASSUME ScaleInv, ReadLine
  PROVE  ScaleInv'
<1>1. /\ line.at \in {"read", "last"} /\ line' \in {NoLine, [NoLine EXCEPT !.at = "ended"]}
      /\ UNCHANGED <<protocol, port, handle, status, weighed>>
      /\ IF Parse(line).weight = NoWeight THEN UNCHANGED <<reading, cut>>
         ELSE reading' = Parse(line) /\ cut' = (line.at = "last")
  BY DEF ReadLine
<1>2. LineIsSent' /\ line'.fields \in Int
  BY <1>1 DEF LineIsSent, NoLine
<1>3. ReadingWasWeighed'
  <2>1. CASE UNCHANGED <<reading, cut>>
    BY <1>1, <2>1 DEF ScaleInv, ReadingWasWeighed
  <2>2. CASE /\ protocol # "generic" /\ Parse(line).weight # NoWeight
             /\ reading' = Parse(line) /\ cut' = (line.at = "last")
    <3> DEFINE counted == line.fields >= FieldsOf[protocol]
               sure == line.mark /\ line.steady
               unit == UnitRead(line.unit)
               weight == IF counted THEN line.weight ELSE NoWeight
    <3>1. Parse(line) = [weight |-> weight, unit |-> unit, stable |-> sure]
      BY <2>2, Zenon DEF Parse
    <3> HIDE DEF weight, unit, sure
    <3>2. /\ reading'.weight = weight /\ reading'.unit = unit /\ (reading'.stable <=> sure)
          /\ weight # NoWeight
      BY <2>2, <3>1
    <3>3. line.fields >= FieldsOf[protocol] /\ weight = line.weight
      BY <3>2 DEF weight
    <3>4. PICK m \in weighed :
            /\ line.steady => m.steady
            /\ line.at = "read" => line.unit = m.unit
            /\ IF line.at = "last" /\ protocol = "cas" THEN line.weight <= m.weight ELSE line.weight = m.weight
      BY <1>1, <2>2, <3>3, Zenon DEF ScaleInv, LineIsSent
    <3>5. reading'.stable => m.steady
      BY <3>2, <3>4 DEF sure
    <3>6. ~cut' /\ m.unit \in KnownUnits => reading'.unit = m.unit
      BY <1>1, <2>2, <3>2, <3>4 DEF unit, UnitRead
    <3>7. IF cut' /\ protocol' = "cas" THEN reading'.weight <= m.weight ELSE reading'.weight = m.weight
      BY <1>1, <2>2, <3>2, <3>3, <3>4
    <3> QED BY <1>1, <3>5, <3>6, <3>7 DEF ReadingWasWeighed
  <2>3. CASE protocol = "generic"
    BY <1>1, <2>3 DEF ReadingWasWeighed
  <2> QED BY <1>1, <2>1, <2>2, <2>3
<1> QED BY <1>1, <1>2, <1>3 DEF ScaleInv

LEMMA PortKeeps ==
  ASSUME ScaleInv, OpenPort \/ CloneHandle \/ OpenFails \/ ClosePort \/ Disconnect \/ Reconnect
  PROVE  ScaleInv'
<1>1. UNCHANGED <<protocol, reading, cut, weighed>> /\ line' \in {line, NoLine}
  BY DEF OpenPort, CloneHandle, OpenFails, ClosePort, Disconnect, Reconnect
<1>2. LineIsSent' /\ ReadingWasWeighed' /\ line'.fields \in Int
  BY <1>1 DEF ScaleInv, LineIsSent, ReadingWasWeighed, NoLine
<1> QED BY <1>1, <1>2 DEF ScaleInv, OpenPort, CloneHandle, OpenFails, ClosePort, Disconnect, Reconnect

\* With a protocol that counts its fields, a weight the till shows was on the pan,
\* in a unit the till knows, and is called stable only if it was steady, whatever
\* head of the line a timeout dropped.  Of a line that the port's end cut, the
\* unit may be lost and with CAS the weight may be less than was on the pan.  The
\* generic protocol is excepted altogether.  Tare and zero are sent to an open
\* port, never to a handle that outlived the one it was cloned from.
THEOREM ScaleTrue == ScaleSpec => []ScaleIsTrue
<1>1. ScaleInit => ScaleInv
  BY DEF ScaleInit, ScaleInv, Protocols, LineIsSent, ReadingWasWeighed, NoLine
<1>2. ScaleInv /\ [ScaleNext]_scaleVars => ScaleInv'
  <2> SUFFICES ASSUME ScaleInv, [ScaleNext]_scaleVars PROVE ScaleInv'
    OBVIOUS
  <2>1. CASE UNCHANGED scaleVars
    BY <2>1 DEF scaleVars, ScaleInv, LineIsSent, ReadingWasWeighed
  <2> QED BY <2>1, SendLineKeeps, ReadLineKeeps, PortKeeps DEF ScaleNext
<1>3. ScaleInv => ScaleIsTrue
  BY DEF ScaleInv, ScaleIsTrue, HandleIsLive
<1> QED BY <1>1, <1>2, <1>3, PTL DEF ScaleSpec

-----------------------------------------------------------------------------
(* The enrolment.                                                          *)

Company == Companies \cup {NoCompany}

EnrolShape ==
  /\ DOMAIN askers = Askers /\ syncing \in Company
  /\ registered \in Company /\ license \in Company /\ licensing \in Company /\ session \in Company
  /\ rows \in [Tables -> SUBSET Companies] /\ wiping \in 0..8

\* Nothing was written for another company.
RowsGapFree ==
  "re-paired" \notin enrolGaps /\ "synchronised-beside" \notin enrolGaps /\ "paired-beside" \notin enrolGaps

\* A wipe under way has emptied every table it has passed; the session goes last.
RowsAreOurs ==
  RowsGapFree =>
    /\ \A t \in Wiped : rows[t] \subseteq {registered}
    /\ \A i \in 1..6 : i < wiping => rows[WipeOrder[i]] = {}
    /\ wiping # 8 => session \in {NoCompany, registered}

\* A till registered with nobody has no licence either.
LicenseFollows ==
  "re-paired" \notin enrolGaps /\ "late-licence" \notin enrolGaps =>
    license \in {NoCompany, registered}

\* One asker at most has an id in hand, and only while none is stored.
OneAsks ==
  "generated-twice" \notin enrolGaps =>
    /\ enrolled \subseteq {hardware} /\ (hardware = 0 => enrolled = {})
    /\ \A k \in Askers : askers[k] # 0 => hardware = 0
    /\ \A j, k \in Askers : askers[j] # 0 /\ askers[k] # 0 => j = k

EnrolInv == EnrolShape /\ RowsAreOurs /\ LicenseFollows /\ OneAsks

\* The tables, in the order the wipe takes them.
LEMMA TheTables ==
  /\ Len(WipeOrder) = 6 /\ Wiped \subseteq Tables
  /\ \A i \in 1..6 : WipeOrder[i] \in Wiped
  /\ \A t \in Wiped : \E i \in 1..6 : t = WipeOrder[i]
  /\ \A i, j \in 1..6 : WipeOrder[i] = WipeOrder[j] => i = j
  /\ \A t \in {"products", "operators", "drafts", "shifts", "offline_transactions", "terminal_config"} : t \in Wiped
  /\ WipeOrder[1] = "products" /\ WipeOrder[2] = "operators"
  /\ "operator_sessions" \in Tables /\ "operator_sessions" \notin Wiped
  /\ Unlocked <=> wiping \notin 1..6
<1>1. Len(WipeOrder) = 6
  BY DEF WipeOrder
<1>2. /\ WipeOrder[1] = "products" /\ WipeOrder[2] = "operators" /\ WipeOrder[3] = "drafts"
      /\ WipeOrder[4] = "shifts" /\ WipeOrder[5] = "offline_transactions" /\ WipeOrder[6] = "terminal_config"
  BY DEF WipeOrder
<1>3. Wiped = {WipeOrder[i] : i \in 1..6}
  BY <1>1 DEF Wiped
<1>4. Unlocked <=> wiping \notin 1..6
  BY <1>1 DEF Unlocked
<1> QED BY <1>1, <1>2, <1>3, <1>4 DEF Tables

\* A gap noted leaves the earlier ones standing.
LEMMA GapStays ==
  ASSUME NEW e, Gap(e)
  PROVE  \A g : g \notin enrolGaps' => g \notin enrolGaps /\ g \notin e
  BY DEF Gap

LEMMA AskersKeep ==
  ASSUME EnrolInv, NEW k \in Askers, AskId(k) \/ ReadFails(k) \/ SaveId(k)
  PROVE  EnrolInv'
<1>1. UNCHANGED <<registered, license, licensing, syncing, rows, session, wiping>> /\ DOMAIN askers' = Askers
  BY DEF AskId, ReadFails, SaveId, ids, calls, EnrolInv, EnrolShape
<1>2. \A g : g \notin enrolGaps' => g \notin enrolGaps
  BY GapStays DEF AskId, ReadFails, SaveId
<1>3. EnrolShape' /\ RowsAreOurs' /\ LicenseFollows'
  BY <1>1, <1>2 DEF EnrolInv, EnrolShape, RowsAreOurs, RowsGapFree, LicenseFollows
<1>4. OneAsks'
  <2> SUFFICES ASSUME "generated-twice" \notin enrolGaps'
               PROVE  /\ enrolled' \subseteq {hardware'} /\ (hardware' = 0 => enrolled' = {})
                      /\ \A j \in Askers : askers'[j] # 0 => hardware' = 0
                      /\ \A i, j \in Askers : askers'[i] # 0 /\ askers'[j] # 0 => i = j
    BY DEF OneAsks
  <2>1. /\ enrolled \subseteq {hardware} /\ (hardware = 0 => enrolled = {})
        /\ \A j \in Askers : askers[j] # 0 => hardware = 0
        /\ \A i, j \in Askers : askers[i] # 0 /\ askers[j] # 0 => i = j
        /\ DOMAIN askers = Askers
    BY <1>2 DEF EnrolInv, EnrolShape, OneAsks
  <2>2. CASE ReadFails(k)
    BY <2>1, <2>2 DEF ReadFails, ids
  <2>3. CASE SaveId(k)
    <3>1. askers[k] # 0 /\ hardware' = askers[k] /\ enrolled' = enrolled \cup {askers[k]}
          /\ askers' = [askers EXCEPT ![k] = 0]
      BY <2>3 DEF SaveId, UseId
    <3> QED BY <2>1, <3>1
  <2>4. CASE AskId(k) /\ hardware # 0
    BY <2>1, <2>4 DEF AskId, UseId
  <2>5. CASE AskId(k) /\ hardware = 0
    <3>1. /\ UNCHANGED <<enrolled, hardware>> /\ askers' = [askers EXCEPT ![k] = GeneratedId]
          /\ Gap(IF Pending = {} THEN {} ELSE {"generated-twice"})
      BY <2>5 DEF AskId
    <3>2. Pending = {}
      BY <3>1, GapStays
    <3>3. \A j \in Askers : askers[j] = 0
      BY <3>2 DEF Pending
    <3> HIDE DEF GeneratedId
    <3> QED BY <2>1, <2>5, <3>1, <3>3
  <2> QED BY <2>2, <2>3, <2>4, <2>5
<1> QED BY <1>3, <1>4 DEF EnrolInv

\* What a step that leaves the enrolment alone needs to show.
LEMMA OthersKeep ==
  ASSUME EnrolInv, UNCHANGED <<hardware, askers, enrolled, license>>,
         \A g : g \notin enrolGaps' => g \notin enrolGaps,
         "re-paired" \in enrolGaps' \/ registered' \in {registered, NoCompany} \/ registered = NoCompany,
         registered' = NoCompany => registered = NoCompany
  PROVE  LicenseFollows' /\ OneAsks'
<1>1. OneAsks'
  BY DEF EnrolInv, OneAsks
<1>2. LicenseFollows'
  BY DEF EnrolInv, LicenseFollows
<1> QED BY <1>1, <1>2

LEMMA PairingKeeps ==
  ASSUME EnrolInv, NEW c \in Companies, PairingCompletes(c)
  PROVE  EnrolInv'
<1>1. /\ wiping \notin 1..6 /\ registered' = c /\ Gap(IF registered \in {NoCompany, c} THEN {} ELSE {"re-paired"})
      /\ UNCHANGED <<hardware, askers, enrolled, license, licensing, syncing, rows, session, wiping>>
  <2>1. Unlocked
    BY DEF PairingCompletes
  <2>2. wiping \notin 1..6
    BY <2>1, TheTables
  <2> QED BY <2>2 DEF PairingCompletes, ids
<1>2. EnrolShape'
  BY <1>1 DEF EnrolInv, EnrolShape, Company
<1>3. RowsAreOurs'
  <2> SUFFICES ASSUME RowsGapFree'
               PROVE  /\ \A t \in Wiped : rows[t] \subseteq {c}
                      /\ \A i \in 1..6 : i < wiping => rows[WipeOrder[i]] = {}
                      /\ wiping # 8 => session \in {NoCompany, c}
    BY <1>1 DEF RowsAreOurs
  <2>1. /\ registered \in {NoCompany, c} /\ \A t \in Wiped : rows[t] \subseteq {registered}
        /\ \A i \in 1..6 : i < wiping => rows[WipeOrder[i]] = {}
        /\ wiping # 8 => session \in {NoCompany, registered}
    BY <1>1, GapStays DEF EnrolInv, RowsAreOurs, RowsGapFree
  <2>2. \A t \in Wiped : rows[t] \subseteq {c}
    BY <2>1, TheTables, EnrolmentAssumption DEF EnrolInv, EnrolShape
  <2> QED BY <2>1, <2>2
<1>4. LicenseFollows'
  <2> SUFFICES ASSUME "re-paired" \notin enrolGaps', "late-licence" \notin enrolGaps'
               PROVE  license' \in {NoCompany, c}
    BY <1>1 DEF LicenseFollows
  <2> QED BY <1>1, GapStays DEF EnrolInv, LicenseFollows
<1>5. OneAsks'
  BY <1>1, GapStays DEF EnrolInv, OneAsks
<1> QED BY <1>2, <1>3, <1>4, <1>5 DEF EnrolInv

LEMMA LoginKeeps ==
  ASSUME EnrolInv, NEW c \in Companies, LoginAnswered(c)
  PROVE  EnrolInv'
<1>1. /\ UNCHANGED <<hardware, askers, enrolled, registered, license, licensing, syncing, rows, wiping>>
      /\ \/ session' = c /\ Gap(IF registered = c THEN {} ELSE {"paired-beside"})
         \/ UNCHANGED <<session, enrolGaps>>
  BY DEF LoginAnswered, ids
<1>2. EnrolShape' /\ \A g : g \notin enrolGaps' => g \notin enrolGaps
  BY <1>1, GapStays DEF EnrolInv, EnrolShape, Company
<1>3. RowsAreOurs'
  BY <1>1, <1>2, GapStays DEF EnrolInv, RowsAreOurs, RowsGapFree
<1> QED BY <1>1, <1>2, <1>3, OthersKeep DEF EnrolInv

LEMMA ConfigKeeps ==
  ASSUME EnrolInv, NEW c \in Companies, SaveConfig(c)
  PROVE  EnrolInv'
<1>1. /\ UNCHANGED <<hardware, askers, enrolled, registered, license, licensing, syncing, session, wiping>>
      /\ \/ /\ rows' = [rows EXCEPT !["terminal_config"] = {c}]
            /\ Gap(IF registered = c /\ wiping = 0 THEN {} ELSE {"paired-beside"})
         \/ UNCHANGED <<rows, enrolGaps>>
  BY DEF SaveConfig, ids
<1>2. EnrolShape' /\ \A g : g \notin enrolGaps' => g \notin enrolGaps
  BY <1>1, TheTables, GapStays DEF EnrolInv, EnrolShape, Company
<1>3. RowsAreOurs'
  <2>1. CASE UNCHANGED <<rows, enrolGaps>>
    BY <1>1, <2>1 DEF EnrolInv, RowsAreOurs, RowsGapFree
  <2>2. CASE /\ rows' = [rows EXCEPT !["terminal_config"] = {c}]
             /\ Gap(IF registered = c /\ wiping = 0 THEN {} ELSE {"paired-beside"})
    <3> SUFFICES ASSUME RowsGapFree'
                 PROVE  wiping = 0 /\ \A t \in Wiped : rows'[t] \subseteq {registered}
      <4>1. wiping = 0 => \A i \in 1..6 : ~(i < wiping')
        BY <1>1
      <4>2. RowsGapFree' => RowsGapFree
        BY <1>2 DEF RowsGapFree
      <4> QED BY <1>1, <4>1, <4>2 DEF EnrolInv, RowsAreOurs
    <3>1. /\ registered = c /\ wiping = 0 /\ \A t \in Wiped : rows[t] \subseteq {registered}
      BY <1>1, <1>2, <2>2, GapStays DEF EnrolInv, RowsAreOurs, RowsGapFree
    <3> QED BY <2>2, <3>1, TheTables DEF EnrolInv, EnrolShape
  <2> QED BY <1>1, <2>1, <2>2
<1> QED BY <1>1, <1>2, <1>3, OthersKeep DEF EnrolInv

LEMMA SynchroniseKeeps ==
  ASSUME EnrolInv, AskRows \/ SaveRows
  PROVE  EnrolInv'
<1>1. /\ UNCHANGED <<hardware, askers, enrolled, registered, license, licensing, session, wiping>>
      /\ syncing' \in {session, NoCompany}
      /\ \/ /\ syncing # NoCompany
            /\ rows' = [t \in Tables |-> IF t \in {"products", "operators"} THEN rows[t] \cup {syncing} ELSE rows[t]]
            /\ Gap(IF wiping # 0 \/ syncing # registered THEN {"synchronised-beside"} ELSE {})
         \/ UNCHANGED <<rows, enrolGaps>>
  BY DEF AskRows, SaveRows, ids
<1>2. EnrolShape' /\ \A g : g \notin enrolGaps' => g \notin enrolGaps
  BY <1>1, GapStays DEF EnrolInv, EnrolShape, Company
<1>3. RowsAreOurs'
  <2>1. CASE UNCHANGED <<rows, enrolGaps>>
    BY <1>1, <2>1 DEF EnrolInv, RowsAreOurs, RowsGapFree
  <2>2. CASE /\ rows' = [t \in Tables |-> IF t \in {"products", "operators"} THEN rows[t] \cup {syncing} ELSE rows[t]]
             /\ Gap(IF wiping # 0 \/ syncing # registered THEN {"synchronised-beside"} ELSE {})
    <3> SUFFICES ASSUME RowsGapFree'
                 PROVE  wiping = 0 /\ \A t \in Wiped : rows'[t] \subseteq {registered}
      <4>1. wiping = 0 => \A i \in 1..6 : ~(i < wiping')
        BY <1>1
      <4>2. RowsGapFree' => RowsGapFree
        BY <1>2 DEF RowsGapFree
      <4> QED BY <1>1, <4>1, <4>2 DEF EnrolInv, RowsAreOurs
    <3>1. wiping = 0 /\ syncing = registered /\ \A t \in Wiped : rows[t] \subseteq {registered}
      BY <1>1, <1>2, <2>2, GapStays DEF EnrolInv, RowsAreOurs, RowsGapFree
    <3> QED BY <2>2, <3>1, TheTables
  <2> QED BY <1>1, <2>1, <2>2
<1> QED BY <1>1, <1>2, <1>3, OthersKeep DEF EnrolInv

LEMMA WorkKeeps ==
  ASSUME EnrolInv, SignsIn \/ \E t \in Tables : Work(t)
  PROVE  EnrolInv'
<1>1. UNCHANGED <<hardware, askers, enrolled, registered, license, licensing, syncing, session, wiping, enrolGaps>>
  BY DEF SignsIn, Work, ids, calls
<1>2. CASE SignsIn
  <2>1. PICK holders \in SUBSET Companies : rows' = [rows EXCEPT !["operator_sessions"] = holders]
    BY <1>2 DEF SignsIn, EnrolInv, EnrolShape, Company
  <2>2. rows' \in [Tables -> SUBSET Companies] /\ \A t \in Wiped : rows'[t] = rows[t]
    BY <2>1, TheTables DEF EnrolInv, EnrolShape
  <2>3. EnrolShape'
    BY <1>1, <2>2 DEF EnrolInv, EnrolShape
  <2>4. RowsAreOurs'
    BY <1>1, <2>2, TheTables DEF EnrolInv, RowsAreOurs, RowsGapFree
  <2> QED BY <1>1, <2>3, <2>4, OthersKeep DEF EnrolInv
<1>3. ASSUME NEW t \in Tables, Work(t) PROVE EnrolInv'
  <2>1. /\ wiping \notin 1..6 /\ registered # NoCompany /\ registered \in rows["operators"]
        /\ t \in {"drafts", "shifts", "offline_transactions"}
        /\ rows' = [rows EXCEPT ![t] = rows[t] \cup {registered}]
    <3>1. Unlocked
      BY <1>3 DEF Work
    <3>2. wiping \notin 1..6
      BY <3>1, TheTables
    <3> QED BY <1>3, <3>2 DEF Work
  <2>2. EnrolShape'
    BY <1>1, <2>1 DEF EnrolInv, EnrolShape, Company
  <2>3. RowsAreOurs'
    <3> SUFFICES ASSUME RowsGapFree'
                 PROVE  wiping = 0 /\ \A u \in Wiped : rows'[u] \subseteq {registered}
      <4>1. wiping = 0 => \A i \in 1..6 : ~(i < wiping')
        BY <1>1
      <4> QED BY <1>1, <4>1 DEF EnrolInv, RowsAreOurs, RowsGapFree
    <3>1. /\ \A u \in Wiped : rows[u] \subseteq {registered}
          /\ \A i \in 1..6 : i < wiping => rows[WipeOrder[i]] = {}
      BY <1>1 DEF EnrolInv, RowsAreOurs, RowsGapFree
    <3>2. wiping = 0
      <4>1. ~(2 < wiping)
        BY <2>1, <3>1, TheTables
      <4> QED BY <2>1, <4>1 DEF EnrolInv, EnrolShape
    <3> QED BY <2>1, <3>1, <3>2, TheTables DEF EnrolInv, EnrolShape
  <2> QED BY <1>1, <2>2, <2>3, OthersKeep DEF EnrolInv
<1> QED BY <1>2, <1>3

LEMMA LicenseKeeps ==
  ASSUME EnrolInv, AskLicense \/ SaveLicense
  PROVE  EnrolInv'
<1>1. UNCHANGED <<hardware, askers, enrolled, registered, syncing, rows, session, wiping>>
  BY DEF AskLicense, SaveLicense, ids
<1>2. \A g : g \notin enrolGaps' => g \notin enrolGaps
  BY GapStays DEF AskLicense, SaveLicense
<1>3. EnrolShape' /\ RowsAreOurs' /\ OneAsks'
  BY <1>1, <1>2 DEF AskLicense, SaveLicense, EnrolInv, EnrolShape, RowsAreOurs, RowsGapFree, OneAsks, Company
<1>4. LicenseFollows'
  <2>1. CASE AskLicense
    BY <2>1 DEF AskLicense, EnrolInv, LicenseFollows
  <2>2. CASE SaveLicense
    BY <1>1, <2>2, GapStays DEF SaveLicense, LicenseFollows
  <2> QED BY <2>1, <2>2
<1> QED BY <1>3, <1>4 DEF EnrolInv

LEMMA WipeKeeps ==
  ASSUME EnrolInv, BeginWipe \/ DeleteRows \/ ClearRegistration \/ ClearCredentials
  PROVE  EnrolInv'
<1>1. UNCHANGED <<hardware, askers, enrolled, licensing, syncing, enrolGaps>>
  BY DEF BeginWipe, DeleteRows, ClearRegistration, ClearCredentials, ids, calls
<1>2. EnrolShape' /\ OneAsks'
  BY <1>1, TheTables DEF BeginWipe, DeleteRows, ClearRegistration, ClearCredentials, EnrolInv, EnrolShape, OneAsks, Company
<1>3. LicenseFollows'
  BY <1>1 DEF BeginWipe, DeleteRows, ClearRegistration, ClearCredentials, EnrolInv, LicenseFollows
<1>4. RowsAreOurs'
  <2>1. CASE BeginWipe
    <3>1. wiping = 0 /\ wiping' = 1 /\ UNCHANGED <<registered, rows, session>>
      BY <2>1 DEF BeginWipe
    <3>2. \A i \in 1..6 : ~(i < wiping')
      BY <3>1
    <3> QED BY <1>1, <3>1, <3>2 DEF EnrolInv, RowsAreOurs, RowsGapFree
  <2>2. CASE DeleteRows
    <3>1. /\ wiping \in 1..6 /\ UNCHANGED <<registered, session>>
          /\ \/ wiping' = 0 /\ UNCHANGED rows
             \/ rows' = [rows EXCEPT ![WipeOrder[wiping]] = {}] /\ wiping' = wiping + 1
      BY <2>2, TheTables DEF DeleteRows
    <3>2. CASE wiping' = 0 /\ UNCHANGED rows
      <4>1. \A i \in 1..6 : ~(i < wiping')
        BY <3>2
      <4> QED BY <1>1, <3>1, <3>2, <4>1 DEF EnrolInv, RowsAreOurs, RowsGapFree
    <3>3. CASE rows' = [rows EXCEPT ![WipeOrder[wiping]] = {}] /\ wiping' = wiping + 1
      <4> DEFINE t == WipeOrder[wiping]
      <4>1. t \in Wiped /\ t \in Tables
        BY <3>1, TheTables
      <4>2. DOMAIN rows = Tables
        BY DEF EnrolInv, EnrolShape
      <4>3. rows'[t] = {} /\ \A u \in Tables : u # t => rows'[u] = rows[u]
        BY <3>3, <4>1, <4>2
      <4> SUFFICES ASSUME RowsGapFree'
                   PROVE  /\ \A u \in Wiped : rows'[u] \subseteq {registered}
                          /\ \A i \in 1..6 : i < wiping' => rows'[WipeOrder[i]] = {}
                          /\ session \in {NoCompany, registered}
        BY <3>1 DEF RowsAreOurs
      <4>4. /\ \A u \in Wiped : rows[u] \subseteq {registered}
            /\ \A i \in 1..6 : i < wiping => rows[WipeOrder[i]] = {}
            /\ session \in {NoCompany, registered}
        BY <1>1, <3>1 DEF EnrolInv, RowsAreOurs, RowsGapFree
      <4>5. ASSUME NEW i \in 1..6, i < wiping' PROVE rows'[WipeOrder[i]] = {}
        <5>1. wiping \in 1..6 /\ wiping' = wiping + 1
          BY <3>1, <3>3
        <5>3. i < wiping \/ i = wiping
          BY <5>1, <4>5
        <5>2. WipeOrder[i] \in Wiped /\ WipeOrder[i] \in Tables
          BY TheTables
        <5> QED BY <4>3, <4>4, <5>3, <5>2
      <4>6. \A u \in Wiped : rows'[u] \subseteq {registered}
        BY <4>3, <4>4, TheTables
      <4> QED BY <4>4, <4>5, <4>6
    <3> QED BY <3>1, <3>2, <3>3
  <2>3. CASE ClearRegistration
    <3>1. wiping = 7 /\ wiping' = 8 /\ UNCHANGED rows
      BY <2>3, TheTables DEF ClearRegistration
    <3>2. CASE RowsGapFree
      <4>1. \A i \in 1..6 : rows[WipeOrder[i]] = {}
        BY <3>1, <3>2 DEF EnrolInv, RowsAreOurs
      <4>2. \A t \in Wiped : rows[t] = {}
        BY <4>1, TheTables
      <4> QED BY <3>1, <4>1, <4>2 DEF RowsAreOurs
    <3> QED BY <1>1, <3>2 DEF RowsAreOurs, RowsGapFree
  <2>4. CASE ClearCredentials
    <3>1. wiping' = 0 /\ session' = NoCompany /\ UNCHANGED <<registered, rows>>
      BY <2>4 DEF ClearCredentials
    <3>2. \A i \in 1..6 : ~(i < wiping')
      BY <3>1
    <3> QED BY <1>1, <3>1, <3>2 DEF EnrolInv, RowsAreOurs, RowsGapFree
  <2> QED BY <2>1, <2>2, <2>3, <2>4
<1> QED BY <1>2, <1>3, <1>4 DEF EnrolInv

LEMMA RebootKeeps ==
  ASSUME EnrolInv, Reboot
  PROVE  EnrolInv'
<1>1. /\ wiping' = 0 /\ licensing' = NoCompany /\ askers' = [k \in Askers |-> 0]
      /\ session' \in Company /\ syncing' = NoCompany
      /\ session' = NoCompany \/ session' \in rows["terminal_config"]
      /\ UNCHANGED <<hardware, enrolled, registered, license, rows, enrolGaps>>
  BY TheTables DEF Reboot, EnrolInv, EnrolShape, Company
<1>2. EnrolShape'
  BY <1>1 DEF EnrolInv, EnrolShape, Company
<1>3. LicenseFollows' /\ OneAsks'
  BY <1>1 DEF EnrolInv, LicenseFollows, OneAsks
<1>4. RowsAreOurs'
  <2>1. \A i \in 1..6 : ~(i < wiping')
    BY <1>1
  <2> QED BY <1>1, <2>1, TheTables DEF EnrolInv, RowsAreOurs, RowsGapFree
<1> QED BY <1>2, <1>3, <1>4 DEF EnrolInv

\* In the tables the wipe names, a till keeps one company's data, and its session
\* and licence with it: a wipe that a foreign key refused or that a kill cut short
\* leaves what is left with the company still registered, and one that reaches
\* the registration leaves no row in them - for any number of askers and
\* companies.  Excepted by name: pairing anew without a wipe; an answer to a
\* synchronisation, a login or a licence request that comes for a company the
\* till has left; two callers that each generated a hardware id.
THEOREM EnrolmentCleanAlways == EnrolSpec => []EnrolmentIsClean
<1>1. EnrolInit => EnrolInv
  BY TheTables DEF EnrolInit, EnrolInv, EnrolShape, RowsAreOurs, LicenseFollows, OneAsks, Company
<1>2. EnrolInv /\ [EnrolNext]_enrolVars => EnrolInv'
  <2> SUFFICES ASSUME EnrolInv, [EnrolNext]_enrolVars PROVE EnrolInv'
    OBVIOUS
  <2>1. CASE UNCHANGED enrolVars
    BY <2>1 DEF enrolVars, EnrolInv, EnrolShape, RowsAreOurs, RowsGapFree, LicenseFollows, OneAsks
  <2> QED BY <2>1, AskersKeep, PairingKeeps, LoginKeeps, ConfigKeeps, SynchroniseKeeps, WorkKeeps, LicenseKeeps, WipeKeeps, RebootKeeps
          DEF EnrolNext
<1>3. EnrolInv => EnrolmentIsClean
  BY TheTables DEF EnrolInv, EnrolmentIsClean, RowsAreOurs, RowsGapFree, LicenseFollows, OneAsks, NoTenantLeftBehind,
     LicenseIsOurs, OneIdentity
<1> QED BY <1>1, <1>2, <1>3, PTL DEF EnrolSpec

-----------------------------------------------------------------------------
(* The heartbeat.                                                          *)

LoopStages == {"none", "ticking", "counted", "asked", "answered", "clearing"}
LoopType   == [at : LoopStages, status : {"HEALTHY", "DEGRADED", "ERROR"}, count : Nat, errors : Seq(Nat)]
Single     == "two-loops" \notin beatGaps
Clearing   == {l \in Loops : Looping(l, "clearing")}
Ids        == {recorders[r] : r \in Unlisted}
ItemsOf(s) == {s[i] : i \in 1..Len(s)}

HeartShape ==
  /\ running \in BOOLEAN /\ count \in Nat /\ errors \in Nat
  /\ recent \in Seq(Nat) /\ Len(recent) <= MaxRecent
  /\ loops \in [Loops -> LoopType] /\ recorders \in [Recorders -> Nat]
  /\ IsFiniteSet(Unlisted)

\* What is listed while a heartbeat is under way was in its report, or came since.
Carrying ==
  \A l \in Loops :
    /\ Looping(l, "asked") => Listed \subseteq ItemsOf(loops[l].errors) \cup overlapped
    /\ loops[l].at \in {"answered", "clearing"} => Listed \subseteq reported \cup overlapped

\* The count is ahead of the list by the errors between the two.
Counted ==
  Single /\ overlapped = {} =>
    /\ Cardinality(Unlisted) <= count
    /\ Clearing # {} => count = 0
    /\ Clearing = {} => Len(recent) = IF count - Cardinality(Unlisted) <= MaxRecent
                                      THEN count - Cardinality(Unlisted) ELSE MaxRecent

\* A count of zero: whatever is listed or to be listed outlived a clearing.
Cleared ==
  Single /\ count = 0 => Ids \subseteq overlapped /\ (Clearing = {} => Listed \subseteq overlapped)

\* A status read from that count, until the report is read.
WasHealthy ==
  \A l \in Loops : Single /\ Looping(l, "counted") /\ loops[l].status = "HEALTHY" =>
    Listed \subseteq overlapped /\ (overlapped = {} => count = 0)

HeartInv == /\ HeartShape /\ ErrorsAreReported /\ Carrying /\ OneLoopBeats /\ Counted /\ Cleared
            /\ WasHealthy /\ HealthyCarriesNoErrors

\* What a list holds after one more, or without its oldest.
LEMMA Items ==
  ASSUME NEW s \in Seq(Nat), NEW x \in Nat
  PROVE  /\ Append(s, x) \in Seq(Nat) /\ Len(Append(s, x)) = Len(s) + 1
         /\ ItemsOf(Append(s, x)) = ItemsOf(s) \cup {x}
         /\ Len(s) > 0 => /\ Tail(s) \in Seq(Nat) /\ Len(Tail(s)) = Len(s) - 1
                          /\ ItemsOf(Tail(s)) \subseteq ItemsOf(s)
                          /\ ItemsOf(s) \subseteq ItemsOf(Tail(s)) \cup {Head(s)}
<1>1. Append(s, x) \in Seq(Nat) /\ Len(Append(s, x)) = Len(s) + 1
  OBVIOUS
<1>2. ItemsOf(Append(s, x)) = ItemsOf(s) \cup {x}
  <2>1. \A i \in 1..Len(s) : Append(s, x)[i] = s[i]
    OBVIOUS
  <2>2. Append(s, x)[Len(s) + 1] = x
    OBVIOUS
  <2>3. Len(s) \in Nat
    OBVIOUS
  <2>4. ASSUME NEW y PROVE y \in ItemsOf(Append(s, x)) <=> y \in ItemsOf(s) \/ y = x
    <3>1. y \in ItemsOf(Append(s, x)) <=> \E i \in 1..(Len(s) + 1) : Append(s, x)[i] = y
      BY <1>1 DEF ItemsOf
    <3>2. 1..(Len(s) + 1) = 1..Len(s) \cup {Len(s) + 1}
      BY <2>3
    <3> QED BY <3>1, <3>2, <2>1, <2>2 DEF ItemsOf
  <2> QED BY <2>4
<1>3. ASSUME Len(s) > 0
      PROVE  /\ Tail(s) \in Seq(Nat) /\ Len(Tail(s)) = Len(s) - 1
             /\ ItemsOf(Tail(s)) \subseteq ItemsOf(s) /\ ItemsOf(s) \subseteq ItemsOf(Tail(s)) \cup {Head(s)}
  <2>1. Tail(s) \in Seq(Nat) /\ Len(Tail(s)) = Len(s) - 1 /\ Len(s) \in Nat /\ Head(s) = s[1]
    BY <1>3
  <2>2. \A i \in 1..Len(Tail(s)) : Tail(s)[i] = s[i + 1]
    BY <1>3
  <2>3. ItemsOf(Tail(s)) \subseteq ItemsOf(s)
    <3> SUFFICES ASSUME NEW i \in 1..Len(Tail(s)) PROVE Tail(s)[i] \in ItemsOf(s)
      BY DEF ItemsOf
    <3>1. i + 1 \in 1..Len(s)
      BY <2>1
    <3> QED BY <2>2, <3>1 DEF ItemsOf
  <2>4. ItemsOf(s) \subseteq ItemsOf(Tail(s)) \cup {Head(s)}
    <3> SUFFICES ASSUME NEW i \in 1..Len(s), i # 1 PROVE s[i] \in ItemsOf(Tail(s))
      BY <2>1 DEF ItemsOf
    <3>1. i - 1 \in 1..Len(Tail(s)) /\ (i - 1) + 1 = i
      BY <2>1
    <3>2. Tail(s)[i - 1] = s[i]
      BY <2>2, <3>1
    <3> QED BY <3>1, <3>2 DEF ItemsOf
  <2> QED BY <2>1, <2>3, <2>4
<1> QED BY <1>1, <1>2, <1>3

\* One loop's record replaced, the others as they were.
LEMMA OneLoopMoves ==
  ASSUME HeartShape, NEW l \in Loops, NEW m \in LoopType, loops' = [loops EXCEPT ![l] = m]
  PROVE  loops' \in [Loops -> LoopType] /\ loops'[l] = m /\ \A k \in Loops \ {l} : loops'[k] = loops[k]
  BY DEF HeartShape

LEMMA LoopMovesTo ==
  ASSUME HeartShape, NEW l \in Loops, NEW stage \in LoopStages, LoopAt(l, stage)
  PROVE  /\ loops' \in [Loops -> LoopType] /\ loops'[l].at = stage
         /\ \A k \in Loops \ {l} : loops'[k] = loops[k]
<1> DEFINE m == [Idle EXCEPT !.at = stage]
<1>1. m \in LoopType /\ m.at = stage
  <2>1. Idle \in LoopType
    <3>1. <<>> \in Seq(Nat)
      OBVIOUS
    <3> QED BY <3>1 DEF Idle, LoopType, LoopStages
  <2> QED BY <2>1 DEF LoopType
<1>2. loops' = [loops EXCEPT ![l] = m]
  BY DEF LoopAt
<1> HIDE DEF m
<1> QED BY <1>1, <1>2, OneLoopMoves

\* A step that touches neither count nor list, and leaves no loop in the middle
\* of a heartbeat that was not in it before.
LEMMA QuietStep ==
  ASSUME HeartInv, ErrorsKept, loops' \in [Loops -> LoopType], Single' => Single, running' \in BOOLEAN,
         \A k \in Loops : loops'[k] = loops[k] \/ (loops[k].at # "clearing" /\ loops'[k].at \in {"none", "ticking"}),
         OneLoopBeats'
  PROVE  HeartInv'
<1>1. HeartShape'
  BY DEF HeartInv, HeartShape, ErrorsKept, Unlisted
<1>2. ErrorsAreReported'
  BY DEF HeartInv, ErrorsAreReported, ErrorsKept, Unlisted, Listed
<1>3. Clearing' = Clearing /\ Unlisted' = Unlisted /\ Ids' = Ids /\ Listed' = Listed
  BY DEF Clearing, Looping, ErrorsKept, Unlisted, Ids, Listed
<1>4. Carrying'
  BY DEF HeartInv, Carrying, ErrorsKept, Listed, Looping
<1>5. Counted' /\ Cleared'
  BY <1>3 DEF HeartInv, Counted, Cleared, ErrorsKept
<1>6. WasHealthy'
  BY <1>3 DEF HeartInv, WasHealthy, ErrorsKept, Looping
<1>7. HealthyCarriesNoErrors'
  BY DEF HeartInv, HealthyCarriesNoErrors, ErrorsKept, Looping, Single
<1> QED BY <1>1, <1>2, <1>4, <1>5, <1>6, <1>7 DEF HeartInv

LEMMA StartStopKeep ==
  ASSUME HeartInv, (\E l \in Loops : Start(l)) \/ Stop
  PROVE  HeartInv'
<1>1. CASE Stop
  <2>1. ErrorsKept /\ UNCHANGED <<loops, beatGaps>> /\ running' = FALSE
    BY <1>1 DEF Stop
  <2>2. OneLoopBeats'
    BY <2>1 DEF HeartInv, OneLoopBeats, Alive, Looping
  <2> QED BY <2>1, <2>2, QuietStep DEF HeartInv, HeartShape, Single
<1>2. ASSUME NEW l \in Loops, Start(l) PROVE HeartInv'
  <2>1. ErrorsKept /\ Looping(l, "none") /\ running' = TRUE
    BY <1>2 DEF Start
  <2>2. CASE /\ loops' = [loops EXCEPT ![l] = [Idle EXCEPT !.at = "ticking"]]
             /\ beatGaps' = beatGaps \cup (IF Alive = {} THEN {} ELSE {"two-loops"})
    <3>1. LoopAt(l, "ticking")
      BY <2>2 DEF LoopAt
    <3>2. /\ loops' \in [Loops -> LoopType] /\ loops'[l].at = "ticking"
          /\ \A k \in Loops \ {l} : loops'[k] = loops[k]
      BY <3>1, LoopMovesTo DEF HeartInv, LoopStages
    <3>3. OneLoopBeats'
      <4>1. l \in Alive'
        BY <3>2 DEF Alive, Looping
      <4>2. ASSUME "two-loops" \notin beatGaps', NEW k \in Alive' PROVE k = l
        <5>1. Alive = {}
          BY <2>2, <4>2
        <5> QED BY <3>2, <5>1 DEF Alive, Looping
      <4> QED BY <4>1, <4>2 DEF OneLoopBeats
    <3>4. Single' => Single
      BY <2>2 DEF Single
    <3> QED BY <2>1, <3>2, <3>3, <3>4, QuietStep DEF Looping
  <2>3. CASE UNCHANGED loops /\ beatGaps' = beatGaps \cup {"zero-interval"}
    <3>1. OneLoopBeats'
      BY <2>3 DEF HeartInv, OneLoopBeats, Alive, Looping
    <3>2. Single' => Single
      BY <2>3 DEF Single
    <3> QED BY <2>1, <2>3, <3>1, <3>2, QuietStep DEF HeartInv, HeartShape
  <2> QED BY <1>2, <2>2, <2>3 DEF Start
<1> QED BY <1>1, <1>2

LEMMA TickKeeps ==
  ASSUME HeartInv, NEW l \in Loops, Tick(l)
  PROVE  HeartInv'
<1>1. ErrorsKept /\ UNCHANGED <<running, beatGaps>> /\ loops[l].at = "ticking"
  BY DEF Tick, Looping
<1>2. CASE ~running /\ LoopAt(l, "none")
  <2>1. /\ loops' \in [Loops -> LoopType] /\ loops'[l].at = "none"
        /\ \A k \in Loops \ {l} : loops'[k] = loops[k]
    BY <1>2, LoopMovesTo DEF HeartInv, LoopStages
  <2>2. OneLoopBeats'
    BY <1>1, <1>2, <2>1 DEF HeartInv, OneLoopBeats, Alive, Looping
  <2> QED BY <1>1, <2>1, <2>2, QuietStep DEF HeartInv, HeartShape, Single
<1>3. CASE loops' = [loops EXCEPT ![l].at = "counted",
             ![l].status = IF count > Degraded THEN "ERROR" ELSE IF count > 0 THEN "DEGRADED" ELSE "HEALTHY"]
  <2> DEFINE grade == IF count > Degraded THEN "ERROR" ELSE IF count > 0 THEN "DEGRADED" ELSE "HEALTHY"
  <2>0. count \in Nat /\ Degraded \in Nat /\ loops[l] \in LoopType
    BY HeartbeatAssumption DEF HeartInv, HeartShape
  <2>1. /\ loops' \in [Loops -> LoopType] /\ loops'[l].at = "counted" /\ loops'[l].status = grade
        /\ \A k \in Loops \ {l} : loops'[k] = loops[k]
    <3>1. grade \in {"HEALTHY", "DEGRADED", "ERROR"}
      OBVIOUS
    <3> HIDE DEF grade
    <3>2. loops' = [loops EXCEPT ![l].at = "counted", ![l].status = grade]
      BY <1>3 DEF grade
    <3> QED BY <2>0, <3>1, <3>2 DEF HeartInv, HeartShape, LoopType, LoopStages
  <2>2. grade = "HEALTHY" => count = 0
    BY <2>0
  <2> HIDE DEF grade
  <2>3. Clearing' = Clearing /\ Unlisted' = Unlisted /\ Ids' = Ids /\ Listed' = Listed /\ Alive' = Alive
    BY <1>1, <2>1 DEF Clearing, Looping, ErrorsKept, Unlisted, Ids, Listed, Alive
  <2>4. HeartShape' /\ ErrorsAreReported'
    BY <1>1, <2>1, <2>3 DEF HeartInv, HeartShape, ErrorsAreReported, ErrorsKept, Ids
  <2>5. Carrying'
    BY <1>1, <2>1, <2>3 DEF HeartInv, Carrying, ErrorsKept, Looping
  <2>6. OneLoopBeats'
    BY <1>1, <2>3 DEF HeartInv, OneLoopBeats
  <2>7. Counted' /\ Cleared'
    BY <1>1, <2>3 DEF HeartInv, Counted, Cleared, ErrorsKept, Single
  <2>8. WasHealthy'
    <3> SUFFICES ASSUME NEW k \in Loops, Single', loops'[k].at = "counted", loops'[k].status = "HEALTHY"
                 PROVE  Listed' \subseteq overlapped' /\ (overlapped' = {} => count' = 0)
      BY DEF WasHealthy, Looping
    <3>1. CASE k = l
      <4>1. count = 0
        BY <2>1, <2>2, <3>1
      <4>2. Clearing = {}
        <5> SUFFICES ASSUME NEW c \in Loops, loops[c].at = "clearing" PROVE FALSE
          BY DEF Clearing, Looping
        <5>1. c = l
          BY <1>1 DEF HeartInv, OneLoopBeats, Alive, Looping, Single
        <5> QED BY <1>1, <5>1
      <4>3. Listed \subseteq overlapped
        BY <1>1, <4>1, <4>2 DEF HeartInv, Cleared, Single
      <4> QED BY <1>1, <2>3, <4>1, <4>3 DEF ErrorsKept
    <3>2. CASE k # l
      BY <1>1, <2>1, <2>3, <3>2 DEF HeartInv, WasHealthy, ErrorsKept, Looping, Single
    <3> QED BY <3>1, <3>2
  <2>9. HealthyCarriesNoErrors'
    BY <1>1, <2>1 DEF HeartInv, HealthyCarriesNoErrors, ErrorsKept, Looping
  <2> QED BY <2>4, <2>5, <2>6, <2>7, <2>8, <2>9 DEF HeartInv
<1> QED BY <1>2, <1>3 DEF Tick

LEMMA ReportKeeps ==
  ASSUME HeartInv, NEW l \in Loops, Report(l)
  PROVE  HeartInv'
<1>1. ErrorsKept /\ UNCHANGED <<running, beatGaps>> /\ loops[l].at = "counted"
  BY DEF Report, Looping
<1>2. /\ loops' \in [Loops -> LoopType] /\ loops'[l].at = "asked" /\ loops'[l].status = loops[l].status
      /\ loops'[l].count = count /\ loops'[l].errors = recent
      /\ \A k \in Loops \ {l} : loops'[k] = loops[k]
  <2>1. loops' = [loops EXCEPT ![l].at = "asked", ![l].count = count, ![l].errors = recent]
    BY DEF Report
  <2>2. count \in Nat /\ recent \in Seq(Nat) /\ loops \in [Loops -> LoopType]
    BY DEF HeartInv, HeartShape
  <2> QED BY <2>1, <2>2 DEF LoopType, LoopStages
<1>3. Clearing' = Clearing /\ Unlisted' = Unlisted /\ Ids' = Ids /\ Listed' = Listed /\ Alive' = Alive
  BY <1>1, <1>2 DEF Clearing, Looping, ErrorsKept, Unlisted, Ids, Listed, Alive
<1>4. HeartShape' /\ ErrorsAreReported'
  BY <1>1, <1>2, <1>3 DEF HeartInv, HeartShape, ErrorsAreReported, ErrorsKept, Ids
<1>5. Carrying'
  BY <1>1, <1>2, <1>3 DEF HeartInv, Carrying, ErrorsKept, Looping, Listed, ItemsOf
<1>6. OneLoopBeats'
  BY <1>1, <1>3 DEF HeartInv, OneLoopBeats
<1>7. Counted' /\ Cleared'
  BY <1>1, <1>3 DEF HeartInv, Counted, Cleared, ErrorsKept, Single
<1>8. WasHealthy'
  BY <1>1, <1>2, <1>3 DEF HeartInv, WasHealthy, ErrorsKept, Looping, Single
<1>9. HealthyCarriesNoErrors'
  <2> SUFFICES ASSUME NEW k \in Loops, loops'[k].at = "asked", loops'[k].status = "HEALTHY", Single
               PROVE  ItemsOf(loops'[k].errors) \subseteq overlapped /\ (overlapped = {} => loops'[k].count = 0)
    BY <1>1 DEF HealthyCarriesNoErrors, Looping, ItemsOf, Single, ErrorsKept
  <2>1. CASE k = l
    BY <1>1, <1>2, <2>1 DEF HeartInv, WasHealthy, Looping, Listed, ItemsOf
  <2>2. CASE k # l
    BY <1>2, <2>2 DEF HeartInv, HealthyCarriesNoErrors, Looping, ItemsOf, Single
  <2> QED BY <2>1, <2>2
<1> QED BY <1>4, <1>5, <1>6, <1>7, <1>8, <1>9 DEF HeartInv

LEMMA BeatKeeps ==
  ASSUME HeartInv, NEW l \in Loops, BeatFails(l) \/ BeatAnswered(l)
  PROVE  HeartInv'
<1>1. /\ loops[l].at = "asked" /\ (LoopAt(l, "ticking") \/ LoopAt(l, "answered"))
      /\ UNCHANGED <<running, beatGaps, count, recent, recorders, errors, evicted, overlapped>>
  BY DEF BeatFails, BeatAnswered, Looping, ErrorsKept
<1>2. reported \subseteq reported' /\ (LoopAt(l, "answered") => ItemsOf(loops[l].errors) \subseteq reported')
  <2>1. CASE BeatFails(l)
    <3>1. loops'[l].at = "ticking"
      BY <2>1, LoopMovesTo DEF BeatFails, HeartInv, LoopStages
    <3>2. LoopAt(l, "answered") => loops'[l].at = "answered"
      BY LoopMovesTo DEF HeartInv, LoopStages
    <3> QED BY <2>1, <3>1, <3>2 DEF BeatFails, ErrorsKept
  <2>2. CASE BeatAnswered(l)
    <3>1. LoopAt(l, "ticking") => loops'[l].at = "ticking"
      BY LoopMovesTo DEF HeartInv, LoopStages
    <3>2. LoopAt(l, "answered") => loops'[l].at = "answered"
      BY LoopMovesTo DEF HeartInv, LoopStages
    <3> QED BY <2>2, <3>1, <3>2 DEF BeatAnswered, ItemsOf
  <2> QED BY <2>1, <2>2
<1>3. /\ loops' \in [Loops -> LoopType] /\ loops'[l].at \in {"ticking", "answered"}
      /\ (loops'[l].at = "answered" => ItemsOf(loops[l].errors) \subseteq reported')
      /\ \A k \in Loops \ {l} : loops'[k] = loops[k]
  <2>1. CASE LoopAt(l, "ticking")
    BY <2>1, LoopMovesTo DEF HeartInv, LoopStages
  <2>2. CASE LoopAt(l, "answered")
    BY <1>2, <2>2, LoopMovesTo DEF HeartInv, LoopStages
  <2> QED BY <1>1, <2>1, <2>2
<1>4. Clearing' = Clearing /\ Unlisted' = Unlisted /\ Ids' = Ids /\ Listed' = Listed /\ Alive' = Alive
  BY <1>1, <1>3 DEF Clearing, Looping, Unlisted, Ids, Listed, Alive
<1>5. HeartShape'
  BY <1>1, <1>3, <1>4 DEF HeartInv, HeartShape
<1>6. ErrorsAreReported'
  BY <1>1, <1>2, <1>4 DEF HeartInv, ErrorsAreReported, Ids
<1>7. Carrying'
  BY <1>1, <1>2, <1>3, <1>4 DEF HeartInv, Carrying, Looping
<1>8. OneLoopBeats' /\ Counted' /\ Cleared'
  BY <1>1, <1>4 DEF HeartInv, OneLoopBeats, Counted, Cleared, Single
<1>9. WasHealthy'
  BY <1>1, <1>3, <1>4 DEF HeartInv, WasHealthy, Looping, Single
<1>10. HealthyCarriesNoErrors'
  BY <1>1, <1>3 DEF HeartInv, HealthyCarriesNoErrors, Looping
<1> QED BY <1>5, <1>6, <1>7, <1>8, <1>9, <1>10 DEF HeartInv

LEMMA ClearCountKeeps ==
  ASSUME HeartInv, NEW l \in Loops, ClearCount(l)
  PROVE  HeartInv'
<1>1. /\ loops[l].at = "answered" /\ count' = 0 /\ overlapped' = overlapped \cup Ids
      /\ UNCHANGED <<running, recent, recorders, errors, reported, evicted, beatGaps>>
  BY DEF ClearCount, Looping, Ids
<1>2. /\ loops' \in [Loops -> LoopType] /\ loops'[l].at = "clearing"
      /\ \A k \in Loops \ {l} : loops'[k] = loops[k]
  BY LoopMovesTo DEF ClearCount, HeartInv, LoopStages
<1>3. Clearing' = Clearing \cup {l} /\ Unlisted' = Unlisted /\ Ids' = Ids /\ Listed' = Listed /\ Alive' = Alive
  BY <1>1, <1>2 DEF Clearing, Looping, Unlisted, Ids, Listed, Alive
<1>4. HeartShape'
  BY <1>1, <1>2, <1>3 DEF HeartInv, HeartShape
<1>5. ErrorsAreReported'
  BY <1>1, <1>3 DEF HeartInv, ErrorsAreReported, Ids
<1>6. Carrying'
  BY <1>1, <1>2, <1>3 DEF HeartInv, Carrying, Looping
<1>7. OneLoopBeats'
  BY <1>1, <1>3 DEF HeartInv, OneLoopBeats
<1>8. Counted'
  <2> SUFFICES ASSUME overlapped' = {} PROVE Cardinality(Unlisted') <= count'
    BY <1>1, <1>3 DEF Counted
  <2>1. Unlisted = {}
    BY <1>1 DEF Ids
  <2> QED BY <1>1, <1>3, <2>1, FS_EmptySet
<1>9. Cleared'
  BY <1>1, <1>3 DEF Cleared
<1>10. WasHealthy'
  <2> SUFFICES ASSUME NEW k \in Loops, Single', loops'[k].at = "counted", loops'[k].status = "HEALTHY"
               PROVE  Listed' \subseteq overlapped' /\ count' = 0
    BY DEF WasHealthy, Looping
  <2>1. k # l
    BY <1>2
  <2> QED BY <1>1, <1>2, <1>3, <2>1 DEF HeartInv, WasHealthy, Looping, Single
<1>11. HealthyCarriesNoErrors'
  BY <1>1, <1>2 DEF HeartInv, HealthyCarriesNoErrors, Looping
<1> QED BY <1>4, <1>5, <1>6, <1>7, <1>8, <1>9, <1>10, <1>11 DEF HeartInv

LEMMA ClearListKeeps ==
  ASSUME HeartInv, NEW l \in Loops, ClearList(l)
  PROVE  HeartInv'
<1>1. /\ loops[l].at = "clearing" /\ recent' = <<>>
      /\ UNCHANGED <<running, count, recorders, errors, reported, evicted, overlapped, beatGaps>>
  BY DEF ClearList, Looping
<1>2. /\ loops' \in [Loops -> LoopType] /\ loops'[l].at = "ticking"
      /\ \A k \in Loops \ {l} : loops'[k] = loops[k]
  BY LoopMovesTo DEF ClearList, HeartInv, LoopStages
<1>3. Clearing' = Clearing \ {l} /\ Unlisted' = Unlisted /\ Ids' = Ids /\ Listed' = {} /\ Alive' = Alive
  BY <1>1, <1>2 DEF Clearing, Looping, Unlisted, Ids, Listed, Alive
<1>4. HeartShape'
  <2>1. <<>> \in Seq(Nat) /\ Len(<<>>) <= MaxRecent
    BY HeartbeatAssumption
  <2> QED BY <1>1, <1>2, <1>3, <2>1 DEF HeartInv, HeartShape
<1>5. ErrorsAreReported'
  <2>1. Listed \subseteq reported \cup overlapped
    BY <1>1 DEF HeartInv, Carrying
  <2> QED BY <1>1, <1>3, <2>1 DEF HeartInv, ErrorsAreReported, Ids
<1>6. Carrying'
  BY <1>3 DEF Carrying
<1>7. OneLoopBeats'
  BY <1>1, <1>3 DEF HeartInv, OneLoopBeats
<1>8. Counted'
  <2> SUFFICES ASSUME Single, overlapped = {}
               PROVE  /\ Cardinality(Unlisted) <= count /\ (Clearing' # {} => count = 0)
                      /\ Len(recent') = IF count - Cardinality(Unlisted) <= MaxRecent
                                        THEN count - Cardinality(Unlisted) ELSE MaxRecent
    BY <1>1, <1>3 DEF Counted, Single
  <2>1. Cardinality(Unlisted) <= count /\ count = 0
    BY <1>1 DEF HeartInv, Counted, Clearing, Looping
  <2>2. Cardinality(Unlisted) \in Nat
    BY FS_CardinalityType DEF HeartInv, HeartShape
  <2>3. Cardinality(Unlisted) = 0
    BY <2>1, <2>2
  <2> QED BY <1>1, <2>1, <2>3, HeartbeatAssumption
<1>9. Cleared'
  BY <1>1, <1>3 DEF HeartInv, Cleared, Single
<1>10. WasHealthy'
  BY <1>1, <1>2, <1>3 DEF HeartInv, WasHealthy, Looping, Single
<1>11. HealthyCarriesNoErrors'
  BY <1>1, <1>2 DEF HeartInv, HealthyCarriesNoErrors, Looping
<1> QED BY <1>4, <1>5, <1>6, <1>7, <1>8, <1>9, <1>10, <1>11 DEF HeartInv

\* An error counted and not yet listed.
LEMMA CountKeeps ==
  ASSUME HeartInv, NEW r \in Recorders, Count(r)
  PROVE  HeartInv'
<1> DEFINE e == errors + 1
<1>1. /\ recorders[r] = 0 /\ errors' = e /\ count' = count + 1 /\ recorders' = [recorders EXCEPT ![r] = e]
      /\ overlapped' = overlapped \cup (IF Beating = {} THEN {} ELSE {e})
      /\ UNCHANGED <<running, recent, loops, reported, evicted, beatGaps>>
  BY DEF Count
<1>2. errors \in Nat /\ count \in Nat /\ e \in Nat \ {0} /\ recorders \in [Recorders -> Nat]
  BY DEF HeartInv, HeartShape
<1> HIDE DEF e
<1>3. Unlisted' = Unlisted \cup {r} /\ r \notin Unlisted /\ Ids' = Ids \cup {e}
  <2>1. \A q \in Recorders : recorders'[q] = IF q = r THEN e ELSE recorders[q]
    BY <1>1, <1>2
  <2>2. Unlisted' = Unlisted \cup {r} /\ r \notin Unlisted
    BY <1>1, <1>2, <2>1 DEF Unlisted
  <2> QED BY <1>1, <2>1, <2>2 DEF Ids
<1>4. IsFiniteSet(Unlisted') /\ Cardinality(Unlisted') = Cardinality(Unlisted) + 1 /\ Cardinality(Unlisted) \in Nat
  <2>1. IsFiniteSet(Unlisted)
    BY DEF HeartInv, HeartShape
  <2> QED BY <1>3, <2>1, FS_AddElement, FS_CardinalityType
<1>5. Clearing' = Clearing /\ Listed' = Listed /\ Alive' = Alive
  BY <1>1 DEF Clearing, Looping, Listed, Alive
<1>6. HeartShape'
  BY <1>1, <1>2, <1>4 DEF HeartInv, HeartShape
<1>7. ErrorsAreReported'
  <2> SUFFICES ASSUME NEW d \in 1..errors' PROVE d \in reported' \cup Listed' \cup Ids' \cup evicted' \cup overlapped'
    BY DEF ErrorsAreReported, Ids
  <2>1. d = e \/ d \in 1..errors
    BY <1>1, <1>2 DEF e
  <2>2. d \in 1..errors => d \in reported \cup Listed \cup Ids \cup evicted \cup overlapped
    BY DEF HeartInv, ErrorsAreReported, Ids
  <2> QED BY <1>1, <1>3, <1>5, <2>1, <2>2
<1>8. Carrying'
  BY <1>1, <1>5 DEF HeartInv, Carrying, Looping
<1>9. OneLoopBeats'
  BY <1>1, <1>5 DEF HeartInv, OneLoopBeats
<1>10. Counted'
  <2> SUFFICES ASSUME Single, overlapped' = {}
               PROVE  /\ Cardinality(Unlisted') <= count' /\ Clearing' = {}
                      /\ Len(recent) = IF count' - Cardinality(Unlisted') <= MaxRecent
                                       THEN count' - Cardinality(Unlisted') ELSE MaxRecent
    BY <1>1 DEF Counted, Single
  <2>1. overlapped = {} /\ Beating = {}
    BY <1>1
  <2>2. Clearing = {}
    BY <2>1 DEF Beating, Clearing, Looping
  <2>3. count' - Cardinality(Unlisted') = count - Cardinality(Unlisted)
    BY <1>1, <1>2, <1>4
  <2> QED BY <1>1, <1>2, <1>4, <1>5, <2>1, <2>2, <2>3 DEF HeartInv, Counted
<1>11. Cleared'
  BY <1>1, <1>2 DEF Cleared
<1>12. WasHealthy'
  <2> SUFFICES ASSUME NEW k \in Loops, Single', loops'[k].at = "counted", loops'[k].status = "HEALTHY"
               PROVE  Listed' \subseteq overlapped' /\ (overlapped' = {} => count' = 0)
    BY DEF WasHealthy, Looping
  <2>1. k \in Beating
    BY <1>1 DEF Beating
  <2> QED BY <1>1, <1>5, <2>1 DEF HeartInv, WasHealthy, Looping, Single
<1>13. HealthyCarriesNoErrors'
  BY <1>1 DEF HeartInv, HealthyCarriesNoErrors, Looping
<1> QED BY <1>6, <1>7, <1>8, <1>9, <1>10, <1>11, <1>12, <1>13 DEF HeartInv

\* An error listed, and the oldest pushed out if there is no room.
LEMMA ListKeeps ==
  ASSUME HeartInv, NEW r \in Recorders, List(r)
  PROVE  HeartInv'
<1> DEFINE e == recorders[r]
           full == Len(recent) >= MaxRecent
           kept == IF full THEN Tail(recent) ELSE recent
<1>1. /\ e # 0 /\ recorders' = [recorders EXCEPT ![r] = 0] /\ recent' = Append(kept, e)
      /\ evicted' = evicted \cup (IF full THEN {Head(recent)} ELSE {})
      /\ overlapped' = overlapped \cup (IF Beating = {} THEN {} ELSE {e})
      /\ UNCHANGED <<running, count, loops, errors, reported, beatGaps>>
  BY DEF List
<1>2. /\ e \in Nat /\ count \in Nat /\ recorders \in [Recorders -> Nat] /\ recent \in Seq(Nat)
      /\ Len(recent) \in Nat /\ Len(recent) <= MaxRecent /\ MaxRecent \in Nat \ {0}
  BY HeartbeatAssumption DEF HeartInv, HeartShape
<1>3. Unlisted' = Unlisted \ {r} /\ r \in Unlisted /\ Ids' \subseteq Ids /\ Ids \subseteq Ids' \cup {e}
  <2>1. \A q \in Recorders : recorders'[q] = IF q = r THEN 0 ELSE recorders[q]
    BY <1>1, <1>2
  <2>2. Unlisted' = Unlisted \ {r} /\ r \in Unlisted
    BY <1>1, <2>1 DEF Unlisted
  <2>3. \A x \in Ids' : x \in Ids
    <3> SUFFICES ASSUME NEW q \in Unlisted' PROVE recorders'[q] \in Ids
      BY DEF Ids
    <3> QED BY <2>1, <2>2 DEF Ids, Unlisted
  <2>4. \A x \in Ids : x \in Ids' \/ x = e
    <3> SUFFICES ASSUME NEW q \in Unlisted, q # r PROVE recorders[q] \in Ids'
      BY DEF Ids
    <3>1. q \in Unlisted' /\ recorders'[q] = recorders[q]
      BY <2>1, <2>2 DEF Unlisted
    <3> QED BY <3>1, Zenon DEF Ids
  <2> QED BY <2>2, <2>3, <2>4
<1>4. /\ IsFiniteSet(Unlisted') /\ Cardinality(Unlisted') = Cardinality(Unlisted) - 1
      /\ Cardinality(Unlisted) \in Nat /\ Cardinality(Unlisted) >= 1
  <2>1. IsFiniteSet(Unlisted)
    BY DEF HeartInv, HeartShape
  <2>2. IsFiniteSet(Unlisted') /\ Cardinality(Unlisted') = Cardinality(Unlisted) - 1 /\ Cardinality(Unlisted') \in Nat
    BY <1>3, <2>1, FS_RemoveElement, FS_CardinalityType
  <2> QED BY <2>1, <2>2, FS_CardinalityType
<1>5. /\ recent' \in Seq(Nat) /\ Len(recent') = IF full THEN MaxRecent ELSE Len(recent) + 1
      /\ Listed' \subseteq Listed \cup {e} /\ e \in Listed'
      /\ Listed \subseteq Listed' \cup (IF full THEN {Head(recent)} ELSE {})
  <2>1. CASE full
    <3>1. /\ Tail(recent) \in Seq(Nat) /\ Len(Tail(recent)) = Len(recent) - 1
          /\ ItemsOf(Tail(recent)) \subseteq ItemsOf(recent)
          /\ ItemsOf(recent) \subseteq ItemsOf(Tail(recent)) \cup {Head(recent)}
      BY <1>2, <2>1, Items
    <3>2. Append(Tail(recent), e) \in Seq(Nat) /\ Len(Append(Tail(recent), e)) = Len(Tail(recent)) + 1
          /\ ItemsOf(Append(Tail(recent), e)) = ItemsOf(Tail(recent)) \cup {e}
      BY <1>2, <3>1, Items
    <3>3. recent' = Append(Tail(recent), e) /\ Listed = ItemsOf(recent) /\ Listed' = ItemsOf(recent')
      BY <1>1, <2>1 DEF Listed, ItemsOf
    <3>4. Len(recent') = MaxRecent
      <4>1. Len(recent) = MaxRecent
        BY <1>2, <2>1
      <4>2. Len(recent') = (Len(recent) - 1) + 1
        BY <3>1, <3>2, <3>3
      <4> QED BY <1>2, <4>1, <4>2
    <3>5. /\ recent' \in Seq(Nat) /\ Listed' \subseteq Listed \cup {e} /\ e \in Listed'
          /\ Listed \subseteq Listed' \cup {Head(recent)}
      BY <3>1, <3>2, <3>3
    <3> QED BY <2>1, <3>4, <3>5
  <2>2. CASE ~full
    <3>1. Append(recent, e) \in Seq(Nat) /\ Len(Append(recent, e)) = Len(recent) + 1
          /\ ItemsOf(Append(recent, e)) = ItemsOf(recent) \cup {e}
      BY <1>2, Items
    <3>2. recent' = Append(recent, e) /\ Listed = ItemsOf(recent) /\ Listed' = ItemsOf(recent')
      BY <1>1, <2>2 DEF Listed, ItemsOf
    <3> QED BY <1>2, <2>2, <3>1, <3>2
  <2> QED BY <2>1, <2>2
<1>6. Clearing' = Clearing /\ Alive' = Alive
  BY <1>1 DEF Clearing, Looping, Alive
<1>7. HeartShape'
  BY <1>1, <1>2, <1>4, <1>5 DEF HeartInv, HeartShape
<1> HIDE DEF e, kept
<1>8. ErrorsAreReported'
  <2> SUFFICES ASSUME NEW d \in 1..errors PROVE d \in reported' \cup Listed' \cup Ids' \cup evicted' \cup overlapped'
    BY <1>1 DEF ErrorsAreReported, Ids
  <2>1. d \in reported \cup Listed \cup Ids \cup evicted \cup overlapped
    BY DEF HeartInv, ErrorsAreReported, Ids
  <2> HIDE DEF full
  <2> QED BY <1>1, <1>3, <1>5, <2>1
<1>9. Carrying'
  <2> SUFFICES ASSUME NEW k \in Loops, loops[k].at \in {"asked", "answered", "clearing"}
               PROVE  /\ loops[k].at = "asked" => Listed' \subseteq ItemsOf(loops[k].errors) \cup overlapped'
                      /\ loops[k].at # "asked" => Listed' \subseteq reported \cup overlapped'
    BY <1>1 DEF Carrying, Looping
  <2>1. Beating # {}
    BY DEF Beating
  <2>2. overlapped' = overlapped \cup {e}
    BY <1>1, <2>1
  <2> QED BY <1>5, <2>2 DEF HeartInv, Carrying, Looping
<1>10. OneLoopBeats'
  BY <1>1, <1>6 DEF HeartInv, OneLoopBeats
<1>11. Counted'
  <2> SUFFICES ASSUME Single, overlapped' = {}
               PROVE  /\ Cardinality(Unlisted') <= count /\ Clearing' = {}
                      /\ Len(recent') = IF count - Cardinality(Unlisted') <= MaxRecent
                                       THEN count - Cardinality(Unlisted') ELSE MaxRecent
    BY <1>1 DEF Counted, Single
  <2>1. overlapped = {} /\ Beating = {}
    BY <1>1
  <2>2. Clearing = {}
    BY <2>1 DEF Beating, Clearing, Looping
  <2>3. /\ Cardinality(Unlisted) <= count
        /\ Len(recent) = IF count - Cardinality(Unlisted) <= MaxRecent
                         THEN count - Cardinality(Unlisted) ELSE MaxRecent
    BY <2>1, <2>2 DEF HeartInv, Counted
  <2>4. Len(recent') = IF Len(recent) >= MaxRecent THEN MaxRecent ELSE Len(recent) + 1
    BY <1>5
  <2> QED BY <1>2, <1>4, <1>6, <2>2, <2>3, <2>4
<1>12. Cleared'
  <2> SUFFICES ASSUME Single, count = 0 PROVE Ids' \subseteq overlapped' /\ (Clearing = {} => Listed' \subseteq overlapped')
    BY <1>1, <1>6 DEF Cleared, Single
  <2>1. Ids \subseteq overlapped /\ (Clearing = {} => Listed \subseteq overlapped)
    BY DEF HeartInv, Cleared
  <2>2. e \in Ids
    BY <1>3 DEF Ids, e
  <2> QED BY <1>1, <1>3, <1>5, <2>1, <2>2
<1>13. WasHealthy'
  <2> SUFFICES ASSUME NEW k \in Loops, Single, loops[k].at = "counted", loops[k].status = "HEALTHY"
               PROVE  Listed' \subseteq overlapped' /\ overlapped' # {}
    BY <1>1 DEF WasHealthy, Looping, Single
  <2>1. Beating # {}
    BY DEF Beating
  <2>2. overlapped' = overlapped \cup {e}
    BY <1>1, <2>1
  <2> QED BY <1>5, <2>2 DEF HeartInv, WasHealthy, Looping
<1>14. HealthyCarriesNoErrors'
  BY <1>1 DEF HeartInv, HealthyCarriesNoErrors, Looping
<1> QED BY <1>7, <1>8, <1>9, <1>10, <1>11, <1>12, <1>13, <1>14 DEF HeartInv

\* No error is cleared that no heartbeat carried, unless it was pushed out by
\* newer ones or came while a heartbeat was under way; as long as none came so
\* and no two loops ran, the count and the list agree when nothing is under way
\* and a heartbeat that says HEALTHY carries no errors; and one loop beats unless
\* the service was started again before its loop had ended - for any number of
\* loops and recorders.
THEOREM HeartbeatHonestAlways == HeartSpec => []HeartbeatIsHonest
<1>1. HeartInit => HeartInv
  <2> SUFFICES ASSUME HeartInit PROVE HeartInv
    OBVIOUS
  <2>1. Unlisted = {} /\ Listed = {} /\ Clearing = {} /\ Alive = {}
    BY DEF HeartInit, Unlisted, Listed, Clearing, Alive, Looping, Idle
  <2>2. HeartShape
    <3>1. <<>> \in Seq(Nat) /\ Len(<<>>) = 0
      OBVIOUS
    <3>2. Idle \in LoopType
      BY <3>1 DEF Idle, LoopType, LoopStages
    <3>3. loops \in [Loops -> LoopType] /\ recorders \in [Recorders -> Nat]
      BY <3>2 DEF HeartInit
    <3>4. running \in BOOLEAN
      BY DEF HeartInit
    <3>5. recent \in Seq(Nat) /\ Len(recent) <= MaxRecent
      BY <3>1, HeartbeatAssumption DEF HeartInit
    <3>6. count \in Nat /\ errors \in Nat
      BY DEF HeartInit
    <3> QED BY <2>1, <3>3, <3>4, <3>5, <3>6, FS_EmptySet DEF HeartShape
  <2>3. ErrorsAreReported /\ Carrying /\ OneLoopBeats /\ WasHealthy /\ HealthyCarriesNoErrors
    BY <2>1 DEF HeartInit, ErrorsAreReported, Carrying, OneLoopBeats, WasHealthy, HealthyCarriesNoErrors, Looping, Idle
  <2>4. Counted
    BY <2>1, FS_EmptySet, HeartbeatAssumption DEF HeartInit, Counted
  <2>5. Cleared
    BY <2>1 DEF Cleared, Ids
  <2> QED BY <2>2, <2>3, <2>4, <2>5 DEF HeartInv
<1>2. HeartInv /\ [HeartNext]_heartVars => HeartInv'
  <2> SUFFICES ASSUME HeartInv, [HeartNext]_heartVars PROVE HeartInv'
    OBVIOUS
  <2>1. CASE UNCHANGED heartVars
    <3>1. ErrorsKept /\ UNCHANGED <<running, loops, beatGaps>>
      BY <2>1 DEF heartVars, ErrorsKept
    <3>2. OneLoopBeats'
      BY <3>1 DEF HeartInv, OneLoopBeats, Alive, Looping
    <3> QED BY <3>1, <3>2, QuietStep DEF HeartInv, HeartShape, Single
  <2> QED BY <2>1, StartStopKeep, TickKeeps, ReportKeeps, BeatKeeps, ClearCountKeeps, ClearListKeeps,
             CountKeeps, ListKeeps DEF HeartNext
<1>3. HeartInv => HeartbeatIsHonest
  <2> SUFFICES ASSUME HeartInv PROVE CountMatchesList
    BY DEF HeartInv, HeartbeatIsHonest
  <2>1. HeartShape /\ Counted /\ (Unlisted = {} => Cardinality(Unlisted) = 0)
    BY FS_EmptySet DEF HeartInv
  <2>2. (\A l \in Loops : ~Looping(l, "clearing")) => Clearing = {}
    BY DEF Clearing
  <2> QED BY <2>1, <2>2 DEF HeartShape, Counted, CountMatchesList, Single
<1> QED BY <1>1, <1>2, <1>3, PTL DEF HeartSpec

-----------------------------------------------------------------------------
(* The security policies.                                                  *)

RefreshStages == {"idle", "asked", "storing", "stamping"}

\* Where the policy held comes from, and which refresh last wrote it.
PolicyInv ==
  /\ published \in Seq(Documents) /\ Len(published) > 0
  /\ held \in 0..Len(published) /\ hash \in 0..Len(published)
  /\ policy = FromDeclared(IF held = NeverLoaded THEN Omitted ELSE published[held])
  /\ DOMAIN refreshers = Refreshers
  /\ \A r \in Refreshers :
       /\ refreshers[r].at \in RefreshStages
       /\ refreshers[r].at \in {"storing", "stamping"} => refreshers[r].version \in 1..Len(published)
  /\ ~crossed => /\ Between = {} => hash = held
                 /\ \A r, s \in Between : r = s
                 /\ \A r \in Between : refreshers[r].version = held

\* The values a document can carry, by their shape.
LEMMA ShapeOfValues ==
  ASSUME NEW doc \in Documents
  PROVE  /\ doc = Omitted \/ doc.type \in Types
         /\ doc.type \in Types => doc.mode \in Modes
         /\ doc.type \in Types /\ doc.raw.shape = "bool" => doc.raw.body \in {<<0>>, <<1>>}
         /\ doc.type \in Types /\ doc.raw.shape = "string" => doc.raw.body \in {<<>>, <<2>>}
         /\ doc.type \in Types /\ doc.raw.shape = "list" => doc.raw.body \in {<<>>, <<1, 2>>}
         /\ doc.type \in Types /\ doc.raw.shape = "bounds" =>
              doc.raw.body \in SoundBounds \cup BrokenBounds
<1>1. CASE doc = Omitted
  BY <1>1 DEF Omitted, Types
<1>2. CASE doc \in [mode : Modes, type : Types, raw : Raws]
  <2>1. doc.mode \in Modes /\ doc.type \in Types /\ doc.raw \in Raws
    BY <1>2
  <2>2. /\ doc.raw.shape = "bool" => doc.raw.body \in {<<0>>, <<1>>}
        /\ doc.raw.shape = "string" => doc.raw.body \in {<<>>, <<2>>}
        /\ doc.raw.shape = "list" => doc.raw.body \in {<<>>, <<1, 2>>}
        /\ doc.raw.shape = "bounds" => doc.raw.body \in SoundBounds \cup BrokenBounds
    BY <2>1 DEF Raws
  <2> QED BY <2>1, <2>2
<1> QED BY <1>1, <1>2 DEF Documents

\* The bounds a range is read with are the sound ones.
LEMMA BoundsInOrder ==
  ASSUME NEW body \in SoundBounds \cup BrokenBounds, Ordered(body)
  PROVE  /\ body \in SoundBounds /\ body[1] \in Int /\ body[2] \in Int
         /\ \/ Len(body) = 2
            \/ Len(body) = 3 /\ body[3] \in Int /\ 0 <= body[3] /\ body[1] <= body[3] /\ body[3] <= body[2]
<1>1. ASSUME body = <<4, 2>> PROVE FALSE
  BY <1>1 DEF Ordered
<1>2. ASSUME body = <<2, 4, 6>> PROVE FALSE
  <2>1. body[1] = 2 /\ body[2] = 4 /\ body[3] = 6 /\ Len(body) = 3
    BY <1>2
  <2> QED BY <2>1 DEF Ordered
<1>3. CASE body \in {<<2, 4>>, <<3, 5>>, <<-2, 4>>}
  BY <1>3 DEF SoundBounds
<1>4. CASE body \in {<<2, 6, 4>>, <<2, 12, 12>>}
  BY <1>4 DEF SoundBounds
<1> QED BY <1>1, <1>2, <1>3, <1>4 DEF SoundBounds, BrokenBounds

\* What reading a document keeps of it.
LEMMA ReadAsDeclared ==
  ASSUME NEW doc \in Documents
  PROVE  LET p == FromDeclared(doc) IN
         /\ p.mode = doc.mode /\ p.body = doc.raw.body
         /\ p.kind = "omitted" => doc = Omitted
         /\ p.kind \in {"BOOLEAN", "ENUM", "LIST", "RANGE"} => p.kind = doc.type /\ doc.type \in Types
         /\ p.kind = "BOOLEAN" => doc.raw.shape = "bool"
         /\ p.kind = "ENUM" => doc.raw.shape = "string"
         /\ p.kind = "LIST" => doc.raw.shape = "list"
         /\ p.kind = "RANGE" => doc.raw.shape = "bounds" /\ Ordered(doc.raw.body)
<1>1. CASE doc = Omitted
  <2>1. doc.type = "omitted" /\ doc.mode = "DISABLED"
    BY <1>1 DEF Omitted
  <2> QED BY <1>1, <2>1 DEF FromDeclared
<1>2. CASE doc.type \in Types
  <2> HIDE DEF Ordered
  <2> DEFINE p == FromDeclared(doc)
             fits == \/ doc.type = "BOOLEAN" /\ doc.raw.shape = "bool"
                     \/ doc.type \in {"ENUM", "REGEX"} /\ doc.raw.shape = "string"
                     \/ doc.type = "LIST" /\ doc.raw.shape = "list"
                     \/ doc.type = "RANGE" /\ doc.raw.shape = "bounds" /\ Ordered(doc.raw.body)
  <2>1. p = [mode |-> doc.mode, body |-> doc.raw.body,
             kind |-> IF doc.type \in {"unrecognised", "omitted"} \/ fits THEN doc.type ELSE "malformed"]
    BY DEF FromDeclared
  <2> HIDE DEF fits
  <2>2. p.mode = doc.mode /\ p.body = doc.raw.body
    BY <2>1
  <2>3. p.kind = doc.type \/ p.kind = "malformed"
    BY <2>1
  <2>4. p.kind = doc.type => fits \/ doc.type \in {"unrecognised", "omitted"} \/ doc.type = "malformed"
    BY <2>1
  <2> HIDE DEF p
  <2>5. /\ p.kind # "omitted"
        /\ p.kind \in {"BOOLEAN", "ENUM", "LIST", "RANGE"} => p.kind = doc.type /\ fits
    BY <1>2, <2>3, <2>4 DEF Types
  <2> QED BY <1>2, <2>2, <2>5 DEF p, fits
<1> QED BY <1>1, <1>2, ShapeOfValues

\* A value that satisfies a policy as it was read is permitted by the document.
LEMMA SatisfiedIsPermitted ==
  ASSUME NEW doc \in Documents, NEW question \in Questions, NEW subject \in Subjects,
         FromDeclared(doc).kind = question, Satisfied(FromDeclared(doc), subject)
  PROVE  Permits(doc, question, subject)
<1> DEFINE p == FromDeclared(doc)
<1>1. /\ p.body = doc.raw.body /\ doc.type = question /\ doc.type \in Types
      /\ question = "BOOLEAN" => doc.raw.shape = "bool" /\ doc.raw.body \in {<<0>>, <<1>>}
      /\ question = "ENUM" => doc.raw.shape = "string" /\ doc.raw.body \in {<<>>, <<2>>}
      /\ question = "LIST" => doc.raw.shape = "list"
      /\ question = "RANGE" => /\ doc.raw.shape = "bounds" /\ Ordered(doc.raw.body)
                               /\ doc.raw.body \in SoundBounds \cup BrokenBounds
  BY ReadAsDeclared, ShapeOfValues DEF Questions
<1>2. p.kind = question /\ Satisfied(p, subject)
  OBVIOUS
<1> HIDE DEF p
<1>3. CASE question = "BOOLEAN"
  <2>1. p.body = <<0>>
    BY <1>2, <1>3 DEF Satisfied
  <2>2. doc.raw = [shape |-> "bool", body |-> <<0>>]
    <3>1. doc.raw \in Raws
      BY <1>1 DEF Documents, Omitted, Types
    <3>2. doc.raw = [shape |-> doc.raw.shape, body |-> doc.raw.body]
      BY <3>1 DEF Raws
    <3> QED BY <1>1, <1>3, <2>1, <3>2
  <2> QED BY <1>1, <1>3, <2>2 DEF Permits
<1>4. CASE question = "ENUM"
  <2>1. doc.raw.body = <<>> \/ doc.raw.body[1] = subject
    BY <1>1, <1>2, <1>4 DEF Satisfied
  <2>2. Elements(doc.raw.body) \subseteq {subject}
    <3>1. CASE doc.raw.body = <<>>
      BY <3>1 DEF Elements
    <3>2. CASE doc.raw.body = <<2>>
      BY <2>1, <3>2 DEF Elements
    <3> QED BY <1>1, <1>4, <3>1, <3>2
  <2> QED BY <1>1, <1>4, <2>2 DEF Permits
<1>5. CASE question = "LIST"
  <2>1. doc.raw.body # <<>> => subject \in Elements(doc.raw.body)
    BY <1>1, <1>2, <1>5 DEF Satisfied
  <2> QED BY <1>1, <1>5, <2>1 DEF Permits
<1>6. CASE question = "RANGE"
  <2>1. subject \in doc.raw.body[1]..doc.raw.body[2]
    BY <1>1, <1>2, <1>6 DEF Satisfied
  <2>2. doc.raw.body \in SoundBounds /\ doc.raw.body[1] \in Int /\ doc.raw.body[2] \in Int
    BY <1>1, <1>6, BoundsInOrder
  <2>3. doc.raw.body[1] <= subject /\ subject <= doc.raw.body[2]
    BY <2>1, <2>2 DEF Subjects
  <2> QED BY <1>1, <1>6, <2>2, <2>3 DEF Permits
<1> QED BY <1>3, <1>4, <1>5, <1>6 DEF Questions

\* A verdict given from what is held allows what the document permits.
LEMMA VerdictsAreFounded == ASSUME PolicyInv PROVE AllowsOnlyThePermitted
<1> SUFFICES ASSUME NEW question \in Questions, NEW subject \in Subjects
             PROVE  /\ Verdict(question, subject) \in PolicyResults
                    /\ Verdict(question, subject) = "allow" =>
                         held # NeverLoaded /\ Permits(published[held], question, subject)
                    /\ Verdict(question, subject) = "warn" => published[held].mode = "WARN"
                    /\ Verdict(question, subject) = "audit" => published[held].mode = "AUDIT"
  BY DEF AllowsOnlyThePermitted
<1> DEFINE verdict == Verdict(question, subject)
<1>1. CASE held = NeverLoaded
  <2>1. verdict = "not-evaluable"
    BY <1>1 DEF Verdict
  <2> QED BY <2>1 DEF PolicyResults
<1>2. CASE held # NeverLoaded
  <2> DEFINE doc == published[held]
  <2>1. doc \in Documents /\ policy = FromDeclared(doc)
    BY <1>2 DEF PolicyInv, NeverLoaded
  <2>2. policy.mode = doc.mode
    BY <2>1, ReadAsDeclared
  <2>3. CASE policy.kind = "omitted" \/ policy.mode = "DISABLED"
    <3>1. verdict = "allow"
      BY <1>2, <2>3 DEF Verdict
    <3>2. doc = Omitted \/ doc.mode = "DISABLED"
      BY <2>1, <2>2, <2>3, ReadAsDeclared
    <3> QED BY <1>2, <3>1, <3>2 DEF Permits, PolicyResults
  <2>4. CASE policy.kind # "omitted" /\ policy.mode # "DISABLED"
    <3>1. verdict = IF policy.kind # question THEN "not-evaluable"
                    ELSE IF Satisfied(policy, subject) THEN "allow" ELSE ApplyEnforcement(policy.mode)
      BY <1>2, <2>4, Zenon DEF Verdict
    <3>2. CASE policy.kind # question
      <4>1. verdict = "not-evaluable"
        BY <3>1, <3>2
      <4> QED BY <4>1 DEF PolicyResults
    <3>3. CASE policy.kind = question /\ Satisfied(policy, subject)
      <4>1. verdict = "allow"
        BY <3>1, <3>3
      <4>2. Permits(doc, question, subject)
        BY <2>1, <3>3, SatisfiedIsPermitted
      <4> QED BY <1>2, <4>1, <4>2 DEF PolicyResults
    <3>4. CASE policy.kind = question /\ ~Satisfied(policy, subject)
      <4>1. verdict = ApplyEnforcement(doc.mode)
        BY <2>2, <3>1, <3>4
      <4>2. /\ ApplyEnforcement(doc.mode) \in {"warn", "audit", "block", "not-evaluable"}
            /\ ApplyEnforcement(doc.mode) = "warn" => doc.mode = "WARN"
            /\ ApplyEnforcement(doc.mode) = "audit" => doc.mode = "AUDIT"
        BY <2>2, <2>4 DEF ApplyEnforcement
      <4> QED BY <4>1, <4>2 DEF PolicyResults
    <3> QED BY <3>2, <3>3, <3>4
  <2> QED BY <2>3, <2>4
<1> QED BY <1>1, <1>2

\* A reading is one of the published bounds, or says there is none.
LEMMA ReadingsAreFounded == ASSUME PolicyInv PROVE PolicyTypeOK
<1>1. held \in 0..Len(published) /\ hash \in 0..Len(published) /\ \A r \in Refreshers : refreshers[r].at \in RefreshStages
  BY DEF PolicyInv
<1> DEFINE body == published[held].raw.body
<1>2. /\ Reading \in Readings
      /\ Reading.is = "configured" =>
           /\ body \in SoundBounds /\ (body[1] < 0 => Len(body) = 3)
           /\ body[1] <= 2 * Reading.figure + 1 /\ 2 * Reading.figure <= body[2]
  <2>1. CASE held = NeverLoaded \/ policy.kind # "RANGE"
    <3>1. Reading \in {NotEvaluable, NotConfigured}
      BY <2>1 DEF Reading, ConfiguredRange, NotEvaluable, NotConfigured
    <3> QED BY <3>1 DEF Readings, NotEvaluable, NotConfigured
  <2>2. CASE held # NeverLoaded /\ policy.kind = "RANGE"
    <3> DEFINE figure == body[IF Len(body) = 3 THEN 3 ELSE 1]
    <3>1. published[held] \in Documents /\ policy = FromDeclared(published[held])
      BY <2>2 DEF PolicyInv, NeverLoaded
    <3>2. policy.body = body /\ Ordered(body) /\ body \in SoundBounds \cup BrokenBounds
      BY <2>2, <3>1, ReadAsDeclared, ShapeOfValues
    <3>3. Reading = Narrowed(figure)
      <4>1. ConfiguredRange = Configured(figure)
        BY <2>2, <3>2 DEF ConfiguredRange
      <4> HIDE DEF figure
      <4> QED BY <4>1 DEF Reading, Configured
    <3>4. body \in SoundBounds /\ body[1] \in Int /\ body[2] \in Int /\ (Len(body) = 2 \/ Len(body) = 3)
      BY <3>2, BoundsInOrder
    <3>5. figure \in Int /\ (figure < 0 \/ (body[1] <= figure /\ figure <= body[2] /\ (body[1] < 0 => Len(body) = 3)))
      <4>1. CASE Len(body) = 3
        BY <3>2, <4>1, BoundsInOrder
      <4>2. CASE Len(body) = 2
        <5>1. figure = body[1] /\ body[1] <= body[2]
          BY <3>2, <4>2 DEF Ordered
        <5> QED BY <3>4, <5>1
      <4> QED BY <3>4, <4>1, <4>2
    <3> HIDE DEF figure, body
    <3> DEFINE whole == figure \div 2
    <3>6. whole \in Int /\ 2 * whole <= figure /\ figure <= 2 * whole + 1
      BY <3>5
    <3>7. CASE figure < 0 \/ whole > LargestWhole
      <4>1. Reading = NotEvaluable
        BY <3>3, <3>7 DEF Narrowed
      <4> QED BY <4>1 DEF Readings, NotEvaluable
    <3>8. CASE ~(figure < 0 \/ whole > LargestWhole)
      <4>1. Reading = Configured(whole)
        BY <3>3, <3>8 DEF Narrowed
      <4>2. whole \in 0..LargestWhole
        BY <3>5, <3>6, <3>8 DEF LargestWhole
      <4> HIDE DEF whole
      <4>3. Reading.figure = whole /\ Reading \in Readings
        BY <4>1, <4>2 DEF Configured, Readings
      <4>4. body[1] <= 2 * whole + 1 /\ 2 * whole <= body[2]
        BY <3>4, <3>5, <3>6, <3>8, <4>2
      <4> QED BY <3>4, <3>5, <3>8, <4>3, <4>4
    <3> QED BY <3>7, <3>8
  <2> QED BY <2>1, <2>2
<1> QED BY <1>1, <1>2 DEF PolicyTypeOK, RefreshStages

LEMMA PublishKeeps ==
  ASSUME PolicyInv, Publish
  PROVE  PolicyInv'
<1>1. PICK doc \in Documents : published' = Append(published, doc)
  BY DEF Publish, Revisions
<1>2. UNCHANGED <<held, policy, hash, refreshers, crossed>>
  BY DEF Publish
<1>3. /\ published' \in Seq(Documents) /\ Len(published') = Len(published) + 1 /\ Len(published) \in Nat
      /\ \A i \in 1..Len(published) : published'[i] = published[i]
  BY <1>1 DEF PolicyInv
<1>4. held' \in 0..Len(published') /\ hash' \in 0..Len(published')
  BY <1>2, <1>3 DEF PolicyInv
<1>5. policy' = FromDeclared(IF held' = NeverLoaded THEN Omitted ELSE published'[held'])
  <2>1. held = NeverLoaded \/ published'[held] = published[held]
    BY <1>3 DEF PolicyInv, NeverLoaded
  <2> QED BY <1>2, <2>1 DEF PolicyInv
<1>6. \A r \in Refreshers : refreshers[r].version \in 1..Len(published) => refreshers[r].version \in 1..Len(published')
  BY <1>3
<1> QED BY <1>2, <1>3, <1>4, <1>5, <1>6 DEF PolicyInv, Between, Refreshing

\* A refresher replaced by one that is not between the two writes.
LEMMA RefresherMoves ==
  ASSUME PolicyInv, NEW r \in Refreshers, NEW m, refreshers' = [refreshers EXCEPT ![r] = m],
         m.at \in {"idle", "asked", "storing"}, m.at = "storing" => m.version \in 1..Len(published),
         refreshers[r].at # "stamping", UNCHANGED <<published, held, policy, hash, crossed>>
  PROVE  PolicyInv'
<1>1. /\ DOMAIN refreshers' = Refreshers /\ refreshers'[r] = m
      /\ \A q \in Refreshers : q # r => refreshers'[q] = refreshers[q]
  BY DEF PolicyInv
<1>2. Between' = Between
  BY <1>1 DEF Between, Refreshing
<1>3. \A q \in Between : q # r
  BY DEF Between, Refreshing
<1>4. \A q \in Refreshers :
       /\ refreshers'[q].at \in RefreshStages
       /\ refreshers'[q].at \in {"storing", "stamping"} => refreshers'[q].version \in 1..Len(published)
  BY <1>1 DEF PolicyInv, RefreshStages
<1>5. ~crossed => /\ Between' = {} => hash = held
                  /\ \A q, s \in Between' : q = s
                  /\ \A q \in Between' : refreshers'[q].version = held
  BY <1>1, <1>2, <1>3 DEF PolicyInv, Between
<1> QED BY <1>1, <1>4, <1>5 DEF PolicyInv

LEMMA FetchKeeps ==
  ASSUME PolicyInv, NEW r \in Refreshers, Ask(r) \/ Answer(r) \/ FailToFetch(r)
  PROVE  PolicyInv'
<1>1. UNCHANGED <<published, held, policy, hash, crossed>>
  BY DEF Ask, Answer, FailToFetch
<1>2. CASE Ask(r)
  <2> DEFINE m == [at |-> "asked", etag |-> hash, version |-> 0]
  <2>1. refreshers[r].at = "idle" /\ refreshers' = [refreshers EXCEPT ![r] = m] /\ m.at = "asked"
    BY <1>2 DEF Ask, MayRefresh, Refreshing
  <2> HIDE DEF m
  <2> QED BY <1>1, <2>1, RefresherMoves
<1>3. ASSUME Refreshing(r, "asked"), Rests(r) PROVE PolicyInv'
  <2>1. refreshers[r].at = "asked" /\ refreshers' = [refreshers EXCEPT ![r] = AtRest] /\ AtRest.at = "idle"
    BY <1>3 DEF Refreshing, Rests, AtRest
  <2> QED BY <1>1, <2>1, RefresherMoves
<1>4. ASSUME Answer(r), refreshers' = [refreshers EXCEPT ![r] = [AtRest EXCEPT !.at = "storing", !.version = Len(published)]],
             refreshers[r].etag # Len(published)
      PROVE  PolicyInv'
  <2> DEFINE m == [AtRest EXCEPT !.at = "storing", !.version = Len(published)]
  <2>1. refreshers[r].at = "asked" /\ refreshers' = [refreshers EXCEPT ![r] = m] /\ m.at = "storing"
        /\ m.version = Len(published)
    BY <1>4 DEF Answer, Refreshing, AtRest
  <2>2. Len(published) \in Nat /\ Len(published) # 0
    BY DEF PolicyInv
  <2>3. Len(published) \in 1..Len(published)
    BY <2>2 DEF PolicyInv
  <2> HIDE DEF m
  <2> QED BY <1>1, <2>1, <2>3, RefresherMoves
<1> QED BY <1>2, <1>3, <1>4 DEF Answer, FailToFetch

LEMMA StoreKeeps ==
  ASSUME PolicyInv, NEW r \in Refreshers, Store(r)
  PROVE  PolicyInv'
<1> DEFINE v == refreshers[r].version
<1>1. /\ refreshers[r].at = "storing" /\ refreshers' = [refreshers EXCEPT ![r].at = "stamping"]
      /\ held' = v /\ policy' = FromDeclared(published[v]) /\ crossed' = (crossed \/ Between # {})
      /\ UNCHANGED <<published, hash>>
  BY DEF Store, Refreshing, RefresherAt
<1>2. v \in 1..Len(published) /\ Len(published) \in Nat
  BY <1>1 DEF PolicyInv
<1>3. /\ DOMAIN refreshers' = Refreshers /\ refreshers'[r].at = "stamping" /\ refreshers'[r].version = v
      /\ \A q \in Refreshers : q # r => refreshers'[q] = refreshers[q]
  <2>1. refreshers'[r] = [refreshers[r] EXCEPT !.at = "stamping"] /\ DOMAIN refreshers = Refreshers
    BY <1>1 DEF PolicyInv
  <2>2. refreshers'[r].at = "stamping" /\ refreshers'[r].version = v
    BY <1>1, <2>1 DEF PolicyInv
  <2> QED BY <1>1, <2>1, <2>2
<1> HIDE DEF v
<1>4. held' \in 0..Len(published) /\ policy' = FromDeclared(IF held' = NeverLoaded THEN Omitted ELSE published[held'])
  <2>1. held' # NeverLoaded /\ held' \in 0..Len(published)
    BY <1>1, <1>2 DEF NeverLoaded
  <2> QED BY <1>1, <2>1
<1>5. \A q \in Refreshers :
       /\ refreshers'[q].at \in RefreshStages
       /\ refreshers'[q].at \in {"storing", "stamping"} => refreshers'[q].version \in 1..Len(published)
  BY <1>2, <1>3 DEF PolicyInv, RefreshStages
<1>6. ~crossed' => /\ Between' = {} => hash = held'
                   /\ \A q, s \in Between' : q = s
                   /\ \A q \in Between' : refreshers'[q].version = held'
  <2>1. Between' = Between \cup {r}
    BY <1>1, <1>3 DEF Between, Refreshing
  <2> SUFFICES ASSUME Between = {}
               PROVE  Between' = {r} /\ refreshers'[r].version = held'
    BY <1>1
  <2> QED BY <1>1, <1>3, <2>1
<1> QED BY <1>1, <1>3, <1>4, <1>5, <1>6 DEF PolicyInv

LEMMA StampKeeps ==
  ASSUME PolicyInv, NEW r \in Refreshers, Stamp(r)
  PROVE  PolicyInv'
<1>1. /\ refreshers[r].at = "stamping" /\ refreshers' = [refreshers EXCEPT ![r] = AtRest] /\ AtRest.at = "idle"
      /\ hash' = refreshers[r].version /\ UNCHANGED <<published, held, policy, crossed>>
  BY DEF Stamp, Refreshing, Rests, AtRest
<1>2. /\ DOMAIN refreshers' = Refreshers /\ refreshers'[r].at = "idle"
      /\ \A q \in Refreshers : q # r => refreshers'[q] = refreshers[q]
  BY <1>1 DEF PolicyInv
<1>3. refreshers[r].version \in 1..Len(published) /\ Len(published) \in Nat
  BY <1>1 DEF PolicyInv
<1>4. \A q \in Refreshers :
       /\ refreshers'[q].at \in RefreshStages
       /\ refreshers'[q].at \in {"storing", "stamping"} => refreshers'[q].version \in 1..Len(published)
  BY <1>2 DEF PolicyInv, RefreshStages
<1>5. ~crossed => Between' = {} /\ hash' = held
  <2>1. r \in Between /\ Between' = Between \ {r}
    BY <1>1, <1>2 DEF Between, Refreshing
  <2> QED BY <1>1, <2>1 DEF PolicyInv
<1> QED BY <1>1, <1>2, <1>3, <1>4, <1>5 DEF PolicyInv

\* A till permits by its policies only what the document it holds permits, and
\* softens a violation only where the document says so; a count read from one is
\* within its published bounds but for a fraction dropped, and never from a
\* negative figure; and, unless two refreshes wrote across each other - the case
\* it excepts - the hash names the version held, for any number of refreshers.
THEOREM PoliciesHeldAlways == PolicySpec => []PoliciesAreHeld
<1>1. PolicyInit => PolicyInv
  <2> SUFFICES ASSUME PolicyInit PROVE PolicyInv
    OBVIOUS
  <2>1. PICK doc \in Documents : published = <<doc>>
    BY DEF PolicyInit
  <2>2. published \in Seq(Documents) /\ Len(published) = 1
    BY <2>1
  <2>3. \A r \in Refreshers : refreshers[r].at = "idle"
    BY DEF PolicyInit, AtRest
  <2>4. Between = {}
    BY <2>3 DEF Between, Refreshing
  <2>5. held = 0 /\ hash = 0 /\ policy = FromDeclared(Omitted) /\ DOMAIN refreshers = Refreshers
    BY DEF PolicyInit, NeverLoaded
  <2> QED BY <2>2, <2>3, <2>4, <2>5 DEF PolicyInv, NeverLoaded, RefreshStages
<1>2. PolicyInv /\ [PolicyNext]_policyVars => PolicyInv'
  <2> SUFFICES ASSUME PolicyInv, [PolicyNext]_policyVars PROVE PolicyInv'
    OBVIOUS
  <2>1. CASE UNCHANGED policyVars
    BY <2>1 DEF policyVars, PolicyInv, Between, Refreshing
  <2> QED BY <2>1, PublishKeeps, FetchKeeps, StoreKeeps, StampKeeps DEF PolicyNext
<1>3. PolicyInv => PoliciesAreHeld
  <2> SUFFICES ASSUME PolicyInv PROVE HashNamesTheHeld
    BY VerdictsAreFounded, ReadingsAreFounded DEF PoliciesAreHeld
  <2> QED BY DEF PolicyInv, HashNamesTheHeld, Between
<1> QED BY <1>1, <1>2, <1>3, PTL DEF PolicySpec

-----------------------------------------------------------------------------
(* The updater.                                                            *)

Wholes   == {Former, Release}
UpStages == {"off", "launching", "backing", "copying", "fetching", "extracting", "removing", "restoring"}
Copy     == [Files -> 0..2]
LauncherType == [at : UpStages, backup : Nat, left : SUBSET Files, found : Copy, alone : BOOLEAN]
Up(p)    == launcher[p].at # "off"
Alone(p) == launcher[p].alone

UpdaterShape ==
  /\ install \in Copy /\ backups \in [1..MaxBackups -> Copy] /\ made \in 0..MaxBackups
  /\ launcher \in [Launchers -> LauncherType]
  /\ \A p \in Launchers :
       /\ launcher[p].at \in {"copying", "fetching", "extracting", "removing", "restoring"} =>
            launcher[p].backup \in 1..made
       /\ launcher[p].at = "backing" => launcher[p].left = Files

\* A launcher that no other ran beside has the machine to itself.
AloneIsAlone == \A p, q \in Launchers : Up(p) /\ Alone(p) /\ p # q => ~Up(q)

\* Until it writes, such a launcher finds what it found at first, and its backup
\* is that, or becomes it file by file.
BackingUp ==
  \A p \in Launchers : Alone(p) =>
    /\ launcher[p].at \in {"backing", "copying", "fetching"} => install = launcher[p].found
    /\ launcher[p].at = "copying" =>
         \A f \in Files : backups[launcher[p].backup][f] = IF f \in launcher[p].left THEN 0 ELSE launcher[p].found[f]
    /\ launcher[p].at \in {"copying", "fetching", "extracting", "removing"} => launcher[p].backup = made
    /\ launcher[p].at \in {"backing", "copying", "fetching", "extracting", "removing"} /\ upsets = {} =>
         launcher[p].found \in Wholes

\* What has been extracted stays, unless two write at once.
Extracting ==
  \A p \in Launchers : launcher[p].at = "extracting" /\ (upsets = {} \/ Alone(p)) =>
    \A f \in Files \ launcher[p].left : install[f] = 2

\* A restore with nothing against it has an empty directory to fill from a whole
\* backup, which no other launcher is writing or about to prune.
Restoring ==
  upsets = {} => \A p \in Launchers : launcher[p].at = "restoring" =>
    /\ backups[launcher[p].backup] \in Wholes
    /\ \A f \in Files : install[f] = IF f \in launcher[p].left THEN 0 ELSE backups[launcher[p].backup][f]
    /\ \A q \in Launchers : /\ launcher[q].at = "copying" => launcher[q].backup # launcher[p].backup
                            /\ launcher[q].at = "extracting" => launcher[q].left = Files

WholeUnlessWriting == upsets = {} /\ Writing = {} => install \in Wholes

UpdaterInv ==
  /\ UpdaterShape /\ AloneIsAlone /\ BackingUp /\ Extracting /\ Restoring /\ WholeUnlessWriting
  /\ LaunchedIsWhole /\ BackupIsWhole

\* The launchers after a step of one: its stage, backup and files left.
Moved(p, stage, backup, left) ==
  /\ launcher' \in [Launchers -> LauncherType]
  /\ launcher'[p].at = stage /\ launcher'[p].backup = backup /\ launcher'[p].left = left
  /\ launcher'[p].found = launcher[p].found /\ launcher'[p].alone = launcher[p].alone
  /\ \A q \in Launchers \ {p} : launcher'[q] = launcher[q]

LEMMA Moves ==
  ASSUME UpdaterShape, NEW p \in Launchers, NEW stage \in UpStages, NEW backup \in Nat, NEW left \in SUBSET Files,
         launcher' = [launcher EXCEPT ![p].at = stage, ![p].backup = backup, ![p].left = left]
  PROVE  Moved(p, stage, backup, left)
<1>1. launcher[p] \in LauncherType
  BY DEF UpdaterShape
<1> QED BY <1>1 DEF UpdaterShape, Moved, LauncherType

LEMMA UpToMoves ==
  ASSUME UpdaterShape, NEW p \in Launchers, NEW stage \in UpStages, UpTo(p, stage)
  PROVE  Moved(p, stage, launcher[p].backup, Files)
<1>1. launcher[p] \in LauncherType /\ launcher' = [launcher EXCEPT ![p].at = stage, ![p].left = Files]
  BY DEF UpdaterShape, UpTo
<1> QED BY <1>1 DEF UpdaterShape, Moved, LauncherType

LEMMA CopiedMoves ==
  ASSUME UpdaterShape, NEW p \in Launchers, NEW f \in Files, Copied(p, f)
  PROVE  Moved(p, launcher[p].at, launcher[p].backup, launcher[p].left \ {f})
<1>1. launcher[p] \in LauncherType /\ launcher' = [launcher EXCEPT ![p].left = launcher[p].left \ {f}]
  BY DEF UpdaterShape, Copied
<1> QED BY <1>1 DEF UpdaterShape, Moved, LauncherType

LEMMA RestsMoves ==
  ASSUME UpdaterShape, NEW p \in Launchers, launcher' = [launcher EXCEPT ![p] = Resting]
  PROVE  /\ launcher' \in [Launchers -> LauncherType] /\ launcher'[p].at = "off"
         /\ \A q \in Launchers \ {p} : launcher'[q] = launcher[q]
<1>1. Resting \in LauncherType /\ Resting.at = "off"
  BY DEF Resting, LauncherType, UpStages, Nothing, Copy
<1> HIDE DEF Resting
<1> QED BY <1>1 DEF UpdaterShape

\* While one launcher is up, no other has the machine to itself.
LEMMA OthersAreNotAlone ==
  ASSUME AloneIsAlone, NEW p \in Launchers, Up(p)
  PROVE  /\ \A q \in Launchers \ {p} : Up(q) => ~Alone(q)
         /\ Alone(p) => \A q \in Launchers \ {p} : ~Up(q)
  BY DEF AloneIsAlone

\* A launcher that is done with the disk, or never wrote to it.
LEMMA Leaves ==
  ASSUME UpdaterInv, NEW p \in Launchers, Up(p), launcher' \in [Launchers -> LauncherType],
         \A q \in Launchers \ {p} : launcher'[q] = launcher[q],
         \/ launcher'[p].at = "off"
         \/ launcher'[p].at = "launching" /\ launcher'[p].alone = launcher[p].alone,
         install' = install, backups' \in [1..MaxBackups -> Copy], made' \in 0..MaxBackups, made <= made',
         \A b \in 1..made : backups'[b] = backups[b],
         upsets \subseteq upsets', upsets' = {} /\ p \in Writing => install \in Wholes,
         LaunchedIsWhole'
  PROVE  UpdaterInv'
<1>1. UpdaterShape'
  <2>1. \A q \in Launchers \ {p} : launcher[q].backup \in 1..made => launcher'[q].backup \in 1..made'
    BY DEF UpdaterInv, UpdaterShape
  <2> QED BY <2>1 DEF UpdaterInv, UpdaterShape
<1>2. \A q \in Launchers \ {p} : Up(q) => ~Alone(q)
  BY OthersAreNotAlone DEF UpdaterInv
<1>3. AloneIsAlone'
  <2> SUFFICES ASSUME NEW q \in Launchers, NEW s \in Launchers, Up(q)', Alone(q)', q # s, Up(s)' PROVE FALSE
    BY DEF AloneIsAlone
  <2>1. CASE q = p
    <3>1. Alone(p) /\ Up(s)
      BY <2>1 DEF Up, Alone
    <3> QED BY <2>1, <3>1 DEF UpdaterInv, AloneIsAlone
  <2>2. CASE q # p
    BY <1>2, <2>2 DEF Up, Alone
  <2> QED BY <2>1, <2>2
<1>4. BackingUp' /\ BackupIsWhole'
  <2>1. \A q \in Launchers : launcher'[q].alone =>
          launcher'[q].at \notin {"backing", "copying", "fetching", "extracting", "removing"}
    BY <1>2 DEF Up, Alone
  <2> QED BY <2>1 DEF BackingUp, BackupIsWhole, Alone
<1>5. Extracting'
  <2> SUFFICES ASSUME NEW q \in Launchers, launcher'[q].at = "extracting", upsets' = {} \/ Alone(q)'
               PROVE  \A f \in Files \ launcher'[q].left : install'[f] = 2
    BY DEF Extracting
  <2>1. q # p /\ launcher'[q] = launcher[q]
    OBVIOUS
  <2>2. upsets = {}
    BY <1>2, <2>1 DEF Up, Alone
  <2> QED BY <2>1, <2>2 DEF UpdaterInv, Extracting
<1>6. Restoring'
  <2> SUFFICES ASSUME upsets' = {}, NEW q \in Launchers, launcher'[q].at = "restoring"
               PROVE  /\ backups'[launcher'[q].backup] \in Wholes
                      /\ \A f \in Files : install'[f] = IF f \in launcher'[q].left THEN 0 ELSE backups'[launcher'[q].backup][f]
                      /\ \A s \in Launchers : /\ launcher'[s].at = "copying" => launcher'[s].backup # launcher'[q].backup
                                              /\ launcher'[s].at = "extracting" => launcher'[s].left = Files
    BY DEF Restoring
  <2>1. q # p /\ launcher'[q] = launcher[q] /\ upsets = {}
    OBVIOUS
  <2>2. backups'[launcher[q].backup] = backups[launcher[q].backup]
    BY <2>1 DEF UpdaterInv, UpdaterShape
  <2> QED BY <2>1, <2>2 DEF UpdaterInv, Restoring
<1>7. WholeUnlessWriting'
  <2> SUFFICES ASSUME upsets' = {}, Writing' = {} PROVE install \in Wholes
    BY DEF WholeUnlessWriting
  <2>1. \A q \in Launchers \ {p} : q \notin Writing
    BY DEF Writing
  <2>2. p \in Writing \/ Writing = {}
    BY <2>1 DEF Writing
  <2> QED BY <2>2 DEF UpdaterInv, WholeUnlessWriting
<1> QED BY <1>1, <1>3, <1>4, <1>5, <1>6, <1>7 DEF UpdaterInv

\* A launcher that goes on to its next stage, nothing written.
LEMMA Advances ==
  ASSUME UpdaterInv, NEW p \in Launchers, NEW stage \in {"fetching", "extracting", "removing"},
         Moved(p, stage, launcher[p].backup, Files), UNCHANGED <<install, backups, made, launched, upsets>>,
         stage = "fetching" => launcher[p].at = "copying" /\ launcher[p].left = {},
         stage = "extracting" => launcher[p].at = "fetching", stage = "removing" => launcher[p].at = "extracting"
  PROVE  UpdaterInv'
<1>0. Up(p) /\ \A q \in Launchers : Up(q)' <=> Up(q)
  BY DEF Up, Moved
<1>1. UpdaterShape'
  BY DEF UpdaterInv, UpdaterShape, Moved
<1>2. \A q \in Launchers \ {p} : Up(q) => ~Alone(q)
  BY <1>0, OthersAreNotAlone DEF UpdaterInv
<1>3. AloneIsAlone'
  <2> SUFFICES ASSUME NEW q \in Launchers, NEW s \in Launchers, Up(q)', Alone(q)', q # s, Up(s)' PROVE FALSE
    BY DEF AloneIsAlone
  <2>1. Up(q) /\ Up(s) /\ Alone(q)
    BY <1>0 DEF Alone, Moved
  <2> QED BY <2>1 DEF UpdaterInv, AloneIsAlone
<1>4. BackingUp' /\ BackupIsWhole'
  <2>1. \A q \in Launchers \ {p} : launcher'[q].alone => launcher'[q].at = "off"
    BY <1>2 DEF Up, Alone, Moved
  <2>2. ASSUME Alone(p)
        PROVE  /\ stage = "fetching" => install = launcher[p].found
               /\ launcher[p].backup = made /\ (upsets = {} => launcher[p].found \in Wholes)
               /\ backups[launcher[p].backup] = launcher[p].found
    <3>1. CASE stage = "fetching"
      <4>1. /\ install = launcher[p].found /\ launcher[p].backup = made /\ (upsets = {} => launcher[p].found \in Wholes)
            /\ \A f \in Files : backups[launcher[p].backup][f] = launcher[p].found[f]
        BY <2>2, <3>1 DEF UpdaterInv, BackingUp
      <4>2. backups[launcher[p].backup] \in Copy /\ launcher[p].found \in Copy
        <5>1. launcher[p] \in LauncherType /\ launcher[p].backup \in 1..made /\ made \in 0..MaxBackups
          BY <3>1 DEF UpdaterInv, UpdaterShape
        <5>2. launcher[p].backup \in 1..MaxBackups
          BY <5>1, UpdaterAssumption DEF UpdaterAssumption
        <5> QED BY <5>1, <5>2 DEF UpdaterInv, UpdaterShape, LauncherType
      <4> QED BY <4>1, <4>2 DEF Copy
    <3>2. CASE stage # "fetching"
      BY <2>2, <3>2 DEF UpdaterInv, BackingUp, BackupIsWhole, Alone
    <3> QED BY <3>1, <3>2
  <2>3. /\ launcher'[p].at = stage /\ launcher'[p].backup = launcher[p].backup
        /\ launcher'[p].found = launcher[p].found /\ (launcher'[p].alone => Alone(p))
    BY DEF Moved, Alone
  <2>4. BackingUp'
    <3> SUFFICES ASSUME NEW q \in Launchers, launcher'[q].alone
                 PROVE  /\ launcher'[q].at \in {"backing", "copying", "fetching"} => install = launcher'[q].found
                        /\ launcher'[q].at # "copying"
                        /\ launcher'[q].at \in {"copying", "fetching", "extracting", "removing"} => launcher'[q].backup = made
                        /\ launcher'[q].at \in {"backing", "copying", "fetching", "extracting", "removing"} /\ upsets = {} =>
                             launcher'[q].found \in Wholes
      BY DEF BackingUp, Alone
    <3> QED BY <2>1, <2>2, <2>3
  <2>5. BackupIsWhole'
    <3> SUFFICES ASSUME NEW q \in Launchers, launcher'[q].alone, launcher'[q].at # "off"
                 PROVE  backups[launcher'[q].backup] = launcher'[q].found
      BY DEF BackupIsWhole
    <3> QED BY <2>1, <2>2, <2>3
  <2> QED BY <2>4, <2>5
<1>5. Extracting'
  <2> SUFFICES ASSUME NEW q \in Launchers, launcher'[q].at = "extracting", upsets = {} \/ Alone(q)'
               PROVE  \A f \in Files \ launcher'[q].left : install[f] = 2
    BY DEF Extracting
  <2>1. CASE q = p
    BY <2>1 DEF Moved
  <2>2. CASE q # p
    <3>1. launcher'[q] = launcher[q] /\ upsets = {}
      BY <1>2, <2>2 DEF Moved, Up, Alone
    <3> QED BY <3>1 DEF UpdaterInv, Extracting
  <2> QED BY <2>1, <2>2
<1>6. Restoring'
  <2>1. \A q \in Launchers : launcher'[q].at = "restoring" => launcher'[q] = launcher[q]
    BY DEF Moved
  <2>2. \A q \in Launchers : \/ launcher'[q] = launcher[q]
                             \/ launcher'[q].at # "copying" /\ (launcher'[q].at = "extracting" => launcher'[q].left = Files)
    BY DEF Moved
  <2> QED BY <2>1, <2>2 DEF UpdaterInv, Restoring
<1>7. WholeUnlessWriting'
  <2>1. Writing' = {} => Writing = {}
    BY DEF Writing, Moved
  <2> QED BY <2>1 DEF UpdaterInv, WholeUnlessWriting
<1>8. LaunchedIsWhole'
  BY DEF UpdaterInv, LaunchedIsWhole
<1> QED BY <1>1, <1>3, <1>4, <1>5, <1>6, <1>7, <1>8 DEF UpdaterInv

LEMMA CheckKeeps ==
  ASSUME UpdaterInv, NEW p \in Launchers, Check(p)
  PROVE  UpdaterInv'
<1> DEFINE all == \A q \in Launchers : ~Up(q)
<1>1. UNCHANGED <<install, backups, made, launched, upsets>> /\ launcher[p].at = "off"
  BY DEF Check, Upping
<1>2. PICK next \in {"launching", "backing"} :
        launcher' = [q \in Launchers |->
          IF q = p THEN [Resting EXCEPT !.at = next, !.left = Files, !.found = install, !.alone = all]
          ELSE IF Upping(q, "off") THEN launcher[q] ELSE [launcher[q] EXCEPT !.alone = FALSE]]
  BY DEF Check, Up, Upping
<1>3. /\ launcher'[p] \in LauncherType /\ launcher'[p].at = next /\ launcher'[p].left = Files
      /\ launcher'[p].found = install /\ (Alone(p)' => all)
  <2> DEFINE m == [Resting EXCEPT !.at = next, !.left = Files, !.found = install, !.alone = all]
  <2>1. launcher'[p] = m
    BY <1>2
  <2>2. m \in LauncherType /\ m.at = next /\ m.left = Files /\ m.found = install
    <3>1. install \in Copy /\ all \in BOOLEAN
      BY DEF UpdaterInv, UpdaterShape
    <3> HIDE DEF all
    <3> QED BY <3>1 DEF LauncherType, Resting, UpStages
  <2>3. m.alone = all
    <3> HIDE DEF all
    <3> QED BY Zenon DEF Resting
  <2>4. m.alone => all
    <3> HIDE DEF all
    <3> QED BY <2>3
  <2> HIDE DEF m
  <2> QED BY <2>1, <2>2, <2>4 DEF Alone
<1>4. \A q \in Launchers \ {p} :
        /\ launcher'[q] \in LauncherType /\ launcher'[q].at = launcher[q].at
        /\ launcher'[q].backup = launcher[q].backup /\ launcher'[q].left = launcher[q].left
        /\ launcher'[q].found = launcher[q].found /\ (Up(q) => ~Alone(q)')
  <2> SUFFICES ASSUME NEW q \in Launchers \ {p}
               PROVE  /\ launcher'[q] \in LauncherType /\ launcher'[q].at = launcher[q].at
                      /\ launcher'[q].backup = launcher[q].backup /\ launcher'[q].left = launcher[q].left
                      /\ launcher'[q].found = launcher[q].found /\ (Up(q) => ~Alone(q)')
    OBVIOUS
  <2>1. launcher[q] \in LauncherType
    BY DEF UpdaterInv, UpdaterShape
  <2>2. CASE ~Up(q)
    <3>1. launcher'[q] = launcher[q]
      BY <1>2, <2>2 DEF Up, Upping
    <3> QED BY <2>1, <2>2, <3>1
  <2>3. CASE Up(q)
    <3>1. launcher'[q] = [launcher[q] EXCEPT !.alone = FALSE]
      BY <1>2, <2>3 DEF Up, Upping
    <3>2. ~Alone(q)'
      BY <2>1, <3>1 DEF Alone, LauncherType
    <3> QED BY <2>1, <3>1, <3>2 DEF LauncherType
  <2> QED BY <2>2, <2>3
<1> HIDE DEF all
<1>5. UpdaterShape'
  <2>1. launcher' \in [Launchers -> LauncherType]
    <3>1. DOMAIN launcher' = Launchers /\ launcher' = [q \in DOMAIN launcher' |-> launcher'[q]]
      BY <1>2
    <3>2. \A q \in Launchers : launcher'[q] \in LauncherType
      BY <1>3, <1>4
    <3> QED BY <3>1, <3>2
  <2> QED BY <1>1, <1>3, <1>4, <2>1 DEF UpdaterInv, UpdaterShape
<1>6. \A q \in Launchers : Up(q)' /\ Alone(q)' => q = p
  BY <1>4 DEF Up
<1>7. AloneIsAlone'
  <2> SUFFICES ASSUME NEW s \in Launchers, Alone(p)', p # s, Up(s)' PROVE FALSE
    BY <1>6 DEF AloneIsAlone
  <2>1. ~Up(s)
    BY <1>3 DEF all
  <2> QED BY <1>4, <2>1 DEF Up
<1>8. BackingUp' /\ BackupIsWhole'
  <2>1. ASSUME Alone(p)', upsets = {} PROVE install \in Wholes
    <3>1. Writing = {}
      BY <1>3, <2>1 DEF all, Writing, Up
    <3> QED BY <2>1, <3>1 DEF UpdaterInv, WholeUnlessWriting
  <2>2. \A q \in Launchers : Alone(q)' => q = p \/ launcher'[q].at = "off"
    BY <1>6 DEF Up
  <2> QED BY <1>1, <1>3, <2>1, <2>2 DEF BackingUp, BackupIsWhole, Alone
<1>9. Extracting'
  <2> SUFFICES ASSUME NEW q \in Launchers, launcher'[q].at = "extracting", upsets = {} \/ Alone(q)'
               PROVE  \A f \in Files \ launcher'[q].left : install[f] = 2
    BY <1>1 DEF Extracting
  <2>1. q # p /\ launcher[q].at = "extracting" /\ launcher'[q].left = launcher[q].left
    BY <1>3, <1>4
  <2>2. upsets = {}
    BY <1>6, <2>1 DEF Up
  <2> QED BY <2>1, <2>2 DEF UpdaterInv, Extracting
<1>10. Restoring'
  <2>1. \A q \in Launchers : launcher'[q].at \in {"restoring", "copying", "extracting"} =>
          launcher'[q].at = launcher[q].at /\ launcher'[q].backup = launcher[q].backup /\ launcher'[q].left = launcher[q].left
    BY <1>3, <1>4
  <2> QED BY <1>1, <2>1 DEF UpdaterInv, Restoring
<1>11. WholeUnlessWriting'
  <2>1. Writing' = Writing
    BY <1>1, <1>3, <1>4 DEF Writing
  <2> QED BY <1>1, <2>1 DEF UpdaterInv, WholeUnlessWriting
<1>12. LaunchedIsWhole'
  BY <1>1 DEF UpdaterInv, LaunchedIsWhole
<1> QED BY <1>5, <1>7, <1>8, <1>9, <1>10, <1>11, <1>12 DEF UpdaterInv

LEMMA OpenBackupKeeps ==
  ASSUME UpdaterInv, NEW p \in Launchers, OpenBackup(p)
  PROVE  UpdaterInv'
<1>1. /\ launcher[p].at = "backing" /\ made < MaxBackups /\ made' = made + 1
      /\ backups' = [backups EXCEPT ![made + 1] = Nothing] /\ UNCHANGED <<install, launched, upsets>>
  BY DEF OpenBackup, Upping
<1>2. made \in Nat /\ made + 1 \in 1..MaxBackups /\ MaxBackups \in Nat
  BY <1>1, UpdaterAssumption DEF UpdaterInv, UpdaterShape
<1>3. /\ backups' \in [1..MaxBackups -> Copy] /\ backups'[made + 1] = Nothing
      /\ \A b \in 1..made : backups'[b] = backups[b]
  BY <1>1, <1>2 DEF UpdaterInv, UpdaterShape, Nothing, Copy
<1>4. Up(p)
  BY <1>1 DEF Up
<1>5. CASE UpTo(p, "launching")
  <2>1. Moved(p, "launching", launcher[p].backup, Files)
    BY <1>5, UpToMoves DEF UpdaterInv, UpStages
  <2>2. p \notin Writing
    BY <1>1 DEF Writing
  <2>3. LaunchedIsWhole' /\ made' \in 0..MaxBackups /\ made <= made'
    BY <1>1, <1>2 DEF UpdaterInv, LaunchedIsWhole
  <2> QED BY <1>1, <1>3, <1>4, <2>1, <2>2, <2>3, Leaves DEF Moved
<1>6. CASE launcher' = [launcher EXCEPT ![p].at = "copying", ![p].backup = made + 1]
  <2>1. Moved(p, "copying", made + 1, Files)
    <3>1. launcher[p] \in LauncherType /\ launcher[p].left = Files
      BY <1>1 DEF UpdaterInv, UpdaterShape
    <3> DEFINE b == made + 1
    <3>2. b \in Nat /\ launcher' = [launcher EXCEPT ![p].at = "copying", ![p].backup = b]
      BY <1>2, <1>6
    <3> HIDE DEF b
    <3>3. launcher \in [Launchers -> LauncherType] /\ "copying" \in UpStages
      BY DEF UpdaterInv, UpdaterShape, UpStages
    <3>4. Moved(p, "copying", b, launcher[p].left)
      BY <3>1, <3>2, <3>3 DEF Moved, LauncherType
    <3> QED BY <3>1, <3>4 DEF b
  <2>2. \A q \in Launchers : Up(q)' <=> Up(q)
    BY <1>1, <2>1 DEF Up, Moved
  <2>3. \A q \in Launchers \ {p} : Up(q) => ~Alone(q)
    BY <1>4, OthersAreNotAlone DEF UpdaterInv
  <2>4. UpdaterShape'
    <3>1. \A q \in Launchers \ {p} : launcher[q].backup \in 1..made => launcher'[q].backup \in 1..made'
      BY <1>1, <1>2, <2>1 DEF Moved
    <3>2. launcher'[p].backup \in 1..made' /\ made' \in 0..MaxBackups
      BY <1>1, <1>2, <2>1 DEF Moved
    <3> QED BY <1>1, <1>3, <2>1, <3>1, <3>2 DEF UpdaterInv, UpdaterShape, Moved
  <2>5. AloneIsAlone'
    <3> SUFFICES ASSUME NEW q \in Launchers, NEW s \in Launchers, Up(q)', Alone(q)', q # s, Up(s)' PROVE FALSE
      BY DEF AloneIsAlone
    <3>1. Up(q) /\ Up(s) /\ Alone(q)
      BY <2>1, <2>2 DEF Alone, Moved
    <3> QED BY <3>1 DEF UpdaterInv, AloneIsAlone
  <2>6. BackingUp' /\ BackupIsWhole'
    <3>1. \A q \in Launchers \ {p} : launcher'[q].alone => launcher'[q].at = "off"
      BY <2>1, <2>3 DEF Up, Alone, Moved
    <3>2. Alone(p) => install = launcher[p].found /\ (upsets = {} => launcher[p].found \in Wholes)
      BY <1>1 DEF UpdaterInv, BackingUp
    <3>3. /\ launcher'[p].at = "copying" /\ launcher'[p].backup = made' /\ launcher'[p].left = Files
          /\ launcher'[p].found = launcher[p].found /\ (launcher'[p].alone => Alone(p))
      BY <1>1, <2>1 DEF Moved, Alone
    <3>4. \A f \in Files : backups'[made'][f] = 0
      BY <1>1, <1>3 DEF Nothing
    <3>5. BackingUp'
      <4> SUFFICES ASSUME NEW q \in Launchers, launcher'[q].alone, launcher'[q].at # "off"
                   PROVE  /\ q = p /\ install = launcher'[q].found /\ launcher'[q].backup = made'
                          /\ (upsets = {} => launcher'[q].found \in Wholes)
                          /\ \A f \in Files : backups'[launcher'[q].backup][f] =
                                              IF f \in launcher'[q].left THEN 0 ELSE launcher'[q].found[f]
        BY <1>1 DEF BackingUp, Alone
      <4> QED BY <3>1, <3>2, <3>3, <3>4
    <3>6. BackupIsWhole'
      BY <3>1, <3>3 DEF BackupIsWhole
    <3> QED BY <3>5, <3>6
  <2>7. Extracting'
    BY <1>1, <2>1 DEF UpdaterInv, Extracting, Moved, Alone
  <2>8. Restoring'
    <3> SUFFICES ASSUME upsets = {}, NEW q \in Launchers, launcher'[q].at = "restoring"
                 PROVE  /\ backups'[launcher'[q].backup] \in Wholes
                        /\ \A f \in Files : install[f] = IF f \in launcher'[q].left THEN 0 ELSE backups'[launcher'[q].backup][f]
                        /\ \A s \in Launchers : /\ launcher'[s].at = "copying" => launcher'[s].backup # launcher'[q].backup
                                                /\ launcher'[s].at = "extracting" => launcher'[s].left = Files
      BY <1>1 DEF Restoring
    <3>1. q # p /\ launcher'[q] = launcher[q]
      BY <2>1 DEF Moved
    <3>2. launcher[q].backup \in 1..made /\ backups'[launcher[q].backup] = backups[launcher[q].backup]
      BY <1>3, <3>1 DEF UpdaterInv, UpdaterShape
    <3>3. launcher'[p].backup # launcher[q].backup /\ launcher'[p].at = "copying"
      BY <1>2, <2>1, <3>2 DEF Moved
    <3> QED BY <2>1, <3>1, <3>2, <3>3 DEF UpdaterInv, Restoring, Moved
  <2>9. WholeUnlessWriting' /\ LaunchedIsWhole'
    <3>1. Writing' = Writing
      BY <1>1, <2>1 DEF Writing, Moved
    <3> QED BY <1>1, <3>1 DEF UpdaterInv, WholeUnlessWriting, LaunchedIsWhole
  <2> QED BY <2>4, <2>5, <2>6, <2>7, <2>8, <2>9 DEF UpdaterInv
<1> QED BY <1>1, <1>5, <1>6 DEF OpenBackup

\* One file copied, to the backup, into the installation, or back into it.
LEMMA CopyKeeps ==
  ASSUME UpdaterInv, NEW p \in Launchers, NEW f \in Files, CopyOut(p, f) \/ ExtractFile(p, f) \/ CopyBack(p, f)
  PROVE  UpdaterInv'
<1>1. /\ Copied(p, f) /\ f \in launcher[p].left /\ UNCHANGED <<made, launched>> /\ upsets \subseteq upsets'
      /\ launcher[p].at \in {"copying", "extracting", "restoring"}
  BY DEF CopyOut, ExtractFile, CopyBack, Upping, Upset
<1>2. Moved(p, launcher[p].at, launcher[p].backup, launcher[p].left \ {f})
  BY <1>1, CopiedMoves DEF UpdaterInv
<1>3. Up(p) /\ \A q \in Launchers : launcher'[q].at = launcher[q].at /\ launcher'[q].backup = launcher[q].backup
                                   /\ launcher'[q].found = launcher[q].found /\ launcher'[q].alone = launcher[q].alone
  BY <1>1, <1>2 DEF Up, Moved
<1>4. /\ \A q \in Launchers \ {p} : Up(q) => ~Alone(q)
      /\ Alone(p) => \A q \in Launchers \ {p} : ~Up(q)
  BY <1>3, OthersAreNotAlone DEF UpdaterInv
<1>5. AloneIsAlone' /\ LaunchedIsWhole'
  <2>1. LaunchedIsWhole'
    BY <1>1 DEF UpdaterInv, LaunchedIsWhole
  <2>2. AloneIsAlone'
    <3> SUFFICES ASSUME NEW q \in Launchers, NEW s \in Launchers, Up(q)', Alone(q)', q # s, Up(s)' PROVE FALSE
      BY DEF AloneIsAlone
    <3>1. Up(q) /\ Up(s) /\ Alone(q)
      BY <1>3 DEF Up, Alone
    <3> QED BY <3>1 DEF UpdaterInv, AloneIsAlone
  <2> QED BY <2>1, <2>2
<1>6. Writing' = Writing
  BY <1>3 DEF Writing
<1>7. launcher[p].backup \in 1..made /\ launcher[p].backup \in 1..MaxBackups /\ install \in Copy /\ launcher[p] \in LauncherType
  <2>1. launcher[p].backup \in 1..made /\ made \in 0..MaxBackups
    BY <1>1 DEF UpdaterInv, UpdaterShape
  <2> QED BY <2>1, UpdaterAssumption DEF UpdaterInv, UpdaterShape
<1>8. ASSUME backups' \in [1..MaxBackups -> Copy], install' \in Copy PROVE UpdaterShape'
  <2>1. \A q \in Launchers : launcher'[q].at # "backing" \/ launcher'[q] = launcher[q]
    BY <1>1, <1>2 DEF Moved
  <2> QED BY <1>1, <1>2, <1>3, <1>8, <2>1 DEF UpdaterInv, UpdaterShape, Moved
<1>9. CASE CopyOut(p, f)
  <2>1. /\ launcher[p].at = "copying" /\ UNCHANGED <<install, upsets>>
        /\ backups' = [backups EXCEPT ![launcher[p].backup][f] = install[f]]
    BY <1>9 DEF CopyOut, Upping
  <2>2. /\ backups' \in [1..MaxBackups -> Copy]
        /\ \A b \in 1..MaxBackups : b # launcher[p].backup => backups'[b] = backups[b]
        /\ \A g \in Files : backups'[launcher[p].backup][g] =
                            IF g = f THEN install[f] ELSE backups[launcher[p].backup][g]
    BY <1>7, <2>1 DEF UpdaterInv, UpdaterShape, Copy
  <2>3. UpdaterShape'
    BY <1>7, <1>8, <2>1, <2>2
  <2>4. BackingUp' /\ BackupIsWhole'
    <3>1. \A q \in Launchers \ {p} : launcher'[q].alone => launcher'[q].at = "off"
      BY <1>3, <1>4 DEF Up, Alone
    <3>2. Alone(p) => /\ install = launcher[p].found /\ launcher[p].backup = made
                      /\ upsets = {} => launcher[p].found \in Wholes
                      /\ \A g \in Files : backups[launcher[p].backup][g] =
                                          IF g \in launcher[p].left THEN 0 ELSE launcher[p].found[g]
      BY <2>1 DEF UpdaterInv, BackingUp
    <3>3. launcher'[p].left = launcher[p].left \ {f} /\ (launcher'[p].alone => Alone(p))
      BY <1>2 DEF Moved, Alone
    <3>4. BackingUp'
      <4> SUFFICES ASSUME NEW q \in Launchers, launcher'[q].alone, launcher'[q].at # "off"
                   PROVE  /\ q = p /\ install = launcher'[q].found /\ launcher'[q].backup = made
                          /\ (upsets = {} => launcher'[q].found \in Wholes)
                          /\ \A g \in Files : backups'[launcher'[q].backup][g] =
                                              IF g \in launcher'[q].left THEN 0 ELSE launcher'[q].found[g]
        BY <1>1, <2>1 DEF BackingUp, Alone
      <4> QED BY <1>3, <2>2, <3>1, <3>2, <3>3
    <3>5. BackupIsWhole'
      BY <1>3, <2>1, <3>1 DEF BackupIsWhole
    <3> QED BY <3>4, <3>5
  <2>5. Extracting'
    <3>1. \A q \in Launchers : launcher'[q].at = "extracting" => launcher'[q] = launcher[q]
      BY <1>2, <2>1 DEF Moved
    <3> QED BY <2>1, <3>1 DEF UpdaterInv, Extracting, Alone
  <2>6. Restoring'
    <3> SUFFICES ASSUME upsets = {}, NEW q \in Launchers, launcher'[q].at = "restoring"
                 PROVE  /\ backups'[launcher'[q].backup] \in Wholes
                        /\ \A g \in Files : install[g] = IF g \in launcher'[q].left THEN 0 ELSE backups'[launcher'[q].backup][g]
                        /\ \A s \in Launchers : /\ launcher'[s].at = "copying" => launcher'[s].backup # launcher'[q].backup
                                                /\ launcher'[s].at = "extracting" => launcher'[s].left = Files
      BY <2>1 DEF Restoring
    <3>1. q # p /\ launcher'[q] = launcher[q]
      BY <1>2, <2>1 DEF Moved
    <3>2. launcher[q].backup # launcher[p].backup /\ launcher[q].backup \in 1..MaxBackups
      <4>1. launcher[q].backup \in 1..made /\ made \in 0..MaxBackups
        BY <3>1 DEF UpdaterInv, UpdaterShape
      <4>2. launcher[q].backup # launcher[p].backup
        BY <2>1, <3>1 DEF UpdaterInv, Restoring
      <4> QED BY <4>1, <4>2, UpdaterAssumption
    <3>3. backups'[launcher[q].backup] = backups[launcher[q].backup]
      BY <2>2, <3>2
    <3>4. \A s \in Launchers : launcher'[s].at = "extracting" => launcher'[s] = launcher[s]
      BY <1>2, <2>1 DEF Moved
    <3> QED BY <1>3, <3>1, <3>3, <3>4 DEF UpdaterInv, Restoring
  <2>7. WholeUnlessWriting'
    BY <1>6, <2>1 DEF UpdaterInv, WholeUnlessWriting
  <2> QED BY <1>5, <2>3, <2>4, <2>5, <2>6, <2>7 DEF UpdaterInv
<1>10. CASE ExtractFile(p, f) \/ CopyBack(p, f)
  <2>1. /\ launcher[p].at \in {"extracting", "restoring"} /\ UNCHANGED backups /\ upsets' = upsets \cup Others(p)
        /\ \E r \in 0..2 : install' = [install EXCEPT ![f] = r]
    <3>1. CASE ExtractFile(p, f)
      BY <3>1 DEF ExtractFile, Upping, Upset
    <3>2. CASE CopyBack(p, f)
      <4> DEFINE kept == backups[launcher[p].backup][f]
      <4>1. /\ launcher[p].at = "restoring" /\ UNCHANGED backups /\ upsets' = upsets \cup Others(p)
            /\ install' = [install EXCEPT ![f] = IF kept = 0 THEN install[f] ELSE kept]
        BY <3>2 DEF CopyBack, Upping, Upset
      <4>2. kept \in 0..2 /\ install[f] \in 0..2
        BY <1>7 DEF UpdaterInv, UpdaterShape, Copy
      <4> HIDE DEF kept
      <4> QED BY <4>1, <4>2
    <3> QED BY <1>10, <3>1, <3>2
  <2>2. install' \in Copy /\ \A g \in Files : g # f => install'[g] = install[g]
    BY <1>7, <2>1 DEF Copy
  <2>3. UpdaterShape'
    BY <1>8, <2>1, <2>2 DEF UpdaterInv, UpdaterShape
  <2>4. upsets' = {} => upsets = {} /\ Alone(p)
    BY <2>1 DEF Others, Alone
  <2>5. BackingUp' /\ BackupIsWhole'
    <3>1. \A q \in Launchers \ {p} : launcher'[q].alone => launcher'[q].at = "off"
      BY <1>3, <1>4 DEF Up, Alone
    <3>2. BackingUp'
      <4> SUFFICES ASSUME NEW q \in Launchers, launcher'[q].alone, launcher'[q].at # "off"
                   PROVE  /\ launcher'[q].at \in {"extracting", "restoring"}
                          /\ launcher'[q].at = "extracting" => launcher'[q].backup = made
                          /\ launcher'[q].at = "extracting" /\ upsets' = {} => launcher'[q].found \in Wholes
        BY <1>1 DEF BackingUp, Alone
      <4>1. q = p
        BY <3>1
      <4> QED BY <1>3, <2>1, <2>4, <4>1 DEF UpdaterInv, BackingUp, Alone
    <3>3. BackupIsWhole'
      <4> SUFFICES ASSUME launcher'[p].at = "extracting", Alone(p)
                   PROVE  backups'[launcher'[p].backup] = launcher'[p].found
        BY <1>3, <2>1, <3>1 DEF BackupIsWhole, Alone
      <4> QED BY <1>3, <2>1 DEF UpdaterInv, BackupIsWhole, Alone
    <3> QED BY <3>2, <3>3
  <2>6. Extracting'
    <3> SUFFICES ASSUME NEW q \in Launchers, launcher'[q].at = "extracting", upsets' = {} \/ Alone(q)',
                        NEW g \in Files, g \notin launcher'[q].left
                 PROVE  install'[g] = 2
      BY DEF Extracting
    <3>1. Alone(q) => Up(q)
      BY <1>3 DEF Up
    <3>2. q = p
      BY <1>3, <1>4, <2>4 DEF Up, Alone
    <3>3. CASE g = f
      BY <1>3, <1>7, <1>10, <3>2, <3>3 DEF ExtractFile, CopyBack, Upping, Copy
    <3>4. CASE g # f
      <4>1. g \notin launcher[p].left
        BY <1>2, <3>2, <3>4 DEF Moved
      <4>2. upsets = {} \/ Alone(p)
        BY <1>3, <2>4, <3>2 DEF Alone
      <4> QED BY <1>3, <2>2, <3>2, <3>4, <4>1, <4>2 DEF UpdaterInv, Extracting
    <3> QED BY <3>3, <3>4
  <2>7. Restoring'
    <3> SUFFICES ASSUME upsets' = {}, NEW q \in Launchers, launcher'[q].at = "restoring"
                 PROVE  /\ backups[launcher'[q].backup] \in Wholes
                        /\ \A g \in Files : install'[g] = IF g \in launcher'[q].left THEN 0 ELSE backups[launcher'[q].backup][g]
                        /\ \A s \in Launchers : launcher'[s].at \notin {"copying", "extracting"}
      BY <2>1 DEF Restoring
    <3>1. q = p /\ launcher[p].at = "restoring" /\ \A s \in Launchers : s # p => launcher'[s].at = "off"
      BY <1>3, <1>4, <2>4 DEF Up
    <3>2. /\ backups[launcher[p].backup] \in Wholes
          /\ \A g \in Files : install[g] = IF g \in launcher[p].left THEN 0 ELSE backups[launcher[p].backup][g]
      BY <2>4, <3>1 DEF UpdaterInv, Restoring
    <3>3. install'[f] = backups[launcher[p].backup][f]
      <4> DEFINE kept == backups[launcher[p].backup][f]
      <4>1. install' = [install EXCEPT ![f] = IF kept = 0 THEN install[f] ELSE kept]
        BY <1>10, <3>1 DEF CopyBack, ExtractFile, Upping
      <4>2. install[f] = 0
        BY <1>1, <3>2
      <4> QED BY <1>7, <4>1, <4>2 DEF Copy
    <3>4. \A g \in Files : install'[g] = IF g \in launcher'[p].left THEN 0 ELSE backups[launcher[p].backup][g]
      <4>1. launcher'[p].left = launcher[p].left \ {f}
        BY <1>2 DEF Moved
      <4> QED BY <2>2, <3>2, <3>3, <4>1
    <3> QED BY <1>3, <3>1, <3>2, <3>4
  <2>8. WholeUnlessWriting'
    <3>1. p \in Writing
      BY <2>1 DEF Writing
    <3> QED BY <1>6, <3>1 DEF WholeUnlessWriting
  <2> QED BY <1>5, <2>3, <2>5, <2>6, <2>7, <2>8 DEF UpdaterInv
<1> QED BY <1>9, <1>10

LEMMA ExtractedKeeps ==
  ASSUME UpdaterInv, NEW p \in Launchers, Extracted(p)
  PROVE  UpdaterInv'
<1>1. /\ launcher[p].at = "extracting" /\ launcher[p].left = {} /\ UNCHANGED <<install, made, launched>>
      /\ backups' = [b \in 1..MaxBackups |-> IF b + Keep <= made THEN Nothing ELSE backups[b]]
      /\ upsets' = IF launcher[p].alone THEN {} ELSE upsets
  BY DEF Extracted, Upping
<1>2. Moved(p, "launching", launcher[p].backup, Files)
  BY UpToMoves DEF Extracted, UpdaterInv, UpStages
<1>3. Up(p) /\ \A q \in Launchers : Up(q)' <=> Up(q)
  BY <1>1, <1>2 DEF Up, Moved
<1>4. /\ \A q \in Launchers \ {p} : Up(q) => ~Alone(q)
      /\ Alone(p) => \A q \in Launchers \ {p} : ~Up(q)
  BY <1>3, OthersAreNotAlone DEF UpdaterInv
<1>5. upsets' = {} => upsets = {} \/ Alone(p)
  BY <1>1 DEF Alone
<1>6. UpdaterShape'
  <2>1. backups' \in [1..MaxBackups -> Copy]
    <3>1. Nothing \in Copy
      BY DEF Nothing, Copy
    <3>2. \A b \in 1..MaxBackups : (IF b + Keep <= made THEN Nothing ELSE backups[b]) \in Copy
      BY <3>1 DEF UpdaterInv, UpdaterShape
    <3> QED BY <1>1, <3>2
  <2> QED BY <1>1, <1>2, <2>1 DEF UpdaterInv, UpdaterShape, Moved
<1>7. AloneIsAlone'
  <2> SUFFICES ASSUME NEW q \in Launchers, NEW s \in Launchers, Up(q)', Alone(q)', q # s, Up(s)' PROVE FALSE
    BY DEF AloneIsAlone
  <2>1. Up(q) /\ Up(s) /\ Alone(q)
    BY <1>2, <1>3 DEF Alone, Moved
  <2> QED BY <2>1 DEF UpdaterInv, AloneIsAlone
<1>8. BackingUp' /\ BackupIsWhole'
  <2>1. \A q \in Launchers : launcher'[q].alone =>
          launcher'[q].at \notin {"backing", "copying", "fetching", "extracting", "removing"}
    BY <1>2, <1>4 DEF Up, Alone, Moved
  <2> QED BY <2>1 DEF BackingUp, BackupIsWhole, Alone
<1>9. Extracting'
  <2> SUFFICES ASSUME NEW q \in Launchers, launcher'[q].at = "extracting", upsets' = {} \/ Alone(q)'
               PROVE  \A f \in Files \ launcher'[q].left : install[f] = 2
    BY <1>1 DEF Extracting
  <2>1. q # p /\ launcher'[q] = launcher[q]
    BY <1>2 DEF Moved
  <2>2. upsets = {}
    BY <1>4, <1>5, <2>1 DEF Up, Alone
  <2> QED BY <2>1, <2>2 DEF UpdaterInv, Extracting
<1>10. Restoring'
  <2> SUFFICES ASSUME upsets' = {}, NEW q \in Launchers, launcher'[q].at = "restoring" PROVE FALSE
    BY DEF Restoring
  <2>1. q # p /\ launcher[q].at = "restoring"
    BY <1>2 DEF Moved
  <2>2. upsets = {}
    BY <1>4, <1>5, <2>1 DEF Up
  <2>3. launcher[p].left = Files
    BY <1>1, <2>1, <2>2 DEF UpdaterInv, Restoring
  <2> QED BY <1>1, <2>3, UpdaterAssumption
<1>11. WholeUnlessWriting'
  <2> SUFFICES ASSUME upsets' = {} PROVE install \in Wholes
    BY <1>1 DEF WholeUnlessWriting
  <2>1. \A f \in Files : install[f] = 2
    BY <1>1, <1>5 DEF UpdaterInv, Extracting
  <2>2. install \in Copy
    BY DEF UpdaterInv, UpdaterShape
  <2> QED BY <2>1, <2>2 DEF Copy, Release, Wholes
<1>12. LaunchedIsWhole'
  BY <1>1 DEF UpdaterInv, LaunchedIsWhole
<1> QED BY <1>6, <1>7, <1>8, <1>9, <1>10, <1>11, <1>12 DEF UpdaterInv

LEMMA RemoveInstallKeeps ==
  ASSUME UpdaterInv, NEW p \in Launchers, RemoveInstall(p)
  PROVE  UpdaterInv'
<1>1. /\ launcher[p].at = "removing" /\ install' = Nothing /\ UNCHANGED <<backups, made, launched>>
      /\ launcher' = [launcher EXCEPT ![p].at = "restoring", ![p].left = Files, ![p].backup = made]
      /\ upsets' = upsets \cup Others(p)
  BY DEF RemoveInstall, Upping, Upset
<1>2. made \in Nat /\ made \in 1..made
  BY <1>1, UpdaterAssumption DEF UpdaterInv, UpdaterShape
<1>3. Moved(p, "restoring", made, Files)
  <2>1. launcher \in [Launchers -> LauncherType] /\ "restoring" \in UpStages /\ launcher[p] \in LauncherType
    BY DEF UpdaterInv, UpdaterShape, UpStages
  <2> QED BY <1>1, <1>2, <2>1 DEF Moved, LauncherType
<1>4. Up(p) /\ \A q \in Launchers : Up(q)' <=> Up(q)
  BY <1>1, <1>3 DEF Up, Moved
<1>5. /\ \A q \in Launchers \ {p} : Up(q) => ~Alone(q)
      /\ Alone(p) => \A q \in Launchers \ {p} : ~Up(q)
  BY <1>4, OthersAreNotAlone DEF UpdaterInv
<1>6. upsets' = {} => upsets = {} /\ Alone(p)
  BY <1>1 DEF Others, Alone
<1>7. UpdaterShape'
  <2>1. Nothing \in Copy
    BY DEF Nothing, Copy
  <2> QED BY <1>1, <1>2, <1>3, <2>1 DEF UpdaterInv, UpdaterShape, Moved
<1>8. AloneIsAlone'
  <2> SUFFICES ASSUME NEW q \in Launchers, NEW s \in Launchers, Up(q)', Alone(q)', q # s, Up(s)' PROVE FALSE
    BY DEF AloneIsAlone
  <2>1. Up(q) /\ Up(s) /\ Alone(q)
    BY <1>3, <1>4 DEF Alone, Moved
  <2> QED BY <2>1 DEF UpdaterInv, AloneIsAlone
<1>9. BackingUp' /\ BackupIsWhole'
  <2>1. \A q \in Launchers : launcher'[q].alone =>
          launcher'[q].at \notin {"backing", "copying", "fetching", "extracting", "removing"}
    BY <1>3, <1>5 DEF Up, Alone, Moved
  <2> QED BY <2>1 DEF BackingUp, BackupIsWhole, Alone
<1>10. Extracting'
  <2> SUFFICES ASSUME NEW q \in Launchers, launcher'[q].at = "extracting", upsets' = {} \/ Alone(q)' PROVE FALSE
    BY DEF Extracting
  <2>1. q # p /\ Up(q) /\ (Alone(q)' => Alone(q))
    BY <1>3 DEF Moved, Up, Alone
  <2> QED BY <1>5, <1>6, <2>1
<1>11. Restoring'
  <2> SUFFICES ASSUME upsets' = {}, NEW q \in Launchers, launcher'[q].at = "restoring"
               PROVE  /\ backups[launcher'[q].backup] \in Wholes
                      /\ \A g \in Files : install'[g] = IF g \in launcher'[q].left THEN 0 ELSE backups[launcher'[q].backup][g]
                      /\ \A s \in Launchers : launcher'[s].at \notin {"copying", "extracting"}
    BY <1>1 DEF Restoring
  <2>1. q = p /\ \A s \in Launchers : s # p => launcher'[s].at = "off"
    BY <1>4, <1>5, <1>6 DEF Up
  <2>2. backups[made] \in Wholes
    <3>1. launcher[p].backup = made /\ launcher[p].found \in Wholes
      BY <1>1, <1>6 DEF UpdaterInv, BackingUp
    <3>2. backups[launcher[p].backup] = launcher[p].found
      BY <1>1, <1>6 DEF UpdaterInv, BackupIsWhole, Alone
    <3> QED BY <3>1, <3>2
  <2>3. launcher'[p].at = "restoring" /\ launcher'[p].backup = made /\ launcher'[p].left = Files
    BY <1>3 DEF Moved
  <2> QED BY <1>1, <2>1, <2>2, <2>3 DEF Nothing
<1>12. WholeUnlessWriting'
  <2>1. p \in Writing'
    BY <1>3 DEF Writing, Moved
  <2> QED BY <2>1 DEF WholeUnlessWriting
<1>13. LaunchedIsWhole'
  BY <1>1 DEF UpdaterInv, LaunchedIsWhole
<1> QED BY <1>7, <1>8, <1>9, <1>10, <1>11, <1>12, <1>13 DEF UpdaterInv

\* The other steps of a launcher: on to the next stage, or done.
LEMMA StagesKeep ==
  ASSUME UpdaterInv, NEW p \in Launchers,
         BackedUp(p) \/ BackupFails(p) \/ Fetch(p) \/ ExtractFails(p) \/ Restored(p) \/ RestoreFails(p)
         \/ Launch(p) \/ Kill(p)
  PROVE  UpdaterInv'
<1>1. UNCHANGED <<install, backups, made>> /\ Up(p) /\ upsets \subseteq upsets'
  BY DEF BackedUp, BackupFails, Fetch, ExtractFails, Restored, RestoreFails, Launch, Kill, Upping, Up, Upset
<1>2. /\ backups \in [1..MaxBackups -> Copy] /\ made \in 0..MaxBackups /\ made <= made
      /\ \A stage \in UpStages : UpTo(p, stage) => Moved(p, stage, launcher[p].backup, Files)
  BY UpToMoves, UpdaterAssumption DEF UpdaterInv, UpdaterShape
<1>3. CASE BackedUp(p)
  BY <1>2, <1>3, Advances DEF BackedUp, Upping, UpStages
<1>4. CASE ExtractFails(p)
  BY <1>2, <1>4, Advances DEF ExtractFails, Upping, UpStages
<1>5. CASE Fetch(p) /\ UpTo(p, "extracting")
  BY <1>2, <1>5, Advances DEF Fetch, Upping, UpStages
<1>6. ASSUME UpTo(p, "launching"), UNCHANGED launched, upsets' = {} /\ p \in Writing => install \in Wholes
      PROVE  UpdaterInv'
  <2>1. Moved(p, "launching", launcher[p].backup, Files)
    BY <1>2, <1>6 DEF UpStages
  <2>2. LaunchedIsWhole'
    BY <1>6 DEF UpdaterInv, LaunchedIsWhole
  <2> QED BY <1>1, <1>2, <1>6, <2>1, <2>2, Leaves DEF Moved
<1>7. CASE BackupFails(p)
  BY <1>6, <1>7 DEF BackupFails, Upping, Writing
<1>8. CASE Fetch(p) /\ UpTo(p, "launching")
  BY <1>6, <1>8 DEF Fetch, Upping, Writing
<1>9. CASE Restored(p)
  <2>1. launcher[p].at = "restoring" /\ launcher[p].left = {} /\ UpTo(p, "launching") /\ UNCHANGED <<launched, upsets>>
    BY <1>9 DEF Restored, Upping
  <2>2. upsets = {} => install \in Wholes
    <3> SUFFICES ASSUME upsets = {} PROVE install \in Wholes
      OBVIOUS
    <3>1. /\ backups[launcher[p].backup] \in Wholes
          /\ \A f \in Files : install[f] = backups[launcher[p].backup][f]
      BY <2>1 DEF UpdaterInv, Restoring
    <3>2. install \in Copy /\ backups[launcher[p].backup] \in Copy
      BY <3>1 DEF UpdaterInv, UpdaterShape, Wholes, Former, Release, Copy
    <3>3. install = backups[launcher[p].backup]
      BY <3>1, <3>2 DEF Copy
    <3> QED BY <3>1, <3>3
  <2> QED BY <1>6, <2>1, <2>2
<1>10. CASE RestoreFails(p)
  <2>1. UpTo(p, "launching") /\ UNCHANGED launched /\ upsets' # {}
    BY <1>10 DEF RestoreFails, Upset
  <2> QED BY <1>6, <2>1
<1>11. CASE Launch(p)
  <2>1. /\ launcher[p].at = "launching" /\ launcher' = [launcher EXCEPT ![p] = Resting]
        /\ upsets' = upsets \cup (IF Writing = {} THEN {} ELSE {"two-launchers"})
        /\ launched' = IF install[Binary] = 0 THEN launched ELSE [from |-> install, upsets |-> upsets']
    BY <1>11 DEF Launch, Upping, Upset
  <2>2. LaunchedIsWhole'
    <3>1. CASE launched' = launched
      BY <3>1 DEF UpdaterInv, LaunchedIsWhole
    <3>2. CASE launched' = [from |-> install, upsets |-> upsets']
      <4>1. launched'.from = install /\ launched'.upsets = upsets'
        BY <3>2
      <4>2. upsets' = {} => install \in Wholes
        BY <2>1 DEF UpdaterInv, WholeUnlessWriting
      <4> QED BY <4>1, <4>2 DEF LaunchedIsWhole, Wholes
    <3> QED BY <2>1, <3>1, <3>2
  <2>3. p \notin Writing
    BY <2>1 DEF Writing
  <2> QED BY <1>1, <1>2, <2>1, <2>2, <2>3, RestsMoves, Leaves DEF UpdaterInv
<1>12. CASE Kill(p)
  <2>1. /\ launcher' = [launcher EXCEPT ![p] = Resting] /\ UNCHANGED launched
        /\ upsets' = upsets \cup (IF p \in Writing THEN {"killed"} ELSE {})
    BY <1>12 DEF Kill, Upset
  <2>2. LaunchedIsWhole' /\ (p \in Writing => upsets' # {})
    BY <2>1 DEF UpdaterInv, LaunchedIsWhole
  <2> QED BY <1>1, <1>2, <2>1, <2>2, RestsMoves, Leaves DEF UpdaterInv
<1> QED BY <1>3, <1>4, <1>5, <1>7, <1>8, <1>9, <1>10, <1>11, <1>12 DEF Fetch

\* The application is started from one whole release, and an installation is
\* written over only with a whole backup of what was found at hand, unless a
\* launcher was killed or failed while writing, or two ran at once - for any
\* number of launchers, files and backups, whatever file a copy stops at.
THEOREM UpdateWholeAlways == UpdaterSpec => []UpdateIsWhole
<1>1. UpdaterInit => UpdaterInv
  <2> SUFFICES ASSUME UpdaterInit PROVE UpdaterInv
    OBVIOUS
  <2>1. \A p \in Launchers : launcher[p] = Resting /\ launcher[p].at = "off"
    BY DEF UpdaterInit, Resting
  <2>2. UpdaterShape
    <3>1. Resting \in LauncherType /\ Nothing \in Copy /\ Former \in Copy
      BY DEF Resting, LauncherType, UpStages, Nothing, Former, Copy
    <3>2. launcher \in [Launchers -> LauncherType] /\ backups \in [1..MaxBackups -> Copy] /\ install \in Copy
      BY <3>1 DEF UpdaterInit
    <3>3. made \in 0..MaxBackups
      BY UpdaterAssumption DEF UpdaterInit
    <3> QED BY <2>1, <3>2, <3>3 DEF UpdaterShape
  <2>3. AloneIsAlone /\ BackingUp /\ Extracting /\ Restoring /\ BackupIsWhole
    BY <2>1 DEF AloneIsAlone, BackingUp, Extracting, Restoring, BackupIsWhole, Up
  <2>4. WholeUnlessWriting /\ LaunchedIsWhole
    BY DEF UpdaterInit, WholeUnlessWriting, Wholes, LaunchedIsWhole
  <2> QED BY <2>2, <2>3, <2>4 DEF UpdaterInv
<1>2. UpdaterInv /\ [UpdaterNext]_updaterVars => UpdaterInv'
  <2> SUFFICES ASSUME UpdaterInv, [UpdaterNext]_updaterVars PROVE UpdaterInv'
    OBVIOUS
  <2>1. CASE UNCHANGED updaterVars
    BY <2>1 DEF updaterVars, UpdaterInv, UpdaterShape, AloneIsAlone, BackingUp, Extracting, Restoring,
                WholeUnlessWriting, Writing, LaunchedIsWhole, BackupIsWhole, Up, Alone
  <2> QED BY <2>1, CheckKeeps, OpenBackupKeeps, CopyKeeps, ExtractedKeeps, RemoveInstallKeeps, StagesKeep
          DEF UpdaterNext, Copies
<1>3. UpdaterInv => UpdateIsWhole
  BY DEF UpdaterInv, UpdateIsWhole
<1> QED BY <1>1, <1>2, <1>3, PTL DEF UpdaterSpec

-----------------------------------------------------------------------------
(* The migrations.                                                         *)

\* What the table of statements says: the one thing dropped is the hash, alone
\* in version 13, and only the first version makes the table that has it.
StatementFacts(v) ==
  /\ Len(Statements[v]) \in Nat /\ DOMAIN Statements[v] = 1..Len(Statements[v])
  /\ \A k \in 1..Len(Statements[v]) :
       LET s == Statements[v][k] IN
       /\ s.does = "drop" => v = 13 /\ k = 1 /\ s.what = "pin_hash"
       /\ s.what = "pin_hash" => s.does = "drop"
       /\ s.what = "operators" => v = 1
LEMMA TheStatements ==
  /\ \A v \in 1..14 : StatementFacts(v)
  /\ Len(Statements[13]) = 1 /\ Statements[13][1].does = "drop"
<1>1. StatementFacts(1) BY DEF Statements, StatementFacts, Create, Add, Drop
<1>2. StatementFacts(2) BY DEF Statements, StatementFacts, Create, Add, Drop
<1>3. StatementFacts(3) BY DEF Statements, StatementFacts, Create, Add, Drop
<1>4. StatementFacts(4) BY DEF Statements, StatementFacts, Create, Add, Drop
<1>5. StatementFacts(5) BY DEF Statements, StatementFacts, Create, Add, Drop
<1>6. StatementFacts(6) BY DEF Statements, StatementFacts, Create, Add, Drop
<1>7. StatementFacts(7) BY DEF Statements, StatementFacts, Create, Add, Drop
<1>8. StatementFacts(8) BY DEF Statements, StatementFacts, Create, Add, Drop
<1>9. StatementFacts(9) BY DEF Statements, StatementFacts, Create, Add, Drop
<1>10. StatementFacts(10) BY DEF Statements, StatementFacts, Create, Add, Drop
<1>11. StatementFacts(11) BY DEF Statements, StatementFacts, Create, Add, Drop
<1>12. StatementFacts(12) BY DEF Statements, StatementFacts, Create, Add, Drop
<1>13. StatementFacts(13) BY DEF Statements, StatementFacts, Create, Add, Drop
<1>14. StatementFacts(14) BY DEF Statements, StatementFacts, Create, Add, Drop
<1>15. Len(Statements[13]) = 1 /\ Statements[13][1].does = "drop" BY DEF Statements, Drop
<1>16. \A v \in 1..14 : v \in {1, 2, 3, 4, 5, 6, 7, 8, 9, 10, 11, 12, 13, 14} OBVIOUS
<1> QED BY <1>1, <1>2, <1>3, <1>4, <1>5, <1>6, <1>7, <1>8, <1>9, <1>10, <1>11, <1>12, <1>13, <1>14, <1>15, <1>16

\* A statement has run if it left what it leaves.
HasRun(s) == IF s.does = "drop" THEN s.what \notin objects ELSE s.what \in objects
Applied(n) == SchemaAt(n) \ {"pin_hash"} \subseteq objects /\ (n >= 13 => "pin_hash" \notin objects)
Underway(n) ==
  \/ step = NotMigrating
  \/ /\ n + 1 \in 1..14 /\ step = [version |-> n + 1, ran |-> step.ran] /\ step.ran \in 0..Len(Statements[n + 1])
     /\ \A k \in 1..step.ran : HasRun(Statements[n + 1][k])
\* The versions up to one are applied, and the first statements of the next.
MigratedTo(n) == versions = 1..n /\ Applied(n) /\ Underway(n)
MigrationInv == ~failed /\ \E n \in 0..14 : MigratedTo(n)

LEMMA VersionIs == ASSUME NEW n \in 0..14, versions = 1..n PROVE GetSchemaVersion = n
<1>1. CASE n = 0
  <2>1. versions = {} BY <1>1
  <2> QED BY <1>1, <2>1 DEF GetSchemaVersion
<1>2. CASE n # 0
  <2>1. n \in versions /\ \A w \in versions : w <= n BY <1>2
  <2>2. \A v \in versions : (\A w \in versions : w <= v) => v = n BY <2>1
  <2>3. versions # {} BY <2>1
  <2> QED BY <2>1, <2>2, <2>3 DEF GetSchemaVersion
<1> QED BY <1>1, <1>2

LEMMA StatementOf ==
  ASSUME NEW v \in 1..14, NEW k \in 1..Len(Statements[v])
  PROVE  LET s == Statements[v][k] IN
         /\ s.does = "drop" => v = 13 /\ k = 1 /\ s.what = "pin_hash"
         /\ s.what = "pin_hash" => s.does = "drop"
         /\ s.what = "operators" => v = 1
BY TheStatements DEF StatementFacts

\* A statement of one of the first n versions.
StatedBy(n, s) == \E u \in 1..n : \E k \in 1..Len(Statements[u]) : s = Statements[u][k]

LEMMA RunByIs == ASSUME NEW n \in 0..14, NEW s PROVE s \in RunBy(n) <=> StatedBy(n, s)
<1>1. ASSUME NEW u \in 1..n PROVE Range(Statements[u]) = {Statements[u][k] : k \in 1..Len(Statements[u])}
  <2>1. u \in 1..14 OBVIOUS
  <2>2. DOMAIN Statements[u] = 1..Len(Statements[u]) BY <2>1, TheStatements DEF StatementFacts
  <2> QED BY <2>2 DEF Range
<1> QED BY <1>1 DEF RunBy, StatedBy

\* What a version makes is what the versions before it lead to and its own.
LEMMA SchemaGrows ==
  ASSUME NEW n \in 0..13, NEW x \in SchemaAt(n + 1), x # "pin_hash"
  PROVE  x \in SchemaAt(n) \/ \E k \in 1..Len(Statements[n + 1]) : x = Statements[n + 1][k].what /\ Statements[n + 1][k].does # "drop"
<1>1. PICK s \in RunBy(n + 1) : s.does # "drop" /\ x \in Made(s) BY DEF SchemaAt
<1>2. x = s.what BY <1>1 DEF Made
<1>a. n \in 0..14 /\ n + 1 \in 0..14 OBVIOUS
<1>b. StatedBy(n + 1, s) BY <1>1, <1>a, RunByIs
<1>3. PICK u \in 1..(n + 1) : \E k \in 1..Len(Statements[u]) : s = Statements[u][k] BY <1>b DEF StatedBy
<1>4. CASE u = n + 1 BY <1>1, <1>2, <1>3, <1>4
<1>5. CASE u # n + 1
  <2>1. u \in 1..n BY <1>5
  <2>a. StatedBy(n, s) BY <1>3, <2>1 DEF StatedBy
  <2>2. s \in RunBy(n) BY <1>a, <2>a, RunByIs
  <2>3. \A t \in RunBy(n) : t.does = "drop" => t.what = "pin_hash"
    <3> SUFFICES ASSUME NEW t \in RunBy(n), t.does = "drop" PROVE t.what = "pin_hash" OBVIOUS
    <3>0. StatedBy(n, t) BY <1>a, RunByIs
    <3>1. PICK w \in 1..n : \E k \in 1..Len(Statements[w]) : t = Statements[w][k] BY <3>0 DEF StatedBy
    <3>2. w \in 1..14 OBVIOUS
    <3> QED BY <3>1, <3>2, StatementOf
  <2>4. x \in UNION {Made(t) : t \in {w \in RunBy(n) : w.does # "drop"}} BY <1>1, <2>2
  <2>5. x \notin {t.what : t \in {w \in RunBy(n) : w.does = "drop"}} BY <2>3
  <2> QED BY <2>4, <2>5 DEF SchemaAt
<1> QED BY <1>4, <1>5

LEMMA MigrationInitHolds == MigrationInit => MigrationInv
<1> SUFFICES ASSUME MigrationInit PROVE MigrationInv OBVIOUS
<1>1. PICK v \in 0..14 : versions = 1..v /\ objects = SchemaAt(v) BY DEF MigrationInit, Current
<1>2. ASSUME v >= 13 PROVE "pin_hash" \notin objects
  <2>1. 13 \in 1..v /\ 1 \in 1..Len(Statements[13]) BY <1>2, TheStatements
  <2>a. StatedBy(v, Statements[13][1]) BY <2>1 DEF StatedBy
  <2>2. Statements[13][1] \in RunBy(v) BY <2>a, RunByIs
  <2>3. Statements[13][1].does = "drop" /\ Statements[13][1].what = "pin_hash" BY <2>1, TheStatements, StatementOf
  <2>4. "pin_hash" \in {s.what : s \in {t \in RunBy(v) : t.does = "drop"}} BY <2>2, <2>3
  <2> QED BY <1>1, <2>4 DEF SchemaAt
<1>3. Applied(v) BY <1>1, <1>2 DEF Applied
<1>4. step = NotMigrating /\ ~failed BY DEF MigrationInit
<1> QED BY <1>1, <1>3, <1>4 DEF MigrationInv, MigratedTo, Underway

\* One statement: it runs if it is needed, and is not refused.
LEMMA StatementKeeps == MigrationInv /\ Statement => MigrationInv'
<1> SUFFICES ASSUME MigrationInv, Statement PROVE MigrationInv' OBVIOUS
<1>1. PICK n \in 0..14 : MigratedTo(n) BY DEF MigrationInv
<1> DEFINE v == n + 1
<1>a. PICK r : r = step.ran OBVIOUS
<1>b. PICK s : s = Statements[v][r + 1] OBVIOUS
<1>2. /\ v \in 1..14 /\ step = [version |-> v, ran |-> r] /\ r \in 0..Len(Statements[v])
      /\ \A k \in 1..r : HasRun(Statements[v][k])
  BY <1>1, <1>a DEF MigratedTo, Underway, Statement
<1>3. r < Len(Statements[v]) /\ Len(Statements[v]) \in Nat
  <2>1. step.version = v BY <1>2
  <2>2. step.ran < Len(Statements[step.version]) BY DEF Statement
  <2>3. Len(Statements[v]) \in Nat BY <1>2, TheStatements DEF StatementFacts
  <2> QED BY <1>a, <2>1, <2>2, <2>3
<1>4. /\ IF Needed(s) THEN Runs(s) ELSE UNCHANGED <<objects, failed>>
      /\ step' = IF failed' THEN NotMigrating ELSE [step EXCEPT !.ran = @ + 1]
      /\ UNCHANGED <<versions, crashes>>
  <2>1. step.version = v BY <1>2
  <2> QED BY <1>a, <1>b, <2>1 DEF Statement
<1>5. r + 1 \in 1..Len(Statements[v]) /\ r \in Nat BY <1>2, <1>3
<1>6. /\ s.does = "drop" => v = 13 /\ r + 1 = 1 /\ s.what = "pin_hash"
      /\ s.what = "pin_hash" => s.does = "drop"
      /\ s.what = "operators" => v = 1
  BY <1>2, <1>5, <1>b, StatementOf
<1>7. ~failed' /\ objects' = (IF Needed(s) THEN Effect(objects, s) ELSE objects)
  <2>1. CASE ~Needed(s) BY <1>4, <2>1 DEF MigrationInv
  <2>2. CASE Needed(s) BY <1>4, <2>2 DEF MigrationInv, Needed, Runs
  <2> QED BY <2>1, <2>2
<1>8. /\ objects \ {"pin_hash"} \subseteq objects' /\ HasRun(s)'
      /\ "pin_hash" \in objects' => "pin_hash" \in objects \/ v = 1
  <2>1. CASE s.does = "drop"
    <3>1. objects' = objects \ {"pin_hash"} BY <1>6, <1>7, <2>1 DEF Needed, Effect
    <3> QED BY <1>6, <2>1, <3>1 DEF HasRun
  <2>2. CASE s.does # "drop"
    <3>1. objects' = objects \/ objects' = objects \cup Made(s) BY <1>7, <2>2 DEF Effect
    <3>2. s.what \in Made(s) /\ ("pin_hash" \in Made(s) => v = 1) BY <1>6, <2>2 DEF Made
    <3>3. s.what \in objects' BY <1>7, <2>2, <3>2 DEF Needed, Effect
    <3> QED BY <2>2, <3>1, <3>2, <3>3 DEF HasRun
  <2> QED BY <2>1, <2>2
<1>9. Applied(n)' BY <1>1, <1>8 DEF MigratedTo, Applied
<1>10. step' = [version |-> v, ran |-> r + 1] BY <1>2, <1>4, <1>7
<1>11. ASSUME NEW k \in 1..(r + 1) PROVE HasRun(Statements[v][k])'
  <2>1. CASE k = r + 1 BY <1>8, <1>b, <2>1
  <2>2. CASE k # r + 1
    <3>1. k \in 1..r /\ k \in 1..Len(Statements[v]) BY <1>5, <2>2
    <3>2. Len(Statements[13]) = 1 BY TheStatements
    <3>3. v # 13
      <4> SUFFICES ASSUME v = 13 PROVE FALSE OBVIOUS
      <4>1. Len(Statements[v]) = 1 BY <3>2
      <4> QED BY <1>5, <3>1, <4>1
    <3>4. Statements[v][k].does # "drop" /\ Statements[v][k].what # "pin_hash" BY <1>2, <3>1, <3>3, StatementOf
    <3>5. HasRun(Statements[v][k]) BY <1>2, <3>1
    <3> QED BY <1>8, <3>4, <3>5 DEF HasRun
  <2> QED BY <2>1, <2>2
<1>12. Underway(n)' BY <1>2, <1>5, <1>10, <1>11 DEF Underway
<1> QED BY <1>1, <1>4, <1>7, <1>9, <1>12 DEF MigrationInv, MigratedTo

\* The version's row: all of its statements have run.
LEMMA RecordVersionKeeps == MigrationInv /\ RecordVersion => MigrationInv'
<1> SUFFICES ASSUME MigrationInv, RecordVersion PROVE MigrationInv' OBVIOUS
<1>1. PICK n \in 0..14 : MigratedTo(n) BY DEF MigrationInv
<1> DEFINE v == n + 1
<1>2. /\ v \in 1..14 /\ step = [version |-> v, ran |-> step.ran] /\ step.ran = Len(Statements[v])
      /\ \A k \in 1..Len(Statements[v]) : HasRun(Statements[v][k])
  <2>1. step # NotMigrating /\ step.ran = Len(Statements[step.version]) BY DEF RecordVersion
  <2> QED BY <1>1, <2>1 DEF MigratedTo, Underway
<1>3. versions' = versions \cup {v} /\ step' = NotMigrating /\ UNCHANGED <<objects, failed>>
  <2>1. step.version = v BY <1>2
  <2> QED BY <2>1 DEF RecordVersion
<1>4. versions' = 1..v BY <1>1, <1>2, <1>3 DEF MigratedTo
<1>5. ASSUME NEW x \in SchemaAt(v), x # "pin_hash" PROVE x \in objects
  <2>1. n \in 0..13 BY <1>2
  <2>2. CASE x \in SchemaAt(n) BY <1>1, <1>5, <2>2 DEF MigratedTo, Applied
  <2>3. ASSUME NEW k \in 1..Len(Statements[v]), x = Statements[v][k].what, Statements[v][k].does # "drop"
        PROVE  x \in objects
    BY <1>2, <2>3 DEF HasRun
  <2> QED BY <1>5, <2>1, <2>2, <2>3, SchemaGrows
<1>6. ASSUME v >= 13 PROVE "pin_hash" \notin objects
  <2>1. CASE v = 13
    <3>1. 1 \in 1..Len(Statements[13]) /\ Statements[13][1].does = "drop" /\ HasRun(Statements[13][1])
      BY <1>2, <2>1, TheStatements
    <3>2. Statements[13][1].what = "pin_hash" BY <3>1, StatementOf
    <3> QED BY <3>1, <3>2 DEF HasRun
  <2>2. CASE v # 13
    <3>1. n >= 13 BY <1>2, <1>6, <2>2
    <3> QED BY <1>1, <3>1 DEF MigratedTo, Applied
  <2> QED BY <2>1, <2>2
<1>7. Applied(v)' BY <1>3, <1>5, <1>6 DEF Applied
<1>8. Underway(v)' BY <1>3 DEF Underway
<1>9. v \in 0..14 /\ ~failed' BY <1>2, <1>3 DEF MigrationInv
<1> QED BY <1>4, <1>7, <1>8, <1>9 DEF MigrationInv, MigratedTo

LEMMA MigrationStep == MigrationInv /\ [MigrationNext]_migrationVars => MigrationInv'
<1> SUFFICES ASSUME MigrationInv, [MigrationNext]_migrationVars PROVE MigrationInv' OBVIOUS
<1>1. PICK n \in 0..14 : MigratedTo(n) BY DEF MigrationInv
<1>2. CASE Begin
  <2>1. GetSchemaVersion = n BY <1>1, VersionIs DEF MigratedTo
  <2>2. /\ n < 14 /\ step' = [version |-> n + 1, ran |-> 0] /\ UNCHANGED <<objects, versions, failed>>
    BY <1>2, <2>1 DEF Begin, Current
  <2>3. 0 \in 0..Len(Statements[n + 1])
    <3>1. n + 1 \in 1..14 BY <2>2
    <3>2. Len(Statements[n + 1]) \in Nat BY <3>1, TheStatements DEF StatementFacts
    <3> QED BY <3>2
  <2>4. Underway(n)' BY <2>2, <2>3 DEF Underway
  <2> QED BY <1>1, <2>2, <2>4 DEF MigrationInv, MigratedTo, Applied
<1>3. CASE Statement BY <1>3, StatementKeeps
<1>4. CASE RecordVersion BY <1>4, RecordVersionKeeps
<1>5. CASE Crash
  <2>1. step' = NotMigrating /\ failed' = FALSE /\ UNCHANGED <<objects, versions>> BY <1>5 DEF Crash
  <2> QED BY <1>1, <2>1 DEF MigrationInv, MigratedTo, Applied, Underway
<1>6. CASE UNCHANGED migrationVars
  <2>1. UNCHANGED <<objects, versions, step, failed>> BY <1>6 DEF migrationVars
  <2> QED BY <1>1, <2>1 DEF MigrationInv, MigratedTo, Applied, Underway, HasRun
<1> QED BY <1>2, <1>3, <1>4, <1>5, <1>6 DEF MigrationNext

LEMMA MigrationInvShows == MigrationInv => MigratedIsWhole
<1> SUFFICES ASSUME MigrationInv PROVE MigratedIsWhole OBVIOUS
<1>1. PICK n \in 0..14 : MigratedTo(n) BY DEF MigrationInv
<1>2. GetSchemaVersion = n BY <1>1, VersionIs DEF MigratedTo
<1> QED BY <1>1, <1>2 DEF MigratedIsWhole, RecordedIsApplied, HashStaysGone, NoStartFails, MigrationInv, MigratedTo, Applied

\* However often a start is killed between two statements, a version that is
\* recorded has been applied whole, no later start is refused for it, and the
\* hash of the PIN does not come back (run_migrations, apply_v1..apply_v14).
THEOREM MigratedWholeAlways == MigrationSpec => []MigratedIsWhole
<1> QED BY MigrationInitHolds, MigrationStep, MigrationInvShows, PTL DEF MigrationSpec
-----------------------------------------------------------------------------
(* The search index.                                                       *)

Terms == Words \cup Goods
ShelfRow == [number : Nat, terms : SUBSET Terms, live : BOOLEAN]
IndexTables == [rows : [Goods -> ShelfRow], postings : SUBSET (Nat \X Terms),
                sized : SUBSET Nat, overwritten : SUBSET Terms]

\* A row that stands has a word of its name and its barcode, and a number that
\* is its own; the index knows it by both.
RowIsWhole(t, p) ==
  IF Stands(t, p) THEN \E w \in Words : t.rows[p].terms = {p, w} ELSE t.rows[p] = Absent
NumbersAreOwn(t) == \A p, q \in Goods : Stands(t, p) /\ t.rows[p].number = t.rows[q].number => p = q
IsIndexed(t, p) ==
  Stands(t, p) => t.rows[p].number \in t.sized /\ \A x \in t.rows[p].terms : <<t.rows[p].number, x>> \in t.postings

\* What the index lists and no row has is under a term that was written over.
Backed(t, n, x) == \E p \in Goods : Stands(t, p) /\ t.rows[p].number = n /\ x \in t.rows[p].terms
StaleIsOverwritten(t) == \A n \in Nat, x \in Terms : <<n, x>> \in t.postings => x \in t.overwritten \/ Backed(t, n, x)

IndexHolds(t) ==
  /\ t \in IndexTables
  /\ \E top \in Nat : \A p \in Goods : t.rows[p].number <= top
  /\ \A p \in Goods : RowIsWhole(t, p) /\ IsIndexed(t, p)
  /\ NumbersAreOwn(t) /\ StaleIsOverwritten(t)
IndexInv == IndexHolds(Held)

\* The next number is above every number in use.
LEMMA NextNumber ==
  ASSUME NEW t, IndexHolds(t)
  PROVE  Highest(t) \in Nat /\ \A p \in Goods : t.rows[p].number <= Highest(t)
<1> DEFINE used == {0} \cup {t.rows[p].number : p \in Goods}
           bounds == {n \in Nat : \A p \in Goods : t.rows[p].number <= n}
<1>1. \A p \in Goods : t.rows[p].number \in Nat
  BY DEF IndexHolds, IndexTables, ShelfRow
<1>2. PICK top \in bounds : \A n \in bounds : top <= n
  <2>1. bounds # {} /\ bounds \in SUBSET Nat
    BY DEF IndexHolds
  <2> HIDE DEF bounds
  <2>2. PICK n \in bounds : \A m \in bounds : <<m, n>> \notin OpToRel(<, Nat)
    BY <2>1, WFMin, NatLessThanWellFounded, Zenon
  <2>3. \A m \in bounds : ~(m < n)
    BY <2>1, <2>2 DEF OpToRel
  <2>4. \A m \in bounds : n <= m
    BY <2>1, <2>3
  <2> QED BY <2>4
<1>3. top \in used
  <2>1. SUFFICES ASSUME top \notin used PROVE FALSE
    OBVIOUS
  <2>2. top \in Nat \ {0} /\ \A p \in Goods : t.rows[p].number <= top /\ t.rows[p].number # top
    BY <2>1, <1>2
  <2>3. top - 1 \in bounds
    BY <2>2, <1>1
  <2> QED BY <2>2, <2>3, <1>2
<1>4. \A p \in Goods : t.rows[p].number <= top
  BY <1>2
<1>5. Highest(t) \in used /\ \A p \in Goods : t.rows[p].number <= Highest(t)
  BY <1>3, <1>4, Zenon DEF Highest
<1> QED BY <1>5, <1>1

\* A save numbers its row above all others and leaves the old entries behind.
LEMMA SaveKeeps ==
  ASSUME NEW t, IndexHolds(t), NEW id \in Goods, NEW word \in Words, NEW live \in BOOLEAN
  PROVE  IndexHolds(Save(t, [id |-> id, word |-> word, live |-> live]))
<1> DEFINE n == Highest(t) + 1
           row == [number |-> n, terms |-> {id, word}, live |-> live]
           after == Save(t, [id |-> id, word |-> word, live |-> live])
<1>1. /\ n \in Nat \ {0} /\ \A p \in Goods : t.rows[p].number \in Nat /\ t.rows[p].number < n
  BY NextNumber DEF IndexHolds, IndexTables, ShelfRow
<1>2. after = [rows |-> [t.rows EXCEPT ![id] = row], postings |-> t.postings \cup {<<n, id>>, <<n, word>>},
               sized |-> t.sized \cup {n}, overwritten |-> t.overwritten \cup t.rows[id].terms]
  <2>1. Entries({row}) = {<<n, id>>, <<n, word>>} /\ Numbers({row}) = {n}
    BY DEF Entries, Numbers
  <2>2. after = InsertTrigger([t EXCEPT !.rows[id] = row, !.overwritten = @ \cup t.rows[id].terms], {row})
    BY DEF Save
  <2>3. t = [rows |-> t.rows, postings |-> t.postings, sized |-> t.sized, overwritten |-> t.overwritten]
    BY DEF IndexHolds, IndexTables
  <2> HIDE DEF row, after, n
  <2> QED BY <2>1, <2>2, <2>3 DEF InsertTrigger
<1>3. t \in IndexTables /\ t.rows \in [Goods -> ShelfRow]
  BY DEF IndexHolds, IndexTables
<1>4. row \in ShelfRow
  BY <1>1 DEF ShelfRow, Terms
<1>5. /\ after.rows[id] = row /\ \A p \in Goods \ {id} : after.rows[p] = t.rows[p]
      /\ after.postings = t.postings \cup {<<n, id>>, <<n, word>>} /\ after.sized = t.sized \cup {n}
      /\ after.overwritten = t.overwritten \cup t.rows[id].terms
  BY <1>2, <1>3
<1>6. after \in IndexTables
  <2>1. [t.rows EXCEPT ![id] = row] \in [Goods -> ShelfRow]
    BY <1>3, <1>4
  <2>2. t.rows[id].terms \subseteq Terms
    BY <1>3 DEF ShelfRow
  <2>3. t.postings \in SUBSET (Nat \X Terms) /\ t.sized \in SUBSET Nat /\ t.overwritten \in SUBSET Terms
    BY <1>3 DEF IndexTables
  <2>4. {<<n, id>>, <<n, word>>} \subseteq Nat \X Terms
    BY <1>1 DEF Terms
  <2> HIDE DEF row, after, n
  <2> QED BY <1>1, <1>2, <2>1, <2>2, <2>3, <2>4 DEF IndexTables
<1> HIDE DEF after
<1>7. \E top \in Nat : \A p \in Goods : after.rows[p].number <= top
  <2>1. ASSUME NEW p \in Goods PROVE after.rows[p].number <= n
    <3>1. p = id => after.rows[p].number = n
      BY <1>5
    <3>2. p # id => after.rows[p].number < n
      <4>1. p # id => after.rows[p] = t.rows[p]
        BY <1>5
      <4> HIDE DEF n
      <4> QED BY <4>1, <1>1
    <3> HIDE DEF n
    <3>3. after.rows[p].number = n \/ after.rows[p].number \in Nat
      BY <3>1, <1>1, <1>5
    <3> QED BY <3>1, <3>2, <3>3, <1>1
  <2> QED BY <2>1, <1>1
<1>8. \A p \in Goods : RowIsWhole(after, p) /\ IsIndexed(after, p)
  <2>1. RowIsWhole(after, id) /\ IsIndexed(after, id)
    BY <1>1, <1>5 DEF RowIsWhole, IsIndexed, Stands
  <2>2. ASSUME NEW p \in Goods \ {id} PROVE RowIsWhole(after, p) /\ IsIndexed(after, p)
    <3>1. RowIsWhole(t, p) /\ IsIndexed(t, p)
      BY DEF IndexHolds
    <3> QED BY <3>1, <1>5 DEF RowIsWhole, IsIndexed, Stands
  <2> QED BY <2>1, <2>2
<1>9. NumbersAreOwn(after)
  <2>1. SUFFICES ASSUME NEW p \in Goods, NEW q \in Goods, after.rows[p].number # 0,
                        after.rows[p].number = after.rows[q].number
                 PROVE  p = q
    BY DEF NumbersAreOwn, Stands
  <2>2. CASE p = id \/ q = id
    <3>1. row.number = n
      OBVIOUS
    <3>2. after.rows[id].number = n
      BY <3>1, <1>5
    <3>3. ASSUME NEW r \in Goods \ {id} PROVE after.rows[r].number < n
      <4>1. after.rows[r] = t.rows[r]
        BY <1>5
      <4> HIDE DEF n
      <4> QED BY <4>1, <1>1
    <3> QED BY <2>1, <2>2, <3>2, <3>3, <1>1
  <2>3. CASE p # id /\ q # id
    <3>1. NumbersAreOwn(t) /\ after.rows[p] = t.rows[p] /\ after.rows[q] = t.rows[q]
      BY <2>3, <1>5 DEF IndexHolds
    <3> QED BY <2>1, <3>1 DEF NumbersAreOwn, Stands
  <2> QED BY <2>2, <2>3
<1>10. StaleIsOverwritten(after)
  <2>1. SUFFICES ASSUME NEW m \in Nat, NEW x \in Terms, <<m, x>> \in after.postings, x \notin after.overwritten
                 PROVE  Backed(after, m, x)
    BY DEF StaleIsOverwritten
  <2>2. CASE m = n /\ x \in {id, word}
    BY <2>2, <1>1, <1>5 DEF Backed, Stands
  <2>3. CASE ~(m = n /\ x \in {id, word})
    <3>1. <<m, x>> \in t.postings /\ x \notin t.overwritten
      BY <2>1, <2>3, <1>5
    <3>2. PICK p \in Goods : Stands(t, p) /\ t.rows[p].number = m /\ x \in t.rows[p].terms
      BY <3>1 DEF IndexHolds, StaleIsOverwritten, Backed
    <3>3. p # id
      BY <3>2, <2>1, <1>5
    <3> QED BY <3>2, <3>3, <1>5 DEF Backed, Stands
  <2> QED BY <2>2, <2>3
<1> QED BY <1>6, <1>7, <1>8, <1>9, <1>10 DEF IndexHolds, after

\* What the triggers of a deletion take out.
LEMMA StandingRows ==
  ASSUME NEW t, NEW some \in SUBSET Goods
  PROVE  /\ \A n, x : <<n, x>> \in Entries(Standing(t, some)) <=>
              \E p \in some : Stands(t, p) /\ t.rows[p].number = n /\ x \in t.rows[p].terms
         /\ \A n : n \in Numbers(Standing(t, some)) <=> \E p \in some : Stands(t, p) /\ t.rows[p].number = n
BY DEF Entries, Numbers, Standing

LEMMA DelistKeeps ==
  ASSUME NEW t, IndexHolds(t), NEW some \in SUBSET Goods
  PROVE  IndexHolds(Delist(t, some))
<1> DEFINE gone == Standing(t, some)
           after == Delist(t, some)
<1>1. after = [rows |-> [p \in Goods |-> IF p \in some THEN Absent ELSE t.rows[p]],
               postings |-> t.postings \ Entries(gone), sized |-> t.sized \ Numbers(gone),
               overwritten |-> t.overwritten]
  <2>1. t = [rows |-> t.rows, postings |-> t.postings, sized |-> t.sized, overwritten |-> t.overwritten]
    BY DEF IndexHolds, IndexTables
  <2>2. after = [DeleteTrigger(t, gone) EXCEPT !.rows = [p \in Goods |-> IF p \in some THEN Absent ELSE @[p]]]
    BY DEF Delist
  <2> HIDE DEF gone, after
  <2> QED BY <2>1, <2>2 DEF DeleteTrigger
<1>2. /\ \A p \in some : after.rows[p] = Absent
      /\ \A p \in Goods \ some : after.rows[p] = t.rows[p]
      /\ after.postings = t.postings \ Entries(gone) /\ after.sized = t.sized \ Numbers(gone)
      /\ after.overwritten = t.overwritten
  <2> HIDE DEF after, gone
  <2>1. after.rows = [p \in Goods |-> IF p \in some THEN Absent ELSE t.rows[p]]
    BY <1>1
  <2>2. after.postings = t.postings \ Entries(gone) /\ after.sized = t.sized \ Numbers(gone)
        /\ after.overwritten = t.overwritten
    BY <1>1
  <2> QED BY <2>1, <2>2
<1>3. Absent \in ShelfRow /\ Absent.number = 0
  BY DEF Absent, ShelfRow
<1>4. /\ t.rows \in [Goods -> ShelfRow] /\ t.postings \in SUBSET (Nat \X Terms)
      /\ t.sized \in SUBSET Nat /\ t.overwritten \in SUBSET Terms
  BY DEF IndexHolds, IndexTables
<1>5. after \in IndexTables
  <2>1. [p \in Goods |-> IF p \in some THEN Absent ELSE t.rows[p]] \in [Goods -> ShelfRow]
    BY <1>3, <1>4
  <2> HIDE DEF after, gone
  <2> QED BY <1>1, <1>4, <2>1 DEF IndexTables
<1> HIDE DEF after, gone
<1>6. \E top \in Nat : \A p \in Goods : after.rows[p].number <= top
  <2>1. PICK top \in Nat : \A p \in Goods : t.rows[p].number <= top
    BY DEF IndexHolds
  <2>2. ASSUME NEW p \in Goods PROVE after.rows[p].number <= top
    <3>1. CASE p \in some
      BY <3>1, <1>2, <1>3
    <3>2. CASE p \notin some
      BY <3>2, <2>1, <1>2
    <3> QED BY <3>1, <3>2
  <2> QED BY <2>2
<1>7. NumbersAreOwn(t) /\ NumbersAreOwn(after)
  <2>1. NumbersAreOwn(t)
    BY DEF IndexHolds
  <2>2. \A p \in Goods : Stands(after, p) => p \notin some
    BY <1>2, <1>3 DEF Stands
  <2> QED BY <2>1, <2>2, <1>2, <1>3 DEF NumbersAreOwn, Stands
<1>8. ASSUME NEW p \in Goods PROVE RowIsWhole(after, p) /\ IsIndexed(after, p)
  <2>1. CASE p \in some
    <3>1. after.rows[p] = Absent /\ ~Stands(after, p)
      BY <2>1, <1>2, <1>3 DEF Stands
    <3> QED BY <3>1 DEF RowIsWhole, IsIndexed
  <2>2. CASE p \notin some
    <3>1. RowIsWhole(t, p) /\ IsIndexed(t, p) /\ after.rows[p] = t.rows[p]
      BY <2>2, <1>2 DEF IndexHolds
    <3>2. Stands(t, p) => \A q \in some : Stands(t, q) => t.rows[q].number # t.rows[p].number
      BY <1>7, <2>2 DEF NumbersAreOwn
    <3>3. Stands(t, p) => t.rows[p].number \notin Numbers(gone) /\ \A x : <<t.rows[p].number, x>> \notin Entries(gone)
      BY <3>2, StandingRows DEF gone
    <3> QED BY <3>1, <3>3, <1>2 DEF RowIsWhole, IsIndexed, Stands
  <2> QED BY <2>1, <2>2
<1>9. StaleIsOverwritten(after)
  <2>1. SUFFICES ASSUME NEW m \in Nat, NEW x \in Terms, <<m, x>> \in after.postings, x \notin after.overwritten
                 PROVE  Backed(after, m, x)
    BY DEF StaleIsOverwritten
  <2>2. PICK p \in Goods : Stands(t, p) /\ t.rows[p].number = m /\ x \in t.rows[p].terms
    BY <2>1, <1>2 DEF IndexHolds, StaleIsOverwritten, Backed
  <2>3. p \notin some
    BY <2>1, <2>2, <1>2, StandingRows DEF gone
  <2> QED BY <2>2, <2>3, <1>2 DEF Backed, Stands
<1> QED BY <1>5, <1>6, <1>7, <1>8, <1>9 DEF IndexHolds, after

LEMMA RetireKeeps ==
  ASSUME NEW t, IndexHolds(t), NEW some \in SUBSET Goods
  PROVE  IndexHolds(Retire(t, some))
<1> DEFINE old == Standing(t, some)
           new == {Retired(row) : row \in old}
           after == Retire(t, some)
<1>1. /\ t.rows \in [Goods -> ShelfRow] /\ t.postings \in SUBSET (Nat \X Terms)
      /\ t.sized \in SUBSET Nat /\ t.overwritten \in SUBSET Terms
  BY DEF IndexHolds, IndexTables
<1>2. ASSUME NEW row \in ShelfRow
      PROVE  /\ Retired(row) \in ShelfRow /\ Retired(row).number = row.number
             /\ Retired(row).terms = row.terms /\ ~Retired(row).live
  BY DEF Retired, ShelfRow
<1>3. \A row \in old : row \in ShelfRow
  BY <1>1 DEF Standing
<1>4. Entries(new) = Entries(old) /\ Numbers(new) = Numbers(old)
  <2>1. \A e : e \in Entries(new) <=> e \in Entries(old)
    <3>1. ASSUME NEW e PROVE e \in Entries(new) <=> \E row \in old : e \in {Retired(row).number} \X Retired(row).terms
      BY DEF Entries
    <3>2. ASSUME NEW e PROVE e \in Entries(old) <=> \E row \in old : e \in {row.number} \X row.terms
      BY DEF Entries
    <3>3. \A row \in old : Retired(row).number = row.number /\ Retired(row).terms = row.terms
      BY <1>2, <1>3
    <3> HIDE DEF old, new
    <3> QED BY <3>1, <3>2, <3>3
  <2>2. \A n : n \in Numbers(new) <=> n \in Numbers(old)
    <3>1. ASSUME NEW n PROVE n \in Numbers(new) <=> \E row \in old : n = Retired(row).number
      BY DEF Numbers
    <3>2. ASSUME NEW n PROVE n \in Numbers(old) <=> \E row \in old : n = row.number
      BY DEF Numbers
    <3>3. \A row \in old : Retired(row).number = row.number
      BY <1>2, <1>3
    <3> HIDE DEF old, new
    <3> QED BY <3>1, <3>2, <3>3
  <2> QED BY <2>1, <2>2
<1>5. Entries(old) \subseteq t.postings /\ Numbers(old) \subseteq t.sized
  BY DEF IndexHolds, IsIndexed, Entries, Numbers, Standing
<1>6. after = [rows |-> [p \in Goods |-> IF p \in some THEN Retired(t.rows[p]) ELSE t.rows[p]],
               postings |-> t.postings, sized |-> t.sized, overwritten |-> t.overwritten]
  <2>1. t = [rows |-> t.rows, postings |-> t.postings, sized |-> t.sized, overwritten |-> t.overwritten]
    BY DEF IndexHolds, IndexTables
  <2>2. /\ (t.postings \ Entries(old)) \cup Entries(new) = t.postings
        /\ (t.sized \ Numbers(old)) \cup Numbers(new) = t.sized
    BY <1>4, <1>5
  <2>3. after = [UpdateTrigger(t, old, new)
                   EXCEPT !.rows = [p \in Goods |-> IF p \in some THEN Retired(@[p]) ELSE @[p]]]
    BY DEF Retire
  <2> HIDE DEF old, new, after
  <2> QED BY <2>1, <2>2, <2>3 DEF UpdateTrigger, InsertTrigger, DeleteTrigger
<1>7. /\ after.postings = t.postings /\ after.sized = t.sized /\ after.overwritten = t.overwritten
      /\ \A p \in Goods : after.rows[p] = IF p \in some THEN Retired(t.rows[p]) ELSE t.rows[p]
  BY <1>6
<1>8. after \in IndexTables
  <2>1. [p \in Goods |-> IF p \in some THEN Retired(t.rows[p]) ELSE t.rows[p]] \in [Goods -> ShelfRow]
    BY <1>1, <1>2
  <2> HIDE DEF after
  <2> QED BY <1>1, <1>6, <2>1 DEF IndexTables
<1> HIDE DEF old, new, after
<1>9. \A p \in Goods : after.rows[p].number = t.rows[p].number /\ after.rows[p].terms = t.rows[p].terms
  BY <1>1, <1>2, <1>7
<1>10. \A p \in Goods : t.rows[p] = Absent => after.rows[p] = Absent
  BY <1>7 DEF Retired, Absent
<1>11. \A p \in Goods : RowIsWhole(after, p) /\ IsIndexed(after, p)
  BY <1>7, <1>9, <1>10 DEF IndexHolds, RowIsWhole, IsIndexed, Stands
<1>12. NumbersAreOwn(after)
  BY <1>9 DEF IndexHolds, NumbersAreOwn, Stands
<1>13. StaleIsOverwritten(after)
  BY <1>7, <1>9 DEF IndexHolds, StaleIsOverwritten, Backed, Stands
<1>14. \E top \in Nat : \A p \in Goods : after.rows[p].number <= top
  BY <1>9 DEF IndexHolds
<1> QED BY <1>8, <1>11, <1>12, <1>13, <1>14 DEF IndexHolds, after

LEMMA WriteHolds ==
  ASSUME NEW t, IndexHolds(t), Write(t)
  PROVE  IndexInv'
<1>1. t = [rows |-> t.rows, postings |-> t.postings, sized |-> t.sized, overwritten |-> t.overwritten]
  BY DEF IndexHolds, IndexTables
<1>2. Held' = t
  BY <1>1 DEF Write, Held
<1> QED BY <1>2 DEF IndexInv

LEMMA IndexStepInv == IndexInv /\ [IndexNext]_indexVars => IndexInv'
<1> SUFFICES ASSUME IndexInv, [IndexNext]_indexVars PROVE IndexInv'
  OBVIOUS
<1>1. IndexHolds(Held)
  BY DEF IndexInv
<1>2. ASSUME NEW list \in Batches, SaveProducts(list) PROVE IndexInv'
  <2> DEFINE one == [id : Goods, word : Words, live : BOOLEAN]
  <2>1. \A t, x : IndexHolds(t) /\ x \in one => IndexHolds(Save(t, x))
    <3> SUFFICES ASSUME NEW t, NEW x \in one, IndexHolds(t) PROVE IndexHolds(Save(t, x))
      OBVIOUS
    <3>1. x = [id |-> x.id, word |-> x.word, live |-> x.live] /\ x.id \in Goods /\ x.word \in Words /\ x.live \in BOOLEAN
      OBVIOUS
    <3>2. IndexHolds(Save(t, [id |-> x.id, word |-> x.word, live |-> x.live]))
      BY <3>1, SaveKeeps
    <3> QED BY <3>1, <3>2
  <2>2. \/ \E x \in one : list = <<x>>
        \/ \E x, y \in one : list = <<x, y>>
    BY <1>2 DEF Batches
  <2>3. CASE \E x \in one : list = <<x>>
    <3>1. Len(list) = 1 /\ list[1] \in one
      BY <2>3
    <3>2. Write(Save(Held, list[1]))
      BY <3>1, <1>2 DEF SaveProducts
    <3> HIDE DEF one
    <3> QED BY <3>1, <3>2, <2>1, <1>1, WriteHolds
  <2>4. CASE \E x, y \in one : list = <<x, y>>
    <3>1. Len(list) # 1 /\ list[1] \in one /\ list[2] \in one
      BY <2>4
    <3>2. Write(Save(Save(Held, list[1]), list[2]))
      BY <3>1, <1>2 DEF SaveProducts
    <3> HIDE DEF one
    <3> QED BY <3>1, <3>2, <2>1, <1>1, WriteHolds
  <2> QED BY <2>2, <2>3, <2>4
<1>3. ASSUME NEW some \in SUBSET Goods, DeleteProducts(some) PROVE IndexInv'
  BY <1>1, <1>3, DelistKeeps, WriteHolds DEF DeleteProducts
<1>4. ASSUME DeleteAllProducts PROVE IndexInv'
  BY <1>1, <1>4, DelistKeeps, WriteHolds DEF DeleteAllProducts
<1>5. ASSUME DeactivateAllProducts PROVE IndexInv'
  BY <1>1, <1>5, RetireKeeps, WriteHolds DEF DeactivateAllProducts
<1>6. ASSUME UNCHANGED indexVars PROVE IndexInv'
  <2>1. Held' = Held
    BY <1>6 DEF indexVars, Held
  <2> QED BY <2>1, <1>1 DEF IndexInv
<1> QED BY <1>2, <1>3, <1>4, <1>5, <1>6 DEF IndexNext

LEMMA IndexFinds == IndexInv => SearchIsTrue
<1> SUFFICES ASSUME IndexInv, NEW q \in Queries
             PROVE  LET answer == SmartSearch(q) IN
                    IF answer.failed THEN q.how = "syntax" \/ q.term \in overwritten
                    ELSE /\ Matches(q) \subseteq answer.found
                         /\ answer.found \subseteq Matches(q) \/ q.term \in overwritten
  BY DEF SearchIsTrue
<1> USE DEF Held
<1>1. /\ shelf \in [Goods -> ShelfRow] /\ q.term \in Terms /\ Goods \cap Words = {}
      /\ postings \in SUBSET (Nat \X Terms)
  BY IndexAssumption DEF IndexInv, IndexHolds, IndexTables, Queries, Terms
<1>2. \A p \in Live : /\ p \in Goods /\ shelf[p].number # 0 /\ shelf[p].number \in sized
                      /\ \E w \in Words : shelf[p].terms = {p, w}
                      /\ \A x \in shelf[p].terms : <<shelf[p].number, x>> \in postings
  <2>1. \A p \in Live : p \in Goods /\ shelf[p].number # 0
    <3>1. \A p \in Goods : shelf[p].number = 0 => shelf[p] = Absent
      BY DEF IndexInv, IndexHolds, RowIsWhole, Stands
    <3>2. ~Absent.live
      BY DEF Absent
    <3> QED BY <3>1, <3>2 DEF Live
  <2> QED BY <2>1 DEF IndexInv, IndexHolds, RowIsWhole, IsIndexed, Stands
<1>3. \A n \in Nat, x \in Terms : <<n, x>> \in postings /\ x \notin overwritten =>
        \E p \in Goods : shelf[p].number # 0 /\ shelf[p].number = n /\ x \in shelf[p].terms
  BY DEF IndexInv, IndexHolds, StaleIsOverwritten, Backed, Stands
<1>4. \A p, r \in Goods : shelf[p].number # 0 /\ shelf[p].number = shelf[r].number => p = r
  BY DEF IndexInv, IndexHolds, NumbersAreOwn, Stands
<1>5. \A p \in Goods : shelf[p].number # 0 => shelf[p].number \in sized
  BY DEF IndexInv, IndexHolds, IsIndexed, Stands
<1>6. CASE q.how = "whole" /\ q.term \in Live
  <2>1. Matches(q) = {q.term}
    <3>1. q.term \in Goods /\ q.term \notin Words
      BY <1>1, <1>2, <1>6
    <3>2. \A p \in Live : q.term \in shelf[p].terms <=> p = q.term
      BY <3>1, <1>2
    <3> QED BY <3>2, <1>6 DEF Matches
  <2>2. Search(q) = Found({q.term}) /\ Search(q) # Found({})
    BY <1>6 DEF Search, Found
  <2>3. SmartSearch(q) = [failed |-> FALSE, found |-> {q.term}]
    BY <2>2 DEF SmartSearch, Found
  <2> QED BY <2>1, <2>3
<1>7. CASE ~(q.how = "whole" /\ q.term \in Live)
  <2> DEFINE listed == {n \in sized \cup {e[1] : e \in postings} : q.how # "middle" /\ <<n, q.term>> \in postings}
             hits == {p \in Live : shelf[p].number \in listed}
  <2>1. Search(q) = IF q.how = "syntax" \/ ~(listed \subseteq sized) THEN Failed ELSE Found(hits)
    BY <1>7 DEF Search, SearchFts
  <2>2. \A n : n \in listed <=> q.how # "middle" /\ <<n, q.term>> \in postings
    OBVIOUS
  <2>3. \A n \in listed : n \in Nat
    BY <2>2, <1>1
  <2> HIDE DEF listed
  <2>4. CASE q.how = "syntax" \/ ~(listed \subseteq sized)
    <3>1. Search(q) = [failed |-> TRUE, found |-> {}] /\ Search(q) # Found({})
      BY <2>1, <2>4 DEF Failed, Found
    <3>2. SmartSearch(q).failed
      BY <3>1 DEF SmartSearch
    <3>3. q.how = "syntax" \/ q.term \in overwritten
      <4>1. SUFFICES ASSUME NEW n \in listed, n \notin sized PROVE q.term \in overwritten
        BY <2>4
      <4>2. n \in Nat /\ <<n, q.term>> \in postings
        BY <2>2, <2>3
      <4> QED BY <4>1, <4>2, <1>1, <1>3, <1>5
    <3> QED BY <3>2, <3>3
  <2>5. CASE ~(q.how = "syntax" \/ ~(listed \subseteq sized))
    <3>1. Search(q) = [failed |-> FALSE, found |-> hits]
      BY <2>1, <2>5 DEF Found
    <3>2. CASE hits = {}
      <4>1. SmartSearch(q) = [failed |-> FALSE, found |-> Matches(q)]
        BY <3>1, <3>2 DEF SmartSearch, Found
      <4> QED BY <4>1
    <3>3. CASE hits # {}
      <4>1. SmartSearch(q) = [failed |-> FALSE, found |-> hits]
        BY <3>1, <3>3 DEF SmartSearch, Found
      <4>2. q.how # "middle"
        BY <3>3, <2>2
      <4>3. Matches(q) \subseteq hits
        BY <4>2, <2>2, <1>2 DEF Matches
      <4>4. q.term \notin overwritten => hits \subseteq Matches(q)
        <5>1. SUFFICES ASSUME q.term \notin overwritten, NEW p \in hits PROVE p \in Matches(q)
          OBVIOUS
        <5>2. p \in Live /\ shelf[p].number \in Nat /\ <<shelf[p].number, q.term>> \in postings
          BY <2>2, <2>3
        <5>3. PICK r \in Goods : shelf[r].number # 0 /\ shelf[r].number = shelf[p].number /\ q.term \in shelf[r].terms
          BY <5>1, <5>2, <1>1, <1>3
        <5>4. r = p
          BY <5>2, <5>3, <1>2, <1>4
        <5> QED BY <5>2, <5>3, <5>4 DEF Matches
      <4> QED BY <4>1, <4>3, <4>4
    <3> QED BY <3>2, <3>3
  <2> QED BY <2>4, <2>5
<1> QED BY <1>6, <1>7

\* What is on the shelf is found by its word and by its barcode and nothing
\* else is, by every history of saves, deletions and numbers used again, except
\* under a term that a save wrote over.
THEOREM SearchTrueAlways == IndexSpec => []SearchIsTrue
<1>1. IndexInit => IndexInv
  <2> SUFFICES ASSUME IndexInit PROVE IndexInv
    OBVIOUS
  <2>1. Held = [rows |-> [p \in Goods |-> Absent], postings |-> {}, sized |-> {}, overwritten |-> {}]
    BY DEF IndexInit, Held
  <2>2. Absent \in ShelfRow /\ Absent.number = 0
    BY DEF Absent, ShelfRow
  <2>3. Held \in IndexTables
    BY <2>1, <2>2 DEF IndexTables
  <2>4. \A p \in Goods : Held.rows[p] = Absent /\ Held.rows[p].number <= 0
    <3>1. Held.rows = [p \in Goods |-> Absent]
      BY <2>1
    <3>2. \A p \in Goods : Held.rows[p] = Absent
      BY <3>1
    <3>3. ASSUME NEW p \in Goods PROVE Held.rows[p].number <= 0
      <4>1. Held.rows[p].number = 0
        BY <3>2, <2>2
      <4> QED BY <4>1
    <3> QED BY <3>2, <3>3
  <2>5. Held.postings = {}
    BY <2>1
  <2> QED BY <2>2, <2>3, <2>4, <2>5
          DEF IndexInv, IndexHolds, RowIsWhole, IsIndexed, NumbersAreOwn, StaleIsOverwritten, Stands
<1> QED BY <1>1, IndexStepInv, IndexFinds, PTL DEF IndexSpec

-----------------------------------------------------------------------------
(* The rows as declared, written and read back.                            *)

DeclarationOK ==
  /\ declared.fields \in [1..3 -> Fields] /\ Range(declared.fields) = Fields
  /\ declared.conflict \in {"Fail", "Replace", "Update"}
Names == {<<"latin", Null>>, <<"latin", "arabic">>}

\* Each field is declared once.
LEMMA EachFieldOnce ==
  ASSUME DeclarationOK
  PROVE  /\ Field(1) \in Fields /\ Field(2) \in Fields /\ Field(3) \in Fields
         /\ Field(1) # Field(2) /\ Field(1) # Field(3) /\ Field(2) # Field(3)
<1>1. Fields = {declared.fields[1], declared.fields[2], declared.fields[3]}
  BY DEF DeclarationOK, Range
<1>2. declared.fields[1] \in Fields /\ declared.fields[2] \in Fields /\ declared.fields[3] \in Fields
  BY DEF DeclarationOK
<1> QED BY <1>1, <1>2 DEF Field, Fields

\* A field is written in as many columns as it has.
LEMMA EncodeFits ==
  ASSUME NEW v \in Values, NEW f \in Fields
  PROVE  /\ Len(Encode(f, v)) = Len(ColumnsOf(f)) /\ DOMAIN Encode(f, v) = 1..Len(Encode(f, v))
         /\ Len(ColumnsOf(f)) \in {1, 2}
<1>1. v.name \in Names
  BY DEF Values, Names
<1>2. CASE f = "name"
  BY <1>1, <1>2 DEF Encode, ColumnsOf, Names
<1>3. CASE f = "key"
  BY <1>3 DEF Encode, ColumnsOf
<1>4. CASE f = "kind"
  BY <1>4 DEF Encode, ColumnsOf
<1> QED BY <1>2, <1>3, <1>4 DEF Fields

LEMMA EncodeIsSeq ==
  ASSUME NEW v \in Values
  PROVE  \E S : \A f \in Fields : Encode(f, v) \in Seq(S)
<1> DEFINE S == {v.key, v.kind, "latin", "arabic", Null}
<1>1. Encode("key", v) \in Seq(S)
  BY DEF Encode
<1>2. Encode("kind", v) \in Seq(S)
  BY DEF Encode
<1>3. Encode("name", v) \in Seq(S)
  <2>1. v.name = <<"latin", Null>> \/ v.name = <<"latin", "arabic">>
    BY DEF Values
  <2>2. "latin" \in S /\ Null \in S /\ "arabic" \in S
    OBVIOUS
  <2> HIDE DEF S
  <2>3. Encode("name", v) = v.name
    BY DEF Encode
  <2>4. <<"latin", Null>> \in Seq(S) /\ <<"latin", "arabic">> \in Seq(S)
    BY <2>2
  <2> QED BY <2>1, <2>3, <2>4, Zenon
<1> QED BY <1>1, <1>2, <1>3 DEF Fields

\* The parts of three sequences put together.
LEMMA PartsOfThree ==
  ASSUME NEW S, NEW a \in Seq(S), NEW b \in Seq(S), NEW c \in Seq(S)
  PROVE  LET all == a \o b \o c IN
         /\ SubSeq(all, 1, Len(a)) = a
         /\ SubSeq(all, Len(a) + 1, Len(a) + Len(b)) = b
         /\ SubSeq(all, Len(a \o b) + 1, Len(a \o b) + Len(c)) = c
<1> DEFINE all == a \o b \o c
<1>1. /\ all \in Seq(S) /\ Len(all) = Len(a) + Len(b) + Len(c) /\ Len(a \o b) = Len(a) + Len(b)
      /\ Len(a) \in Nat /\ Len(b) \in Nat /\ Len(c) \in Nat
  OBVIOUS
<1>2. /\ \A i \in 1..Len(a) : all[i] = a[i]
      /\ \A i \in 1..Len(b) : all[Len(a) + i] = b[i]
      /\ \A i \in 1..Len(c) : all[Len(a) + Len(b) + i] = c[i]
  OBVIOUS
<1> HIDE DEF all
<1>3. SubSeq(all, 1, Len(a)) = a
  BY <1>1, <1>2
<1>4. SubSeq(all, Len(a) + 1, Len(a) + Len(b)) = b
  BY <1>1, <1>2
<1>5. SubSeq(all, Len(a \o b) + 1, Len(a \o b) + Len(c)) = c
  BY <1>1, <1>2
<1> QED BY <1>3, <1>4, <1>5 DEF all

LEMMA Joined ==
  ASSUME NEW S, NEW s \in Seq(S), NEW t \in Seq(S), NEW r \in Seq(S), Len(r) = Len(s) + Len(t),
         \A i \in 1..Len(s) : r[i] = s[i], \A i \in 1..Len(t) : r[Len(s) + i] = t[i]
  PROVE  s \o t = r
<1>1. s \o t \in Seq(S) /\ Len(s \o t) = Len(r)
  BY ConcatProperties
<1>2. ASSUME NEW i \in 1..Len(r) PROVE (s \o t)[i] = r[i]
  <2>1. CASE i <= Len(s)
    BY <2>1, <1>2
  <2>2. CASE i > Len(s)
    <3>1. i - Len(s) \in 1..Len(t) /\ Len(s) + (i - Len(s)) = i
      BY <2>2, <1>2
    <3>2. (s \o t)[i] = t[i - Len(s)]
      BY <2>2, <1>2
    <3> QED BY <3>1, <3>2
  <2> QED BY <2>1, <2>2
<1> QED BY <1>1, <1>2, SeqEqual

LEMMA ShortJoins ==
  ASSUME NEW S, NEW s \in Seq(S), NEW t \in Seq(S), NEW r \in Seq(S),
         NEW n \in {1, 2, 3}, NEW m \in {1, 2}, Len(s) = n, Len(t) = m, Len(r) = n + m,
         r[1] = s[1], n > 1 => r[2] = s[2], n > 2 => r[3] = s[3],
         r[n + 1] = t[1], m > 1 => r[n + 2] = t[2]
  PROVE  s \o t = r
<1>1. ASSUME NEW i \in 1..n PROVE r[i] = s[i]
  <2>1. i = 1 \/ (i = 2 /\ n > 1) \/ (i = 3 /\ n > 2)
    OBVIOUS
  <2> QED BY <2>1
<1>2. ASSUME NEW i \in 1..m PROVE r[n + i] = t[i]
  <2>1. i = 1 \/ (i = 2 /\ m > 1)
    OBVIOUS
  <2> QED BY <2>1
<1> QED BY <1>1, <1>2, Joined

\* Three short sequences put together.
LEMMA JoinedAre ==
  ASSUME NEW p, NEW q, NEW x, NEW y
  PROVE  /\ <<p, q>> \o <<x>> \o <<y>> = <<p, q, x, y>>
         /\ <<x>> \o <<p, q>> \o <<y>> = <<x, p, q, y>>
         /\ <<x>> \o <<y>> \o <<p, q>> = <<x, y, p, q>>
<1> DEFINE S == {p, q, x, y}
<1>0. p \in S /\ q \in S /\ x \in S /\ y \in S
  OBVIOUS
<1> HIDE DEF S
<1>1. /\ <<p, q>> \in Seq(S) /\ <<x>> \in Seq(S) /\ <<y>> \in Seq(S) /\ <<x, y>> \in Seq(S)
      /\ <<p, q, x>> \in Seq(S) /\ <<x, p, q>> \in Seq(S)
  BY <1>0
<1>2. <<p, q, x, y>> \in Seq(S) /\ <<x, p, q, y>> \in Seq(S) /\ <<x, y, p, q>> \in Seq(S)
  BY <1>0
<1>3. <<p, q>> \o <<x>> = <<p, q, x>>
  <2> DEFINE s == <<p, q>>  t == <<x>>  r == <<p, q, x>>
  <2>1. Len(s) = 2 /\ Len(t) = 1 /\ Len(r) = 3 /\ r[1] = s[1] /\ r[2] = s[2] /\ r[3] = t[1]
    OBVIOUS
  <2>2. s \in Seq(S) /\ t \in Seq(S) /\ r \in Seq(S)
    BY <1>1
  <2> HIDE DEF s, t, r
  <2>3. s \o t = r
    BY <2>1, <2>2, ShortJoins
  <2> QED BY <2>3 DEF s, t, r
<1>4. <<p, q, x>> \o <<y>> = <<p, q, x, y>>
  <2> DEFINE s == <<p, q, x>>  t == <<y>>  r == <<p, q, x, y>>
  <2>1. Len(s) = 3 /\ Len(t) = 1 /\ Len(r) = 4 /\ r[1] = s[1] /\ r[2] = s[2] /\ r[3] = s[3] /\ r[4] = t[1]
    OBVIOUS
  <2>2. s \in Seq(S) /\ t \in Seq(S) /\ r \in Seq(S)
    BY <1>1, <1>2
  <2> HIDE DEF s, t, r
  <2>3. s \o t = r
    BY <2>1, <2>2, ShortJoins
  <2> QED BY <2>3 DEF s, t, r
<1>5. <<x>> \o <<p, q>> = <<x, p, q>>
  <2> DEFINE s == <<x>>  t == <<p, q>>  r == <<x, p, q>>
  <2>1. Len(s) = 1 /\ Len(t) = 2 /\ Len(r) = 3 /\ r[1] = s[1] /\ r[2] = t[1] /\ r[3] = t[2]
    OBVIOUS
  <2>2. s \in Seq(S) /\ t \in Seq(S) /\ r \in Seq(S)
    BY <1>1
  <2> HIDE DEF s, t, r
  <2>3. s \o t = r
    BY <2>1, <2>2, ShortJoins
  <2> QED BY <2>3 DEF s, t, r
<1>6. <<x, p, q>> \o <<y>> = <<x, p, q, y>>
  <2> DEFINE s == <<x, p, q>>  t == <<y>>  r == <<x, p, q, y>>
  <2>1. Len(s) = 3 /\ Len(t) = 1 /\ Len(r) = 4 /\ r[1] = s[1] /\ r[2] = s[2] /\ r[3] = s[3] /\ r[4] = t[1]
    OBVIOUS
  <2>2. s \in Seq(S) /\ t \in Seq(S) /\ r \in Seq(S)
    BY <1>1, <1>2
  <2> HIDE DEF s, t, r
  <2>3. s \o t = r
    BY <2>1, <2>2, ShortJoins
  <2> QED BY <2>3 DEF s, t, r
<1>7. <<x>> \o <<y>> = <<x, y>>
  <2> DEFINE s == <<x>>  t == <<y>>  r == <<x, y>>
  <2>1. Len(s) = 1 /\ Len(t) = 1 /\ Len(r) = 2 /\ r[1] = s[1] /\ r[2] = t[1]
    OBVIOUS
  <2>2. s \in Seq(S) /\ t \in Seq(S) /\ r \in Seq(S)
    BY <1>1
  <2> HIDE DEF s, t, r
  <2>3. s \o t = r
    BY <2>1, <2>2, ShortJoins
  <2> QED BY <2>3 DEF s, t, r
<1>8. <<x, y>> \o <<p, q>> = <<x, y, p, q>>
  <2> DEFINE s == <<x, y>>  t == <<p, q>>  r == <<x, y, p, q>>
  <2>1. Len(s) = 2 /\ Len(t) = 2 /\ Len(r) = 4 /\ r[1] = s[1] /\ r[2] = s[2] /\ r[3] = t[1] /\ r[4] = t[2]
    OBVIOUS
  <2>2. s \in Seq(S) /\ t \in Seq(S) /\ r \in Seq(S)
    BY <1>1, <1>2
  <2> HIDE DEF s, t, r
  <2>3. s \o t = r
    BY <2>1, <2>2, ShortJoins
  <2> QED BY <2>3 DEF s, t, r
<1> QED BY <1>3, <1>4, <1>5, <1>6, <1>7, <1>8, Zenon

\* The columns are four and all different, and each has its value.
ColumnsAre(a, b, c) ==
  /\ Field(1) = a /\ Field(2) = b /\ Field(3) = c
  /\ \/ a = "name" /\ SelectList = <<"name", "name_ar", b, c>>
     \/ b = "name" /\ SelectList = <<a, "name", "name_ar", c>>
     \/ c = "name" /\ SelectList = <<a, b, "name", "name_ar">>

LEMMA ColumnOrders ==
  ASSUME DeclarationOK
  PROVE  \E a, b, c \in Fields : a # b /\ a # c /\ b # c /\ ColumnsAre(a, b, c)
<1> DEFINE a == Field(1)  b == Field(2)  c == Field(3)
<1>1. a \in Fields /\ b \in Fields /\ c \in Fields /\ a # b /\ a # c /\ b # c
  BY EachFieldOnce
<1>2. SelectList = ColumnsOf(a) \o ColumnsOf(b) \o ColumnsOf(c)
  BY DEF SelectList
<1>3. \A f \in Fields : ColumnsOf(f) = IF f = "name" THEN <<"name", "name_ar">> ELSE <<f>>
  BY DEF ColumnsOf
<1>4. a = "name" \/ b = "name" \/ c = "name"
  BY <1>1 DEF Fields
<1> HIDE DEF a, b, c
<1>5. CASE a = "name"
  <2>1. SelectList = <<"name", "name_ar">> \o <<b>> \o <<c>>
    BY <1>1, <1>2, <1>3, <1>5
  <2> DEFINE p == "name"  q == "name_ar"
  <2> HIDE DEF p, q
  <2>3. <<p, q>> \o <<b>> \o <<c>> = <<p, q, b, c>>
    BY JoinedAre
  <2>2. SelectList = <<"name", "name_ar", b, c>>
    BY <2>1, <2>3, Zenon DEF p, q
  <2> QED BY <1>1, <1>5, <2>2 DEF ColumnsAre, a, b, c
<1>6. CASE b = "name"
  <2>1. SelectList = <<a>> \o <<"name", "name_ar">> \o <<c>>
    BY <1>1, <1>2, <1>3, <1>6
  <2>2. SelectList = <<a, "name", "name_ar", c>>
    BY <2>1, JoinedAre
  <2> QED BY <1>1, <1>6, <2>2 DEF ColumnsAre, a, b, c
<1>7. CASE c = "name"
  <2>1. SelectList = <<a>> \o <<b>> \o <<"name", "name_ar">>
    BY <1>1, <1>2, <1>3, <1>7
  <2> DEFINE p == "name"  q == "name_ar"
  <2> HIDE DEF p, q
  <2>3. <<a>> \o <<b>> \o <<p, q>> = <<a, b, p, q>>
    BY JoinedAre
  <2>2. SelectList = <<a, b, "name", "name_ar">>
    BY <2>1, <2>3, Zenon DEF p, q
  <2> QED BY <1>1, <1>7, <2>2 DEF ColumnsAre, a, b, c
<1> QED BY <1>4, <1>5, <1>6, <1>7

LEMMA BindOrders ==
  ASSUME NEW v \in Values, NEW a \in Fields, NEW b \in Fields, NEW c \in Fields,
         a # b, a # c, b # c, ColumnsAre(a, b, c)
  PROVE  LET of(f) == IF f = "key" THEN v.key ELSE v.kind IN
         Bind(v) = IF a = "name" THEN <<v.name[1], v.name[2], of(b), of(c)>>
                   ELSE IF b = "name" THEN <<of(a), v.name[1], v.name[2], of(c)>>
                   ELSE <<of(a), of(b), v.name[1], v.name[2]>>
<1> DEFINE of(f) == IF f = "key" THEN v.key ELSE v.kind
<1>1. Bind(v) = Encode(a, v) \o Encode(b, v) \o Encode(c, v)
  BY DEF Bind, ColumnsAre
<1>2. v.name = <<v.name[1], v.name[2]>>
  BY DEF Values
<1>3. \A f \in Fields : Encode(f, v) = IF f = "name" THEN <<v.name[1], v.name[2]>> ELSE <<of(f)>>
  BY <1>2 DEF Encode, Fields
<1> HIDE DEF of
<1>4. CASE a = "name"
  <2>1. Bind(v) = <<v.name[1], v.name[2]>> \o <<of(b)>> \o <<of(c)>>
    BY <1>1, <1>3, <1>4
  <2>2. Bind(v) = <<v.name[1], v.name[2], of(b), of(c)>>
    BY <2>1, JoinedAre
  <2> QED BY <2>2, <1>4 DEF of
<1>5. CASE b = "name"
  <2>1. Bind(v) = <<of(a)>> \o <<v.name[1], v.name[2]>> \o <<of(c)>>
    BY <1>1, <1>3, <1>5
  <2>2. Bind(v) = <<of(a), v.name[1], v.name[2], of(c)>>
    BY <2>1, JoinedAre
  <2> QED BY <2>2, <1>5 DEF of
<1>6. CASE c = "name"
  <2>1. Bind(v) = <<of(a)>> \o <<of(b)>> \o <<v.name[1], v.name[2]>>
    BY <1>1, <1>3, <1>6
  <2>2. Bind(v) = <<of(a), of(b), v.name[1], v.name[2]>>
    BY <2>1, JoinedAre
  <2> QED BY <2>2, <1>6 DEF of
<1> QED BY <1>4, <1>5, <1>6 DEF ColumnsAre

Columns == {"key", "name", "name_ar", "kind"}
\* Where the name is one of three different fields, the others are the key and the kind.
LEMMA OtherFields ==
  ASSUME NEW x \in Fields, NEW y \in Fields, NEW z \in Fields, x # y, x # z, y # z, x = "name"
  PROVE  (y = "key" /\ z = "kind") \/ (y = "kind" /\ z = "key")
BY DEF Fields

LEMMA FourColumns ==
  ASSUME DeclarationOK
  PROVE  /\ DOMAIN SelectList = 1..4 /\ \A i, j \in 1..4 : SelectList[i] = SelectList[j] => i = j
         /\ Range(SelectList) = Columns
         /\ \A v \in Values : DOMAIN Bind(v) = 1..4 /\ \A i \in 1..4 : SelectList[i] = "key" => Bind(v)[i] = v.key
<1>1. PICK a, b, c \in Fields : a # b /\ a # c /\ b # c /\ ColumnsAre(a, b, c)
  BY ColumnOrders
<1>2. \/ a = "name" /\ SelectList = <<"name", "name_ar", b, c>>
      \/ b = "name" /\ SelectList = <<a, "name", "name_ar", c>>
      \/ c = "name" /\ SelectList = <<a, b, "name", "name_ar">>
  BY <1>1 DEF ColumnsAre
<1>3. /\ DOMAIN SelectList = 1..4
      /\ \A f \in Columns : \E i \in 1..4 : SelectList[i] = f
      /\ \A i \in 1..4 : SelectList[i] \in Columns
      /\ \A i, j \in 1..4 : SelectList[i] = SelectList[j] => i = j
  <2>1. CASE a = "name" /\ SelectList = <<"name", "name_ar", b, c>>
    <3>1. (b = "key" /\ c = "kind") \/ (b = "kind" /\ c = "key")
      BY <2>1, <1>1, OtherFields
    <3>2. CASE b = "key" /\ c = "kind"
      BY <2>1, <3>2 DEF Columns
    <3>3. CASE b = "kind" /\ c = "key"
      BY <2>1, <3>3 DEF Columns
    <3> QED BY <3>1, <3>2, <3>3
  <2>2. CASE b = "name" /\ SelectList = <<a, "name", "name_ar", c>>
    <3>1. (a = "key" /\ c = "kind") \/ (a = "kind" /\ c = "key")
      BY <2>2, <1>1, OtherFields
    <3>2. CASE a = "key" /\ c = "kind"
      BY <2>2, <3>2 DEF Columns
    <3>3. CASE a = "kind" /\ c = "key"
      BY <2>2, <3>3 DEF Columns
    <3> QED BY <3>1, <3>2, <3>3
  <2>3. CASE c = "name" /\ SelectList = <<a, b, "name", "name_ar">>
    <3>1. (a = "key" /\ b = "kind") \/ (a = "kind" /\ b = "key")
      BY <2>3, <1>1, OtherFields
    <3>2. CASE a = "key" /\ b = "kind"
      BY <2>3, <3>2 DEF Columns
    <3>3. CASE a = "kind" /\ b = "key"
      BY <2>3, <3>3 DEF Columns
    <3> QED BY <3>1, <3>2, <3>3
  <2> QED BY <1>2, <2>1, <2>2, <2>3
<1>4. Range(SelectList) = Columns
  BY <1>3 DEF Range
<1>5. ASSUME NEW v \in Values
      PROVE  DOMAIN Bind(v) = 1..4 /\ \A i \in 1..4 : SelectList[i] = "key" => Bind(v)[i] = v.key
  <2>1. Bind(v) = IF a = "name" THEN <<v.name[1], v.name[2], IF b = "key" THEN v.key ELSE v.kind, IF c = "key" THEN v.key ELSE v.kind>>
                   ELSE IF b = "name" THEN <<IF a = "key" THEN v.key ELSE v.kind, v.name[1], v.name[2], IF c = "key" THEN v.key ELSE v.kind>>
                   ELSE <<IF a = "key" THEN v.key ELSE v.kind, IF b = "key" THEN v.key ELSE v.kind, v.name[1], v.name[2]>>
    BY <1>1, BindOrders
  <2>2. CASE a = "name"
    <3>1. (b = "key" /\ c = "kind") \/ (b = "kind" /\ c = "key")
      BY <2>2, <1>1, OtherFields
    <3>2. CASE b = "key" /\ c = "kind"
      BY <2>1, <2>2, <3>2, <1>2
    <3>3. CASE b = "kind" /\ c = "key"
      BY <2>1, <2>2, <3>3, <1>2
    <3> QED BY <3>1, <3>2, <3>3
  <2>3. CASE b = "name"
    <3>1. (a = "key" /\ c = "kind") \/ (a = "kind" /\ c = "key")
      BY <2>3, <1>1, OtherFields
    <3>2. CASE a = "key" /\ c = "kind"
      BY <2>1, <2>3, <3>2, <1>2
    <3>3. CASE a = "kind" /\ c = "key"
      BY <2>1, <2>3, <3>3, <1>2
    <3> QED BY <3>1, <3>2, <3>3
  <2>4. CASE c = "name"
    <3>1. (a = "key" /\ b = "kind") \/ (a = "kind" /\ b = "key")
      BY <2>4, <1>1, OtherFields
    <3>2. CASE a = "key" /\ b = "kind"
      BY <2>1, <2>4, <3>2, <1>2
    <3>3. CASE a = "kind" /\ b = "key"
      BY <2>1, <2>4, <3>3, <1>2
    <3> QED BY <3>1, <3>2, <3>3
  <2> QED BY <1>1, <2>2, <2>3, <2>4 DEF Fields
<1> QED BY <1>3, <1>4, <1>5

\* What is bound to a column is what its cell holds.
LEMMA CellsOf ==
  ASSUME DeclarationOK, NEW v \in Values
  PROVE  /\ DOMAIN Cells(v) = Columns /\ Cells(v) = [c \in Columns |-> Cells(v)[c]]
         /\ \A i \in 1..4 : Cells(v)[SelectList[i]] = Bind(v)[i]
         /\ Cells(v)["key"] = v.key
<1>1. Cells(v) = [c \in Columns |-> Bind(v)[CHOOSE i \in 1..4 : SelectList[i] = c]]
  BY FourColumns DEF Cells
<1>2. ASSUME NEW i \in 1..4 PROVE Cells(v)[SelectList[i]] = Bind(v)[i]
  <2>1. SelectList[i] \in Columns
    BY FourColumns DEF Range
  <2>2. (CHOOSE j \in 1..4 : SelectList[j] = SelectList[i]) = i
    BY FourColumns
  <2> QED BY <1>1, <2>1, <2>2
<1>3. PICK i \in 1..4 : SelectList[i] = "key"
  BY FourColumns DEF Range, Columns
<1>4. Cells(v)["key"] = v.key
  BY <1>2, <1>3, FourColumns
<1> QED BY <1>1, <1>2, <1>4

\* A row reads back as the value that was written.
LEMMA ReadsBack ==
  ASSUME DeclarationOK, NEW v \in Values
  PROVE  Read(Cells(v)) = v
<1> DEFINE row == [i \in DOMAIN SelectList |-> Cells(v)[SelectList[i]]]
           at(f) == CHOOSE i \in 1..3 : Field(i) = f
           taken(f) == SubSeq(row, Taken(at(f)) + 1, Taken(at(f)) + Len(ColumnsOf(f)))
<1>1. row = Bind(v)
  <2>1. PICK S : \A f \in Fields : Encode(f, v) \in Seq(S)
    BY EncodeIsSeq
  <2>2. Bind(v) \in Seq(S)
    BY <2>1, EachFieldOnce DEF Bind
  <2>3. row = [i \in 1..4 |-> Bind(v)[i]] /\ DOMAIN Bind(v) = 1..4
    BY FourColumns, CellsOf
  <2> QED BY <2>2, <2>3
<1>2. ASSUME NEW f \in Fields PROVE taken(f) = Encode(f, v)
  <2>1. PICK S : \A g \in Fields : Encode(g, v) \in Seq(S)
    BY EncodeIsSeq
  <2>2. Field(at(f)) = f /\ at(f) \in 1..3
    <3>1. \E i \in 1..3 : Field(i) = f
      BY DEF DeclarationOK, Range, Field
    <3> QED BY <3>1
  <2> DEFINE a == Encode(Field(1), v)  b == Encode(Field(2), v)  c == Encode(Field(3), v)
  <2>3. a \in Seq(S) /\ b \in Seq(S) /\ c \in Seq(S) /\ Bind(v) = a \o b \o c
    BY <2>1, EachFieldOnce DEF Bind
  <2>4. \A i \in 1..3 : Len(Encode(Field(i), v)) = Len(ColumnsOf(Field(i)))
    BY EachFieldOnce, EncodeFits
  <2>5. Len(ColumnsOf(Field(1)) \o ColumnsOf(Field(2))) = Len(a \o b)
    <3>1. ColumnsOf(Field(1)) \in Seq(Columns) /\ ColumnsOf(Field(2)) \in Seq(Columns)
      <4>1. ASSUME NEW g \in Fields PROVE ColumnsOf(g) \in Seq(Columns)
        <5>1. CASE g = "name"
          BY <5>1 DEF ColumnsOf, Columns
        <5>2. CASE g # "name"
          BY <5>2 DEF ColumnsOf, Columns, Fields
        <5> QED BY <5>1, <5>2
      <4> QED BY <4>1, EachFieldOnce
    <3>2. Len(ColumnsOf(Field(1)) \o ColumnsOf(Field(2))) = Len(ColumnsOf(Field(1))) + Len(ColumnsOf(Field(2)))
      BY <3>1
    <3>3. Len(a) = Len(ColumnsOf(Field(1))) /\ Len(b) = Len(ColumnsOf(Field(2)))
      BY <2>4
    <3>4. Len(a \o b) = Len(a) + Len(b)
      BY <2>3
    <3> QED BY <3>2, <3>3, <3>4
  <2>9. taken(f) = SubSeq(Bind(v), Taken(at(f)) + 1, Taken(at(f)) + Len(ColumnsOf(f)))
    BY <1>1
  <2>10. /\ SubSeq(Bind(v), 1, Len(a)) = a
         /\ SubSeq(Bind(v), Len(a) + 1, Len(a) + Len(b)) = b
         /\ SubSeq(Bind(v), Len(a \o b) + 1, Len(a \o b) + Len(c)) = c
    BY <2>3, PartsOfThree
  <2>11. /\ Len(a) = Len(ColumnsOf(Field(1))) /\ Len(b) = Len(ColumnsOf(Field(2))) /\ Len(c) = Len(ColumnsOf(Field(3)))
         /\ Len(a) \in Nat
    BY <2>3, <2>4
  <2> HIDE DEF taken, at, row
  <2>6. CASE at(f) = 1
    <3>1. Taken(at(f)) = 0 /\ a = Encode(f, v) /\ Len(ColumnsOf(f)) = Len(a)
      BY <2>2, <2>6, <2>11 DEF Taken
    <3> HIDE DEF a, b, c
    <3>2. 0 + 1 = 1 /\ 0 + Len(a) = Len(a)
      BY <2>11
    <3> QED BY <3>1, <3>2, <2>9, <2>10
  <2>7. CASE at(f) = 2
    <3>1. Taken(at(f)) = Len(a) /\ b = Encode(f, v) /\ Len(ColumnsOf(f)) = Len(b)
      BY <2>2, <2>7, <2>11 DEF Taken
    <3> QED BY <3>1, <2>9, <2>10, Zenon
  <2>8. CASE at(f) = 3
    <3>1. Taken(at(f)) = Len(a \o b) /\ c = Encode(f, v) /\ Len(ColumnsOf(f)) = Len(c)
      BY <2>2, <2>5, <2>8, <2>11 DEF Taken
    <3> QED BY <3>1, <2>9, <2>10, Zenon
  <2> QED BY <2>2, <2>6, <2>7, <2>8
<1>3. Read(Cells(v)) = [key |-> Decode("key", taken("key")), name |-> Decode("name", taken("name")),
                        kind |-> Decode("kind", taken("kind"))]
  BY DEF Read
<1> HIDE DEF taken
<1>4. Read(Cells(v)) = [key |-> v.key, name |-> v.name, kind |-> v.kind]
  BY <1>2, <1>3 DEF Fields, Encode, Decode
<1>5. v = [key |-> v.key, name |-> v.name, kind |-> v.kind]
  BY DEF Values
<1> QED BY <1>4, <1>5

\* What a store holds is what was promised of it, row by row; only features,
\* whose insertion keeps the row, have screens.
NoKids  == [p \in RowKeys \X Screens |-> NoKid]
Mapping == [cells |-> [v \in Values |-> Cells(v)], conflict |-> declared.conflict]
RowMeans(row, k, value, m) ==
  \/ row = NoRow /\ value = Null
  \/ /\ value \in Values /\ value.key = k
     /\ row = [id |-> row.id, cells |-> m.cells[value]] /\ row.id \in Nat \ {0}
Means(s, pr, m) ==
  /\ s = [rows |-> s.rows, kids |-> s.kids, next |-> s.next] /\ s.next \in Nat \ {0}
  /\ s.rows = [k \in RowKeys |-> s.rows[k]]
  /\ s.kids \in [RowKeys \X Screens -> [id : Nat, title : 0..2]]
  /\ m.conflict # "Update" => s.kids = NoKids
  /\ pr = [rows |-> pr.rows, kids |-> s.kids] /\ pr.rows = [k \in RowKeys |-> pr.rows[k]]
  /\ \A k \in RowKeys : RowMeans(s.rows[k], k, pr.rows[k], m)

LEMMA MeansPromised ==
  ASSUME DeclarationOK, NEW s, NEW pr, Means(s, pr, Mapping)
  PROVE  Promised(s) = pr
<1>1. ASSUME NEW k \in RowKeys
      PROVE  (IF Has(s, k) THEN Read(s.rows[k].cells) ELSE Null) = pr.rows[k]
  <2>1. RowMeans(s.rows[k], k, pr.rows[k], Mapping)
    BY DEF Means
  <2>2. CASE s.rows[k] = NoRow /\ pr.rows[k] = Null
    BY <2>2 DEF Has, NoRow
  <2>3. CASE ~(s.rows[k] = NoRow /\ pr.rows[k] = Null)
    <3>1. pr.rows[k] \in Values /\ s.rows[k].cells = Mapping.cells[pr.rows[k]] /\ s.rows[k].id # 0
      BY <2>1, <2>3 DEF RowMeans
    <3>2. s.rows[k].cells = Cells(pr.rows[k])
      BY <3>1 DEF Mapping
    <3> QED BY <3>1, <3>2, ReadsBack DEF Has
  <2> QED BY <2>2, <2>3
<1>2. [k \in RowKeys |-> IF Has(s, k) THEN Read(s.rows[k].cells) ELSE Null] = pr.rows
  <2>1. pr.rows = [k \in RowKeys |-> pr.rows[k]]
    BY DEF Means
  <2> QED BY <1>1, <2>1
<1>3. [p \in RowKeys \X Screens |-> s.kids[p]] = s.kids
  BY DEF Means
<1>4. pr = [rows |-> pr.rows, kids |-> s.kids]
  BY DEF Means
<1> QED BY <1>2, <1>3, <1>4 DEF Promised

\* A store whose row is set, or whose next id moves on, means what it should.
LEMMA RowSet ==
  ASSUME NEW s, NEW pr, NEW m, Means(s, pr, m), NEW v \in Values, NEW row, NEW next \in Nat \ {0},
         RowMeans(row, v.key, v, m)
  PROVE  Means([rows |-> [s.rows EXCEPT ![v.key] = row], kids |-> s.kids, next |-> next],
               [pr EXCEPT !.rows[v.key] = v], m)
<1>1. v.key \in RowKeys
  BY DEF Values
<1>2. pr = [rows |-> pr.rows, kids |-> s.kids]
  BY DEF Means
<1> DEFINE after == [rows |-> [s.rows EXCEPT ![v.key] = row], kids |-> s.kids, next |-> next]
           told == [rows |-> [pr.rows EXCEPT ![v.key] = v], kids |-> s.kids]
<1>3. [pr EXCEPT !.rows[v.key] = v] = told
  BY <1>2
<1>4. s.rows = [k \in RowKeys |-> s.rows[k]] /\ pr.rows = [k \in RowKeys |-> pr.rows[k]]
  BY DEF Means
<1>5. /\ [s.rows EXCEPT ![v.key] = row] = [k \in RowKeys |-> [s.rows EXCEPT ![v.key] = row][k]]
      /\ [pr.rows EXCEPT ![v.key] = v] = [k \in RowKeys |-> [pr.rows EXCEPT ![v.key] = v][k]]
  BY <1>4
<1>6. ASSUME NEW k \in RowKeys PROVE RowMeans([s.rows EXCEPT ![v.key] = row][k], k, [pr.rows EXCEPT ![v.key] = v][k], m)
  <2>1. CASE k = v.key
    BY <2>1, <1>1, <1>4
  <2>2. CASE k # v.key
    <3>1. [s.rows EXCEPT ![v.key] = row][k] = s.rows[k] /\ [pr.rows EXCEPT ![v.key] = v][k] = pr.rows[k]
      BY <2>2, <1>4
    <3>2. RowMeans(s.rows[k], k, pr.rows[k], m)
      BY DEF Means
    <3> QED BY <3>1, <3>2
  <2> QED BY <2>1, <2>2
<1>7. s.kids \in [RowKeys \X Screens -> [id : Nat, title : 0..2]] /\ (m.conflict # "Update" => s.kids = NoKids)
  BY DEF Means
<1>8. /\ after.rows = [s.rows EXCEPT ![v.key] = row] /\ after.kids = s.kids /\ after.next = next
      /\ told.rows = [pr.rows EXCEPT ![v.key] = v] /\ told.kids = s.kids
      /\ after = [rows |-> after.rows, kids |-> after.kids, next |-> after.next]
      /\ told = [rows |-> told.rows, kids |-> told.kids]
  OBVIOUS
<1> HIDE DEF after, told
<1>9. Means(after, told, m)
  BY <1>5, <1>6, <1>7, <1>8 DEF Means
<1> QED BY <1>3, <1>9 DEF after

\* An insertion that is not refused keeps what it should, whatever its table
\* does with a key that is there.
LEMMA InsertKeeps ==
  ASSUME DeclarationOK, NEW s, NEW pr, Means(s, pr, Mapping), NEW v \in Values, Insert(s, v).next # 0
  PROVE  Means(Insert(s, v), [pr EXCEPT !.rows[v.key] = v], Mapping)
<1> DEFINE new == [id |-> s.next, cells |-> Cells(v)]
<1>1. /\ s = [rows |-> s.rows, kids |-> s.kids, next |-> s.next] /\ s.next \in Nat \ {0} /\ s.next + 1 \in Nat \ {0}
      /\ v.key \in RowKeys /\ RowMeans(s.rows[v.key], v.key, pr.rows[v.key], Mapping)
  BY DEF Means, Values
<1>2. Mapping.cells[v] = Cells(v)
  BY DEF Mapping
<1>3. RowMeans(new, v.key, v, Mapping)
  BY <1>1, <1>2 DEF RowMeans
<1>4. AddRow(s, v) = [rows |-> [s.rows EXCEPT ![v.key] = new], kids |-> s.kids, next |-> s.next + 1]
  BY DEF AddRow
<1>5. CASE ~Has(s, v.key)
  <2>1. Insert(s, v) = AddRow(s, v)
    BY <1>5 DEF Insert
  <2> HIDE DEF new
  <2> QED BY <1>1, <1>3, <1>4, <2>1, RowSet
<1>6. CASE Has(s, v.key) /\ declared.conflict = "Fail"
  <2>1. Insert(s, v) = NoStore
    BY <1>6 DEF Insert
  <2> QED BY <2>1 DEF NoStore
<1>7. CASE Has(s, v.key) /\ declared.conflict = "Replace"
  <2>1. s.kids = NoKids
    BY <1>7 DEF Means, Mapping
  <2>2. Childless(s, v.key) = s
    <3>1. [p \in DOMAIN s.kids |-> IF p[1] = v.key THEN NoKid ELSE s.kids[p]] = s.kids
      BY <2>1 DEF NoKids
    <3>2. [s EXCEPT !.kids = s.kids] = s
      BY <1>1
    <3> QED BY <3>1, <3>2 DEF Childless
  <2>3. Insert(s, v) = AddRow(s, v)
    BY <1>7, <2>2 DEF Insert
  <2> HIDE DEF new
  <2> QED BY <1>1, <1>3, <1>4, <2>3, RowSet
<1>8. CASE Has(s, v.key) /\ declared.conflict = "Update"
  <2> DEFINE old == s.rows[v.key]
             cells == [c \in DOMAIN old.cells |-> IF c = "key" THEN old.cells[c] ELSE Cells(v)[c]]
  <2>1. PICK w \in Values : /\ w = pr.rows[v.key] /\ w.key = v.key
                            /\ old = [id |-> old.id, cells |-> Cells(w)] /\ old.id \in Nat \ {0}
    <3>1. old # NoRow
      BY <1>8 DEF Has, NoRow
    <3>2. /\ pr.rows[v.key] \in Values /\ pr.rows[v.key].key = v.key
          /\ old = [id |-> old.id, cells |-> Mapping.cells[pr.rows[v.key]]] /\ old.id \in Nat \ {0}
      BY <1>1, <3>1 DEF RowMeans
    <3>3. Mapping.cells[pr.rows[v.key]] = Cells(pr.rows[v.key])
      BY <3>2 DEF Mapping
    <3> QED BY <3>2, <3>3
  <2>2. old.cells = Cells(w)
    BY <2>1
  <2>3. cells = Cells(v)
    <3>1. DOMAIN Cells(w) = Columns /\ Cells(v) = [c \in Columns |-> Cells(v)[c]] /\ Cells(w)["key"] = Cells(v)["key"]
      BY <2>1, CellsOf
    <3>2. cells = [c \in Columns |-> IF c = "key" THEN Cells(w)[c] ELSE Cells(v)[c]]
      BY <2>2, <3>1
    <3> HIDE DEF cells
    <3> QED BY <3>1, <3>2
  <2>4. Insert(s, v) = [s EXCEPT !.rows[v.key].cells = cells]
    BY <1>8 DEF Insert
  <2>5. [s EXCEPT !.rows[v.key].cells = cells]
          = [rows |-> [s.rows EXCEPT ![v.key] = [id |-> old.id, cells |-> cells]], kids |-> s.kids, next |-> s.next]
    <3> HIDE DEF cells, old
    <3>1. [old EXCEPT !.cells = cells] = [id |-> old.id, cells |-> cells]
      BY <2>1
    <3>2. [s EXCEPT !.rows[v.key].cells = cells]
            = [rows |-> [s.rows EXCEPT ![v.key] = [old EXCEPT !.cells = cells]], kids |-> s.kids, next |-> s.next]
      BY <1>1 DEF old
    <3> QED BY <3>1, <3>2
  <2>6. RowMeans([id |-> old.id, cells |-> cells], v.key, v, Mapping)
    <3> HIDE DEF cells, old
    <3> QED BY <2>1, <2>3, <1>2 DEF RowMeans
  <2> DEFINE row == [id |-> old.id, cells |-> cells]
  <2>7. Insert(s, v) = [rows |-> [s.rows EXCEPT ![v.key] = row], kids |-> s.kids, next |-> s.next]
    BY <2>4, <2>5, Zenon
  <2>8. RowMeans(row, v.key, v, Mapping)
    BY <2>6
  <2> HIDE DEF row, cells, old
  <2> QED BY <1>1, <2>7, <2>8, RowSet
<1> QED BY <1>5, <1>6, <1>7, <1>8 DEF DeclarationOK

LEMMA ScreenKeeps ==
  ASSUME NEW s, NEW pr, NEW m, Means(s, pr, m), NEW x, x.what = "screen", x.at \in RowKeys \X Screens,
         x.title \in {1, 2}, m.conflict = "Update", InsertScreen(s, x.at, x.title).next # 0
  PROVE  Means(InsertScreen(s, x.at, x.title), Promise(pr, x, InsertScreen(s, x.at, x.title)), m)
<1> DEFINE p == x.at  title == x.title
           id == IF s.kids[p].id # 0 THEN s.kids[p].id ELSE s.next
           next == IF s.kids[p].id # 0 THEN s.next ELSE s.next + 1
           kid == [id |-> id, title |-> title]
           after == InsertScreen(s, p, title)
           told == Promise(pr, x, after)
<1>1. /\ s = [rows |-> s.rows, kids |-> s.kids, next |-> s.next] /\ s.next \in Nat \ {0}
      /\ s.kids \in [RowKeys \X Screens -> [id : Nat, title : 0..2]]
      /\ pr = [rows |-> pr.rows, kids |-> s.kids]
  BY DEF Means
<1>2. id \in Nat \ {0} /\ next \in Nat \ {0} /\ s.kids[p] = [id |-> s.kids[p].id, title |-> s.kids[p].title]
      /\ s.kids[p].id \in Nat
  BY <1>1
<1>3. Has(s, p[1])
  BY DEF InsertScreen, NoStore
<1>4. after = [rows |-> s.rows, kids |-> [s.kids EXCEPT ![p] = kid], next |-> next]
  BY <1>3 DEF InsertScreen
<1>5. after.kids[p].id = id
  <2>1. [s.kids EXCEPT ![p] = kid][p] = kid
    BY <1>1
  <2> HIDE DEF after
  <2> QED BY <1>4, <2>1
<1>6. told = [rows |-> pr.rows, kids |-> [s.kids EXCEPT ![p] = kid]]
  <2>1. pr.kids = s.kids
    BY <1>1
  <2>2. told = [pr EXCEPT !.kids = [s.kids EXCEPT ![p] = [id |-> IF s.kids[p].id # 0 THEN s.kids[p].id ELSE after.kids[p].id, title |-> title]]]
    BY <2>1 DEF Promise
  <2>3. (IF s.kids[p].id # 0 THEN s.kids[p].id ELSE after.kids[p].id) = id
    BY <1>5
  <2> HIDE DEF told, after, id
  <2> QED BY <1>1, <2>2, <2>3
<1>7. [s.kids EXCEPT ![p] = kid] \in [RowKeys \X Screens -> [id : Nat, title : 0..2]]
  <2>1. kid \in [id : Nat, title : 0..2]
    BY <1>2
  <2> HIDE DEF kid
  <2> QED BY <1>1, <2>1
<1> HIDE DEF after, told, kid, id, next, p, title
<1>8. /\ after.rows = s.rows /\ after.kids = [s.kids EXCEPT ![p] = kid] /\ after.next = next
      /\ after = [rows |-> after.rows, kids |-> after.kids, next |-> after.next]
      /\ told.rows = pr.rows /\ told.kids = after.kids /\ told = [rows |-> told.rows, kids |-> told.kids]
  BY <1>4, <1>6
<1>9. Means(after, told, m)
  <2>1. s.rows = [k \in RowKeys |-> s.rows[k]] /\ pr.rows = [k \in RowKeys |-> pr.rows[k]]
        /\ \A k \in RowKeys : RowMeans(s.rows[k], k, pr.rows[k], m)
    BY DEF Means
  <2> QED BY <1>2, <1>7, <1>8, <2>1 DEF Means
<1> QED BY <1>9 DEF after, told, p, title

PiecesOf(conflict) ==
  [what : {"value"}, value : Values] \cup {[what |-> "unbindable"]}
    \cup (IF conflict # "Update" THEN {} ELSE [what : {"screen"}, at : RowKeys \X Screens, title : {1, 2}])

LEMMA PieceKeeps ==
  ASSUME DeclarationOK, NEW s, NEW pr, Means(s, pr, Mapping), NEW x \in PiecesOf(declared.conflict),
         Piece(s, x).next # 0
  PROVE  Means(Piece(s, x), Promise(pr, x, Piece(s, x)), Mapping)
<1>1. CASE x \in [what : {"value"}, value : Values]
  <2>1. x.what = "value" /\ x.value \in Values
    BY <1>1
  <2>2. Piece(s, x) = Insert(s, x.value)
    BY <2>1 DEF Piece
  <2>3. Promise(pr, x, Piece(s, x)) = [pr EXCEPT !.rows[x.value.key] = x.value]
    BY <2>1 DEF Promise
  <2> QED BY <2>1, <2>2, <2>3, InsertKeeps
<1>2. CASE x = [what |-> "unbindable"]
  <2>1. x.what = "unbindable"
    BY <1>2
  <2>2. Piece(s, x) = NoStore
    BY <2>1 DEF Piece
  <2> QED BY <2>2 DEF NoStore
<1>3. CASE declared.conflict = "Update" /\ x \in [what : {"screen"}, at : RowKeys \X Screens, title : {1, 2}]
  <2>1. x.what = "screen" /\ x.at \in RowKeys \X Screens /\ x.title \in {1, 2}
    BY <1>3
  <2>2. Piece(s, x) = InsertScreen(s, x.at, x.title)
    BY <2>1 DEF Piece
  <2>3. Mapping.conflict = "Update"
    BY <1>3 DEF Mapping
  <2> QED BY <2>1, <2>2, <2>3, ScreenKeeps
<1> QED BY <1>1, <1>2, <1>3 DEF PiecesOf

LEMMA EmptyMeans ==
  ASSUME NEW m, NEW next \in Nat \ {0}
  PROVE  Means([EmptyStore EXCEPT !.next = next], NothingHeld, m)
<1> DEFINE empty == [EmptyStore EXCEPT !.next = next]
<1>1. /\ empty.rows = [k \in RowKeys |-> NoRow] /\ empty.kids = NoKids /\ empty.next = next
      /\ empty = [rows |-> empty.rows, kids |-> empty.kids, next |-> empty.next]
  BY DEF EmptyStore, NoKids
<1>2. /\ NothingHeld.rows = [k \in RowKeys |-> Null] /\ NothingHeld.kids = NoKids
      /\ NothingHeld = [rows |-> NothingHeld.rows, kids |-> NothingHeld.kids]
  BY DEF NothingHeld, NoKids
<1>3. NoKids \in [RowKeys \X Screens -> [id : Nat, title : 0..2]]
  BY DEF NoKids, NoKid
<1> HIDE DEF empty
<1>4. \A k \in RowKeys : RowMeans(empty.rows[k], k, NothingHeld.rows[k], m)
  BY <1>1, <1>2 DEF RowMeans
<1>5. Means(empty, NothingHeld, m)
  BY <1>1, <1>2, <1>3, <1>4 DEF Means
<1> QED BY <1>5 DEF empty

\* Who holds the guard is the only one about something; inside a transaction
\* the journal is what was promised and the store is what is hoped for.
NothingOpen == journal = NoStore /\ Means(store, promise, Mapping)
HalfCleared(w) ==
  /\ writer[w].at = "clearing" /\ journal = NoStore /\ Means(store, promise, Mapping)
  /\ promise.kids = NoKids
InTransaction(w) ==
  /\ writer[w].at \in {"writing", "replacing"} /\ writer[w].todo \in Seq(PiecesOf(declared.conflict))
  /\ Means(store, writer[w].hopes, Mapping) /\ Means(journal, promise, Mapping)
RowsInv ==
  /\ DeclarationOK /\ writer = [w \in Writers |-> writer[w]]
  /\ \A w \in Writers : guard # w => writer[w] = NotWriting
  /\ guard = Null => NothingOpen
  /\ guard # Null => guard \in Writers /\ (HalfCleared(guard) \/ InTransaction(guard))

LEMMA RowsInit_Inv == RowsInit => RowsInv
<1> SUFFICES ASSUME RowsInit PROVE RowsInv
  OBVIOUS
<1>1. DeclarationOK
  BY DEF RowsInit, DeclarationOK
<1>2. Means(store, promise, Mapping)
  <2>1. [EmptyStore EXCEPT !.next = 1] = EmptyStore
    BY DEF EmptyStore
  <2> QED BY <2>1, EmptyMeans DEF RowsInit
<1>3. writer = [w \in Writers |-> writer[w]] /\ \A w \in Writers : writer[w] = NotWriting
  BY DEF RowsInit
<1> QED BY <1>1, <1>2, <1>3 DEF RowsInit, RowsInv, NothingOpen

LEMMA SameMapping ==
  ASSUME UNCHANGED declared
  PROVE  Mapping' = Mapping /\ DeclarationOK' = DeclarationOK
<1>1. \A v \in Values : Cells(v)' = Cells(v)
  BY DEF Cells, SelectList, Bind, Field
<1> QED BY <1>1 DEF Mapping, DeclarationOK

\* Back to rest, with whoever held the guard idle again.
LEMMA RestAgain ==
  ASSUME RowsInv, UNCHANGED declared, guard' = Null, journal' = NoStore, Means(store', promise', Mapping),
         writer' = [w \in Writers |-> NotWriting]
  PROVE  RowsInv'
<1>1. Mapping' = Mapping /\ DeclarationOK'
  BY SameMapping DEF RowsInv
<1>2. NothingOpen'
  BY <1>1 DEF NothingOpen
<1> QED BY <1>1, <1>2 DEF RowsInv

LEMMA FreesAll ==
  ASSUME RowsInv, NEW w \in Writers, guard = w, Frees(w)
  PROVE  guard' = Null /\ writer' = [u \in Writers |-> NotWriting]
BY DEF RowsInv, Frees

\* Taking the guard.
LEMMA Takes ==
  ASSUME RowsInv, NEW w \in Writers, UNCHANGED declared, guard = Null, guard' = w, NEW record,
         writer' = [writer EXCEPT ![w] = record], (HalfCleared(w) \/ InTransaction(w))'
  PROVE  RowsInv'
<1>1. DeclarationOK' /\ w # Null
  BY SameMapping, RowsAssumption DEF RowsInv
<1>2. writer' = [u \in Writers |-> writer'[u]] /\ \A u \in Writers : u # w => writer'[u] = NotWriting
  <2>1. \A u \in Writers : u # w => writer[u] = NotWriting /\ writer'[u] = writer[u]
    BY RowsAssumption DEF RowsInv
  <2>2. writer' = [u \in Writers |-> writer'[u]]
    BY DEF RowsInv
  <2> QED BY <2>1, <2>2
<1>3. (HalfCleared(guard) \/ InTransaction(guard))'
  OBVIOUS
<1> QED BY <1>1, <1>2, <1>3 DEF RowsInv

LEMMA InsertOneKeeps ==
  ASSUME RowsInv, NEW w \in Writers, NEW x \in PiecesOf(declared.conflict), InsertOne(w, x)
  PROVE  RowsInv'
<1>1. /\ guard = Null /\ UNCHANGED <<declared, journal, guard, writer>> /\ DeclarationOK
      /\ Means(store, promise, Mapping) /\ journal = NoStore
  BY DEF InsertOne, Calls, Free, RowsInv, NothingOpen
<1>2. Means(store', promise', Mapping)
  <2>1. CASE Piece(store, x).next = 0
    <3>1. UNCHANGED <<store, promise>>
      BY <2>1 DEF InsertOne
    <3> QED BY <1>1, <3>1
  <2>2. CASE Piece(store, x).next # 0
    <3>1. store' = Piece(store, x) /\ promise' = Promise(promise, x, Piece(store, x))
      BY <2>2 DEF InsertOne
    <3>2. Means(Piece(store, x), Promise(promise, x, Piece(store, x)), Mapping)
      BY <1>1, <2>2, PieceKeeps
    <3> QED BY <3>1, <3>2
  <2> QED BY <2>1, <2>2
<1>3. writer = [u \in Writers |-> NotWriting]
  BY <1>1, RowsAssumption DEF RowsInv
<1> QED BY <1>1, <1>2, <1>3, RestAgain

LEMMA InsertAllKeeps ==
  ASSUME RowsInv, NEW w \in Writers, NEW list \in Seq(PiecesOf(declared.conflict)), InsertAll(w, list)
  PROVE  RowsInv'
<1> DEFINE record == [at |-> "writing", todo |-> list, hopes |-> promise]
<1>1. /\ guard = Null /\ UNCHANGED <<declared, store, promise>> /\ guard' = w /\ journal' = store
      /\ writer' = [writer EXCEPT ![w] = record] /\ Means(store, promise, Mapping)
  BY DEF InsertAll, Calls, Free, RowsInv, NothingOpen
<1>2. writer'[w] = record
  BY <1>1 DEF RowsInv
<1>3. record.at = "writing" /\ record.todo = list /\ record.hopes = promise
  OBVIOUS
<1> HIDE DEF record
<1>4. InTransaction(w)'
  BY <1>1, <1>2, <1>3, SameMapping DEF InTransaction
<1> QED BY <1>1, <1>4, Takes

LEMMA SyncFeaturesKeeps ==
  ASSUME RowsInv, NEW w \in Writers, NEW list \in Seq(PiecesOf(declared.conflict)), SyncFeatures(w, list)
  PROVE  RowsInv'
<1> DEFINE record == [at |-> "replacing", todo |-> list, hopes |-> NothingHeld]
<1>1. /\ guard = Null /\ UNCHANGED <<declared, promise>> /\ guard' = w /\ journal' = store
      /\ store' = [EmptyStore EXCEPT !.next = store.next]
      /\ writer' = [writer EXCEPT ![w] = record] /\ Means(store, promise, Mapping)
  BY DEF SyncFeatures, Calls, Free, RowsInv, NothingOpen
<1>2. writer'[w] = record
  BY <1>1 DEF RowsInv
<1>3. record.at = "replacing" /\ record.todo = list /\ record.hopes = NothingHeld
  OBVIOUS
<1> HIDE DEF record
<1>4. Means(store', NothingHeld, Mapping)
  <2>1. store.next \in Nat \ {0}
    BY <1>1 DEF Means
  <2> QED BY <1>1, <2>1, EmptyMeans
<1>5. InTransaction(w)'
  BY <1>1, <1>2, <1>3, <1>4, SameMapping DEF InTransaction
<1> QED BY <1>1, <1>5, Takes

LEMMA ClearFeaturesKeeps ==
  ASSUME RowsInv, NEW w \in Writers, ClearFeatures(w)
  PROVE  RowsInv'
<1> DEFINE record == [NotWriting EXCEPT !.at = "clearing"]
<1>1. /\ guard = Null /\ UNCHANGED <<declared, journal>> /\ guard' = w /\ journal = NoStore
      /\ store' = [store EXCEPT !.kids = NoKids] /\ promise' = [promise EXCEPT !.kids = NoKids]
      /\ writer' = [writer EXCEPT ![w].at = "clearing"] /\ writer[w] = NotWriting /\ Means(store, promise, Mapping)
  BY DEF ClearFeatures, Calls, Free, RowsInv, NothingOpen, EmptyStore, NothingHeld, NoKids
<1>2. writer' = [writer EXCEPT ![w] = record]
  BY <1>1
<1>3. writer'[w] = record
  BY <1>2 DEF RowsInv
<1>4. record.at = "clearing"
  BY DEF NotWriting
<1> HIDE DEF record
<1>5. Means(store', promise', Mapping) /\ promise'.kids = NoKids
  <2>1. /\ store = [rows |-> store.rows, kids |-> store.kids, next |-> store.next] /\ store.next \in Nat \ {0}
        /\ store.rows = [k \in RowKeys |-> store.rows[k]] /\ promise.rows = [k \in RowKeys |-> promise.rows[k]]
        /\ promise = [rows |-> promise.rows, kids |-> store.kids]
        /\ \A k \in RowKeys : RowMeans(store.rows[k], k, promise.rows[k], Mapping)
    BY <1>1 DEF Means
  <2>2. /\ store' = [rows |-> store.rows, kids |-> NoKids, next |-> store.next]
        /\ promise' = [rows |-> promise.rows, kids |-> NoKids]
    BY <1>1, <2>1
  <2>3. NoKids \in [RowKeys \X Screens -> [id : Nat, title : 0..2]]
    BY DEF NoKids, NoKid
  <2>4. /\ store'.rows = store.rows /\ store'.kids = NoKids /\ store'.next = store.next
        /\ promise'.rows = promise.rows /\ promise'.kids = NoKids
    BY <2>2
  <2> QED BY <2>1, <2>2, <2>3, <2>4 DEF Means
<1>6. HalfCleared(w)'
  BY <1>1, <1>3, <1>4, <1>5, SameMapping DEF HalfCleared
<1> QED BY <1>1, <1>2, <1>6, Takes

\* Whoever is about something holds the guard.
LEMMA HoldsIt ==
  ASSUME RowsInv, NEW w \in Writers, writer[w].at # "idle"
  PROVE  guard = w /\ guard # Null /\ (HalfCleared(w) \/ InTransaction(w))
<1>1. guard = w
  BY DEF RowsInv, NotWriting
<1> QED BY <1>1, RowsAssumption DEF RowsInv

LEMMA ClearRowsKeeps ==
  ASSUME RowsInv, NEW w \in Writers, ClearRows(w)
  PROVE  RowsInv'
<1>1. /\ writer[w].at = "clearing" /\ UNCHANGED <<declared, journal>> /\ Frees(w)
      /\ store' = [store EXCEPT !.rows = EmptyStore.rows] /\ promise' = NothingHeld
  BY DEF ClearRows, Goes
<1>2. guard = w /\ HalfCleared(w)
  BY <1>1, HoldsIt DEF InTransaction
<1>3. Means(store', promise', Mapping)
  <2>1. /\ store = [rows |-> store.rows, kids |-> store.kids, next |-> store.next] /\ store.next \in Nat \ {0}
        /\ store.kids = NoKids
    BY <1>2 DEF Means, HalfCleared
  <2>2. store' = [EmptyStore EXCEPT !.next = store.next]
    BY <1>1, <2>1 DEF EmptyStore, NoKids
  <2> QED BY <1>1, <2>1, <2>2, EmptyMeans
<1> QED BY <1>1, <1>2, <1>3, FreesAll, RestAgain DEF HalfCleared

LEMMA CommitsKeeps ==
  ASSUME RowsInv, NEW w \in Writers, Commits(w)
  PROVE  RowsInv'
<1>1. /\ writer[w].at \in {"writing", "replacing"} /\ UNCHANGED <<declared, store>> /\ Frees(w)
      /\ journal' = NoStore /\ promise' = writer[w].hopes
  BY DEF Commits
<1>2. guard = w /\ InTransaction(w)
  BY <1>1, HoldsIt DEF HalfCleared
<1>3. Means(store', promise', Mapping)
  BY <1>1, <1>2 DEF InTransaction
<1> QED BY <1>1, <1>2, <1>3, FreesAll, RestAgain

LEMMA WritesNextKeeps ==
  ASSUME RowsInv, NEW w \in Writers, WritesNext(w)
  PROVE  RowsInv'
<1> DEFINE x == Head(writer[w].todo)  after == Piece(store, x)
           record == [at |-> writer[w].at, todo |-> Tail(writer[w].todo), hopes |-> Promise(writer[w].hopes, x, after)]
<1>1. /\ writer[w].at \in {"writing", "replacing"} /\ writer[w].todo # <<>> /\ UNCHANGED declared
      /\ IF after.next = 0 THEN store' = journal /\ journal' = NoStore /\ Frees(w) /\ UNCHANGED promise
         ELSE /\ store' = after /\ UNCHANGED <<journal, guard, promise>>
              /\ writer' = [writer EXCEPT ![w] = record]
  BY DEF WritesNext
<1>2. guard = w /\ InTransaction(w) /\ guard # Null
  BY <1>1, HoldsIt DEF HalfCleared
<1>3. x \in PiecesOf(declared.conflict) /\ Tail(writer[w].todo) \in Seq(PiecesOf(declared.conflict))
  BY <1>1, <1>2, HeadTailProperties DEF InTransaction
<1>4. CASE after.next = 0
  <2>1. Means(store', promise', Mapping)
    BY <1>1, <1>2, <1>4 DEF InTransaction
  <2> HIDE DEF after
  <2> QED BY <1>1, <1>2, <1>4, <2>1, FreesAll, RestAgain
<1>5. CASE after.next # 0
  <2>1. Means(after, Promise(writer[w].hopes, x, after), Mapping)
    BY <1>2, <1>3, <1>5, PieceKeeps DEF InTransaction, RowsInv
  <2>0. record.at = writer[w].at /\ record.todo = Tail(writer[w].todo) /\ record.hopes = Promise(writer[w].hopes, x, after)
    OBVIOUS
  <2> HIDE DEF after, x, record
  <2>2. /\ store' = after /\ UNCHANGED <<journal, guard, promise, declared>>
        /\ writer' = [writer EXCEPT ![w] = record]
    BY <1>1, <1>5
  <2>3. writer = [u \in Writers |-> writer[u]]
    BY DEF RowsInv
  <2>4. writer'[w] = record /\ writer' = [u \in Writers |-> writer'[u]]
        /\ \A u \in Writers : u # w => writer'[u] = writer[u]
    BY <2>2, <2>3
  <2>6. InTransaction(w)'
    BY <1>2, <1>3, <2>0, <2>1, <2>2, <2>4, SameMapping DEF InTransaction
  <2> QED BY <1>2, <2>2, <2>4, <2>6, SameMapping DEF RowsInv
<1> QED BY <1>4, <1>5

LEMMA KilledKeeps == ASSUME RowsInv, Killed PROVE RowsInv'
<1>1. /\ guard # Null /\ guard' = Null /\ journal' = NoStore /\ writer' = [w \in Writers |-> NotWriting]
      /\ store' = (IF journal = NoStore THEN store ELSE journal) /\ UNCHANGED <<declared, promise>>
  BY DEF Killed
<1>2. guard \in Writers /\ (HalfCleared(guard) \/ InTransaction(guard))
  BY <1>1 DEF RowsInv
<1>3. Means(store', promise', Mapping)
  <2>1. CASE HalfCleared(guard)
    BY <1>1, <2>1 DEF HalfCleared
  <2>2. CASE InTransaction(guard)
    <3>1. Means(journal, promise, Mapping)
      BY <2>2 DEF InTransaction
    <3>2. journal # NoStore
      BY <3>1 DEF Means, NoStore
    <3> QED BY <1>1, <3>1, <3>2
  <2> QED BY <1>2, <2>1, <2>2
<1> QED BY <1>1, <1>3, RestAgain

LEMMA RowsNext_Inv == RowsInv /\ [RowsNext]_rowVars => RowsInv'
<1> SUFFICES ASSUME RowsInv, [RowsNext]_rowVars PROVE RowsInv'
  OBVIOUS
<1>1. CASE UNCHANGED rowVars
  <2>1. /\ UNCHANGED <<declared, store, journal, guard, writer, promise>> /\ Mapping' = Mapping
        /\ DeclarationOK' = DeclarationOK
    BY <1>1, SameMapping DEF rowVars
  <2>2. guard = Null => NothingOpen'
    BY <2>1 DEF RowsInv, NothingOpen
  <2>3. guard # Null => (HalfCleared(guard) \/ InTransaction(guard))'
    BY <2>1 DEF RowsInv, HalfCleared, InTransaction
  <2> QED BY <2>1, <2>2, <2>3 DEF RowsInv
<1>2. CASE Killed
  BY <1>2, KilledKeeps
<1>3. ASSUME NEW w \in Writers, Writes(w) PROVE RowsInv'
  <2>1. Pieces = PiecesOf(declared.conflict)
    BY DEF Pieces, PiecesOf
  <2>2. CASE \E x \in Pieces : InsertOne(w, x)
    BY <2>1, <2>2, InsertOneKeeps
  <2>3. CASE \E list \in {<<x, y>> : x, y \in Pieces} : InsertAll(w, list) \/ SyncFeatures(w, list)
    <3>1. PICK list \in {<<x, y>> : x, y \in Pieces} : InsertAll(w, list) \/ SyncFeatures(w, list)
      BY <2>3
    <3>2. PICK x, y \in PiecesOf(declared.conflict) : list = <<x, y>>
      BY <2>1
    <3>3. list \in Seq(PiecesOf(declared.conflict))
      BY <3>2
    <3> QED BY <3>1, <3>3, InsertAllKeeps, SyncFeaturesKeeps
  <2>4. CASE WritesNext(w)
    BY <2>4, WritesNextKeeps
  <2>5. CASE Commits(w)
    BY <2>5, CommitsKeeps
  <2>6. CASE ClearFeatures(w)
    BY <2>6, ClearFeaturesKeeps
  <2>7. CASE ClearRows(w)
    BY <2>7, ClearRowsKeeps
  <2> QED BY <1>3, <2>2, <2>3, <2>4, <2>5, <2>6, <2>7 DEF Writes
<1> QED BY <1>1, <1>2, <1>3 DEF RowsNext

\* Whoever takes the guard reads back what was last committed, by any order
\* of the declaration, for any keys, screens, writers and number of calls.
THEOREM StoreKeepsAlways == RowsSpec => []StoreKeepsItsPromise
<1>1. RowsInv => StoreKeepsItsPromise
  BY MeansPromised DEF RowsInv, NothingOpen, StoreKeepsItsPromise
<1> QED BY <1>1, RowsInit_Inv, RowsNext_Inv, PTL DEF RowsSpec
=============================================================================
