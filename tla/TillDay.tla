------------------------------ MODULE TillDay ------------------------------
(***************************************************************************)
(* A till's business day: the shifts and their cash, the sales and returns *)
(* rung in them, and the Z report that closes the day (ShiftService,       *)
(* TransactionService, ReturnService, ZReportService over one database).   *)
(*                                                                         *)
(* The services are shared and their calls interleave: each read or write  *)
(* of the database is a step, and a call to the platform is one too.  Only *)
(* the cash an operation moves is kept of the money.  The day is closed by *)
(* the date of the till's own zone; shifts and rows carry the date of UTC. *)
(***************************************************************************)
EXTENDS Integers, FiniteSets, Sequences, Functions

CONSTANTS
  Clerks,      \* concurrent calls of the shift and day services
  MaxShifts,   \* bound on shifts, numbered in the order of started_at
  MaxReports,  \* bound on saved Z reports
  East,        \* the till's zone is not west of Greenwich: its midnight comes first
  MaxEvents    \* bound on sales, returns, midnights and restarts together

ASSUME DayAssumption ==
  MaxShifts \in Nat /\ MaxReports \in Nat /\ MaxEvents \in Nat /\ East \in BOOLEAN

VARIABLES
  shifts,    \* table shifts, in order of started_at
  rows,      \* table offline_transactions: the cash each row moves, and the shift
             \* id the platform was last sent with it; on is history, the till's date
  reports,   \* table z_reports
  closures,  \* table day_closures
  current,   \* memory: current_shift, 0 for none, and its expected cash
  preview,   \* memory: current_report
  clerk,     \* what each call is doing
  day,       \* today's date in the till's zone (here) and in UTC (utc)
  issued,    \* platform: shift ids it issued, with the till's shift each is for
  dayHistory, \* history: what excuses the properties below
  restarts

tables == <<shifts, rows, reports, closures>>
dayVars == <<tables, current, preview, clerk, day, issued, dayHistory, restarts>>

Opening  == 1    \* opening float
Price    == 1    \* of every sale, paid in cash
ShiftIds == 1..MaxShifts
NoShift  == [id |-> 0, expected |-> 0]
NoTotals == [counts |-> {}, gross |-> {}, returns |-> {}]
NoReport == [date |-> 0, number |-> 0, totals |-> NoTotals, lists |-> {}]
NoNumber == [date |-> 0, no |-> 0]
Free == [at |-> "idle", shift |-> 0, number |-> NoNumber, report |-> NoReport, seen |-> {}]

Busy(t, stage)  == clerk[t].at = stage
Goes(t, stage)  == clerk' = [clerk EXCEPT ![t].at = stage]
Frees(t)        == clerk' = [clerk EXCEPT ![t] = Free]
ActiveRows      == {s \in DOMAIN shifts : shifts[s].st = "ACTIVE"}
ShiftsOf(d)     == {s \in DOMAIN shifts : shifts[s].day = d}
Numbered(d)     == {s \in DOMAIN shifts : shifts[s].number.date = d}
\* generate_shift_number: the date of UTC is part of the number, and what is counted.
ShiftNumber     == [date |-> day.utc, no |-> Cardinality(Numbered(day.utc)) + 1]
RowsOf(d)       == {r \in DOMAIN rows : rows[r].day = d}
CashOf(s)       == SumFunctionOnSet([r \in DOMAIN rows |-> rows[r].cash],
                                    {r \in DOMAIN rows : rows[r].shift = s})
Drawer(s)       == Opening + CashOf(s)
OpenRow(number) == [st |-> "ACTIVE", day |-> day.utc, number |-> number,
                    counted |-> 0, expected |-> Opening, server |-> 0]
\* row_to_summary gives an open row its float as expected cash.
Summary(s)      == [id |-> s, expected |-> Opening]
\* CashCount: the notes and coins of the drawer, as one amount.
Counted(s)      == Drawer(s)
Variance(s)     == Counted(s) - current.expected
Eventful        == Len(rows) + restarts + day.here <= MaxEvents
Excuse(name)    == dayHistory' = dayHistory \cup {name}

-----------------------------------------------------------------------------
(* ShiftService.                                                           *)

\* start_shift reads: no shift is open, and the next number of today, which may
\* be another day when the row is written.
SlipSkipsTheCheck(t) ==
  /\ Busy(t, "idle")
  /\ clerk' = [clerk EXCEPT ![t] = [Free EXCEPT !.at = "starting", !.number = ShiftNumber]]
  /\ UNCHANGED <<tables, current, preview, day, issued, dayHistory, restarts>>

StartChecks(t) ==
  /\ Busy(t, "idle") /\ ActiveRows = {}
  /\ clerk' = [clerk EXCEPT ![t] = [Free EXCEPT !.at = "starting", !.number = ShiftNumber]]
  /\ IF \E u \in Clerks : Busy(u, "starting") THEN Excuse("two-starts") ELSE UNCHANGED dayHistory
  /\ UNCHANGED <<tables, current, preview, day, issued, restarts>>

SlipOnlyWritesTheRow(t) ==
  LET s == Len(shifts) + 1 IN
  /\ Busy(t, "starting") /\ s <= MaxShifts
  /\ shifts' = Append(shifts, OpenRow(clerk[t].number))
  /\ clerk' = [clerk EXCEPT ![t] = [Free EXCEPT !.at = "opening", !.shift = s]]
  /\ UNCHANGED <<rows, reports, closures, current, preview, day, issued, dayHistory, restarts>>

\* The row and the memory; then the platform, unless it is known to be away.
StartWrites(t) ==
  LET s == Len(shifts) + 1 IN
  /\ Busy(t, "starting") /\ s <= MaxShifts
  /\ shifts' = Append(shifts, OpenRow(clerk[t].number))
  /\ current' = Summary(s)
  /\ clerk' = [clerk EXCEPT ![t] = [Free EXCEPT !.at = "opening", !.shift = s]]
  /\ UNCHANGED <<rows, reports, closures, preview, day, issued, dayHistory, restarts>>

PlatformOpens(t) ==
  /\ Busy(t, "opening") /\ issued' = Append(issued, clerk[t].shift) /\ Goes(t, "opened")
  /\ UNCHANGED <<tables, current, preview, day, dayHistory, restarts>>

\* mark_shift_synced with the id of the answer.
OpenRecorded(t) ==
  /\ Busy(t, "opened") /\ Frees(t)
  /\ \E n \in DOMAIN issued : /\ issued[n] = clerk[t].shift
                              /\ shifts' = [shifts EXCEPT ![clerk[t].shift].server = n]
  /\ UNCHANGED <<rows, reports, closures, current, preview, day, issued, dayHistory, restarts>>

\* Away, refused, or an answer that is lost: the row keeps no platform id.
OpenUnrecorded(t) ==
  /\ Busy(t, "opening") \/ Busy(t, "opened")
  /\ Frees(t)
  /\ UNCHANGED <<tables, current, preview, day, issued, dayHistory, restarts>>

\* load_active_shift: the newest open row, with the float as expected cash.
LoadActiveShift ==
  /\ dayHistory' = dayHistory \ {"not-loaded", "late-close"}
  /\ IF ActiveRows = {} THEN UNCHANGED current
     ELSE \E s \in ActiveRows : /\ \A u \in ActiveRows : u <= s
                                /\ current' = Summary(s)
  /\ UNCHANGED <<tables, preview, clerk, day, issued, restarts>>

\* The caller passes what the shift took and refunded in cash.
UpdateExpectedCash ==
  /\ current.id # 0 /\ current' = [current EXCEPT !.expected = Drawer(current.id)]
  /\ UNCHANGED <<tables, preview, clerk, day, issued, dayHistory, restarts>>

ClosedRow(s) == [shifts[s] EXCEPT !.st = "CLOSED", !.counted = Counted(s), !.expected = current.expected]

\* close_shift: against the figures in memory; a variance needs a note.
CloseShift(t) ==
  LET s == current.id IN
  /\ Busy(t, "idle") /\ s # 0
  /\ \E note \in BOOLEAN : Variance(s) = 0 \/ note
  /\ shifts' = [shifts EXCEPT ![s] = ClosedRow(s)]
  /\ clerk' = [clerk EXCEPT ![t] = [Free EXCEPT !.at = "closing", !.shift = s]]
  /\ UNCHANGED <<rows, reports, closures, current, preview, day, issued, dayHistory, restarts>>

\* The platform is told under the till's id; whatever comes of it, the
\* memory is cleared - also of a shift opened in the meantime.
SlipKeepsRefusedShift(t) ==
  /\ Busy(t, "closing") /\ Frees(t)
  /\ UNCHANGED <<tables, current, preview, day, issued, dayHistory, restarts>>

CloseEnds(t) ==
  /\ Busy(t, "closing") /\ Frees(t) /\ current' = NoShift
  /\ IF current.id \notin {0, clerk[t].shift} THEN Excuse("late-close") ELSE UNCHANGED dayHistory
  /\ UNCHANGED <<tables, preview, day, issued, restarts>>

-----------------------------------------------------------------------------
(* Sales and returns.                                                      *)

\* The sale mapping writes neither type nor total: the columns the report adds
\* keep the defaults of the migration that made them, of a return as of a sale.
NewRow(of, cash) == [of |-> of, cash |-> cash, shift |-> current.id, day |-> day.utc, on |-> day.here,
                     named |-> 0, type |-> "SALE", total |-> 0]

SlipRingsWithoutAShift(of, cash) ==
  /\ Eventful
  /\ rows' = Append(rows, NewRow(of, cash))
  /\ UNCHANGED <<shifts, reports, closures, current, preview, clerk, day, issued,
                 dayHistory, restarts>>

Rings(of, cash) ==
  /\ Eventful /\ current.id # 0
  /\ rows' = Append(rows, NewRow(of, cash))
  /\ IF shifts[current.id].st = "CLOSED" THEN Excuse("rung-in-closed") ELSE UNCHANGED dayHistory
  /\ UNCHANGED <<shifts, reports, closures, current, preview, clerk, day, issued, restarts>>

\* complete, with any change given back.
CompleteSale == Rings(0, Price)

\* process_return of a sale, whatever was returned of it before.
SaleReturned(r) == rows[r].of = 0 /\ Rings(r, -Price)

\* The request that carries a sale or a return names the shift by the id the
\* platform issued, read when it is built; it may be built again.
SlipNamesTheLocalId(s) == s
ServerShiftId(s) == shifts[s].server
SendRow(r) ==
  /\ rows' = [rows EXCEPT ![r].named = ServerShiftId(rows[r].shift)]
  /\ UNCHANGED <<shifts, reports, closures, current, preview, clerk, day, issued, dayHistory, restarts>>

-----------------------------------------------------------------------------
(* ZReportService.                                                         *)

\* The totals of a day of UTC, read under one lock: how many rows there are, and
\* the sums over their types.  A sum is kept as the rows that add to it; total
\* stands for the other amounts, whose columns are not written either.
Adding(d, type) == {r \in RowsOf(d) : rows[r].type = type /\ rows[r].total # 0}
DayTotals(d) == [counts |-> RowsOf(d), gross |-> Adding(d, "SALE"), returns |-> Adding(d, "RETURN")]

\* generate: every shift and row of UTC's day of the till's date, under the next
\* number of that date.
ReportOf(d) == [date |-> d, number |-> Cardinality({r \in reports : r.date = d}) + 1,
                totals |-> DayTotals(d), lists |-> ShiftsOf(d)]

Generate ==
  /\ ShiftsOf(day.here) # {} /\ preview' = ReportOf(day.here)
  /\ UNCHANGED <<tables, current, clerk, day, issued, dayHistory, restarts>>

\* A closing is between its check and the row of its report.
Closes(t) == clerk[t].at \in {"day", "cached", "fresh"}

\* can_close_day.
SlipIgnoresOpenShifts(t) ==
  /\ Busy(t, "idle") /\ ShiftsOf(day.here) # {} /\ ~\E r \in reports : r.date = day.here
  /\ clerk' = [clerk EXCEPT ![t] = [Free EXCEPT !.at = "day", !.seen = DOMAIN shifts]]
  /\ UNCHANGED <<tables, current, preview, day, issued, dayHistory, restarts>>

CanCloseDay(t) ==
  /\ Busy(t, "idle") /\ ActiveRows = {} /\ ShiftsOf(day.here) # {}
  /\ ~\E r \in reports : r.date = day.here
  /\ clerk' = [clerk EXCEPT ![t] = [Free EXCEPT !.at = "day", !.seen = DOMAIN shifts]]
  /\ IF \E u \in Clerks : Closes(u) THEN Excuse("two-closings") ELSE UNCHANGED dayHistory
  /\ UNCHANGED <<tables, current, preview, day, issued, restarts>>

\* The cached report if there is one, of whatever date and age; else one of
\* today, which may be another day by now and have no shift to close.
TakeReport(t) ==
  /\ Busy(t, "day")
  /\ \/ /\ preview # NoReport /\ UNCHANGED preview
        /\ clerk' = [clerk EXCEPT ![t].at = "cached", ![t].report = preview]
     \/ /\ preview = NoReport /\ ShiftsOf(day.here) # {} /\ preview' = ReportOf(day.here)
        /\ clerk' = [clerk EXCEPT ![t].at = "fresh", ![t].report = ReportOf(day.here)]
     \/ preview = NoReport /\ ShiftsOf(day.here) = {} /\ Frees(t) /\ UNCHANGED preview
  /\ UNCHANGED <<tables, current, day, issued, dayHistory, restarts>>

\* The number is the key of the table.  cached, missed and open are
\* history: what the report leaves out of the shifts there were at the check,
\* and of the till's day, while UTC had that date too.
Uncounted(t) == LET r == clerk[t].report IN
  {n \in DOMAIN rows \ r.totals.counts : rows[n].on = r.date /\ rows[n].day = r.date /\ rows[n].shift \in clerk[t].seen}
SaveZReport(t) ==
  LET r == clerk[t].report IN
  /\ Busy(t, "cached") \/ Busy(t, "fresh")
  /\ Cardinality(reports) < MaxReports
  /\ IF \E old \in reports : old.date = r.date /\ old.number = r.number
     THEN Frees(t) /\ UNCHANGED reports
     ELSE /\ reports' = reports \cup
               {[date |-> r.date, number |-> r.number, totals |-> r.totals, cached |-> Busy(t, "cached"),
                 missed |-> Uncounted(t),
                 open |-> ActiveRows \cap ShiftsOf(r.date) \cap clerk[t].seen, synced |-> FALSE]}
          /\ Goes(t, "saved")
  /\ UNCHANGED <<shifts, rows, closures, current, preview, day, issued, dayHistory, restarts>>

SlipMarksToday(t) ==
  /\ Busy(t, "saved") /\ closures' = closures \cup {day.here} /\ Goes(t, "reporting")
  /\ UNCHANGED <<shifts, rows, reports, current, preview, day, issued, dayHistory, restarts>>

MarkDayClosed(t) ==
  /\ Busy(t, "saved") /\ closures' = closures \cup {clerk[t].report.date} /\ Goes(t, "reporting")
  /\ UNCHANGED <<shifts, rows, reports, current, preview, day, issued, dayHistory, restarts>>

\* The platform may record it; the memory is cleared either way.
ReportEnds(t) ==
  /\ Busy(t, "reporting") /\ Frees(t) /\ preview' = NoReport
  /\ \E heard \in BOOLEAN :
       reports' = {IF r.date = clerk[t].report.date /\ r.number = clerk[t].report.number /\ heard
                   THEN [r EXCEPT !.synced = TRUE] ELSE r : r \in reports}
  /\ UNCHANGED <<shifts, rows, closures, current, day, issued, dayHistory, restarts>>

-----------------------------------------------------------------------------
\* Midnight of the till's zone, and of UTC: one follows the other.
NextDay ==
  /\ Eventful /\ (IF East THEN day.here <= day.utc ELSE day.here < day.utc)
  /\ day' = [day EXCEPT !.here = @ + 1]
  /\ UNCHANGED <<tables, current, preview, clerk, issued, dayHistory, restarts>>

NextDayOfUtc ==
  /\ IF East THEN day.utc < day.here ELSE day.utc <= day.here
  /\ day' = [day EXCEPT !.utc = @ + 1]
  /\ UNCHANGED <<tables, current, preview, clerk, issued, dayHistory, restarts>>

Restart ==
  /\ Eventful /\ restarts' = restarts + 1
  /\ current' = NoShift /\ preview' = NoReport /\ clerk' = [t \in Clerks |-> Free]
  /\ Excuse("not-loaded")
  /\ UNCHANGED <<tables, day, issued>>

DayInit ==
  /\ shifts = <<>> /\ rows = <<>> /\ reports = {} /\ closures = {}
  /\ current = NoShift /\ preview = NoReport /\ clerk = [t \in Clerks |-> Free]
  /\ day = [here |-> 1, utc |-> 1]
  /\ issued = <<>> /\ dayHistory = {} /\ restarts = 0

ShiftCall(t) ==
  \/ StartChecks(t) \/ StartWrites(t) \/ PlatformOpens(t) \/ OpenRecorded(t)
  \/ OpenUnrecorded(t) \/ CloseShift(t) \/ CloseEnds(t)
ReportCall(t) == CanCloseDay(t) \/ TakeReport(t) \/ SaveZReport(t) \/ MarkDayClosed(t) \/ ReportEnds(t)
Trade == CompleteSale \/ LoadActiveShift \/ \E r \in DOMAIN rows : SaleReturned(r)
Till == UpdateExpectedCash \/ \E r \in DOMAIN rows : SendRow(r)

Midnights == NextDay \/ NextDayOfUtc

DayNext == Trade \/ Till \/ Generate \/ Midnights \/ Restart \/ \E t \in Clerks : ShiftCall(t) \/ ReportCall(t)

DaySpec == DayInit /\ [][DayNext]_dayVars

-----------------------------------------------------------------------------
DayTypeOK ==
  /\ Len(shifts) <= MaxShifts /\ Len(rows) + restarts + day.here <= MaxEvents + 1
  /\ \A s \in DOMAIN shifts : shifts[s].st \in {"ACTIVE", "CLOSED"} /\ shifts[s].server \in 0..Len(issued)
  /\ \A r \in DOMAIN rows : rows[r].of \in 0..(r - 1) /\ rows[r].shift \in DOMAIN shifts
  /\ current.id \in 0..Len(shifts) /\ closures \subseteq 1..day.here
  /\ IF East THEN day.utc \in {day.here - 1, day.here} ELSE day.utc \in {day.here, day.here + 1}
  /\ \A t \in Clerks : clerk[t].at \in {"idle", "starting", "opening", "opened", "closing",
                                        "day", "cached", "fresh", "saved", "reporting"}

\* One shift is open and no number is given twice, unless two starts passed
\* the check side by side: between the check and the row nothing is held.
OneShiftOpen ==
  "two-starts" \notin dayHistory =>
    /\ Cardinality(ActiveRows) <= 1
    /\ \A s, u \in DOMAIN shifts : shifts[s].number = shifts[u].number => s = u

\* The open shift is the one in memory, and sales are rung in it - after a
\* restart once it is loaded, and unless the close of an earlier shift ended
\* after this one was opened.
OpenShiftIsKnown ==
  dayHistory \cap {"two-starts", "not-loaded", "late-close"} = {} =>
    \A s \in ActiveRows : current.id = s

\* A closed shift is in memory only while the call that closed it waits for
\* the platform: no later sale is rung in it, and no later close rewrites it.
ClosedShiftIsLeft ==
  \A s \in DOMAIN shifts : shifts[s].st = "CLOSED" /\ current.id = s =>
    \E t \in Clerks : Busy(t, "closing") /\ clerk[t].shift = s

\* A sale names to the platform no shift, or the id issued for its own shift,
\* whatever was lost, restarted or sent again.
SalesNameTheirShift ==
  \A r \in DOMAIN rows : rows[r].named # 0 =>
    rows[r].named \in DOMAIN issued /\ issued[rows[r].named] = rows[r].shift

\* A date that is closed has its report, across restarts between the writes.
ClosedDayHasReport == \A d \in closures : \E r \in reports : r.date = d

\* A report of the closing itself lists no shift that was open, and of the rows
\* of the till's day, in the shifts the closing saw, it counts each - but one
\* rung after its shift was closed, or while UTC had another date; only one
\* taken from the cache may miss others.  It is then the one of its date, unless
\* two closings passed the check side by side.
FreshReportIsWhole ==
  \A r \in reports : ~r.cached =>
    /\ r.open = {} /\ ("rung-in-closed" \notin dayHistory => r.missed = {})
    /\ "two-closings" \notin dayHistory => \A q \in reports : q.date = r.date /\ ~q.cached => q = r

\* A report states the takings of none of the rows it counts: nothing that the
\* sums look at is written with a sale or a return.
TakingsAreNothing == \A r \in reports : r.totals.gross = {} /\ r.totals.returns = {}

\* Starting, closing and restarting leave one open shift, the one in memory,
\* and every sale is told to the platform under the shift it was rung in.
ShiftsAreKnown == DayTypeOK /\ OneShiftOpen /\ OpenShiftIsKnown /\ ClosedShiftIsLeft /\ SalesNameTheirShift

\* Closing a day leaves its report, and one that counts the rows of the day,
\* without their takings.
ReportsAreWhole == ClosedDayHasReport /\ FreshReportIsWhole /\ TakingsAreNothing
=============================================================================
