----------------------------- MODULE Heartbeat -----------------------------
(***************************************************************************)
(* PlatformHeartbeatService: the errors a till counts and lists, the loop  *)
(* that reports them, and its start and stop.  The count and the list are  *)
(* two cells written one after the other, by the threads that record an    *)
(* error and by the loop that clears what the platform acknowledged.       *)
(***************************************************************************)
EXTENDS Integers, Sequences

CONSTANTS
  Loops,      \* threads that call start
  Recorders,  \* threads that call record_error
  MaxRecent,  \* MAX_RECENT_ERRORS, 10
  Degraded,   \* the count above which the status is ERROR, 5
  MaxErrors,  \* bound on errors recorded, numbered
  MaxBeats    \* bound on heartbeats

ASSUME HeartbeatAssumption == MaxRecent \in Nat \ {0} /\ Degraded \in Nat /\ MaxErrors \in Nat /\ MaxBeats \in Nat

VARIABLES
  running,    \* is_running
  count,      \* error_count
  recent,     \* recent_errors, oldest first
  loops,      \* each loop: where it is, what it read for the report
  recorders,  \* the error each recorder has counted and not yet listed, 0 for none
  errors,     \* history: errors recorded
  reported,   \* history: errors an acknowledged heartbeat carried
  evicted,    \* history: errors pushed out by newer ones
  overlapped, \* history: errors recorded while a heartbeat was under way
  beatGaps,   \* history: what excuses the loops
  beats

heartVars == <<running, count, recent, loops, recorders, errors, reported, evicted, overlapped,
               beatGaps, beats>>

Idle       == [at |-> "none", status |-> "HEALTHY", count |-> 0, errors |-> <<>>]
Listed     == {recent[i] : i \in 1..Len(recent)}
Looping(l, stage) == loops[l].at = stage
LoopAt(l, stage)  == loops' = [loops EXCEPT ![l] = [Idle EXCEPT !.at = stage]]
Alive      == {l \in Loops : ~Looping(l, "none")}
Beating    == {l \in Loops : loops[l].at \in {"counted", "asked", "answered", "clearing"}}
Unlisted   == {r \in Recorders : recorders[r] # 0}
ErrorsKept == UNCHANGED <<count, recent, recorders, errors, reported, evicted, overlapped>>

-----------------------------------------------------------------------------
SlipOnlyLists(r) ==
  /\ recorders[r] = 0 /\ errors < MaxErrors
  /\ errors' = errors + 1 /\ recorders' = [recorders EXCEPT ![r] = errors']
  /\ overlapped' = overlapped \cup (IF Beating = {} THEN {} ELSE {errors'})
  /\ UNCHANGED <<running, count, recent, loops, reported, evicted, beatGaps, beats>>

\* record_error: the count first -
Count(r) ==
  /\ recorders[r] = 0 /\ errors < MaxErrors
  /\ errors' = errors + 1 /\ count' = count + 1 /\ recorders' = [recorders EXCEPT ![r] = errors']
  /\ overlapped' = overlapped \cup (IF Beating = {} THEN {} ELSE {errors'})
  /\ UNCHANGED <<running, recent, loops, reported, evicted, beatGaps, beats>>

\* - then the list, which makes room by dropping its oldest.
List(r) ==
  /\ recorders[r] # 0 /\ recorders' = [recorders EXCEPT ![r] = 0]
  /\ LET full == Len(recent) >= MaxRecent IN
     /\ recent' = Append(IF full THEN Tail(recent) ELSE recent, recorders[r])
     /\ evicted' = evicted \cup (IF full THEN {Head(recent)} ELSE {})
  /\ overlapped' = overlapped \cup (IF Beating = {} THEN {} ELSE {recorders[r]})
  /\ UNCHANGED <<running, count, loops, errors, reported, beatGaps, beats>>

-----------------------------------------------------------------------------
SlipStartsAgain(l) ==
  /\ Looping(l, "none") /\ running' = TRUE
  /\ loops' = [loops EXCEPT ![l] = [Idle EXCEPT !.at = "ticking"]]
  /\ UNCHANGED <<beatGaps, beats>> /\ ErrorsKept

\* start: refused while running.  A stopped loop notices at its next tick, so a
\* start before that leaves two; an interval of 0 - which a policy may well
\* configure - panics before the first tick and leaves is_running set.
Start(l) ==
  /\ Looping(l, "none") /\ ~running /\ running' = TRUE
  /\ \/ /\ loops' = [loops EXCEPT ![l] = [Idle EXCEPT !.at = "ticking"]]
        /\ beatGaps' = beatGaps \cup (IF Alive = {} THEN {} ELSE {"two-loops"})
     \/ UNCHANGED loops /\ beatGaps' = beatGaps \cup {"zero-interval"}
  /\ UNCHANGED beats /\ ErrorsKept

Stop ==
  /\ running /\ running' = FALSE
  /\ UNCHANGED <<loops, beatGaps, beats>> /\ ErrorsKept

\* A tick that finds the service stopped ends the loop; else it reads the count
\* for the status -
Tick(l) ==
  /\ Looping(l, "ticking")
  /\ \/ ~running /\ LoopAt(l, "none") /\ UNCHANGED beats
     \/ /\ running /\ beats < MaxBeats /\ beats' = beats + 1
        /\ loops' = [loops EXCEPT ![l].at = "counted",
             ![l].status = IF count > Degraded THEN "ERROR" ELSE IF count > 0 THEN "DEGRADED" ELSE "HEALTHY"]
  /\ UNCHANGED <<running, beatGaps>> /\ ErrorsKept

\* - then the count and the list for the report.
Report(l) ==
  /\ Looping(l, "counted")
  /\ loops' = [loops EXCEPT ![l].at = "asked", ![l].count = count, ![l].errors = recent]
  /\ UNCHANGED <<running, beatGaps, beats>> /\ ErrorsKept

SlipEndsTheLoop(l) ==
  /\ Looping(l, "asked") /\ LoopAt(l, "none")
  /\ UNCHANGED <<running, beatGaps, beats>> /\ ErrorsKept

\* A failed heartbeat is reported as an event, and the loop goes on.
BeatFails(l) ==
  /\ Looping(l, "asked") /\ LoopAt(l, "ticking")
  /\ UNCHANGED <<running, beatGaps, beats>> /\ ErrorsKept

SlipClearsAnyway(l) ==
  /\ Looping(l, "asked") /\ LoopAt(l, "answered")
  /\ UNCHANGED <<running, beatGaps, beats>> /\ ErrorsKept

\* The platform answers, and acknowledges or not.
BeatAnswered(l) ==
  /\ Looping(l, "asked")
  /\ \/ /\ LoopAt(l, "answered")
        /\ reported' = reported \cup {loops[l].errors[i] : i \in 1..Len(loops[l].errors)}
     \/ LoopAt(l, "ticking") /\ UNCHANGED reported
  /\ UNCHANGED <<running, count, recent, recorders, errors, evicted, overlapped, beatGaps, beats>>

SlipKeepsTheCount(l) ==
  /\ Looping(l, "answered") /\ LoopAt(l, "clearing")
  /\ UNCHANGED <<running, beatGaps, beats>> /\ ErrorsKept

\* clear_errors: the count, then the list, whatever was recorded meanwhile.
ClearCount(l) ==
  /\ Looping(l, "answered") /\ LoopAt(l, "clearing") /\ count' = 0
  /\ overlapped' = overlapped \cup {recorders[r] : r \in Unlisted}
  /\ UNCHANGED <<running, recent, recorders, errors, reported, evicted, beatGaps, beats>>

ClearList(l) ==
  /\ Looping(l, "clearing") /\ LoopAt(l, "ticking") /\ recent' = <<>>
  /\ UNCHANGED <<running, count, recorders, errors, reported, evicted, overlapped, beatGaps, beats>>

HeartInit ==
  /\ running = FALSE /\ count = 0 /\ recent = <<>> /\ loops = [l \in Loops |-> Idle]
  /\ recorders = [r \in Recorders |-> 0] /\ errors = 0 /\ reported = {} /\ evicted = {}
  /\ overlapped = {} /\ beatGaps = {} /\ beats = 0

HeartNext ==
  \/ Stop \/ \E r \in Recorders : Count(r) \/ List(r)
  \/ \E l \in Loops : \/ Start(l) \/ Tick(l) \/ Report(l) \/ BeatFails(l) \/ BeatAnswered(l)
                      \/ ClearCount(l) \/ ClearList(l)

HeartSpec == HeartInit /\ [][HeartNext]_heartVars

-----------------------------------------------------------------------------
\* Every error recorded is reported, still listed, being listed, or was pushed
\* out by newer ones; the acknowledgement of a heartbeat takes away only what
\* that heartbeat carried, and what was recorded while it was under way.
ErrorsAreReported ==
  \A e \in 1..errors :
    e \in reported \cup Listed \cup {recorders[r] : r \in Unlisted} \cup evicted \cup overlapped

\* The count and the list tell the same story when nobody is between the two
\* and no error was recorded across a heartbeat.
CountMatchesList ==
  Unlisted = {} /\ overlapped = {} /\ "two-loops" \notin beatGaps /\ (\A l \in Loops :
    ~Looping(l, "clearing")) => IF count <= MaxRecent THEN Len(recent) = count
                                ELSE Len(recent) = MaxRecent

\* One loop reports, and a service that says it runs has it.
OneLoopBeats ==
  /\ "two-loops" \notin beatGaps => \A k, l \in Alive : k = l
  /\ running /\ "zero-interval" \notin beatGaps => Alive # {}

\* A heartbeat that says HEALTHY carries no errors, unless one was recorded
\* while it was being put together, or another loop was clearing.
HealthyCarriesNoErrors ==
  \A l \in Loops : Looping(l, "asked") /\ loops[l].status = "HEALTHY" /\ "two-loops" \notin beatGaps =>
    /\ {loops[l].errors[i] : i \in 1..Len(loops[l].errors)} \subseteq overlapped
    /\ overlapped = {} => loops[l].count = 0

\* What the platform hears of a till is true, complete but for the errors of the
\* time a heartbeat was under way, and from one loop but for a loop started again
\* before the former had ended.
HeartbeatIsHonest == ErrorsAreReported /\ CountMatchesList /\ OneLoopBeats /\ HealthyCarriesNoErrors
=============================================================================
