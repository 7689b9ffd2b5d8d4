------------------------------- MODULE SignIn -------------------------------
(***************************************************************************)
(* The sign-in screen of the till as the binary runs it: the answer fold   *)
(* (advance), the intents that reach it (apply), the driver that turns     *)
(* enquiries into tasks with one slot per kind of enquiry, and the window  *)
(* that settles the answers once a frame.                                  *)
(*                                                                         *)
(* The tasks run beside the window.  A task sleeps, looks once at its      *)
(* abandon flag, makes its call - whose effect on the till or the platform *)
(* is there before the answer - and posts the answer on a channel.         *)
(***************************************************************************)
EXTENDS Integers, Sequences, FiniteSets

CONSTANTS
  NTasks,      \* bound on tasks alive at once
  MaxRetries,  \* bound on presses of "try again"
  MaxFaults,   \* bound on failed calls, failed writes and expired codes
  MaxRestarts  \* bound on closings of the till

ASSUME SignInAssumption ==
  NTasks \in Nat \ {0} /\ MaxRetries \in Nat /\ MaxFaults \in Nat /\ MaxRestarts \in Nat

VARIABLES
  phase,      \* AuthPhase
  tasks,      \* the spawned tasks
  slot,       \* AuthDriver.outstanding: the task of each kind, or NoTask
  channel,    \* posted and not received: the kinds of the deliveries, and their
              \* answers in the order they were posted
  arrived,    \* answers received and not folded in this frame
  codes,      \* the pairing codes the platform issued, oldest first
  logins,     \* terminal sessions the platform issued
  client,     \* the terminal session the API client presents, 0 for none
  config,     \* the terminal session stored in terminal_config, 0 for none
  held,       \* an operator session is stored on the till
  presented,  \* the API client presents that operator session
  retries, faults, restarts

screen   == <<phase, arrived>>
driver   == <<tasks, slot, channel>>
till     == <<client, config, held, presented>>
platform == <<codes, logins>>
bounds   == <<retries, faults, restarts>>
vars     == <<screen, driver, till, platform, bounds>>

-----------------------------------------------------------------------------
Tasks  == 1..NTasks
NoTask == 0
Kinds  == {"restore", "code", "poll", "operators"}

Free == [kind |-> "restore", code |-> 0, at |-> "free", abandoned |-> FALSE, session |-> 0]
TaskType == [kind : Kinds, code : Nat, at : {"free", "asleep", "calling", "saving"},
             abandoned : BOOLEAN, session : Nat]

\* PinEntry is not among the phases: nothing in the program constructs it.
PhaseType == [at : {"splash", "stalled", "pairing", "select", "signedin"},
              code : Nat, enrolment : {"undetermined", "known"},
              session : Nat, roster : BOOLEAN]
Bare(at) == [at |-> at, code |-> 0, enrolment |-> "undetermined", session |-> 0, roster |-> FALSE]
Splash   == Bare("splash")
Stalled  == Bare("stalled")
SignedIn == Bare("signedin")
Pairing(code) == [Bare("pairing") EXCEPT !.code = code]
Select(session) == [Bare("select") EXCEPT !.session = session]

\* An enquiry, and what stands for none.
Ask(kind)      == [kind |-> kind, code |-> 0]
AskPoll(code)  == [kind |-> "poll", code |-> code]
Nothing        == [kind |-> "nothing", code |-> 0]

-----------------------------------------------------------------------------
(* AuthDriver.                                                             *)

NewTask(ask) == [Free EXCEPT !.kind = ask.kind, !.code = ask.code, !.at = "asleep"]

\* A task that ended leaves its number to another once its slot is released.
Unused(d) == {t \in Tasks : d.tasks[t].at = "free" /\ \A k \in Kinds : d.slot[k] # t}
Lowest(ts) == CHOOSE t \in ts : \A u \in ts : t <= u

\* The driver as it stands, or with the outstanding task of a kind told to
\* abandon and its slot released.
Standing == [slot |-> slot, tasks |-> tasks]
Abandoned(kind) ==
  [slot  |-> [slot EXCEPT ![kind] = NoTask],
   tasks |-> [t \in Tasks |-> IF t = slot[kind] THEN [tasks[t] EXCEPT !.abandoned = TRUE] ELSE tasks[t]]]

Spawned(d, ask, kind) ==
  /\ Unused(d) # {}
  /\ tasks' = [d.tasks EXCEPT ![Lowest(Unused(d))] = NewTask(ask)]
  /\ slot'  = [d.slot EXCEPT ![kind] = Lowest(Unused(d))]

SlipSendsAnyway(d, ask) ==
  IF ask = Nothing THEN tasks' = d.tasks /\ slot' = d.slot ELSE Spawned(d, ask, ask.kind)
SlipSharesASlot(d, ask) ==
  IF ask = Nothing THEN tasks' = d.tasks /\ slot' = d.slot ELSE Spawned(d, ask, "restore")

\* send: dropped while the slot of its kind is taken.
Sent(d, ask) ==
  IF ask = Nothing \/ \E k \in Kinds : k = ask.kind /\ d.slot[k] # NoTask
  THEN tasks' = d.tasks /\ slot' = d.slot
  ELSE Spawned(d, ask, ask.kind)

Empty == [kinds |-> {}, answers |-> <<>>]
Post(t, answers) ==
  /\ channel' = [kinds |-> channel.kinds \cup {tasks[t].kind}, answers |-> channel.answers \o answers]
  /\ tasks' = [tasks EXCEPT ![t] = Free]
  /\ UNCHANGED slot

\* The one look at the abandon flag, after the delay and before the call.
Starts(t) ==
  /\ tasks[t].at = "asleep"
  /\ tasks' = [tasks EXCEPT ![t] = IF @.abandoned THEN Free ELSE [@ EXCEPT !.at = "calling"]]
  /\ UNCHANGED <<screen, slot, channel, till, platform, bounds>>

-----------------------------------------------------------------------------
(* perform: the calls of the tasks, and their answers.                     *)

Fault == faults < MaxFaults /\ faults' = faults + 1 /\ UNCHANGED <<retries, restarts>>
NoFault == UNCHANGED bounds
Calls(t, kind) == tasks[t].at = "calling" /\ tasks[t].kind = kind

Replies == [of : {"restored", "opened", "code", "status", "operators"},
            out : {"some", "none", "issued", "pending", "completed", "dead", "error"}, value : Nat]
Answer(of, out) == [of |-> of, out |-> out, value |-> 0]
Opened == IF config # 0 THEN [Answer("opened", "some") EXCEPT !.value = config]
          ELSE Answer("opened", "none")

SlipOpensFirst(t) ==
  /\ Calls(t, "restore") /\ presented' = held
  /\ Post(t, <<Opened, Answer("restored", IF held THEN "some" ELSE "none")>>)
  /\ NoFault /\ UNCHANGED <<screen, client, config, held, platform>>

SlipAnswersOnce(t) ==
  /\ Calls(t, "restore") /\ presented' = held
  /\ Post(t, <<Answer("restored", IF held THEN "some" ELSE "none")>>)
  /\ NoFault /\ UNCHANGED <<screen, client, config, held, platform>>

\* The operator first, and the terminal only when nobody is signed in.
RestoreSession(t) ==
  /\ Calls(t, "restore")
  /\ \/ held /\ presented' = TRUE /\ NoFault /\ Post(t, <<Answer("restored", "some")>>)
     \/ /\ ~held /\ UNCHANGED presented
        /\ \/ NoFault /\ Post(t, <<Answer("restored", "none"), Opened>>)
           \/ Fault /\ Post(t, <<Answer("restored", "none"), Answer("opened", "error")>>)
     \/ Fault /\ UNCHANGED presented /\ Post(t, <<Answer("restored", "error")>>)
  /\ UNCHANGED <<screen, client, config, held, platform>>

RequestPairingCode(t) ==
  /\ Calls(t, "code")
  /\ \/ /\ NoFault /\ codes' = Append(codes, "pending")
        /\ Post(t, <<[Answer("code", "issued") EXCEPT !.value = Len(codes) + 1]>>)
     \/ /\ Fault /\ codes' \in {codes, Append(codes, "pending")}
        /\ Post(t, <<Answer("code", "error")>>)
  /\ UNCHANGED <<screen, till, logins>>

\* The poll that finds its code approved registers the terminal and logs it
\* in, which replaces the session the client presents.
PairingStatus(t) ==
  /\ Calls(t, "poll")
  /\ \/ /\ Fault /\ UNCHANGED <<client, logins>>
        /\ \/ Post(t, <<Answer("status", "error")>>)
           \/ codes[tasks[t].code] = "completed" /\ Post(t, <<Answer("status", "completed")>>)
     \/ /\ NoFault /\ codes[tasks[t].code] # "completed" /\ UNCHANGED <<client, logins>>
        /\ Post(t, <<Answer("status", codes[tasks[t].code])>>)
     \/ /\ NoFault /\ codes[tasks[t].code] = "completed"
        /\ logins' = logins + 1 /\ client' = logins'
        /\ tasks' = [tasks EXCEPT ![t].at = "saving", ![t].session = logins']
        /\ UNCHANGED <<slot, channel>>
  /\ UNCHANGED <<screen, config, held, presented, codes>>

\* The login's session is stored after the client presents it; a write that
\* fails is logged.
SaveConfig(t) ==
  /\ tasks[t].at = "saving"
  /\ \/ NoFault /\ config' = tasks[t].session
     \/ Fault /\ config' = config
  /\ Post(t, <<Answer("status", "completed")>>)
  /\ UNCHANGED <<screen, client, held, presented, platform>>

LoadOperators(t) ==
  /\ Calls(t, "operators")
  /\ \/ NoFault /\ Post(t, <<Answer("operators", "some")>>)
     \/ Fault /\ Post(t, <<Answer("operators", "error")>>)
  /\ UNCHANGED <<screen, till, platform>>

TaskStep(t) ==
  \/ Starts(t) \/ RestoreSession(t) \/ RequestPairingCode(t) \/ PairingStatus(t)
  \/ SaveConfig(t) \/ LoadOperators(t)

-----------------------------------------------------------------------------
(* A frame: the answers that arrived are folded, then the intents.         *)

\* answers(): a delivery frees the slot of its kind, whoever holds it.
Settle ==
  /\ arrived = <<>> /\ channel # Empty
  /\ slot' = [k \in Kinds |-> IF k \in channel.kinds THEN NoTask ELSE slot[k]]
  /\ arrived' = channel.answers /\ channel' = Empty
  /\ UNCHANGED <<phase, tasks, till, platform, bounds>>

\* advance returns the next phase and what to ask; leaving the pairing
\* screen abandons the poll.
Becomes(next, ask) ==
  /\ phase' = next /\ arrived' = Tail(arrived)
  /\ Sent(IF phase.at = "pairing" /\ next.at # "pairing" THEN Abandoned("poll")
          ELSE Standing, ask)

Reads(of, out) == arrived # <<>> /\ Head(arrived).of = of /\ Head(arrived).out = out

SessionRestored ==
  \/ Reads("restored", "some")  /\ phase.at \in {"splash", "pairing"} /\ Becomes(SignedIn, Nothing)
  \/ Reads("restored", "none")  /\ phase.at \in {"splash", "pairing"} /\ Becomes(phase, Nothing)
  \/ Reads("restored", "error") /\ phase.at \in {"splash", "pairing"} /\ Becomes(Stalled, Nothing)

TerminalSessionOpened ==
  \/ /\ Reads("opened", "some") /\ phase.at \in {"splash", "pairing"}
     /\ Becomes(Select(Head(arrived).value), Ask("operators"))
  \/ Reads("opened", "none")  /\ phase.at = "splash" /\ Becomes(phase, Ask("code"))
  \/ Reads("opened", "none")  /\ phase.at = "pairing" /\ Becomes(Stalled, Nothing)
  \/ Reads("opened", "error") /\ phase.at \in {"splash", "pairing"} /\ Becomes(Stalled, Nothing)

PairingCodeRequested ==
  \/ /\ Reads("code", "issued") /\ phase.at \in {"splash", "pairing"}
     /\ Becomes(Pairing(Head(arrived).value), AskPoll(Head(arrived).value))
  \/ Reads("code", "error") /\ phase.at \in {"splash", "pairing"} /\ Becomes(Stalled, Nothing)

SlipWaitsForNothing ==
  /\ phase.at = "pairing" /\ \E out \in {"completed", "pending", "dead", "error"} :
       Reads("status", out) /\ Becomes([phase EXCEPT !.enrolment = "known"], Nothing)

\* The next poll is of the code on the screen, whichever the answer was about.
PairingStatusRead ==
  /\ phase.at = "pairing"
  /\ \/ Reads("status", "completed") /\ Becomes([phase EXCEPT !.enrolment = "known"], Ask("restore"))
     \/ Reads("status", "pending")   /\ Becomes([phase EXCEPT !.enrolment = "known"], AskPoll(phase.code))
     \/ Reads("status", "dead")      /\ Becomes([phase EXCEPT !.enrolment = "known"], Ask("code"))
     \/ Reads("status", "error")
        /\ Becomes([phase EXCEPT !.enrolment = "undetermined"], AskPoll(phase.code))

OperatorsLoaded ==
  /\ phase.at = "select"
  /\ \/ Reads("operators", "some")  /\ Becomes([phase EXCEPT !.roster = TRUE], Nothing)
     \/ Reads("operators", "error") /\ Becomes(phase, Nothing)

\* Any other answer changes nothing on the screen.
Ignored ==
  /\ arrived # <<>>
  /\ \/ Head(arrived).of \in {"restored", "opened", "code"} /\ phase.at \notin {"splash", "pairing"}
     \/ Head(arrived).of = "status" /\ phase.at # "pairing"
     \/ Head(arrived).of = "operators" /\ phase.at # "select"
  /\ Becomes(phase, Nothing)

Fold ==
  /\ \/ SessionRestored \/ TerminalSessionOpened \/ PairingCodeRequested
     \/ PairingStatusRead \/ OperatorsLoaded \/ Ignored
  /\ UNCHANGED <<channel, till, platform, bounds>>

\* apply: "try again", the only intent that does anything in these phases.
Retry ==
  /\ arrived = <<>> /\ retries < MaxRetries /\ retries' = retries + 1
  /\ \/ phase.at = "stalled" /\ phase' = Splash
        /\ Sent(Standing, Ask("restore"))
     \/ phase.at = "pairing" /\ phase' = phase
        /\ Sent(Standing, Ask("code"))
  /\ UNCHANGED <<arrived, channel, till, platform, faults, restarts>>

-----------------------------------------------------------------------------
(* The platform, and the till switched off and on.                         *)

Approve(c) ==
  /\ codes[c] = "pending" /\ codes' = [codes EXCEPT ![c] = "completed"]
  /\ UNCHANGED <<screen, driver, till, logins, bounds>>

CodeDies(c) ==
  /\ codes[c] = "pending" /\ codes' = [codes EXCEPT ![c] = "dead"]
  /\ Fault /\ UNCHANGED <<screen, driver, till, logins>>

\* Till::new: the splash screen, and the first question.
FirstTasks == [[t \in Tasks |-> Free] EXCEPT ![1] = NewTask(Ask("restore"))]
FirstSlot  == [[k \in Kinds |-> NoTask] EXCEPT !["restore"] = 1]

Restart ==
  /\ restarts < MaxRestarts /\ restarts' = restarts + 1
  /\ phase' = Splash /\ arrived' = <<>> /\ channel' = Empty
  /\ tasks' = FirstTasks /\ slot' = FirstSlot
  /\ client' = 0 /\ presented' = FALSE
  /\ UNCHANGED <<config, held, platform, retries, faults>>

\* The till is started new, or paired, or with an operator signed in before.
Init ==
  /\ phase = Splash /\ arrived = <<>> /\ channel = Empty
  /\ tasks = FirstTasks /\ slot = FirstSlot
  /\ codes = <<>> /\ config \in {0, 1} /\ logins = config
  /\ held \in BOOLEAN /\ (held => config = 1)
  /\ client = 0 /\ presented = FALSE
  /\ retries = 0 /\ faults = 0 /\ restarts = 0

Next ==
  \/ \E t \in Tasks : TaskStep(t)
  \/ Settle \/ Fold \/ Retry \/ Restart
  \/ \E c \in DOMAIN codes : Approve(c) \/ CodeDies(c)

Spec == Init /\ [][Next]_vars

\* The runtime runs every task, and a posted answer wakes the window.
Fairness ==
  /\ \A t \in Tasks : WF_vars(TaskStep(t))
  /\ WF_vars(Settle) /\ WF_vars(Fold)

FairSpec == Spec /\ Fairness

-----------------------------------------------------------------------------
TypeOK ==
  /\ phase \in PhaseType /\ tasks \in [Tasks -> TaskType]
  /\ slot \in [Kinds -> Tasks \cup {NoTask}]
  /\ \A k \in Kinds : slot[k] # NoTask => tasks[slot[k]].at = "free" \/ tasks[slot[k]].kind = k
  /\ channel \in [kinds : SUBSET Kinds, answers : Seq(Replies)] /\ arrived \in Seq(Replies)
  /\ codes \in Seq({"pending", "completed", "dead"})
  /\ logins \in Nat /\ client \in 0..logins /\ config \in 0..logins
  /\ held \in BOOLEAN /\ presented \in BOOLEAN
  /\ retries \in Nat /\ faults \in Nat /\ restarts \in Nat

Running(kind) == {t \in Tasks : tasks[t].kind = kind /\ tasks[t].at \in {"calling", "saving"}}

\* At most one restore, one request for a code and one load of the operators
\* is ever running: the driver's one slot per kind holds across frames,
\* retries and answers nobody waits for.
SingleFlight == \A k \in Kinds \ {"poll"} : Cardinality(Running(k)) <= 1

\* The screen says signed in only when the client presents an operator, and
\* asks who is there only when it presents none and a terminal session exists.
ScreenTellsTheTruth ==
  /\ phase.at = "signedin" => presented
  /\ phase.at = "select" => ~presented /\ config # 0

\* The splash screen never stays: a spinner always has an answer coming.
SplashEnds == phase.at = "splash" ~> phase.at # "splash"

\* An approval is never left unnoticed: the pairing screen whose code was
\* approved moves on, or shows another code.
ApprovedOnScreen == phase.at = "pairing" /\ codes[phase.code] = "completed"
ApprovalIsNoticed == ApprovedOnScreen ~> ~ApprovedOnScreen

\* driver.rs, of its two obligations: "two in flight is not a wasted request -
\* it is two effects ... this module gates every kind independently", and of
\* dispatch: "two interleaved polls can leave the client presenting one
\* session while the stored configuration holds another".
OnePollAtATime == Cardinality(Running("poll")) <= 1
=============================================================================
