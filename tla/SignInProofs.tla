---------------------------- MODULE SignInProofs ----------------------------
(***************************************************************************)
(* For any number of tasks, presses of "try again", faults and restarts:   *)
(* the driver runs one enquiry of a kind at a time, the pairing poll apart, *)
(* and the screen says of the session what is true.                        *)
(***************************************************************************)
EXTENDS SignIn, FiniteSetTheorems, SequenceTheorems, WellFoundedInduction, TLAPS

Single == Kinds \ {"poll"}

\* What holds of the driver's slots and tasks, given the kinds of the
\* deliveries that wait: a slot is held until its delivery is settled, and a
\* kind that is not the poll has no task outside its slot.
Slots(sl, ts, kinds) ==
  /\ ts \in [Tasks -> TaskType] /\ sl \in [Kinds -> Tasks \cup {NoTask}]
  /\ \A k \in Kinds : sl[k] # NoTask => ts[sl[k]].at = "free" \/ ts[sl[k]].kind = k
  /\ \A k \in Single, t \in Tasks : ts[t].kind = k /\ ts[t].at # "free" => sl[k] = t
  /\ \A k \in Single \cap kinds : sl[k] # NoTask /\ ts[sl[k]].at = "free"

\* A task polls for a code the platform issued, and saves a session it issued.
Grounded(ts, n, l) ==
  \A t \in Tasks : /\ ts[t].kind = "poll" /\ ts[t].at # "free" => ts[t].code \in 1..n
                   /\ ts[t].at = "saving" => ts[t].session \in 1..l

\* The answers that may be under way: an operator restored is presented, a
\* terminal session is opened only when nobody is signed in, a code was issued.
Credible ==
  {a \in Replies :
     /\ a.of = "restored" /\ a.out = "some" => presented
     /\ a.of = "opened" /\ a.out = "some" => ~held /\ config # 0
     /\ a.of = "code" /\ a.out = "issued" => a.value \in 1..Len(codes)}

Ledgers ==
  /\ codes \in Seq({"pending", "completed", "dead"})
  /\ logins \in Nat /\ client \in 0..logins /\ config \in 0..logins
  /\ held \in BOOLEAN /\ presented \in BOOLEAN /\ (presented => held)
  /\ retries \in Nat /\ faults \in Nat /\ restarts \in Nat

Shown ==
  /\ phase \in PhaseType /\ (phase.at = "pairing" => phase.code \in 1..Len(codes))
  /\ phase.at = "signedin" => presented
  /\ phase.at = "select" => ~held /\ config # 0

\* The inductive invariant.
SignInInv ==
  /\ Ledgers /\ Shown
  /\ Slots(slot, tasks, channel.kinds) /\ Grounded(tasks, Len(codes), logins)
  /\ channel \in [kinds : SUBSET Kinds, answers : Seq(Credible)] /\ arrived \in Seq(Credible)

-----------------------------------------------------------------------------
(* The driver.                                                             *)

LEMMA NoTaskIsNone == NoTask \notin Tasks /\ Tasks \subseteq Nat /\ 1 \in Tasks
  BY SignInAssumption DEF NoTask, Tasks, SignInAssumption

\* The lowest number of a set of tasks is one of them.
LEMMA LowestIsOne ==
  ASSUME NEW ts, ts \subseteq Tasks, ts # {}
  PROVE  Lowest(ts) \in ts
<1>1. ts \subseteq Nat
  BY NoTaskIsNone
<1>2. PICK t \in ts : \A u \in ts : <<u, t>> \notin OpToRel(<, Nat)
  BY <1>1, WFMin, NatLessThanWellFounded, Zenon
<1>3. \A u \in ts : ~(u < t)
  BY <1>1, <1>2, Zenon DEF OpToRel
<1>4. t \in ts /\ \A u \in ts : t <= u
  BY <1>1, <1>3
<1> QED BY <1>4, Zenon DEF Lowest

\* A poll is abandoned without leaving its task.
LEMMA AbandonKeeps ==
  ASSUME NEW ks, Slots(slot, tasks, ks), NEW n, NEW l, Grounded(tasks, n, l)
  PROVE  LET d == Abandoned("poll") IN
         /\ Slots(d.slot, d.tasks, ks) /\ Grounded(d.tasks, n, l)
         /\ d.slot["poll"] = NoTask
<1> DEFINE ts == [t \in Tasks |-> IF t = slot["poll"] THEN [tasks[t] EXCEPT !.abandoned = TRUE] ELSE tasks[t]]
           sl == [slot EXCEPT !["poll"] = NoTask]
<1>1. Abandoned("poll").slot = sl /\ Abandoned("poll").tasks = ts
  BY DEF Abandoned
<1>2. ts \in [Tasks -> TaskType]
  <2>1. ASSUME NEW t \in Tasks PROVE [tasks[t] EXCEPT !.abandoned = TRUE] \in TaskType /\ tasks[t] \in TaskType
    <3>1. tasks[t] \in TaskType
      BY DEF Slots
    <3> QED BY <3>1 DEF TaskType
  <2> QED BY <2>1
<1>3. \A t \in Tasks : /\ ts[t].at = tasks[t].at /\ ts[t].kind = tasks[t].kind
                       /\ ts[t].code = tasks[t].code /\ ts[t].session = tasks[t].session
  BY DEF Slots, TaskType
<1>4. /\ sl \in [Kinds -> Tasks \cup {NoTask}] /\ sl["poll"] = NoTask
      /\ \A k \in Single : sl[k] = slot[k]
  BY DEF Slots, Single, Kinds
<1>5. Single \subseteq Kinds /\ \A k \in Kinds : k = "poll" \/ k \in Single
  BY DEF Single
<1> HIDE DEF ts, sl
<1>6. Slots(sl, ts, ks)
  BY <1>2, <1>3, <1>4, <1>5 DEF Slots
<1>7. Grounded(ts, n, l)
  BY <1>3 DEF Grounded
<1> QED BY <1>1, <1>4, <1>6, <1>7

\* A question sent takes the free slot of its kind and a task of its own.
LEMMA SpawnKeeps ==
  ASSUME NEW d, NEW ks, Slots(d.slot, d.tasks, ks), NEW n, NEW l, Grounded(d.tasks, n, l),
         NEW ask, ask.kind \in Kinds, ask.code \in Nat, ask.kind = "poll" => ask.code \in 1..n,
         d.slot[ask.kind] = NoTask, Spawned(d, ask, ask.kind)
  PROVE  Slots(slot', tasks', ks) /\ Grounded(tasks', n, l)
<1> DEFINE u == Lowest(Unused(d))
           k0 == ask.kind
<1>1. u \in Tasks /\ d.tasks[u].at = "free" /\ \A k \in Kinds : d.slot[k] # u
  <2>1. Unused(d) \subseteq Tasks /\ Unused(d) # {}
    BY DEF Unused, Spawned
  <2>2. u \in Unused(d)
    BY <2>1, LowestIsOne
  <2> QED BY <2>2 DEF Unused
<1>2. /\ tasks' = [d.tasks EXCEPT ![u] = NewTask(ask)]
      /\ slot' = [d.slot EXCEPT ![k0] = u]
  BY DEF Spawned
<1>3. /\ NewTask(ask) \in TaskType /\ NewTask(ask).kind = k0 /\ NewTask(ask).at = "asleep"
      /\ NewTask(ask).code = ask.code
  BY DEF NewTask, Free, TaskType, Kinds
<1> HIDE DEF u, k0
<1>4. tasks' \in [Tasks -> TaskType] /\ slot' \in [Kinds -> Tasks \cup {NoTask}]
  BY <1>1, <1>2, <1>3 DEF Slots, k0
<1>5. /\ \A t \in Tasks \ {u} : tasks'[t] = d.tasks[t]
      /\ tasks'[u] = NewTask(ask) /\ slot'[k0] = u
      /\ \A k \in Kinds \ {k0} : slot'[k] = d.slot[k]
  BY <1>1, <1>2 DEF Slots, k0
<1>6. k0 \in Kinds /\ d.slot[k0] = NoTask /\ NoTask # u
  BY <1>1, NoTaskIsNone DEF k0
<1>7. Slots(slot', tasks', ks)
  <2>1. ASSUME NEW k \in Kinds, slot'[k] # NoTask
        PROVE  tasks'[slot'[k]].at = "free" \/ tasks'[slot'[k]].kind = k
    BY <2>1, <1>1, <1>3, <1>5, <1>6 DEF Slots
  <2>2. ASSUME NEW k \in Single, NEW t \in Tasks, tasks'[t].kind = k, tasks'[t].at # "free"
        PROVE  slot'[k] = t
    <3>1. CASE t = u
      BY <2>2, <3>1, <1>3, <1>5
    <3>2. CASE t # u
      <4>1. d.slot[k] = t /\ k \in Kinds
        BY <2>2, <3>2, <1>5 DEF Slots, Single
      <4> QED BY <4>1, <1>5, <1>6, NoTaskIsNone
    <3> QED BY <3>1, <3>2
  <2>3. ASSUME NEW k \in Single \cap ks
        PROVE  slot'[k] # NoTask /\ tasks'[slot'[k]].at = "free"
    <3>1. d.slot[k] # NoTask /\ d.tasks[d.slot[k]].at = "free" /\ k \in Kinds /\ d.slot[k] \in Tasks
      BY DEF Slots, Single
    <3>2. k # k0 /\ d.slot[k] # u
      BY <3>1, <1>1, <1>6
    <3> QED BY <3>1, <3>2, <1>5
  <2> QED BY <1>4, <2>1, <2>2, <2>3 DEF Slots
<1>8. Grounded(tasks', n, l)
  BY <1>1, <1>3, <1>5 DEF Grounded, k0
<1> QED BY <1>7, <1>8

\* What is sent, or dropped while the slot of its kind is taken.
LEMMA SentKeeps ==
  ASSUME NEW d, NEW ks, Slots(d.slot, d.tasks, ks), NEW n, NEW l, Grounded(d.tasks, n, l),
         NEW ask, \/ ask = Nothing
                  \/ /\ ask.kind \in Kinds /\ ask.code \in Nat
                     /\ ask.kind = "poll" => ask.code \in 1..n,
         Sent(d, ask)
  PROVE  Slots(slot', tasks', ks) /\ Grounded(tasks', n, l)
<1>1. CASE ask = Nothing \/ \E k \in Kinds : k = ask.kind /\ d.slot[k] # NoTask
  BY <1>1 DEF Sent
<1>2. CASE ~(ask = Nothing \/ \E k \in Kinds : k = ask.kind /\ d.slot[k] # NoTask)
  <2>1. Spawned(d, ask, ask.kind) /\ ask.kind \in Kinds /\ d.slot[ask.kind] = NoTask
    BY <1>2 DEF Sent
  <2> QED BY <1>2, <2>1, SpawnKeeps
<1> QED BY <1>1, <1>2

\* A task that answers ends, and its delivery holds its slot.
LEMMA PostKeeps ==
  ASSUME NEW t \in Tasks, tasks[t].at # "free", NEW C, NEW answers \in Seq(C),
         channel \in [kinds : SUBSET Kinds, answers : Seq(C)],
         Slots(slot, tasks, channel.kinds), NEW n, NEW l, Grounded(tasks, n, l), Post(t, answers)
  PROVE  /\ channel' \in [kinds : SUBSET Kinds, answers : Seq(C)]
         /\ Slots(slot', tasks', channel'.kinds) /\ Grounded(tasks', n, l)
<1>1. tasks[t] \in TaskType /\ tasks[t].kind \in Kinds
  BY DEF Slots, TaskType
<1>2. channel.answers \o answers \in Seq(C)
  BY ConcatProperties
<1>3. channel' \in [kinds : SUBSET Kinds, answers : Seq(C)]
  BY <1>1, <1>2 DEF Post
<1>4. Free \in TaskType /\ Free.at = "free"
  BY DEF Free, TaskType, Kinds
<1>5. /\ tasks' \in [Tasks -> TaskType] /\ tasks'[t] = Free
      /\ \A u \in Tasks \ {t} : tasks'[u] = tasks[u]
      /\ slot' = slot /\ channel'.kinds = channel.kinds \cup {tasks[t].kind}
  BY <1>4 DEF Post, Slots
<1>6. Single \subseteq Kinds /\ NoTask \notin Tasks
  BY NoTaskIsNone DEF Single
<1> HIDE DEF Single
<1>7. Slots(slot', tasks', channel'.kinds)
  <2>1. ASSUME NEW k \in Single \cap channel'.kinds
        PROVE  slot'[k] # NoTask /\ tasks'[slot'[k]].at = "free"
    <3>1. CASE k = tasks[t].kind
      BY <3>1, <1>4, <1>5, <1>6 DEF Slots
    <3>2. CASE k \in channel.kinds
      BY <3>2, <1>4, <1>5, <1>6 DEF Slots
    <3> QED BY <3>1, <3>2, <1>5
  <2>2. ASSUME NEW k \in Kinds, slot'[k] # NoTask
        PROVE  tasks'[slot'[k]].at = "free" \/ tasks'[slot'[k]].kind = k
    BY <2>2, <1>4, <1>5 DEF Slots
  <2>3. ASSUME NEW k \in Single, NEW u \in Tasks, tasks'[u].kind = k, tasks'[u].at # "free"
        PROVE  slot'[k] = u
    BY <2>3, <1>4, <1>5 DEF Slots
  <2> QED BY <2>1, <2>2, <2>3, <1>5 DEF Slots
<1>8. Grounded(tasks', n, l)
  BY <1>4, <1>5 DEF Grounded, Free
<1> QED BY <1>3, <1>7, <1>8

\* A task that goes on, or ends, keeps its question.
LEMMA StageKeeps ==
  ASSUME NEW t \in Tasks, tasks[t].at # "free", NEW ks, Slots(slot, tasks, ks),
         NEW n, NEW l, NEW m \in Nat, Grounded(tasks, n, l), l \in Nat, l <= m, NEW s \in TaskType,
         s.at # "free" => s.kind = tasks[t].kind /\ s.code = tasks[t].code,
         s.at = "saving" => s.session \in 1..m,
         tasks' = [tasks EXCEPT ![t] = s], UNCHANGED slot
  PROVE  Slots(slot', tasks', ks) /\ Grounded(tasks', n, m)
<1>1. /\ tasks' \in [Tasks -> TaskType] /\ tasks'[t] = s
      /\ \A u \in Tasks \ {t} : tasks'[u] = tasks[u] /\ slot' = slot
  BY DEF Slots
<1>2. Single \subseteq Kinds
  BY DEF Single
<1> HIDE DEF Single
<1>3. Slots(slot', tasks', ks)
  BY <1>1, <1>2 DEF Slots
<1>4. Grounded(tasks', n, m)
  <2>1. ASSUME NEW u \in Tasks
        PROVE  /\ tasks'[u].kind = "poll" /\ tasks'[u].at # "free" => tasks'[u].code \in 1..n
               /\ tasks'[u].at = "saving" => tasks'[u].session \in 1..m
    <3>1. CASE u = t
      BY <3>1, <1>1 DEF Grounded
    <3>2. CASE u # t
      BY <3>2, <1>1 DEF Grounded
    <3> QED BY <3>1, <3>2
  <2> QED BY <2>1 DEF Grounded
<1> QED BY <1>3, <1>4

-----------------------------------------------------------------------------
(* The answers.                                                            *)

\* What may be said stays sayable while an operator presented stays so, a
\* stored terminal session is not erased and codes are only added.
LEMMA CredibleGrows ==
  ASSUME presented => presented', held' = held, config # 0 => config' # 0,
         Len(codes) \in Nat, Len(codes') \in Nat, Len(codes) <= Len(codes')
  PROVE  Credible \subseteq Credible' /\ \A s \in Seq(Credible) : s \in Seq(Credible')
<1>1. Credible \subseteq Credible'
  BY DEF Credible
<1>2. \A s \in Seq(Credible) : s \in Seq(Credible')
  BY <1>1, SeqMonotonic
<1> QED BY <1>1, <1>2

LEMMA OneAnswer == ASSUME NEW S, NEW a \in S PROVE <<a>> \in Seq(S)
  OBVIOUS
LEMMA TwoAnswers == ASSUME NEW S, NEW a \in S, NEW b \in S PROVE <<a, b>> \in Seq(S)
  OBVIOUS

LEMMA GroundedGrows ==
  ASSUME NEW ts, NEW n \in Nat, NEW l \in Nat, Grounded(ts, n, l),
         NEW n2 \in Nat, NEW l2 \in Nat, n <= n2, l <= l2
  PROVE  Grounded(ts, n2, l2)
  BY DEF Grounded

\* The lengths of the lists of codes, and a terminal session stored.
LEMMA Counted ==
  ASSUME Ledgers
  PROVE  Len(codes) \in Nat /\ config \in Nat /\ client \in Nat /\ 1..Len(codes) \subseteq Nat
  BY LenProperties DEF Ledgers

-----------------------------------------------------------------------------
(* The steps of a task.                                                    *)

LEMMA StartsKeeps ==
  ASSUME SignInInv, NEW t \in Tasks, Starts(t)
  PROVE  SignInInv'
<1> USE DEF SignInInv
<1>1. Ledgers' /\ Shown' /\ Credible' = Credible
  BY DEF Ledgers, Shown, Credible, Starts, screen, till, platform, bounds
<1>2. channel' = channel /\ arrived' = arrived /\ codes' = codes /\ logins' = logins
  BY DEF Starts, screen, platform
<1>3. Slots(slot', tasks', channel.kinds) /\ Grounded(tasks', Len(codes), logins)
  <2>1. PICK s : /\ tasks' = [tasks EXCEPT ![t] = s]
                 /\ s = IF tasks[t].abandoned THEN Free ELSE [tasks[t] EXCEPT !.at = "calling"]
    BY DEF Starts
  <2>2. tasks[t] \in TaskType
    BY DEF Slots
  <2>3. /\ s \in TaskType /\ s.at \in {"free", "calling"}
        /\ s.at # "free" => s.kind = tasks[t].kind /\ s.code = tasks[t].code
    BY <2>1, <2>2 DEF TaskType, Free, Kinds
  <2>4. tasks[t].at # "free" /\ UNCHANGED slot /\ logins \in Nat /\ logins <= logins
    BY DEF Starts, Ledgers
  <2> QED BY <2>1, <2>3, <2>4, StageKeeps
<1> QED BY <1>1, <1>2, <1>3

\* What a task posts is believed when it was true as the task called.
LEMMA AnswerKeeps ==
  ASSUME SignInInv, NEW t \in Tasks, tasks[t].at # "free",
         NEW answers \in Seq(Credible'), Post(t, answers),
         Ledgers', phase' = phase, arrived' = arrived, Len(codes) <= Len(codes'), logins' = logins,
         presented => presented', held' = held, config # 0 => config' # 0
  PROVE  SignInInv'
<1> USE DEF SignInInv
<1>1. Len(codes) \in Nat /\ Len(codes') \in Nat
  BY LenProperties DEF Ledgers
<1>2. \A s \in Seq(Credible) : s \in Seq(Credible')
  BY <1>1, CredibleGrows
<1>3. channel \in [kinds : SUBSET Kinds, answers : Seq(Credible')] /\ arrived' \in Seq(Credible')
  BY <1>2
<1>4. /\ channel' \in [kinds : SUBSET Kinds, answers : Seq(Credible')]
      /\ Slots(slot', tasks', channel'.kinds) /\ Grounded(tasks', Len(codes), logins)
  BY <1>3, PostKeeps
<1>5. Grounded(tasks', Len(codes'), logins')
  BY <1>1, <1>4, GroundedGrows DEF Ledgers
<1>6. Shown'
  BY <1>1 DEF Shown
<1> QED BY <1>3, <1>4, <1>5, <1>6

LEMMA RestoreSessionKeeps ==
  ASSUME SignInInv, NEW t \in Tasks, RestoreSession(t)
  PROVE  SignInInv'
<1> USE DEF SignInInv
<1>0. /\ tasks[t].at # "free" /\ phase' = phase /\ arrived' = arrived /\ codes' = codes /\ logins' = logins
      /\ held' = held /\ config' = config /\ client' = client
  BY DEF RestoreSession, Calls, screen, platform
<1>a. (held /\ presented' = TRUE) \/ presented' = presented
  BY DEF RestoreSession
<1>b. presented' \in BOOLEAN /\ (presented' => held') /\ (presented => presented')
  <2>1. held \in BOOLEAN /\ presented \in BOOLEAN /\ (presented => held)
    BY DEF Ledgers
  <2>2. CASE held /\ presented' = TRUE
    BY <1>0, <2>1, <2>2, Zenon
  <2>3. CASE presented' = presented
    BY <1>0, <2>1, <2>3, Zenon
  <2> QED BY <1>a, <2>2, <2>3
<1>c. retries' = retries /\ restarts' = restarts /\ faults' \in {faults, faults + 1}
  BY DEF RestoreSession, Fault, NoFault, bounds
<1>1. Ledgers' /\ Len(codes) <= Len(codes')
  BY <1>0, <1>b, <1>c, Counted DEF Ledgers
<1>2. Answer("restored", "none") \in Credible' /\ Answer("restored", "error") \in Credible'
      /\ Answer("opened", "error") \in Credible'
  BY DEF Answer, Credible, Replies
<1>3. ASSUME ~held PROVE Opened \in Credible'
  BY <1>0, <1>3, Counted DEF Opened, Answer, Credible, Replies
<1>4. ASSUME presented' PROVE Answer("restored", "some") \in Credible'
  BY <1>4 DEF Answer, Credible, Replies
<1>5. \E answers \in Seq(Credible') : Post(t, answers)
  <2>1. CASE held /\ presented' /\ Post(t, <<Answer("restored", "some")>>)
    BY <2>1, <1>4, OneAnswer
  <2>2. CASE ~held /\ Post(t, <<Answer("restored", "none"), Opened>>)
    BY <2>2, <1>2, <1>3, TwoAnswers
  <2>3. CASE Post(t, <<Answer("restored", "none"), Answer("opened", "error")>>)
    BY <2>3, <1>2, TwoAnswers
  <2>4. CASE Post(t, <<Answer("restored", "error")>>)
    BY <2>4, <1>2, OneAnswer
  <2> QED BY <2>1, <2>2, <2>3, <2>4 DEF RestoreSession
<1> QED BY <1>0, <1>1, <1>b, <1>5, AnswerKeeps

LEMMA RequestPairingCodeKeeps ==
  ASSUME SignInInv, NEW t \in Tasks, RequestPairingCode(t)
  PROVE  SignInInv'
<1> USE DEF SignInInv
<1>0. /\ tasks[t].at # "free" /\ phase' = phase /\ arrived' = arrived /\ logins' = logins
      /\ held' = held /\ config' = config /\ client' = client /\ presented' = presented
  BY DEF RequestPairingCode, Calls, screen, till
<1>1. /\ Append(codes, "pending") \in Seq({"pending", "completed", "dead"})
      /\ Len(Append(codes, "pending")) = Len(codes) + 1 /\ Len(codes) \in Nat
  BY AppendProperties, LenProperties DEF Ledgers
<1>2. codes' \in {codes, Append(codes, "pending")}
  BY DEF RequestPairingCode
<1>3. Ledgers' /\ Len(codes) <= Len(codes')
  <2>1. retries' = retries /\ restarts' = restarts /\ faults' \in {faults, faults + 1}
    BY DEF RequestPairingCode, Fault, NoFault, bounds
  <2>2. codes' \in Seq({"pending", "completed", "dead"}) /\ Len(codes) <= Len(codes')
    BY <1>1, <1>2 DEF Ledgers
  <2> QED BY <1>0, <2>1, <2>2 DEF Ledgers
<1>4. \E answers \in Seq(Credible') : Post(t, answers)
  <2>1. ASSUME codes' = Append(codes, "pending")
        PROVE  [Answer("code", "issued") EXCEPT !.value = Len(codes) + 1] \in Credible'
    BY <2>1, <1>1 DEF Answer, Credible, Replies
  <2>2. Answer("code", "error") \in Credible'
    BY DEF Answer, Credible, Replies
  <2> QED BY <2>1, <2>2, OneAnswer DEF RequestPairingCode
<1> QED BY <1>0, <1>3, <1>4, AnswerKeeps

LEMMA PairingStatusKeeps ==
  ASSUME SignInInv, NEW t \in Tasks, PairingStatus(t)
  PROVE  SignInInv'
<1> USE DEF SignInInv
<1>0. /\ tasks[t].at # "free" /\ phase' = phase /\ arrived' = arrived /\ codes' = codes
      /\ held' = held /\ config' = config /\ presented' = presented
      /\ Len(codes) \in Nat /\ tasks[t].kind = "poll" /\ tasks[t].code \in 1..Len(codes)
  BY Counted DEF PairingStatus, Calls, screen, Grounded
<1>1. codes[tasks[t].code] \in {"pending", "completed", "dead"}
  BY <1>0, ElementOfSeq DEF Ledgers
<1>2. CASE UNCHANGED <<client, logins>> /\ \E out \in {"pending", "completed", "dead", "error"} :
              Post(t, <<Answer("status", out)>>)
  <2>1. PICK out \in {"pending", "completed", "dead", "error"} : Post(t, <<Answer("status", out)>>)
    BY <1>2
  <2>2. Answer("status", out) \in Credible'
    BY DEF Answer, Credible, Replies
  <2>3. Ledgers'
    BY <1>0, <1>2 DEF Ledgers, PairingStatus, Fault, NoFault, bounds
  <2>4. <<Answer("status", out)>> \in Seq(Credible')
    BY <2>2, OneAnswer
  <2>5. logins' = logins /\ Len(codes) <= Len(codes')
    BY <1>0, <1>2
  <2> QED BY <1>0, <2>1, <2>3, <2>4, <2>5, AnswerKeeps
<1>3. CASE /\ NoFault /\ logins' = logins + 1 /\ client' = logins'
           /\ tasks' = [tasks EXCEPT ![t].at = "saving", ![t].session = logins']
           /\ UNCHANGED <<slot, channel>>
  <2>1. Ledgers'
    BY <1>0, <1>3 DEF Ledgers, NoFault, bounds
  <2>2. PICK s : s = [tasks[t] EXCEPT !.at = "saving", !.session = logins'] /\ tasks' = [tasks EXCEPT ![t] = s]
    BY <1>3
  <2>3. tasks[t] \in TaskType
    BY DEF Slots
  <2>4. /\ s \in TaskType /\ s.kind = tasks[t].kind /\ s.code = tasks[t].code
        /\ s.at = "saving" /\ s.session = logins + 1
    <3>1. logins' = logins + 1 /\ logins' \in Nat
      BY <1>3 DEF Ledgers
    <3> QED BY <2>2, <2>3, <3>1 DEF TaskType
  <2>5. Slots(slot', tasks', channel.kinds) /\ Grounded(tasks', Len(codes), logins + 1)
    <3>1. logins \in Nat /\ logins + 1 \in Nat /\ logins <= logins + 1 /\ logins + 1 \in 1..(logins + 1)
      BY DEF Ledgers
    <3> QED BY <1>0, <1>3, <2>2, <2>4, <3>1, StageKeeps
  <2>6. Shown' /\ Credible' = Credible
    BY <1>0, <1>3 DEF Shown, Credible
  <2> QED BY <1>0, <1>3, <2>1, <2>5, <2>6
<1> QED BY <1>1, <1>2, <1>3 DEF PairingStatus

LEMMA SaveConfigKeeps ==
  ASSUME SignInInv, NEW t \in Tasks, SaveConfig(t)
  PROVE  SignInInv'
<1> USE DEF SignInInv
<1>0. /\ tasks[t].at = "saving" /\ phase' = phase /\ arrived' = arrived /\ codes' = codes
      /\ logins' = logins /\ held' = held /\ client' = client /\ presented' = presented
      /\ Post(t, <<Answer("status", "completed")>>)
  BY DEF SaveConfig, screen, platform
<1>1. config' = config \/ config' \in 1..logins
  BY DEF SaveConfig, Grounded
<1>2. Ledgers' /\ Len(codes) <= Len(codes') /\ (config # 0 => config' # 0)
  BY <1>0, <1>1, Counted DEF Ledgers, SaveConfig, Fault, NoFault, bounds
<1>3. Answer("status", "completed") \in Credible'
  BY DEF Answer, Credible, Replies
<1> QED BY <1>0, <1>2, <1>3, OneAnswer, AnswerKeeps

LEMMA LoadOperatorsKeeps ==
  ASSUME SignInInv, NEW t \in Tasks, LoadOperators(t)
  PROVE  SignInInv'
<1> USE DEF SignInInv
<1>0. /\ tasks[t].at # "free" /\ phase' = phase /\ arrived' = arrived /\ codes' = codes
      /\ logins' = logins /\ held' = held /\ client' = client /\ presented' = presented
      /\ config' = config
  BY DEF LoadOperators, Calls, screen, platform, till
<1>2. Ledgers' /\ Len(codes) <= Len(codes')
  BY <1>0, Counted DEF Ledgers, LoadOperators, Fault, NoFault, bounds
<1>3. Answer("operators", "some") \in Credible' /\ Answer("operators", "error") \in Credible'
  BY DEF Answer, Credible, Replies
<1>4. \E answers \in Seq(Credible') : Post(t, answers)
  BY <1>3, OneAnswer DEF LoadOperators
<1> QED BY <1>0, <1>2, <1>4, AnswerKeeps

-----------------------------------------------------------------------------
(* The frame.                                                              *)

LEMMA SettleKeeps ==
  ASSUME SignInInv, Settle
  PROVE  SignInInv'
<1> USE DEF SignInInv
<1>1. Ledgers' /\ Shown' /\ Credible' = Credible
  BY DEF Settle, Ledgers, Shown, Credible, till, platform, bounds
<1>2. arrived' = channel.answers /\ channel' = Empty
  BY DEF Settle
<1>3. Empty \in [kinds : SUBSET Kinds, answers : Seq(Credible)] /\ Empty.kinds = {}
  BY EmptySeq DEF Empty
<1>4. Slots(slot', tasks', {}) /\ Grounded(tasks', Len(codes'), logins')
  <2>1. /\ tasks' = tasks /\ codes' = codes /\ logins' = logins
        /\ slot' = [k \in Kinds |-> IF k \in channel.kinds THEN NoTask ELSE slot[k]]
    BY DEF Settle, platform
  <2>2. slot' \in [Kinds -> Tasks \cup {NoTask}] /\ Single \subseteq Kinds
    BY <2>1 DEF Slots, Single
  <2>3. ASSUME NEW k \in Single, NEW t \in Tasks, tasks[t].kind = k, tasks[t].at # "free"
        PROVE  slot'[k] = t
    BY <2>1, <2>2, <2>3 DEF Slots
  <2>4. ASSUME NEW k \in Kinds, slot'[k] # NoTask
        PROVE  tasks[slot'[k]].at = "free" \/ tasks[slot'[k]].kind = k
    BY <2>1, <2>4 DEF Slots
  <2> QED BY <2>1, <2>2, <2>3, <2>4 DEF Slots
<1> QED BY <1>1, <1>2, <1>3, <1>4

\* What may be asked.
Asked(ask) ==
  \/ ask = Nothing
  \/ ask.kind \in Kinds /\ ask.code \in Nat /\ (ask.kind = "poll" => ask.code \in 1..Len(codes))

\* A screen that may be shown.
Honest(next) ==
  /\ next \in PhaseType /\ (next.at = "pairing" => next.code \in 1..Len(codes))
  /\ next.at = "signedin" => presented
  /\ next.at = "select" => ~held /\ config # 0

LEMMA Questions ==
  /\ Asked(Nothing)
  /\ \A k \in Kinds \ {"poll"} : Asked(Ask(k))
  /\ Ledgers => \A c \in 1..Len(codes) : Asked(AskPoll(c))
<1>1. Asked(Nothing) /\ \A k \in Kinds \ {"poll"} : Asked(Ask(k))
  BY DEF Asked, Ask
<1>2. Ledgers => \A c \in 1..Len(codes) : Asked(AskPoll(c))
  BY Counted DEF Asked, AskPoll, Kinds
<1> QED BY <1>1, <1>2

LEMMA BecomesKeeps ==
  ASSUME SignInInv, arrived # <<>>, NEW next, Honest(next), NEW ask, Asked(ask),
         Becomes(next, ask), UNCHANGED <<channel, till, platform, bounds>>
  PROVE  SignInInv'
<1> USE DEF SignInInv
<1>1. Ledgers' /\ Credible' = Credible
  BY DEF Ledgers, Credible, till, platform, bounds
<1>2. Shown'
  BY DEF Shown, Honest, Becomes, till, platform
<1>3. arrived' \in Seq(Credible) /\ channel' = channel
  BY HeadTailProperties DEF Becomes
<1>4. Slots(slot', tasks', channel.kinds) /\ Grounded(tasks', Len(codes), logins)
  <2>1. CASE Sent(Abandoned("poll"), ask)
    <3>1. /\ Slots(Abandoned("poll").slot, Abandoned("poll").tasks, channel.kinds)
          /\ Grounded(Abandoned("poll").tasks, Len(codes), logins)
      BY AbandonKeeps
    <3> QED BY <2>1, <3>1, SentKeeps DEF Asked
  <2>2. CASE Sent(Standing, ask)
    <3>1. Standing.slot = slot /\ Standing.tasks = tasks
      BY DEF Standing
    <3> QED BY <2>2, <3>1, SentKeeps DEF Asked
  <2> QED BY <2>1, <2>2 DEF Becomes
<1> QED BY <1>1, <1>2, <1>3, <1>4 DEF platform

\* What each answer leads to.
LEMMA SessionRestoredShows ==
  ASSUME SignInInv, SessionRestored
  PROVE  \E next, ask : Honest(next) /\ Asked(ask) /\ Becomes(next, ask)
<1>1. Head(arrived) \in Credible /\ Honest(phase)
  BY HeadTailProperties DEF SignInInv, SessionRestored, Reads, Shown, Honest
<1>2. Honest(Stalled) /\ (presented => Honest(SignedIn))
  BY DEF Honest, Stalled, SignedIn, Bare, PhaseType
<1> QED BY <1>1, <1>2, Questions DEF SessionRestored, Reads, Credible

LEMMA TerminalSessionOpenedShows ==
  ASSUME SignInInv, TerminalSessionOpened
  PROVE  \E next, ask : Honest(next) /\ Asked(ask) /\ Becomes(next, ask)
<1>1. Head(arrived) \in Credible /\ Honest(phase)
  BY HeadTailProperties DEF SignInInv, TerminalSessionOpened, Reads, Shown, Honest
<1>2. Honest(Stalled)
  BY DEF Honest, Stalled, Bare, PhaseType
<1>3. Head(arrived).value \in Nat
  BY <1>1 DEF Credible, Replies
<1>4. ~held /\ config # 0 => Honest(Select(Head(arrived).value))
  BY <1>3 DEF Honest, Select, Bare, PhaseType
<1>5. Asked(Nothing) /\ Asked(Ask("code")) /\ Asked(Ask("operators"))
  BY Questions DEF Kinds
<1> QED BY <1>1, <1>2, <1>4, <1>5 DEF TerminalSessionOpened, Reads, Credible

LEMMA PairingCodeRequestedShows ==
  ASSUME SignInInv, PairingCodeRequested
  PROVE  \E next, ask : Honest(next) /\ Asked(ask) /\ Becomes(next, ask)
<1>1. Head(arrived) \in Credible
  BY HeadTailProperties DEF SignInInv, PairingCodeRequested, Reads
<1>2. Honest(Stalled)
  BY DEF Honest, Stalled, Bare, PhaseType
<1>3. ASSUME Reads("code", "issued")
      PROVE  Honest(Pairing(Head(arrived).value)) /\ Asked(AskPoll(Head(arrived).value))
  <2>1. Head(arrived).value \in Nat /\ Head(arrived).value \in 1..Len(codes)
    BY <1>1, <1>3 DEF Credible, Replies, Reads
  <2>2. Asked(AskPoll(Head(arrived).value))
    BY <2>1, Questions DEF SignInInv
  <2> QED BY <2>1, <2>2 DEF Honest, Pairing, Bare, PhaseType
<1> QED BY <1>2, <1>3, Questions DEF PairingCodeRequested

LEMMA PairingStatusReadShows ==
  ASSUME SignInInv, PairingStatusRead
  PROVE  \E next, ask : Honest(next) /\ Asked(ask) /\ Becomes(next, ask)
<1>1. phase.at = "pairing" /\ phase \in PhaseType /\ phase.code \in 1..Len(codes)
  BY DEF PairingStatusRead, SignInInv, Shown
<1>2. Asked(Ask("restore")) /\ Asked(Ask("code")) /\ Asked(AskPoll(phase.code))
  BY <1>1, Questions DEF Kinds, SignInInv
<1>3. \A e \in {"undetermined", "known"} : Honest([phase EXCEPT !.enrolment = e])
  BY <1>1 DEF Honest, PhaseType
<1> QED BY <1>2, <1>3 DEF PairingStatusRead

LEMMA OtherAnswersShow ==
  ASSUME SignInInv, OperatorsLoaded \/ Ignored
  PROVE  \E next, ask : Honest(next) /\ Asked(ask) /\ Becomes(next, ask)
<1>1. Honest(phase) /\ Asked(Nothing)
  BY Questions DEF SignInInv, Shown, Honest
<1>2. Honest([phase EXCEPT !.roster = TRUE])
  BY <1>1 DEF Honest, PhaseType
<1> QED BY <1>1, <1>2 DEF OperatorsLoaded, Ignored

LEMMA FoldKeeps ==
  ASSUME SignInInv, Fold
  PROVE  SignInInv'
<1>1. PICK next, ask : Honest(next) /\ Asked(ask) /\ Becomes(next, ask)
  BY SessionRestoredShows, TerminalSessionOpenedShows, PairingCodeRequestedShows,
     PairingStatusReadShows, OtherAnswersShow DEF Fold
<1>2. arrived # <<>> /\ UNCHANGED <<channel, till, platform, bounds>>
  BY DEF Fold, SessionRestored, TerminalSessionOpened, PairingCodeRequested, PairingStatusRead,
         OperatorsLoaded, Ignored, Reads
<1> QED BY <1>1, <1>2, BecomesKeeps

\* The screen, the slots and the tasks of a till switched on.
LEMMA FirstTaskIsFit ==
  /\ Slots(FirstSlot, FirstTasks, {}) /\ \A n, l : Grounded(FirstTasks, n, l)
  /\ Splash \in PhaseType /\ Splash.at = "splash"
  /\ \A C : Empty \in [kinds : SUBSET Kinds, answers : Seq(C)] /\ <<>> \in Seq(C)
  /\ Empty.kinds = {}
<1>1. /\ Splash \in PhaseType /\ Splash.at = "splash" /\ Empty.kinds = {}
      /\ \A C : Empty \in [kinds : SUBSET Kinds, answers : Seq(C)] /\ <<>> \in Seq(C)
  BY EmptySeq DEF Splash, Bare, PhaseType, Empty
<1>2. /\ NewTask(Ask("restore")) \in TaskType /\ Free \in TaskType
      /\ NewTask(Ask("restore")).kind = "restore" /\ NewTask(Ask("restore")).at = "asleep"
      /\ Free.at = "free"
  BY DEF NewTask, Ask, Free, TaskType, Kinds
<1>3. /\ FirstTasks \in [Tasks -> TaskType] /\ FirstTasks[1] = NewTask(Ask("restore"))
      /\ \A t \in Tasks \ {1} : FirstTasks[t] = Free
  BY <1>2, NoTaskIsNone DEF FirstTasks
<1>4. /\ FirstSlot \in [Kinds -> Tasks \cup {NoTask}] /\ FirstSlot["restore"] = 1
      /\ \A k \in Kinds \ {"restore"} : FirstSlot[k] = NoTask
  BY NoTaskIsNone DEF FirstSlot, Kinds
<1>5. Slots(FirstSlot, FirstTasks, {})
  BY <1>2, <1>3, <1>4, NoTaskIsNone DEF Slots, Single
<1>6. \A n, l : Grounded(FirstTasks, n, l)
  BY <1>2, <1>3 DEF Grounded
<1> QED BY <1>1, <1>5, <1>6

LEMMA RetryKeeps ==
  ASSUME SignInInv, Retry
  PROVE  SignInInv'
<1> USE DEF SignInInv
<1>1. Ledgers' /\ Credible' = Credible
  BY DEF Retry, Ledgers, Credible, till, platform
<1>2. Shown'
  <2>1. UNCHANGED <<till, platform>> /\ phase' \in {Splash, phase}
    BY DEF Retry
  <2> QED BY <2>1, FirstTaskIsFit DEF Shown, till, platform
<1>3. PICK k \in Kinds \ {"poll"} : Sent(Standing, Ask(k))
  BY DEF Retry, Kinds
<1>4. Asked(Ask(k)) /\ Standing.slot = slot /\ Standing.tasks = tasks
  BY Questions DEF Standing
<1>5. Slots(slot', tasks', channel.kinds) /\ Grounded(tasks', Len(codes), logins)
  BY <1>3, <1>4, SentKeeps DEF Asked
<1> QED BY <1>1, <1>2, <1>5 DEF Retry, platform

-----------------------------------------------------------------------------
(* The platform, and the till switched off and on.                         *)

LEMMA CodesKeep ==
  ASSUME SignInInv, NEW c \in DOMAIN codes, Approve(c) \/ CodeDies(c)
  PROVE  SignInInv'
<1> USE DEF SignInInv
<1>1. PICK out \in {"completed", "dead"} : codes' = [codes EXCEPT ![c] = out]
  BY DEF Approve, CodeDies
<1>2. codes' \in Seq({"pending", "completed", "dead"}) /\ Len(codes') = Len(codes)
  BY <1>1, ExceptSeq, LenProperties DEF Ledgers
<1>3. UNCHANGED <<screen, driver, till, logins, retries, restarts>> /\ faults' \in {faults, faults + 1}
  BY DEF Approve, CodeDies, Fault, bounds
<1>4. Ledgers' /\ Shown' /\ Credible' = Credible
  BY <1>2, <1>3 DEF Ledgers, Shown, Credible, screen, till
<1> QED BY <1>2, <1>3, <1>4 DEF screen, driver

LEMMA RestartKeeps ==
  ASSUME SignInInv, Restart
  PROVE  SignInInv'
<1> USE DEF SignInInv
<1>1. Ledgers'
  <2>1. /\ codes' = codes /\ logins' = logins /\ config' = config /\ held' = held /\ client' = 0
        /\ retries' = retries /\ faults' = faults /\ restarts' = restarts + 1 /\ presented' = FALSE
    BY DEF Restart, platform
  <2>2. held' \in BOOLEAN /\ presented' \in BOOLEAN /\ (presented' => held')
    BY <2>1 DEF Ledgers
  <2> QED BY <2>1, <2>2, Counted DEF Ledgers
<1>2. Shown'
  BY FirstTaskIsFit DEF Restart, Shown
<1>3. /\ Slots(slot', tasks', channel'.kinds) /\ Grounded(tasks', Len(codes'), logins')
      /\ channel' \in [kinds : SUBSET Kinds, answers : Seq(Credible')] /\ arrived' \in Seq(Credible')
  BY FirstTaskIsFit DEF Restart
<1> QED BY <1>1, <1>2, <1>3

LEMMA SignInStarts == Init => SignInInv
<1> SUFFICES ASSUME Init PROVE SignInInv
  OBVIOUS
<1>1. Ledgers
  <2>1. codes \in Seq({"pending", "completed", "dead"})
    BY EmptySeq DEF Init
  <2>2. /\ logins \in Nat /\ client \in 0..logins /\ config \in 0..logins
        /\ retries \in Nat /\ faults \in Nat /\ restarts \in Nat
    BY DEF Init
  <2>3. held \in BOOLEAN /\ presented \in BOOLEAN /\ (presented => held)
    BY DEF Init
  <2> QED BY <2>1, <2>2, <2>3 DEF Ledgers
<1>2. Shown
  BY FirstTaskIsFit DEF Init, Shown
<1>3. /\ Slots(slot, tasks, channel.kinds) /\ Grounded(tasks, Len(codes), logins)
      /\ channel \in [kinds : SUBSET Kinds, answers : Seq(Credible)] /\ arrived \in Seq(Credible)
  BY FirstTaskIsFit DEF Init
<1> QED BY <1>1, <1>2, <1>3 DEF SignInInv

LEMMA SignInSteps == SignInInv /\ [Next]_vars => SignInInv'
<1> SUFFICES ASSUME SignInInv, [Next]_vars PROVE SignInInv'
  OBVIOUS
<1>1. ASSUME NEW t \in Tasks, TaskStep(t) PROVE SignInInv'
  BY <1>1, StartsKeeps, RestoreSessionKeeps, RequestPairingCodeKeeps, PairingStatusKeeps,
     SaveConfigKeeps, LoadOperatorsKeeps DEF TaskStep
<1>2. CASE UNCHANGED vars
  BY <1>2 DEF vars, screen, driver, till, platform, bounds, SignInInv, Ledgers, Shown, Credible
<1> QED BY <1>1, <1>2, SettleKeeps, FoldKeeps, RetryKeeps, RestartKeeps, CodesKeep DEF Next

-----------------------------------------------------------------------------
(* The theorems.                                                           *)

LEMMA SignInIsKept == Spec => []SignInInv
  BY SignInStarts, SignInSteps, PTL DEF Spec

\* The types of the screen, the driver, the channel and the ledgers.
THEOREM SignInTypes == Spec => []TypeOK
<1>1. SignInInv => TypeOK
  <2> SUFFICES ASSUME SignInInv PROVE TypeOK
    OBVIOUS
  <2>1. Credible \subseteq Replies
    BY DEF Credible
  <2>2. channel \in [kinds : SUBSET Kinds, answers : Seq(Replies)] /\ arrived \in Seq(Replies)
    BY <2>1, SeqMonotonic DEF SignInInv
  <2> QED BY <2>2 DEF SignInInv, Ledgers, Shown, Slots, TypeOK
<1> QED BY <1>1, SignInIsKept, PTL

\* For any number of tasks, retries, faults and restarts the driver runs at
\* most one restore, one request for a code and one load of the operators: a
\* task of a kind is the one its slot names, until its delivery is settled.
THEOREM SignInFliesSingly == Spec => []SingleFlight
<1>1. SignInInv => SingleFlight
  <2> SUFFICES ASSUME SignInInv, NEW k \in Kinds \ {"poll"} PROVE Cardinality(Running(k)) <= 1
    BY DEF SingleFlight
  <2>1. Running(k) \subseteq {slot[k]}
    BY DEF Running, SignInInv, Slots, Single
  <2>2. IsFiniteSet({slot[k]}) /\ Cardinality({slot[k]}) = 1
    BY FS_Singleton
  <2>3. Cardinality(Running(k)) <= Cardinality({slot[k]})
    BY <2>1, <2>2, FS_Subset
  <2> QED BY <2>2, <2>3
<1> QED BY <1>1, SignInIsKept, PTL

\* Whatever answers were under way when the phase changed, the screen says
\* signed in only when an operator is presented, and asks who is there only
\* when nobody is and a terminal session is stored.
THEOREM SignInTellsTheTruth == Spec => []ScreenTellsTheTruth
<1>1. SignInInv => ScreenTellsTheTruth
  BY DEF SignInInv, Shown, Ledgers, ScreenTellsTheTruth
<1> QED BY <1>1, SignInIsKept, PTL
=============================================================================
