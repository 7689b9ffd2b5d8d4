-------------------------- MODULE SecurityPolicies --------------------------
(***************************************************************************)
(* The security policies a till holds: refreshes of the whole set under an *)
(* ETag, run by the start-up thread and by the platform's commands at the  *)
(* same time, and the verdicts and readings given from what is held.       *)
(*                                                                         *)
(* One policy code stands for all; a published version may omit it.  A     *)
(* value is what JSON can carry of it: a shape and small numbers, those of *)
(* a range in halves - a bound is a Decimal and need not be whole.         *)
(***************************************************************************)
EXTENDS Integers, Sequences

CONSTANTS
  Refreshers,   \* threads that call refresh
  MaxVersions,  \* bound on versions the platform publishes
  MaxRefreshes  \* bound on refreshes, and on the ones that fail

ASSUME PolicyAssumption == MaxVersions \in Nat \ {0} /\ MaxRefreshes \in Nat

VARIABLES
  published,  \* platform: its documents, one per version
  held,       \* HeldPolicies: NeverLoaded, else the version it is read from
  policy,     \*   and the policy as it was read
  hash,       \* version_hash, 0 for None
  refreshers,
  crossed,    \* history: two refreshes stored between each other's two writes
  refreshes

policyVars == <<published, held, policy, hash, refreshers, crossed, refreshes>>

Types     == {"BOOLEAN", "ENUM", "RANGE", "LIST", "REGEX", "unrecognised"}
Modes     == {"DISABLED", "WARN", "BLOCK", "AUDIT", "unrecognised"}
\* Minimum, maximum and perhaps a default; the bounds or the default out of order.
SoundBounds  == {<<2, 4>>, <<3, 5>>, <<-2, 4>>, <<2, 6, 4>>, <<2, 12, 12>>}
BrokenBounds == {<<4, 2>>, <<2, 4, 6>>}
Raws      == [shape : {"bool"}, body : {<<0>>, <<1>>}] \cup [shape : {"string"}, body : {<<>>, <<2>>}]
             \cup [shape : {"list"}, body : {<<>>, <<1, 2>>}] \cup [shape : {"junk"}, body : {<<>>}]
             \cup [shape : {"bounds"}, body : SoundBounds \cup BrokenBounds]
Omitted   == [mode |-> "DISABLED", type |-> "omitted", raw |-> [shape |-> "junk", body |-> <<>>]]
Documents == [mode : Modes, type : Types, raw : Raws] \cup {Omitted}
Revisions == {d \in Documents : d.mode = "BLOCK" /\ d.type = "RANGE" /\ Len(d.raw.body) = 3}
Subjects  == 1..5
Questions == {"BOOLEAN", "RANGE", "LIST", "ENUM"}
PolicyResults == {"allow", "block", "warn", "audit", "not-evaluable"}
LargestWhole  == 4   \* stands for u32::MAX
Configured(n) == [is |-> "configured", figure |-> n]
NotConfigured == [is |-> "not-configured", figure |-> 0]
NotEvaluable  == [is |-> "not-evaluable", figure |-> 0]
Readings  == {NotConfigured, NotEvaluable} \cup {Configured(n) : n \in 0..LargestWhole}
NeverLoaded == 0
Elements(s) == {s[i] : i \in 1..Len(s)}

-----------------------------------------------------------------------------
(* Reading a value, and a verdict on it.                                   *)

SlipTakesAnyDefault(body) == body[1] <= body[2]

\* RangeBounds::new: the bounds in order, and the default between them.
Ordered(body) == body[1] <= body[2] /\ (Len(body) = 3 => body[3] \in body[1]..body[2])

\* PolicyValue::from_declared, reading a value against its declared type.
FromDeclared(doc) ==
  LET fits == \/ doc.type = "BOOLEAN" /\ doc.raw.shape = "bool"
              \/ doc.type \in {"ENUM", "REGEX"} /\ doc.raw.shape = "string"
              \/ doc.type = "LIST" /\ doc.raw.shape = "list"
              \/ doc.type = "RANGE" /\ doc.raw.shape = "bounds" /\ Ordered(doc.raw.body)
  IN [mode |-> doc.mode, body |-> doc.raw.body,
      kind |-> IF doc.type \in {"unrecognised", "omitted"} \/ fits THEN doc.type ELSE "malformed"]

SlipTreatsUnknownAsAbsent(mode) ==
  CASE mode = "WARN" -> "warn" [] mode = "AUDIT" -> "audit" [] mode = "BLOCK" -> "block" [] OTHER -> "allow"

ApplyEnforcement(mode) ==
  CASE mode = "WARN" -> "warn" [] mode = "AUDIT" -> "audit" [] mode = "BLOCK" -> "block"
    [] mode = "DISABLED" -> "allow" [] OTHER -> "not-evaluable"

Satisfied(p, subject) ==
  CASE p.kind = "BOOLEAN" -> p.body = <<0>>
    [] p.kind = "RANGE"   -> subject \in p.body[1]..p.body[2]
    [] p.kind = "LIST"    -> p.body = <<>> \/ subject \in Elements(p.body)
    [] p.kind = "ENUM"    -> p.body = <<>> \/ p.body[1] = subject

\* check_boolean, check_range, check_list, check_enum: one question each.
Verdict(question, subject) ==
  CASE held = NeverLoaded -> "not-evaluable"
    [] held # NeverLoaded /\ (policy.kind = "omitted" \/ policy.mode = "DISABLED") -> "allow"
    [] held # NeverLoaded /\ policy.kind # "omitted" /\ policy.mode # "DISABLED" ->
         IF policy.kind # question THEN "not-evaluable"
         ELSE IF Satisfied(policy, subject) THEN "allow" ELSE ApplyEnforcement(policy.mode)

\* configured_range: the default of a range or its minimum, whatever the mode,
\* unless the platform configured none or it cannot be told.
ConfiguredRange ==
  IF held = NeverLoaded THEN NotEvaluable
  ELSE IF policy.kind = "omitted" THEN NotConfigured
  ELSE IF policy.kind # "RANGE" THEN NotEvaluable
  ELSE Configured(policy.body[IF Len(policy.body) = 3 THEN 3 ELSE 1])

SlipSaturates(figure) == IF figure < 0 THEN Configured(0) ELSE Configured(figure \div 2)

\* Decimal::to_u32: refused if negative or too large, else its fraction is dropped.
Narrowed(figure) ==
  IF figure < 0 \/ figure \div 2 > LargestWhole THEN NotEvaluable ELSE Configured(figure \div 2)

\* configured_whole_number: the counts of minutes, seconds and days, the PIN length.
Reading == IF ConfiguredRange.is = "configured" THEN Narrowed(ConfiguredRange.figure) ELSE ConfiguredRange

-----------------------------------------------------------------------------
(* PolicyService::refresh, with its await and its two locks.               *)

Refreshing(r, stage)  == refreshers[r].at = stage
AtRest                == [at |-> "idle", etag |-> 0, version |-> 0]
Rests(r)              == refreshers' = [refreshers EXCEPT ![r] = AtRest]
RefresherAt(r, stage) == refreshers' = [refreshers EXCEPT ![r].at = stage]
Between               == {r \in Refreshers : Refreshing(r, "stamping")}

\* The start-up thread and each RefreshPolicies command call refresh.
MayRefresh(r) == Refreshing(r, "idle") /\ refreshes < MaxRefreshes

Ask(r) ==
  /\ MayRefresh(r) /\ refreshes' = refreshes + 1
  /\ refreshers' = [refreshers EXCEPT ![r] = [at |-> "asked", etag |-> hash, version |-> 0]]
  /\ UNCHANGED <<published, held, policy, hash, crossed>>

\* The platform answers with its latest version, or 304 to the one it is told.
Answer(r) ==
  /\ Refreshing(r, "asked")
  /\ LET latest == Len(published) IN
     IF refreshers[r].etag = latest THEN Rests(r)
     ELSE refreshers' = [refreshers EXCEPT ![r] = [AtRest EXCEPT !.at = "storing", !.version = latest]]
  /\ UNCHANGED <<published, held, policy, hash, crossed, refreshes>>

FailToFetch(r) ==
  /\ Refreshing(r, "asked") /\ Rests(r)
  /\ UNCHANGED <<published, held, policy, hash, crossed, refreshes>>

SlipDropsTheWholeResponse(r) ==
  LET doc == published[refreshers[r].version] IN
  /\ Refreshing(r, "storing") /\ RefresherAt(r, "stamping")
  /\ IF FromDeclared(doc).kind = "malformed" THEN UNCHANGED <<held, policy>>
     ELSE held' = refreshers[r].version /\ policy' = FromDeclared(doc)
  /\ crossed' = (crossed \/ Between # {})
  /\ UNCHANGED <<published, hash, refreshes>>

\* update_policies, first the policies, malformed ones among them -
Store(r) ==
  /\ Refreshing(r, "storing") /\ RefresherAt(r, "stamping")
  /\ held' = refreshers[r].version /\ policy' = FromDeclared(published[refreshers[r].version])
  /\ crossed' = (crossed \/ Between # {})
  /\ UNCHANGED <<published, hash, refreshes>>

\* - then the hash, under a lock of its own.
Stamp(r) ==
  /\ Refreshing(r, "stamping") /\ Rests(r) /\ hash' = refreshers[r].version
  /\ UNCHANGED <<published, held, policy, crossed, refreshes>>

Publish ==
  /\ Len(published) < MaxVersions /\ \E doc \in Revisions : published' = Append(published, doc)
  /\ UNCHANGED <<held, policy, hash, refreshers, crossed, refreshes>>

PolicyInit ==
  /\ published \in {<<doc>> : doc \in Documents}
  /\ held = NeverLoaded /\ policy = FromDeclared(Omitted) /\ hash = 0 /\ crossed = FALSE /\ refreshes = 0
  /\ refreshers = [r \in Refreshers |-> AtRest]

PolicyNext ==
  Publish \/ \E r \in Refreshers : Ask(r) \/ Answer(r) \/ FailToFetch(r) \/ Store(r) \/ Stamp(r)

PolicySpec == PolicyInit /\ [][PolicyNext]_policyVars

-----------------------------------------------------------------------------
\* Types; a count is read from sound bounds, and from their minimum only if that
\* is not negative.  It is within them, but that a fraction is dropped: a minimum
\* of 1.5 is read as 1.
PolicyTypeOK ==
  /\ held \in 0..Len(published) /\ hash \in 0..Len(published)
  /\ \A r \in Refreshers : refreshers[r].at \in {"idle", "asked", "storing", "stamping"}
  /\ Reading \in Readings
  /\ Reading.is = "configured" =>
       LET body == published[held].raw.body IN
       /\ body \in SoundBounds /\ (body[1] < 0 => Len(body) = 3)
       /\ body[1] <= 2 * Reading.figure + 1 /\ 2 * Reading.figure <= body[2]

\* What the platform's document permits, said from the document alone: it is in
\* force only when its type, its value and its mode can all be understood.
Permits(doc, question, subject) ==
  \/ doc = Omitted \/ doc.mode = "DISABLED"
  \/ /\ doc.type = question
     /\ \/ question = "BOOLEAN" /\ doc.raw = [shape |-> "bool", body |-> <<0>>]
        \/ question = "ENUM" /\ doc.raw.shape = "string" /\ Elements(doc.raw.body) \subseteq {subject}
        \/ question = "LIST" /\ doc.raw.shape = "list"
           /\ (doc.raw.body # <<>> => subject \in Elements(doc.raw.body))
        \/ question = "RANGE" /\ doc.raw.body \in SoundBounds
           /\ doc.raw.shape = "bounds" /\ doc.raw.body[1] <= subject /\ subject <= doc.raw.body[2]

\* A till that holds no policies, or one it cannot read, permits nothing by it:
\* a verdict allows only what the published document permits, and softens a
\* violation to a warning only where the document says so.
AllowsOnlyThePermitted ==
  \A question \in Questions, subject \in Subjects :
    LET verdict == Verdict(question, subject) IN
    /\ verdict \in PolicyResults
    /\ verdict = "allow" => held # NeverLoaded /\ Permits(published[held], question, subject)
    /\ verdict = "warn" => published[held].mode = "WARN"
    /\ verdict = "audit" => published[held].mode = "AUDIT"

\* Between refreshes the hash names the policies held, so that a 304 means the
\* latest are in force - except where two refreshes crossed.
HashNamesTheHeld ==
  (\A r \in Refreshers : ~Refreshing(r, "stamping")) /\ ~crossed => hash = held

\* The policies in force are the published ones, read for what they say but for
\* the fraction of a count, under a hash that names them unless refreshes crossed.
PoliciesAreHeld == PolicyTypeOK /\ AllowsOnlyThePermitted /\ HashNamesTheHeld
=============================================================================
