----------------------------- MODULE Enrolment -----------------------------
(***************************************************************************)
(* Which company a till belongs to, and what it keeps of it: the hardware  *)
(* id it enrols under, the registration a completed pairing saves, the     *)
(* platform's licence, and the wipe that is to leave nothing behind.  The  *)
(* wipe is one statement after the other, each committed on its own, some  *)
(* refused by a foreign key, the connection locked from the first to the   *)
(* last; a synchronisation, a licence request and the login of a pairing   *)
(* may be awaiting their answers beside it, and the till may be killed at  *)
(* any point of it.                                                        *)
(***************************************************************************)
EXTENDS Integers, Sequences, FiniteSets

CONSTANTS
  Askers,      \* threads that call get_hardware_id
  Companies,   \* the companies a till may be paired with
  NoCompany,
  MaxChanges   \* bound on pairings, calls, sales, failed reads, wipes and kills

ASSUME EnrolmentAssumption == NoCompany \notin Companies /\ MaxChanges \in Nat

VARIABLES
  hardware,    \* terminal_registration.hardware_id, 0 for none
  askers,      \* the id each caller of get_hardware_id is about to save, 0 for none
  enrolled,    \* hardware ids presented to the platform
  registered,  \* the company registered with, or NoCompany
  license,     \* the company whose license_key is stored, or NoCompany
  licensing,   \* the company a registration with the platform is under way for
  pairing,     \* how far check_pairing_status has come after each company's approval
  syncing,     \* the company a synchronisation awaits rows of
  rows,        \* each tenant table: the companies it holds rows of
  session,     \* the company the client's terminal session is with, or NoCompany
  wiping,      \* the next statement of the wipe, 0 when none runs
  enrolGaps,   \* history: what excuses the properties
  changes

enrolVars == <<hardware, askers, enrolled, registered, license, licensing, pairing, syncing, rows,
               session, wiping, enrolGaps, changes>>
ids       == <<hardware, askers, enrolled>>
calls     == <<licensing, pairing, syncing>>

\* The order of clear_tenant_data; "products" stands for the other catalogue
\* and cache tables, which nothing refers to.  It does not name the operator
\* session's.
WipeOrder == <<"products", "operators", "drafts", "shifts", "offline_transactions", "terminal_config">>
Wiped     == {WipeOrder[i] : i \in 1..Len(WipeOrder)}
Tables    == Wiped \cup {"operator_sessions"}
Change    == changes < MaxChanges /\ changes' = changes + 1
NoChange  == UNCHANGED changes
Gap(e)    == enrolGaps' = enrolGaps \cup e

\* The connection's lock, held by the statements of the wipe.
Unlocked  == wiping \notin 1..Len(WipeOrder)

-----------------------------------------------------------------------------
(* The hardware id.                                                        *)

UseId(id)   == enrolled' = enrolled \cup {id}
Pending     == {askers[k] : k \in Askers} \ {0}
GeneratedId == 1 + Cardinality(enrolled \cup Pending)

\* get_hardware_id: the stored one; none stored, one is generated after the
\* lock is let go, and saved under it again.
AskId(k) ==
  /\ askers[k] = 0 /\ Unlocked /\ NoChange
  /\ \/ hardware # 0 /\ UseId(hardware) /\ UNCHANGED <<askers, enrolGaps>>
     \/ /\ hardware = 0 /\ askers' = [askers EXCEPT ![k] = GeneratedId]
        /\ UNCHANGED enrolled
        /\ Gap(IF Pending = {} THEN {} ELSE {"generated-twice"})
  /\ UNCHANGED <<hardware, registered, license, calls, rows, session, wiping>>

SlipGenerates(k) ==
  /\ askers[k] = 0 /\ Change /\ askers' = [askers EXCEPT ![k] = GeneratedId]
  /\ UNCHANGED <<hardware, enrolled, registered, license, calls, rows, session, wiping, enrolGaps>>

\* A row that cannot be read is refused, not replaced.
ReadFails(k) ==
  /\ askers[k] = 0 /\ Unlocked /\ Change
  /\ UNCHANGED <<ids, registered, license, calls, rows, session, wiping, enrolGaps>>

SaveId(k) ==
  /\ askers[k] # 0 /\ Unlocked /\ hardware' = askers[k] /\ UseId(askers[k])
  /\ askers' = [askers EXCEPT ![k] = 0]
  /\ UNCHANGED <<registered, license, calls, rows, session, wiping, enrolGaps>> /\ NoChange

-----------------------------------------------------------------------------
(* A company.                                                              *)

Pairs(c, stage) == pairing' = [pairing EXCEPT ![c] = stage]

\* check_pairing_status, answered that a pairing is completed: save_registration;
\* then the login with its await, unless no secret came -
PairingCompletes(c) ==
  /\ hardware # 0 /\ pairing[c] = "none" /\ Unlocked /\ Change /\ registered' = c
  /\ Pairs(c, "login") \/ UNCHANGED pairing
  /\ Gap(IF registered \in {NoCompany, c} THEN {} ELSE {"re-paired"})
  /\ UNCHANGED <<ids, license, licensing, syncing, rows, session, wiping>>

\* - which gives the client its session, or fails and is only logged -
LoginAnswered(c) ==
  /\ pairing[c] = "login" /\ NoChange
  /\ \/ /\ Pairs(c, "config") /\ session' = c
        /\ Gap(IF registered = c THEN {} ELSE {"paired-beside"})
     \/ Pairs(c, "none") /\ UNCHANGED <<session, enrolGaps>>
  /\ UNCHANGED <<ids, registered, license, licensing, syncing, rows, wiping>>

\* - and save_terminal_config, whose failure is only logged too.
SaveConfig(c) ==
  /\ pairing[c] = "config" /\ Unlocked /\ NoChange /\ Pairs(c, "none")
  /\ \/ /\ rows' = [rows EXCEPT !["terminal_config"] = {c}]
        /\ Gap(IF registered = c /\ wiping = 0 THEN {} ELSE {"paired-beside"})
     \/ UNCHANGED <<rows, enrolGaps>>
  /\ UNCHANGED <<ids, registered, license, licensing, syncing, session, wiping>>

\* A synchronisation asks with the client's session -
AskRows ==
  /\ syncing = NoCompany /\ session # NoCompany /\ syncing' = session /\ Change
  /\ UNCHANGED <<ids, registered, license, licensing, pairing, rows, session, wiping, enrolGaps>>

\* - and fills the tables with what it is answered, whatever has become of it.
SaveRows ==
  /\ syncing # NoCompany /\ Unlocked /\ syncing' = NoCompany /\ NoChange
  /\ \/ /\ rows' = [t \in Tables |-> IF t \in {"products", "operators"} THEN rows[t] \cup {syncing} ELSE rows[t]]
        /\ Gap(IF wiping # 0 \/ syncing # registered THEN {"synchronised-beside"} ELSE {})
     \/ UNCHANGED <<rows, enrolGaps>>
  /\ UNCHANGED <<ids, registered, license, licensing, pairing, session, wiping>>

\* A day's work: a shift, a sale under it, a draft.
Work(t) ==
  /\ Unlocked /\ registered # NoCompany /\ registered \in rows["operators"] /\ Change
  /\ \/ t \in {"drafts", "shifts"}
     \/ t = "offline_transactions" /\ registered \in rows["shifts"]
  /\ rows' = [rows EXCEPT ![t] = @ \cup {registered}]
  /\ UNCHANGED <<ids, registered, license, calls, session, wiping, enrolGaps>>

\* OperatorSignIn: the one row of the cashier's session, which the platform minted
\* for the company of the client's; signing out, or a refusal, deletes it.
SignsIn ==
  /\ Unlocked /\ Change
  /\ \E holders \in {{}} \cup {{c} : c \in {session} \ {NoCompany}} :
       rows' = [rows EXCEPT !["operator_sessions"] = holders]
  /\ UNCHANGED <<ids, registered, license, calls, session, wiping, enrolGaps>>

\* register_with_platform, with its await.
AskLicense ==
  /\ hardware # 0 /\ licensing = NoCompany /\ registered # NoCompany /\ Unlocked /\ licensing' = registered
  /\ UNCHANGED <<ids, registered, license, pairing, syncing, rows, session, wiping, enrolGaps>> /\ Change

\* save_platform_license stores the answer in whatever registration there is.
SaveLicense ==
  /\ licensing # NoCompany /\ Unlocked /\ license' = licensing /\ licensing' = NoCompany
  /\ Gap(IF registered = licensing THEN {} ELSE {"late-licence"})
  /\ UNCHANGED <<ids, registered, pairing, syncing, rows, session, wiping>> /\ NoChange

-----------------------------------------------------------------------------
(* clear_registration.                                                     *)

BeginWipe ==
  /\ wiping = 0 /\ registered # NoCompany /\ Change /\ wiping' = 1
  /\ UNCHANGED <<ids, registered, license, calls, rows, session, enrolGaps>>

\* PRAGMA foreign_keys is ON: shifts, drafts and sales refer to operators, and
\* sales to shifts.
Referenced(t) ==
  \/ t = "operators" /\ \E u \in {"drafts", "shifts", "offline_transactions"} : rows[u] # {}
  \/ t = "shifts" /\ rows["offline_transactions"] # {}

\* A refused statement ends the wipe with an error, the registration standing.
DeleteRows ==
  /\ wiping \in 1..Len(WipeOrder) /\ NoChange
  /\ LET t == WipeOrder[wiping] IN
     IF Referenced(t) THEN wiping' = 0 /\ UNCHANGED rows
     ELSE rows' = [rows EXCEPT ![t] = {}] /\ wiping' = wiping + 1
  /\ UNCHANGED <<ids, registered, license, calls, session, enrolGaps>>

SlipKeepsTheLicense ==
  /\ wiping = Len(WipeOrder) + 1 /\ NoChange
  /\ registered' = NoCompany /\ wiping' = wiping + 1
  /\ UNCHANGED <<ids, license, calls, rows, session, enrolGaps>>

SlipClearsItFirst ==
  /\ wiping = 1 /\ NoChange /\ registered' = NoCompany /\ license' = NoCompany
  /\ UNCHANGED <<ids, calls, rows, session, wiping, enrolGaps>>

\* The registration row comes last, and every column of the enrolment with it.
ClearRegistration ==
  /\ wiping = Len(WipeOrder) + 1 /\ NoChange
  /\ registered' = NoCompany /\ license' = NoCompany /\ wiping' = wiping + 1
  /\ UNCHANGED <<ids, calls, rows, session, enrolGaps>>

\* clear_api_credentials, the caller's next call.
ClearCredentials ==
  /\ wiping = Len(WipeOrder) + 2 /\ NoChange /\ session' = NoCompany /\ wiping' = 0
  /\ UNCHANGED <<ids, registered, license, calls, rows, enrolGaps>>

\* Killed and started again: the session comes back from terminal_config.
Reboot ==
  /\ Change /\ wiping' = 0 /\ licensing' = NoCompany /\ syncing' = NoCompany
  /\ pairing' = [c \in Companies |-> "none"] /\ askers' = [k \in Askers |-> 0]
  /\ \E c \in IF rows["terminal_config"] = {} THEN {NoCompany} ELSE rows["terminal_config"] : session' = c
  /\ UNCHANGED <<hardware, enrolled, registered, license, rows, enrolGaps>>

EnrolInit ==
  /\ hardware = 0 /\ askers = [k \in Askers |-> 0] /\ enrolled = {}
  /\ registered = NoCompany /\ license = NoCompany /\ licensing = NoCompany
  /\ pairing = [c \in Companies |-> "none"] /\ syncing = NoCompany
  /\ rows = [t \in Tables |-> {}] /\ session = NoCompany /\ wiping = 0 /\ enrolGaps = {} /\ changes = 0

EnrolNext ==
  \/ \E k \in Askers : AskId(k) \/ ReadFails(k) \/ SaveId(k)
  \/ \E c \in Companies : PairingCompletes(c) \/ LoginAnswered(c) \/ SaveConfig(c)
  \/ \E t \in Tables : Work(t)
  \/ AskRows \/ SaveRows \/ SignsIn \/ AskLicense \/ SaveLicense \/ BeginWipe \/ DeleteRows
  \/ ClearRegistration \/ ClearCredentials \/ Reboot

EnrolSpec == EnrolInit /\ [][EnrolNext]_enrolVars

-----------------------------------------------------------------------------
\* What a till keeps is its own company's, in the tables the wipe names and in
\* the session its client presents: a wipe that was refused or killed half way
\* leaves it registered where its data belongs, one that finished leaves none.
\* The gaps: pairing anew without a wipe; an answer to a synchronisation, or to
\* the login of a pairing, that comes while one runs or after it.
NoTenantLeftBehind ==
  enrolGaps \cap {"re-paired", "synchronised-beside", "paired-beside"} = {} =>
    /\ \A t \in Wiped : rows[t] \subseteq {registered}
    /\ wiping <= Len(WipeOrder) + 1 => session \in {NoCompany, registered}

\* The wipe leaves no data of a former company in any table.
NothingLeftBehind == enrolGaps = {} /\ registered = NoCompany => \A t \in Tables : rows[t] = {}

\* The platform's licence is the one of the company the till is registered with.
\* The gaps: pairing anew, and an answer that comes for a company it has left.
LicenseIsOurs ==
  registered # NoCompany /\ enrolGaps \cap {"re-paired", "late-licence"} = {} =>
    license \in {NoCompany, registered}

\* A device presents itself under one hardware id for good, unless two calls
\* both found none and generated one each.
OneIdentity == "generated-twice" \notin enrolGaps => \A i, j \in enrolled : i = j /\ i = hardware

\* A till belongs to one company, under one identity, with that company's data,
\* but for the gaps named and the operator's session.
EnrolmentIsClean == NoTenantLeftBehind /\ LicenseIsOurs /\ OneIdentity
=============================================================================
