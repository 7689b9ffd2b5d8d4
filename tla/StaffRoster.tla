---------------------------- MODULE StaffRoster ----------------------------
(***************************************************************************)
(* The operators of a till: the platform's profiles, the table they are    *)
(* synchronised into, the roster the sign-in screen reads from it, and the *)
(* operator a verified PIN seats.  sync_operators converts the whole list  *)
(* before it writes, then switches every operator off and saves the list,  *)
(* in two transactions; two synchronisations may run at once.              *)
(***************************************************************************)
EXTENDS Integers, FiniteSets

CONSTANTS
  Staff,         \* operators
  Nobody,
  Rounds,        \* callers that may run sync_operators
  MaxEditions    \* bound on editions of the platform's list

ASSUME StaffAssumption == Nobody \notin Staff /\ MaxEditions \in Nat \ {0}

VARIABLES
  profiles, edition,  \* platform: what it says of each operator, and its version
  staff,     \* table operators
  tag,       \* sync_state.etag of the operators
  round,     \* each synchronisation: where it is, the tag it read, the list it was given
  roster,    \* the operators the screen was given, or that reading them failed
  seated,    \* the operator signed in at the screen, and the profile that was read
  told,      \* what a PIN without the platform was answered, if the last step was one
  saved,     \* history: the list saved last
  ours,      \* history: this version of the till saved it
  torn,      \* history: the table was switched off and no list saved since
  crossed,   \* history: that happened while another list was being saved
  left       \* history: operators the platform had inactive or out of its list

staffPlatform == <<profiles, edition>>
staffHistory  == <<saved, ours, torn, crossed, left>>
screenVars    == <<roster, seated>>
staffVars     == <<staffPlatform, staff, tag, round, screenVars, told, staffHistory>>

-----------------------------------------------------------------------------
(* A profile on the wire, as a row, and as what the operator may do.       *)

Privileges == {"canVoid"}                  \* of the six, all alike; the wire may name others
Ceilings   == {20, 150}                    \* maxDiscountPercent; the contract ends at 100
Wires      == {w \in [keys : {{}, {"canVoid", "canComp"}}, canDiscount : BOOLEAN, ceiling : Ceilings] :
                 IF w.keys = {} THEN w.canDiscount /\ w.ceiling = 150 ELSE w.ceiling = 20}
RoleNames  == {"CASHIER", "OWNER"}         \* the enum's three are alike, a fourth is not known
KnownRoles == {"CASHIER"}
Holding(profile) == profile.listed /\ profile.active
\* An absent object is the empty one: whatever is not said is denied.
NoWire  == [keys |-> {}, canDiscount |-> FALSE, ceiling |-> 0]
Hired   == [listed |-> TRUE, active |-> TRUE, role |-> "CASHIER", name |-> "named", permissions |-> NoWire]
Edits(p) == {[p EXCEPT !.listed = ~@]} \cup
            IF p.listed THEN {[p EXCEPT !.active = ~@]}
                             \cup {[p EXCEPT !.role = r] : r \in RoleNames}
                             \cup {[p EXCEPT !.name = n] : n \in {"named", "blank"}}
                             \cup {[p EXCEPT !.permissions = w] : w \in Wires}
            ELSE {}

SlipTrustsTheCeiling(w) == [may |-> w.keys \cap Privileges, upTo |-> w.ceiling]
SlipGrantsTheUnknown(w) ==
  [may |-> w.keys, upTo |-> IF w.canDiscount /\ w.ceiling > 0 THEN w.ceiling ELSE 0]
Permissions(w) ==
  [may |-> w.keys \cap Privileges, upTo |-> IF w.canDiscount /\ w.ceiling > 0 THEN w.ceiling ELSE 0]
PermissionsWire(p) == [keys |-> p.may, canDiscount |-> p.upTo # 0, ceiling |-> p.upTo]

\* serde takes a profile only with a known role and a ceiling within the contract.
Deserializes(p) == p.role \in KnownRoles /\ Permissions(p.permissions).upTo <= 100
SlipTakesTheBlank(p) == Deserializes(p)
Converts(p) == Deserializes(p) /\ p.name # "blank"
Row(p) == [active |-> p.active, role |-> p.role, name |-> p.name,
           permissions |-> PermissionsWire(Permissions(p.permissions))]
NoOperator  == [active |-> FALSE, role |-> "none", name |-> "none", permissions |-> NoWire]
Reads(r) == r.name # "blank"

-----------------------------------------------------------------------------
Stage(c, at) == round[c].at = at
Untold == [what |-> "none", by |-> Nobody, torn |-> FALSE]
NoRound      == [at |-> "idle", tag |-> 0, edition |-> 0, list |-> [o \in Staff |-> Hired]]
Moves(c, at) == round' = [round EXCEPT ![c].at = at]
Finishes(c)  == round' = [round EXCEPT ![c] = NoRound]

Revise ==
  /\ edition < MaxEditions /\ edition' = edition + 1
  /\ \E o \in Staff : \E p \in Edits(profiles[o]) \ {profiles[o]} : profiles' = [profiles EXCEPT ![o] = p]
  /\ left' = left \cup {o \in Staff : ~Holding(profiles'[o])}
  /\ told' = Untold /\ UNCHANGED <<staff, tag, round, screenVars, saved, ours, torn, crossed>>

\* sync_operators reads the tag it asks with,
AskRoster(c) ==
  /\ Stage(c, "idle")
  /\ round' = [round EXCEPT ![c].at = "asked", ![c].tag = tag]
  /\ told' = Untold /\ UNCHANGED <<staffPlatform, staff, tag, screenVars, staffHistory>>

\* is answered that nothing changed, or a list: one profile it cannot read or
\* convert and nothing is written;
HearRoster(c) ==
  /\ Stage(c, "asked")
  /\ IF round[c].tag # edition /\ \A o \in Staff : profiles[o].listed => Converts(profiles[o])
     THEN round' = [round EXCEPT ![c] = [NoRound EXCEPT !.at = "off", !.edition = edition, !.list = profiles]]
     ELSE Finishes(c)
  /\ told' = Untold /\ UNCHANGED <<staffPlatform, staff, tag, screenVars, staffHistory>>

\* switches every operator off,
SlipKeepsTheOld(c) ==
  /\ Stage(c, "off") /\ Moves(c, "save")
  /\ told' = Untold /\ UNCHANGED <<staffPlatform, staff, tag, screenVars, staffHistory>>

DeactivateAll(c) ==
  /\ Stage(c, "off") /\ Moves(c, "save")
  /\ staff' = [o \in Staff |-> [staff[o] EXCEPT !.active = FALSE]]
  /\ torn' = TRUE /\ crossed' = \E d \in Rounds : Stage(d, "save")
  /\ told' = Untold /\ UNCHANGED <<staffPlatform, tag, screenVars, saved, ours, left>>

\* saves the list, in one transaction,
SaveOperators(c) ==
  /\ Stage(c, "save")
  /\ round' = [round EXCEPT ![c] = [NoRound EXCEPT !.at = "record", !.edition = round[c].edition]]
  /\ staff' = [o \in Staff |-> IF round[c].list[o].listed THEN Row(round[c].list[o]) ELSE staff[o]]
  /\ saved' = round[c].list /\ ours' = TRUE /\ torn' = FALSE
  /\ told' = Untold /\ UNCHANGED <<staffPlatform, tag, screenVars, crossed, left>>

\* and records its tag.
RecordRoster(c) ==
  /\ Stage(c, "record") /\ Finishes(c) /\ tag' = round[c].edition
  /\ told' = Untold /\ UNCHANGED <<staffPlatform, staff, screenVars, staffHistory>>

RoundFails(c) ==
  /\ ~Stage(c, "idle") /\ Finishes(c)
  /\ told' = Untold /\ UNCHANGED <<staffPlatform, staff, tag, screenVars, staffHistory>>

-----------------------------------------------------------------------------
(* The desk                                                                *)

Empty  == [someone |-> FALSE, as |-> Permissions(NoWire), read |-> NoWire]
Unread == [failed |-> FALSE, of |-> {}]

\* get_operators: the active ones, and one row that cannot be read fails all.
LoadOperators ==
  /\ LET active == {o \in Staff : staff[o].active} IN
     roster' = IF \A o \in active : Reads(staff[o]) THEN [failed |-> FALSE, of |-> active]
               ELSE [failed |-> TRUE, of |-> {}]
  /\ ~seated.someone /\ told' = Untold
  /\ UNCHANGED <<staffPlatform, staff, tag, round, seated, staffHistory>>

\* accepted: what the platform says with its verdict, not the row, is seated;
\* a blank name is a breach of the contract.
PinAccepted(o) ==
  /\ ~seated.someone /\ o \in roster.of /\ Holding(profiles[o]) /\ Converts(profiles[o])
  /\ told' = Untold /\ roster' = Unread
  /\ seated' = [someone |-> TRUE, as |-> Permissions(profiles[o].permissions), read |-> profiles[o].permissions]
  /\ UNCHANGED <<staffPlatform, staff, tag, round, staffHistory>>

\* verify_pin_offline and into_verified
PinOffline(o) ==
  /\ ~seated.someone /\ o \in roster.of
  /\ told' = [by |-> o, torn |-> torn,
              what |-> IF staff[o] = NoOperator THEN "unknown"
                       ELSE IF ~Reads(staff[o]) THEN "store"
                       ELSE IF ~staff[o].active THEN "inactive" ELSE "unreachable"]
  /\ UNCHANGED <<staffPlatform, staff, tag, round, screenVars, staffHistory>>

SignOut ==
  /\ seated.someone /\ seated' = Empty /\ told' = Untold
  /\ UNCHANGED <<staffPlatform, staff, tag, round, roster, staffHistory>>

\* The till is closed and started again.
RosterRestarts ==
  /\ round' = [c \in Rounds |-> NoRound]
  /\ roster' = Unread /\ seated' = Empty
  /\ told' = Untold
  /\ UNCHANGED <<staffPlatform, staff, tag, staffHistory>>

\* The first list is saved; an earlier version of the till also took blank names.
StaffInit ==
  /\ \E old \in [Staff -> {"named", "blank"}] :
       /\ Cardinality({o \in Staff : old[o] = "blank"}) <= 1
       /\ profiles = [o \in Staff |-> [Hired EXCEPT !.name = old[o]]]
  /\ edition = 1 /\ tag = 1 /\ saved = profiles /\ staff = [o \in Staff |-> Row(profiles[o])]
  /\ round = [c \in Rounds |-> NoRound] /\ roster = Unread
  /\ seated = Empty
  /\ told = Untold
  /\ ours = FALSE /\ torn = FALSE /\ crossed = FALSE /\ left = {}

StaffNext ==
  \/ Revise \/ LoadOperators \/ SignOut \/ RosterRestarts
  \/ \E c \in Rounds : \/ AskRoster(c) \/ HearRoster(c) \/ DeactivateAll(c) \/ SaveOperators(c)
                       \/ RecordRoster(c) \/ RoundFails(c)
  \/ \E o \in Staff : PinAccepted(o) \/ PinOffline(o)

StaffSpec == StaffInit /\ [][StaffNext]_staffVars

-----------------------------------------------------------------------------
\* The active operators are one published list, nobody lingers who is not in
\* it and nobody is missing, unless the table is between its two writes or two
\* synchronisations crossed.
RosterIsOnePublished ==
  ~torn /\ ~crossed =>
    \A o \in Staff : /\ staff[o].active = Holding(saved[o])
                     /\ staff[o].active => staff[o].role = saved[o].role /\ staff[o].name = saved[o].name

\* What the permissions on the wire grant: of the privileges the till knows, the
\* named ones and no other; a discount only where it is allowed, up to the
\* ceiling named, within the contract.
Grants(w, p) ==
  /\ p.may = {k \in w.keys : k \in Privileges}
  /\ p.upTo # 0 => w.canDiscount /\ p.upTo = w.ceiling /\ p.upTo \in 1..100
  /\ p.upTo = 0 => ~w.canDiscount \/ w.ceiling = 0

\* An operator in the table or at the screen holds what the platform granted.
AuthorityIsGranted ==
  /\ \A o \in Staff : ~torn /\ ~crossed /\ staff[o].active =>
       Grants(saved[o].permissions, Permissions(staff[o].permissions))
  /\ seated.someone => Grants(seated.read, seated.as)

\* No list this till saves makes the roster unreadable.
RosterReads == ours => \A o \in Staff : staff[o].active => Reads(staff[o])

\* Without the platform, an operator is told to be inactive only if the
\* platform once said so, or the table was between its two writes.
InactiveIsDue == told.what = "inactive" /\ ~told.torn => told.by \in left

\* The operators of the till are the platform's, with the authority it gave.
RosterIsTrue == RosterIsOnePublished /\ AuthorityIsGranted /\ RosterReads /\ InactiveIsDue
=============================================================================
