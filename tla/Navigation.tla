----------------------------- MODULE Navigation -----------------------------
(***************************************************************************)
(* The navigator over the screen library: a screen may be shown while one  *)
(* of the features it belongs to is enabled.  A call reads the library     *)
(* once or more, each time under a lock of its own, and a synchronisation  *)
(* may replace the library between two reads.  A screen may belong to      *)
(* several features; the rows are then read in no particular order.        *)
(***************************************************************************)
EXTENDS Integers, FiniteSets

CONSTANTS
  Features, Screens,
  Splash, Nowhere,  \* a screen outside the library; no screen
  MaxEdits,         \* bound on libraries that replace another
  MaxJams           \* bound on reads the database fails

ASSUME NavigationAssumption ==
  /\ {Splash, Nowhere} \cap Screens = {} /\ Splash # Nowhere /\ MaxEdits \in Nat /\ MaxJams \in Nat

VARIABLES
  state,    \* table features: "on", "off", or "none" for no row
  screens,  \* table feature_screens: one row for a feature and a screen
  shown,    \* Navigator.current_screen
  menu,     \* what get_available_screens answered last, of this library
  errand,   \* the call under way
  arrived,  \* its result, until the library changes
  moved,    \* history: the library changed since the screen was entered
  edits, jams

libraryVars == <<state, screens>>
navVars     == <<libraryVars, shown, menu, errand, arrived, moved, edits, jams>>

ScreenRow == {r \in [feature : Features, screen : Screens, entry : BOOLEAN, next : Screens \cup {Nowhere}] :
                r.next # r.screen}
NoErrand == [at |-> "idle", what |-> "none", name |-> Nowhere, to |-> Nowhere, listed |-> FALSE, crossed |-> FALSE]
NoResult == [kind |-> "none", names |-> Nowhere, errand |-> NoErrand]
ScreenRows(s) == {r \in screens : r.screen = s}
Owners(s) == {r.feature : r \in ScreenRows(s)}

Jam     == jams < MaxJams /\ jams' = jams + 1
Running == UNCHANGED jams
Runs(stage) == errand.at = stage
Asks(what, name, at) ==
  /\ Runs("idle") /\ Running
  /\ errand' = [NoErrand EXCEPT !.at = at, !.what = what, !.name = name,
                                !.to = IF what = "screen" THEN name ELSE Nowhere,
                                !.listed = what = "screen" /\ name \in menu]
  /\ arrived' = NoResult /\ UNCHANGED <<libraryVars, shown, menu, moved, edits>>
Ends(kind, names) ==
  /\ errand' = NoErrand /\ arrived' = [kind |-> kind, names |-> names, errand |-> errand]
  /\ UNCHANGED <<libraryVars, menu, edits>>
GoesOn(screen) ==
  /\ errand' = [errand EXCEPT !.at = "enabled", !.to = screen]
  /\ UNCHANGED <<libraryVars, shown, menu, arrived, moved, edits>>

-----------------------------------------------------------------------------
(* The library: sync_features replaces both tables in one transaction, by  *)
(* a library that differs in one feature or one row.                       *)

SyncFeatures ==
  /\ edits < MaxEdits /\ edits' = edits + 1 /\ Running
  /\ \/ \E f \in Features, s \in {"on", "off", "none"} :
          /\ state' = [state EXCEPT ![f] = s]
          /\ screens' = IF s = "none" THEN {r \in screens : r.feature # f} ELSE screens
     \/ \E new \in {r \in ScreenRow : state[r.feature] # "none"} :
          /\ state' = state
          /\ screens' = {r \in screens : r.feature # new.feature \/ r.screen # new.screen} \cup {new}
     \/ \E old \in screens : state' = state /\ screens' = screens \ {old}
  /\ menu' = {} /\ errand' = [errand EXCEPT !.crossed = ~Runs("idle")]
  /\ arrived' = NoResult /\ moved' = TRUE /\ UNCHANGED shown

-----------------------------------------------------------------------------
(* Navigator                                                               *)

SlipForgetsTheSwitch(s) == ScreenRows(s) # {}
SlipTakesFirst(s) == ScreenRows(s) # {} /\ state[CHOOSE f \in Owners(s) : TRUE] = "on"
IsScreenEnabled(s) == \E f \in Owners(s) : state[f] = "on"

NavigateTo(s) == Asks("screen", s, "enabled")
NavigateToFeature(f) == Asks("feature", f, "entry")
NavigateNext == Asks("next", shown, "next")

\* is_screen_enabled
Check ==
  /\ Runs("enabled") /\ Running
  /\ IF IsScreenEnabled(errand.to)
     THEN Ends("success", errand.to) /\ shown' = errand.to /\ moved' = FALSE
     ELSE /\ errand' = [errand EXCEPT !.at = "owner"]
          /\ UNCHANGED <<libraryVars, shown, menu, arrived, moved, edits>>

\* get_screen_feature: of a screen with several features, any.
NameOwner ==
  /\ Runs("owner") /\ Running /\ UNCHANGED <<shown, moved>>
  /\ \/ \E f \in Owners(errand.to) : Ends("blocked", f)
     \/ Owners(errand.to) = {} /\ Ends("notFound", errand.to)

\* get_feature_entry_screen, which does not ask if the feature is enabled.
FindEntry ==
  /\ Runs("entry") /\ Running
  /\ LET entries == {r \in screens : r.feature = errand.name /\ r.entry} IN
     \/ \E r \in entries : GoesOn(r.screen)
     \/ entries = {} /\ Ends("notFound", errand.name) /\ UNCHANGED <<shown, moved>>

\* get_next_screen, of any row of the current screen.
FindNext ==
  /\ Runs("next") /\ Running
  /\ \/ \E r \in ScreenRows(errand.name) : r.next # Nowhere /\ GoesOn(r.next)
     \/ /\ ScreenRows(errand.name) = {} \/ \E r \in ScreenRows(errand.name) : r.next = Nowhere
        /\ Ends("notFound", Nowhere) /\ UNCHANGED <<shown, moved>>

ReadFails == ~Runs("idle") /\ Jam /\ Ends("error", Nowhere) /\ UNCHANGED <<shown, moved>>

SetCurrentScreen ==
  /\ Runs("idle") /\ Running /\ shown' = Splash /\ moved' = FALSE
  /\ UNCHANGED <<libraryVars, menu, errand, arrived, edits>>

\* get_available_screens; an error reads as no screen at all.
GetAvailableScreens ==
  /\ Runs("idle")
  /\ \/ Running /\ menu' = {s \in Screens : \E f \in Owners(s) : state[f] = "on"}
     \/ Jam /\ menu' = {}
  /\ UNCHANGED <<libraryVars, shown, errand, arrived, moved, edits>>

\* The features an earlier synchronisation left, and no screens yet.
NavInit ==
  /\ (\E off \in Features : state = [f \in Features |-> IF f = off THEN "off" ELSE "on"])
  /\ screens = {} /\ shown = Splash
  /\ menu = {} /\ errand = NoErrand /\ arrived = NoResult
  /\ moved = FALSE /\ edits = 0 /\ jams = 0

NavNext ==
  \/ SyncFeatures \/ NavigateNext \/ Check \/ NameOwner \/ FindEntry \/ FindNext \/ ReadFails
  \/ SetCurrentScreen \/ GetAvailableScreens
  \/ (\E s \in Screens : NavigateTo(s)) \/ \E f \in Features : NavigateToFeature(f)

NavSpec == NavInit /\ [][NavNext]_navVars

-----------------------------------------------------------------------------
Of     == arrived.errand
Result(kind) == arrived.kind = kind
SomeOn(s)   == \E r \in screens : r.screen = s /\ state[r.feature] = "on"

\* What a call was refused for is true: the feature it names is disabled, the
\* screen it does not find is in no feature - unless the library was replaced
\* between two of its reads.
RefusalIsTrue ==
  ~Of.crossed =>
    /\ Result("blocked") => state[arrived.names] = "off"
    /\ Result("notFound") /\ Of.to # Nowhere => ScreenRows(Of.to) = {}

\* A screen the menu offers opens, while the library stays the same.
MenuOpens == Of.listed /\ ~Of.crossed => arrived.kind \in {"success", "error"}

\* The screen shown is open in the library, or was when it was entered.
ShownIsOpen == shown = Splash \/ moved \/ SomeOn(shown)

\* A feature that is opened is enabled, unless its entry screen is also in
\* another that is.
OpenedIsEnabled ==
  Result("success") /\ Of.what = "feature" /\ ~Of.crossed =>
    state[Of.name] = "on" \/ \E f \in Owners(Of.to) \ {Of.name} : state[f] = "on"

\* Where navigation leads and what it says of a refusal agree with the library.
NavigationIsHonest == RefusalIsTrue /\ MenuOpens /\ ShownIsOpen /\ OpenedIsEnabled
=============================================================================
