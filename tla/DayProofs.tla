----------------------------- MODULE DayProofs -----------------------------
(***************************************************************************)
(* What holds of the till's day, its staff, its navigation, its cart and   *)
(* its counter for any number of calls, shifts, reports, staff, screens,   *)
(* features, products and sales: shifts and their sales are known, reports *)
(* are whole, the roster is what was saved, no screen is shown or refused  *)
(* against the library, carts are what was rung up and put aside, and the  *)
(* counter accounts for its sales.                                         *)
(*                                                                         *)
(* CartInv is the inductive invariant of the cart and the carts put aside: *)
(* every cart with lines shows what its lines come to, a row keeps the     *)
(* price it was held at whoever renames it, a recall under way is of a row *)
(* that was there, and a till holds a parked cart only while the platform  *)
(* says so.  OnDisk is what the copy on disk needs besides.  CountInv is   *)
(* that of the counter: a receipt number given is given to one sale, which *)
(* its row, the call that completes it and the receipt all name.           *)
(***************************************************************************)
EXTENDS StaffRoster, Navigation, TillDay, TillCart, Checkout,
        FiniteSetTheorems, SequenceTheorems, WellFoundedInduction, TLAPS

-----------------------------------------------------------------------------
(* Navigation.                                                             *)

NavStages == {"idle", "enabled", "owner", "entry", "next"}
Calls     == {"none", "screen", "feature", "next"}
Named     == Screens \cup Features \cup {Splash, Nowhere}

NavShape ==
  /\ state \in [Features -> {"on", "off", "none"}]
  /\ screens \subseteq ScreenRow
  /\ shown \in Screens \cup {Splash} /\ menu \subseteq Screens
  /\ errand \in [at : NavStages, what : Calls, name : Named, to : Screens \cup {Nowhere},
                 listed : BOOLEAN, crossed : BOOLEAN]
  /\ errand.at = "idle" => errand = NoErrand
  /\ errand.at \in {"enabled", "owner"} => errand.to \in Screens
  /\ errand.at \in {"entry", "next"} => errand.to = Nowhere
  /\ errand.listed => errand.at \in {"idle", "enabled", "owner"}
  /\ arrived.errand.listed \in BOOLEAN /\ arrived.errand.crossed \in BOOLEAN

\* A screen has rows only of features that have one.
RowsHaveFeatures == \A r \in screens : state[r.feature] # "none"

MenuIsOpen == \A s \in menu : SomeOn(s)

\* What a call has read is still so, unless the library was replaced under it.
ReadsAreTrue ==
  errand.at # "idle" /\ ~errand.crossed =>
    /\ errand.at = "owner" => ~SomeOn(errand.to)
    /\ errand.listed => SomeOn(errand.to)

NavInv == NavShape /\ RowsHaveFeatures /\ MenuIsOpen /\ ReadsAreTrue /\ NavigationIsHonest

-----------------------------------------------------------------------------
LEMMA NavInitHolds == NavInit => NavInv
<1> SUFFICES ASSUME NavInit PROVE NavInv OBVIOUS
<1>1. NavShape
  BY DEF NavInit, NavShape, NoErrand, NoResult, NavStages, Calls, Named
<1>2. RowsHaveFeatures /\ MenuIsOpen /\ ReadsAreTrue
  BY DEF NavInit, RowsHaveFeatures, MenuIsOpen, ReadsAreTrue, NoErrand
<1>3. NavigationIsHonest
  BY DEF NavInit, NavigationIsHonest, RefusalIsTrue, MenuOpens, ShownIsOpen, OpenedIsEnabled,
         Result, Of, NoResult, NoErrand
<1> QED BY <1>1, <1>2, <1>3 DEF NavInv

LEMMA SameLibrary ==
  ASSUME UNCHANGED libraryVars
  PROVE  /\ RowsHaveFeatures' <=> RowsHaveFeatures
         /\ \A s : SomeOn(s)' <=> SomeOn(s)
         /\ \A s : ScreenRows(s)' = ScreenRows(s) /\ Owners(s)' = Owners(s)
BY DEF libraryVars, RowsHaveFeatures, SomeOn, ScreenRows, Owners

LEMMA EnabledIsOn == \A s : IsScreenEnabled(s) <=> SomeOn(s)
BY DEF IsScreenEnabled, SomeOn, Owners, ScreenRows

\* The library is replaced: nothing is claimed of what was read before.
LEMMA SyncFeaturesKeeps == NavInv /\ SyncFeatures => NavInv'
<1> SUFFICES ASSUME NavInv, SyncFeatures PROVE NavInv' OBVIOUS
<1>1. state' \in [Features -> {"on", "off", "none"}] /\ screens' \subseteq ScreenRow /\ RowsHaveFeatures'
  <2>1. CASE \E f \in Features, s \in {"on", "off", "none"} :
               /\ state' = [state EXCEPT ![f] = s]
               /\ screens' = IF s = "none" THEN {r \in screens : r.feature # f} ELSE screens
    BY <2>1 DEF NavInv, NavShape, RowsHaveFeatures, ScreenRow
  <2>2. CASE \E new \in {r \in ScreenRow : state[r.feature] # "none"} :
               /\ state' = state
               /\ screens' = {r \in screens : r.feature # new.feature \/ r.screen # new.screen} \cup {new}
    BY <2>2 DEF NavInv, NavShape, RowsHaveFeatures
  <2>3. CASE \E old \in screens : state' = state /\ screens' = screens \ {old}
    BY <2>3 DEF NavInv, NavShape, RowsHaveFeatures
  <2> QED BY <2>1, <2>2, <2>3 DEF SyncFeatures
<1>2. /\ menu' = {} /\ arrived' = NoResult /\ moved' = TRUE /\ shown' = shown
      /\ errand' = [errand EXCEPT !.crossed = ~Runs("idle")]
  BY DEF SyncFeatures
<1>3. errand.at = "idle" => errand' = NoErrand
  <2> SUFFICES ASSUME errand.at = "idle" PROVE errand' = NoErrand OBVIOUS
  <2>1. errand' = [errand EXCEPT !.crossed = FALSE]
    BY <1>2, Zenon DEF Runs
  <2>2. errand = NoErrand BY DEF NavInv, NavShape
  <2> QED BY <2>1, <2>2 DEF NoErrand
<1>4. errand.at # "idle" => errand'.crossed = TRUE
  BY <1>2 DEF NavInv, NavShape, Runs
<1>5. /\ errand'.at = errand.at /\ errand'.to = errand.to /\ errand'.listed = errand.listed
      /\ errand' \in [at : NavStages, what : Calls, name : Named, to : Screens \cup {Nowhere},
                      listed : BOOLEAN, crossed : BOOLEAN]
  BY <1>2 DEF NavInv, NavShape, Runs
<1>6. NavShape'
  BY <1>1, <1>2, <1>3, <1>5 DEF NavInv, NavShape, NoResult, NoErrand
<1>7. MenuIsOpen' /\ ReadsAreTrue'
  BY <1>2, <1>4, <1>5 DEF MenuIsOpen, ReadsAreTrue
<1>8. NavigationIsHonest'
  BY <1>2 DEF NavigationIsHonest, RefusalIsTrue, MenuOpens, ShownIsOpen, OpenedIsEnabled,
              Result, Of, NoResult, NoErrand
<1> QED BY <1>1, <1>6, <1>7, <1>8 DEF NavInv

\* A call begins: it has read nothing yet but the menu.
LEMMA AsksKeeps ==
  ASSUME NavInv, NEW what \in {"screen", "feature", "next"}, NEW name \in Named,
         NEW at \in {"enabled", "entry", "next"}, Asks(what, name, at),
         at = "enabled" <=> what = "screen",
         what = "screen" => name \in Screens
  PROVE  NavInv'
<1>1. /\ UNCHANGED libraryVars /\ shown' = shown /\ menu' = menu /\ moved' = moved
      /\ arrived' = NoResult /\ errand.at = "idle"
  BY DEF Asks, Runs
<1> DEFINE listed == what = "screen" /\ name \in menu
<1>2. errand' = [at |-> at, what |-> what, name |-> name, to |-> IF what = "screen" THEN name ELSE Nowhere,
                 listed |-> listed, crossed |-> FALSE]
  BY DEF Asks, NoErrand
<1>3. listed \in BOOLEAN /\ (listed => what = "screen" /\ name \in menu) OBVIOUS
<1> HIDE DEF listed
<1>4. NavShape'
  <2>1. errand' \in [at : NavStages, what : Calls, name : Named, to : Screens \cup {Nowhere},
                     listed : BOOLEAN, crossed : BOOLEAN]
    BY <1>2, <1>3 DEF NavStages, Calls
  <2>2. /\ errand'.at # "idle" /\ errand'.at # "owner" /\ (errand'.at = "enabled" => errand'.to \in Screens)
        /\ (errand'.at # "enabled" => errand'.to = Nowhere)
        /\ (errand'.listed => errand'.at = "enabled")
    BY <1>2, <1>3
  <2> QED BY <1>1, <2>1, <2>2 DEF NavInv, NavShape, libraryVars, NoResult, NoErrand
<1>5. ReadsAreTrue'
  <2>1. errand'.at # "owner" BY <1>2
  <2>2. errand'.listed => SomeOn(errand.to)'
    <3> SUFFICES ASSUME errand'.listed PROVE SomeOn(errand.to)' OBVIOUS
    <3>1. listed BY <1>2
    <3>2. errand'.to = name /\ name \in menu BY <3>1, <1>2, <1>3
    <3> QED BY <3>2, <1>1, SameLibrary DEF NavInv, MenuIsOpen
  <2> QED BY <2>1, <2>2 DEF ReadsAreTrue
<1>6. MenuIsOpen' /\ RowsHaveFeatures'
  BY <1>1, SameLibrary DEF NavInv, MenuIsOpen
<1>7. NavigationIsHonest'
  <2>1. ShownIsOpen' BY <1>1, SameLibrary DEF NavInv, NavigationIsHonest, ShownIsOpen
  <2> QED BY <1>1, <2>1 DEF NavigationIsHonest, RefusalIsTrue, MenuOpens, OpenedIsEnabled,
                            Result, Of, NoResult, NoErrand
<1> QED BY <1>4, <1>5, <1>6, <1>7 DEF NavInv

\* A call that has found the screen goes on to ask whether it is enabled.
LEMMA GoesOnKeeps ==
  ASSUME NavInv, NEW s \in Screens, GoesOn(s), errand.at \in {"entry", "next"}
  PROVE  NavInv'
<1>1. /\ UNCHANGED libraryVars /\ shown' = shown /\ menu' = menu /\ moved' = moved
      /\ arrived' = arrived /\ errand' = [errand EXCEPT !.at = "enabled", !.to = s]
  BY DEF GoesOn
<1>2. ~errand.listed BY DEF NavInv, NavShape
<1>3. /\ errand'.at = "enabled" /\ errand'.to = s /\ errand'.listed = errand.listed
      /\ errand' \in [at : NavStages, what : Calls, name : Named, to : Screens \cup {Nowhere},
                      listed : BOOLEAN, crossed : BOOLEAN]
  BY <1>1 DEF NavInv, NavShape, NavStages
<1>4. NavShape'
  BY <1>1, <1>3 DEF NavInv, NavShape, libraryVars
<1>5. ReadsAreTrue' BY <1>2, <1>3 DEF ReadsAreTrue
<1>6. MenuIsOpen' /\ RowsHaveFeatures' BY <1>1, SameLibrary DEF NavInv, MenuIsOpen
<1>7. NavigationIsHonest'
  BY <1>1, SameLibrary DEF NavInv, NavigationIsHonest, RefusalIsTrue, MenuOpens, ShownIsOpen,
       OpenedIsEnabled, Result, Of, libraryVars
<1> QED BY <1>4, <1>5, <1>6, <1>7 DEF NavInv

\* A call ends: its answer is weighed against the library as it is.
LEMMA EndsKeeps ==
  ASSUME NavInv, NEW kind, NEW names, Ends(kind, names), errand.at # "idle",
         shown' \in Screens \cup {Splash}, ShownIsOpen',
         kind = "blocked" /\ ~errand.crossed => state[names] = "off",
         kind = "notFound" /\ ~errand.crossed /\ errand.to # Nowhere => ScreenRows(errand.to) = {},
         errand.listed /\ ~errand.crossed => kind \in {"success", "error"},
         kind = "success" => SomeOn(errand.to)
  PROVE  NavInv'
<1>1. /\ UNCHANGED libraryVars /\ menu' = menu /\ errand' = NoErrand
      /\ arrived'.kind = kind /\ arrived'.names = names /\ arrived'.errand = errand
  BY DEF Ends
<1>2. NavShape'
  BY <1>1 DEF NavInv, NavShape, libraryVars, NoErrand, NavStages, Calls, Named
<1>3. ReadsAreTrue' BY <1>1 DEF ReadsAreTrue, NoErrand
<1>4. MenuIsOpen' /\ RowsHaveFeatures' BY <1>1, SameLibrary DEF NavInv, MenuIsOpen
<1>5. RefusalIsTrue'
  BY <1>1, SameLibrary DEF RefusalIsTrue, Result, Of, libraryVars
<1>6. MenuOpens'
  BY <1>1 DEF MenuOpens, Of
<1>7. OpenedIsEnabled'
  <2> SUFFICES ASSUME kind = "success"
               PROVE  state[errand.name] = "on" \/ \E f \in Owners(errand.to) \ {errand.name} : state[f] = "on"
    BY <1>1, SameLibrary DEF OpenedIsEnabled, Result, Of, libraryVars
  <2>1. PICK f \in Owners(errand.to) : state[f] = "on" BY DEF SomeOn, Owners, ScreenRows
  <2> QED BY <2>1
<1> QED BY <1>2, <1>3, <1>4, <1>5, <1>6, <1>7 DEF NavInv, NavigationIsHonest

LEMMA CheckKeeps == NavInv /\ Check => NavInv'
<1> SUFFICES ASSUME NavInv, Check PROVE NavInv' OBVIOUS
<1>1. errand.at = "enabled" /\ errand.to \in Screens BY DEF Check, Runs, NavInv, NavShape
<1>2. CASE IsScreenEnabled(errand.to)
  <2>1. Ends("success", errand.to) /\ shown' = errand.to /\ moved' = FALSE
    BY <1>2 DEF Check
  <2>2. SomeOn(errand.to) BY <1>2, EnabledIsOn
  <2>3. ShownIsOpen'
    BY <2>1, <2>2, <1>1, SameLibrary DEF ShownIsOpen, Ends
  <2> QED BY <1>1, <2>1, <2>2, <2>3, EndsKeeps
<1>3. CASE ~IsScreenEnabled(errand.to)
  <2>1. /\ UNCHANGED libraryVars /\ shown' = shown /\ menu' = menu /\ moved' = moved
        /\ arrived' = arrived /\ errand' = [errand EXCEPT !.at = "owner"]
    BY <1>3 DEF Check
  <2>2. ~SomeOn(errand.to) BY <1>3, EnabledIsOn
  <2>3. /\ errand'.at = "owner" /\ errand'.to = errand.to /\ errand'.crossed = errand.crossed
        /\ errand'.listed = errand.listed
        /\ errand' \in [at : NavStages, what : Calls, name : Named, to : Screens \cup {Nowhere},
                        listed : BOOLEAN, crossed : BOOLEAN]
    BY <2>1 DEF NavInv, NavShape, NavStages
  <2>4. NavShape'
    BY <1>1, <2>1, <2>3 DEF NavInv, NavShape, libraryVars
  <2>5. ReadsAreTrue'
    <3>1. errand.listed /\ ~errand.crossed => SomeOn(errand.to)
      BY <1>1 DEF NavInv, ReadsAreTrue
    <3>2. SomeOn(errand.to)' <=> SomeOn(errand.to)
      BY <2>1, <2>3, SameLibrary
    <3> QED BY <3>1, <3>2, <2>2, <2>3 DEF ReadsAreTrue
  <2>6. MenuIsOpen' /\ RowsHaveFeatures' BY <2>1, SameLibrary DEF NavInv, MenuIsOpen
  <2>7. NavigationIsHonest'
    BY <2>1, SameLibrary DEF NavInv, NavigationIsHonest, RefusalIsTrue, MenuOpens, ShownIsOpen,
         OpenedIsEnabled, Result, Of, libraryVars
  <2> QED BY <2>4, <2>5, <2>6, <2>7 DEF NavInv
<1> QED BY <1>2, <1>3

LEMMA StillShown ==
  ASSUME NavInv, UNCHANGED <<libraryVars, shown, moved>>
  PROVE  shown' \in Screens \cup {Splash} /\ ShownIsOpen'
BY SameLibrary DEF NavInv, NavShape, NavigationIsHonest, ShownIsOpen

\* A screen that is refused has no feature on; the one named is off.
LEMMA NameOwnerKeeps == NavInv /\ NameOwner => NavInv'
<1> SUFFICES ASSUME NavInv, NameOwner PROVE NavInv' OBVIOUS
<1>1. errand.at = "owner" /\ errand.to \in Screens BY DEF NameOwner, Runs, NavInv, NavShape
<1>2. ~errand.crossed => ~SomeOn(errand.to) /\ ~errand.listed
  BY <1>1 DEF NavInv, ReadsAreTrue
<1>3. CASE \E f \in Owners(errand.to) : Ends("blocked", f)
  <2>1. PICK f \in Owners(errand.to) : Ends("blocked", f) BY <1>3
  <2>2. PICK r \in screens : r.screen = errand.to /\ r.feature = f BY DEF Owners, ScreenRows
  <2>3. state[f] \in {"on", "off", "none"} /\ state[f] # "none"
    BY <2>2 DEF NavInv, NavShape, RowsHaveFeatures, ScreenRow
  <2>4. ~errand.crossed => state[f] = "off"
    BY <1>2, <2>2, <2>3 DEF SomeOn
  <2>5. shown' \in Screens \cup {Splash} /\ ShownIsOpen'
    BY <2>1, StillShown DEF Ends, NameOwner
  <2> QED BY <1>1, <1>2, <2>1, <2>4, <2>5, EndsKeeps
<1>4. CASE Owners(errand.to) = {} /\ Ends("notFound", errand.to)
  <2>1. ScreenRows(errand.to) = {} BY <1>4 DEF Owners
  <2>2. shown' \in Screens \cup {Splash} /\ ShownIsOpen'
    BY <1>4, StillShown DEF Ends, NameOwner
  <2> QED BY <1>1, <1>2, <1>4, <2>1, <2>2, EndsKeeps
<1> QED BY <1>3, <1>4 DEF NameOwner

LEMMA NotFoundKeeps ==
  ASSUME NavInv, NEW names, errand.at \in {"entry", "next"}, Ends("notFound", names),
         UNCHANGED <<shown, moved>>
  PROVE  NavInv'
<1>1. errand.to = Nowhere /\ ~errand.listed BY DEF NavInv, NavShape
<1>2. shown' \in Screens \cup {Splash} /\ ShownIsOpen' BY StillShown DEF Ends
<1> QED BY <1>1, <1>2, EndsKeeps

LEMMA FindEntryKeeps == NavInv /\ FindEntry => NavInv'
<1> SUFFICES ASSUME NavInv, FindEntry PROVE NavInv' OBVIOUS
<1>1. errand.at = "entry" BY DEF FindEntry, Runs
<1>2. CASE \E r \in screens : GoesOn(r.screen)
  <2>1. PICK r \in screens : GoesOn(r.screen) BY <1>2
  <2>2. r.screen \in Screens BY DEF NavInv, NavShape, ScreenRow
  <2> QED BY <1>1, <2>1, <2>2, GoesOnKeeps
<1>3. CASE Ends("notFound", errand.name) /\ UNCHANGED <<shown, moved>>
  BY <1>1, <1>3, NotFoundKeeps
<1> QED BY <1>2, <1>3 DEF FindEntry

LEMMA FindNextKeeps == NavInv /\ FindNext => NavInv'
<1> SUFFICES ASSUME NavInv, FindNext PROVE NavInv' OBVIOUS
<1>1. errand.at = "next" BY DEF FindNext, Runs
<1>2. CASE \E r \in screens : r.next # Nowhere /\ GoesOn(r.next)
  <2>1. PICK r \in screens : r.next # Nowhere /\ GoesOn(r.next) BY <1>2
  <2>2. r.next \in Screens BY <2>1 DEF NavInv, NavShape, ScreenRow
  <2> QED BY <1>1, <2>1, <2>2, GoesOnKeeps
<1>3. CASE Ends("notFound", Nowhere) /\ UNCHANGED <<shown, moved>>
  BY <1>1, <1>3, NotFoundKeeps
<1> QED BY <1>2, <1>3 DEF FindNext, ScreenRows

LEMMA ReadFailsKeeps == NavInv /\ ReadFails => NavInv'
<1> SUFFICES ASSUME NavInv, ReadFails PROVE NavInv' OBVIOUS
<1>1. errand.at # "idle" /\ Ends("error", Nowhere) /\ UNCHANGED <<shown, moved>>
  BY DEF ReadFails, Runs
<1>2. shown' \in Screens \cup {Splash} /\ ShownIsOpen' BY <1>1, StillShown DEF Ends
<1> QED BY <1>1, <1>2, EndsKeeps

LEMMA SetCurrentScreenKeeps == NavInv /\ SetCurrentScreen => NavInv'
<1> SUFFICES ASSUME NavInv, SetCurrentScreen PROVE NavInv' OBVIOUS
<1>1. /\ UNCHANGED libraryVars /\ menu' = menu /\ errand' = errand /\ arrived' = arrived
      /\ shown' = Splash
  BY DEF SetCurrentScreen
<1>2. NavShape' BY <1>1 DEF NavInv, NavShape, libraryVars
<1>3. ReadsAreTrue' /\ MenuIsOpen' /\ RowsHaveFeatures'
  BY <1>1, SameLibrary DEF NavInv, MenuIsOpen, ReadsAreTrue
<1>4. NavigationIsHonest'
  BY <1>1, SameLibrary DEF NavInv, NavigationIsHonest, RefusalIsTrue, MenuOpens, ShownIsOpen,
       OpenedIsEnabled, Result, Of, libraryVars
<1> QED BY <1>2, <1>3, <1>4 DEF NavInv

LEMMA GetAvailableScreensKeeps == NavInv /\ GetAvailableScreens => NavInv'
<1> SUFFICES ASSUME NavInv, GetAvailableScreens PROVE NavInv' OBVIOUS
<1>1. /\ UNCHANGED libraryVars /\ errand' = errand /\ arrived' = arrived
      /\ shown' = shown /\ moved' = moved
      /\ menu' = {} \/ menu' = {s \in Screens : \E f \in Owners(s) : state[f] = "on"}
  BY DEF GetAvailableScreens
<1>2. menu' \subseteq Screens /\ \A s \in menu' : SomeOn(s)
  BY <1>1, EnabledIsOn DEF IsScreenEnabled
<1>3. MenuIsOpen' BY <1>1, <1>2, SameLibrary DEF MenuIsOpen
<1>4. NavShape' BY <1>1, <1>2 DEF NavInv, NavShape, libraryVars
<1>5. ReadsAreTrue' /\ RowsHaveFeatures'
  BY <1>1, SameLibrary DEF NavInv, ReadsAreTrue
<1>6. NavigationIsHonest'
  BY <1>1, SameLibrary DEF NavInv, NavigationIsHonest, RefusalIsTrue, MenuOpens, ShownIsOpen,
       OpenedIsEnabled, Result, Of, libraryVars
<1> QED BY <1>3, <1>4, <1>5, <1>6 DEF NavInv

LEMMA NavNextKeeps == NavInv /\ [NavNext]_navVars => NavInv'
<1> SUFFICES ASSUME NavInv, [NavNext]_navVars PROVE NavInv' OBVIOUS
<1>1. CASE UNCHANGED navVars
  <2>1. /\ UNCHANGED libraryVars /\ menu' = menu /\ errand' = errand /\ arrived' = arrived
        /\ shown' = shown /\ moved' = moved
    BY <1>1 DEF navVars
  <2>2. NavShape' BY <2>1 DEF NavInv, NavShape, libraryVars
  <2>3. ReadsAreTrue' /\ MenuIsOpen' /\ RowsHaveFeatures'
    BY <2>1, SameLibrary DEF NavInv, MenuIsOpen, ReadsAreTrue
  <2>4. NavigationIsHonest'
    BY <2>1, SameLibrary DEF NavInv, NavigationIsHonest, RefusalIsTrue, MenuOpens, ShownIsOpen,
         OpenedIsEnabled, Result, Of, libraryVars
  <2> QED BY <2>2, <2>3, <2>4 DEF NavInv
<1>2. CASE NavigateNext
  BY <1>2, AsksKeeps DEF NavigateNext, NavInv, NavShape, Named
<1>3. ASSUME NEW s \in Screens, NavigateTo(s) PROVE NavInv'
  BY <1>3, AsksKeeps DEF NavigateTo, Named
<1>4. ASSUME NEW f \in Features, NavigateToFeature(f) PROVE NavInv'
  BY <1>4, AsksKeeps DEF NavigateToFeature, Named
<1> QED
  BY <1>1, <1>2, <1>3, <1>4, SyncFeaturesKeeps, CheckKeeps, NameOwnerKeeps, FindEntryKeeps,
     FindNextKeeps, ReadFailsKeeps, SetCurrentScreenKeeps, GetAvailableScreensKeeps DEF NavNext

\* Whatever the library is replaced by while a call reads it: a refusal says
\* what was so when it was asked, the menu and the screen shown are enabled, and
\* a feature that opened is on (Navigator::navigate_to, navigate_to_feature).
THEOREM NavigationHonestAlways == NavSpec => []NavigationIsHonest
<1>1. NavInit => NavInv BY NavInitHolds
<1>2. NavInv /\ [NavNext]_navVars => NavInv' BY NavNextKeeps
<1>3. NavInv => NavigationIsHonest BY DEF NavInv
<1> QED BY <1>1, <1>2, <1>3, PTL DEF NavSpec

-----------------------------------------------------------------------------
(* The staff of the till.                                                  *)

AllWires == Wires \cup {NoWire}
Profile == [listed : BOOLEAN, active : BOOLEAN, role : RoleNames, name : {"named", "blank"},
            permissions : AllWires]
StaffRow == [active : BOOLEAN, role : RoleNames, name : {"named", "blank"},
            permissions : {PermissionsWire(Permissions(w)) : w \in AllWires}]
StaffShape ==
  /\ profiles \in [Staff -> Profile] /\ saved \in [Staff -> Profile]
  /\ staff \in [Staff -> StaffRow]
  /\ round \in [Rounds -> [at : {"idle", "asked", "off", "save", "record"}, tag : Int, edition : Int, list : [Staff -> Profile]]]
  /\ edition \in Int /\ tag \in Int
  /\ told.what \in {"none", "unknown", "store", "inactive", "unreachable"}
Carried == {c \in Rounds : round[c].at \in {"off", "save"}}
\* A list under way, and the one saved, can be read; who does not hold in it was left.
ListsAreRead ==
  /\ \A c \in Carried : \A o \in Staff :
       /\ round[c].list[o].listed => Converts(round[c].list[o])
       /\ ~Holding(round[c].list[o]) => o \in left
  /\ \A o \in Staff : saved[o].listed => Deserializes(saved[o])
  /\ \A o \in Staff : ~Holding(profiles[o]) => o \in left
NoneActive == \A o \in Staff : ~staff[o].active
SavesCross ==
  /\ \A c, d \in Rounds : Stage(c, "save") /\ Stage(d, "save") /\ c # d => crossed
  /\ \A c \in Rounds : Stage(c, "save") /\ ~crossed => NoneActive
  /\ \A c \in Rounds : Stage(c, "save") /\ ~ours => torn
  /\ torn /\ ~ours => NoneActive
RowsAreTheSaved ==
  ~torn /\ ~crossed => \A o \in Staff : IF saved[o].listed THEN staff[o] = Row(saved[o]) ELSE ~staff[o].active
AbsentWereLeft == ~torn => \A o \in Staff : ~staff[o].active => o \in left
SeatedAsGranted == seated.someone => Grants(seated.read, seated.as)
StaffInv == StaffShape /\ ListsAreRead /\ SavesCross /\ RowsAreTheSaved /\ RosterReads
         /\ AbsentWereLeft /\ SeatedAsGranted /\ InactiveIsDue

-----------------------------------------------------------------------------
(* What a slip grants.                                                     *)

\* A wire that is not said grants nothing; one that is written back and read
\* again grants the same.
LEMMA SlipSurvives ==
  \A w \in AllWires : Permissions(PermissionsWire(Permissions(w))) = Permissions(w)
<1> SUFFICES ASSUME NEW w \in AllWires
             PROVE  Permissions(PermissionsWire(Permissions(w))) = Permissions(w)
  OBVIOUS
<1>1. w.ceiling \in {0, 20, 150} BY DEF AllWires, Wires, Ceilings, NoWire
<1> DEFINE may == w.keys \cap Privileges
           upTo == IF w.canDiscount /\ w.ceiling > 0 THEN w.ceiling ELSE 0
<1>2. Permissions(w) = [may |-> may, upTo |-> upTo] BY DEF Permissions
<1>3. upTo \in {0, 20, 150} BY <1>1
<1>4. may \cap Privileges = may OBVIOUS
<1> HIDE DEF may, upTo
<1> DEFINE wire == PermissionsWire(Permissions(w))
<1>5. wire.keys = may /\ wire.ceiling = upTo /\ (wire.canDiscount <=> upTo # 0)
  <2> DEFINE slip == Permissions(w)
             disc == slip.upTo # 0
  <2>1. slip.may = may /\ slip.upTo = upTo BY <1>2
  <2>2. wire = [keys |-> slip.may, canDiscount |-> disc, ceiling |-> slip.upTo] BY DEF PermissionsWire
  <2>3. disc <=> upTo # 0 BY <2>1
  <2> HIDE DEF slip, disc, wire
  <2> QED BY <2>1, <2>2, <2>3
<1> HIDE DEF wire
<1>6. (IF wire.canDiscount /\ wire.ceiling > 0 THEN wire.ceiling ELSE 0) = upTo
  BY <1>3, <1>5
<1>7. Permissions(wire) = [may |-> may, upTo |-> upTo]
  BY <1>4, <1>5, <1>6 DEF Permissions
<1> QED BY <1>2, <1>7 DEF wire

\* What is read within the contract grants what was written.
LEMMA SlipGrants ==
  ASSUME NEW w \in AllWires, Permissions(w).upTo <= 100
  PROVE  Grants(w, Permissions(w))
<1>1. w.ceiling \in {0, 20, 150} BY DEF AllWires, Wires, Ceilings, NoWire
<1> DEFINE slip == Permissions(w)
<1>2. slip.may = w.keys \cap Privileges /\ slip.upTo = IF w.canDiscount /\ w.ceiling > 0 THEN w.ceiling ELSE 0
  BY DEF Permissions
<1>3. slip.upTo <= 100 OBVIOUS
<1> HIDE DEF slip
<1>4. slip.may = {k \in w.keys : k \in Privileges} BY <1>2
<1>5. slip.upTo # 0 => w.canDiscount /\ slip.upTo = w.ceiling /\ slip.upTo \in 1..100
  BY <1>1, <1>2, <1>3
<1>6. slip.upTo = 0 => ~w.canDiscount \/ w.ceiling = 0
  BY <1>1, <1>2
<1> QED BY <1>4, <1>5, <1>6 DEF Grants, slip

LEMMA EmptyWireGrants ==
  ASSUME NEW p, p.role = "CASHIER", p.permissions = NoWire
  PROVE  Deserializes(p)
<1>1. Permissions(NoWire).upTo = 0 BY DEF Permissions, NoWire
<1> QED BY <1>1 DEF Deserializes, KnownRoles

LEMMA RowsAreRows == \A p \in Profile : Row(p) \in StaffRow
BY DEF Profile, Row, StaffRow

LEMMA EditsAreProfiles == \A p \in Profile : Edits(p) \subseteq Profile
<1> SUFFICES ASSUME NEW p \in Profile, NEW q \in Edits(p) PROVE q \in Profile OBVIOUS
<1>1. CASE q = [p EXCEPT !.listed = ~p.listed]
  BY <1>1 DEF Profile
<1>2. CASE q = [p EXCEPT !.active = ~p.active]
  BY <1>2 DEF Profile
<1>3. CASE \E r \in RoleNames : q = [p EXCEPT !.role = r]
  BY <1>3 DEF Profile
<1>4. CASE \E n \in {"named", "blank"} : q = [p EXCEPT !.name = n]
  BY <1>4 DEF Profile
<1>5. CASE \E w \in Wires : q = [p EXCEPT !.permissions = w]
  BY <1>5 DEF Profile, AllWires
<1> QED BY <1>1, <1>2, <1>3, <1>4, <1>5 DEF Edits

-----------------------------------------------------------------------------
LEMMA StaffInitHolds == StaffInit => StaffInv
<1> SUFFICES ASSUME StaffInit PROVE StaffInv OBVIOUS
<1>1. PICK old \in [Staff -> {"named", "blank"}] : profiles = [o \in Staff |-> [Hired EXCEPT !.name = old[o]]]
  BY DEF StaffInit
<1>2. \A o \in Staff : /\ profiles[o] = [Hired EXCEPT !.name = old[o]] /\ profiles[o] \in Profile
                       /\ profiles[o].listed /\ profiles[o].active
                       /\ profiles[o].role = "CASHIER" /\ profiles[o].permissions = NoWire
  BY <1>1 DEF Hired, Profile, RoleNames, AllWires
<1>3. Hired \in Profile BY DEF Hired, Profile, RoleNames, AllWires
<1>4. StaffShape
  <2>1. profiles \in [Staff -> Profile] /\ saved \in [Staff -> Profile] BY <1>1, <1>2 DEF StaffInit
  <2>2. staff \in [Staff -> StaffRow] BY <1>2, RowsAreRows DEF StaffInit
  <2>3. round \in [Rounds -> [at : {"idle", "asked", "off", "save", "record"}, tag : Int, edition : Int, list : [Staff -> Profile]]]
    BY <1>3 DEF StaffInit, NoRound
  <2> QED BY <2>1, <2>2, <2>3 DEF StaffInit, StaffShape, Untold
<1>5. ListsAreRead
  <2>1. Carried = {} BY DEF StaffInit, Carried, NoRound
  <2>2. \A o \in Staff : Deserializes(profiles[o]) BY <1>2, EmptyWireGrants
  <2>3. \A o \in Staff : Holding(profiles[o]) BY <1>2 DEF Holding
  <2>4. saved = profiles BY DEF StaffInit
  <2> QED BY <2>1, <2>2, <2>3, <2>4 DEF ListsAreRead
<1>6. SavesCross BY DEF StaffInit, SavesCross, Stage, NoRound
<1>7. RowsAreTheSaved BY <1>2 DEF StaffInit, RowsAreTheSaved
<1>8. AbsentWereLeft BY <1>2 DEF StaffInit, AbsentWereLeft, Row
<1>9. RosterReads /\ SeatedAsGranted /\ InactiveIsDue
  BY DEF StaffInit, RosterReads, SeatedAsGranted, InactiveIsDue, Empty, Untold
<1> QED BY <1>4, <1>5, <1>6, <1>7, <1>8, <1>9 DEF StaffInv

-----------------------------------------------------------------------------
LEMMA ReviseKeeps == StaffInv /\ Revise => StaffInv'
<1> SUFFICES ASSUME StaffInv, Revise PROVE StaffInv' OBVIOUS
<1>1. /\ UNCHANGED <<staff, round, saved, ours, torn, crossed, seated, tag>> /\ told' = Untold
      /\ left' = left \cup {o \in Staff : ~Holding(profiles'[o])} /\ edition' = edition + 1
  BY DEF Revise, screenVars
<1>2. profiles' \in [Staff -> Profile]
  <2>1. PICK o \in Staff : \E p \in Edits(profiles[o]) : profiles' = [profiles EXCEPT ![o] = p] BY DEF Revise
  <2>2. PICK p \in Edits(profiles[o]) : profiles' = [profiles EXCEPT ![o] = p] BY <2>1
  <2>3. p \in Profile BY EditsAreProfiles DEF StaffInv, StaffShape
  <2> QED BY <2>2, <2>3 DEF StaffInv, StaffShape
<1>3. StaffShape' BY <1>1, <1>2 DEF StaffInv, StaffShape, Untold
<1>4. ListsAreRead' BY <1>1 DEF StaffInv, ListsAreRead, Carried
<1>5. SavesCross' BY <1>1 DEF StaffInv, SavesCross, Stage, NoneActive
<1>6. RowsAreTheSaved' BY <1>1 DEF StaffInv, RowsAreTheSaved
<1>7. AbsentWereLeft' BY <1>1 DEF StaffInv, AbsentWereLeft
<1>8. RosterReads' /\ SeatedAsGranted' /\ InactiveIsDue'
  BY <1>1 DEF StaffInv, RosterReads, SeatedAsGranted, InactiveIsDue, Untold
<1> QED BY <1>3, <1>4, <1>5, <1>6, <1>7, <1>8 DEF StaffInv

\* What leaves the table, the saved list and the rounds alone.
LEMMA DeskKeeps ==
  ASSUME StaffInv, UNCHANGED <<profiles, edition, staff, round, saved, ours, torn, crossed, left, tag>>,
         SeatedAsGranted', InactiveIsDue',
         told'.what \in {"none", "unknown", "store", "inactive", "unreachable"}
  PROVE  StaffInv'
<1>1. StaffShape' BY DEF StaffInv, StaffShape
<1>2. ListsAreRead' BY DEF StaffInv, ListsAreRead, Carried
<1>3. SavesCross' BY DEF StaffInv, SavesCross, Stage, NoneActive
<1>4. RowsAreTheSaved' /\ AbsentWereLeft' /\ RosterReads'
  BY DEF StaffInv, RowsAreTheSaved, AbsentWereLeft, RosterReads
<1> QED BY <1>1, <1>2, <1>3, <1>4 DEF StaffInv

LEMMA LoadOperatorsKeeps == StaffInv /\ LoadOperators => StaffInv'
<1> SUFFICES ASSUME StaffInv, LoadOperators PROVE StaffInv' OBVIOUS
<1>1. /\ UNCHANGED <<profiles, edition, staff, round, saved, ours, torn, crossed, left, tag, seated>>
      /\ told' = Untold
  BY DEF LoadOperators, staffPlatform, staffHistory
<1> QED BY <1>1, DeskKeeps DEF StaffInv, SeatedAsGranted, InactiveIsDue, Untold

LEMMA PinAcceptedKeeps == \A o \in Staff : StaffInv /\ PinAccepted(o) => StaffInv'
<1> SUFFICES ASSUME NEW o \in Staff, StaffInv, PinAccepted(o) PROVE StaffInv' OBVIOUS
<1>1. /\ UNCHANGED <<profiles, edition, staff, round, saved, ours, torn, crossed, left, tag>>
      /\ told' = Untold /\ seated'.as = Permissions(profiles[o].permissions)
      /\ seated'.read = profiles[o].permissions /\ Converts(profiles[o])
  BY DEF PinAccepted, staffPlatform, staffHistory
<1>2. profiles[o].permissions \in AllWires BY DEF StaffInv, StaffShape, Profile
<1>3. Permissions(profiles[o].permissions).upTo <= 100
  BY <1>1 DEF Converts, Deserializes
<1>4. SeatedAsGranted' BY <1>1, <1>2, <1>3, SlipGrants DEF SeatedAsGranted
<1> QED BY <1>1, <1>4, DeskKeeps DEF InactiveIsDue, Untold

LEMMA PinOfflineKeeps == \A o \in Staff : StaffInv /\ PinOffline(o) => StaffInv'
<1> SUFFICES ASSUME NEW o \in Staff, StaffInv, PinOffline(o) PROVE StaffInv' OBVIOUS
<1>1. /\ UNCHANGED <<profiles, edition, staff, round, saved, ours, torn, crossed, left, tag, seated>>
      /\ told' = [by |-> o, torn |-> torn,
                  what |-> IF staff[o] = NoOperator THEN "unknown"
                           ELSE IF ~Reads(staff[o]) THEN "store"
                           ELSE IF ~staff[o].active THEN "inactive" ELSE "unreachable"]
  BY DEF PinOffline, staffPlatform, staffHistory, screenVars
<1> DEFINE was == torn
<1>2. told'.by = o /\ told'.torn = was
  BY <1>1
<1>3. told'.what \in {"unknown", "store", "inactive", "unreachable"} BY <1>1
<1>4. told'.what = "inactive" => ~staff[o].active BY <1>1
<1>5. InactiveIsDue'
  BY <1>1, <1>2, <1>4, Zenon DEF InactiveIsDue, StaffInv, AbsentWereLeft
<1> QED BY <1>1, <1>3, <1>5, DeskKeeps DEF StaffInv, SeatedAsGranted

LEMMA SignOutKeeps == StaffInv /\ SignOut => StaffInv'
<1> SUFFICES ASSUME StaffInv, SignOut PROVE StaffInv' OBVIOUS
<1>1. /\ UNCHANGED <<profiles, edition, staff, round, saved, ours, torn, crossed, left, tag>>
      /\ told' = Untold /\ seated' = Empty
  BY DEF SignOut, staffPlatform, staffHistory
<1> QED BY <1>1, DeskKeeps DEF SeatedAsGranted, Empty, InactiveIsDue, Untold

-----------------------------------------------------------------------------
(* The rounds.                                                             *)

RoundSet == [at : {"idle", "asked", "off", "save", "record"}, tag : Int, edition : Int, list : [Staff -> Profile]]

LEMMA NoRoundIsOne == NoRound \in RoundSet /\ NoRound.at = "idle"
BY DEF NoRound, RoundSet, Hired, Profile, RoleNames, AllWires

\* A round that is at neither write, or is ended, disturbs no other.
LEMMA RoundMoves ==
  ASSUME StaffInv, round' \in [Rounds -> RoundSet], tag' \in Int,
         UNCHANGED <<profiles, edition, staff, saved, ours, torn, crossed, left, seated>>, told' = Untold,
         \A c \in Rounds : round'[c] = round[c] \/ round'[c].at \in {"idle", "asked", "record"}
           \/ (round'[c].at = "off" /\ \A o \in Staff : /\ round'[c].list[o].listed => Converts(round'[c].list[o])
                                                        /\ ~Holding(round'[c].list[o]) => o \in left)
  PROVE  StaffInv'
<1>1. StaffShape' BY DEF StaffInv, StaffShape, RoundSet, Untold
<1>2. ListsAreRead'
  <2>1. ASSUME NEW c \in Rounds, (c \in Carried)', NEW o \in Staff
        PROVE  /\ round'[c].list[o].listed => Converts(round'[c].list[o])
               /\ ~Holding(round'[c].list[o]) => o \in left
    <3>1. CASE round'[c] = round[c]
      BY <2>1, <3>1 DEF StaffInv, ListsAreRead, Carried
    <3>2. CASE round'[c] # round[c]
      <4>1. round'[c].at \in {"off", "save"} BY <2>1 DEF Carried
      <4>2. /\ round'[c].at = "off"
            /\ \A i \in Staff : /\ round'[c].list[i].listed => Converts(round'[c].list[i])
                                /\ ~Holding(round'[c].list[i]) => i \in left
        BY <3>2, <4>1
      <4> QED BY <2>1, <4>2
    <3> QED BY <3>1, <3>2
  <2> QED BY <2>1 DEF StaffInv, ListsAreRead, Carried
<1>3. \A c \in Rounds : Stage(c, "save")' => Stage(c, "save") BY DEF Stage
<1>4. SavesCross' BY <1>3 DEF StaffInv, SavesCross, NoneActive
<1>5. RowsAreTheSaved' /\ AbsentWereLeft' /\ RosterReads'
  BY DEF StaffInv, RowsAreTheSaved, AbsentWereLeft, RosterReads
<1>6. SeatedAsGranted' /\ InactiveIsDue'
  BY DEF StaffInv, SeatedAsGranted, InactiveIsDue, Untold
<1> QED BY <1>1, <1>2, <1>4, <1>5, <1>6 DEF StaffInv

LEMMA AskRosterKeeps == \A c \in Rounds : StaffInv /\ AskRoster(c) => StaffInv'
<1> SUFFICES ASSUME NEW c \in Rounds, StaffInv, AskRoster(c) PROVE StaffInv' OBVIOUS
<1>1. /\ UNCHANGED <<profiles, edition, staff, saved, ours, torn, crossed, left, seated, tag>> /\ told' = Untold
      /\ round' = [round EXCEPT ![c].at = "asked", ![c].tag = tag]
  BY DEF AskRoster, staffPlatform, staffHistory, screenVars
<1>2. round \in [Rounds -> RoundSet] /\ tag \in Int BY DEF StaffInv, StaffShape, RoundSet
<1>3. round' \in [Rounds -> RoundSet] BY <1>1, <1>2 DEF RoundSet
<1>4. \A d \in Rounds : round'[d] = round[d] \/ round'[d].at = "asked" BY <1>1, <1>2
<1> QED BY <1>1, <1>2, <1>3, <1>4, RoundMoves

LEMMA FinishesShape ==
  ASSUME StaffInv, NEW c \in Rounds, Finishes(c)
  PROVE  /\ round' \in [Rounds -> RoundSet]
         /\ \A d \in Rounds : round'[d] = round[d] \/ round'[d].at = "idle"
BY NoRoundIsOne DEF Finishes, StaffInv, StaffShape, RoundSet

LEMMA HearRosterKeeps == \A c \in Rounds : StaffInv /\ HearRoster(c) => StaffInv'
<1> SUFFICES ASSUME NEW c \in Rounds, StaffInv, HearRoster(c) PROVE StaffInv' OBVIOUS
<1>1. /\ UNCHANGED <<profiles, edition, staff, saved, ours, torn, crossed, left, seated, tag>> /\ told' = Untold
      /\ tag \in Int
  BY DEF HearRoster, staffPlatform, staffHistory, screenVars, StaffInv, StaffShape
<1>2. CASE Finishes(c) BY <1>1, <1>2, FinishesShape, RoundMoves
<1>3. CASE /\ \A o \in Staff : profiles[o].listed => Converts(profiles[o])
           /\ round' = [round EXCEPT ![c] = [NoRound EXCEPT !.at = "off", !.edition = edition, !.list = profiles]]
  <2> DEFINE new == [NoRound EXCEPT !.at = "off", !.edition = edition, !.list = profiles]
  <2>1. new \in RoundSet /\ new.at = "off" /\ new.list = profiles
    BY NoRoundIsOne DEF StaffInv, StaffShape, RoundSet, NoRound
  <2>2. round \in [Rounds -> RoundSet] BY DEF StaffInv, StaffShape, RoundSet
  <2> HIDE DEF new
  <2>3. round' = [round EXCEPT ![c] = new] BY <1>3 DEF new
  <2>4. round' \in [Rounds -> RoundSet] BY <2>1, <2>2, <2>3
  <2>5. \A d \in Rounds : round'[d] = round[d] \/ (round'[d].at = "off" /\ round'[d].list = profiles)
    BY <2>1, <2>2, <2>3
  <2>6. \A o \in Staff : ~Holding(profiles[o]) => o \in left BY DEF StaffInv, ListsAreRead
  <2> QED BY <1>1, <1>3, <2>4, <2>5, <2>6, RoundMoves
<1> QED BY <1>2, <1>3 DEF HearRoster

LEMMA RecordRosterKeeps == \A c \in Rounds : StaffInv /\ RecordRoster(c) => StaffInv'
<1> SUFFICES ASSUME NEW c \in Rounds, StaffInv, RecordRoster(c) PROVE StaffInv' OBVIOUS
<1>1. /\ UNCHANGED <<profiles, edition, staff, saved, ours, torn, crossed, left, seated>> /\ told' = Untold
      /\ tag' = round[c].edition /\ Finishes(c)
  BY DEF RecordRoster, staffPlatform, staffHistory, screenVars
<1>2. tag' \in Int BY <1>1 DEF StaffInv, StaffShape
<1> QED BY <1>1, <1>2, FinishesShape, RoundMoves

LEMMA RoundFailsKeeps == \A c \in Rounds : StaffInv /\ RoundFails(c) => StaffInv'
<1> SUFFICES ASSUME NEW c \in Rounds, StaffInv, RoundFails(c) PROVE StaffInv' OBVIOUS
<1>1. /\ UNCHANGED <<profiles, edition, staff, saved, ours, torn, crossed, left, seated, tag>> /\ told' = Untold
      /\ Finishes(c) /\ tag \in Int
  BY DEF RoundFails, staffPlatform, staffHistory, screenVars, StaffInv, StaffShape
<1> QED BY <1>1, FinishesShape, RoundMoves

LEMMA RosterRestartsKeeps == StaffInv /\ RosterRestarts => StaffInv'
<1> SUFFICES ASSUME StaffInv, RosterRestarts PROVE StaffInv' OBVIOUS
<1>1. /\ UNCHANGED <<profiles, edition, staff, saved, ours, torn, crossed, left, tag>> /\ told' = Untold
      /\ round' = [c \in Rounds |-> NoRound] /\ seated' = Empty
  BY DEF RosterRestarts, staffPlatform, staffHistory
<1>2. StaffShape' BY <1>1, NoRoundIsOne DEF StaffInv, StaffShape, RoundSet, Untold
<1>3. ListsAreRead' BY <1>1, NoRoundIsOne DEF StaffInv, ListsAreRead, Carried
<1>4. SavesCross' BY <1>1, NoRoundIsOne DEF StaffInv, SavesCross, Stage, NoneActive
<1>5. RowsAreTheSaved' /\ AbsentWereLeft' /\ RosterReads'
  BY <1>1 DEF StaffInv, RowsAreTheSaved, AbsentWereLeft, RosterReads
<1>6. SeatedAsGranted' /\ InactiveIsDue'
  BY <1>1 DEF SeatedAsGranted, Empty, InactiveIsDue, Untold
<1> QED BY <1>2, <1>3, <1>4, <1>5, <1>6 DEF StaffInv

\* The operators are switched off: whoever is saving already is crossed.
LEMMA DeactivateAllKeeps == \A c \in Rounds : StaffInv /\ DeactivateAll(c) => StaffInv'
<1> SUFFICES ASSUME NEW c \in Rounds, StaffInv, DeactivateAll(c) PROVE StaffInv' OBVIOUS
<1>1. /\ UNCHANGED <<profiles, edition, tag, seated, saved, ours, left>> /\ told' = Untold
      /\ round' = [round EXCEPT ![c].at = "save"] /\ round[c].at = "off"
      /\ staff' = [o \in Staff |-> [staff[o] EXCEPT !.active = FALSE]]
      /\ torn' = TRUE /\ crossed' = \E d \in Rounds : Stage(d, "save")
  BY DEF DeactivateAll, staffPlatform, screenVars, Stage, Moves
<1>2. staff' \in [Staff -> StaffRow] /\ \A o \in Staff : ~staff'[o].active
  BY <1>1 DEF StaffInv, StaffShape, StaffRow
<1>3. round \in [Rounds -> RoundSet] BY DEF StaffInv, StaffShape, RoundSet
<1>4. /\ round' \in [Rounds -> RoundSet]
      /\ \A d \in Rounds : round'[d].list = round[d].list /\ (d # c => round'[d] = round[d])
  BY <1>1, <1>3 DEF RoundSet
<1>5. StaffShape' BY <1>1, <1>2, <1>4 DEF StaffInv, StaffShape, RoundSet, Untold
<1>6. ListsAreRead'
  BY <1>1, <1>4 DEF StaffInv, ListsAreRead, Carried
<1>7. SavesCross'
  <2>1. NoneActive' BY <1>2 DEF NoneActive
  <2>2. ASSUME NEW d \in Rounds, NEW e \in Rounds, Stage(d, "save")', Stage(e, "save")', d # e
        PROVE  crossed'
    <3>1. Stage(d, "save") \/ Stage(e, "save") BY <1>4, <2>2 DEF Stage
    <3> QED BY <3>1, <1>1
  <2> QED BY <2>1, <2>2, <1>1 DEF SavesCross
<1>8. RowsAreTheSaved' /\ AbsentWereLeft' BY <1>1 DEF RowsAreTheSaved, AbsentWereLeft
<1>9. RosterReads' BY <1>2 DEF RosterReads
<1>10. SeatedAsGranted' /\ InactiveIsDue'
  BY <1>1 DEF StaffInv, SeatedAsGranted, InactiveIsDue, Untold
<1> QED BY <1>5, <1>6, <1>7, <1>8, <1>9, <1>10 DEF StaffInv

\* The list is saved: unless another crossed it, nobody else is active.
LEMMA SaveOperatorsKeeps == \A c \in Rounds : StaffInv /\ SaveOperators(c) => StaffInv'
<1> SUFFICES ASSUME NEW c \in Rounds, StaffInv, SaveOperators(c) PROVE StaffInv' OBVIOUS
<1> DEFINE list == round[c].list
<1>1. /\ UNCHANGED <<profiles, edition, tag, seated, crossed, left>> /\ told' = Untold
      /\ round' = [round EXCEPT ![c] = [NoRound EXCEPT !.at = "record", !.edition = round[c].edition]]
      /\ staff' = [o \in Staff |-> IF list[o].listed THEN Row(list[o]) ELSE staff[o]]
      /\ saved' = list /\ ours' = TRUE /\ torn' = FALSE /\ round[c].at = "save"
  BY DEF SaveOperators, staffPlatform, screenVars, Stage
<1>2. round \in [Rounds -> RoundSet] BY DEF StaffInv, StaffShape, RoundSet
<1>3. /\ list \in [Staff -> Profile] /\ c \in Carried
      /\ \A o \in Staff : /\ list[o].listed => Converts(list[o])
                          /\ ~Holding(list[o]) => o \in left
  BY <1>1, <1>2 DEF StaffInv, ListsAreRead, Carried, RoundSet
<1>4. /\ round' \in [Rounds -> RoundSet]
      /\ round'[c].at = "record" /\ \A d \in Rounds : d # c => round'[d] = round[d]
  <2> DEFINE new == [NoRound EXCEPT !.at = "record", !.edition = round[c].edition]
  <2>1. new \in RoundSet /\ new.at = "record" BY <1>2, NoRoundIsOne DEF RoundSet, NoRound
  <2> HIDE DEF new
  <2>2. round' = [round EXCEPT ![c] = new] BY <1>1 DEF new
  <2> QED BY <1>2, <2>1, <2>2
<1> HIDE DEF list
<1>5. staff' \in [Staff -> StaffRow]
  <2>1. \A o \in Staff : list[o] \in Profile BY <1>3
  <2>2. \A o \in Staff : Row(list[o]) \in StaffRow BY <2>1, RowsAreRows
  <2>3. staff \in [Staff -> StaffRow] BY DEF StaffInv, StaffShape
  <2> QED BY <1>1, <2>2, <2>3
<1>6. StaffShape' BY <1>1, <1>3, <1>4, <1>5 DEF StaffInv, StaffShape, RoundSet, Untold
<1>7. ListsAreRead'
  <2>1. \A d \in Rounds : (d \in Carried)' => d \in Carried /\ round'[d] = round[d]
    BY <1>4 DEF Carried
  <2>2. \A o \in Staff : saved'[o].listed => Deserializes(saved'[o])
    BY <1>1, <1>3 DEF Converts
  <2>3. \A o \in Staff : ~Holding(profiles[o])' => (o \in left)' BY <1>1 DEF StaffInv, ListsAreRead
  <2>4. \A d \in Rounds : (d \in Carried)' =>
          \A o \in Staff : /\ round'[d].list[o].listed => Converts(round'[d].list[o])
                           /\ ~Holding(round'[d].list[o]) => o \in left'
    BY <2>1, <1>1 DEF StaffInv, ListsAreRead
  <2>5. Carried' \subseteq Rounds BY DEF Carried
  <2> QED BY <2>2, <2>3, <2>4, <2>5 DEF ListsAreRead
<1>8. ~crossed \/ ~ours => NoneActive
  <2>1. Stage(c, "save") BY <1>1 DEF Stage
  <2> QED BY <2>1 DEF StaffInv, SavesCross
<1>9. SavesCross'
  <2>1. \A d \in Rounds : Stage(d, "save")' => d # c /\ Stage(d, "save")
    BY <1>4 DEF Stage
  <2>2. \A d \in Rounds : Stage(d, "save")' => crossed
    BY <2>1, <1>1 DEF StaffInv, SavesCross, Stage
  <2> QED BY <2>1, <2>2, <1>1 DEF SavesCross
<1>10. \A o \in Staff : /\ list[o].listed => /\ staff'[o] = Row(list[o]) /\ staff'[o].active = list[o].active
                                              /\ staff'[o].name = list[o].name
                        /\ ~list[o].listed => staff'[o] = staff[o]
  BY <1>1 DEF Row
<1>11. RowsAreTheSaved'
  BY <1>1, <1>8, <1>10 DEF RowsAreTheSaved, NoneActive
<1>12. AbsentWereLeft'
  BY <1>1, <1>3, <1>10 DEF AbsentWereLeft, Holding
<1>13. RosterReads'
  <2> SUFFICES ASSUME NEW o \in Staff, staff'[o].active PROVE staff'[o].name # "blank"
    BY <1>1 DEF RosterReads, Reads
  <2>1. CASE list[o].listed
    BY <1>3, <1>10, <2>1 DEF Converts
  <2>2. CASE ~list[o].listed
    <3>1. staff[o].active BY <1>10, <2>2
    <3>2. ours BY <1>8, <3>1 DEF NoneActive
    <3> QED BY <1>10, <2>2, <3>1, <3>2 DEF StaffInv, RosterReads, Reads
  <2> QED BY <2>1, <2>2
<1>14. SeatedAsGranted' /\ InactiveIsDue'
  BY <1>1 DEF StaffInv, SeatedAsGranted, InactiveIsDue, Untold
<1> QED BY <1>6, <1>7, <1>9, <1>11, <1>12, <1>13, <1>14 DEF StaffInv

-----------------------------------------------------------------------------
LEMMA StaffNextKeeps == StaffInv /\ [StaffNext]_staffVars => StaffInv'
<1> SUFFICES ASSUME StaffInv, [StaffNext]_staffVars PROVE StaffInv' OBVIOUS
<1>1. CASE UNCHANGED staffVars
  <2>1. UNCHANGED <<profiles, edition, staff, round, saved, ours, torn, crossed, left, tag, seated, told>>
    BY <1>1 DEF staffVars, staffPlatform, staffHistory, screenVars
  <2> QED BY <2>1, DeskKeeps DEF StaffInv, StaffShape, SeatedAsGranted, InactiveIsDue
<1> QED
  BY <1>1, ReviseKeeps, LoadOperatorsKeeps, SignOutKeeps, RosterRestartsKeeps, AskRosterKeeps, HearRosterKeeps,
     DeactivateAllKeeps, SaveOperatorsKeeps, RecordRosterKeeps, RoundFailsKeeps, PinAcceptedKeeps, PinOfflineKeeps
  DEF StaffNext

LEMMA StaffInvIsEnough == StaffInv => RosterIsTrue
<1> SUFFICES ASSUME StaffInv PROVE RosterIsTrue OBVIOUS
<1>1. RosterIsOnePublished
  <2> SUFFICES ASSUME ~torn, ~crossed, NEW o \in Staff
               PROVE  /\ staff[o].active = Holding(saved[o])
                      /\ staff[o].active => staff[o].role = saved[o].role /\ staff[o].name = saved[o].name
    BY DEF RosterIsOnePublished
  <2>1. IF saved[o].listed THEN staff[o] = Row(saved[o]) ELSE ~staff[o].active
    BY DEF StaffInv, RowsAreTheSaved
  <2>2. staff[o].active \in BOOLEAN /\ saved[o].active \in BOOLEAN
    BY DEF StaffInv, StaffShape, StaffRow, Profile
  <2>3. staff[o].active <=> Holding(saved[o])
    BY <2>1, <2>2 DEF Row, Holding
  <2>4. Holding(saved[o]) \in BOOLEAN BY <2>2 DEF Holding
  <2>5. staff[o].active = Holding(saved[o]) BY <2>2, <2>3, <2>4
  <2>6. staff[o].active => staff[o].role = saved[o].role /\ staff[o].name = saved[o].name
    BY <2>1 DEF Row
  <2> QED BY <2>5, <2>6
<1>2. AuthorityIsGranted
  <2> SUFFICES ASSUME ~torn, ~crossed, NEW o \in Staff, staff[o].active
               PROVE  Grants(saved[o].permissions, Permissions(staff[o].permissions))
    BY DEF AuthorityIsGranted, StaffInv, SeatedAsGranted
  <2>1. saved[o].listed /\ staff[o] = Row(saved[o]) BY DEF StaffInv, RowsAreTheSaved
  <2>2. saved[o].permissions \in AllWires /\ Deserializes(saved[o])
    BY <2>1 DEF StaffInv, StaffShape, Profile, ListsAreRead
  <2>3. staff[o].permissions = PermissionsWire(Permissions(saved[o].permissions)) BY <2>1 DEF Row
  <2>4. Permissions(saved[o].permissions).upTo <= 100 BY <2>2 DEF Deserializes
  <2> QED BY <2>2, <2>3, <2>4, SlipSurvives, SlipGrants
<1> QED BY <1>1, <1>2 DEF RosterIsTrue, StaffInv

\* However rounds and restarts cut between its two writes: the roster is one
\* published list, an operator holds what the platform granted, and one told to
\* be inactive was left out by it (SyncService::sync_operators,
\* AuthService::verify_pin_offline).
THEOREM RosterTrueAlways == StaffSpec => []RosterIsTrue
<1>1. StaffInit => StaffInv BY StaffInitHolds
<1>2. StaffInv /\ [StaffNext]_staffVars => StaffInv' BY StaffNextKeeps
<1>3. StaffInv => RosterIsTrue BY StaffInvIsEnough
<1> QED BY <1>1, <1>2, <1>3, PTL DEF StaffSpec

-----------------------------------------------------------------------------
(* The shifts and the reports of the day.                                  *)

IsSeq(s) == s \in Seq({s[i] : i \in DOMAIN s})
Number == [date : Nat, no : Nat]
Totals == [counts : SUBSET Nat, gross : {{}}, returns : {{}}]
Report == [date : Nat, number : Nat, totals : Totals, lists : SUBSET Nat]
ReportRow == [date : Nat, number : Nat, totals : Totals, cached : BOOLEAN, missed : SUBSET Nat,
              open : SUBSET Nat, synced : BOOLEAN]
RowSet == [of : Nat, cash : Int, shift : Nat, day : Nat, on : Nat, named : Nat, type : {"SALE"}, total : {0}]
ClerkSet == [at : {"idle", "starting", "opening", "opened", "closing", "day", "cached", "fresh", "saved", "reporting"},
             shift : Nat, number : Number, report : Report, seen : SUBSET Nat]
\* What a drawer holds is summed from the rows: nothing is said of its type.
IsShiftRow(x) ==
  /\ x = [st |-> x.st, day |-> x.day, number |-> x.number, counted |-> x.counted,
          expected |-> x.expected, server |-> x.server]
  /\ x.st \in {"ACTIVE", "CLOSED"} /\ x.day \in Nat /\ x.number \in Number /\ x.server \in Nat

DayShape ==
  /\ IsSeq(shifts) /\ \A s \in DOMAIN shifts : IsShiftRow(shifts[s])
  /\ rows \in Seq(RowSet)
  /\ issued \in Seq(Nat)
  /\ current = [id |-> current.id, expected |-> current.expected] /\ current.id \in Nat
  /\ clerk \in [Clerks -> ClerkSet]
  /\ day = [here |-> day.here, utc |-> day.utc] /\ day.here \in Nat \ {0} /\ day.utc \in Nat /\ restarts \in Nat
  /\ preview \in Report /\ preview.date <= day.here
  /\ IsFiniteSet(reports) /\ reports \subseteq ReportRow
  /\ \A t \in Clerks : clerk[t].report.date <= day.here

DayBounds ==
  /\ Len(shifts) <= MaxShifts /\ Len(rows) + restarts + day.here <= MaxEvents + 1
  /\ \A r \in DOMAIN rows : rows[r].of < r /\ rows[r].shift \in DOMAIN shifts
  /\ current.id <= Len(shifts) /\ closures \subseteq 1..day.here
  /\ IF East THEN day.utc \in {day.here - 1, day.here} ELSE day.utc \in {day.here, day.here + 1}
  /\ \A t \in Clerks : clerk[t].at \in {"cached", "fresh", "saved", "reporting"} => clerk[t].report.date >= 1
  /\ preview # NoReport => preview.date >= 1

\* The shift a call is about is in the table; one it closes is closed.
CallsKnowTheirs ==
  \A t \in Clerks :
    /\ clerk[t].at \in {"opening", "opened", "closing"} => clerk[t].shift \in DOMAIN shifts
    /\ clerk[t].at = "closing" => shifts[clerk[t].shift].st = "CLOSED"

\* Numbers are counted, and while one start is under way no shift is open.
StartsAlone ==
  "two-starts" \notin dayHistory =>
    /\ \A t, u \in Clerks : clerk[t].at = "starting" /\ clerk[u].at = "starting" => t = u
    /\ \A t \in Clerks : clerk[t].at = "starting" =>
         /\ \A s \in DOMAIN shifts : shifts[s].st = "CLOSED"
         /\ clerk[t].number.no = Cardinality(Numbered(clerk[t].number.date)) + 1
    /\ \A s \in DOMAIN shifts : shifts[s].number.no <= Cardinality(Numbered(shifts[s].number.date))
    /\ \A s, u \in DOMAIN shifts : shifts[s].number = shifts[u].number => s = u
    /\ \A s, u \in DOMAIN shifts : shifts[s].st = "ACTIVE" /\ shifts[u].st = "ACTIVE" => s = u

ServersAreIssued ==
  \A s \in DOMAIN shifts : shifts[s].server # 0 => shifts[s].server \in DOMAIN issued /\ issued[shifts[s].server] = s

\* The shifts a closing saw are closed, and stay so; the rows a fresh report
\* misses are of other shifts.
SeenIsClosed ==
  \A t \in Clerks : Closes(t) =>
    /\ \A s \in clerk[t].seen : s \in DOMAIN shifts /\ shifts[s].st = "CLOSED"
    /\ clerk[t].at = "fresh" /\ "rung-in-closed" \notin dayHistory =>
         \A n \in RowsOf(clerk[t].report.date) \ clerk[t].report.totals.counts : rows[n].shift \notin clerk[t].seen

\* A closing by itself closes a day that has no report of its own yet.
ClosesAlone ==
  /\ \A r \in reports : r.date <= day.here
  /\ "two-closings" \notin dayHistory =>
       /\ \A t, u \in Clerks : Closes(t) /\ Closes(u) => t = u
       /\ \A t \in Clerks, r \in reports : ~r.cached =>
            /\ clerk[t].at = "day" => r.date < day.here
            /\ clerk[t].at = "fresh" => r.date < clerk[t].report.date

ReportIsSaved ==
  \A t \in Clerks : clerk[t].at \in {"saved", "reporting"} => \E r \in reports : r.date = clerk[t].report.date

ShiftsInv == DayShape /\ DayBounds /\ CallsKnowTheirs /\ StartsAlone /\ OpenShiftIsKnown
             /\ ClosedShiftIsLeft /\ ServersAreIssued /\ SalesNameTheirShift
\* What ReportsAreWhole says of days and rows; the shape of a report says the rest.
DayIsReported == ClosedDayHasReport /\ FreshReportIsWhole
ReportsInv == SeenIsClosed /\ ClosesAlone /\ ReportIsSaved /\ DayIsReported
DayInv == ShiftsInv /\ ReportsInv
-----------------------------------------------------------------------------
(* Sequences of rows of which one field has no type.                       *)

LEMMA SeqFacts ==
  ASSUME NEW s, IsSeq(s)
  PROVE  Len(s) \in Nat /\ DOMAIN s = 1..Len(s)
BY LenProperties DEF IsSeq

LEMMA FcnIsSeq ==
  ASSUME NEW n \in Nat, NEW q, q = [i \in 1..n |-> q[i]]
  PROVE  IsSeq(q) /\ Len(q) = n /\ DOMAIN q = 1..n
<1> DEFINE T == {q[i] : i \in DOMAIN q}
<1>1. DOMAIN q = 1..n OBVIOUS
<1>2. q \in [1..n -> T] BY <1>1
<1>3. q \in Seq(T) BY <1>2, SeqDef
<1>4. Len(q) \in Nat /\ DOMAIN q = 1..Len(q) BY <1>3, LenProperties
<1>5. Len(q) = n BY <1>1, <1>4
<1> QED BY <1>1, <1>3, <1>5 DEF IsSeq

LEMMA SeqGrows ==
  ASSUME NEW s, IsSeq(s), NEW e
  PROVE  /\ IsSeq(Append(s, e)) /\ Len(Append(s, e)) = Len(s) + 1
         /\ DOMAIN Append(s, e) = 1..(Len(s) + 1)
         /\ \A i \in 1..Len(s) : Append(s, e)[i] = s[i]
         /\ Append(s, e)[Len(s) + 1] = e
<1> DEFINE R == {s[i] : i \in DOMAIN s}
           T == R \cup {e}
           q == Append(s, e)
<1>1. s \in Seq(T)
  <2>1. R \subseteq T OBVIOUS
  <2>2. s \in Seq(R) BY DEF IsSeq
  <2> HIDE DEF R, T
  <2> QED BY <2>1, <2>2, SeqMonotonic
<1>2. e \in T OBVIOUS
<1> HIDE DEF R, T
<1>3. /\ q \in Seq(T) /\ Len(q) = Len(s) + 1 /\ q[Len(s) + 1] = e
      /\ \A i \in 1..Len(s) : q[i] = s[i]
  BY <1>1, <1>2, AppendProperties
<1>4. Len(s) \in Nat BY SeqFacts
<1>5. Len(q) \in Nat /\ q \in [1..Len(q) -> T] BY <1>3, LenProperties
<1> HIDE DEF q
<1>6. q = [i \in 1..Len(q) |-> q[i]] BY <1>5
<1>7. IsSeq(q) /\ DOMAIN q = 1..Len(q) BY <1>5, <1>6, FcnIsSeq
<1> QED BY <1>3, <1>7 DEF q

LEMMA SeqChanges ==
  ASSUME NEW s, IsSeq(s), NEW i \in DOMAIN s, NEW e
  PROVE  /\ IsSeq([s EXCEPT ![i] = e]) /\ Len([s EXCEPT ![i] = e]) = Len(s)
         /\ DOMAIN [s EXCEPT ![i] = e] = DOMAIN s
         /\ [s EXCEPT ![i] = e][i] = e
         /\ \A j \in DOMAIN s : j # i => [s EXCEPT ![i] = e][j] = s[j]
<1> DEFINE q == [s EXCEPT ![i] = e]
<1>1. Len(s) \in Nat /\ DOMAIN s = 1..Len(s) BY SeqFacts
<1>2. q = [j \in 1..Len(s) |-> IF j = i THEN e ELSE s[j]] BY <1>1
<1>3. DOMAIN q = 1..Len(s) /\ q[i] = e /\ \A j \in DOMAIN s : j # i => q[j] = s[j] BY <1>1, <1>2
<1>4. q = [j \in 1..Len(s) |-> q[j]] BY <1>2
<1> HIDE DEF q
<1>5. IsSeq(q) /\ Len(q) = Len(s) BY <1>1, <1>4, FcnIsSeq
<1> QED BY <1>1, <1>3, <1>5 DEF q

LEMMA NumberedFinite ==
  ASSUME IsSeq(shifts), NEW d
  PROVE  IsFiniteSet(Numbered(d)) /\ Cardinality(Numbered(d)) \in Nat
<1>1. DOMAIN shifts = 1..Len(shifts) /\ Len(shifts) \in Nat BY SeqFacts
<1>2. IsFiniteSet(DOMAIN shifts) BY <1>1, FS_Interval
<1>3. Numbered(d) \subseteq DOMAIN shifts BY DEF Numbered
<1> QED BY <1>2, <1>3, FS_Subset, FS_CardinalityType

LEMMA FreeFacts ==
  /\ NoReport \in Report /\ NoReport.date = 0
  /\ Free \in ClerkSet /\ Free.at = "idle" /\ Free.report = NoReport /\ Free.seen = {} /\ Free.shift = 0
BY DEF NoReport, NoTotals, Totals, Report, Free, ClerkSet, NoNumber, Number

-----------------------------------------------------------------------------
LEMMA DayInitHolds == DayInit => DayInv
<1> SUFFICES ASSUME DayInit PROVE DayInv OBVIOUS
<1>1. shifts = <<>> /\ rows = <<>> /\ issued = <<>> /\ Len(shifts) = 0 /\ Len(rows) = 0
  BY EmptySeq DEF DayInit
<1>2. DOMAIN shifts = {} /\ DOMAIN rows = {} /\ IsSeq(shifts)
  BY <1>1, EmptySeq DEF IsSeq
<1>3. \A t \in Clerks : clerk[t] = Free BY DEF DayInit
<1>4. DayShape
  BY <1>1, <1>2, FreeFacts, EmptySeq, FS_EmptySet DEF DayInit, DayShape, NoShift
<1>5. DayBounds
  BY <1>1, <1>2, <1>3, FreeFacts, DayAssumption DEF DayInit, DayBounds, NoShift
<1>6. CallsKnowTheirs /\ StartsAlone
  BY <1>2, <1>3, FreeFacts DEF CallsKnowTheirs, StartsAlone
<1>7. OpenShiftIsKnown /\ ClosedShiftIsLeft /\ ServersAreIssued /\ SalesNameTheirShift
  BY <1>2 DEF OpenShiftIsKnown, ClosedShiftIsLeft, ServersAreIssued, SalesNameTheirShift, ActiveRows
<1>8. SeenIsClosed /\ ReportIsSaved
  BY <1>3, FreeFacts DEF SeenIsClosed, ReportIsSaved, Closes
<1>9. ClosesAlone
  BY <1>3, FreeFacts DEF DayInit, ClosesAlone, Closes
<1>10. DayIsReported
  BY DEF DayInit, DayIsReported, ClosedDayHasReport, FreshReportIsWhole
<1> QED BY <1>4, <1>5, <1>6, <1>7, <1>8, <1>9, <1>10 DEF DayInv, ShiftsInv, ReportsInv

-----------------------------------------------------------------------------
(* What a step that leaves something alone keeps.                          *)

LEMMA CallsFrame ==
  ASSUME CallsKnowTheirs, UNCHANGED shifts,
         \A t \in Clerks : clerk'[t].at \in {"opening", "opened", "closing"} =>
            /\ clerk'[t].shift = clerk[t].shift /\ clerk[t].at \in {"opening", "opened", "closing"}
            /\ clerk'[t].at = "closing" => clerk[t].at = "closing"
  PROVE  CallsKnowTheirs'
BY DEF CallsKnowTheirs

LEMMA StartsFrame ==
  ASSUME StartsAlone, UNCHANGED shifts,
         "two-starts" \notin dayHistory' => "two-starts" \notin dayHistory,
         \A t \in Clerks : clerk'[t].at = "starting" =>
            clerk[t].at = "starting" /\ clerk'[t].number = clerk[t].number
  PROVE  StartsAlone'
<1>1. \A d : Numbered(d)' = Numbered(d) BY DEF Numbered
<1> QED BY <1>1 DEF StartsAlone

LEMMA LeftFrame ==
  ASSUME ClosedShiftIsLeft, UNCHANGED shifts, current'.id = current.id,
         \A t \in Clerks : clerk[t].at = "closing" => clerk'[t] = clerk[t]
  PROVE  ClosedShiftIsLeft'
BY DEF ClosedShiftIsLeft, Busy

LEMMA SeenFrame ==
  ASSUME SeenIsClosed, UNCHANGED <<shifts, rows>>,
         "rung-in-closed" \notin dayHistory' => "rung-in-closed" \notin dayHistory,
         \A t \in Clerks : Closes(t)' => clerk'[t] = clerk[t]
  PROVE  SeenIsClosed'
<1> SUFFICES ASSUME NEW t \in Clerks, Closes(t)'
             PROVE  /\ \A s \in clerk'[t].seen : s \in DOMAIN shifts' /\ shifts'[s].st = "CLOSED"
                    /\ clerk'[t].at = "fresh" /\ "rung-in-closed" \notin dayHistory' =>
                         \A n \in RowsOf(clerk[t].report.date)' \ clerk'[t].report.totals.counts :
                           rows'[n].shift \notin clerk'[t].seen
  BY DEF SeenIsClosed
<1>1. clerk'[t] = clerk[t] /\ Closes(t) BY DEF Closes
<1>2. \A d : RowsOf(d)' = RowsOf(d) BY DEF RowsOf
<1>3. RowsOf(clerk[t].report.date)' = RowsOf(clerk[t].report.date) BY <1>1 DEF RowsOf
<1> QED BY <1>1, <1>3 DEF SeenIsClosed

LEMMA ClosesFrame ==
  ASSUME ClosesAlone, UNCHANGED <<reports, day>>,
         "two-closings" \notin dayHistory' => "two-closings" \notin dayHistory,
         \A t \in Clerks : Closes(t)' => clerk'[t] = clerk[t]
  PROVE  ClosesAlone'
<1>1. \A t \in Clerks : Closes(t)' => Closes(t) BY DEF Closes
<1>2. \A t \in Clerks : clerk'[t].at \in {"day", "fresh"} => clerk'[t] = clerk[t] BY DEF Closes
<1> QED BY <1>1, <1>2 DEF ClosesAlone

LEMMA SavedFrame ==
  ASSUME ReportIsSaved, UNCHANGED reports,
         \A t \in Clerks : clerk'[t].at \in {"saved", "reporting"} =>
            clerk[t].at \in {"saved", "reporting"} /\ clerk'[t].report = clerk[t].report
  PROVE  ReportIsSaved'
BY DEF ReportIsSaved

LEMMA WholeFrame ==
  ASSUME DayIsReported, UNCHANGED <<reports, closures>>,
         "two-closings" \notin dayHistory' => "two-closings" \notin dayHistory,
         "rung-in-closed" \notin dayHistory' => "rung-in-closed" \notin dayHistory
  PROVE  DayIsReported'
BY DEF DayIsReported, ClosedDayHasReport, FreshReportIsWhole

LEMMA OpenFrame ==
  ASSUME OpenShiftIsKnown, UNCHANGED shifts, current'.id = current.id, dayHistory \subseteq dayHistory'
  PROVE  OpenShiftIsKnown'
BY DEF OpenShiftIsKnown, ActiveRows

LEMMA SalesFrame ==
  ASSUME ServersAreIssued, SalesNameTheirShift, UNCHANGED <<shifts, rows, issued>>
  PROVE  ServersAreIssued' /\ SalesNameTheirShift'
BY DEF ServersAreIssued, SalesNameTheirShift

LEMMA BoundsFrame ==
  ASSUME DayBounds, UNCHANGED <<shifts, rows, restarts, day, closures, preview>>, current'.id <= Len(shifts),
         \A t \in Clerks : clerk'[t].at \in {"cached", "fresh", "saved", "reporting"} =>
            clerk[t].at \in {"cached", "fresh", "saved", "reporting"} /\ clerk'[t].report = clerk[t].report
  PROVE  DayBounds'
BY DEF DayBounds

LEMMA ClerkShape ==
  ASSUME DayShape, UNCHANGED <<shifts, rows, reports, day, restarts>>, issued' \in Seq(Nat),
         current' = [id |-> current'.id, expected |-> current'.expected], current'.id \in Nat,
         NEW t \in Clerks, NEW new \in ClerkSet, clerk' = [clerk EXCEPT ![t] = new],
         new.report.date <= day.here, preview' \in Report, preview'.date <= day.here
  PROVE  /\ DayShape' /\ clerk'[t] = new
         /\ \A u \in Clerks : u # t => clerk'[u] = clerk[u]
BY DEF DayShape

LEMMA ClerkFields ==
  ASSUME DayShape, NEW t \in Clerks
  PROVE  /\ clerk[t] \in ClerkSet /\ clerk[t].report.date <= day.here
         /\ clerk[t].shift \in Nat /\ clerk[t].number \in Number /\ clerk[t].report \in Report
BY DEF DayShape, ClerkSet

\* A call that gives up or is done disturbs no other.
LEMMA FreesKeeps ==
  ASSUME DayInv, NEW t \in Clerks, Frees(t), clerk[t].at # "closing",
         UNCHANGED <<shifts, rows, reports, closures, current, day, issued, dayHistory, restarts>>,
         preview' \in {preview, NoReport}
  PROVE  DayInv'
<1>1. clerk' = [clerk EXCEPT ![t] = Free] BY DEF Frees
<1>2. preview' \in Report /\ preview'.date <= day.here /\ (preview' # NoReport => preview'.date >= 1)
  BY FreeFacts DEF DayInv, ShiftsInv, DayShape, DayBounds
<1>3. DayShape' /\ clerk'[t] = Free /\ \A u \in Clerks : u # t => clerk'[u] = clerk[u]
  <2>1. Free.report.date <= day.here BY FreeFacts DEF DayInv, ShiftsInv, DayShape
  <2>2. issued' \in Seq(Nat) /\ current' = [id |-> current'.id, expected |-> current'.expected] /\ current'.id \in Nat
    BY DEF DayInv, ShiftsInv, DayShape
  <2> QED BY <1>1, <1>2, <2>1, <2>2, FreeFacts, ClerkShape DEF DayInv, ShiftsInv
<1>4. DayBounds'
  BY <1>2, <1>3, FreeFacts DEF DayInv, ShiftsInv, DayBounds
<1>5. CallsKnowTheirs' BY <1>3, FreeFacts, CallsFrame DEF DayInv, ShiftsInv
<1>6. StartsAlone' BY <1>3, FreeFacts, StartsFrame DEF DayInv, ShiftsInv
<1>7. OpenShiftIsKnown' BY OpenFrame DEF DayInv, ShiftsInv
<1>8. ClosedShiftIsLeft' BY <1>3, LeftFrame DEF DayInv, ShiftsInv
<1>9. ServersAreIssued' /\ SalesNameTheirShift' BY SalesFrame DEF DayInv, ShiftsInv
<1>10. SeenIsClosed' /\ ClosesAlone'
  <2>1. \A u \in Clerks : Closes(u)' => clerk'[u] = clerk[u] BY <1>3, FreeFacts DEF Closes
  <2> QED BY <2>1, SeenFrame, ClosesFrame DEF DayInv, ReportsInv
<1>11. ReportIsSaved' BY <1>3, FreeFacts, SavedFrame DEF DayInv, ReportsInv
<1>12. DayIsReported' BY WholeFrame DEF DayInv, ReportsInv
<1> QED BY <1>3, <1>4, <1>5, <1>6, <1>7, <1>8, <1>9, <1>10, <1>11, <1>12 DEF DayInv, ShiftsInv, ReportsInv

\* The number a start takes is the next of today.
LEMMA StartChecksKeeps == \A t \in Clerks : DayInv /\ StartChecks(t) => DayInv'
<1> SUFFICES ASSUME NEW t \in Clerks, DayInv, StartChecks(t) PROVE DayInv' OBVIOUS
<1> DEFINE new == [Free EXCEPT !.at = "starting", !.number = ShiftNumber]
<1>1. /\ clerk' = [clerk EXCEPT ![t] = new] /\ clerk[t].at = "idle" /\ ActiveRows = {}
      /\ UNCHANGED <<shifts, rows, reports, closures, current, preview, day, issued, restarts>>
      /\ dayHistory \subseteq dayHistory' /\ dayHistory' \subseteq dayHistory \cup {"two-starts"}
      /\ "two-starts" \notin dayHistory' => dayHistory' = dayHistory /\ \A u \in Clerks : clerk[u].at # "starting"
  BY DEF StartChecks, tables, Excuse, Busy
<1>2. ShiftNumber \in Number /\ ShiftNumber.date = day.utc /\ ShiftNumber.no = Cardinality(Numbered(day.utc)) + 1
  BY NumberedFinite DEF ShiftNumber, Number, DayInv, ShiftsInv, DayShape
<1>3. new \in ClerkSet /\ new.at = "starting" /\ new.number = ShiftNumber /\ new.report = NoReport
  BY <1>2, FreeFacts DEF ClerkSet, Free
<1> HIDE DEF new
<1>4. DayShape' /\ clerk'[t] = new /\ \A u \in Clerks : u # t => clerk'[u] = clerk[u]
  <2>1. NoReport.date <= day.here BY FreeFacts DEF DayInv, ShiftsInv, DayShape
  <2>2. /\ issued' \in Seq(Nat) /\ current' = [id |-> current'.id, expected |-> current'.expected] /\ current'.id \in Nat
        /\ preview' \in Report /\ preview'.date <= day.here
    BY <1>1 DEF DayInv, ShiftsInv, DayShape
  <2> QED BY <1>1, <1>3, <2>1, <2>2, ClerkShape DEF DayInv, ShiftsInv
<1>5. DayBounds' BY <1>1, <1>3, <1>4 DEF DayInv, ShiftsInv, DayBounds
<1>6. CallsKnowTheirs' BY <1>1, <1>3, <1>4, CallsFrame DEF DayInv, ShiftsInv
<1>7. StartsAlone'
  <2> SUFFICES ASSUME "two-starts" \notin dayHistory' PROVE StartsAlone' BY DEF StartsAlone
  <2>1. dayHistory' = dayHistory /\ \A u \in Clerks : clerk[u].at # "starting" BY <1>1
  <2>2. \A s \in DOMAIN shifts : shifts[s].st = "CLOSED"
    BY <1>1 DEF ActiveRows, DayInv, ShiftsInv, DayShape, IsShiftRow
  <2>3. \A d : Numbered(d)' = Numbered(d) BY <1>1 DEF Numbered
  <2>4. \A u \in Clerks : clerk'[u].at = "starting" => u = t BY <1>4, <2>1
  <2>5. clerk'[t].number.no = Cardinality(Numbered(clerk'[t].number.date)) + 1 BY <1>2, <1>3, <1>4
  <2>6. clerk'[t].number.no = Cardinality(Numbered(clerk[t].number.date)') + 1
    BY <1>1, <2>5 DEF Numbered
  <2> QED BY <1>1, <2>1, <2>2, <2>3, <2>4, <2>6 DEF StartsAlone, DayInv, ShiftsInv
<1>8. OpenShiftIsKnown' BY <1>1, OpenFrame DEF DayInv, ShiftsInv
<1>9. ClosedShiftIsLeft' BY <1>1, <1>4, LeftFrame DEF DayInv, ShiftsInv
<1>10. ServersAreIssued' /\ SalesNameTheirShift' BY <1>1, SalesFrame DEF DayInv, ShiftsInv
<1>11. SeenIsClosed' /\ ClosesAlone'
  <2>1. \A u \in Clerks : Closes(u)' => clerk'[u] = clerk[u] BY <1>3, <1>4 DEF Closes
  <2> QED BY <1>1, <2>1, SeenFrame, ClosesFrame DEF DayInv, ReportsInv
<1>12. ReportIsSaved' BY <1>1, <1>3, <1>4, SavedFrame DEF DayInv, ReportsInv
<1>13. DayIsReported' BY <1>1, WholeFrame DEF DayInv, ReportsInv
<1> QED BY <1>4, <1>5, <1>6, <1>7, <1>8, <1>9, <1>10, <1>11, <1>12, <1>13 DEF DayInv, ShiftsInv, ReportsInv

\* The row is appended: the shift in memory is the one that is open.
LEMMA StartWritesKeeps == \A t \in Clerks : DayInv /\ StartWrites(t) => DayInv'
<1> SUFFICES ASSUME NEW t \in Clerks, DayInv, StartWrites(t) PROVE DayInv' OBVIOUS
<1> DEFINE n == Len(shifts) + 1
           row == OpenRow(clerk[t].number)
           new == [Free EXCEPT !.at = "opening", !.shift = n]
<1>1. /\ clerk[t].at = "starting" /\ n <= MaxShifts
      /\ shifts' = Append(shifts, row) /\ current' = Summary(n) /\ clerk' = [clerk EXCEPT ![t] = new]
      /\ UNCHANGED <<rows, reports, closures, preview, day, issued, dayHistory, restarts>>
  BY DEF StartWrites, Busy
<1>2. IsSeq(shifts) /\ Len(shifts) \in Nat /\ DOMAIN shifts = 1..Len(shifts)
  BY SeqFacts DEF DayInv, ShiftsInv, DayShape
<1>3. /\ IsSeq(shifts') /\ Len(shifts') = n /\ DOMAIN shifts' = 1..n /\ shifts'[n] = row
      /\ \A s \in DOMAIN shifts : shifts'[s] = shifts[s]
  BY <1>1, <1>2, SeqGrows
<1>4. IsShiftRow(row) /\ row.st = "ACTIVE" /\ row.server = 0 /\ row.number = clerk[t].number
  BY ClerkFields DEF OpenRow, IsShiftRow, DayInv, ShiftsInv, DayShape
<1>5. new \in ClerkSet /\ new.at = "opening" /\ new.shift = n /\ new.report = NoReport
  <2>1. n \in Nat BY <1>2
  <2> HIDE DEF n
  <2> QED BY <2>1, FreeFacts DEF ClerkSet, Free
<1>6. current'.id = n /\ current' = [id |-> current'.id, expected |-> current'.expected]
  BY <1>1 DEF Summary
<1>7. n \in Nat /\ n = Len(shifts) + 1 /\ n \notin DOMAIN shifts /\ DOMAIN shifts' = DOMAIN shifts \cup {n} /\ n # 0
  BY <1>2, <1>3
<1> HIDE DEF n, row, new
<1>8. clerk'[t] = new /\ (\A u \in Clerks : u # t => clerk'[u] = clerk[u]) /\ clerk' \in [Clerks -> ClerkSet]
  BY <1>1, <1>5 DEF DayInv, ShiftsInv, DayShape
<1>9. DayShape'
  <2>1. \A s \in DOMAIN shifts' : IsShiftRow(shifts'[s])
    BY <1>3, <1>4, <1>7 DEF DayInv, ShiftsInv, DayShape
  <2>2. \A u \in Clerks : clerk'[u].report.date <= day.here
    <3>1. /\ \A u \in Clerks : clerk[u].report.date <= day.here
          /\ day.here \in Nat
      BY DEF DayInv, ShiftsInv, DayShape
    <3>2. new.report.date <= day.here BY <1>5, <3>1, FreeFacts
    <3> QED BY <1>8, <3>1, <3>2
  <2> QED BY <1>1, <1>3, <1>6, <1>7, <1>8, <2>1, <2>2 DEF DayInv, ShiftsInv, DayShape
<1>10. DayBounds'
  BY <1>1, <1>3, <1>5, <1>6, <1>7, <1>8 DEF DayInv, ShiftsInv, DayBounds
<1>11. CallsKnowTheirs'
  BY <1>3, <1>5, <1>7, <1>8 DEF DayInv, ShiftsInv, CallsKnowTheirs
<1>12. \A d : Numbered(d)' = IF d = clerk[t].number.date THEN Numbered(d) \cup {n} ELSE Numbered(d)
  BY <1>3, <1>4, <1>7 DEF Numbered
<1>13. \A d : /\ IsFiniteSet(Numbered(d)) /\ Cardinality(Numbered(d)) \in Nat
              /\ Cardinality(Numbered(d)') = Cardinality(Numbered(d)) + (IF d = clerk[t].number.date THEN 1 ELSE 0)
  <2> SUFFICES ASSUME NEW d
               PROVE  /\ IsFiniteSet(Numbered(d)) /\ Cardinality(Numbered(d)) \in Nat
                      /\ Cardinality(Numbered(d)') = Cardinality(Numbered(d)) + (IF d = clerk[t].number.date THEN 1 ELSE 0)
    OBVIOUS
  <2>1. IsFiniteSet(Numbered(d)) /\ Cardinality(Numbered(d)) \in Nat BY <1>2, NumberedFinite
  <2>2. n \notin Numbered(d) BY <1>7 DEF Numbered
  <2>3. Cardinality(Numbered(d) \cup {n}) = Cardinality(Numbered(d)) + 1 BY <2>1, <2>2, FS_AddElement
  <2> QED BY <1>12, <2>1, <2>3
<1>14. StartsAlone'
  <2> SUFFICES ASSUME "two-starts" \notin dayHistory' PROVE StartsAlone' BY DEF StartsAlone
  <2>1. /\ \A u \in Clerks : clerk[u].at = "starting" => u = t
        /\ \A s \in DOMAIN shifts : shifts[s].st = "CLOSED"
        /\ clerk[t].number.no = Cardinality(Numbered(clerk[t].number.date)) + 1
        /\ \A s \in DOMAIN shifts : shifts[s].number.no <= Cardinality(Numbered(shifts[s].number.date))
        /\ \A s, u \in DOMAIN shifts : shifts[s].number = shifts[u].number => s = u
    BY <1>1 DEF StartsAlone, DayInv, ShiftsInv
  <2>2. \A u \in Clerks : clerk'[u].at # "starting" BY <1>5, <1>8, <2>1
  <2>3. \A s \in DOMAIN shifts' : shifts'[s].st = "ACTIVE" => s = n BY <1>3, <1>7, <2>1
  <2>4. ASSUME NEW s \in DOMAIN shifts', NEW d, d = shifts'[s].number.date
        PROVE  shifts'[s].number.no <= Cardinality(Numbered(d)')
    <3>1. CASE s = n
      <4>1. shifts'[s].number = clerk[t].number BY <3>1, <1>3, <1>4
      <4> QED BY <4>1, <2>4, <1>13, <2>1
    <3>2. CASE s # n
      <4>1. s \in DOMAIN shifts /\ shifts'[s] = shifts[s] BY <3>2, <1>3, <1>7
      <4>2. shifts[s].number.no \in Nat BY <4>1 DEF DayInv, ShiftsInv, DayShape, IsShiftRow, Number
      <4>3. shifts[s].number.no <= Cardinality(Numbered(d)) BY <4>1, <2>1, <2>4
      <4> QED BY <4>1, <4>2, <4>3, <1>13
    <3> QED BY <3>1, <3>2
  <2>5. \A s \in DOMAIN shifts : shifts[s].number # clerk[t].number
    <3> SUFFICES ASSUME NEW s \in DOMAIN shifts, shifts[s].number = clerk[t].number PROVE FALSE OBVIOUS
    <3>1. shifts[s].number.no <= Cardinality(Numbered(clerk[t].number.date)) BY <2>1
    <3>2. shifts[s].number.no = Cardinality(Numbered(clerk[t].number.date)) + 1 BY <2>1
    <3> QED BY <3>1, <3>2, <1>13
  <2>6. \A s, u \in DOMAIN shifts' : shifts'[s].number = shifts'[u].number => s = u
    <3> SUFFICES ASSUME NEW s \in DOMAIN shifts', NEW u \in DOMAIN shifts', shifts'[s].number = shifts'[u].number
                 PROVE  s = u
      OBVIOUS
    <3>1. \A m \in DOMAIN shifts' : m = n \/ (m \in DOMAIN shifts /\ shifts'[m] = shifts[m]) BY <1>3, <1>7
    <3>2. shifts'[n].number = clerk[t].number BY <1>3, <1>4
    <3> QED BY <2>1, <2>5, <3>1, <3>2
  <2>7. \A s \in DOMAIN shifts' : (shifts[s].number.no <= Cardinality(Numbered(shifts[s].number.date)))'
    <3> SUFFICES ASSUME NEW s \in DOMAIN shifts'
                 PROVE  (shifts[s].number.no <= Cardinality(Numbered(shifts[s].number.date)))'
      OBVIOUS
    <3> DEFINE d == shifts'[s].number.date
    <3>1. shifts'[s].number.no <= Cardinality({m \in DOMAIN shifts' : shifts'[m].number.date = d})
      BY <2>4 DEF Numbered
    <3> QED BY <3>1 DEF Numbered
  <2> QED BY <2>2, <2>3, <2>6, <2>7 DEF StartsAlone
<1>15. OpenShiftIsKnown'
  <2> SUFFICES ASSUME "two-starts" \notin dayHistory', NEW s \in DOMAIN shifts', shifts'[s].st = "ACTIVE"
               PROVE  current'.id = s
    BY DEF OpenShiftIsKnown, ActiveRows
  <2>1. \A u \in DOMAIN shifts : shifts[u].st = "CLOSED" BY <1>1 DEF StartsAlone, DayInv, ShiftsInv
  <2> QED BY <2>1, <1>3, <1>6, <1>7
<1>16. ClosedShiftIsLeft' BY <1>3, <1>4, <1>6, <1>7 DEF ClosedShiftIsLeft
<1>17. ServersAreIssued' /\ SalesNameTheirShift'
  BY <1>1, <1>3, <1>4, <1>7 DEF ServersAreIssued, SalesNameTheirShift, DayInv, ShiftsInv
<1>18. \A u \in Clerks : Closes(u)' => clerk'[u] = clerk[u] BY <1>5, <1>8 DEF Closes
<1>19. SeenIsClosed'
  <2> SUFFICES ASSUME NEW u \in Clerks, Closes(u)'
               PROVE  /\ \A s \in clerk'[u].seen : s \in DOMAIN shifts' /\ shifts'[s].st = "CLOSED"
                      /\ clerk'[u].at = "fresh" /\ "rung-in-closed" \notin dayHistory' =>
                           \A m \in RowsOf(clerk[u].report.date)' \ clerk'[u].report.totals.counts :
                             rows'[m].shift \notin clerk'[u].seen
    BY DEF SeenIsClosed
  <2>1. clerk'[u] = clerk[u] /\ Closes(u) BY <1>18 DEF Closes
  <2>2. RowsOf(clerk[u].report.date)' = RowsOf(clerk[u].report.date) BY <1>1, <2>1 DEF RowsOf
  <2> QED BY <1>1, <1>3, <1>7, <2>1, <2>2 DEF SeenIsClosed, DayInv, ReportsInv
<1>20. ClosesAlone' BY <1>1, <1>18, ClosesFrame DEF DayInv, ReportsInv
<1>21. ReportIsSaved' BY <1>1, <1>5, <1>8, SavedFrame DEF DayInv, ReportsInv
<1>22. DayIsReported' BY <1>1, WholeFrame DEF DayInv, ReportsInv
<1> QED BY <1>9, <1>10, <1>11, <1>14, <1>15, <1>16, <1>17, <1>19, <1>20, <1>21, <1>22
        DEF DayInv, ShiftsInv, ReportsInv

LEMMA PlatformOpensKeeps == \A t \in Clerks : DayInv /\ PlatformOpens(t) => DayInv'
<1> SUFFICES ASSUME NEW t \in Clerks, DayInv, PlatformOpens(t) PROVE DayInv' OBVIOUS
<1> DEFINE new == [clerk[t] EXCEPT !.at = "opened"]
           id == clerk[t].shift
<1>1. /\ clerk[t].at = "opening" /\ issued' = Append(issued, id) /\ clerk' = [clerk EXCEPT ![t] = new]
      /\ UNCHANGED <<shifts, rows, reports, closures, current, preview, day, dayHistory, restarts>>
  BY DEF PlatformOpens, Busy, Goes, tables
<1>2. clerk[t] \in ClerkSet /\ clerk[t].report.date <= day.here BY ClerkFields DEF DayInv, ShiftsInv
<1>3. new \in ClerkSet /\ new.at = "opened" /\ new.shift = clerk[t].shift /\ new.report = clerk[t].report
  BY <1>2 DEF ClerkSet
<1>4. id \in Nat BY <1>2 DEF ClerkSet
<1> HIDE DEF new, id
<1>5. /\ issued' \in Seq(Nat) /\ DOMAIN issued \subseteq DOMAIN issued' /\ Len(issued) <= Len(issued')
      /\ \A n \in DOMAIN issued : issued'[n] = issued[n]
  <2>1. issued \in Seq(Nat) BY DEF DayInv, ShiftsInv, DayShape
  <2>2. /\ issued' \in Seq(Nat) /\ Len(issued') = Len(issued) + 1
        /\ \A n \in 1..Len(issued) : issued'[n] = issued[n]
    BY <1>1, <1>4, <2>1, AppendProperties
  <2>3. /\ Len(issued) \in Nat /\ DOMAIN issued = 1..Len(issued) /\ DOMAIN issued' = 1..Len(issued')
    BY <2>1, <2>2, LenProperties
  <2> QED BY <2>2, <2>3
<1>6. DayShape' /\ clerk'[t] = new /\ \A u \in Clerks : u # t => clerk'[u] = clerk[u]
  <2>1. /\ current' = [id |-> current'.id, expected |-> current'.expected] /\ current'.id \in Nat
        /\ preview' \in Report /\ preview'.date <= day.here
    BY <1>1 DEF DayInv, ShiftsInv, DayShape
  <2> QED BY <1>1, <1>2, <1>3, <1>5, <2>1, ClerkShape DEF DayInv, ShiftsInv
<1>7. DayBounds' BY <1>1, <1>3, <1>6 DEF DayInv, ShiftsInv, DayBounds
<1>8. CallsKnowTheirs' BY <1>1, <1>3, <1>6, CallsFrame DEF DayInv, ShiftsInv
<1>9. StartsAlone' BY <1>1, <1>3, <1>6, StartsFrame DEF DayInv, ShiftsInv
<1>10. OpenShiftIsKnown' BY <1>1, OpenFrame DEF DayInv, ShiftsInv
<1>11. ClosedShiftIsLeft' BY <1>1, <1>6, LeftFrame DEF DayInv, ShiftsInv
<1>12. ServersAreIssued' /\ SalesNameTheirShift'
  BY <1>1, <1>5 DEF ServersAreIssued, SalesNameTheirShift, DayInv, ShiftsInv
<1>13. SeenIsClosed' /\ ClosesAlone'
  <2>1. \A u \in Clerks : Closes(u)' => clerk'[u] = clerk[u] BY <1>3, <1>6 DEF Closes
  <2> QED BY <1>1, <2>1, SeenFrame, ClosesFrame DEF DayInv, ReportsInv
<1>14. ReportIsSaved' BY <1>1, <1>3, <1>6, SavedFrame DEF DayInv, ReportsInv
<1>15. DayIsReported' BY <1>1, WholeFrame DEF DayInv, ReportsInv
<1> QED BY <1>6, <1>7, <1>8, <1>9, <1>10, <1>11, <1>12, <1>13, <1>14, <1>15 DEF DayInv, ShiftsInv, ReportsInv

LEMMA OpenUnrecordedKeeps == \A t \in Clerks : DayInv /\ OpenUnrecorded(t) => DayInv'
<1> SUFFICES ASSUME NEW t \in Clerks, DayInv, OpenUnrecorded(t) PROVE DayInv' OBVIOUS
<1> QED BY FreesKeeps DEF OpenUnrecorded, Busy, tables

\* One row changes, and is closed or keeps its number and whether it is open.
LEMMA RowChangeKeeps ==
  ASSUME DayInv, NEW s \in DOMAIN shifts, NEW row, shifts' = [shifts EXCEPT ![s] = row], IsShiftRow(row),
         row.number = shifts[s].number, row.st = shifts[s].st \/ row.st = "CLOSED",
         row.server # 0 => row.server \in DOMAIN issued /\ issued[row.server] = s,
         NEW t \in Clerks, NEW new \in ClerkSet, clerk' = [clerk EXCEPT ![t] = new],
         new.report = NoReport, new.at \in {"idle", "closing"}, clerk[t].at # "closing",
         new.at = "closing" => new.shift = s /\ row.st = "CLOSED",
         row.st = "CLOSED" => shifts[s].st = "CLOSED" \/ current.id # s \/ new.at = "closing",
         UNCHANGED <<rows, reports, closures, current, preview, day, issued, dayHistory, restarts>>
  PROVE  DayInv'
<1>1. IsSeq(shifts) /\ DOMAIN shifts = 1..Len(shifts)
  BY SeqFacts DEF DayInv, ShiftsInv, DayShape
<1>2. /\ IsSeq(shifts') /\ Len(shifts') = Len(shifts) /\ DOMAIN shifts' = DOMAIN shifts /\ shifts'[s] = row
      /\ \A u \in DOMAIN shifts : u # s => shifts'[u] = shifts[u]
  BY <1>1, SeqChanges
<1>3. \A u \in DOMAIN shifts : /\ shifts'[u].number = shifts[u].number
                               /\ shifts'[u].st = "ACTIVE" => shifts[u].st = "ACTIVE"
                               /\ shifts[u].st = "CLOSED" => shifts'[u].st = "CLOSED"
  BY <1>2
<1>4. clerk'[t] = new /\ (\A u \in Clerks : u # t => clerk'[u] = clerk[u]) /\ clerk' \in [Clerks -> ClerkSet]
  BY DEF DayInv, ShiftsInv, DayShape
<1>5. DayShape'
  <2>1. \A u \in DOMAIN shifts' : IsShiftRow(shifts'[u])
    BY <1>2 DEF DayInv, ShiftsInv, DayShape
  <2>2. \A u \in Clerks : clerk'[u].report.date <= day.here
    <3>1. (\A u \in Clerks : clerk[u].report.date <= day.here) /\ day.here \in Nat BY DEF DayInv, ShiftsInv, DayShape
    <3> QED BY <1>4, <3>1, FreeFacts
  <2> QED BY <1>2, <1>4, <2>1, <2>2 DEF DayInv, ShiftsInv, DayShape
<1>6. DayBounds' BY <1>2, <1>4 DEF DayInv, ShiftsInv, DayBounds
<1>7. CallsKnowTheirs' BY <1>2, <1>3, <1>4 DEF DayInv, ShiftsInv, CallsKnowTheirs
<1>8. StartsAlone'
  <2>1. \A d : Numbered(d)' = Numbered(d) BY <1>2, <1>3 DEF Numbered
  <2>2. \A u \in Clerks : clerk'[u].at = "starting" => clerk[u].at = "starting" /\ clerk'[u] = clerk[u]
    BY <1>4
  <2> SUFFICES ASSUME "two-starts" \notin dayHistory' PROVE StartsAlone' BY DEF StartsAlone
  <2>3. /\ \A u, v \in Clerks : clerk[u].at = "starting" /\ clerk[v].at = "starting" => u = v
        /\ \A u \in Clerks : clerk[u].at = "starting" =>
             /\ \A x \in DOMAIN shifts : shifts[x].st = "CLOSED"
             /\ clerk[u].number.no = Cardinality(Numbered(clerk[u].number.date)) + 1
        /\ \A x \in DOMAIN shifts : shifts[x].number.no <= Cardinality(Numbered(shifts[x].number.date))
        /\ \A x, y \in DOMAIN shifts : shifts[x].number = shifts[y].number => x = y
        /\ \A x, y \in DOMAIN shifts : shifts[x].st = "ACTIVE" /\ shifts[y].st = "ACTIVE" => x = y
    BY DEF StartsAlone, DayInv, ShiftsInv
  <2>4. /\ \A u, v \in Clerks : clerk'[u].at = "starting" /\ clerk'[v].at = "starting" => u = v
        /\ \A u \in Clerks : clerk'[u].at = "starting" => \A x \in DOMAIN shifts' : shifts'[x].st = "CLOSED"
        /\ \A x, y \in DOMAIN shifts' : shifts'[x].number = shifts'[y].number => x = y
        /\ \A x, y \in DOMAIN shifts' : shifts'[x].st = "ACTIVE" /\ shifts'[y].st = "ACTIVE" => x = y
    BY <1>2, <1>3, <2>2, <2>3
  <2>5. \A u \in Clerks : clerk'[u].at = "starting" =>
          (clerk[u].number.no = Cardinality(Numbered(clerk[u].number.date)) + 1)'
    <3> SUFFICES ASSUME NEW u \in Clerks, clerk'[u].at = "starting"
                 PROVE  (clerk[u].number.no = Cardinality(Numbered(clerk[u].number.date)) + 1)'
      OBVIOUS
    <3> DEFINE d == clerk[u].number.date
    <3>1. clerk[u].number.no = Cardinality(Numbered(d)) + 1 BY <2>2, <2>3
    <3>2. Numbered(d) = {x \in DOMAIN shifts' : shifts'[x].number.date = d} BY <1>2, <1>3 DEF Numbered
    <3>3. clerk'[u] = clerk[u] BY <2>2
    <3> QED BY <3>1, <3>2, <3>3 DEF Numbered
  <2>6. \A x \in DOMAIN shifts' : (shifts[x].number.no <= Cardinality(Numbered(shifts[x].number.date)))'
    <3> SUFFICES ASSUME NEW x \in DOMAIN shifts
                 PROVE  (shifts[x].number.no <= Cardinality(Numbered(shifts[x].number.date)))'
      BY <1>2
    <3> DEFINE d == shifts[x].number.date
    <3>1. shifts[x].number.no <= Cardinality(Numbered(d)) BY <2>3
    <3>2. Numbered(d) = {y \in DOMAIN shifts' : shifts'[y].number.date = d} BY <1>2, <1>3 DEF Numbered
    <3>3. shifts'[x].number = shifts[x].number BY <1>3
    <3> QED BY <3>1, <3>2, <3>3 DEF Numbered
  <2> QED BY <2>4, <2>5, <2>6 DEF StartsAlone
<1>9. OpenShiftIsKnown'
  <2>1. ActiveRows' \subseteq ActiveRows BY <1>2, <1>3 DEF ActiveRows
  <2> QED BY <2>1 DEF OpenShiftIsKnown, DayInv, ShiftsInv
<1>10. ClosedShiftIsLeft'
  <2> SUFFICES ASSUME NEW u \in DOMAIN shifts, shifts'[u].st = "CLOSED", current.id = u
               PROVE  \E c \in Clerks : clerk'[c].at = "closing" /\ clerk'[c].shift = u
    BY <1>2 DEF ClosedShiftIsLeft, Busy
  <2>1. CASE shifts[u].st = "CLOSED"
    <3>1. PICK c \in Clerks : clerk[c].at = "closing" /\ clerk[c].shift = u
      BY <2>1 DEF ClosedShiftIsLeft, Busy, DayInv, ShiftsInv
    <3> QED BY <3>1, <1>4
  <2>2. CASE shifts[u].st # "CLOSED"
    <3>1. u = s /\ row.st = "CLOSED" BY <2>2, <1>2
    <3> QED BY <2>2, <3>1, <1>4
  <2> QED BY <2>1, <2>2
<1>11. ServersAreIssued' /\ SalesNameTheirShift'
  BY <1>2 DEF ServersAreIssued, SalesNameTheirShift, DayInv, ShiftsInv
<1>12. \A u \in Clerks : Closes(u)' => clerk'[u] = clerk[u] BY <1>4 DEF Closes
<1>13. SeenIsClosed'
  <2> SUFFICES ASSUME NEW u \in Clerks, Closes(u)'
               PROVE  /\ \A x \in clerk'[u].seen : x \in DOMAIN shifts' /\ shifts'[x].st = "CLOSED"
                      /\ clerk'[u].at = "fresh" /\ "rung-in-closed" \notin dayHistory' =>
                           \A m \in RowsOf(clerk[u].report.date)' \ clerk'[u].report.totals.counts :
                             rows'[m].shift \notin clerk'[u].seen
    BY DEF SeenIsClosed
  <2>1. clerk'[u] = clerk[u] /\ Closes(u) BY <1>12 DEF Closes
  <2>2. RowsOf(clerk[u].report.date)' = RowsOf(clerk[u].report.date) BY <2>1 DEF RowsOf
  <2> QED BY <1>2, <1>3, <2>1, <2>2 DEF SeenIsClosed, DayInv, ReportsInv
<1>14. ClosesAlone' BY <1>12, ClosesFrame DEF DayInv, ReportsInv
<1>15. ReportIsSaved' BY <1>4, SavedFrame DEF DayInv, ReportsInv
<1>16. DayIsReported' BY WholeFrame DEF DayInv, ReportsInv
<1> QED BY <1>5, <1>6, <1>7, <1>8, <1>9, <1>10, <1>11, <1>13, <1>14, <1>15, <1>16
        DEF DayInv, ShiftsInv, ReportsInv

LEMMA OpenRecordedKeeps == \A t \in Clerks : DayInv /\ OpenRecorded(t) => DayInv'
<1> SUFFICES ASSUME NEW t \in Clerks, DayInv, OpenRecorded(t) PROVE DayInv' OBVIOUS
<1> DEFINE s == clerk[t].shift
<1>1. PICK n \in DOMAIN issued : issued[n] = s /\ shifts' = [shifts EXCEPT ![s].server = n]
  BY DEF OpenRecorded
<1>2. /\ clerk[t].at = "opened" /\ clerk' = [clerk EXCEPT ![t] = Free]
      /\ UNCHANGED <<rows, reports, closures, current, preview, day, issued, dayHistory, restarts>>
  BY DEF OpenRecorded, Busy, Frees
<1>3. s \in DOMAIN shifts BY <1>2 DEF DayInv, ShiftsInv, CallsKnowTheirs
<1>4. n \in Nat /\ n \in DOMAIN issued
  <2>1. issued \in Seq(Nat) BY DEF DayInv, ShiftsInv, DayShape
  <2> QED BY <2>1, LenProperties
<1> HIDE DEF s
<1> DEFINE row == [shifts[s] EXCEPT !.server = n]
<1>5. shifts' = [shifts EXCEPT ![s] = row] BY <1>1
<1>6. IsShiftRow(shifts[s]) BY <1>3 DEF DayInv, ShiftsInv, DayShape
<1>7. IsShiftRow(row) /\ row.st = shifts[s].st /\ row.number = shifts[s].number /\ row.server = n
  BY <1>4, <1>6 DEF IsShiftRow
<1> HIDE DEF row
<1>8. /\ Free.at \in {"idle", "closing"} /\ Free.at # "closing" /\ clerk[t].at # "closing"
      /\ row.st = "CLOSED" => shifts[s].st = "CLOSED"
      /\ row.server # 0 => row.server \in DOMAIN issued /\ issued[row.server] = s
      /\ Free \in ClerkSet /\ Free.report = NoReport
  BY <1>1, <1>2, <1>4, <1>7, FreeFacts
<1> QED BY <1>2, <1>3, <1>5, <1>7, <1>8, RowChangeKeeps

LEMMA CloseShiftKeeps == \A t \in Clerks : DayInv /\ CloseShift(t) => DayInv'
<1> SUFFICES ASSUME NEW t \in Clerks, DayInv, CloseShift(t) PROVE DayInv' OBVIOUS
<1> DEFINE s == current.id
           row == ClosedRow(s)
           new == [Free EXCEPT !.at = "closing", !.shift = s]
<1>1. /\ clerk[t].at = "idle" /\ s # 0 /\ shifts' = [shifts EXCEPT ![s] = row]
      /\ clerk' = [clerk EXCEPT ![t] = new]
      /\ UNCHANGED <<rows, reports, closures, current, preview, day, issued, dayHistory, restarts>>
  BY DEF CloseShift, Busy
<1>2. s \in DOMAIN shifts
  <2>1. DOMAIN shifts = 1..Len(shifts) /\ s \in Nat /\ s <= Len(shifts)
    BY SeqFacts DEF DayInv, ShiftsInv, DayShape, DayBounds
  <2> QED BY <1>1, <2>1
<1>3. s \in Nat BY DEF DayInv, ShiftsInv, DayShape
<1> HIDE DEF s
<1>4. IsShiftRow(shifts[s]) BY <1>2 DEF DayInv, ShiftsInv, DayShape
<1>5. IsShiftRow(row) /\ row.st = "CLOSED" /\ row.number = shifts[s].number /\ row.server = shifts[s].server
  <2> DEFINE c == Counted(s)
             e == current.expected
  <2>1. row = [shifts[s] EXCEPT !.st = "CLOSED", !.counted = c, !.expected = e] BY DEF ClosedRow
  <2> HIDE DEF c, e, row
  <2> QED BY <1>4, <2>1 DEF IsShiftRow
<1>6. new \in ClerkSet /\ new.at = "closing" /\ new.shift = s /\ new.report = NoReport
  BY <1>3, FreeFacts DEF ClerkSet, Free
<1>7. row.server # 0 => row.server \in DOMAIN issued /\ issued[row.server] = s
  BY <1>2, <1>5 DEF ServersAreIssued, DayInv, ShiftsInv
<1> HIDE DEF row, new
<1> QED BY <1>1, <1>2, <1>5, <1>6, <1>7, RowChangeKeeps

\* A close ends: the memory is empty, whichever shift it held.
LEMMA CloseEndsKeeps == \A t \in Clerks : DayInv /\ CloseEnds(t) => DayInv'
<1> SUFFICES ASSUME NEW t \in Clerks, DayInv, CloseEnds(t) PROVE DayInv' OBVIOUS
<1>1. /\ clerk[t].at = "closing" /\ clerk' = [clerk EXCEPT ![t] = Free] /\ current' = NoShift
      /\ UNCHANGED <<shifts, rows, reports, closures, preview, day, issued, restarts>>
      /\ dayHistory' = dayHistory \cup {"late-close"} \/ dayHistory' = dayHistory
      /\ "late-close" \notin dayHistory' => current.id \in {0, clerk[t].shift}
  BY DEF CloseEnds, Busy, Frees, tables, Excuse
<1>2. current'.id = 0 /\ current' = [id |-> current'.id, expected |-> current'.expected]
  BY <1>1 DEF NoShift
<1>3. DayShape' /\ clerk'[t] = Free /\ \A u \in Clerks : u # t => clerk'[u] = clerk[u]
  <2>1. Free.report.date <= day.here BY FreeFacts DEF DayInv, ShiftsInv, DayShape
  <2>2. issued' \in Seq(Nat) /\ preview' \in Report /\ preview'.date <= day.here
    BY <1>1 DEF DayInv, ShiftsInv, DayShape
  <2>3. DayShape /\ current'.id \in Nat /\ Free \in ClerkSet BY <1>2, FreeFacts DEF DayInv, ShiftsInv
  <2> QED BY <1>1, <1>2, <2>1, <2>2, <2>3, ClerkShape
<1>4. DOMAIN shifts = 1..Len(shifts) /\ Len(shifts) \in Nat BY SeqFacts DEF DayInv, ShiftsInv, DayShape
<1>5. DayBounds'
  BY <1>1, <1>2, <1>3, <1>4, FreeFacts DEF DayInv, ShiftsInv, DayBounds
<1>6. CallsKnowTheirs' BY <1>1, <1>3, FreeFacts, CallsFrame DEF DayInv, ShiftsInv
<1>7. StartsAlone' BY <1>1, <1>3, FreeFacts, StartsFrame DEF DayInv, ShiftsInv
<1>8. OpenShiftIsKnown'
  <2> SUFFICES ASSUME dayHistory' \cap {"two-starts", "not-loaded", "late-close"} = {},
                      NEW s \in DOMAIN shifts, shifts[s].st = "ACTIVE"
               PROVE  FALSE
    BY <1>1 DEF OpenShiftIsKnown, ActiveRows
  <2>1. current.id \in {0, clerk[t].shift} /\ dayHistory' = dayHistory BY <1>1
  <2>2. current.id = s BY <2>1 DEF OpenShiftIsKnown, ActiveRows, DayInv, ShiftsInv
  <2>3. shifts[clerk[t].shift].st = "CLOSED" BY <1>1 DEF CallsKnowTheirs, DayInv, ShiftsInv
  <2> QED BY <1>4, <2>1, <2>2, <2>3
<1>9. ClosedShiftIsLeft' BY <1>1, <1>2, <1>4 DEF ClosedShiftIsLeft
<1>10. ServersAreIssued' /\ SalesNameTheirShift' BY <1>1, SalesFrame DEF DayInv, ShiftsInv
<1>11. SeenIsClosed' /\ ClosesAlone'
  <2>1. \A u \in Clerks : Closes(u)' => clerk'[u] = clerk[u] BY <1>3, FreeFacts DEF Closes
  <2> QED BY <1>1, <2>1, SeenFrame, ClosesFrame DEF DayInv, ReportsInv
<1>12. ReportIsSaved' BY <1>1, <1>3, FreeFacts, SavedFrame DEF DayInv, ReportsInv
<1>13. DayIsReported' BY <1>1, WholeFrame DEF DayInv, ReportsInv
<1> QED BY <1>3, <1>5, <1>6, <1>7, <1>8, <1>9, <1>10, <1>11, <1>12, <1>13 DEF DayInv, ShiftsInv, ReportsInv

\* The calls, the table and the reports are left alone: what the memory holds
\* is an open shift, or the one it was.
LEMMA MemoryKeeps ==
  ASSUME DayInv, UNCHANGED <<shifts, rows, reports, closures, clerk, day, issued, restarts>>,
         current' = [id |-> current'.id, expected |-> current'.expected],
         preview' \in Report, preview'.date <= day.here, preview' # NoReport => preview'.date >= 1,
         current'.id = current.id \/ (current'.id \in DOMAIN shifts /\ shifts[current'.id].st = "ACTIVE"),
         OpenShiftIsKnown',
         \A x \in {"two-starts", "two-closings", "rung-in-closed"} : x \notin dayHistory' => x \notin dayHistory
  PROVE  DayInv'
<1>1. DOMAIN shifts = 1..Len(shifts) /\ Len(shifts) \in Nat BY SeqFacts DEF DayInv, ShiftsInv, DayShape
<1>2. current'.id \in Nat /\ current'.id <= Len(shifts)
  BY <1>1 DEF DayInv, ShiftsInv, DayShape, DayBounds
<1>3. DayShape' BY <1>2 DEF DayInv, ShiftsInv, DayShape
<1>4. DayBounds' BY <1>2 DEF DayInv, ShiftsInv, DayBounds
<1>5. CallsKnowTheirs' BY CallsFrame DEF DayInv, ShiftsInv
<1>6. StartsAlone' BY StartsFrame DEF DayInv, ShiftsInv
<1>7. ClosedShiftIsLeft' BY DEF ClosedShiftIsLeft, Busy, DayInv, ShiftsInv
<1>8. ServersAreIssued' /\ SalesNameTheirShift' BY SalesFrame DEF DayInv, ShiftsInv
<1>9. SeenIsClosed' /\ ClosesAlone' BY SeenFrame, ClosesFrame DEF DayInv, ReportsInv
<1>10. ReportIsSaved' BY SavedFrame DEF DayInv, ReportsInv
<1>11. DayIsReported' BY WholeFrame DEF DayInv, ReportsInv
<1> QED BY <1>3, <1>4, <1>5, <1>6, <1>7, <1>8, <1>9, <1>10, <1>11 DEF DayInv, ShiftsInv, ReportsInv

LEMMA LoadActiveShiftKeeps == DayInv /\ LoadActiveShift => DayInv'
<1> SUFFICES ASSUME DayInv, LoadActiveShift PROVE DayInv' OBVIOUS
<1>1. /\ UNCHANGED <<shifts, rows, reports, closures, clerk, day, issued, restarts, preview>>
      /\ dayHistory' = dayHistory \ {"not-loaded", "late-close"}
      /\ \/ ActiveRows = {} /\ current' = current
         \/ \E s \in ActiveRows : current' = Summary(s)
  BY DEF LoadActiveShift, tables
<1>2. preview' \in Report /\ preview'.date <= day.here /\ (preview' # NoReport => preview'.date >= 1)
  BY <1>1 DEF DayInv, ShiftsInv, DayShape, DayBounds
<1>3. ActiveRows' = ActiveRows BY <1>1 DEF ActiveRows
<1>4. \A x \in {"two-starts", "two-closings", "rung-in-closed"} : x \notin dayHistory' => x \notin dayHistory
  BY <1>1
<1>5. CASE ActiveRows = {} /\ current' = current
  <2>1. current' = [id |-> current'.id, expected |-> current'.expected] BY <1>5 DEF DayInv, ShiftsInv, DayShape
  <2>2. OpenShiftIsKnown' BY <1>3, <1>5 DEF OpenShiftIsKnown
  <2> QED BY <1>1, <1>2, <1>4, <1>5, <2>1, <2>2, MemoryKeeps
<1>6. CASE \E s \in ActiveRows : current' = Summary(s)
  <2>1. PICK s \in ActiveRows : current' = Summary(s) BY <1>6
  <2>2. current'.id = s /\ current' = [id |-> current'.id, expected |-> current'.expected]
    BY <2>1 DEF Summary
  <2>3. s \in DOMAIN shifts /\ shifts[s].st = "ACTIVE" BY DEF ActiveRows
  <2>4. OpenShiftIsKnown'
    <3> SUFFICES ASSUME "two-starts" \notin dayHistory', NEW u \in ActiveRows PROVE s = u
      BY <1>3, <2>2 DEF OpenShiftIsKnown
    <3> QED BY <1>4, <2>3 DEF StartsAlone, ActiveRows, DayInv, ShiftsInv
  <2> QED BY <1>1, <1>2, <1>4, <2>2, <2>3, <2>4, MemoryKeeps
<1> QED BY <1>1, <1>5, <1>6

LEMMA UpdateExpectedCashKeeps == DayInv /\ UpdateExpectedCash => DayInv'
<1> SUFFICES ASSUME DayInv, UpdateExpectedCash PROVE DayInv' OBVIOUS
<1> DEFINE cash == Drawer(current.id)
<1>1. /\ UNCHANGED <<shifts, rows, reports, closures, clerk, day, issued, restarts, preview, dayHistory>>
      /\ current' = [current EXCEPT !.expected = cash]
  BY DEF UpdateExpectedCash, tables
<1> HIDE DEF cash
<1>2. current'.id = current.id /\ current' = [id |-> current'.id, expected |-> current'.expected]
  BY <1>1 DEF DayInv, ShiftsInv, DayShape
<1>3. preview' \in Report /\ preview'.date <= day.here /\ (preview' # NoReport => preview'.date >= 1)
  BY <1>1 DEF DayInv, ShiftsInv, DayShape, DayBounds
<1>4. OpenShiftIsKnown' BY <1>1, <1>2, OpenFrame DEF DayInv, ShiftsInv
<1> QED BY <1>1, <1>2, <1>3, <1>4, MemoryKeeps

LEMMA ReportOfFacts ==
  ASSUME DayShape
  PROVE  ReportOf(day.here) \in Report /\ ReportOf(day.here).date = day.here /\ ReportOf(day.here).totals.counts = RowsOf(day.here)
<1>1. RowsOf(day.here) \subseteq Nat
  <2>1. DOMAIN rows = 1..Len(rows) /\ Len(rows) \in Nat BY LenProperties DEF DayShape
  <2> QED BY <2>1 DEF RowsOf
<1>6. DayTotals(day.here) \in Totals /\ DayTotals(day.here).counts = RowsOf(day.here)
  <2>1. \A type : Adding(day.here, type) = {}
    <3>1. \A r \in DOMAIN rows : rows[r].total = 0
      <4>1. DOMAIN rows = 1..Len(rows) /\ rows \in Seq(RowSet) BY LenProperties DEF DayShape
      <4>2. \A r \in DOMAIN rows : rows[r] \in RowSet BY <4>1, ElementOfSeq
      <4> QED BY <4>2 DEF RowSet
    <3> QED BY <3>1 DEF Adding, RowsOf
  <2> QED BY <1>1, <2>1 DEF DayTotals, Totals
<1>2. ShiftsOf(day.here) \subseteq Nat
  <2>1. DOMAIN shifts = 1..Len(shifts) /\ Len(shifts) \in Nat BY SeqFacts DEF DayShape
  <2> QED BY <2>1 DEF ShiftsOf
<1> DEFINE of == {r \in reports : r.date = day.here}
<1>3. Cardinality(of) + 1 \in Nat
  <2>1. of \subseteq reports /\ IsFiniteSet(reports) BY DEF DayShape
  <2> HIDE DEF of
  <2> QED BY <2>1, FS_Subset, FS_CardinalityType
<1>4. ReportOf(day.here) = [date |-> day.here, number |-> Cardinality(of) + 1, totals |-> DayTotals(day.here), lists |-> ShiftsOf(day.here)]
  BY DEF ReportOf
<1>5. day.here \in Nat BY DEF DayShape
<1> HIDE DEF of
<1> QED BY <1>2, <1>3, <1>4, <1>5, <1>6 DEF Report

LEMMA GenerateKeeps == DayInv /\ Generate => DayInv'
<1> SUFFICES ASSUME DayInv, Generate PROVE DayInv' OBVIOUS
<1>1. /\ UNCHANGED <<shifts, rows, reports, closures, clerk, day, issued, restarts, current, dayHistory>>
      /\ preview' = ReportOf(day.here)
  BY DEF Generate, tables
<1>2. preview' \in Report /\ preview'.date <= day.here /\ (preview' # NoReport => preview'.date >= 1)
  BY <1>1, ReportOfFacts DEF DayInv, ShiftsInv, DayShape
<1>3. current' = [id |-> current'.id, expected |-> current'.expected]
  BY <1>1 DEF DayInv, ShiftsInv, DayShape
<1>4. OpenShiftIsKnown' BY <1>1, OpenFrame DEF DayInv, ShiftsInv
<1> QED BY <1>1, <1>2, <1>3, <1>4, MemoryKeeps

\* A midnight goes by: nothing but the date, and that the till's does not go back.
LEMMA MidnightKeeps ==
  ASSUME DayInv, UNCHANGED <<shifts, rows, reports, closures, clerk, issued, restarts, current, dayHistory, preview>>,
         day' = [here |-> day'.here, utc |-> day'.utc], day'.here \in Nat, day'.utc \in Nat, day.here <= day'.here,
         Len(rows) + restarts + day'.here <= MaxEvents + 1,
         IF East THEN day'.utc \in {day'.here - 1, day'.here} ELSE day'.utc \in {day'.here, day'.here + 1}
  PROVE  DayInv'
<1>1. day.here \in Nat \ {0} BY DEF DayInv, ShiftsInv, DayShape
<1>2. DayShape'
  <2>1. \A t \in Clerks : clerk[t].report.date \in Nat BY ClerkFields DEF DayInv, ShiftsInv, Report
  <2>2. preview.date \in Nat BY DEF DayInv, ShiftsInv, DayShape, Report
  <2>3. preview.date <= day'.here /\ \A t \in Clerks : clerk[t].report.date <= day'.here
    BY <1>1, <2>1, <2>2 DEF DayInv, ShiftsInv, DayShape
  <2>4. day'.here \in Nat \ {0} BY <1>1
  <2> QED BY <2>3, <2>4 DEF DayInv, ShiftsInv, DayShape
<1>3. DayBounds'
  <2>1. closures \subseteq 1..day'.here BY <1>1 DEF DayInv, ShiftsInv, DayBounds
  <2> QED BY <2>1 DEF DayInv, ShiftsInv, DayBounds
<1>4. CallsKnowTheirs' BY CallsFrame DEF DayInv, ShiftsInv
<1>5. StartsAlone' BY StartsFrame DEF DayInv, ShiftsInv
<1>6. OpenShiftIsKnown' BY OpenFrame DEF DayInv, ShiftsInv
<1>7. ClosedShiftIsLeft' BY LeftFrame DEF DayInv, ShiftsInv
<1>8. ServersAreIssued' /\ SalesNameTheirShift' BY SalesFrame DEF DayInv, ShiftsInv
<1>9. SeenIsClosed' BY SeenFrame DEF DayInv, ReportsInv
<1>10. ClosesAlone'
  <2>1. \A r \in reports : r.date \in Nat BY DEF DayInv, ShiftsInv, DayShape, ReportRow
  <2>2. \A t \in Clerks : Closes(t)' <=> Closes(t) BY DEF Closes
  <2>3. \A r \in reports : r.date <= day.here BY DEF ClosesAlone, DayInv, ReportsInv
  <2>4. \A r \in reports : r.date <= day'.here /\ (r.date < day.here => r.date < day'.here)
    BY <1>1, <2>1, <2>3
  <2> QED BY <2>2, <2>4 DEF ClosesAlone, DayInv, ReportsInv
<1>11. ReportIsSaved' BY SavedFrame DEF DayInv, ReportsInv
<1>12. DayIsReported' BY WholeFrame DEF DayInv, ReportsInv
<1> QED BY <1>2, <1>3, <1>4, <1>5, <1>6, <1>7, <1>8, <1>9, <1>10, <1>11, <1>12 DEF DayInv, ShiftsInv, ReportsInv

LEMMA MidnightsKeep == DayInv /\ Midnights => DayInv'
<1> SUFFICES ASSUME DayInv, Midnights PROVE DayInv' OBVIOUS
<1>1. /\ UNCHANGED <<shifts, rows, reports, closures, clerk, issued, restarts, current, dayHistory, preview>>
      /\ \/ /\ day' = [day EXCEPT !.here = @ + 1] /\ Len(rows) + restarts + day.here <= MaxEvents
            /\ IF East THEN day.here <= day.utc ELSE day.here < day.utc
         \/ /\ day' = [day EXCEPT !.utc = @ + 1]
            /\ IF East THEN day.utc < day.here ELSE day.utc <= day.here
  BY DEF Midnights, NextDay, NextDayOfUtc, tables, Eventful
<1>2. /\ day = [here |-> day.here, utc |-> day.utc] /\ day.here \in Nat \ {0} /\ day.utc \in Nat
      /\ restarts \in Nat /\ Len(rows) \in Nat
  BY LenProperties DEF DayInv, ShiftsInv, DayShape
<1>3. /\ Len(rows) + restarts + day.here <= MaxEvents + 1
      /\ IF East THEN day.utc \in {day.here - 1, day.here} ELSE day.utc \in {day.here, day.here + 1}
  BY DEF DayInv, ShiftsInv, DayBounds
<1>4. /\ day' = [here |-> day'.here, utc |-> day'.utc]
      /\ \/ /\ day'.here = day.here + 1 /\ day'.utc = day.utc /\ Len(rows) + restarts + day.here <= MaxEvents
            /\ IF East THEN day.here <= day.utc ELSE day.here < day.utc
         \/ /\ day'.here = day.here /\ day'.utc = day.utc + 1
            /\ IF East THEN day.utc < day.here ELSE day.utc <= day.here
  BY <1>1, <1>2
<1>5. MaxEvents \in Nat BY DayAssumption
<1>6. /\ day'.here \in Nat /\ day'.utc \in Nat /\ day.here <= day'.here
      /\ Len(rows) + restarts + day'.here <= MaxEvents + 1
  BY <1>2, <1>3, <1>4, <1>5
<1>7. IF East THEN day'.utc \in {day'.here - 1, day'.here} ELSE day'.utc \in {day'.here, day'.here + 1}
  BY <1>2, <1>3, <1>4
<1> QED BY <1>1, <1>4, <1>6, <1>7, MidnightKeeps

LEMMA RestartKeeps == DayInv /\ Restart => DayInv'
<1> SUFFICES ASSUME DayInv, Restart PROVE DayInv' OBVIOUS
<1>1. /\ UNCHANGED <<shifts, rows, reports, closures, issued, day>> /\ restarts' = restarts + 1
      /\ Len(rows) + restarts + day.here <= MaxEvents
      /\ current' = NoShift /\ preview' = NoReport /\ clerk' = [t \in Clerks |-> Free]
      /\ dayHistory' = dayHistory \cup {"not-loaded"}
  BY DEF Restart, tables, Eventful, Excuse
<1>2. day.here \in Nat /\ Len(rows) \in Nat /\ restarts \in Nat
  BY LenProperties DEF DayInv, ShiftsInv, DayShape
<1>3. \A t \in Clerks : clerk'[t] = Free BY <1>1
<1>4. current'.id = 0 /\ current' = [id |-> current'.id, expected |-> current'.expected]
  BY <1>1 DEF NoShift
<1>5. DOMAIN shifts = 1..Len(shifts) /\ Len(shifts) \in Nat BY SeqFacts DEF DayInv, ShiftsInv, DayShape
<1>6. DayShape'
  BY <1>1, <1>2, <1>3, <1>4, FreeFacts DEF DayInv, ShiftsInv, DayShape
<1>7. DayBounds'
  <2>1. Len(rows') + restarts' + day'.here <= MaxEvents + 1 BY <1>1, <1>2, DayAssumption
  <2>2. current'.id <= Len(shifts') BY <1>1, <1>4, <1>5
  <2> QED BY <1>1, <1>3, <2>1, <2>2, FreeFacts DEF DayInv, ShiftsInv, DayBounds
<1>8. CallsKnowTheirs' BY <1>1, <1>3, FreeFacts, CallsFrame DEF DayInv, ShiftsInv
<1>9. StartsAlone' BY <1>1, <1>3, FreeFacts, StartsFrame DEF DayInv, ShiftsInv
<1>10. OpenShiftIsKnown' BY <1>1 DEF OpenShiftIsKnown
<1>11. ClosedShiftIsLeft' BY <1>1, <1>4, <1>5 DEF ClosedShiftIsLeft
<1>12. ServersAreIssued' /\ SalesNameTheirShift' BY <1>1, SalesFrame DEF DayInv, ShiftsInv
<1>13. SeenIsClosed' /\ ClosesAlone'
  <2>1. \A u \in Clerks : ~Closes(u)' BY <1>3, FreeFacts DEF Closes
  <2> QED BY <1>1, <2>1, SeenFrame, ClosesFrame DEF DayInv, ReportsInv
<1>14. ReportIsSaved' BY <1>1, <1>3, FreeFacts, SavedFrame DEF DayInv, ReportsInv
<1>15. DayIsReported' BY <1>1, WholeFrame DEF DayInv, ReportsInv
<1> QED BY <1>6, <1>7, <1>8, <1>9, <1>10, <1>11, <1>12, <1>13, <1>14, <1>15 DEF DayInv, ShiftsInv, ReportsInv
-----------------------------------------------------------------------------
(* Sales and returns.                                                      *)

\* Rows are told again, or rung in: none of them in a closed shift unexcused.
LEMMA RowsKeep ==
  ASSUME DayInv, UNCHANGED <<shifts, reports, closures, current, preview, clerk, day, issued, restarts>>,
         rows' \in Seq(RowSet),
         Len(rows') + restarts + day.here <= MaxEvents + 1,
         \A r \in DOMAIN rows' : rows'[r].of < r /\ rows'[r].shift \in DOMAIN shifts,
         \A r \in DOMAIN rows' : rows'[r].named # 0 =>
           rows'[r].named \in DOMAIN issued /\ issued[rows'[r].named] = rows'[r].shift,
         \A r \in DOMAIN rows' :
           \/ r \in DOMAIN rows /\ rows'[r].day = rows[r].day /\ rows'[r].shift = rows[r].shift
           \/ shifts[rows'[r].shift].st # "CLOSED"
           \/ "rung-in-closed" \in dayHistory',
         dayHistory \subseteq dayHistory', dayHistory' \subseteq dayHistory \cup {"rung-in-closed"}
  PROVE  DayInv'
<1>1. DayShape' BY DEF DayInv, ShiftsInv, DayShape
<1>2. DayBounds' BY DEF DayInv, ShiftsInv, DayBounds
<1>3. CallsKnowTheirs' BY CallsFrame DEF DayInv, ShiftsInv
<1>4. StartsAlone' BY StartsFrame DEF DayInv, ShiftsInv
<1>5. OpenShiftIsKnown' BY OpenFrame DEF DayInv, ShiftsInv
<1>6. ClosedShiftIsLeft' BY LeftFrame DEF DayInv, ShiftsInv
<1>7. ServersAreIssued' /\ SalesNameTheirShift'
  BY DEF ServersAreIssued, SalesNameTheirShift, DayInv, ShiftsInv
<1>8. SeenIsClosed'
  <2> SUFFICES ASSUME NEW u \in Clerks, Closes(u)
               PROVE  /\ \A s \in clerk[u].seen : s \in DOMAIN shifts /\ shifts[s].st = "CLOSED"
                      /\ clerk[u].at = "fresh" /\ "rung-in-closed" \notin dayHistory' =>
                           \A m \in RowsOf(clerk[u].report.date)' \ clerk[u].report.totals.counts :
                             rows'[m].shift \notin clerk[u].seen
    BY DEF SeenIsClosed, Closes
  <2>1. \A s \in clerk[u].seen : s \in DOMAIN shifts /\ shifts[s].st = "CLOSED"
    BY DEF SeenIsClosed, DayInv, ReportsInv
  <2>2. ASSUME clerk[u].at = "fresh", "rung-in-closed" \notin dayHistory',
               NEW m \in RowsOf(clerk[u].report.date)' \ clerk[u].report.totals.counts
        PROVE  rows'[m].shift \notin clerk[u].seen
    <3>1. m \in DOMAIN rows' /\ rows'[m].day = clerk[u].report.date BY DEF RowsOf
    <3>2. CASE m \in DOMAIN rows /\ rows'[m].day = rows[m].day /\ rows'[m].shift = rows[m].shift
      <4>1. m \in RowsOf(clerk[u].report.date) \ clerk[u].report.totals.counts BY <3>1, <3>2 DEF RowsOf
      <4> QED BY <4>1, <2>2, <3>2 DEF SeenIsClosed, DayInv, ReportsInv
    <3>3. CASE shifts[rows'[m].shift].st # "CLOSED" BY <3>3, <2>1
    <3> QED BY <3>1, <3>2, <3>3, <2>2
  <2> QED BY <2>1, <2>2
<1>9. ClosesAlone' BY ClosesFrame DEF DayInv, ReportsInv
<1>10. ReportIsSaved' BY SavedFrame DEF DayInv, ReportsInv
<1>11. DayIsReported' BY WholeFrame DEF DayInv, ReportsInv
<1> QED BY <1>1, <1>2, <1>3, <1>4, <1>5, <1>6, <1>7, <1>8, <1>9, <1>10, <1>11 DEF DayInv, ShiftsInv, ReportsInv

LEMMA RingsKeeps ==
  ASSUME DayInv, NEW of \in Nat, of <= Len(rows), NEW cash \in Int, Rings(of, cash)
  PROVE  DayInv'
<1> DEFINE row == NewRow(of, cash)
           n == Len(rows) + 1
<1>1. /\ Len(rows) + restarts + day.here <= MaxEvents /\ current.id # 0
      /\ rows' = Append(rows, row)
      /\ dayHistory' = dayHistory \/ dayHistory' = dayHistory \cup {"rung-in-closed"}
      /\ shifts[current.id].st # "CLOSED" \/ "rung-in-closed" \in dayHistory'
      /\ UNCHANGED <<shifts, reports, closures, current, preview, clerk, day, issued, restarts>>
  BY DEF Rings, Eventful, Excuse
<1>2. rows \in Seq(RowSet) /\ day.here \in Nat /\ day.utc \in Nat /\ restarts \in Nat /\ current.id \in Nat
  BY DEF DayInv, ShiftsInv, DayShape
<1>3. row \in RowSet /\ row.of = of /\ row.shift = current.id /\ row.named = 0 BY <1>2 DEF NewRow, RowSet
<1>4. current.id \in DOMAIN shifts
  BY <1>1, <1>2, SeqFacts DEF DayInv, ShiftsInv, DayShape, DayBounds
<1> HIDE DEF row
<1>5. /\ rows' \in Seq(RowSet) /\ Len(rows') = n /\ rows'[n] = row
      /\ \A i \in 1..Len(rows) : rows'[i] = rows[i]
  <2> QED BY <1>1, <1>2, <1>3, AppendProperties
<1>6. Len(rows) \in Nat /\ DOMAIN rows = 1..Len(rows) /\ DOMAIN rows' = 1..n
  <2>1. DOMAIN rows = 1..Len(rows) /\ Len(rows) \in Nat BY <1>2, LenProperties
  <2>2. DOMAIN rows' = 1..Len(rows') BY <1>5, LenProperties
  <2> QED BY <1>5, <2>1, <2>2
<1>7. n \in Nat /\ DOMAIN rows' = DOMAIN rows \cup {n} /\ of < n BY <1>6
<1>8. Len(rows') + restarts + day.here <= MaxEvents + 1 BY <1>1, <1>2, <1>5, <1>6, DayAssumption
<1> HIDE DEF n
<1>9. \A r \in DOMAIN rows' : (r \in DOMAIN rows /\ rows'[r] = rows[r]) \/ (r = n /\ rows'[r] = row)
  BY <1>5, <1>6, <1>7
<1>10. \A r \in DOMAIN rows' : rows'[r].of < r /\ rows'[r].shift \in DOMAIN shifts
  BY <1>3, <1>4, <1>7, <1>9 DEF DayInv, ShiftsInv, DayBounds
<1>11. \A r \in DOMAIN rows' : rows'[r].named # 0 =>
         rows'[r].named \in DOMAIN issued /\ issued[rows'[r].named] = rows'[r].shift
  BY <1>3, <1>9 DEF DayInv, ShiftsInv, SalesNameTheirShift
<1>12. \A r \in DOMAIN rows' :
           \/ r \in DOMAIN rows /\ rows'[r].day = rows[r].day /\ rows'[r].shift = rows[r].shift
           \/ shifts[rows'[r].shift].st # "CLOSED"
           \/ "rung-in-closed" \in dayHistory'
  BY <1>1, <1>3, <1>9
<1>13. dayHistory \subseteq dayHistory' /\ dayHistory' \subseteq dayHistory \cup {"rung-in-closed"} BY <1>1
<1> QED BY <1>1, <1>5, <1>8, <1>10, <1>11, <1>12, <1>13, RowsKeep

LEMMA CompleteSaleKeeps == DayInv /\ CompleteSale => DayInv'
<1> SUFFICES ASSUME DayInv, CompleteSale PROVE DayInv' OBVIOUS
<1>1. Rings(0, Price) /\ Price \in Int BY DEF CompleteSale, Price
<1>2. 0 \in Nat /\ 0 <= Len(rows) BY LenProperties DEF DayInv, ShiftsInv, DayShape
<1>3. PICK of \in Nat, cash \in Int : Rings(of, cash) /\ of <= Len(rows) BY <1>1, <1>2
<1> QED BY <1>3, RingsKeeps

LEMMA SaleReturnedKeeps == \A r \in DOMAIN rows : DayInv /\ SaleReturned(r) => DayInv'
<1> SUFFICES ASSUME NEW r \in DOMAIN rows, DayInv, SaleReturned(r) PROVE DayInv' OBVIOUS
<1>1. Rings(r, -Price) /\ -Price \in Int BY DEF SaleReturned, Price
<1>2. r \in Nat /\ r <= Len(rows) BY LenProperties DEF DayInv, ShiftsInv, DayShape
<1>3. PICK of \in Nat, cash \in Int : Rings(of, cash) /\ of <= Len(rows) BY <1>1, <1>2
<1> QED BY <1>3, RingsKeeps

\* What the platform is told is the id it issued for the shift of the row.
LEMMA SendRowKeeps == \A r \in DOMAIN rows : DayInv /\ SendRow(r) => DayInv'
<1> SUFFICES ASSUME NEW r \in DOMAIN rows, DayInv, SendRow(r) PROVE DayInv' OBVIOUS
<1> DEFINE id == shifts[rows[r].shift].server
           row == [rows[r] EXCEPT !.named = id]
<1>1. /\ rows' = [rows EXCEPT ![r] = row]
      /\ UNCHANGED <<shifts, reports, closures, current, preview, clerk, day, issued, dayHistory, restarts>>
  BY DEF SendRow, ServerShiftId
<1>2. rows \in Seq(RowSet) BY DEF DayInv, ShiftsInv, DayShape
<1>3. rows[r] \in RowSet /\ DOMAIN rows = 1..Len(rows) /\ Len(rows) \in Nat
  BY <1>2, LenProperties
<1>4. rows[r].shift \in DOMAIN shifts BY DEF DayInv, ShiftsInv, DayBounds
<1>5. id \in Nat BY <1>4 DEF DayInv, ShiftsInv, DayShape, IsShiftRow
<1>6. id # 0 => id \in DOMAIN issued /\ issued[id] = rows[r].shift
  BY <1>4 DEF ServersAreIssued, DayInv, ShiftsInv
<1> HIDE DEF id
<1>7. row \in RowSet /\ row.named = id /\ row.of = rows[r].of /\ row.shift = rows[r].shift /\ row.day = rows[r].day
  BY <1>3, <1>5 DEF RowSet
<1> HIDE DEF row
<1>8. rows' \in Seq(RowSet) /\ Len(rows') = Len(rows)
  <2> QED BY <1>1, <1>2, <1>3, <1>7, ExceptSeq
<1>9. DOMAIN rows' = DOMAIN rows /\ rows'[r] = row /\ \A m \in DOMAIN rows : m # r => rows'[m] = rows[m]
  BY <1>1
<1>10. Len(rows') + restarts + day.here <= MaxEvents + 1 BY <1>8 DEF DayInv, ShiftsInv, DayBounds
<1>11. \A m \in DOMAIN rows' : /\ m \in DOMAIN rows /\ rows'[m].day = rows[m].day /\ rows'[m].shift = rows[m].shift
                               /\ rows'[m].of = rows[m].of
  BY <1>7, <1>9
<1>12. \A m \in DOMAIN rows' : rows'[m].of < m /\ rows'[m].shift \in DOMAIN shifts
  BY <1>11 DEF DayInv, ShiftsInv, DayBounds
<1>13. \A m \in DOMAIN rows' : rows'[m].named # 0 =>
         rows'[m].named \in DOMAIN issued /\ issued[rows'[m].named] = rows'[m].shift
  BY <1>6, <1>7, <1>9 DEF DayInv, ShiftsInv, SalesNameTheirShift
<1> QED BY <1>1, <1>8, <1>10, <1>11, <1>12, <1>13, RowsKeep
-----------------------------------------------------------------------------
(* The Z report.                                                           *)

\* A closing moves on: nothing of the shifts and sales is touched.
LEMMA ClosingKeepsShifts ==
  ASSUME ShiftsInv, UNCHANGED <<shifts, rows, current, day, issued, restarts>>,
         NEW t \in Clerks, NEW new \in ClerkSet, clerk' = [clerk EXCEPT ![t] = new], clerk[t].at # "closing",
         new.at \in {"idle", "day", "cached", "fresh", "saved", "reporting"}, new.report.date <= day.here,
         new.at \in {"cached", "fresh", "saved", "reporting"} => new.report.date >= 1,
         preview' \in Report, preview'.date <= day.here, preview' # NoReport => preview'.date >= 1,
         IsFiniteSet(reports'), reports' \subseteq ReportRow, closures' \subseteq 1..day.here,
         dayHistory \subseteq dayHistory'
  PROVE  ShiftsInv' /\ clerk'[t] = new /\ \A u \in Clerks : u # t => clerk'[u] = clerk[u]
<1>1. DayShape' /\ clerk'[t] = new /\ \A u \in Clerks : u # t => clerk'[u] = clerk[u]
  BY DEF ShiftsInv, DayShape
<1>2. DayBounds' BY <1>1 DEF ShiftsInv, DayBounds
<1>3. CallsKnowTheirs' BY <1>1, CallsFrame DEF ShiftsInv
<1>4. StartsAlone' BY <1>1, StartsFrame DEF ShiftsInv
<1>5. OpenShiftIsKnown' BY OpenFrame DEF ShiftsInv
<1>6. ClosedShiftIsLeft' BY <1>1, LeftFrame DEF ShiftsInv
<1>7. ServersAreIssued' /\ SalesNameTheirShift' BY SalesFrame DEF ShiftsInv
<1> QED BY <1>1, <1>2, <1>3, <1>4, <1>5, <1>6, <1>7 DEF ShiftsInv

\* What one closing sees, for the others as it was.
LEMMA SeenOfOne ==
  ASSUME SeenIsClosed, UNCHANGED <<shifts, rows>>, NEW t \in Clerks, NEW new, clerk'[t] = new,
         \A u \in Clerks : u # t => clerk'[u] = clerk[u],
         "rung-in-closed" \notin dayHistory' => "rung-in-closed" \notin dayHistory,
         new.at \in {"day", "cached", "fresh"} => \A s \in new.seen : s \in DOMAIN shifts /\ shifts[s].st = "CLOSED",
         new.at = "fresh" => RowsOf(new.report.date) \subseteq new.report.totals.counts
  PROVE  SeenIsClosed'
<1> SUFFICES ASSUME NEW u \in Clerks, Closes(u)'
             PROVE  /\ \A s \in clerk'[u].seen : s \in DOMAIN shifts /\ shifts[s].st = "CLOSED"
                    /\ clerk'[u].at = "fresh" /\ "rung-in-closed" \notin dayHistory' =>
                         \A n \in RowsOf(clerk[u].report.date)' \ clerk'[u].report.totals.counts :
                           rows[n].shift \notin clerk'[u].seen
  BY DEF SeenIsClosed
<1>1. RowsOf(clerk[u].report.date)' = RowsOf(clerk'[u].report.date) BY DEF RowsOf
<1>2. CASE u = t BY <1>1, <1>2 DEF Closes
<1>3. CASE u # t
  <2>1. clerk'[u] = clerk[u] /\ Closes(u) BY <1>3 DEF Closes
  <2> QED BY <1>1, <2>1 DEF SeenIsClosed
<1> QED BY <1>2, <1>3

\* What a closing may begin with: every shift closed, and no report of today.
LEMMA CanCloseDayKeeps == \A t \in Clerks : DayInv /\ CanCloseDay(t) => DayInv'
<1> SUFFICES ASSUME NEW t \in Clerks, DayInv, CanCloseDay(t) PROVE DayInv' OBVIOUS
<1> DEFINE new == [Free EXCEPT !.at = "day", !.seen = DOMAIN shifts]
<1>1. /\ clerk[t].at = "idle" /\ ActiveRows = {} /\ (\A r \in reports : r.date # day.here)
      /\ clerk' = [clerk EXCEPT ![t] = new]
      /\ dayHistory \subseteq dayHistory' /\ dayHistory' \subseteq dayHistory \cup {"two-closings"}
      /\ "two-closings" \notin dayHistory' => dayHistory' = dayHistory /\ \A u \in Clerks : ~Closes(u)
      /\ UNCHANGED <<shifts, rows, reports, closures, current, preview, day, issued, restarts>>
  BY DEF CanCloseDay, Busy, tables, Excuse
<1>2. DOMAIN shifts \subseteq Nat
  <2>1. DOMAIN shifts = 1..Len(shifts) /\ Len(shifts) \in Nat BY SeqFacts DEF DayInv, ShiftsInv, DayShape
  <2> QED BY <2>1
<1>3. new \in ClerkSet /\ new.at = "day" /\ new.seen = DOMAIN shifts /\ new.report.date = 0
  BY <1>2, FreeFacts DEF ClerkSet, Free
<1> HIDE DEF new
<1>4. ShiftsInv' /\ clerk'[t] = new /\ \A u \in Clerks : u # t => clerk'[u] = clerk[u]
  <2>1. /\ preview' \in Report /\ preview'.date <= day.here /\ (preview' # NoReport => preview'.date >= 1)
        /\ IsFiniteSet(reports') /\ reports' \subseteq ReportRow /\ closures' \subseteq 1..day.here /\ day.here \in Nat
    BY <1>1 DEF DayInv, ShiftsInv, DayShape, DayBounds
  <2>2. ShiftsInv /\ new.report.date <= day.here /\ clerk[t].at # "closing" BY <1>1, <1>3, <2>1 DEF DayInv
  <2> QED BY <1>1, <1>3, <2>1, <2>2, ClosingKeepsShifts
<1>5. SeenIsClosed'
  <2>1. \A s \in DOMAIN shifts : shifts[s].st = "CLOSED"
    BY <1>1 DEF ActiveRows, DayInv, ShiftsInv, DayShape, IsShiftRow
  <2> QED BY <1>1, <1>3, <1>4, <2>1, SeenOfOne DEF DayInv, ReportsInv
<1>6. ClosesAlone'
  <2>1. (\A r \in reports : r.date \in Nat) /\ day.here \in Nat BY DEF DayInv, ShiftsInv, DayShape, ReportRow
  <2>2. \A r \in reports : r.date <= day.here /\ r.date < day.here BY <1>1, <2>1 DEF ClosesAlone, DayInv, ReportsInv
  <2>3. "two-closings" \notin dayHistory' =>
          /\ \A u \in Clerks : Closes(u)' => u = t
          /\ \A u \in Clerks : clerk'[u].at # "fresh"
    BY <1>1, <1>3, <1>4 DEF Closes
  <2> QED BY <1>1, <2>2, <2>3 DEF ClosesAlone
<1>7. ReportIsSaved' BY <1>1, <1>3, <1>4, SavedFrame DEF DayInv, ReportsInv
<1>8. DayIsReported' BY <1>1, WholeFrame DEF DayInv, ReportsInv
<1> QED BY <1>4, <1>5, <1>6, <1>7, <1>8 DEF DayInv, ReportsInv

\* The report taken is the cached one, or counts every row there is.
LEMMA TakeReportKeeps == \A t \in Clerks : DayInv /\ TakeReport(t) => DayInv'
<1> SUFFICES ASSUME NEW t \in Clerks, DayInv, TakeReport(t) PROVE DayInv' OBVIOUS
<1>1. /\ clerk[t].at = "day"
      /\ UNCHANGED <<shifts, rows, reports, closures, current, day, issued, dayHistory, restarts>>
  BY DEF TakeReport, Busy, tables
<1>2. clerk[t] \in ClerkSet BY ClerkFields DEF DayInv, ShiftsInv
<1>3. ASSUME NEW stage \in {"cached", "fresh"}, NEW r \in Report, r.date <= day.here, r.date >= 1,
             preview' \in {preview, r}, preview' \in Report,
             clerk' = [clerk EXCEPT ![t] = [clerk[t] EXCEPT !.at = stage, !.report = r]],
             stage = "fresh" => r.date = day.here /\ r.totals.counts = RowsOf(day.here)
      PROVE  DayInv'
  <2> DEFINE new == [clerk[t] EXCEPT !.at = stage, !.report = r]
  <2>1. new \in ClerkSet /\ new.at = stage /\ new.report = r /\ new.seen = clerk[t].seen
    BY <1>2, <1>3 DEF ClerkSet
  <2>2. clerk' = [clerk EXCEPT ![t] = new] BY <1>3
  <2> HIDE DEF new
  <2>3. ShiftsInv' /\ clerk'[t] = new /\ \A u \in Clerks : u # t => clerk'[u] = clerk[u]
    <3>1. /\ preview'.date <= day.here /\ (preview' # NoReport => preview'.date >= 1)
          /\ IsFiniteSet(reports') /\ reports' \subseteq ReportRow /\ closures' \subseteq 1..day.here
      BY <1>1, <1>3 DEF DayInv, ShiftsInv, DayShape, DayBounds
    <3>2. /\ ShiftsInv /\ new.report.date <= day.here /\ new.report.date >= 1 /\ clerk[t].at # "closing"
          /\ new.at \in {"idle", "day", "cached", "fresh", "saved", "reporting"}
      BY <1>1, <1>3, <2>1 DEF DayInv
    <3> QED BY <1>1, <1>3, <2>1, <2>2, <3>1, <3>2, ClosingKeepsShifts
  <2>4. SeenIsClosed'
    <3>1. \A s \in new.seen : s \in DOMAIN shifts /\ shifts[s].st = "CLOSED"
      BY <1>1, <2>1 DEF SeenIsClosed, Closes, DayInv, ReportsInv
    <3> QED BY <1>1, <1>3, <2>1, <2>3, <3>1, SeenOfOne DEF DayInv, ReportsInv
  <2>5. ClosesAlone'
    <3>1. \A u \in Clerks : Closes(u)' => Closes(u) BY <1>1, <2>3 DEF Closes
    <3>2. ASSUME "two-closings" \notin dayHistory', NEW u \in Clerks, NEW q \in reports, ~q.cached
          PROVE  /\ clerk'[u].at = "day" => q.date < day.here
                 /\ clerk'[u].at = "fresh" => q.date < clerk'[u].report.date
      <4>1. /\ clerk[u].at = "day" => q.date < day.here
            /\ clerk[u].at = "fresh" => q.date < clerk[u].report.date
        BY <1>1, <3>2 DEF ClosesAlone, DayInv, ReportsInv
      <4>2. CASE u # t BY <4>1, <4>2, <2>3
      <4>3. CASE u = t
        <5>1. q.date < day.here BY <1>1, <4>1, <4>3
        <5> QED BY <5>1, <4>3, <1>3, <2>1, <2>3
      <4> QED BY <4>2, <4>3
    <3>3. \A q \in reports : q.date <= day.here BY DEF ClosesAlone, DayInv, ReportsInv
    <3>4. "two-closings" \notin dayHistory' => \A u, v \in Clerks : Closes(u)' /\ Closes(v)' => u = v
      BY <1>1, <3>1 DEF ClosesAlone, DayInv, ReportsInv
    <3> QED BY <1>1, <3>2, <3>3, <3>4 DEF ClosesAlone
  <2>6. ReportIsSaved' BY <1>1, <1>3, <2>1, <2>3, SavedFrame DEF DayInv, ReportsInv
  <2>7. DayIsReported' BY <1>1, WholeFrame DEF DayInv, ReportsInv
  <2> QED BY <2>3, <2>4, <2>5, <2>6, <2>7 DEF DayInv, ReportsInv
<1>4. preview \in Report /\ preview.date <= day.here /\ (preview # NoReport => preview.date >= 1)
  BY DEF DayInv, ShiftsInv, DayShape, DayBounds
<1>5. CASE /\ preview # NoReport /\ UNCHANGED preview
           /\ clerk' = [clerk EXCEPT ![t].at = "cached", ![t].report = preview]
  <2>1. clerk' = [clerk EXCEPT ![t] = [clerk[t] EXCEPT !.at = "cached", !.report = preview]]
    BY <1>5 DEF DayInv, ShiftsInv, DayShape
  <2> QED BY <1>3, <1>4, <1>5, <2>1
<1>6. CASE /\ preview' = ReportOf(day.here)
           /\ clerk' = [clerk EXCEPT ![t].at = "fresh", ![t].report = ReportOf(day.here)]
  <2> DEFINE r == ReportOf(day.here)
  <2>1. r \in Report /\ r.date = day.here /\ r.totals.counts = RowsOf(day.here) /\ day.here >= 1 /\ day.here \in Nat
    BY ReportOfFacts DEF DayInv, ShiftsInv, DayShape
  <2>2. preview' = r /\ clerk' = [clerk EXCEPT ![t].at = "fresh", ![t].report = r] BY <1>6
  <2> HIDE DEF r
  <2>3. clerk' = [clerk EXCEPT ![t] = [clerk[t] EXCEPT !.at = "fresh", !.report = r]]
    BY <2>2 DEF DayInv, ShiftsInv, DayShape
  <2>4. r.date <= day.here /\ r.date >= 1 BY <2>1
  <2>5. preview' \in {preview, r} /\ preview' \in Report BY <2>1, <2>2
  <2> QED BY <1>3, <2>1, <2>3, <2>4, <2>5
<1>7. CASE Frees(t) /\ UNCHANGED preview
  <2>1. clerk[t].at # "closing" /\ preview' \in {preview, NoReport} BY <1>1, <1>7
  <2> QED BY <1>1, <1>7, <2>1, FreesKeeps
<1> QED BY <1>5, <1>6, <1>7 DEF TakeReport
\* A report is saved under its key, or the call gives up on one that is there.
LEMMA SaveZReportKeeps == \A t \in Clerks : DayInv /\ SaveZReport(t) => DayInv'
<1> SUFFICES ASSUME NEW t \in Clerks, DayInv, SaveZReport(t) PROVE DayInv' OBVIOUS
<1> DEFINE r == clerk[t].report
           fromCache == clerk[t].at = "cached"
           missed == Uncounted(t)
           open == ActiveRows \cap ShiftsOf(r.date) \cap clerk[t].seen
           row == [date |-> r.date, number |-> r.number, totals |-> r.totals, cached |-> fromCache, missed |-> missed,
                   open |-> open, synced |-> FALSE]
           new == [clerk[t] EXCEPT !.at = "saved"]
<1>1. /\ clerk[t].at \in {"cached", "fresh"}
      /\ UNCHANGED <<shifts, rows, closures, current, preview, day, issued, dayHistory, restarts>>
  BY DEF SaveZReport, Busy
<1>2. (Frees(t) /\ UNCHANGED reports) \/ (reports' = reports \cup {row} /\ clerk' = [clerk EXCEPT ![t].at = "saved"])
  BY DEF SaveZReport, Busy, Goes
<1>3. CASE Frees(t) /\ UNCHANGED reports
  <2>1. clerk[t].at # "closing" /\ preview' \in {preview, NoReport} BY <1>1
  <2> QED BY <1>1, <1>3, <2>1, FreesKeeps
<1>4. CASE reports' = reports \cup {row} /\ clerk' = [clerk EXCEPT ![t].at = "saved"]
  <2>1. clerk[t] \in ClerkSet /\ r \in Report /\ r.date <= day.here BY ClerkFields DEF DayInv, ShiftsInv
  <2>2. /\ r.date \in Nat /\ r.number \in Nat /\ r.totals \in Totals /\ r.date >= 1 /\ fromCache \in BOOLEAN
        /\ fromCache <=> clerk[t].at = "cached"
    BY <1>1, <2>1 DEF Report, DayInv, ShiftsInv, DayBounds
  <2>3. missed \subseteq Nat /\ open \subseteq Nat
    <3>1. DOMAIN rows \subseteq Nat BY LenProperties DEF DayInv, ShiftsInv, DayShape
    <3>2. DOMAIN shifts \subseteq Nat
      <4>1. DOMAIN shifts = 1..Len(shifts) /\ Len(shifts) \in Nat BY SeqFacts DEF DayInv, ShiftsInv, DayShape
      <4> QED BY <4>1
    <3> QED BY <3>1, <3>2 DEF Uncounted, ActiveRows
  <2>4. \A s \in clerk[t].seen : s \in DOMAIN shifts /\ shifts[s].st = "CLOSED"
    BY <1>1 DEF SeenIsClosed, Closes, DayInv, ReportsInv
  <2>5. open = {} BY <2>4 DEF ActiveRows
  <2>6. clerk[t].at = "fresh" /\ "rung-in-closed" \notin dayHistory => missed = {}
    <3> SUFFICES ASSUME clerk[t].at = "fresh", "rung-in-closed" \notin dayHistory,
                        NEW n \in Uncounted(t)
                 PROVE  FALSE
      OBVIOUS
    <3>1. Closes(t) BY <1>1 DEF Closes
    <3>2. n \in RowsOf(r.date) \ r.totals.counts /\ rows[n].shift \in clerk[t].seen BY DEF Uncounted, RowsOf
    <3> QED BY <3>1, <3>2 DEF SeenIsClosed, DayInv, ReportsInv
  <2> HIDE DEF fromCache, missed, open
  <2>7. /\ row \in ReportRow /\ row.date = r.date /\ row.cached = fromCache
        /\ row.missed = missed /\ row.open = open
    BY <2>2, <2>3 DEF ReportRow
  <2> HIDE DEF row
  <2>8. new \in ClerkSet /\ new.at = "saved" /\ new.report = r BY <2>1 DEF ClerkSet
  <2>9. clerk' = [clerk EXCEPT ![t] = new] BY <1>4 DEF DayInv, ShiftsInv, DayShape
  <2> HIDE DEF new
  <2>10. ShiftsInv' /\ clerk'[t] = new /\ \A u \in Clerks : u # t => clerk'[u] = clerk[u]
    <3>1. /\ preview' \in Report /\ preview'.date <= day.here /\ (preview' # NoReport => preview'.date >= 1)
          /\ IsFiniteSet(reports) /\ reports \subseteq ReportRow /\ closures' \subseteq 1..day.here
      BY <1>1 DEF DayInv, ShiftsInv, DayShape, DayBounds
    <3>2. IsFiniteSet(reports') /\ reports' \subseteq ReportRow BY <1>4, <2>7, <3>1, FS_AddElement
    <3>3. ShiftsInv /\ new.report.date <= day.here /\ new.report.date >= 1 /\ clerk[t].at # "closing"
      BY <1>1, <2>1, <2>2, <2>8 DEF DayInv
    <3> QED BY <1>1, <2>8, <2>9, <3>1, <3>2, <3>3, ClosingKeepsShifts
  <2>11. SeenIsClosed' BY <1>1, <2>8, <2>10, SeenOfOne DEF DayInv, ReportsInv
  <2>12. "two-closings" \notin dayHistory => \A u \in Clerks : ~Closes(u)'
    <3>1. \A u \in Clerks : Closes(u)' => u # t /\ Closes(u) BY <2>8, <2>10 DEF Closes
    <3>2. Closes(t) BY <1>1 DEF Closes
    <3> QED BY <3>1, <3>2 DEF ClosesAlone, DayInv, ReportsInv
  <2>13. ClosesAlone'
    <3>1. \A q \in reports' : q.date <= day.here
      BY <1>4, <2>1, <2>7 DEF ClosesAlone, DayInv, ReportsInv
    <3>2. \A u \in Clerks : clerk'[u].at \in {"day", "fresh"} => Closes(u)' BY DEF Closes
    <3> QED BY <1>1, <2>12, <3>1, <3>2 DEF ClosesAlone
  <2>14. ReportIsSaved'
    <3> SUFFICES ASSUME NEW u \in Clerks, clerk'[u].at \in {"saved", "reporting"}
                 PROVE  \E q \in reports' : q.date = clerk'[u].report.date
      BY DEF ReportIsSaved
    <3>1. CASE u = t BY <1>4, <2>7, <2>8, <2>10, <3>1
    <3>2. CASE u # t BY <1>4, <2>10, <3>2 DEF ReportIsSaved, DayInv, ReportsInv
    <3> QED BY <3>1, <3>2
  <2>15. ClosedDayHasReport'
    BY <1>1, <1>4 DEF ClosedDayHasReport, DayIsReported, DayInv, ReportsInv
  <2>16. FreshReportIsWhole'
    <3>1. ~row.cached => clerk[t].at = "fresh" BY <1>1, <2>2, <2>7
    <3>2. ~row.cached /\ "two-closings" \notin dayHistory => \A q \in reports : ~q.cached => q.date < r.date
      BY <3>1 DEF ClosesAlone, DayInv, ReportsInv
    <3>3. \A q \in reports : q.date \in Nat BY DEF DayInv, ShiftsInv, DayShape, ReportRow
    <3>4. ~row.cached /\ "two-closings" \notin dayHistory => \A q \in reports : ~q.cached => q.date # row.date
      BY <2>2, <2>7, <3>2, <3>3
    <3>5. \A q \in reports : ~q.cached =>
            /\ q.open = {} /\ ("rung-in-closed" \notin dayHistory => q.missed = {})
            /\ "two-closings" \notin dayHistory => \A p \in reports : p.date = q.date /\ ~p.cached => p = q
      BY DEF FreshReportIsWhole, DayIsReported, DayInv, ReportsInv
    <3>6. ~row.cached => row.open = {} /\ ("rung-in-closed" \notin dayHistory => row.missed = {})
      BY <2>5, <2>6, <2>7, <3>1
    <3> QED BY <1>1, <1>4, <3>4, <3>5, <3>6 DEF FreshReportIsWhole
  <2> QED BY <2>10, <2>11, <2>13, <2>14, <2>15, <2>16 DEF DayInv, ReportsInv, DayIsReported
<1> QED BY <1>2, <1>3, <1>4

\* The date closed is that of the report that was saved.
LEMMA MarkDayClosedKeeps == \A t \in Clerks : DayInv /\ MarkDayClosed(t) => DayInv'
<1> SUFFICES ASSUME NEW t \in Clerks, DayInv, MarkDayClosed(t) PROVE DayInv' OBVIOUS
<1> DEFINE new == [clerk[t] EXCEPT !.at = "reporting"]
           d == clerk[t].report.date
<1>1. /\ clerk[t].at = "saved" /\ closures' = closures \cup {d} /\ clerk' = [clerk EXCEPT ![t].at = "reporting"]
      /\ UNCHANGED <<shifts, rows, reports, current, preview, day, issued, dayHistory, restarts>>
  BY DEF MarkDayClosed, Busy, Goes
<1>2. clerk[t] \in ClerkSet /\ clerk[t].report \in Report /\ d <= day.here BY ClerkFields DEF DayInv, ShiftsInv
<1>3. d \in 1..day.here
  <2>1. d \in Nat /\ d >= 1 /\ day.here \in Nat
    BY <1>1, <1>2 DEF Report, DayInv, ShiftsInv, DayShape, DayBounds
  <2> QED BY <1>2, <2>1
<1>4. new \in ClerkSet /\ new.at = "reporting" /\ new.report = clerk[t].report BY <1>2 DEF ClerkSet
<1>5. clerk' = [clerk EXCEPT ![t] = new] BY <1>1 DEF DayInv, ShiftsInv, DayShape
<1> HIDE DEF new
<1>6. ShiftsInv' /\ clerk'[t] = new /\ \A u \in Clerks : u # t => clerk'[u] = clerk[u]
  <2>1. /\ preview' \in Report /\ preview'.date <= day.here /\ (preview' # NoReport => preview'.date >= 1)
        /\ IsFiniteSet(reports') /\ reports' \subseteq ReportRow
    BY <1>1 DEF DayInv, ShiftsInv, DayShape, DayBounds
  <2>2. closures' \subseteq 1..day.here BY <1>1, <1>3 DEF DayInv, ShiftsInv, DayBounds
  <2>3. ShiftsInv /\ new.report.date <= day.here /\ new.report.date >= 1 /\ clerk[t].at # "closing"
    BY <1>1, <1>2, <1>3, <1>4 DEF DayInv
  <2> QED BY <1>1, <1>4, <1>5, <2>1, <2>2, <2>3, ClosingKeepsShifts
<1>7. \A u \in Clerks : Closes(u)' => clerk'[u] = clerk[u] BY <1>4, <1>6 DEF Closes
<1>8. SeenIsClosed' /\ ClosesAlone' BY <1>1, <1>7, SeenFrame, ClosesFrame DEF DayInv, ReportsInv
<1>9. ReportIsSaved' BY <1>1, <1>4, <1>6, SavedFrame DEF DayInv, ReportsInv
<1>10. ClosedDayHasReport'
  <2>1. \E q \in reports : q.date = d BY <1>1 DEF ReportIsSaved, DayInv, ReportsInv
  <2> QED BY <1>1, <2>1 DEF ClosedDayHasReport, DayIsReported, DayInv, ReportsInv
<1>11. FreshReportIsWhole' BY <1>1 DEF FreshReportIsWhole, DayIsReported, DayInv, ReportsInv
<1> QED BY <1>6, <1>8, <1>9, <1>10, <1>11 DEF DayInv, ReportsInv, DayIsReported

\* The platform's answer marks a report, and loses none.
LEMMA ReportEndsKeeps == \A t \in Clerks : DayInv /\ ReportEnds(t) => DayInv'
<1> SUFFICES ASSUME NEW t \in Clerks, DayInv, ReportEnds(t) PROVE DayInv' OBVIOUS
<1>1. /\ clerk[t].at = "reporting" /\ clerk' = [clerk EXCEPT ![t] = Free] /\ preview' = NoReport
      /\ UNCHANGED <<shifts, rows, closures, current, day, issued, dayHistory, restarts>>
  BY DEF ReportEnds, Busy, Frees
<1>2. PICK heard \in BOOLEAN :
        reports' = {IF r.date = clerk[t].report.date /\ r.number = clerk[t].report.number /\ heard
                    THEN [r EXCEPT !.synced = TRUE] ELSE r : r \in reports}
  BY DEF ReportEnds
<1> DEFINE marked(r) == IF r.date = clerk[t].report.date /\ r.number = clerk[t].report.number /\ heard
                      THEN [r EXCEPT !.synced = TRUE] ELSE r
           f == [r \in reports |-> marked(r)]
<1>3. reports' = {f[r] : r \in reports} BY <1>2
<1>4. IsFiniteSet(reports) /\ reports \subseteq ReportRow BY DEF DayInv, ShiftsInv, DayShape
<1>5. \A r \in reports : /\ f[r] \in ReportRow /\ f[r].date = r.date /\ (f[r].cached <=> r.cached)
                         /\ f[r].missed = r.missed /\ f[r].open = r.open
  <2> SUFFICES ASSUME NEW r \in reports
               PROVE  /\ marked(r) \in ReportRow /\ marked(r).date = r.date /\ (marked(r).cached <=> r.cached)
                      /\ marked(r).missed = r.missed /\ marked(r).open = r.open
    OBVIOUS
  <2>1. r \in ReportRow BY <1>4
  <2>2. CASE marked(r) = r BY <2>1, <2>2
  <2>3. CASE marked(r) = [r EXCEPT !.synced = TRUE]
    <3> DEFINE x == [r EXCEPT !.synced = TRUE]
    <3>1. /\ x \in ReportRow /\ x.date = r.date /\ x.missed = r.missed /\ x.open = r.open /\ x.cached = r.cached
      BY <2>1 DEF ReportRow
    <3> QED BY <2>3, <3>1
  <2> QED BY <2>2, <2>3
<1>6. IsFiniteSet(reports')
  <2>1. f \in Surjection(reports, reports') BY <1>3 DEF Surjection
  <2> QED BY <1>4, <2>1, FS_Surjection
<1> HIDE DEF marked, f
<1>7. reports' \subseteq ReportRow BY <1>3, <1>5
<1>8. ShiftsInv' /\ clerk'[t] = Free /\ \A u \in Clerks : u # t => clerk'[u] = clerk[u]
  <2>1. Free \in ClerkSet /\ Free.at = "idle" /\ preview' \in Report /\ preview'.date = 0 /\ Free.report.date = 0
    BY <1>1, FreeFacts
  <2>2. day.here \in Nat /\ closures' \subseteq 1..day.here BY <1>1 DEF DayInv, ShiftsInv, DayShape, DayBounds
  <2>3. ShiftsInv /\ Free.report.date <= day.here /\ preview'.date <= day.here /\ clerk[t].at # "closing"
    BY <1>1, <2>1, <2>2 DEF DayInv
  <2> QED BY <1>1, <1>6, <1>7, <2>1, <2>2, <2>3, ClosingKeepsShifts
<1>9. \A u \in Clerks : Closes(u)' => clerk'[u] = clerk[u] BY <1>8, FreeFacts DEF Closes
<1>10. SeenIsClosed' BY <1>1, <1>9, SeenFrame DEF DayInv, ReportsInv
<1>11. ClosesAlone'
  <2>1. \A q \in reports' : q.date <= day.here BY <1>3, <1>5 DEF ClosesAlone, DayInv, ReportsInv
  <2>2. \A u \in Clerks : Closes(u)' => Closes(u) BY <1>9 DEF Closes
  <2>3. \A u \in Clerks : clerk'[u].at \in {"day", "fresh"} => clerk'[u] = clerk[u] BY <1>9 DEF Closes
  <2>4. ASSUME "two-closings" \notin dayHistory', NEW u \in Clerks, NEW q \in reports', ~q.cached
        PROVE  /\ clerk'[u].at = "day" => q.date < day.here
               /\ clerk'[u].at = "fresh" => q.date < clerk'[u].report.date
    <3>1. PICK p \in reports : q = f[p] BY <1>3
    <3>2. ~p.cached /\ p.date = q.date BY <1>5, <2>4, <3>1
    <3> QED BY <1>1, <2>3, <2>4, <3>2 DEF ClosesAlone, DayInv, ReportsInv
  <2>5. "two-closings" \notin dayHistory' => \A u, v \in Clerks : Closes(u)' /\ Closes(v)' => u = v
    BY <1>1, <2>2 DEF ClosesAlone, DayInv, ReportsInv
  <2> QED BY <1>1, <2>1, <2>4, <2>5 DEF ClosesAlone
<1>12. \A d : (\E p \in reports : p.date = d) => \E q \in reports' : q.date = d BY <1>3, <1>5
<1>13. ReportIsSaved'
  <2>1. \A u \in Clerks : clerk'[u].at \in {"saved", "reporting"} => clerk'[u] = clerk[u]
    BY <1>8, FreeFacts
  <2> QED BY <1>12, <2>1 DEF ReportIsSaved, DayInv, ReportsInv
<1>14. ClosedDayHasReport' BY <1>1, <1>12 DEF ClosedDayHasReport, DayIsReported, DayInv, ReportsInv
<1>15. FreshReportIsWhole'
  <2> SUFFICES ASSUME NEW r \in reports', ~r.cached
               PROVE  /\ r.open = {} /\ ("rung-in-closed" \notin dayHistory => r.missed = {})
                      /\ "two-closings" \notin dayHistory => \A q \in reports' : q.date = r.date /\ ~q.cached => q = r
    BY <1>1 DEF FreshReportIsWhole
  <2>1. PICK p \in reports : r = f[p] BY <1>3
  <2>2. ~p.cached /\ p.date = r.date /\ p.open = r.open /\ p.missed = r.missed BY <1>5, <2>1
  <2>3. /\ p.open = {} /\ ("rung-in-closed" \notin dayHistory => p.missed = {})
        /\ "two-closings" \notin dayHistory => \A q \in reports : q.date = p.date /\ ~q.cached => q = p
    BY <2>2 DEF FreshReportIsWhole, DayIsReported, DayInv, ReportsInv
  <2>4. ASSUME "two-closings" \notin dayHistory, NEW q \in reports', q.date = r.date, ~q.cached
        PROVE  q = r
    <3>1. PICK o \in reports : q = f[o] BY <1>3
    <3>2. ~o.cached /\ o.date = p.date BY <1>5, <2>2, <2>4, <3>1
    <3> QED BY <2>1, <2>3, <2>4, <3>1, <3>2
  <2> QED BY <2>2, <2>3, <2>4
<1> QED BY <1>8, <1>10, <1>11, <1>13, <1>14, <1>15 DEF DayInv, ReportsInv, DayIsReported

-----------------------------------------------------------------------------
LEMMA DayNextKeeps == DayInv /\ [DayNext]_dayVars => DayInv'
<1> SUFFICES ASSUME DayInv, [DayNext]_dayVars PROVE DayInv' OBVIOUS
<1>1. CASE UNCHANGED dayVars
  <2>1. /\ UNCHANGED <<shifts, rows, reports, closures, clerk, day, issued, restarts, current, dayHistory>>
        /\ preview' = preview
    BY <1>1 DEF dayVars, tables
  <2>2. preview' \in Report /\ preview'.date <= day.here /\ (preview' # NoReport => preview'.date >= 1)
    BY <2>1 DEF DayInv, ShiftsInv, DayShape, DayBounds
  <2>3. current' = [id |-> current'.id, expected |-> current'.expected]
    BY <2>1 DEF DayInv, ShiftsInv, DayShape
  <2>4. OpenShiftIsKnown' BY <2>1, OpenFrame DEF DayInv, ShiftsInv
  <2> QED BY <2>1, <2>2, <2>3, <2>4, MemoryKeeps
<1>2. CASE Trade BY <1>2, CompleteSaleKeeps, SaleReturnedKeeps, LoadActiveShiftKeeps DEF Trade
<1>3. CASE Till BY <1>3, UpdateExpectedCashKeeps, SendRowKeeps DEF Till
<1>4. CASE Generate \/ Midnights \/ Restart BY <1>4, GenerateKeeps, MidnightsKeep, RestartKeeps
<1>5. CASE \E t \in Clerks : ShiftCall(t)
  BY <1>5, StartChecksKeeps, StartWritesKeeps, PlatformOpensKeeps, OpenRecordedKeeps, OpenUnrecordedKeeps,
     CloseShiftKeeps, CloseEndsKeeps DEF ShiftCall
<1>6. CASE \E t \in Clerks : ReportCall(t)
  BY <1>6, CanCloseDayKeeps, TakeReportKeeps, SaveZReportKeeps, MarkDayClosedKeeps, ReportEndsKeeps DEF ReportCall
<1> QED BY <1>1, <1>2, <1>3, <1>4, <1>5, <1>6 DEF DayNext

LEMMA DayInvAlways == DaySpec => []DayInv
<1> QED BY DayInitHolds, DayNextKeeps, PTL DEF DaySpec

LEMMA DayInvShows == DayInv => ShiftsAreKnown
<1> SUFFICES ASSUME DayInv PROVE ShiftsAreKnown OBVIOUS
<1>1. DOMAIN shifts = 1..Len(shifts) /\ Len(shifts) \in Nat
  BY SeqFacts DEF DayInv, ShiftsInv, DayShape
<1>2. /\ DOMAIN rows = 1..Len(rows) /\ Len(rows) \in Nat
      /\ DOMAIN issued = 1..Len(issued) /\ Len(issued) \in Nat
  BY LenProperties DEF DayInv, ShiftsInv, DayShape
<1>3. DayTypeOK
  <2>1. \A s \in DOMAIN shifts : shifts[s].st \in {"ACTIVE", "CLOSED"} /\ shifts[s].server \in 0..Len(issued)
    BY <1>2 DEF DayInv, ShiftsInv, DayShape, IsShiftRow, ServersAreIssued
  <2>2. \A r \in DOMAIN rows : rows[r].of \in 0..(r - 1) /\ rows[r].shift \in DOMAIN shifts
    <3> SUFFICES ASSUME NEW r \in DOMAIN rows PROVE rows[r].of \in 0..(r - 1) /\ rows[r].shift \in DOMAIN shifts
      OBVIOUS
    <3>1. r \in 1..Len(rows) /\ rows \in Seq(RowSet)
      BY <1>2 DEF DayInv, ShiftsInv, DayShape
    <3>2. rows[r] \in RowSet BY <3>1, ElementOfSeq
    <3>3. rows[r].of \in Nat /\ r \in Nat BY <3>1, <3>2 DEF RowSet
    <3> QED BY <3>3 DEF DayInv, ShiftsInv, DayBounds
  <2>3. current.id \in 0..Len(shifts) BY <1>1 DEF DayInv, ShiftsInv, DayShape, DayBounds
  <2>4. \A t \in Clerks : clerk[t].at \in {"idle", "starting", "opening", "opened", "closing",
                                           "day", "cached", "fresh", "saved", "reporting"}
    BY ClerkFields DEF DayInv, ShiftsInv, ClerkSet
  <2> QED BY <2>1, <2>2, <2>3, <2>4 DEF DayTypeOK, DayInv, ShiftsInv, DayBounds
<1>4. OneShiftOpen
  <2> SUFFICES ASSUME "two-starts" \notin dayHistory
               PROVE  /\ Cardinality(ActiveRows) <= 1
                      /\ \A s, u \in DOMAIN shifts : shifts[s].number = shifts[u].number => s = u
    BY DEF OneShiftOpen
  <2>1. \A s, u \in ActiveRows : s = u BY DEF ActiveRows, StartsAlone, DayInv, ShiftsInv
  <2>2. Cardinality(ActiveRows) <= 1
    <3>1. CASE ActiveRows = {} BY <3>1, FS_EmptySet
    <3>2. CASE ActiveRows # {}
      <4>1. PICK s : ActiveRows = {s} BY <2>1, <3>2
      <4> QED BY <4>1, FS_Singleton
    <3> QED BY <3>1, <3>2
  <2> QED BY <2>2 DEF StartsAlone, DayInv, ShiftsInv
<1> QED BY <1>3, <1>4 DEF ShiftsAreKnown, DayInv, ShiftsInv

\* Whatever the services do side by side, and however often the till stops
\* between two steps: one shift is open and it is the one in memory, no closed
\* shift is sold into, and a sale names its own shift to the platform
\* (ShiftService::start_shift, close_shift, load_active_shift).
THEOREM ShiftsKnownAlways == DaySpec => []ShiftsAreKnown
<1> QED BY DayInvAlways, DayInvShows, PTL

\* A day that is closed has its report.  One generated by the closing lists no
\* open shift, counts each row rung on the till's day while UTC had that date in
\* a shift the closing saw closed - unless a sale was rung in a closed shift -
\* and is the only one of its date unless two closings passed the check together.
\* Excepted are a report taken from the cache and a row of the hours between the
\* two midnights; and no report states any takings
\* (ZReportService::close_day, generate_report_for_date).
THEOREM ReportsWholeAlways == DaySpec => []ReportsAreWhole
<1>1. ASSUME DayInv PROVE ReportsAreWhole
  <2>1. TakingsAreNothing
    BY <1>1 DEF TakingsAreNothing, ReportRow, Totals, DayInv, ShiftsInv, DayShape
  <2> QED BY <1>1, <2>1 DEF DayInv, ReportsInv, DayIsReported, ReportsAreWhole
<1> QED BY <1>1, DayInvAlways, PTL

-----------------------------------------------------------------------------
(* The cart.                                                               *)

\* A line's figures are those of its quantity and its discount, unless they are
\* the platform's.  What they come to is not typed: it is folded over the lines.
LineFields == {"qty", "pct", "amt", "incl", "note", "disc", "sub", "tax", "theirs"}
IsALine(l) ==
  /\ DOMAIN l = LineFields /\ l.qty \in Nat /\ l.incl \in BOOLEAN /\ l.theirs \in BOOLEAN
  /\ l.theirs = FALSE => l = Priced(l)
  /\ l.qty = 0 => l = NoLine
IsACart(c) ==
  /\ DOMAIN c = {"lines", "pct", "amt", "note", "customer", "balance", "sums"}
  /\ DOMAIN c.lines = Products /\ \A p \in Products : IsALine(c.lines[p])
\* A cart with lines shows their sums; one emptied, nothing.
Current(c) == IsACart(c) /\ (HasLines(c) => c.sums = SumsOf(c))

CartsCurrent == Current(basket) /\ Current(stored)

IsADraft(x) ==
  /\ DOMAIN x = {"st", "row", "total", "told", "given", "died"}
  /\ x.st \in {"none", "live", "expired", "gone"} /\ x.given \in Nat /\ IsACart(x.row)
HeldShape == held = [d \in Drafts |-> held[d]] /\ \A d \in Drafts : IsADraft(held[d])

IsAHand(x) == DOMAIN x = {"at", "id", "cart"} /\ IsACart(x.cart)
HandShape == hand = [h \in Hands |-> hand[h]] /\ \A h \in Hands : IsAHand(hand[h])

\* A call about a held cart is about a row there was.
HandsKnowTheirs ==
  \A h \in Hands :
    /\ hand[h].at = "saving" => hand[h].cart.sums = SumsOf(hand[h].cart)
    /\ hand[h].at \in {"emptying", "replacing", "renaming"} => hand[h].id \in Drafts /\ held[hand[h].id].st # "none"
    /\ hand[h].at = "renaming" => SumsOf(hand[h].cart).grand = held[hand[h].id].total

HeldPriced == \A d \in Drafts : held[d].st # "none" => SumsOf(held[d].row).grand = held[d].total

SavesAlone ==
  /\ IsFiniteSet(Live)
  /\ cartHistory \cap {"two-saves", "renamed-back"} = {} =>
       /\ Cardinality(Live) <= MaxDrafts
       /\ \A g, h \in Hands : hand[g].at = "saving" /\ hand[h].at = "saving" => g = h
       /\ \A h \in Hands : hand[h].at = "saving" => Cardinality(Live) < MaxDrafts

Taking(h, d) == hand[h].id = d /\ hand[h].at \in {"emptying", "replacing"}
TakenOnce ==
  cartHistory \cap {"renamed-back", "two-recalls"} = {} => \A d \in Drafts :
    /\ \A g, h \in Hands : Taking(g, d) /\ Taking(h, d) => g = h
    /\ \A h \in Hands : Taking(h, d) => held[d].given = 0 /\ (hand[h].at = "replacing" => held[d].st = "gone")
    /\ held[d].given <= 1 /\ (held[d].given = 1 => held[d].st = "gone")

IsAPark(x) ==
  /\ DOMAIN x = {"st", "by", "lines", "customer", "note", "total", "plain", "holds", "unsure"}
  /\ DOMAIN x.lines = Products /\ \A p \in Products : x.lines[p].qty \in Nat
\* The tills that hold a parked cart are the one the platform says, unless the
\* till was overruled or not heard.
LockHeld(x) ==
  /\ x.holds \subseteq Tills /\ x.by \in Tills \cup {"none"} /\ (x.st \in {"none", "PARKED"} => x.by = "none")
  /\ x.unsure \/ x.holds \subseteq {x.by} \ {"none"}
CartOf(x) == [EmptyCart EXCEPT !.lines = [p \in Products |-> FromAnswer(x.lines[p])],
                               !.customer = x.customer, !.note = x.note]
ParkPriced(x) == x.plain => Recalculated(CartOf(x)).sums.grand = x.total
ParksHeld ==
  /\ parked = [k \in Parks |-> parked[k]]
  /\ \A k \in Parks : IsAPark(parked[k]) /\ LockHeld(parked[k]) /\ ParkPriced(parked[k])

CartInv == CartsCurrent /\ HeldShape /\ HandShape /\ HandsKnowTheirs /\ HeldPriced /\ SavesAlone
           /\ TakenOnce /\ HeldCartKept /\ ParksHeld

-----------------------------------------------------------------------------
(* What the sums of a cart depend on.                                      *)

PricedAlike(l, m) == l.qty = m.qty /\ l.sub = m.sub /\ l.tax = m.tax /\ l.disc = m.disc
\* Carts with the same discount whose lines are priced alike cost the same,
\* whatever their notes and customers.
LEMMA AmountsAlike ==
  ASSUME NEW c, NEW d, DOMAIN c.lines = Products, DOMAIN d.lines = Products, c.pct = d.pct, c.amt = d.amt,
         \A p \in Products : c.lines[p].sub = d.lines[p].sub /\ c.lines[p].tax = d.lines[p].tax
  PROVE  /\ SubtotalsOf(c.lines) = SubtotalsOf(d.lines) /\ TaxesOf(c.lines) = TaxesOf(d.lines)
         /\ CartDiscount(c) = CartDiscount(d) /\ SumsOf(c).grand = SumsOf(d).grand
<1>1. [p \in DOMAIN c.lines |-> c.lines[p].sub] = [p \in DOMAIN d.lines |-> d.lines[p].sub] OBVIOUS
<1>2. [p \in DOMAIN c.lines |-> c.lines[p].tax] = [p \in DOMAIN d.lines |-> d.lines[p].tax] OBVIOUS
<1>3. SubtotalsOf(c.lines) = SubtotalsOf(d.lines) BY <1>1 DEF SubtotalsOf
<1>4. TaxesOf(c.lines) = TaxesOf(d.lines) BY <1>2 DEF TaxesOf
<1>5. CartDiscount(c) = CartDiscount(d) BY <1>3 DEF CartDiscount
<1> QED BY <1>3, <1>4, <1>5 DEF SumsOf

LEMMA SumsAlike ==
  ASSUME NEW c, NEW d, DOMAIN c.lines = Products, DOMAIN d.lines = Products, c.pct = d.pct, c.amt = d.amt,
         \A p \in Products : PricedAlike(c.lines[p], d.lines[p])
  PROVE  SumsOf(c) = SumsOf(d)
<1>1. /\ SubtotalsOf(c.lines) = SubtotalsOf(d.lines) /\ TaxesOf(c.lines) = TaxesOf(d.lines)
      /\ CartDiscount(c) = CartDiscount(d)
  BY AmountsAlike DEF PricedAlike
<1>2. [p \in DOMAIN c.lines |-> c.lines[p].disc] = [p \in DOMAIN d.lines |-> d.lines[p].disc] BY DEF PricedAlike
<1>3. DiscountsOf(c.lines) = DiscountsOf(d.lines) BY <1>2 DEF DiscountsOf
<1> QED BY <1>1, <1>3 DEF SumsOf

LEMMA SameSums ==
  ASSUME NEW c, NEW d, IsACart(c), d.lines = c.lines, d.pct = c.pct, d.amt = c.amt
  PROVE  SumsOf(d) = SumsOf(c)
BY SumsAlike DEF IsACart, PricedAlike

LEMMA RecalculatedIs ==
  ASSUME NEW c, IsACart(c)
  PROVE  LET r == Recalculated(c) IN
         /\ IsACart(r) /\ r.sums = SumsOf(c) /\ SumsOf(r) = SumsOf(c) /\ Current(r)
         /\ r.lines = c.lines
<1> DEFINE r == Recalculated(c)
<1>1. /\ DOMAIN r = {"lines", "pct", "amt", "note", "customer", "balance", "sums"}
      /\ r.lines = c.lines /\ r.pct = c.pct /\ r.amt = c.amt /\ r.sums = SumsOf(c)
  BY DEF Recalculated, IsACart
<1> HIDE DEF r
<1>2. IsACart(r) BY <1>1 DEF IsACart
<1>3. SumsOf(r) = SumsOf(c) BY <1>1, SameSums
<1> QED BY <1>1, <1>2, <1>3 DEF r, Current

LEMMA EmptyIs == /\ IsACart(EmptyCart) /\ ~HasLines(EmptyCart) /\ Current(EmptyCart)
                 /\ IsACart(NoCart) /\ ~HasLines(NoCart) /\ Current(NoCart)
                 /\ EmptyCart.pct = 0 /\ EmptyCart.amt = 0 /\ IsALine(NoLine)
<1>1. IsALine(NoLine) /\ NoLine.qty = 0
  <2>1. /\ DOMAIN NoLine = LineFields /\ NoLine.qty = 0 /\ NoLine.pct = 0 /\ NoLine.amt = 0 /\ NoLine.incl = FALSE
        /\ NoLine.disc = 0 /\ NoLine.sub = 0 /\ NoLine.tax = 0 /\ NoLine.theirs = FALSE
    BY DEF NoLine, LineFields
  <2>2. LineDiscount(NoLine) = 0 /\ LineSubtotal(NoLine) = 0 /\ LineTax(NoLine) = 0
    BY <2>1 DEF LineDiscount, LineSubtotal, LineTax, LineAmount, Gross, TaxRate, UnitPrice
  <2>a. NoLine = [f \in DOMAIN NoLine |-> NoLine[f]] BY DEF NoLine
  <2>3. Priced(NoLine) = NoLine BY <2>1, <2>2, <2>a DEF Priced, LineFields
  <2>b. NoLine.qty \in Nat BY <2>1
  <2>c. NoLine.incl \in BOOLEAN /\ NoLine.theirs \in BOOLEAN BY <2>1, Zenon
  <2>4. NoLine.qty \in Nat /\ NoLine.incl \in BOOLEAN /\ NoLine.theirs \in BOOLEAN BY <2>b, <2>c
  <2> QED BY <2>1, <2>3, <2>4 DEF IsALine
<1>2. /\ DOMAIN EmptyCart = {"lines", "pct", "amt", "note", "customer", "balance", "sums"}
      /\ EmptyCart.lines = [p \in Products |-> NoLine] /\ EmptyCart.pct = 0 /\ EmptyCart.amt = 0
  BY DEF EmptyCart
<1>3. /\ DOMAIN NoCart = {"lines", "pct", "amt", "note", "customer", "balance", "sums"}
      /\ NoCart.lines = [p \in Products |-> NoLine]
  BY <1>2 DEF NoCart
<1>4. IsACart(EmptyCart) /\ IsACart(NoCart) BY <1>1, <1>2, <1>3 DEF IsACart
<1>5. ~HasLines(EmptyCart) /\ ~HasLines(NoCart) BY <1>1, <1>2, <1>3 DEF HasLines
<1> QED BY <1>1, <1>2, <1>4, <1>5 DEF Current

\* A cart whose lines and discounts are those of another is as current.
LEMMA SameCart ==
  ASSUME NEW c, NEW d, Current(c), DOMAIN d = DOMAIN c, d.lines = c.lines, d.pct = c.pct, d.amt = c.amt, d.sums = c.sums
  PROVE  Current(d) /\ (HasLines(d) <=> HasLines(c))
<1>1. IsACart(c) /\ IsACart(d) BY DEF Current, IsACart
<1>2. SumsOf(d) = SumsOf(c) BY <1>1, SameSums
<1> QED BY <1>1, <1>2 DEF Current, HasLines

LEMMA WithLineIs ==
  ASSUME NEW p \in Products, NEW l, IsALine(l), IsACart(basket)
  PROVE  Current(WithLine(p, l))
<1> DEFINE c == [basket EXCEPT !.lines[p] = l]
<1>1. /\ DOMAIN c = DOMAIN basket /\ DOMAIN c.lines = Products
      /\ c.lines[p] = l /\ \A q \in Products : q # p => c.lines[q] = basket.lines[q]
  BY DEF IsACart
<1> HIDE DEF c
<1>2. IsACart(c) BY <1>1 DEF IsACart
<1>3. Current(Recalculated(c)) BY <1>2, RecalculatedIs
<1> QED BY <1>3 DEF WithLine, c

-----------------------------------------------------------------------------
(* A step at the cart leaves what is put aside alone.                      *)

Light(x) == x.at \in {"idle", "persisting", "deleting"}
\* What excuses the properties below once, excuses them for good.
StillExcused == \A w \in {"two-saves", "renamed-back", "two-recalls"} : w \in cartHistory => w \in cartHistory'
LEMMA BasketFrame ==
  ASSUME CartInv, UNCHANGED <<held, parked>>, Current(basket'), Current(stored'), HandShape',
         \A h \in Hands : hand'[h] = hand[h] \/ (Light(hand[h]) /\ Light(hand'[h])),
         StillExcused
  PROVE  CartInv'
<1>1. \A h \in Hands : ~Light(hand'[h]) \/ ~Light(hand[h]) => hand'[h] = hand[h] OBVIOUS
<1>2. \A h \in Hands : hand'[h].at \notin {"idle", "persisting", "deleting"} => hand'[h] = hand[h] BY <1>1 DEF Light
<1>3. \A h \in Hands : hand[h].at \notin {"idle", "persisting", "deleting"} => hand'[h] = hand[h] BY <1>1 DEF Light
<1>4. HandsKnowTheirs' BY <1>2 DEF CartInv, HandsKnowTheirs
<1>5. Live' = Live BY DEF Live
<1>6. SavesAlone' BY <1>2, <1>5 DEF CartInv, SavesAlone, StillExcused
<1>7. TakenOnce' BY <1>2 DEF CartInv, TakenOnce, StillExcused, Taking
<1>8. HeldCartKept' BY <1>3 DEF CartInv, HeldCartKept, InTable
<1>9. CartsCurrent' BY DEF CartsCurrent
<1> QED BY <1>4, <1>6, <1>7, <1>8, <1>9 DEF CartInv, HeldShape, HeldPriced, ParksHeld

LEMMA HandSet ==
  ASSUME HandShape, NEW h \in Hands, NEW x, IsAHand(x), hand' = [hand EXCEPT ![h] = x]
  PROVE  HandShape' /\ hand'[h] = x /\ \A g \in Hands : g # h => hand'[g] = hand[g]
BY DEF HandShape

LEMMA ThenIs ==
  ASSUME HandShape, NEW h \in Hands, NEW what, Then(h, what)
  PROVE  /\ HandShape' /\ hand'[h].at = what /\ hand'[h].id = hand[h].id /\ hand'[h].cart = hand[h].cart
         /\ \A g \in Hands : g # h => hand'[g] = hand[g]
<1> DEFINE x == [hand[h] EXCEPT !.at = what]
<1>1. IsAHand(x) /\ x.at = what /\ x.id = hand[h].id /\ x.cart = hand[h].cart BY DEF HandShape, IsAHand
<1>2. hand' = [hand EXCEPT ![h] = x] BY DEF Then
<1> HIDE DEF x
<1> QED BY <1>1, <1>2, HandSet

LEMMA RestsIs ==
  ASSUME HandShape, NEW h \in Hands, Rests(h)
  PROVE  HandShape' /\ hand'[h].at = "idle" /\ \A g \in Hands : g # h => hand'[g] = hand[g]
<1>1. IsAHand(Resting) /\ Resting.at = "idle" BY EmptyIs DEF Resting, IsAHand
<1>2. hand' = [hand EXCEPT ![h] = Resting] BY DEF Rests
<1> QED BY <1>1, <1>2, HandSet

LEMMA ChangesKeeps ==
  ASSUME CartInv, NEW h \in Hands, NEW c, Current(c), Changes(h, c)
  PROVE  CartInv'
<1>1. /\ hand[h].at = "idle" /\ basket' = c /\ Then(h, "persisting")
      /\ UNCHANGED <<stored, held, parked, cartHistory>>
  BY DEF Changes, Begins, Doing
<1>2. HandShape' /\ hand'[h].at = "persisting" /\ \A g \in Hands : g # h => hand'[g] = hand[g]
  BY <1>1, ThenIs DEF CartInv
<1>3. Light(hand[h]) /\ Light(hand'[h]) BY <1>1, <1>2 DEF Light
<1>4. Current(basket') /\ Current(stored') BY <1>1 DEF CartInv, CartsCurrent
<1>5. StillExcused BY <1>1 DEF StillExcused
<1> QED BY <1>1, <1>2, <1>3, <1>4, <1>5, BasketFrame

-----------------------------------------------------------------------------
(* CartService.                                                            *)

LEMMA BasketIs == CartInv => /\ Current(basket) /\ IsACart(basket) /\ Current(stored) /\ HandShape
                             /\ \A p \in Products : IsALine(basket.lines[p])
BY DEF CartInv, CartsCurrent, Current, IsACart

\* Pricing leaves the quantity and the discount alone, so that pricing again
\* changes nothing: the lines a change writes are lines.
LEMMA PricedIs ==
  ASSUME NEW l, DOMAIN l = LineFields, l.qty \in Nat \ {0}, l.incl \in BOOLEAN
  PROVE  IsALine(Priced(l)) /\ Priced(l).qty = l.qty
<1> DEFINE m == Priced(l)
<1>1. /\ DOMAIN m = LineFields /\ m.qty = l.qty /\ m.pct = l.pct /\ m.amt = l.amt /\ m.incl = l.incl
      /\ m.disc = LineDiscount(l) /\ m.sub = LineSubtotal(l) /\ m.tax = LineTax(l) /\ m.theirs = FALSE
  BY DEF Priced, LineFields
<1>2. LineDiscount(m) = LineDiscount(l) /\ LineAmount(m) = LineAmount(l)
  BY <1>1 DEF LineDiscount, LineAmount, Gross
<1>3. LineSubtotal(m) = LineSubtotal(l) /\ LineTax(m) = LineTax(l)
  BY <1>1, <1>2 DEF LineSubtotal, LineTax
<1>4. Priced(m) = m BY <1>2, <1>3 DEF Priced
<1> HIDE DEF m
<1>5. IsALine(m) BY <1>1, <1>4 DEF IsALine
<1> QED BY <1>1, <1>5 DEF m

LEMMA LinesAre ==
  ASSUME NEW l, IsALine(l), NEW q \in Nat \ {0}, NEW pct, NEW amt
  PROVE  /\ IsALine(Priced([l EXCEPT !.qty = q]))
         /\ l.qty # 0 => IsALine(Priced([l EXCEPT !.pct = pct, !.amt = amt]))
<1>1. DOMAIN l = LineFields /\ l.incl \in BOOLEAN /\ l.qty \in Nat BY DEF IsALine
<1> DEFINE m == [l EXCEPT !.qty = q]
           n == [l EXCEPT !.pct = pct, !.amt = amt]
<1>2. DOMAIN m = LineFields /\ m.incl = l.incl /\ m.qty = q BY <1>1 DEF LineFields
<1>3. DOMAIN n = LineFields /\ n.incl = l.incl /\ n.qty = l.qty BY <1>1 DEF LineFields
<1> HIDE DEF m, n
<1>4. IsALine(Priced(m)) BY <1>1, <1>2, PricedIs
<1>5. l.qty # 0 => IsALine(Priced(n)) BY <1>1, <1>3, PricedIs
<1> QED BY <1>4, <1>5 DEF m, n

LEMMA NewLineIs == ASSUME NEW p, NEW q \in Nat \ {0} PROVE IsALine(NewLine(p, q))
<1> DEFINE incl == p \in Inclusive
           l == [NoLine EXCEPT !.qty = q, !.incl = incl]
<1>1. incl \in BOOLEAN OBVIOUS
<1>2. NewLine(p, q) = Priced(l) BY DEF NewLine
<1> HIDE DEF incl
<1>3. DOMAIN l = LineFields /\ l.qty = q /\ l.incl = incl BY DEF NoLine, LineFields
<1> HIDE DEF l
<1> QED BY <1>1, <1>2, <1>3, PricedIs

LEMMA UpdateQuantityKeeps == ASSUME CartInv, NEW h \in Hands, NEW p \in Products, NEW q \in Nat, UpdateQuantity(h, p, q) PROVE CartInv'
<1> DEFINE l == IF q = 0 THEN NoLine ELSE Priced([basket.lines[p] EXCEPT !.qty = q])
<1>1. IsALine(l) BY BasketIs, EmptyIs, LinesAre
<1>2. Changes(h, WithLine(p, l)) BY DEF UpdateQuantity
<1> HIDE DEF l
<1>3. Current(WithLine(p, l)) BY <1>1, BasketIs, WithLineIs
<1> QED BY <1>2, <1>3, ChangesKeeps

LEMMA LineKeeps ==
  ASSUME CartInv, NEW h \in Hands, NEW p \in Products, NEW q \in Nat, NEW pct, NEW amt,
         AddItem(h, p, q) \/ RemoveItem(h, p) \/ DiscountItem(h, p, pct, amt)
  PROVE  CartInv'
<1>0. IsACart(basket) /\ IsALine(basket.lines[p]) /\ basket.lines[p].qty \in Nat /\ IsALine(NoLine)
  BY BasketIs, EmptyIs DEF IsALine
<1>1. CASE AddItem(h, p, q)
  <2> DEFINE n == basket.lines[p].qty + q
             l == IF Has(p) THEN Priced([basket.lines[p] EXCEPT !.qty = n]) ELSE NewLine(p, q)
  <2>0. q \in Nat \ {0} /\ n \in Nat \ {0} BY <1>0, <1>1 DEF AddItem
  <2>2. Changes(h, WithLine(p, l)) BY <1>1 DEF AddItem
  <2> HIDE DEF n
  <2>1. IsALine(l) BY <1>0, <2>0, LinesAre, NewLineIs
  <2> HIDE DEF l
  <2>3. Current(WithLine(p, l)) BY <1>0, <2>1, WithLineIs
  <2> QED BY <2>2, <2>3, ChangesKeeps
<1>2. CASE RemoveItem(h, p)
  <2>1. Current(WithLine(p, NoLine)) BY <1>0, WithLineIs
  <2> QED BY <1>2, <2>1, ChangesKeeps DEF RemoveItem
<1>3. CASE DiscountItem(h, p, pct, amt)
  <2> DEFINE l == Priced([basket.lines[p] EXCEPT !.pct = pct, !.amt = amt])
  <2>1. Changes(h, WithLine(p, l)) /\ basket.lines[p].qty # 0 BY <1>0, <1>3 DEF DiscountItem, Has
  <2>a. 1 \in Nat \ {0} OBVIOUS
  <2>2. IsALine(l) BY <1>0, <2>1, <2>a, LinesAre
  <2> HIDE DEF l
  <2>3. Current(WithLine(p, l)) BY <1>0, <2>2, WithLineIs
  <2> QED BY <2>1, <2>3, ChangesKeeps
<1> QED BY <1>1, <1>2, <1>3

\* A note costs nothing.
LEMMA SetItemNoteKeeps == ASSUME CartInv, NEW h \in Hands, NEW p \in Products, SetItemNote(h, p) PROVE CartInv'
<1>1. PICK note \in BOOLEAN : basket' = [basket EXCEPT !.lines[p].note = note] BY DEF SetItemNote
<1>2. UNCHANGED <<stored, held, parked, hand>> /\ cartHistory' = cartHistory \cup {"note"}
  BY DEF SetItemNote, Excused
<1>3. Current(basket) /\ IsACart(basket) /\ Current(stored) /\ HandShape BY BasketIs
<1>4. /\ DOMAIN basket' = DOMAIN basket /\ DOMAIN basket'.lines = Products
      /\ basket'.pct = basket.pct /\ basket'.amt = basket.amt /\ basket'.sums = basket.sums
      /\ \A q \in Products : q # p => basket'.lines[q] = basket.lines[q]
      /\ basket'.lines[p] = [basket.lines[p] EXCEPT !.note = note]
  BY <1>1, <1>3 DEF IsACart
<1>5. \A q \in Products : IsALine(basket'.lines[q]) /\ PricedAlike(basket'.lines[q], basket.lines[q])
  <2>1. IsALine(basket.lines[p]) BY <1>3 DEF IsACart
  <2> DEFINE l == basket.lines[p]
             m == [l EXCEPT !.note = note]
  <2>a. l.qty # 0 BY <2>1 DEF SetItemNote, Has, IsALine
  <2>2. /\ DOMAIN m = LineFields /\ m.qty = l.qty /\ m.pct = l.pct /\ m.amt = l.amt /\ m.incl = l.incl
        /\ m.disc = l.disc /\ m.sub = l.sub /\ m.tax = l.tax /\ m.theirs = l.theirs
    BY <2>1 DEF IsALine, LineFields
  <2>b. LineDiscount(m) = LineDiscount(l) /\ LineSubtotal(m) = LineSubtotal(l) /\ LineTax(m) = LineTax(l)
    BY <2>2 DEF LineDiscount, LineSubtotal, LineTax, LineAmount, Gross
  <2>c. l.theirs = FALSE => m = Priced(m)
    <3>1. ASSUME l.theirs = FALSE PROVE Priced(m) = m
      <4>1. l = Priced(l) BY <2>1, <3>1 DEF IsALine
      <4>2. /\ Priced(l).disc = LineDiscount(l) /\ Priced(l).sub = LineSubtotal(l) /\ Priced(l).tax = LineTax(l)
        BY <2>1 DEF Priced, IsALine, LineFields
      <4>3. m.disc = LineDiscount(m) /\ m.sub = LineSubtotal(m) /\ m.tax = LineTax(m) /\ m.theirs = FALSE
        BY <2>2, <2>b, <3>1, <4>1, <4>2
      <4> QED BY <2>1, <2>2, <4>3 DEF Priced, LineFields, IsALine
    <3> QED BY <3>1
  <2>3. IsALine(m) /\ PricedAlike(m, l)
    <3>1. m.qty # 0 /\ m.qty \in Nat /\ m.incl \in BOOLEAN /\ m.theirs \in BOOLEAN /\ (m.theirs = FALSE => m = Priced(m))
      BY <2>1, <2>2, <2>a, <2>c DEF IsALine
    <3> HIDE DEF m
    <3> QED BY <2>2, <3>1 DEF IsALine, PricedAlike
  <2>4. basket'.lines[p] = m BY <1>4
  <2> HIDE DEF m
  <2> QED BY <1>3, <1>4, <2>3, <2>4 DEF IsACart, PricedAlike
<1>6. IsACart(basket') BY <1>3, <1>4, <1>5 DEF IsACart
<1>7. SumsOf(basket') = SumsOf(basket) BY <1>3, <1>4, <1>5, SumsAlike DEF IsACart
<1>8. HasLines(basket') => HasLines(basket) BY <1>5 DEF HasLines, PricedAlike
<1>9. Current(basket') BY <1>3, <1>4, <1>6, <1>7, <1>8 DEF Current
<1>10. HandShape' BY <1>2, <1>3 DEF HandShape
<1>11. StillExcused BY <1>2 DEF StillExcused
<1> QED BY <1>2, <1>3, <1>9, <1>10, <1>11, BasketFrame

LEMMA DiscountCartKeeps == ASSUME CartInv, NEW h \in Hands, NEW pct, NEW amt, DiscountCart(h, pct, amt) PROVE CartInv'
<1> DEFINE c == [basket EXCEPT !.pct = pct, !.amt = amt]
<1>1. IsACart(basket) BY BasketIs
<1>2. DOMAIN c = DOMAIN basket /\ c.lines = basket.lines BY <1>1 DEF IsACart
<1>3. Changes(h, Recalculated(c)) BY DEF DiscountCart
<1> HIDE DEF c
<1>4. IsACart(c) BY <1>1, <1>2 DEF IsACart
<1>5. Current(Recalculated(c)) BY <1>4, RecalculatedIs
<1> QED BY <1>3, <1>5, ChangesKeeps

LEMMA AttendsKeeps == ASSUME CartInv, NEW h \in Hands, Attends(h) PROVE CartInv'
<1>0. Current(basket) /\ IsACart(basket) BY BasketIs
<1>1. ASSUME NEW who, NEW balance, SetCustomer(h, who, balance) PROVE CartInv'
  <2> DEFINE c == [basket EXCEPT !.customer = who, !.balance = balance]
  <2>1. DOMAIN c = DOMAIN basket /\ c.lines = basket.lines /\ c.pct = basket.pct /\ c.amt = basket.amt /\ c.sums = basket.sums
    BY <1>0 DEF IsACart
  <2>2. Changes(h, c) BY <1>1 DEF SetCustomer
  <2> HIDE DEF c
  <2> QED BY <1>0, <2>1, <2>2, SameCart, ChangesKeeps
<1>2. CASE SetCartNote(h)
  <2>1. PICK note \in BOOLEAN : Changes(h, [basket EXCEPT !.note = note]) BY <1>2 DEF SetCartNote
  <2> DEFINE c == [basket EXCEPT !.note = note]
  <2>2. DOMAIN c = DOMAIN basket /\ c.lines = basket.lines /\ c.pct = basket.pct /\ c.amt = basket.amt /\ c.sums = basket.sums
    BY <1>0 DEF IsACart
  <2>3. Changes(h, c) BY <2>1
  <2> HIDE DEF c
  <2> QED BY <1>0, <2>2, <2>3, SameCart, ChangesKeeps
<1>3. CASE Clear(h)
  <2> DEFINE c == [EmptyCart EXCEPT !.customer = basket.customer, !.balance = basket.balance]
  <2>1. DOMAIN c = DOMAIN EmptyCart /\ c.lines = EmptyCart.lines /\ c.pct = EmptyCart.pct /\ c.amt = EmptyCart.amt /\ c.sums = EmptyCart.sums
    BY EmptyIs DEF IsACart
  <2>2. Changes(h, c) BY <1>3 DEF Clear
  <2> HIDE DEF c
  <2> QED BY <2>1, <2>2, EmptyIs, SameCart, ChangesKeeps
<1> QED BY <1>1, <1>2, <1>3 DEF Attends

LEMMA EmptiesKeeps == ASSUME CartInv, NEW h \in Hands, Empties(h) PROVE CartInv'
<1>0. Current(basket) /\ Current(stored) /\ HandShape BY BasketIs
<1>1. CASE ClearAll(h)
  <2>1. /\ hand[h].at = "idle" /\ basket' = EmptyCart /\ Then(h, "deleting")
        /\ UNCHANGED <<stored, held, parked, cartHistory>>
    BY <1>1 DEF ClearAll, Begins, Doing
  <2>2. HandShape' /\ hand'[h].at = "deleting" /\ \A g \in Hands : g # h => hand'[g] = hand[g] BY <1>0, <2>1, ThenIs
  <2>3. Light(hand[h]) /\ Light(hand'[h]) BY <2>1, <2>2 DEF Light
  <2>4. StillExcused BY <2>1 DEF StillExcused
  <2> QED BY <1>0, <2>1, <2>2, <2>3, <2>4, EmptyIs, BasketFrame
<1>2. CASE ClearActiveCart(h)
  <2>1. /\ hand[h].at = "deleting" /\ stored' = NoCart /\ Rests(h) /\ UNCHANGED <<basket, held, parked>>
        /\ cartHistory \ {"not-written"} \subseteq cartHistory'
    BY <1>2 DEF ClearActiveCart, Doing, Excused
  <2>2. HandShape' /\ hand'[h].at = "idle" /\ \A g \in Hands : g # h => hand'[g] = hand[g] BY <1>0, <2>1, RestsIs
  <2>3. Light(hand[h]) /\ Light(hand'[h]) BY <2>1, <2>2 DEF Light
  <2>4. StillExcused BY <2>1 DEF StillExcused
  <2> QED BY <1>0, <2>1, <2>2, <2>3, <2>4, EmptyIs, BasketFrame
<1> QED BY <1>1, <1>2 DEF Empties

LEMMA PersistKeeps == ASSUME CartInv, NEW h \in Hands, Persist(h) PROVE CartInv'
<1>0. Current(basket) /\ Current(stored) /\ HandShape BY BasketIs
<1>1. /\ hand[h].at = "persisting" /\ stored' = basket /\ Rests(h) /\ UNCHANGED <<basket, held, parked>>
      /\ cartHistory' = cartHistory \ {"note", "deleted-under-a-change", "not-written", "not-read"}
  BY DEF Persist, Doing, Lapses
<1>2. HandShape' /\ hand'[h].at = "idle" /\ \A g \in Hands : g # h => hand'[g] = hand[g] BY <1>0, <1>1, RestsIs
<1>3. Light(hand[h]) /\ Light(hand'[h]) BY <1>1, <1>2 DEF Light
<1>4. StillExcused BY <1>1 DEF StillExcused
<1> QED BY <1>0, <1>1, <1>2, <1>3, <1>4, BasketFrame

LEMMA NotWrittenKeeps == ASSUME CartInv, NEW h \in Hands, NotWritten(h) PROVE CartInv'
<1>0. Current(basket) /\ Current(stored) /\ HandShape BY BasketIs
<1>1. /\ hand[h].at \in {"persisting", "deleting"} /\ Rests(h) /\ UNCHANGED <<basket, stored, held, parked>>
      /\ cartHistory' = cartHistory \cup {"not-written"}
  BY DEF NotWritten, Doing, Excused
<1>2. HandShape' /\ hand'[h].at = "idle" /\ \A g \in Hands : g # h => hand'[g] = hand[g] BY <1>0, <1>1, RestsIs
<1>3. Light(hand[h]) /\ Light(hand'[h]) BY <1>1, <1>2 DEF Light
<1>4. StillExcused BY <1>1 DEF StillExcused
<1> QED BY <1>0, <1>1, <1>2, <1>3, <1>4, BasketFrame

-----------------------------------------------------------------------------
(* DraftService.                                                           *)

LEMMA HeldParts == CartInv => CartsCurrent /\ HeldShape /\ HandShape /\ HandsKnowTheirs /\ HeldPriced /\ SavesAlone
                              /\ TakenOnce /\ HeldCartKept /\ ParksHeld
BY DEF CartInv

\* A step that lets go of held carts, or keeps them, and starts no save.
LEMMA SavesFrame ==
  ASSUME SavesAlone, Live' \subseteq Live, StillExcused,
         \A h \in Hands : hand'[h].at = "saving" => hand[h].at = "saving"
  PROVE  SavesAlone'
<1>1. IsFiniteSet(Live) BY DEF SavesAlone
<1>2. IsFiniteSet(Live') /\ Cardinality(Live') <= Cardinality(Live) BY <1>1, FS_Subset
<1>3. Cardinality(Live) \in Nat /\ Cardinality(Live') \in Nat /\ MaxDrafts \in Nat
  BY <1>1, <1>2, FS_CardinalityType, CartAssumption
<1> QED BY <1>2, <1>3 DEF SavesAlone, StillExcused

\* A step that leaves the carts and the parked ones alone.
LEMMA PutAside ==
  ASSUME CartInv, UNCHANGED <<basket, stored, parked>>, HeldShape', HandShape', HandsKnowTheirs', HeldPriced',
         SavesAlone', TakenOnce', HeldCartKept'
  PROVE  CartInv'
BY DEF CartInv, CartsCurrent, ParksHeld

\* A call that reads: no held cart changes.
LEMMA HandFrame ==
  ASSUME CartInv, UNCHANGED <<basket, stored, held, parked>>, NEW h \in Hands, NEW x, IsAHand(x), hand[h].at = "idle",
         hand' = [hand EXCEPT ![h] = x], SavesAlone', TakenOnce',
         x.at = "saving" => x.cart.sums = SumsOf(x.cart),
         x.at \in {"emptying", "replacing", "renaming"} => x.id \in Drafts /\ held[x.id].st # "none",
         x.at = "renaming" => SumsOf(x.cart).grand = held[x.id].total
  PROVE  CartInv'
<1>1. HandShape' /\ hand'[h] = x /\ \A g \in Hands : g # h => hand'[g] = hand[g] BY HandSet DEF CartInv
<1>2. HandsKnowTheirs' BY <1>1 DEF CartInv, HandsKnowTheirs
<1>3. HeldCartKept' BY <1>1 DEF CartInv, HeldCartKept, InTable
<1> QED BY <1>1, <1>2, <1>3, PutAside DEF CartInv, HeldShape, HeldPriced

LEMMA SaveCartKeeps == ASSUME CartInv, NEW h \in Hands, SaveCart(h) PROVE CartInv'
<1> DEFINE x == [Resting EXCEPT !.at = "saving", !.cart = basket]
<1>0. Current(basket) /\ IsACart(basket) BY BasketIs
<1>1. /\ hand[h].at = "idle" /\ HasLines(basket) /\ Cardinality(Live) < MaxDrafts
      /\ hand' = [hand EXCEPT ![h] = x] /\ UNCHANGED <<basket, stored, held, parked>>
      /\ cartHistory \subseteq cartHistory'
      /\ (\E g \in Hands : hand[g].at = "saving") => "two-saves" \in cartHistory'
  BY DEF SaveCart, Begins, Doing, Excused
<1>2. DOMAIN x = {"at", "id", "cart"} /\ x.at = "saving" /\ x.cart = basket BY DEF Resting
<1> HIDE DEF x
<1>3. IsAHand(x) BY <1>0, <1>2 DEF IsAHand
<1>4. /\ hand'[h] = x /\ \A g \in Hands : g # h => hand'[g] = hand[g] BY <1>1, <1>3, HandSet DEF CartInv
<1>5. StillExcused BY <1>1 DEF StillExcused
<1>6. Live' = Live BY <1>1 DEF Live
<1>7. SavesAlone' BY <1>1, <1>2, <1>4, <1>5, <1>6 DEF CartInv, SavesAlone, StillExcused
<1>8. TakenOnce' BY <1>1, <1>2, <1>4, <1>5 DEF CartInv, TakenOnce, Taking, StillExcused
<1>9. x.cart.sums = SumsOf(x.cart) BY <1>0, <1>1, <1>2 DEF Current
<1> QED BY <1>1, <1>2, <1>3, <1>7, <1>8, <1>9, HandFrame

LEMMA RecallKeeps == ASSUME CartInv, NEW h \in Hands, NEW d \in Drafts, Recall(h, d) PROVE CartInv'
<1> DEFINE c == FromRow(held[d].row)
           x == [at |-> "emptying", id |-> d, cart |-> c]
<1>1. /\ hand[h].at = "idle" /\ held[d].st = "live"
      /\ hand' = [hand EXCEPT ![h] = x] /\ UNCHANGED <<basket, stored, held, parked>>
      /\ cartHistory \subseteq cartHistory'
      /\ (\E g \in Hands : hand[g].id = d /\ hand[g].at = "emptying") => "two-recalls" \in cartHistory'
  BY DEF Recall, Begins, Doing, Excused
<1>2. IsACart(held[d].row) /\ held[d].given \in Nat BY DEF CartInv, HeldShape, IsADraft
<1>3. IsACart(c) BY <1>2, RecalculatedIs DEF FromRow
<1> HIDE DEF c
<1>4. x.at = "emptying" /\ x.id = d /\ IsAHand(x) BY <1>3 DEF IsAHand
<1> HIDE DEF x
<1>5. hand'[h] = x /\ \A g \in Hands : g # h => hand'[g] = hand[g] BY <1>1, <1>4, HandSet DEF CartInv
<1>6. StillExcused BY <1>1 DEF StillExcused
<1>7. SavesAlone'
  <2>1. Live' \subseteq Live BY <1>1 DEF Live
  <2> QED BY <1>4, <1>5, <1>6, <2>1, SavesFrame DEF CartInv
<1>8. TakenOnce'
  <2> SUFFICES ASSUME cartHistory' \cap {"renamed-back", "two-recalls"} = {}, NEW e \in Drafts
               PROVE  /\ \A g, k \in Hands : Taking(g, e)' /\ Taking(k, e)' => g = k
                      /\ \A g \in Hands : Taking(g, e)' => held[e].given = 0 /\ (hand'[g].at = "replacing" => held[e].st = "gone")
                      /\ held[e].given <= 1 /\ (held[e].given = 1 => held[e].st = "gone")
    BY <1>1 DEF TakenOnce
  <2>1. cartHistory \cap {"renamed-back", "two-recalls"} = {} BY <1>6 DEF StillExcused
  <2>2. /\ \A g, k \in Hands : Taking(g, e) /\ Taking(k, e) => g = k
        /\ \A g \in Hands : Taking(g, e) => held[e].given = 0 /\ (hand[g].at = "replacing" => held[e].st = "gone")
        /\ held[e].given <= 1 /\ (held[e].given = 1 => held[e].st = "gone")
    BY <2>1 DEF CartInv, TakenOnce
  <2>3. CASE e # d BY <1>4, <1>5, <2>2, <2>3 DEF Taking
  <2>4. CASE e = d
    <3>1. held[d].given = 0 BY <1>1, <1>2, <2>2, <2>4
    <3>2. \A g \in Hands : ~Taking(g, d) BY <1>1, <2>2, <2>4 DEF Taking
    <3>3. \A g \in Hands : Taking(g, d)' => g = h BY <1>5, <3>2 DEF Taking
    <3> QED BY <1>4, <1>5, <2>4, <3>1, <3>3
  <2> QED BY <2>3, <2>4
<1> QED BY <1>1, <1>4, <1>7, <1>8, HandFrame

LEMMA RenameKeeps == ASSUME CartInv, NEW h \in Hands, NEW d \in Drafts, Rename(h, d) PROVE CartInv'
<1> DEFINE c == FromRow(held[d].row)
           x == [at |-> "renaming", id |-> d, cart |-> c]
<1>1. /\ hand[h].at = "idle" /\ held[d].st # "none"
      /\ hand' = [hand EXCEPT ![h] = x] /\ UNCHANGED <<basket, stored, held, parked, cartHistory>>
  BY DEF Rename, Begins, Doing, InTable
<1>2. IsACart(held[d].row) BY DEF CartInv, HeldShape, IsADraft
<1>3. IsACart(c) /\ SumsOf(c) = SumsOf(held[d].row) BY <1>2, RecalculatedIs DEF FromRow
<1> HIDE DEF c
<1>4. x.at = "renaming" /\ x.id = d /\ x.cart = c /\ IsAHand(x) BY <1>3 DEF IsAHand
<1> HIDE DEF x
<1>5. hand'[h] = x /\ \A g \in Hands : g # h => hand'[g] = hand[g] BY <1>1, <1>4, HandSet DEF CartInv
<1>6. SavesAlone'
  <2>1. Live' \subseteq Live /\ StillExcused BY <1>1 DEF Live, StillExcused
  <2> QED BY <1>4, <1>5, <2>1, SavesFrame DEF CartInv
<1>7. TakenOnce' BY <1>1, <1>4, <1>5 DEF CartInv, TakenOnce, Taking
<1>8. SumsOf(x.cart).grand = held[x.id].total BY <1>1, <1>3, <1>4 DEF CartInv, HeldPriced
<1> QED BY <1>1, <1>4, <1>6, <1>7, <1>8, HandFrame

-----------------------------------------------------------------------------
\* What a step does to one held cart: its row, its total and how often it was
\* given stay; only its state moves, or it is told deleted or orphaned.
DraftMoves(x, y) ==
  /\ IsADraft(y) /\ y.row = x.row /\ y.total = x.total /\ y.given = x.given
  /\ x.st # "none" <=> y.st # "none"
  /\ y.st = "live" => x.st = "live"
  /\ x.st = "gone" => y.st = "gone"

LEMMA MovesKeeps ==
  ASSUME CartInv, UNCHANGED parked, Current(basket'), Current(stored'), held' = [d \in Drafts |-> held'[d]], HandShape',
         \A d \in Drafts : DraftMoves(held[d], held'[d]),
         \A h \in Hands : \/ Light(hand'[h])
                          \/ (hand'[h].id = hand[h].id /\ hand'[h].cart = hand[h].cart
                              /\ (hand'[h].at = hand[h].at
                                  \/ (hand'[h].at = "replacing" /\ hand[h].at = "emptying" /\ held'[hand[h].id].st = "gone"))),
         StillExcused, HeldCartKept'
  PROVE  CartInv'
<1>1. HeldShape' BY DEF HeldShape, DraftMoves
<1>2. \A d \in Drafts : /\ held'[d].row = held[d].row /\ held'[d].total = held[d].total /\ held'[d].given = held[d].given
                        /\ held[d].st # "none" <=> held'[d].st # "none"
                        /\ held'[d].st = "live" => held[d].st = "live"
                        /\ held[d].st = "gone" => held'[d].st = "gone"
  BY DEF DraftMoves
<1>3. \A h \in Hands : hand'[h].at \notin {"idle", "persisting", "deleting"} =>
        /\ hand'[h].id = hand[h].id /\ hand'[h].cart = hand[h].cart
        /\ \/ hand'[h].at = hand[h].at
           \/ (hand'[h].at = "replacing" /\ hand[h].at = "emptying" /\ held'[hand[h].id].st = "gone")
  BY DEF Light
<1>4. HandsKnowTheirs' BY <1>2, <1>3 DEF CartInv, HandsKnowTheirs
<1>5. HeldPriced' BY <1>2 DEF CartInv, HeldPriced
<1>6. SavesAlone'
  <2>1. Live' \subseteq Live BY <1>2 DEF Live
  <2>2. \A h \in Hands : hand'[h].at = "saving" => hand[h].at = "saving" BY <1>3
  <2> QED BY <2>1, <2>2, SavesFrame DEF CartInv
<1>7. TakenOnce'
  <2> SUFFICES ASSUME cartHistory' \cap {"renamed-back", "two-recalls"} = {}, NEW e \in Drafts
               PROVE  /\ \A g, k \in Hands : Taking(g, e)' /\ Taking(k, e)' => g = k
                      /\ \A g \in Hands : Taking(g, e)' => held'[e].given = 0 /\ (hand'[g].at = "replacing" => held'[e].st = "gone")
                      /\ held'[e].given <= 1 /\ (held'[e].given = 1 => held'[e].st = "gone")
    BY DEF TakenOnce
  <2>1. cartHistory \cap {"renamed-back", "two-recalls"} = {} BY DEF StillExcused
  <2>2. /\ \A g, k \in Hands : Taking(g, e) /\ Taking(k, e) => g = k
        /\ \A g \in Hands : Taking(g, e) => held[e].given = 0 /\ (hand[g].at = "replacing" => held[e].st = "gone")
        /\ held[e].given <= 1 /\ (held[e].given = 1 => held[e].st = "gone")
    BY <2>1 DEF CartInv, TakenOnce
  <2>3. \A g \in Hands : Taking(g, e)' => Taking(g, e) BY <1>3 DEF Taking
  <2>4. \A g \in Hands : Taking(g, e)' /\ hand'[g].at = "replacing" => held'[e].st = "gone"
    BY <1>2, <1>3, <2>2, <2>3 DEF Taking
  <2> QED BY <1>2, <2>2, <2>3, <2>4
<1> QED BY <1>1, <1>4, <1>5, <1>6, <1>7 DEF CartInv, CartsCurrent, ParksHeld

LEMMA DraftSet ==
  ASSUME NEW x, IsADraft(x), NEW st \in {"live", "expired", "gone"}, x.st # "none",
         st = "live" => x.st = "live", x.st = "gone" => st = "gone"
  PROVE  /\ DraftMoves(x, [x EXCEPT !.st = st]) /\ [x EXCEPT !.st = st].st = st /\ [x EXCEPT !.st = st].told = x.told
         /\ [x EXCEPT !.st = st].died = x.died
         /\ DraftMoves(x, [x EXCEPT !.st = st, !.told = FALSE]) /\ [x EXCEPT !.st = st, !.told = FALSE].told = FALSE
<1>1. DraftMoves(x, [x EXCEPT !.st = st]) BY DEF DraftMoves, IsADraft
<1>2. /\ [x EXCEPT !.st = st].st = st /\ [x EXCEPT !.st = st].told = x.told /\ [x EXCEPT !.st = st].died = x.died
  BY DEF IsADraft
<1>3. DraftMoves(x, [x EXCEPT !.st = st, !.told = FALSE]) BY DEF DraftMoves, IsADraft
<1>4. [x EXCEPT !.st = st, !.told = FALSE].told = FALSE BY DEF IsADraft
<1> QED BY <1>1, <1>2, <1>3, <1>4

LEMMA DraftStays == ASSUME NEW x, IsADraft(x) PROVE DraftMoves(x, x)
BY DEF DraftMoves

\* The recalled row is deleted; the cart is still on its way.
LEMMA DeleteRecalledKeeps == ASSUME CartInv, NEW h \in Hands, DeleteRecalled(h) PROVE CartInv'
<1> DEFINE d == hand[h].id
           y == [held[d] EXCEPT !.st = "gone"]
<1>0. HandShape /\ HeldShape /\ HeldCartKept /\ Current(basket) /\ Current(stored) BY DEF CartInv, CartsCurrent
<1>1. /\ hand[h].at = "emptying" /\ Then(h, "replacing") /\ held' = [held EXCEPT ![d] = y]
      /\ UNCHANGED <<basket, stored, parked, calls, cartHistory>>
  BY DEF DeleteRecalled, Doing
<1>2. d \in Drafts /\ held[d].st # "none" BY <1>1 DEF CartInv, HandsKnowTheirs
<1>3. DraftMoves(held[d], y) /\ y.st = "gone" /\ y.told = held[d].told BY <1>0, <1>2, DraftSet DEF HeldShape
<1>4. /\ HandShape' /\ hand'[h].at = "replacing" /\ hand'[h].id = d /\ hand'[h].cart = hand[h].cart
      /\ \A g \in Hands : g # h => hand'[g] = hand[g]
  BY <1>0, <1>1, ThenIs
<1> HIDE DEF d, y
<1>5. held' = [e \in Drafts |-> held'[e]] /\ held'[d] = y /\ \A e \in Drafts : e # d => held'[e] = held[e]
  BY <1>0, <1>1, <1>2 DEF HeldShape
<1>6. \A e \in Drafts : DraftMoves(held[e], held'[e]) BY <1>0, <1>3, <1>5, DraftStays DEF HeldShape
<1>7. HeldCartKept'
  <2> SUFFICES ASSUME NEW e \in Drafts, held'[e].told
               PROVE  \/ InTable(e)' \/ held'[e].given > 0 \/ held'[e].died
                      \/ \E g \in Hands : hand'[g].id = e /\ hand'[g].at \in {"emptying", "replacing"}
    BY DEF HeldCartKept
  <2>1. CASE e = d BY <1>4, <2>1
  <2>2. CASE e # d
    <3>1. hand[h].id # e BY <2>2 DEF d
    <3>2. held'[e] = held[e] BY <1>5, <2>2
    <3> QED BY <1>0, <1>4, <3>1, <3>2 DEF HeldCartKept, InTable
  <2> QED BY <2>1, <2>2
<1>8. \A g \in Hands : \/ Light(hand'[g])
                       \/ (hand'[g].id = hand[g].id /\ hand'[g].cart = hand[g].cart
                           /\ (hand'[g].at = hand[g].at
                               \/ (hand'[g].at = "replacing" /\ hand[g].at = "emptying" /\ held'[hand[g].id].st = "gone")))
  BY <1>1, <1>3, <1>4, <1>5 DEF d
<1>9. StillExcused BY <1>1 DEF StillExcused
<1> QED BY <1>0, <1>1, <1>4, <1>5, <1>6, <1>7, <1>8, <1>9, MovesKeeps

\* Deleted by hand or cleaned up, or a day old.
LEMMA DraftsGoKeeps ==
  ASSUME CartInv, UNCHANGED <<basket, stored, parked, hand, cartHistory>>, held' = [d \in Drafts |-> held'[d]],
         \A d \in Drafts : \/ held'[d] = held[d]
                           \/ held[d].st \in {"live", "expired"} /\ held'[d] = [held[d] EXCEPT !.st = "gone", !.told = FALSE]
                           \/ held[d].st = "live" /\ held'[d] = [held[d] EXCEPT !.st = "expired"]
  PROVE  CartInv'
<1>0. HandShape /\ HeldShape /\ HeldCartKept /\ Current(basket) /\ Current(stored) BY DEF CartInv, CartsCurrent
<1>1. ASSUME NEW d \in Drafts
      PROVE  /\ DraftMoves(held[d], held'[d])
             /\ \/ held'[d] = held[d] \/ ~held'[d].told \/ InTable(d)'
  <2>0. IsADraft(held[d]) BY <1>0 DEF HeldShape
  <2>1. CASE held'[d] = held[d] BY <2>0, <2>1, DraftStays
  <2>2. CASE held[d].st \in {"live", "expired"} /\ held'[d] = [held[d] EXCEPT !.st = "gone", !.told = FALSE]
    <3> DEFINE y == [held[d] EXCEPT !.st = "gone", !.told = FALSE]
    <3>1. DraftMoves(held[d], y) /\ y.told = FALSE BY <2>0, <2>2, DraftSet
    <3>2. held'[d] = y BY <2>2
    <3> HIDE DEF y
    <3> QED BY <3>1, <3>2
  <2>3. CASE held[d].st = "live" /\ held'[d] = [held[d] EXCEPT !.st = "expired"]
    <3> DEFINE y == [held[d] EXCEPT !.st = "expired"]
    <3>1. DraftMoves(held[d], y) /\ y.st = "expired" BY <2>0, <2>3, DraftSet
    <3>2. held'[d] = y BY <2>3
    <3> HIDE DEF y
    <3> QED BY <3>1, <3>2 DEF InTable
  <2> QED BY <2>1, <2>2, <2>3
<1>2. HeldCartKept'
  <2> SUFFICES ASSUME NEW d \in Drafts, held'[d].told
               PROVE  \/ InTable(d)' \/ held'[d].given > 0 \/ held'[d].died
                      \/ \E g \in Hands : hand'[g].id = d /\ hand'[g].at \in {"emptying", "replacing"}
    BY DEF HeldCartKept
  <2>1. CASE InTable(d)' BY <2>1
  <2>2. CASE held'[d] = held[d] BY <1>0, <2>2 DEF HeldCartKept, InTable
  <2> QED BY <1>1, <2>1, <2>2
<1>3. HandShape' /\ StillExcused BY <1>0 DEF HandShape, StillExcused
<1> QED BY <1>0, <1>1, <1>2, <1>3, MovesKeeps

LEMMA DeleteKeeps ==
  ASSUME CartInv, \/ \E h \in Hands, d \in Drafts : DeleteDraft(h, d)
                  \/ \E h \in Hands : CleanupExpired(h)
                  \/ \E d \in Drafts : Expires(d)
  PROVE  CartInv'
<1>0. held = [d \in Drafts |-> held[d]] BY DEF CartInv, HeldShape
<1>1. ASSUME NEW h \in Hands, NEW d \in Drafts, DeleteDraft(h, d) PROVE CartInv'
  <2> DEFINE y == [held[d] EXCEPT !.st = "gone", !.told = FALSE]
  <2>1. /\ held[d].st \in {"live", "expired"} /\ held' = [held EXCEPT ![d] = y]
        /\ UNCHANGED <<basket, stored, parked, hand, cartHistory>>
    BY <1>1 DEF DeleteDraft, InTable
  <2> HIDE DEF y
  <2>2. held' = [e \in Drafts |-> held'[e]] /\ held'[d] = y /\ \A e \in Drafts : e # d => held'[e] = held[e] BY <1>0, <2>1
  <2>3. \A e \in Drafts : held'[e] = held[e] \/ (held[e].st \in {"live", "expired"} /\ held'[e] = [held[e] EXCEPT !.st = "gone", !.told = FALSE])
    BY <2>1, <2>2 DEF y
  <2> QED BY <2>1, <2>2, <2>3, DraftsGoKeeps
<1>2. ASSUME NEW h \in Hands, CleanupExpired(h) PROVE CartInv'
  <2>1. /\ held' = [d \in Drafts |-> IF held[d].st = "expired" THEN [held[d] EXCEPT !.st = "gone", !.told = FALSE] ELSE held[d]]
        /\ UNCHANGED <<basket, stored, parked, hand, cartHistory>>
    BY <1>2 DEF CleanupExpired
  <2>2. \A e \in Drafts : held'[e] = held[e] \/ (held[e].st \in {"live", "expired"} /\ held'[e] = [held[e] EXCEPT !.st = "gone", !.told = FALSE])
    BY <2>1
  <2>3. held' = [e \in Drafts |-> held'[e]] BY <2>1
  <2> QED BY <2>1, <2>2, <2>3, DraftsGoKeeps
<1>3. ASSUME NEW d \in Drafts, Expires(d) PROVE CartInv'
  <2> DEFINE y == [held[d] EXCEPT !.st = "expired"]
  <2>1. /\ held[d].st = "live" /\ held' = [held EXCEPT ![d] = y] /\ UNCHANGED <<basket, stored, parked, hand, cartHistory>>
    BY <1>3 DEF Expires
  <2> HIDE DEF y
  <2>2. held' = [e \in Drafts |-> held'[e]] /\ held'[d] = y /\ \A e \in Drafts : e # d => held'[e] = held[e] BY <1>0, <2>1
  <2>3. \A e \in Drafts : held'[e] = held[e] \/ (held[e].st = "live" /\ held'[e] = [held[e] EXCEPT !.st = "expired"])
    BY <2>1, <2>2 DEF y
  <2> QED BY <2>1, <2>2, <2>3, DraftsGoKeeps
<1> QED BY <1>1, <1>2, <1>3

\* A crash loses the calls: a cart on its way out of its row may be lost.
LEMMA RestartsKeeps == ASSUME CartInv, Restarts PROVE CartInv'
<1> DEFINE lost(d) == \E h \in Hands : hand[h].id = d /\ hand[h].at \in {"emptying", "replacing"}
<1>0. HandShape /\ HeldShape /\ HeldCartKept /\ Current(basket) /\ Current(stored) BY DEF CartInv, CartsCurrent
<1>1. /\ basket' \in {stored, EmptyCart} /\ hand' = [h \in Hands |-> Resting]
      /\ held' = [d \in Drafts |-> IF lost(d) THEN [held[d] EXCEPT !.died = TRUE] ELSE held[d]]
      /\ cartHistory \ Lapses \subseteq cartHistory' /\ UNCHANGED <<stored, parked>>
  BY DEF Restarts
<1>2. Current(basket') /\ Current(stored') BY <1>0, <1>1, EmptyIs
<1>3. IsAHand(Resting) /\ Resting.at = "idle" BY EmptyIs DEF Resting, IsAHand
<1>4. HandShape' BY <1>1, <1>3 DEF HandShape
<1>5. \A h \in Hands : Light(hand'[h]) BY <1>1, <1>3 DEF Light
<1>6. \A d \in Drafts : ~lost(d) /\ held[d].told => InTable(d) \/ held[d].given > 0 \/ held[d].died
  BY <1>0 DEF HeldCartKept
<1> HIDE DEF lost
<1>7. ASSUME NEW d \in Drafts
      PROVE  DraftMoves(held[d], held'[d]) /\ (held'[d] = held[d] \/ held'[d].died)
  <2>0. IsADraft(held[d]) BY <1>0 DEF HeldShape
  <2>1. CASE ~lost(d) BY <1>1, <2>0, <2>1, DraftStays
  <2>2. CASE lost(d)
    <3> DEFINE y == [held[d] EXCEPT !.died = TRUE]
    <3>1. DraftMoves(held[d], y) BY <2>0 DEF IsADraft, DraftMoves
    <3>2. y.died = TRUE BY <2>0 DEF IsADraft
    <3>3. held'[d] = y BY <1>1, <2>2
    <3> HIDE DEF y
    <3> QED BY <3>1, <3>2, <3>3
  <2> QED BY <2>1, <2>2
<1>8. HeldCartKept'
  <2> SUFFICES ASSUME NEW d \in Drafts, held'[d].told
               PROVE  InTable(d)' \/ held'[d].given > 0 \/ held'[d].died
    BY DEF HeldCartKept
  <2>1. CASE lost(d)
    <3> DEFINE y == [held[d] EXCEPT !.died = TRUE]
    <3>1. y.died = TRUE BY <1>0 DEF HeldShape, IsADraft
    <3>2. held'[d] = y BY <1>1, <2>1
    <3> HIDE DEF y
    <3> QED BY <3>1, <3>2
  <2>2. CASE ~lost(d)
    <3>1. held'[d] = held[d] BY <1>1, <2>2
    <3> QED BY <1>6, <2>2, <3>1 DEF InTable
  <2> QED BY <2>1, <2>2
<1>9. StillExcused /\ held' = [d \in Drafts |-> held'[d]] BY <1>1 DEF StillExcused, Lapses
<1>10. UNCHANGED parked BY <1>1
<1> QED BY <1>2, <1>4, <1>5, <1>7, <1>8, <1>9, <1>10, MovesKeeps

\* A held cart is inserted with the total the cart showed.
LEMMA SaveDraftKeeps == ASSUME CartInv, NEW h \in Hands, NEW d \in Drafts, SaveDraft(h, d) PROVE CartInv'
<1> DEFINE c == hand[h].cart
           row == ToRow(c)
           total == c.sums.grand
           y == [NoDraft EXCEPT !.st = "live", !.row = row, !.total = total, !.told = TRUE]
<1>0. /\ HandShape /\ HeldShape /\ HandsKnowTheirs /\ HeldPriced /\ SavesAlone /\ TakenOnce /\ HeldCartKept
      /\ held = [e \in Drafts |-> held[e]]
  BY HeldParts DEF HeldShape
<1>1. /\ hand[h].at = "saving" /\ held[d] = NoDraft /\ Rests(h) /\ held' = [held EXCEPT ![d] = y]
      /\ UNCHANGED <<basket, stored, parked, calls, cartHistory>>
  BY DEF SaveDraft, Doing
<1>2. IsACart(c) /\ c.sums = SumsOf(c) BY <1>0, <1>1 DEF HandsKnowTheirs, HandShape, IsAHand
<1>3. IsACart(row) /\ SumsOf(row).grand = total
  <2>1. DOMAIN row = DOMAIN c /\ row.lines = c.lines /\ row.pct = c.pct /\ row.amt = c.amt BY <1>2 DEF ToRow, IsACart
  <2> HIDE DEF row, c
  <2>2. IsACart(row) /\ SumsOf(row) = SumsOf(c) BY <1>2, <2>1, SameSums DEF IsACart
  <2> QED BY <1>2, <2>2
<1>4. held[d].st = "none" /\ held[d].given = 0 BY <1>1 DEF NoDraft
<1> HIDE DEF row, total, c
<1>5. IsADraft(y) /\ y.st = "live" /\ y.row = row /\ y.total = total /\ y.given = 0
  <2>1. /\ DOMAIN y = {"st", "row", "total", "told", "given", "died"}
        /\ y.st = "live" /\ y.row = row /\ y.total = total /\ y.given = 0
    BY DEF NoDraft
  <2> HIDE DEF y
  <2> QED BY <1>3, <2>1 DEF IsADraft
<1> HIDE DEF y
<1>6. /\ held' = [e \in Drafts |-> held'[e]] /\ held'[d] = y /\ \A e \in Drafts : e # d => held'[e] = held[e]
  BY <1>0, <1>1
<1>7. HandShape' /\ hand'[h].at = "idle" /\ \A g \in Hands : g # h => hand'[g] = hand[g] BY <1>0, <1>1, RestsIs
<1>8. \A g \in Hands : hand'[g].at # "idle" => hand'[g] = hand[g] /\ g # h BY <1>7
<1>9. HeldShape' BY <1>0, <1>5, <1>6 DEF HeldShape
<1>10. HandsKnowTheirs'
  <2>1. \A g \in Hands : hand'[g].at \in {"emptying", "replacing", "renaming"} =>
          /\ hand'[g] = hand[g] /\ hand[g].id \in Drafts /\ held[hand[g].id].st # "none" /\ hand[g].id # d
          /\ held'[hand[g].id] = held[hand[g].id]
    BY <1>0, <1>4, <1>6, <1>8 DEF HandsKnowTheirs
  <2>2. \A g \in Hands : hand'[g].at = "saving" => hand'[g].cart.sums = SumsOf(hand'[g].cart)
    BY <1>0, <1>8 DEF HandsKnowTheirs
  <2>3. \A g \in Hands : hand'[g].at = "renaming" => SumsOf(hand'[g].cart).grand = held'[hand'[g].id].total
    BY <1>0, <2>1 DEF HandsKnowTheirs
  <2>4. \A g \in Hands : hand'[g].at \in {"emptying", "replacing", "renaming"} => hand'[g].id \in Drafts /\ held'[hand'[g].id].st # "none"
    BY <2>1
  <2> QED BY <2>2, <2>3, <2>4 DEF HandsKnowTheirs
<1>11. HeldPriced' BY <1>0, <1>3, <1>5, <1>6 DEF HeldPriced
<1>12. SavesAlone'
  <2>1. Live' = Live \cup {d} /\ d \notin Live BY <1>4, <1>5, <1>6 DEF Live
  <2>2. IsFiniteSet(Live) BY <1>0 DEF SavesAlone
  <2>3. IsFiniteSet(Live') /\ Cardinality(Live') = Cardinality(Live) + 1 BY <2>1, <2>2, FS_AddElement
  <2>4. Cardinality(Live) \in Nat /\ MaxDrafts \in Nat BY <2>2, FS_CardinalityType, CartAssumption
  <2>5. ASSUME cartHistory \cap {"two-saves", "renamed-back"} = {}
        PROVE  Cardinality(Live) < MaxDrafts /\ \A g \in Hands : hand'[g].at # "saving"
    <3>1. Cardinality(Live) < MaxDrafts BY <1>0, <1>1, <2>5 DEF SavesAlone
    <3>2. \A g \in Hands : hand[g].at = "saving" => g = h BY <1>0, <1>1, <2>5 DEF SavesAlone
    <3> QED BY <1>8, <3>1, <3>2
  <2> QED BY <1>1, <2>3, <2>4, <2>5 DEF SavesAlone
<1>13. TakenOnce'
  <2>1. \A g \in Hands, e \in Drafts : Taking(g, e)' => Taking(g, e) /\ hand'[g] = hand[g] /\ e # d
    BY <1>0, <1>4, <1>8 DEF Taking, HandsKnowTheirs
  <2>2. held'[d].given = 0 BY <1>5, <1>6
  <2> QED BY <1>0, <1>1, <1>6, <2>1, <2>2 DEF TakenOnce
<1>14. HeldCartKept'
  <2> SUFFICES ASSUME NEW e \in Drafts, held'[e].told
               PROVE  \/ InTable(e)' \/ held'[e].given > 0 \/ held'[e].died
                      \/ \E g \in Hands : hand'[g].id = e /\ hand'[g].at \in {"emptying", "replacing"}
    BY DEF HeldCartKept
  <2>1. CASE e = d BY <1>5, <1>6, <2>1 DEF InTable
  <2>2. CASE e # d
    <3>1. held'[e] = held[e] BY <1>6, <2>2
    <3>2. \A g \in Hands : hand[g].at \in {"emptying", "replacing"} => hand'[g] = hand[g] BY <1>1, <1>7
    <3> QED BY <1>0, <3>1, <3>2 DEF HeldCartKept, InTable
  <2> QED BY <2>1, <2>2
<1> QED BY <1>1, <1>7, <1>9, <1>10, <1>11, <1>12, <1>13, <1>14, PutAside

\* A rename writes back the row it read, at the same price.
LEMMA SaveRenamedKeeps == ASSUME CartInv, NEW h \in Hands, SaveRenamed(h) PROVE CartInv'
<1> DEFINE d == hand[h].id
           c == hand[h].cart
           row == ToRow(c)
           st == IF held[d].st = "gone" THEN "live" ELSE held[d].st
           y == [held[d] EXCEPT !.row = row, !.st = st]
<1>0. /\ HandShape /\ HeldShape /\ HandsKnowTheirs /\ HeldPriced /\ SavesAlone /\ TakenOnce /\ HeldCartKept
      /\ held = [e \in Drafts |-> held[e]]
  BY HeldParts DEF HeldShape
<1>1. /\ hand[h].at = "renaming" /\ Rests(h) /\ held' = [held EXCEPT ![d].row = row, ![d].st = IF @ = "gone" THEN "live" ELSE @]
      /\ UNCHANGED <<basket, stored, parked, calls>> /\ cartHistory \subseteq cartHistory'
      /\ (held[d].st = "gone" => "renamed-back" \in cartHistory')
  BY DEF SaveRenamed, Doing, Excused
<1>2. d \in Drafts /\ held[d].st # "none" /\ SumsOf(c).grand = held[d].total BY <1>0, <1>1 DEF HandsKnowTheirs
<1>3. IsACart(c) /\ IsADraft(held[d]) BY <1>0, <1>2 DEF HandShape, IsAHand, HeldShape
<1>4. IsACart(row) /\ SumsOf(row).grand = held[d].total
  <2>1. DOMAIN row = DOMAIN c /\ row.lines = c.lines /\ row.pct = c.pct /\ row.amt = c.amt BY <1>3 DEF ToRow, IsACart
  <2> HIDE DEF row, c
  <2>2. IsACart(row) /\ SumsOf(row) = SumsOf(c) BY <1>3, <2>1, SameSums DEF IsACart
  <2> QED BY <1>2, <2>2
<1>5. held' = [held EXCEPT ![d] = y]
  <2>1. held[d].st = [held[d] EXCEPT !.row = row].st BY <1>3 DEF IsADraft
  <2> QED BY <1>0, <1>1, <1>2, <2>1
<1>6. st \in {"live", "expired"} /\ (held[d].st # "gone" => st = held[d].st) BY <1>2, <1>3 DEF IsADraft
<1> HIDE DEF row, c, st, d
<1>7. IsADraft(y) /\ y.st = st /\ y.row = row /\ y.total = held[d].total /\ y.given = held[d].given
  <2>1. /\ DOMAIN y = DOMAIN held[d]
        /\ y.st = st /\ y.row = row /\ y.total = held[d].total /\ y.given = held[d].given
    BY <1>3 DEF IsADraft
  <2> HIDE DEF y
  <2> QED BY <1>3, <1>4, <1>6, <2>1 DEF IsADraft
<1> HIDE DEF y
<1>8. /\ held' = [e \in Drafts |-> held'[e]] /\ held'[d] = y /\ \A e \in Drafts : e # d => held'[e] = held[e]
  BY <1>0, <1>2, <1>5
<1>9. HandShape' /\ hand'[h].at = "idle" /\ \A g \in Hands : g # h => hand'[g] = hand[g] BY <1>0, <1>1, RestsIs
<1>10. \A g \in Hands : hand'[g].at # "idle" => hand'[g] = hand[g] /\ g # h BY <1>9
<1>11. HeldShape' BY <1>0, <1>7, <1>8 DEF HeldShape
<1>12. \A e \in Drafts : /\ held[e].st # "none" <=> held'[e].st # "none"
                         /\ held'[e].total = held[e].total /\ held'[e].given = held[e].given
  BY <1>2, <1>6, <1>7, <1>8
<1>13. HandsKnowTheirs' BY <1>0, <1>10, <1>12 DEF HandsKnowTheirs
<1>14. HeldPriced' BY <1>0, <1>4, <1>7, <1>8, <1>12 DEF HeldPriced
<1>15. StillExcused BY <1>1 DEF StillExcused
<1>16. SavesAlone'
  <2>1. CASE held[d].st # "gone"
    <3>1. Live' \subseteq Live BY <1>6, <1>7, <1>8, <2>1 DEF Live
    <3> QED BY <1>0, <1>10, <1>15, <3>1, SavesFrame
  <2>2. CASE held[d].st = "gone"
    <3>1. "renamed-back" \in cartHistory' BY <1>1, <2>2
    <3>2. Live' \subseteq Live \cup {d} BY <1>8 DEF Live
    <3>3. IsFiniteSet(Live \cup {d}) BY <1>0, FS_AddElement DEF SavesAlone
    <3>4. IsFiniteSet(Live') BY <3>2, <3>3, FS_Subset
    <3> QED BY <3>1, <3>4 DEF SavesAlone
  <2> QED BY <2>1, <2>2
<1>17. TakenOnce'
  <2> SUFFICES ASSUME cartHistory' \cap {"renamed-back", "two-recalls"} = {}, NEW e \in Drafts
               PROVE  /\ \A g, k \in Hands : Taking(g, e)' /\ Taking(k, e)' => g = k
                      /\ \A g \in Hands : Taking(g, e)' => held'[e].given = 0 /\ (hand'[g].at = "replacing" => held'[e].st = "gone")
                      /\ held'[e].given <= 1 /\ (held'[e].given = 1 => held'[e].st = "gone")
    BY DEF TakenOnce
  <2>1. cartHistory \cap {"renamed-back", "two-recalls"} = {} BY <1>15 DEF StillExcused
  <2>2. /\ \A g, k \in Hands : Taking(g, e) /\ Taking(k, e) => g = k
        /\ \A g \in Hands : Taking(g, e) => held[e].given = 0 /\ (hand[g].at = "replacing" => held[e].st = "gone")
        /\ held[e].given <= 1 /\ (held[e].given = 1 => held[e].st = "gone")
    BY <1>0, <2>1 DEF TakenOnce
  <2>3. \A g \in Hands : Taking(g, e)' => Taking(g, e) /\ hand'[g] = hand[g] BY <1>10 DEF Taking
  <2>4. held[d].st # "gone" BY <1>1
  <2>5. held'[e].st = held[e].st BY <1>6, <1>7, <1>8, <2>4
  <2> QED BY <1>12, <2>2, <2>3, <2>5
<1>18. HeldCartKept'
  <2> SUFFICES ASSUME NEW e \in Drafts, held'[e].told
               PROVE  \/ InTable(e)' \/ held'[e].given > 0 \/ held'[e].died
                      \/ \E g \in Hands : hand'[g].id = e /\ hand'[g].at \in {"emptying", "replacing"}
    BY DEF HeldCartKept
  <2>1. CASE e = d BY <1>6, <1>7, <1>8, <2>1 DEF InTable
  <2>2. CASE e # d
    <3>1. held'[e] = held[e] BY <1>8, <2>2
    <3>2. \A g \in Hands : hand[g].at \in {"emptying", "replacing"} => hand'[g] = hand[g] BY <1>1, <1>9
    <3> QED BY <1>0, <3>1, <3>2 DEF HeldCartKept, InTable
  <2> QED BY <2>1, <2>2
<1> QED BY <1>1, <1>9, <1>11, <1>13, <1>14, <1>16, <1>17, <1>18, PutAside

\* The recalled cart is the cart at the counter, recalculated.
LEMMA ReplaceCartKeeps == ASSUME CartInv, NEW h \in Hands, ReplaceCart(h) PROVE CartInv'
<1> DEFINE d == hand[h].id
           x == [Resting EXCEPT !.at = "persisting"]
           y == [held[d] EXCEPT !.given = @ + 1]
<1>0. /\ HandShape /\ HeldShape /\ HandsKnowTheirs /\ HeldPriced /\ SavesAlone /\ TakenOnce /\ HeldCartKept
      /\ Current(stored) /\ ParksHeld
  BY HeldParts DEF CartsCurrent
<1>1. /\ hand[h].at = "replacing" /\ basket' = Recalculated(hand[h].cart) /\ hand' = [hand EXCEPT ![h] = x]
      /\ held' = [e \in Drafts |-> IF e = d THEN [held[e] EXCEPT !.given = @ + 1] ELSE held[e]]
      /\ UNCHANGED <<stored, parked, calls, cartHistory>>
  BY DEF ReplaceCart, Doing
<1>2. d \in Drafts /\ held[d].st # "none" BY <1>0, <1>1 DEF HandsKnowTheirs
<1>3. Current(basket') BY <1>0, <1>1, RecalculatedIs DEF HandShape, IsAHand
<1>4. IsAHand(x) /\ x.at = "persisting" BY EmptyIs DEF IsAHand, Resting
<1> HIDE DEF x
<1>5. HandShape' /\ hand'[h].at = "persisting" /\ \A g \in Hands : g # h => hand'[g] = hand[g] BY <1>0, <1>1, <1>4, HandSet
<1>6. \A g \in Hands : hand'[g].at # "persisting" => hand'[g] = hand[g] /\ g # h BY <1>5
<1>7. IsADraft(held[d]) BY <1>0, <1>2 DEF HeldShape
<1>8. held' = [e \in Drafts |-> held'[e]] /\ held'[d] = y /\ \A e \in Drafts : e # d => held'[e] = held[e] BY <1>1, <1>2
<1> HIDE DEF d
<1>9. IsADraft(y) /\ y.st = held[d].st /\ y.row = held[d].row /\ y.total = held[d].total /\ y.given = held[d].given + 1
  BY <1>7 DEF IsADraft
<1> HIDE DEF y
<1>10. HeldShape' BY <1>0, <1>8, <1>9 DEF HeldShape
<1>11. \A e \in Drafts : held'[e].st = held[e].st /\ held'[e].row = held[e].row /\ held'[e].total = held[e].total
  BY <1>8, <1>9
<1>12. HandsKnowTheirs' BY <1>0, <1>6, <1>11 DEF HandsKnowTheirs
<1>13. HeldPriced' BY <1>0, <1>11 DEF HeldPriced
<1>14. SavesAlone'
  <2>1. Live' \subseteq Live /\ StillExcused BY <1>1, <1>11 DEF Live, StillExcused
  <2> QED BY <1>0, <1>6, <2>1, SavesFrame
<1>15. TakenOnce'
  <2> SUFFICES ASSUME cartHistory \cap {"renamed-back", "two-recalls"} = {}, NEW e \in Drafts
               PROVE  /\ \A g, k \in Hands : Taking(g, e)' /\ Taking(k, e)' => g = k
                      /\ \A g \in Hands : Taking(g, e)' => held'[e].given = 0 /\ (hand'[g].at = "replacing" => held'[e].st = "gone")
                      /\ held'[e].given <= 1 /\ (held'[e].given = 1 => held'[e].st = "gone")
    BY <1>1 DEF TakenOnce
  <2>1. /\ \A g, k \in Hands : Taking(g, e) /\ Taking(k, e) => g = k
        /\ \A g \in Hands : Taking(g, e) => held[e].given = 0 /\ (hand[g].at = "replacing" => held[e].st = "gone")
        /\ held[e].given <= 1 /\ (held[e].given = 1 => held[e].st = "gone")
    BY <1>0 DEF TakenOnce
  <2>2. \A g \in Hands : Taking(g, e)' => Taking(g, e) /\ hand'[g] = hand[g] /\ g # h BY <1>6 DEF Taking
  <2>3. CASE e # d
    <3>1. held'[e] = held[e] BY <1>8, <2>3
    <3> QED BY <2>1, <2>2, <3>1
  <2>4. CASE e = d
    <3>1. Taking(h, e) BY <1>1, <2>4 DEF Taking, d
    <3>2. held[d].given = 0 /\ held[d].st = "gone" BY <1>1, <2>1, <2>4, <3>1
    <3>3. held'[e].given = 1 /\ held'[e].st = "gone" BY <1>8, <1>9, <2>4, <3>2
    <3>4. \A g \in Hands : ~Taking(g, e)' BY <2>1, <2>2, <3>1
    <3> QED BY <3>3, <3>4
  <2> QED BY <2>3, <2>4
<1>16. HeldCartKept'
  <2> SUFFICES ASSUME NEW e \in Drafts, held'[e].told
               PROVE  \/ InTable(e)' \/ held'[e].given > 0 \/ held'[e].died
                      \/ \E g \in Hands : hand'[g].id = e /\ hand'[g].at \in {"emptying", "replacing"}
    BY DEF HeldCartKept
  <2>1. CASE e = d
    <3>1. held[d].given \in Nat BY <1>7 DEF IsADraft
    <3> QED BY <1>8, <1>9, <2>1, <3>1
  <2>2. CASE e # d
    <3>1. held'[e] = held[e] /\ hand[h].id # e BY <1>8, <2>2 DEF d
    <3> QED BY <1>0, <1>5, <3>1 DEF HeldCartKept, InTable
  <2> QED BY <2>1, <2>2
<1> QED BY <1>0, <1>1, <1>3, <1>5, <1>10, <1>12, <1>13, <1>14, <1>15, <1>16 DEF CartInv, CartsCurrent, ParksHeld

-----------------------------------------------------------------------------
(* The parking calls.                                                      *)

IsHeldPark(x) == IsAPark(x) /\ LockHeld(x) /\ ParkPriced(x)
LEMMA ParkFrame ==
  ASSUME CartInv, UNCHANGED <<basket, stored, held, hand, cartHistory>>, NEW k \in Parks, NEW x, IsHeldPark(x),
         parked' = [parked EXCEPT ![k] = x]
  PROVE  CartInv'
<1>1. ParksHeld' BY DEF CartInv, ParksHeld, IsHeldPark
<1>2. SavesAlone' BY DEF CartInv, SavesAlone, Live
<1>3. TakenOnce' BY DEF CartInv, TakenOnce, Taking
<1>4. HeldCartKept' BY DEF CartInv, HeldCartKept, InTable
<1> QED BY <1>1, <1>2, <1>3, <1>4
        DEF CartInv, CartsCurrent, HeldShape, HandShape, HandsKnowTheirs, HeldPriced

LEMMA ParkIs == ASSUME CartInv, NEW k \in Parks PROVE IsHeldPark(parked[k]) /\ IsAPark(parked[k]) /\ LockHeld(parked[k]) /\ ParkPriced(parked[k])
BY DEF CartInv, ParksHeld, IsHeldPark

\* What moves only the lock of a parked cart leaves its price alone.
LEMMA LockMoves ==
  ASSUME NEW x, NEW y, IsHeldPark(x), DOMAIN y = DOMAIN x, y.lines = x.lines, y.customer = x.customer, y.note = x.note,
         y.total = x.total, y.plain = x.plain, LockHeld(y)
  PROVE  IsHeldPark(y)
<1>1. IsAPark(y) BY DEF IsHeldPark, IsAPark
<1>2. CartOf(y) = CartOf(x) BY DEF CartOf
<1>3. ParkPriced(y) BY <1>2 DEF IsHeldPark, ParkPriced
<1> QED BY <1>1, <1>3 DEF IsHeldPark

\* A line of the platform's is a line, at the platform's figures.
LEMMA FromAnswerIs ==
  ASSUME NEW a, a.qty \in Nat
  PROVE  /\ IsALine(FromAnswer(a)) /\ FromAnswer(a).qty = a.qty
         /\ a.qty # 0 => FromAnswer(a).sub = a.sub /\ FromAnswer(a).tax = a.tax
<1>1. CASE a.qty = 0 BY <1>1, EmptyIs DEF FromAnswer, NoLine
<1>2. CASE a.qty # 0
  <2> DEFINE l == [NoLine EXCEPT !.qty = a.qty, !.pct = a.pct, !.amt = a.said, !.disc = a.said,
                                 !.note = a.note, !.sub = a.sub, !.tax = a.tax, !.theirs = TRUE]
  <2>1. /\ DOMAIN l = LineFields /\ l.qty = a.qty /\ l.incl = FALSE /\ l.theirs = TRUE
        /\ l.sub = a.sub /\ l.tax = a.tax
    BY DEF NoLine, LineFields
  <2>2. FromAnswer(a) = l BY <1>2 DEF FromAnswer
  <2> HIDE DEF l
  <2>3. IsALine(l) BY <1>2, <2>1 DEF IsALine
  <2> QED BY <2>1, <2>2, <2>3
<1> QED BY <1>1, <1>2

LEMMA AnsweredAre ==
  ASSUME NEW l, NEW how
  PROVE  Answered(l, how).qty = l.qty
BY DEF Answered

LEMMA CartOfIs ==
  ASSUME NEW x, IsAPark(x)
  PROVE  /\ IsACart(CartOf(x)) /\ CartOf(x).pct = 0 /\ CartOf(x).amt = 0
         /\ DOMAIN CartOf(x).lines = Products
         /\ \A p \in Products : CartOf(x).lines[p] = FromAnswer(x.lines[p])
<1> DEFINE ls == [p \in Products |-> FromAnswer(x.lines[p])]
           c == [EmptyCart EXCEPT !.lines = ls, !.customer = x.customer, !.note = x.note]
<1>1. \A p \in Products : IsALine(ls[p]) BY FromAnswerIs DEF IsAPark
<1>2. DOMAIN ls = Products /\ \A p \in Products : ls[p] = FromAnswer(x.lines[p]) OBVIOUS
<1>3. CartOf(x) = c BY DEF CartOf
<1> HIDE DEF ls
<1>4. DOMAIN c = DOMAIN EmptyCart /\ c.lines = ls /\ c.pct = 0 /\ c.amt = 0 BY EmptyIs DEF IsACart
<1> HIDE DEF c
<1>5. IsACart(c) BY <1>1, <1>2, <1>4, EmptyIs DEF IsACart
<1> QED BY <1>2, <1>3, <1>4, <1>5

LEMMA FromParkedIs ==
  ASSUME CartInv, NEW k \in Parks
  PROVE  FromParked(k) = Recalculated(CartOf(parked[k])) /\ Current(FromParked(k))
<1>1. FromParked(k) = Recalculated(CartOf(parked[k])) BY DEF FromParked, CartOf
<1>2. IsACart(CartOf(parked[k])) BY CartOfIs DEF CartInv, ParksHeld
<1> QED BY <1>1, <1>2, RecalculatedIs

\* What the request leaves out costs nothing when there is none of it, and what
\* the platform answers of a line without it is what the till asked for it.
LEMMA PlainComesBack ==
  ASSUME NEW c, Current(c), HasLines(c), NEW how, PlainCart(c, how), NEW x, IsAPark(x),
         x.lines = [p \in Products |-> Answered(c.lines[p], how)]
  PROVE  Recalculated(CartOf(x)).sums.grand = c.sums.grand
<1> DEFINE e == CartOf(x)
<1>1. IsACart(c) /\ c.sums = SumsOf(c) BY DEF Current
<1>2. /\ IsACart(e) /\ e.pct = 0 /\ e.amt = 0 /\ DOMAIN e.lines = Products
      /\ \A p \in Products : e.lines[p] = FromAnswer(x.lines[p])
  BY CartOfIs
<1> HIDE DEF e
<1>3. ASSUME NEW p \in Products PROVE e.lines[p].sub = c.lines[p].sub /\ e.lines[p].tax = c.lines[p].tax
  <2> DEFINE l == c.lines[p]
             a == Answered(l, how)
  <2>1. IsALine(l) BY <1>1 DEF IsACart
  <2>2. e.lines[p] = FromAnswer(a) /\ a.qty = l.qty BY <1>2, AnsweredAre
  <2>3. ~l.incl /\ ~l.theirs /\ (l.amt = 0 \/ l.pct > 0 \/ how.per = "unit") BY DEF PlainCart
  <2> HIDE DEF l
  <2>4. l = Priced(l) /\ l.incl = FALSE BY <2>1, <2>3 DEF IsALine
  <2>5. l.sub = LineAmount(l) /\ l.tax = (LineAmount(l) * TaxRate) \div 100
    <3>1. Priced(l).sub = LineSubtotal(l) /\ Priced(l).tax = LineTax(l) BY <2>1 DEF Priced, IsALine, LineFields
    <3>2. LineSubtotal(l) = LineAmount(l) /\ LineTax(l) = (LineAmount(l) * TaxRate) \div 100
      BY <2>4 DEF LineSubtotal, LineTax
    <3> QED BY <2>4, <3>1, <3>2
  <2>6. CASE l.qty = 0
    <3>1. l = NoLine /\ FromAnswer(a) = NoLine BY <2>1, <2>2, <2>6 DEF IsALine, FromAnswer
    <3> QED BY <2>2, <3>1 DEF l
  <2>7. CASE l.qty # 0
    <3>1. TakenOff(l, how) = LineDiscount(l)
      <4>1. CASE l.pct > 0 BY <4>1 DEF TakenOff, LineDiscount
      <4>2. CASE how.per = "unit" BY <4>2 DEF TakenOff, LineDiscount
      <4>3. CASE l.amt = 0 /\ ~(l.pct > 0)
        <5>1. l.qty \in Nat BY <2>1 DEF IsALine
        <5>2. l.amt * l.qty = 0 BY <4>3, <5>1
        <5> QED BY <4>3, <5>2 DEF TakenOff, LineDiscount
      <4> QED BY <2>3, <4>1, <4>2, <4>3
    <3>2. a.sub = LineAmount(l) /\ a.tax = (LineAmount(l) * TaxRate) \div 100 BY <3>1 DEF Answered, LineAmount
    <3>3. a.qty \in Nat BY <2>1, <2>2 DEF IsALine
    <3> HIDE DEF a
    <3>4. FromAnswer(a).sub = a.sub /\ FromAnswer(a).tax = a.tax BY <2>2, <2>7, <3>3, FromAnswerIs
    <3> QED BY <2>2, <2>5, <3>2, <3>4 DEF l
  <2> QED BY <2>6, <2>7
<1>4. SumsOf(e).grand = SumsOf(c).grand
  <2>1. c.pct = 0 /\ c.amt = 0 /\ DOMAIN c.lines = Products BY <1>1 DEF PlainCart, IsACart
  <2> QED BY <1>2, <1>3, <2>1, AmountsAlike
<1>5. Recalculated(e).sums = SumsOf(e) BY <1>2, RecalculatedIs
<1> QED BY <1>1, <1>4, <1>5 DEF e

LEMMA ParkCartKeeps == ASSUME CartInv, NEW h \in Hands, NEW k \in Parks, ParkCart(h, k) PROVE CartInv'
<1>1. HasLines(basket) /\ UNCHANGED <<basket, stored, held, hand, cartHistory>> BY DEF ParkCart
<1>2. PICK how \in Conventions :
        parked' = [parked EXCEPT ![k] = [NoPark EXCEPT !.st = "PARKED", !.customer = basket.customer,
                    !.lines = [p \in Products |-> Answered(basket.lines[p], how)], !.note = basket.note,
                    !.total = basket.sums.grand, !.plain = PlainCart(basket, how)]]
  BY DEF ParkCart
<1> DEFINE ls == [p \in Products |-> Answered(basket.lines[p], how)]
           total == basket.sums.grand
           plain == PlainCart(basket, how)
           customer == basket.customer
           note == basket.note
           x == [NoPark EXCEPT !.st = "PARKED", !.customer = customer, !.lines = ls, !.note = note,
                               !.total = total, !.plain = plain]
<1>0. Current(basket) /\ \A p \in Products : IsALine(basket.lines[p]) BY BasketIs
<1>3. parked' = [parked EXCEPT ![k] = x] BY <1>2
<1>4. DOMAIN ls = Products /\ \A p \in Products : ls[p].qty \in Nat BY <1>0, AnsweredAre DEF IsALine
<1> HIDE DEF ls, total, plain, customer, note
<1>5. /\ DOMAIN x = {"st", "by", "lines", "customer", "note", "total", "plain", "holds", "unsure"}
      /\ x.st = "PARKED" /\ x.by = "none" /\ x.lines = ls /\ x.total = total /\ x.holds = {} /\ x.plain = plain
  BY DEF NoPark
<1> HIDE DEF x
<1>6. IsAPark(x) /\ LockHeld(x) BY <1>4, <1>5 DEF IsAPark, LockHeld, Tills
<1>7. ParkPriced(x)
  <2>1. ASSUME plain PROVE Recalculated(CartOf(x)).sums.grand = total
    <3>1. PlainCart(basket, how) BY <2>1 DEF plain
    <3>2. x.lines = [p \in Products |-> Answered(basket.lines[p], how)] BY <1>5 DEF ls
    <3> QED BY <1>0, <1>1, <1>6, <3>1, <3>2, PlainComesBack DEF total
  <2> QED BY <1>5, <2>1 DEF ParkPriced
<1> QED BY <1>1, <1>3, <1>6, <1>7, ParkFrame DEF IsHeldPark

\* By force the other till still holds it; else it was this till's or nobody's.
LEMMA RecallParkedKeeps ==
  ASSUME CartInv, NEW t \in Tills, NEW k \in Parks, NEW force \in BOOLEAN, RecallParked(t, k, force) PROVE CartInv'
<1> DEFINE p == parked[k]
           forced == force /\ p.by \notin {t, "none"}
           unsure == p.unsure \/ forced
<1>0. IsHeldPark(p) /\ LockHeld(p) BY ParkIs
<1>1. /\ p.st = "PARKED" \/ (p.st = "RECALLED" /\ (p.by = t \/ force))
      /\ UNCHANGED <<basket, stored, held, hand, cartHistory>>
  BY DEF RecallParked
<1>2. PICK heard \in BOOLEAN :
        parked' = [parked EXCEPT ![k].st = "RECALLED", ![k].by = t, ![k].holds = IF heard THEN @ \cup {t} ELSE @,
                                 ![k].unsure = @ \/ (force /\ parked[k].by \notin {t, "none"})]
  BY DEF RecallParked
<1> DEFINE holds == IF heard THEN p.holds \cup {t} ELSE p.holds
           x == [p EXCEPT !.st = "RECALLED", !.by = t, !.holds = holds, !.unsure = unsure]
<1>3. parked' = [parked EXCEPT ![k] = x] BY <1>2, ParkIs DEF IsAPark
<1>4. t \in Tills /\ t # "none" /\ holds \subseteq p.holds \cup {t} BY DEF Tills
<1>5. unsure \/ (~p.unsure /\ ~forced) OBVIOUS
<1>6. ~forced => ~force \/ p.by = t \/ p.by = "none" OBVIOUS
<1> HIDE DEF holds, unsure, forced
<1>7. /\ DOMAIN x = DOMAIN p /\ x.lines = p.lines /\ x.customer = p.customer /\ x.note = p.note /\ x.total = p.total /\ x.plain = p.plain
      /\ x.st = "RECALLED" /\ x.by = t /\ x.holds = holds /\ x.unsure = unsure
  BY <1>0 DEF IsHeldPark, IsAPark
<1> HIDE DEF x
<1>8. x.unsure \/ holds \subseteq {t}
  <2>1. CASE unsure BY <1>7, <2>1
  <2>2. CASE ~p.unsure /\ ~forced
    <3>1. p.holds \subseteq {p.by} \ {"none"} BY <1>0, <2>2 DEF LockHeld
    <3>2. p.by = t \/ p.by = "none" BY <1>0, <1>1, <1>6, <2>2 DEF LockHeld
    <3> QED BY <1>4, <3>1, <3>2
  <2> QED BY <1>5, <2>1, <2>2
<1>9. LockHeld(x)
  <2>1. x.holds \subseteq Tills BY <1>0, <1>4, <1>7 DEF LockHeld
  <2>2. x.unsure \/ x.holds \subseteq {x.by} \ {"none"} BY <1>4, <1>7, <1>8
  <2> QED BY <1>4, <1>7, <2>1, <2>2 DEF LockHeld
<1>10. IsHeldPark(x) BY <1>0, <1>7, <1>9, LockMoves
<1> QED BY <1>1, <1>3, <1>10, ParkFrame

LEMMA ReleaseParkedKeeps == ASSUME CartInv, NEW t \in Tills, NEW k \in Parks, ReleaseParked(t, k) PROVE CartInv'
<1> DEFINE p == parked[k]
<1>0. IsHeldPark(p) /\ LockHeld(p) BY ParkIs
<1>1. p.st = "RECALLED" /\ p.by = t /\ UNCHANGED <<basket, stored, held, hand, cartHistory>> BY DEF ReleaseParked
<1>2. PICK heard \in BOOLEAN :
        parked' = [parked EXCEPT ![k].st = "PARKED", ![k].by = "none",
                                 ![k].holds = IF heard THEN @ \ {t} ELSE @, ![k].unsure = @ \/ ~heard]
  BY DEF ReleaseParked
<1> DEFINE unsure == p.unsure \/ ~heard
           holds == IF heard THEN p.holds \ {t} ELSE p.holds
           x == [p EXCEPT !.st = "PARKED", !.by = "none", !.holds = holds, !.unsure = unsure]
<1>3. parked' = [parked EXCEPT ![k] = x] BY <1>2, ParkIs DEF IsAPark
<1>4. unsure \/ (~p.unsure /\ heard) OBVIOUS
<1>5. holds \subseteq p.holds /\ (heard => holds = p.holds \ {t}) OBVIOUS
<1> HIDE DEF holds, unsure
<1>6. /\ DOMAIN x = DOMAIN p /\ x.lines = p.lines /\ x.customer = p.customer /\ x.note = p.note /\ x.total = p.total /\ x.plain = p.plain
      /\ x.st = "PARKED" /\ x.by = "none" /\ x.holds = holds /\ x.unsure = unsure
  BY <1>0 DEF IsHeldPark, IsAPark
<1> HIDE DEF x
<1>7. x.unsure \/ holds = {}
  <2>1. CASE unsure BY <1>6, <2>1
  <2>2. CASE ~p.unsure /\ heard BY <1>0, <1>1, <1>5, <2>2 DEF LockHeld
  <2> QED BY <1>4, <2>1, <2>2
<1>8. LockHeld(x) BY <1>0, <1>5, <1>6, <1>7 DEF LockHeld
<1>9. IsHeldPark(x) BY <1>0, <1>6, <1>8, LockMoves
<1> QED BY <1>1, <1>3, <1>9, ParkFrame

LEMMA ParkingKeeps == ASSUME CartInv, Parking PROVE CartInv'
<1>1. ASSUME NEW h \in Hands, NEW k \in Parks, ReplaceByParked(h, k) PROVE CartInv'
  <2>1. /\ hand[h].at = "idle" /\ basket' = FromParked(k) /\ Then(h, "persisting")
        /\ UNCHANGED <<stored, held, parked, cartHistory>>
    BY <1>1 DEF ReplaceByParked, Begins, Doing
  <2>4. Current(basket') BY <2>1, FromParkedIs
  <2>5. HandShape' /\ hand'[h].at = "persisting" /\ \A g \in Hands : g # h => hand'[g] = hand[g]
    BY <2>1, ThenIs DEF CartInv
  <2>6. Light(hand[h]) /\ Light(hand'[h]) BY <2>1, <2>5 DEF Light
  <2>7. Current(stored') /\ StillExcused BY <2>1, BasketIs DEF StillExcused
  <2> QED BY <2>1, <2>4, <2>5, <2>6, <2>7, BasketFrame
<1>2. ASSUME NEW k \in Parks, VoidParked(k) PROVE CartInv'
  <2> DEFINE p == parked[k]
             x == [p EXCEPT !.st = "VOIDED"]
  <2>0. IsHeldPark(p) /\ LockHeld(p) BY ParkIs
  <2>1. parked' = [parked EXCEPT ![k] = x] /\ UNCHANGED <<basket, stored, held, hand, cartHistory>>
    BY <1>2 DEF VoidParked
  <2>2. /\ DOMAIN x = DOMAIN p /\ x.lines = p.lines /\ x.customer = p.customer /\ x.note = p.note /\ x.total = p.total /\ x.plain = p.plain
        /\ x.st = "VOIDED" /\ x.by = p.by /\ x.holds = p.holds /\ x.unsure = p.unsure
    BY <2>0 DEF IsHeldPark, IsAPark
  <2> HIDE DEF x
  <2>3. LockHeld(x) BY <2>0, <2>2 DEF LockHeld
  <2>4. IsHeldPark(x) BY <2>0, <2>2, <2>3, LockMoves
  <2> QED BY <2>1, <2>4, ParkFrame
<1>3. ASSUME NEW h \in Hands, NEW k \in Parks, ParkCart(h, k) PROVE CartInv' BY <1>3, ParkCartKeeps
<1>4. ASSUME NEW t \in Tills, NEW k \in Parks, NEW force \in BOOLEAN, RecallParked(t, k, force) PROVE CartInv'
  BY <1>4, RecallParkedKeeps
<1>5. ASSUME NEW t \in Tills, NEW k \in Parks, ReleaseParked(t, k) PROVE CartInv' BY <1>5, ReleaseParkedKeeps
<1> QED BY <1>1, <1>2, <1>3, <1>4, <1>5 DEF Parking

-----------------------------------------------------------------------------
LEMMA CartInitHolds == CartInit => CartInv
<1> SUFFICES ASSUME CartInit PROVE CartInv OBVIOUS
<1>1. /\ basket = EmptyCart /\ stored = NoCart /\ held = [d \in Drafts |-> NoDraft]
      /\ parked = [k \in Parks |-> NoPark] /\ hand = [h \in Hands |-> Resting] /\ cartHistory = {}
  BY DEF CartInit
<1>2. IsADraft(NoDraft) /\ NoDraft.st = "none" /\ NoDraft.given = 0 /\ NoDraft.told = FALSE BY EmptyIs DEF IsADraft, NoDraft
<1>3. IsAHand(Resting) /\ Resting.at = "idle" BY EmptyIs DEF Resting, IsAHand
<1>4. IsHeldPark(NoPark)
  <2>1. /\ DOMAIN NoPark = {"st", "by", "lines", "customer", "note", "total", "plain", "holds", "unsure"}
        /\ NoPark.lines = EmptyCart.lines /\ NoPark.by = "none" /\ NoPark.holds = {} /\ NoPark.plain = FALSE
    BY DEF NoPark
  <2>2. IsAPark(NoPark) BY <2>1, EmptyIs DEF IsAPark, IsACart, IsALine
  <2>3. LockHeld(NoPark) BY <2>1 DEF LockHeld
  <2>4. ParkPriced(NoPark) BY <2>1 DEF ParkPriced
  <2> QED BY <2>2, <2>3, <2>4 DEF IsHeldPark
<1>5. CartsCurrent BY <1>1, EmptyIs DEF CartsCurrent
<1>6. HeldShape BY <1>1, <1>2 DEF HeldShape
<1>7. HandShape BY <1>1, <1>3 DEF HandShape
<1>8. \A h \in Hands : hand[h].at = "idle" BY <1>1, <1>3
<1>9. \A d \in Drafts : held[d] = NoDraft BY <1>1
<1>10. HandsKnowTheirs BY <1>8 DEF HandsKnowTheirs
<1>11. HeldPriced BY <1>2, <1>9 DEF HeldPriced
<1>12. SavesAlone
  <2>1. Live = {} BY <1>2, <1>9 DEF Live
  <2>2. IsFiniteSet({}) /\ Cardinality({}) = 0 BY FS_EmptySet
  <2> QED BY <1>8, <2>1, <2>2, CartAssumption DEF SavesAlone
<1>13. TakenOnce BY <1>2, <1>8, <1>9 DEF TakenOnce, Taking
<1>14. HeldCartKept BY <1>2, <1>9 DEF HeldCartKept
<1>15. ParksHeld
  <2>1. \A k \in Parks : parked[k] = NoPark BY <1>1
  <2>2. IsAPark(NoPark) /\ LockHeld(NoPark) /\ ParkPriced(NoPark) BY <1>4 DEF IsHeldPark
  <2>3. parked = [k \in Parks |-> parked[k]] BY <1>1
  <2> QED BY <2>1, <2>2, <2>3 DEF ParksHeld
<1> QED BY <1>5, <1>6, <1>7, <1>10, <1>11, <1>12, <1>13, <1>14, <1>15 DEF CartInv

LEMMA RingsUpKeeps == ASSUME CartInv, NEW h \in Hands, RingsUp(h) PROVE CartInv'
<1>0. \A p \in Products : basket.lines[p].qty \in Nat BY BasketIs DEF IsALine
<1>1. ASSUME NEW p \in Products, NEW q \in Nat, AddItem(h, p, q) PROVE CartInv' BY <1>1, LineKeeps
<1>2. ASSUME NEW p \in Products, NEW q \in Nat, UpdateQuantity(h, p, q) PROVE CartInv' BY <1>2, UpdateQuantityKeeps
<1>3. ASSUME NEW p \in Products, Increment(h, p) \/ Decrement(h, p) PROVE CartInv'
  <2>1. CASE Increment(h, p)
    <3>1. basket.lines[p].qty + 1 \in Nat BY <1>0
    <3> QED BY <1>2, <2>1, <3>1 DEF Increment
  <2>2. CASE Decrement(h, p)
    <3>1. basket.lines[p].qty - 1 \in Nat BY <1>0, <2>2 DEF Decrement, Has
    <3> QED BY <1>2, <2>2, <3>1 DEF Decrement
  <2> QED BY <1>3, <2>1, <2>2
<1>4. ASSUME NEW p \in Products, RemoveItem(h, p) PROVE CartInv'
  <2>1. 0 \in Nat OBVIOUS
  <2> QED BY <1>4, <2>1, LineKeeps
<1>5. ASSUME NEW p \in Products, SetItemNote(h, p) PROVE CartInv' BY <1>5, SetItemNoteKeeps
<1>6. ASSUME NEW p \in Products, NEW pct, NEW amt, DiscountItem(h, p, pct, amt) PROVE CartInv'
  <2>1. 0 \in Nat OBVIOUS
  <2> QED BY <1>6, <2>1, LineKeeps
<1>7. ASSUME NEW pct, NEW amt, DiscountCart(h, pct, amt) PROVE CartInv' BY <1>7, DiscountCartKeeps
<1>8. \A q \in 1..MaxQuantity : q \in Nat /\ q - 1 \in Nat BY CartAssumption
<1> QED BY <1>1, <1>2, <1>3, <1>4, <1>5, <1>6, <1>7, <1>8 DEF RingsUp

LEMMA HoldsKeeps == ASSUME CartInv, NEW h \in Hands, Holds(h) PROVE CartInv'
<1>1. CASE SaveCart(h) BY <1>1, SaveCartKeeps
<1>2. CASE DeleteRecalled(h) BY <1>2, DeleteRecalledKeeps
<1>3. CASE ReplaceCart(h) BY <1>3, ReplaceCartKeeps
<1>4. CASE SaveRenamed(h) BY <1>4, SaveRenamedKeeps
<1>5. CASE CleanupExpired(h) BY <1>5, DeleteKeeps
<1>6. ASSUME NEW d \in Drafts, SaveDraft(h, d) PROVE CartInv' BY <1>6, SaveDraftKeeps
<1>7. ASSUME NEW d \in Drafts, Recall(h, d) PROVE CartInv' BY <1>7, RecallKeeps
<1>8. ASSUME NEW d \in Drafts, Rename(h, d) PROVE CartInv' BY <1>8, RenameKeeps
<1>9. ASSUME NEW d \in Drafts, DeleteDraft(h, d) PROVE CartInv' BY <1>9, DeleteKeeps
<1> QED BY <1>1, <1>2, <1>3, <1>4, <1>5, <1>6, <1>7, <1>8, <1>9 DEF Holds

LEMMA CartStepKeeps == CartInv /\ [CartNext]_cartVars => CartInv'
<1> SUFFICES ASSUME CartInv, [CartNext]_cartVars PROVE CartInv' OBVIOUS
<1>1. ASSUME NEW h \in Hands, RingsUp(h) PROVE CartInv' BY <1>1, RingsUpKeeps
<1>2. ASSUME NEW h \in Hands, Attends(h) PROVE CartInv' BY <1>2, AttendsKeeps
<1>3. ASSUME NEW h \in Hands, Empties(h) PROVE CartInv' BY <1>3, EmptiesKeeps
<1>4. ASSUME NEW h \in Hands, Persist(h) \/ NotWritten(h) PROVE CartInv' BY <1>4, PersistKeeps, NotWrittenKeeps
<1>5. ASSUME NEW h \in Hands, Holds(h) PROVE CartInv' BY <1>5, HoldsKeeps
<1>6. CASE Restarts BY <1>6, RestartsKeeps
<1>7. CASE Parking BY <1>7, ParkingKeeps
<1>8. CASE \E d \in Drafts : Expires(d) BY <1>8, DeleteKeeps
<1>9. CASE UNCHANGED cartVars
  <2>1. UNCHANGED <<basket, stored, held, parked, hand, cartHistory>> BY <1>9 DEF cartVars
  <2>2. Current(basket') /\ Current(stored') /\ HandShape' /\ StillExcused
    BY <2>1, BasketIs DEF HandShape, StillExcused
  <2> QED BY <2>1, <2>2, BasketFrame
<1> QED BY <1>1, <1>2, <1>3, <1>4, <1>5, <1>6, <1>7, <1>8, <1>9 DEF CartNext

LEMMA CartInvImplies == CartInv => CartsPutAside
<1> SUFFICES ASSUME CartInv PROVE CartsPutAside OBVIOUS
<1>1. HeldOnce
  <2> SUFFICES ASSUME NEW d \in Drafts
               PROVE  /\ held[d].given > 0 /\ cartHistory \cap {"renamed-back", "two-recalls"} = {} => ~InTable(d)
                      /\ held[d].given > 1 => cartHistory \cap {"renamed-back", "two-recalls"} # {}
    BY DEF HeldOnce
  <2>1. held[d].given \in Nat BY DEF CartInv, HeldShape, IsADraft
  <2>2. cartHistory \cap {"renamed-back", "two-recalls"} = {} => held[d].given <= 1 /\ (held[d].given = 1 => held[d].st = "gone")
    BY DEF CartInv, TakenOnce
  <2> QED BY <2>1, <2>2 DEF InTable
<1>2. DraftLimitHolds BY DEF CartInv, SavesAlone, DraftLimitHolds
<1>3. TotalSurvives
  <2>1. ASSUME NEW d \in Drafts, held[d].st # "none" PROVE FromRow(held[d].row).sums.grand = held[d].total
    <3>1. IsACart(held[d].row) /\ SumsOf(held[d].row).grand = held[d].total
      BY <2>1 DEF CartInv, HeldShape, IsADraft, HeldPriced
    <3>2. FromRow(held[d].row).sums = SumsOf(held[d].row) BY <3>1, RecalculatedIs DEF FromRow
    <3> QED BY <3>1, <3>2
  <2>2. \A k \in Parks : parked[k].plain => FromParked(k).sums.grand = parked[k].total
    BY FromParkedIs DEF CartInv, ParksHeld, ParkPriced
  <2> QED BY <2>1, <2>2 DEF TotalSurvives
<1>4. OneTillHolds
  <2> SUFFICES ASSUME NEW k \in Parks PROVE Cardinality(parked[k].holds) <= 1 \/ parked[k].unsure
    BY DEF OneTillHolds
  <2>1. parked[k].unsure \/ parked[k].holds \subseteq {parked[k].by} BY ParkIs DEF LockHeld
  <2>2. CASE parked[k].holds \subseteq {parked[k].by}
    <3> DEFINE one == {parked[k].by}
    <3>1. IsFiniteSet(one) /\ Cardinality(one) = 1 BY FS_Singleton
    <3> HIDE DEF one
    <3>2. parked[k].holds \subseteq one BY <2>2 DEF one
    <3>3. Cardinality(parked[k].holds) <= Cardinality(one) BY <3>1, <3>2, FS_Subset
    <3> QED BY <3>1, <3>3
  <2> QED BY <2>1, <2>2
<1> QED BY <1>1, <1>2, <1>3, <1>4 DEF CartInv, CartsPutAside

\* A cart held on the till is in its table, under way or given back, unless it
\* was deleted, cleaned up or lost with a till that died under the recall; it is
\* given back once, unless two recalls read the row or a rename wrote it back;
\* the limit holds, unless two saves counted together or a rename wrote a draft
\* back.  It comes back at its price; a parked one does where it has no discount
\* of its own, no price including tax, no line at the platform's figures already
\* and no amount off a line that the platform reads otherwise.  Two tills have a
\* parked cart only after a recall by force or a release nobody heard answered
\* (DraftService, SharedDraftService): for every number of hands, products, held
\* and parked carts.
THEOREM CartsPutAsideAlways == CartSpec => []CartsPutAside
<1>1. CartInit => CartInv BY CartInitHolds
<1>2. CartInv /\ [CartNext]_cartVars => CartInv' BY CartStepKeeps
<1>3. CartInv => CartsPutAside BY CartInvImplies
<1> QED BY <1>1, <1>2, <1>3, PTL DEF CartSpec

-----------------------------------------------------------------------------
(* What a crash costs.                                                     *)

Quiet == \A h \in Hands : hand[h].at \notin {"persisting", "deleting"}
Matches == IF HasLines(basket) THEN stored = basket ELSE ~HasLines(stored)
\* With nothing left to persist or to delete the disk has the cart.
OnDisk == Quiet /\ cartHistory \cap Lapses = {} => Matches

LEMMA BusyKeeps == ASSUME NEW h \in Hands, hand'[h].at \in {"persisting", "deleting"} PROVE OnDisk'
BY DEF OnDisk, Quiet

LEMMA UntouchedKeeps ==
  ASSUME OnDisk, UNCHANGED <<basket, stored>>, cartHistory \subseteq cartHistory',
         \A h \in Hands : hand[h].at \in {"persisting", "deleting"} => hand'[h] = hand[h]
  PROVE  OnDisk'
BY DEF OnDisk, Quiet, Matches

LEMMA ChangesCostsOne == ASSUME CartInv, NEW h \in Hands, NEW c, Changes(h, c) PROVE OnDisk'
<1>1. hand'[h].at = "persisting" BY ThenIs DEF CartInv, Changes
<1> QED BY <1>1, BusyKeeps

LEMMA RingsUpCosts == ASSUME CartInv, OnDisk, NEW h \in Hands, RingsUp(h) \/ Attends(h) PROVE OnDisk'
<1>1. CASE \E c : Changes(h, c) BY <1>1, ChangesCostsOne
<1>2. CASE \E p \in Products : SetItemNote(h, p)
  <2>1. "note" \in cartHistory' BY <1>2 DEF SetItemNote, Excused
  <2> QED BY <2>1 DEF OnDisk, Lapses
<1>3. RingsUp(h) => (\E c : Changes(h, c)) \/ \E p \in Products : SetItemNote(h, p)
  BY DEF RingsUp, AddItem, UpdateQuantity, Increment, Decrement, RemoveItem, DiscountItem, DiscountCart
<1>4. Attends(h) => \E c : Changes(h, c) BY DEF Attends, SetCustomer, SetCartNote, Clear
<1> QED BY <1>1, <1>2, <1>3, <1>4

LEMMA EmptiesCosts == ASSUME CartInv, OnDisk, NEW h \in Hands, Empties(h) PROVE OnDisk'
<1>1. CASE ClearAll(h)
  <2>1. hand'[h].at = "deleting" BY <1>1, ThenIs DEF CartInv, ClearAll
  <2> QED BY <2>1, BusyKeeps
<1>2. CASE ClearActiveCart(h)
  <2>1. stored' = NoCart /\ basket' = basket /\ (HasLines(basket) => "deleted-under-a-change" \in cartHistory')
    BY <1>2 DEF ClearActiveCart, Excused
  <2> QED BY <2>1, EmptyIs DEF OnDisk, Matches, Lapses
<1> QED BY <1>1, <1>2 DEF Empties

LEMMA HoldsCosts == ASSUME CartInv, OnDisk, NEW h \in Hands, Holds(h) PROVE OnDisk'
<1>0. hand = [g \in Hands |-> hand[g]] BY DEF CartInv, HandShape
<1>1. CASE ReplaceCart(h)
  <2>1. hand' = [hand EXCEPT ![h] = [Resting EXCEPT !.at = "persisting"]] BY <1>1 DEF ReplaceCart
  <2>2. [Resting EXCEPT !.at = "persisting"].at = "persisting" BY DEF Resting
  <2>3. hand'[h].at = "persisting" BY <1>0, <2>1, <2>2
  <2> QED BY <2>3, BusyKeeps
<1>2. ASSUME NEW x, hand' = [hand EXCEPT ![h] = x], hand[h].at \notin {"persisting", "deleting"},
             UNCHANGED <<basket, stored>>, cartHistory \subseteq cartHistory'
      PROVE  OnDisk'
  <2>1. \A g \in Hands : hand[g].at \in {"persisting", "deleting"} => hand'[g] = hand[g] BY <1>0, <1>2
  <2> QED BY <1>2, <2>1, UntouchedKeeps
<1>3. CASE SaveCart(h) BY <1>2, <1>3 DEF SaveCart, Begins, Doing, Excused
<1>4. CASE DeleteRecalled(h) BY <1>2, <1>4 DEF DeleteRecalled, Doing, Then
<1>5. CASE SaveRenamed(h) BY <1>2, <1>5 DEF SaveRenamed, Doing, Rests, Excused
<1>6. CASE CleanupExpired(h) BY <1>6, UntouchedKeeps DEF CleanupExpired
<1>7. ASSUME NEW d \in Drafts, SaveDraft(h, d) PROVE OnDisk' BY <1>2, <1>7 DEF SaveDraft, Doing, Rests
<1>8. ASSUME NEW d \in Drafts, Recall(h, d) PROVE OnDisk' BY <1>2, <1>8 DEF Recall, Begins, Doing, Excused
<1>9. ASSUME NEW d \in Drafts, Rename(h, d) PROVE OnDisk' BY <1>2, <1>9 DEF Rename, Begins, Doing
<1>10. ASSUME NEW d \in Drafts, DeleteDraft(h, d) PROVE OnDisk' BY <1>10, UntouchedKeeps DEF DeleteDraft
<1> QED BY <1>1, <1>3, <1>4, <1>5, <1>6, <1>7, <1>8, <1>9, <1>10 DEF Holds

LEMMA ParkingCosts == ASSUME CartInv, OnDisk, Parking PROVE OnDisk'
<1>1. ASSUME NEW h \in Hands, NEW k \in Parks, ReplaceByParked(h, k) PROVE OnDisk'
  <2>1. hand'[h].at = "persisting" BY <1>1, ThenIs DEF CartInv, ReplaceByParked
  <2> QED BY <2>1, BusyKeeps
<1>2. CASE UNCHANGED <<basket, stored, hand, cartHistory>> BY <1>2, UntouchedKeeps
<1> QED BY <1>1, <1>2 DEF Parking, ParkCart, RecallParked, ReleaseParked, VoidParked

LEMMA OnDiskStep == CartInv /\ OnDisk /\ [CartNext]_cartVars => OnDisk'
<1> SUFFICES ASSUME CartInv, OnDisk, [CartNext]_cartVars PROVE OnDisk' OBVIOUS
<1>1. ASSUME NEW h \in Hands, RingsUp(h) \/ Attends(h) PROVE OnDisk' BY <1>1, RingsUpCosts
<1>2. ASSUME NEW h \in Hands, Empties(h) PROVE OnDisk' BY <1>2, EmptiesCosts
<1>3. ASSUME NEW h \in Hands, Persist(h) PROVE OnDisk' BY <1>3 DEF Persist, OnDisk, Matches
<1>4. ASSUME NEW h \in Hands, Holds(h) PROVE OnDisk' BY <1>4, HoldsCosts
<1>5. CASE Restarts
  <2>1. PICK read \in BOOLEAN :
          /\ basket' = IF HasLines(stored) /\ read THEN stored ELSE EmptyCart
          /\ cartHistory' = (cartHistory \ Lapses) \cup IF HasLines(stored) /\ ~read THEN {"not-read"} ELSE {}
    BY <1>5 DEF Restarts
  <2>2. stored' = stored BY <1>5 DEF Restarts
  <2>3. CASE HasLines(stored) /\ ~read
    <3>1. "not-read" \in cartHistory' BY <2>1, <2>3
    <3> QED BY <3>1 DEF OnDisk, Lapses
  <2>4. CASE ~(HasLines(stored) /\ ~read) BY <2>1, <2>2, <2>4, EmptyIs DEF OnDisk, Matches
  <2> QED BY <2>3, <2>4
<1>6. CASE Parking BY <1>6, ParkingCosts
<1>7. CASE \E d \in Drafts : Expires(d) BY <1>7, UntouchedKeeps DEF Expires
<1>8. CASE UNCHANGED cartVars BY <1>8, UntouchedKeeps DEF cartVars
<1>9. ASSUME NEW h \in Hands, NotWritten(h) PROVE OnDisk'
  <2>1. "not-written" \in cartHistory' BY <1>9 DEF NotWritten, Excused
  <2> QED BY <2>1 DEF OnDisk, Lapses
<1> QED BY <1>1, <1>2, <1>3, <1>4, <1>5, <1>6, <1>7, <1>8, <1>9 DEF CartNext

LEMMA OnDiskInit == CartInit => OnDisk
<1>1. CartInit => basket = EmptyCart /\ stored = NoCart BY DEF CartInit
<1> QED BY <1>1, EmptyIs DEF OnDisk, Matches

LEMMA OnDiskShows == OnDisk => CrashCostsTheLast
BY DEF OnDisk, Quiet, Matches, CrashCostsTheLast, Doing, Lapses

-----------------------------------------------------------------------------
(* The counter.                                                            *)

\* What a return gives back is folded over its entries: nothing is said of it.
IsARow(x) ==
  /\ DOMAIN x = {"st", "receipt", "pieces", "paid", "of", "entries"}
  /\ x.receipt \in Nat /\ x.paid \in Nat /\ x.of \in Nat
Call == [at : {"idle", "sending", "found", "refunding"}, sale : Nat, receipt : Nat]
CountShape ==
  /\ till \in [sale : Nat, paid : Nat]
  /\ book = [i \in Sales \cup Returns |-> book[i]] /\ \A i \in Sales \cup Returns : IsARow(book[i])
  /\ teller \in [Tellers -> Call]
  /\ taken \in Seq(Nat) /\ Len(taken) <= MaxSales
  /\ nextReceipt \in Nat \ {0}

\* The transaction at the counter holds what was taken for its sale.
TillIsTaken == till.sale # 0 => till.sale \in DOMAIN taken /\ till.paid = taken[till.sale]

\* A completion under way is of a sale with a row; a return, of a sale.
CallsAreOf ==
  \A t \in Tellers :
    /\ teller[t].at = "sending" => teller[t].sale \in Sales /\ book[teller[t].sale].st # "none"
    /\ teller[t].at = "found" => teller[t].sale \in Sales
    /\ teller[t].at = "refunding" => teller[t].sale \in Returns /\ book[teller[t].sale].st # "none"

Renumbered == [sale |-> 0, why |-> "numbered-anew"] \in strays
Recompleted(s) == [sale |-> s, why |-> "completed-twice"] \in strays
\* A number given is given to one sale: its row, the call that completes it and
\* the receipt handed out name it.
NumbersGiven ==
  /\ \A i \in Returns : book[i].st # "none" => book[i].receipt > MaxReceipts
  /\ \A t \in Tellers : teller[t].at = "sending" => teller[t].receipt < MaxReceipts
  /\ \A h \in receipts : h.sale \in Sales /\ h.no \in Nat /\ h.no < MaxReceipts
  /\ ~Renumbered =>
       /\ \A i \in Sales : book[i].st # "none" => book[i].receipt < nextReceipt
       /\ \A t \in Tellers : teller[t].at = "sending" =>
            /\ teller[t].receipt < nextReceipt
            /\ \A i \in Sales : book[i].st # "none" /\ book[i].receipt = teller[t].receipt => i = teller[t].sale
       /\ \A h \in receipts :
            /\ h.no < nextReceipt
            /\ \A i \in Sales : book[i].st # "none" /\ book[i].receipt = h.no => i = h.sale
  /\ \A t \in Tellers : teller[t].at = "sending" /\ ~Recompleted(teller[t].sale) =>
       book[teller[t].sale].receipt = teller[t].receipt
  /\ \A h \in receipts : ~Recompleted(h.sale) => book[h.sale].st # "none" /\ book[h.sale].receipt = h.no

CountInv == CountShape /\ TillIsTaken /\ CallsAreOf /\ NumbersGiven /\ MoneyIsAccounted /\ ReturnsAreOfSales

-----------------------------------------------------------------------------
LEMMA CountInitHolds == CheckoutInit => CountInv
<1> SUFFICES ASSUME CheckoutInit PROVE CountInv OBVIOUS
<1>1. NoSale \in [sale : Nat, paid : Nat] /\ NoSale.sale = 0 BY DEF NoSale
<1>2. IsARow(NoRow) /\ NoRow.st = "none" BY DEF IsARow, NoRow
<1>3. Away \in Call /\ Away.at = "idle" BY DEF Away, Call
<1>4. \A i \in Sales \cup Returns : book[i] = NoRow BY DEF CheckoutInit
<1>5. \A t \in Tellers : teller[t] = Away BY DEF CheckoutInit
<1>6. taken = <<>> /\ DOMAIN taken = {} /\ Len(taken) = 0 /\ taken \in Seq(Nat) BY EmptySeq DEF CheckoutInit
<1>7. CountShape BY <1>1, <1>2, <1>3, <1>4, <1>6, CheckoutAssumption DEF CountShape, CheckoutInit
<1>8. TillIsTaken /\ CallsAreOf BY <1>1, <1>3, <1>5 DEF CheckoutInit, TillIsTaken, CallsAreOf
<1>9. NumbersGiven BY <1>2, <1>3, <1>4, <1>5 DEF CheckoutInit, NumbersGiven
<1>10. MoneyIsAccounted /\ ReturnsAreOfSales BY <1>2, <1>4, <1>6 DEF MoneyIsAccounted, ReturnsAreOfSales
<1> QED BY <1>7, <1>8, <1>9, <1>10 DEF CountInv

-----------------------------------------------------------------------------
(* What a step that leaves something alone keeps.                          *)

LEMMA CallsOfFrame ==
  ASSUME CallsAreOf, \A i \in Sales \cup Returns : book[i].st # "none" => book'[i].st # "none",
         \A t \in Tellers : teller'[t].at \in {"sending", "found", "refunding"} => teller'[t] = teller[t]
  PROVE  CallsAreOf'
BY DEF CallsAreOf

LEMMA NumbersFrame ==
  ASSUME NumbersGiven, nextReceipt \in Nat, nextReceipt' \in Nat,
         nextReceipt <= nextReceipt' \/ Renumbered', strays \subseteq strays',
         CountShape, CallsAreOf, book' = [i \in Sales \cup Returns |-> book'[i]],
         \A i \in Sales : book'[i].receipt = book[i].receipt /\ (book'[i].st # "none" <=> book[i].st # "none"),
         \A i \in Returns : \/ book'[i].receipt > MaxReceipts
                           \/ (book'[i].receipt = book[i].receipt /\ (book'[i].st # "none" <=> book[i].st # "none")),
         \A h \in receipts' : \/ h \in receipts
                             \/ (\E t \in Tellers : teller[t].at = "sending" /\ h = [sale |-> teller[t].sale, no |-> teller[t].receipt]),
         \A t \in Tellers : teller'[t].at = "sending" => teller'[t] = teller[t]
  PROVE  NumbersGiven'
<1>1. (~Renumbered' => ~Renumbered) /\ \A s : ~Recompleted(s)' => ~Recompleted(s)
  BY DEF Renumbered, Recompleted
<1>2. (\A i \in Returns : book[i].st # "none" => book[i].receipt > MaxReceipts)'
  BY DEF NumbersGiven
<1>3. (\A t \in Tellers : teller[t].at = "sending" => teller[t].receipt < MaxReceipts)'
  BY DEF NumbersGiven
<1>4. (\A h \in receipts : h.sale \in Sales /\ h.no \in Nat /\ h.no < MaxReceipts)'
  <2> SUFFICES ASSUME NEW h \in receipts' PROVE h.sale \in Sales /\ h.no \in Nat /\ h.no < MaxReceipts OBVIOUS
  <2>1. CASE h \in receipts BY <2>1 DEF NumbersGiven
  <2>2. CASE \E t \in Tellers : teller[t].at = "sending" /\ h = [sale |-> teller[t].sale, no |-> teller[t].receipt]
    <3>1. PICK t \in Tellers : teller[t].at = "sending" /\ h = [sale |-> teller[t].sale, no |-> teller[t].receipt] BY <2>2
    <3>2. h.sale = teller[t].sale /\ h.no = teller[t].receipt BY <3>1
    <3> QED BY <3>1, <3>2 DEF CallsAreOf, NumbersGiven, CountShape, Call
  <2> QED BY <2>1, <2>2
<1>5. ASSUME ~Renumbered'
      PROVE  /\ \A i \in Sales : book'[i].st # "none" => book'[i].receipt < nextReceipt'
             /\ \A t \in Tellers : teller'[t].at = "sending" =>
                  /\ teller'[t].receipt < nextReceipt'
                  /\ \A i \in Sales : book'[i].st # "none" /\ book'[i].receipt = teller'[t].receipt => i = teller'[t].sale
             /\ \A h \in receipts' :
                  /\ h.no < nextReceipt'
                  /\ \A i \in Sales : book'[i].st # "none" /\ book'[i].receipt = h.no => i = h.sale
  <2>1. ~Renumbered /\ nextReceipt <= nextReceipt' BY <1>1, <1>5
  <2>2. \A i \in Sales : book'[i].st # "none" => book'[i].receipt < nextReceipt'
    <3>1. \A i \in Sales : book[i].receipt \in Nat BY DEF CountShape, IsARow
    <3>2. \A i \in Sales : book[i].st # "none" => book[i].receipt < nextReceipt BY <2>1 DEF NumbersGiven
    <3> QED BY <2>1, <3>1, <3>2
  <2>3. ASSUME NEW t \in Tellers, teller'[t].at = "sending"
        PROVE  /\ teller'[t].receipt < nextReceipt'
               /\ \A i \in Sales : book'[i].st # "none" /\ book'[i].receipt = teller'[t].receipt => i = teller'[t].sale
    <3>1. teller'[t] = teller[t] /\ teller[t].receipt \in Nat BY <2>3 DEF CountShape, Call
    <3>2. teller[t].receipt < nextReceipt BY <2>1, <2>3, <3>1 DEF NumbersGiven
    <3> QED BY <2>1, <2>3, <3>1, <3>2 DEF NumbersGiven
  <2>4. ASSUME NEW h \in receipts'
        PROVE  /\ h.no < nextReceipt'
               /\ \A i \in Sales : book'[i].st # "none" /\ book'[i].receipt = h.no => i = h.sale
    <3>1. CASE h \in receipts
      <4>1. h \in receipts /\ h.no \in Nat /\ h.no < nextReceipt BY <2>1, <3>1 DEF NumbersGiven
      <4> QED BY <2>1, <4>1 DEF NumbersGiven
    <3>2. CASE \E t \in Tellers : teller[t].at = "sending" /\ h = [sale |-> teller[t].sale, no |-> teller[t].receipt]
      <4>1. PICK t \in Tellers : teller[t].at = "sending" /\ h = [sale |-> teller[t].sale, no |-> teller[t].receipt] BY <3>2
      <4>2. h.sale = teller[t].sale /\ h.no = teller[t].receipt BY <4>1
      <4>3. teller[t].receipt < nextReceipt /\ teller[t].receipt \in Nat BY <2>1, <4>1 DEF NumbersGiven, CountShape, Call
      <4> QED BY <2>1, <4>1, <4>2, <4>3 DEF NumbersGiven
    <3> QED BY <3>1, <3>2
  <2> QED BY <2>2, <2>3, <2>4
<1>6. \A t \in Tellers : teller'[t].at = "sending" /\ [sale |-> teller'[t].sale, why |-> "completed-twice"] \notin strays' =>
        book'[teller'[t].sale].receipt = teller'[t].receipt
  <2> SUFFICES ASSUME NEW t \in Tellers, teller'[t].at = "sending",
                      [sale |-> teller'[t].sale, why |-> "completed-twice"] \notin strays'
               PROVE  book'[teller'[t].sale].receipt = teller'[t].receipt
    OBVIOUS
  <2>1. teller'[t] = teller[t] /\ teller[t].sale \in Sales BY DEF CallsAreOf
  <2>2. ~Recompleted(teller[t].sale) BY <2>1 DEF Recompleted
  <2> QED BY <2>1, <2>2 DEF NumbersGiven
<1>7. \A h \in receipts' : ~Recompleted(h.sale)' => book'[h.sale].st # "none" /\ book'[h.sale].receipt = h.no
  <2> SUFFICES ASSUME NEW h \in receipts', ~Recompleted(h.sale)'
               PROVE  book'[h.sale].st # "none" /\ book'[h.sale].receipt = h.no
    OBVIOUS
  <2>0. ~Recompleted(h.sale) BY <1>1
  <2>1. CASE h \in receipts BY <2>0, <2>1 DEF NumbersGiven
  <2>2. CASE \E t \in Tellers : teller[t].at = "sending" /\ h = [sale |-> teller[t].sale, no |-> teller[t].receipt]
    <3>1. PICK t \in Tellers : teller[t].at = "sending" /\ h = [sale |-> teller[t].sale, no |-> teller[t].receipt] BY <2>2
    <3>2. h.sale = teller[t].sale /\ h.no = teller[t].receipt BY <3>1
    <3> QED BY <2>0, <3>1, <3>2 DEF CallsAreOf, NumbersGiven
  <2> QED BY <2>1, <2>2
<1>8. /\ \A t \in Tellers : (teller[t].at = "sending" /\ ~Recompleted(teller[t].sale) =>
           book[teller[t].sale].receipt = teller[t].receipt)'
  BY <1>6 DEF Recompleted
<1> QED BY <1>2, <1>3, <1>4, <1>5, <1>7, <1>8 DEF NumbersGiven

\* Money leaves the counter for a row that holds it, or strays.
LEMMA MoneyFrame ==
  ASSUME MoneyIsAccounted, CountShape, TillIsTaken, NEW why, why # "completed-twice",
         strays \cup Strays(why) \subseteq strays',
         \A s \in DOMAIN taken' : (s \in DOMAIN taken /\ taken'[s] = taken[s]) \/ taken'[s] = 0,
         \A i \in Sales : book'[i].paid = book[i].paid
  PROVE  MoneyIsAccounted'
<1> SUFFICES ASSUME NEW s \in DOMAIN taken', s \in DOMAIN taken, taken'[s] = taken[s]
             PROVE  \/ taken[s] = 0 \/ till' = [sale |-> s, paid |-> taken[s]] \/ book'[s].paid = taken[s]
                    \/ \E w \in strays' : w.sale = s /\ w.why # "completed-twice"
  BY DEF MoneyIsAccounted
<1>1. s \in Sales /\ s # 0
  BY LenProperties, CheckoutAssumption DEF CountShape, Sales
<1>2. CASE till = [sale |-> s, paid |-> taken[s]]
  <2>1. till.sale = s /\ till.paid = taken[s] BY <1>2
  <2>2. CASE taken[s] = 0 \/ book'[s].paid = taken[s] BY <2>2
  <2>3. CASE taken[s] # 0 /\ book'[s].paid # taken[s]
    <3>1. [sale |-> s, why |-> why] \in strays' BY <1>1, <2>1, <2>3 DEF Strays
    <3> QED BY <3>1
  <2> QED BY <2>2, <2>3
<1>3. CASE till # [sale |-> s, paid |-> taken[s]]
  BY <1>1, <1>3 DEF MoneyIsAccounted
<1> QED BY <1>2, <1>3

LEMMA MoneyStays ==
  ASSUME MoneyIsAccounted, CountShape, UNCHANGED <<till, taken>>, strays \subseteq strays',
         \A i \in Sales : book'[i].paid = book[i].paid
  PROVE  MoneyIsAccounted'
<1>1. \A s \in DOMAIN taken : s \in Sales BY LenProperties, CheckoutAssumption DEF CountShape, Sales
<1> QED BY <1>1 DEF MoneyIsAccounted

\* A row's state moves: its number, its money and its sale do not.
LEMMA MarkedFacts ==
  ASSUME CountShape, NEW b, NEW i \in Sales \cup Returns, NEW st \in {"SYNCED", "FAILED", "gone"},
         b = book \/ (Stored(i) /\ b = [book EXCEPT ![i].st = st])
  PROVE  /\ b = [j \in Sales \cup Returns |-> b[j]]
         /\ \A j \in Sales \cup Returns :
              /\ IsARow(b[j]) /\ b[j].receipt = book[j].receipt /\ b[j].paid = book[j].paid /\ b[j].of = book[j].of
              /\ b[j].st # "none" <=> book[j].st # "none"
<1>1. CASE b = book BY <1>1 DEF CountShape
<1>2. CASE Stored(i) /\ b = [book EXCEPT ![i].st = st]
  <2>1. book = [j \in Sales \cup Returns |-> book[j]] /\ \A j \in Sales \cup Returns : IsARow(book[j]) BY DEF CountShape
  <2>2. b = [j \in Sales \cup Returns |-> IF j = i THEN [book[j] EXCEPT !.st = st] ELSE book[j]] BY <1>2, <2>1
  <2>3. ASSUME NEW j \in Sales \cup Returns
        PROVE  /\ IsARow(b[j]) /\ b[j].receipt = book[j].receipt /\ b[j].paid = book[j].paid /\ b[j].of = book[j].of
               /\ b[j].st # "none" <=> book[j].st # "none"
    <3>1. CASE j # i BY <2>1, <2>2, <3>1
    <3>2. CASE j = i
      <4> DEFINE x == [book[i] EXCEPT !.st = st]
      <4>0. IsARow(book[i]) BY <2>1
      <4>1. /\ IsARow(x) /\ x.receipt = book[i].receipt /\ x.paid = book[i].paid /\ x.of = book[i].of /\ x.st = st
        BY <4>0 DEF IsARow
      <4>2. book[i].st # "none" BY <1>2 DEF Stored
      <4>3. b[j] = x BY <2>2, <3>2
      <4> HIDE DEF x
      <4> QED BY <3>2, <4>1, <4>2, <4>3
    <3> QED BY <3>1, <3>2
  <2> QED BY <2>2, <2>3
<1> QED BY <1>1, <1>2

-----------------------------------------------------------------------------
LEMMA SalesAndReturns ==
  /\ \A i \in Sales \cup Returns : i \in Nat /\ i # 0
  /\ \A i \in Sales, r \in Returns : i # r
BY CheckoutAssumption DEF Sales, Returns

LEMMA CreateFromCartKeeps == CountInv /\ CreateFromCart => CountInv'
<1> SUFFICES ASSUME CountInv, CreateFromCart PROVE CountInv' OBVIOUS
<1> DEFINE n == Len(taken) + 1
<1>1. /\ Len(taken) < MaxSales /\ taken' = Append(taken, 0) /\ till' = [sale |-> n, paid |-> 0]
      /\ UNCHANGED <<book, nextReceipt, teller, receipts>> /\ strays' = strays \cup Strays("replaced")
  BY DEF CreateFromCart
<1>2. taken \in Seq(Nat) /\ Len(taken) \in Nat /\ DOMAIN taken = 1..Len(taken) /\ MaxSales \in Nat
  BY LenProperties, CheckoutAssumption DEF CountInv, CountShape
<1>3. /\ taken' \in Seq(Nat) /\ Len(taken') = n /\ taken'[n] = 0
      /\ \A s \in 1..Len(taken) : taken'[s] = taken[s]
  BY <1>1, <1>2, AppendProperties
<1>4. DOMAIN taken' = 1..n /\ n \in Nat /\ n <= MaxSales
  <2>1. DOMAIN taken' = 1..Len(taken') BY <1>3, LenProperties
  <2> QED BY <1>1, <1>2, <1>3, <2>1
<1>5. CountShape' BY <1>1, <1>3, <1>4 DEF CountInv, CountShape
<1>6. TillIsTaken' BY <1>1, <1>2, <1>3, <1>4 DEF TillIsTaken
<1>7. CallsAreOf' BY <1>1, CallsOfFrame DEF CountInv
<1>8. NumbersGiven'
  <2>1. nextReceipt \in Nat /\ nextReceipt' \in Nat /\ nextReceipt <= nextReceipt' /\ strays \subseteq strays'
    BY <1>1 DEF CountInv, CountShape
  <2> QED BY <1>1, <1>5, <2>1, NumbersFrame DEF CountInv, CountShape
<1>9. MoneyIsAccounted'
  <2>1. \A s \in DOMAIN taken' : (s \in DOMAIN taken /\ taken'[s] = taken[s]) \/ taken'[s] = 0
    BY <1>2, <1>3, <1>4
  <2> QED BY <1>1, <2>1, MoneyFrame DEF CountInv
<1>10. ReturnsAreOfSales' BY <1>1 DEF CountInv, ReturnsAreOfSales
<1> QED BY <1>5, <1>6, <1>7, <1>8, <1>9, <1>10 DEF CountInv

\* What is paid is added to what was taken.
LEMMA AddPaymentKeeps == \A amount \in 1..Sold : CountInv /\ AddPayment(amount) => CountInv'
<1> SUFFICES ASSUME NEW amount \in 1..Sold, CountInv, AddPayment(amount) PROVE CountInv' OBVIOUS
<1> DEFINE n == till.sale
<1>1. /\ n # 0 /\ till' = [till EXCEPT !.paid = @ + amount] /\ taken' = [taken EXCEPT ![n] = @ + amount]
      /\ UNCHANGED <<book, nextReceipt, teller, receipts, strays>>
  BY DEF AddPayment
<1>2. amount \in Nat BY DEF Sold
<1>3. taken \in Seq(Nat) /\ till \in [sale : Nat, paid : Nat] BY DEF CountInv, CountShape
<1>4. n \in DOMAIN taken /\ till.paid = taken[n] /\ taken[n] \in Nat
  BY <1>1, <1>3 DEF CountInv, TillIsTaken
<1>5. till'.sale = n /\ till'.paid = taken[n] + amount /\ till' \in [sale : Nat, paid : Nat]
      /\ till' = [sale |-> n, paid |-> taken[n] + amount]
  BY <1>1, <1>2, <1>3, <1>4
<1>6. DOMAIN taken' = DOMAIN taken /\ taken'[n] = taken[n] + amount /\ \A s \in DOMAIN taken : s # n => taken'[s] = taken[s]
  BY <1>1, <1>4
<1> HIDE DEF n
<1>7. taken' \in Seq(Nat) /\ Len(taken') = Len(taken)
  <2>1. n \in 1..Len(taken) BY <1>3, <1>4, LenProperties
  <2>2. taken[n] + amount \in Nat BY <1>2, <1>4
  <2> QED BY <1>1, <1>3, <2>1, <2>2, ExceptSeq
<1>8. CountShape' BY <1>1, <1>5, <1>7 DEF CountInv, CountShape
<1>9. TillIsTaken' BY <1>4, <1>5, <1>6 DEF TillIsTaken
<1>10. CallsAreOf' BY <1>1, CallsOfFrame DEF CountInv
<1>11. NumbersGiven'
  <2>1. nextReceipt \in Nat /\ nextReceipt' \in Nat /\ nextReceipt <= nextReceipt' /\ strays \subseteq strays'
    BY <1>1 DEF CountInv, CountShape
  <2> QED BY <1>1, <1>8, <2>1, NumbersFrame DEF CountInv, CountShape
<1>12. MoneyIsAccounted'
  <2> SUFFICES ASSUME NEW s \in DOMAIN taken
               PROVE  \/ taken'[s] = 0 \/ till' = [sale |-> s, paid |-> taken'[s]] \/ book[s].paid = taken'[s]
                      \/ \E w \in strays : w.sale = s /\ w.why # "completed-twice"
    BY <1>1, <1>6 DEF MoneyIsAccounted
  <2>1. CASE s = n BY <1>5, <1>6, <2>1
  <2>2. CASE s # n
    <3>1. till # [sale |-> s, paid |-> taken[s]] BY <2>2 DEF n
    <3> QED BY <1>6, <2>2, <3>1 DEF CountInv, MoneyIsAccounted
  <2> QED BY <2>1, <2>2
<1>13. ReturnsAreOfSales' BY <1>1 DEF CountInv, ReturnsAreOfSales
<1> QED BY <1>8, <1>9, <1>10, <1>11, <1>12, <1>13 DEF CountInv

\* The number of a completion is new: only its own row and call bear it.
LEMMA CompleteKeeps == \A t \in Tellers : CountInv /\ Complete(t) => CountInv'
<1> SUFFICES ASSUME NEW t \in Tellers, CountInv, Complete(t) PROVE CountInv' OBVIOUS
<1> DEFINE s == till.sale
           n == nextReceipt
           row == [NoRow EXCEPT !.st = "PENDING", !.receipt = n, !.pieces = Sold, !.paid = till.paid]
           new == [at |-> "sending", sale |-> s, receipt |-> n]
<1>1. /\ teller[t].at = "idle" /\ s # 0 /\ n < MaxReceipts /\ nextReceipt' = n + 1
      /\ UNCHANGED <<till, receipts, taken>>
      /\ \/ /\ book' = [book EXCEPT ![s] = row] /\ teller' = [teller EXCEPT ![t] = new]
            /\ strays \subseteq strays' /\ (book[s].st # "none" => [sale |-> s, why |-> "completed-twice"] \in strays')
         \/ UNCHANGED <<book, teller, strays>>
  BY DEF Complete, Serving, QueueOffline, Recompleted
<1>2. till \in [sale : Nat, paid : Nat] /\ n \in Nat /\ n # 0 /\ MaxReceipts \in Nat
  BY CheckoutAssumption DEF CountInv, CountShape
<1>3. s \in Sales /\ s \in DOMAIN taken /\ till.paid = taken[s]
  <2>1. s \in DOMAIN taken /\ till.paid = taken[s] BY <1>1 DEF CountInv, TillIsTaken
  <2> QED BY <2>1, LenProperties, CheckoutAssumption DEF CountInv, CountShape, Sales
<1>4. IsARow(row) /\ row.st = "PENDING" /\ row.receipt = n /\ row.paid = till.paid
  <2>1. /\ DOMAIN row = {"st", "receipt", "pieces", "paid", "of", "entries"}
        /\ row.st = "PENDING" /\ row.receipt = n /\ row.paid = till.paid /\ row.of = 0
    BY DEF NoRow
  <2> HIDE DEF row, n
  <2>2. till.paid \in Nat /\ n \in Nat BY <1>2
  <2> QED BY <2>1, <2>2 DEF IsARow
<1>5. new \in Call /\ new.at = "sending" /\ new.sale = s /\ new.receipt = n BY <1>2 DEF Call
<1> HIDE DEF s, n, row, new
<1>a. nextReceipt' \in Nat \ {0} BY <1>1, <1>2
<1>6. TillIsTaken' BY <1>1 DEF CountInv, TillIsTaken
<1>7. CASE UNCHANGED <<book, teller, strays>>
  <2>1. CountShape' BY <1>1, <1>a, <1>7 DEF CountInv, CountShape
  <2>2. CallsAreOf' BY <1>7, CallsOfFrame DEF CountInv
  <2>3. NumbersGiven'
    <3>1. nextReceipt \in Nat /\ nextReceipt' \in Nat /\ nextReceipt <= nextReceipt' BY <1>1, <1>2 DEF n
    <3> QED BY <1>1, <1>7, <2>1, <3>1, NumbersFrame DEF CountInv, CountShape
  <2>4. MoneyIsAccounted' BY <1>1, <1>7 DEF CountInv, MoneyIsAccounted
  <2>5. ReturnsAreOfSales' BY <1>7 DEF CountInv, ReturnsAreOfSales
  <2> QED BY <1>6, <2>1, <2>2, <2>3, <2>4, <2>5 DEF CountInv
<1>8. CASE /\ book' = [book EXCEPT ![s] = row] /\ teller' = [teller EXCEPT ![t] = new]
           /\ strays \subseteq strays' /\ (book[s].st # "none" => [sale |-> s, why |-> "completed-twice"] \in strays')
  <2>1. /\ book' = [i \in Sales \cup Returns |-> book'[i]] /\ book'[s] = row
        /\ \A i \in Sales \cup Returns : i # s => book'[i] = book[i]
    BY <1>3, <1>8 DEF CountInv, CountShape
  <2>2. /\ teller' \in [Tellers -> Call] /\ teller'[t] = new /\ \A u \in Tellers : u # t => teller'[u] = teller[u]
    BY <1>5, <1>8 DEF CountInv, CountShape
  <2>3. CountShape' BY <1>1, <1>a, <1>4, <2>1, <2>2 DEF CountInv, CountShape
  <2>4. \A i \in Sales \cup Returns : book[i].st # "none" => book'[i].st # "none" BY <1>4, <2>1
  <2>5. CallsAreOf' BY <1>3, <1>4, <1>5, <2>1, <2>2, <2>4 DEF CountInv, CallsAreOf
  <2>6. \A i \in Sales, r \in Returns : i # r BY SalesAndReturns
  <2>7. NumbersGiven'
    <3>1. (~Renumbered' => ~Renumbered) /\ \A i : [sale |-> i, why |-> "completed-twice"] \notin strays' => ~Recompleted(i)
      BY <1>8 DEF Renumbered, Recompleted
    <3>2. /\ \A i \in Returns : book'[i].st # "none" => book'[i].receipt > MaxReceipts
      BY <1>3, <2>1, <2>6 DEF CountInv, NumbersGiven
    <3>3. \A u \in Tellers : teller'[u].at = "sending" => teller'[u].receipt < MaxReceipts
      BY <1>1, <1>5, <2>2 DEF CountInv, NumbersGiven
    <3>4. ASSUME ~Renumbered'
          PROVE  /\ \A i \in Sales : book'[i].st # "none" => book'[i].receipt < nextReceipt'
                 /\ \A u \in Tellers : teller'[u].at = "sending" =>
                      /\ teller'[u].receipt < nextReceipt'
                      /\ \A i \in Sales : book'[i].st # "none" /\ book'[i].receipt = teller'[u].receipt => i = teller'[u].sale
                 /\ \A h \in receipts' :
                      /\ h.no < nextReceipt'
                      /\ \A i \in Sales : book'[i].st # "none" /\ book'[i].receipt = h.no => i = h.sale
      <4>1. /\ \A i \in Sales : book[i].st # "none" => book[i].receipt < n
            /\ \A u \in Tellers : teller[u].at = "sending" =>
                 /\ teller[u].receipt < n
                 /\ \A i \in Sales : book[i].st # "none" /\ book[i].receipt = teller[u].receipt => i = teller[u].sale
            /\ \A h \in receipts :
                 /\ h.no < n
                 /\ \A i \in Sales : book[i].st # "none" /\ book[i].receipt = h.no => i = h.sale
        BY <3>1, <3>4 DEF CountInv, NumbersGiven, n
      <4>2. /\ \A i \in Sales : book[i].receipt \in Nat
            /\ \A u \in Tellers : teller[u].receipt \in Nat
            /\ \A h \in receipts : h.no \in Nat
        BY DEF CountInv, CountShape, IsARow, Call, NumbersGiven
      <4>3. \A i \in Sales : book'[i].st # "none" => book'[i].receipt < nextReceipt'
        BY <1>1, <1>2, <1>4, <2>1, <4>1, <4>2
      <4>4. ASSUME NEW u \in Tellers, teller'[u].at = "sending"
            PROVE  /\ teller'[u].receipt < nextReceipt'
                   /\ \A i \in Sales : book'[i].st # "none" /\ book'[i].receipt = teller'[u].receipt => i = teller'[u].sale
        <5>1. CASE u = t
          <6>1. teller'[u].receipt = n /\ teller'[u].sale = s BY <1>5, <2>2, <5>1
          <6>2. \A i \in Sales : i # s => ~(book'[i].st # "none" /\ book'[i].receipt = n)
            BY <1>2, <2>1, <4>1, <4>2
          <6> QED BY <1>1, <1>2, <6>1, <6>2
        <5>2. CASE u # t
          <6>1. teller'[u] = teller[u] /\ teller[u].receipt < n /\ teller[u].receipt \in Nat
            BY <2>2, <4>1, <4>2, <4>4, <5>2
          <6>2. row.receipt # teller[u].receipt BY <1>2, <1>4, <6>1
          <6>3. teller'[u].receipt < nextReceipt' BY <1>1, <1>2, <6>1
          <6> QED BY <2>1, <4>1, <4>4, <6>1, <6>2, <6>3
        <5> QED BY <5>1, <5>2
      <4>5. ASSUME NEW h \in receipts
            PROVE  /\ h.no < nextReceipt'
                   /\ \A i \in Sales : book'[i].st # "none" /\ book'[i].receipt = h.no => i = h.sale
        <5>1. h.no < n /\ h.no \in Nat BY <4>1, <4>2
        <5>2. row.receipt # h.no BY <1>2, <1>4, <5>1
        <5>3. h.no < nextReceipt' BY <1>1, <1>2, <5>1
        <5> QED BY <2>1, <4>1, <5>2, <5>3
      <4> QED BY <1>1, <4>3, <4>4, <4>5
    <3>5. ASSUME NEW u \in Tellers, teller'[u].at = "sending",
                 [sale |-> teller'[u].sale, why |-> "completed-twice"] \notin strays'
          PROVE  book'[teller'[u].sale].receipt = teller'[u].receipt
      <4>1. CASE u = t BY <1>4, <1>5, <2>1, <2>2, <4>1
      <4>2. CASE u # t
        <5>1. teller'[u] = teller[u] /\ teller[u].sale \in Sales /\ book[teller[u].sale].st # "none"
          BY <2>2, <3>5, <4>2 DEF CountInv, CallsAreOf
        <5>2. teller[u].sale # s BY <1>8, <3>5, <5>1 DEF Recompleted
        <5>3. book[teller[u].sale].receipt = teller[u].receipt BY <3>1, <3>5, <5>1 DEF CountInv, NumbersGiven
        <5> QED BY <2>1, <5>1, <5>2, <5>3
      <4> QED BY <4>1, <4>2
    <3>6. \A u \in Tellers : (teller[u].at = "sending" /\ ~Recompleted(teller[u].sale) =>
             book[teller[u].sale].receipt = teller[u].receipt)'
      BY <3>5 DEF Recompleted
    <3>7. ASSUME NEW h \in receipts, ~Recompleted(h.sale)'
          PROVE  book'[h.sale].st # "none" /\ book'[h.sale].receipt = h.no
      <4>1. ~Recompleted(h.sale) /\ h.sale \in Sales BY <1>8, <3>7 DEF Recompleted, CountInv, NumbersGiven
      <4>2. book[h.sale].st # "none" /\ book[h.sale].receipt = h.no BY <4>1 DEF CountInv, NumbersGiven
      <4>3. h.sale # s BY <1>8, <3>7, <4>2 DEF Recompleted
      <4> QED BY <2>1, <4>1, <4>2, <4>3
    <3>8. (\A h \in receipts : h.sale \in Sales /\ h.no \in Nat /\ h.no < MaxReceipts)'
      BY <1>1 DEF CountInv, NumbersGiven
    <3> QED BY <1>1, <3>2, <3>3, <3>4, <3>6, <3>7, <3>8 DEF NumbersGiven
  <2>8. MoneyIsAccounted'
    <3> SUFFICES ASSUME NEW i \in DOMAIN taken
                 PROVE  \/ taken[i] = 0 \/ till = [sale |-> i, paid |-> taken[i]] \/ book'[i].paid = taken[i]
                        \/ \E w \in strays' : w.sale = i /\ w.why # "completed-twice"
      BY <1>1 DEF MoneyIsAccounted
    <3>1. i \in Sales BY LenProperties, CheckoutAssumption DEF CountInv, CountShape, Sales
    <3>2. CASE i = s BY <1>3, <1>4, <2>1, <3>2
    <3>3. CASE i # s BY <1>8, <2>1, <3>1, <3>3 DEF CountInv, MoneyIsAccounted
    <3> QED BY <3>2, <3>3
  <2>9. ReturnsAreOfSales' BY <1>3, <2>1, <2>6 DEF CountInv, ReturnsAreOfSales
  <2> QED BY <1>6, <2>3, <2>5, <2>7, <2>8, <2>9 DEF CountInv
<1> QED BY <1>1, <1>7, <1>8

\* What the end of a completion, of a return and of an upload do to the rows.
LEMMA BookAgesKeeps ==
  ASSUME CountInv, NEW i \in Sales \cup Returns, NEW st \in {"SYNCED", "FAILED", "gone"},
         book' = book \/ (Stored(i) /\ book' = [book EXCEPT ![i].st = st]),
         till' = till \/ till' = NoSale, UNCHANGED taken,
         teller' \in [Tellers -> Call], \A t \in Tellers : teller'[t] = teller[t] \/ teller'[t] = Away,
         nextReceipt' \in Nat \ {0}
  PROVE  /\ CountShape' /\ TillIsTaken' /\ CallsAreOf' /\ ReturnsAreOfSales'
         /\ \A j \in Sales \cup Returns :
              /\ book'[j].receipt = book[j].receipt /\ book'[j].paid = book[j].paid
              /\ book'[j].st # "none" <=> book[j].st # "none"
         /\ book' = [j \in Sales \cup Returns |-> book'[j]]
<1>0. CountShape /\ TillIsTaken /\ CallsAreOf /\ ReturnsAreOfSales BY DEF CountInv
<1>1. /\ book' = [j \in Sales \cup Returns |-> book'[j]]
      /\ \A j \in Sales \cup Returns :
           /\ IsARow(book'[j]) /\ book'[j].receipt = book[j].receipt /\ book'[j].paid = book[j].paid
           /\ book'[j].of = book[j].of
           /\ book'[j].st # "none" <=> book[j].st # "none"
  BY <1>0, MarkedFacts
<1>2. NoSale \in [sale : Nat, paid : Nat] /\ NoSale.sale = 0 BY DEF NoSale
<1>3. till' \in [sale : Nat, paid : Nat] BY <1>0, <1>2 DEF CountShape
<1>4. CountShape' BY <1>0, <1>1, <1>3 DEF CountShape
<1>5. TillIsTaken' BY <1>0, <1>2 DEF TillIsTaken
<1>6. Away.at = "idle" BY DEF Away
<1>7. CallsAreOf'
  <2>1. \A t \in Tellers : teller'[t].at \in {"sending", "found", "refunding"} => teller'[t] = teller[t] BY <1>6
  <2> QED BY <1>0, <1>1, <2>1, CallsOfFrame
<1>8. ReturnsAreOfSales' BY <1>0, <1>1 DEF ReturnsAreOfSales
<1> QED BY <1>1, <1>4, <1>5, <1>7, <1>8

LEMMA SetAway == ASSUME CountShape, NEW t \in Tellers, teller' = [teller EXCEPT ![t] = Away]
  PROVE  /\ teller' \in [Tellers -> Call] /\ \A u \in Tellers : teller'[u] = teller[u] \/ teller'[u] = Away
         /\ \A u \in Tellers : teller'[u].at # "idle" => teller'[u] = teller[u]
<1>1. Away \in Call /\ Away.at = "idle" BY DEF Away, Call
<1> QED BY <1>1 DEF CountShape

\* The receipt handed out is that of the call that ends.
LEMMA CompleteEndsKeeps == \A t \in Tellers : CountInv /\ CompleteEnds(t) => CountInv'
<1> SUFFICES ASSUME NEW t \in Tellers, CountInv, CompleteEnds(t) PROVE CountInv' OBVIOUS
<1> DEFINE i == teller[t].sale
           why == IF till.sale = teller[t].sale THEN "paid-late" ELSE "cleared-by-another"
<1>0. CountShape /\ CallsAreOf /\ NumbersGiven /\ MoneyIsAccounted /\ TillIsTaken BY DEF CountInv
<1>1. /\ teller[t].at = "sending"
      /\ UNCHANGED book \/ Marked(i, "SYNCED") \/ Marked(i, "FAILED")
      /\ receipts' = receipts \cup {[sale |-> teller[t].sale, no |-> teller[t].receipt]}
      /\ till' = NoSale /\ teller' = [teller EXCEPT ![t] = Away]
      /\ strays' = strays \cup Strays(why) /\ UNCHANGED <<nextReceipt, taken>>
  BY DEF CompleteEnds, Serving
<1>2. i \in Sales BY <1>0, <1>1 DEF CallsAreOf
<1>3. PICK st \in {"SYNCED", "FAILED", "gone"} : book' = book \/ (Stored(i) /\ book' = [book EXCEPT ![i].st = st])
  BY <1>1 DEF Marked
<1>4. why # "completed-twice" OBVIOUS
<1> HIDE DEF i, why
<1>5. /\ teller' \in [Tellers -> Call] /\ \A u \in Tellers : teller'[u] = teller[u] \/ teller'[u] = Away
      /\ \A u \in Tellers : teller'[u].at # "idle" => teller'[u] = teller[u]
  BY <1>0, <1>1, SetAway
<1>6. nextReceipt \in Nat /\ nextReceipt' \in Nat \ {0} /\ nextReceipt <= nextReceipt' /\ strays \subseteq strays'
  BY <1>0, <1>1 DEF CountShape
<1>7. /\ CountShape' /\ TillIsTaken' /\ CallsAreOf' /\ ReturnsAreOfSales'
      /\ \A j \in Sales \cup Returns :
           /\ book'[j].receipt = book[j].receipt /\ book'[j].paid = book[j].paid
           /\ book'[j].st # "none" <=> book[j].st # "none"
      /\ book' = [j \in Sales \cup Returns |-> book'[j]]
  BY <1>1, <1>2, <1>3, <1>5, <1>6, BookAgesKeeps
<1>8. NumbersGiven'
  <2>1. \A u \in Tellers : teller'[u].at = "sending" => teller'[u] = teller[u] BY <1>5
  <2>2. \A h \in receipts' : \/ h \in receipts
                             \/ \E u \in Tellers : teller[u].at = "sending" /\ h = [sale |-> teller[u].sale, no |-> teller[u].receipt]
    BY <1>1
  <2> QED BY <1>0, <1>6, <1>7, <2>1, <2>2, NumbersFrame
<1>9. MoneyIsAccounted'
  <2>1. \A s \in DOMAIN taken' : (s \in DOMAIN taken /\ taken'[s] = taken[s]) \/ taken'[s] = 0 BY <1>1
  <2>2. \A j \in Sales : book'[j].paid = book[j].paid BY <1>7
  <2>3. strays \cup Strays(why) \subseteq strays' BY <1>1
  <2> QED BY <1>0, <1>4, <2>1, <2>2, <2>3, MoneyFrame
<1> QED BY <1>7, <1>8, <1>9 DEF CountInv

LEMMA VoidKeeps == CountInv /\ Void => CountInv'
<1> SUFFICES ASSUME CountInv, Void PROVE CountInv' OBVIOUS
<1>0. CountShape /\ CallsAreOf /\ NumbersGiven /\ MoneyIsAccounted /\ TillIsTaken BY DEF CountInv
<1>1. /\ till' = NoSale /\ UNCHANGED <<book, nextReceipt, teller, receipts, taken>>
      /\ strays' = strays \cup Strays("voided")
  BY DEF Void
<1>2. NoSale \in [sale : Nat, paid : Nat] /\ NoSale.sale = 0 BY DEF NoSale
<1>3. CountShape' BY <1>0, <1>1, <1>2 DEF CountShape
<1>4. TillIsTaken' BY <1>1, <1>2 DEF TillIsTaken
<1>5. CallsAreOf' BY <1>0, <1>1, CallsOfFrame
<1>6. NumbersGiven'
  <2>1. nextReceipt \in Nat /\ nextReceipt' \in Nat /\ nextReceipt <= nextReceipt' /\ strays \subseteq strays'
    BY <1>0, <1>1 DEF CountShape
  <2> QED BY <1>0, <1>1, <1>3, <2>1, NumbersFrame DEF CountShape
<1>7. MoneyIsAccounted' BY <1>0, <1>1, MoneyFrame
<1>8. ReturnsAreOfSales' BY <1>1 DEF CountInv, ReturnsAreOfSales
<1> QED BY <1>3, <1>4, <1>5, <1>6, <1>7, <1>8 DEF CountInv

-----------------------------------------------------------------------------
(* Returns, and the rows that age.                                         *)

LEMMA FindTransactionKeeps == \A t \in Tellers, no \in Nat : CountInv /\ FindTransaction(t, no) => CountInv'
<1> SUFFICES ASSUME NEW t \in Tellers, NEW no \in Nat, CountInv, FindTransaction(t, no) PROVE CountInv' OBVIOUS
<1>0. CountShape /\ CallsAreOf /\ NumbersGiven /\ MoneyIsAccounted /\ TillIsTaken BY DEF CountInv
<1>1. /\ teller[t].at = "idle" /\ UNCHANGED <<till, book, nextReceipt, receipts, taken, strays>>
      /\ \E i \in Sales : teller' = [teller EXCEPT ![t] = [at |-> "found", sale |-> i, receipt |-> 0]]
  BY DEF FindTransaction, Serving, CanReturn
<1>2. PICK i \in Sales : teller' = [teller EXCEPT ![t] = [at |-> "found", sale |-> i, receipt |-> 0]] BY <1>1
<1> DEFINE new == [at |-> "found", sale |-> i, receipt |-> 0]
<1>4. new \in Call /\ new.at = "found" /\ new.sale = i BY SalesAndReturns DEF Call
<1>5. teller' = [teller EXCEPT ![t] = new] BY <1>2
<1> HIDE DEF new
<1>6. teller' \in [Tellers -> Call] /\ teller'[t] = new /\ \A u \in Tellers : u # t => teller'[u] = teller[u]
  BY <1>0, <1>4, <1>5 DEF CountShape
<1>7. CountShape' BY <1>0, <1>1, <1>6 DEF CountShape
<1>8. CallsAreOf' BY <1>0, <1>1, <1>4, <1>6 DEF CallsAreOf
<1>9. NumbersGiven'
  <2>1. nextReceipt \in Nat /\ nextReceipt' \in Nat /\ nextReceipt <= nextReceipt' BY <1>0, <1>1 DEF CountShape
  <2>2. \A u \in Tellers : teller'[u].at = "sending" => teller'[u] = teller[u] BY <1>4, <1>6
  <2> QED BY <1>0, <1>1, <1>7, <2>1, <2>2, NumbersFrame DEF CountShape
<1> QED BY <1>0, <1>1, <1>7, <1>8, <1>9 DEF CountInv, TillIsTaken, MoneyIsAccounted, ReturnsAreOfSales

LEMMA ReturnEndsKeeps == \A t \in Tellers : CountInv /\ (ReturnRefused(t) \/ SyncReturn(t)) => CountInv'
<1> SUFFICES ASSUME NEW t \in Tellers, CountInv, ReturnRefused(t) \/ SyncReturn(t) PROVE CountInv' OBVIOUS
<1>0. CountShape /\ CallsAreOf /\ NumbersGiven /\ MoneyIsAccounted /\ TillIsTaken BY DEF CountInv
<1>1. teller' = [teller EXCEPT ![t] = Away] /\ UNCHANGED <<till, nextReceipt, receipts, taken, strays>>
  BY DEF ReturnRefused, SyncReturn
<1>2. PICK i \in Sales \cup Returns, st \in {"SYNCED", "FAILED", "gone"} :
        book' = book \/ (Stored(i) /\ book' = [book EXCEPT ![i].st = st])
  <2>1. CASE ReturnRefused(t)
    <3>1. Sales \cup Returns # {} BY <1>0, <2>1 DEF ReturnRefused, Serving, CallsAreOf
    <3> QED BY <2>1, <3>1 DEF ReturnRefused
  <2>2. CASE SyncReturn(t)
    <3>1. teller[t].sale \in Returns BY <1>0, <2>2 DEF SyncReturn, Serving, CallsAreOf
    <3> QED BY <2>2, <3>1 DEF SyncReturn, Marked
  <2> QED BY <2>1, <2>2
<1>5. /\ teller' \in [Tellers -> Call] /\ \A u \in Tellers : teller'[u] = teller[u] \/ teller'[u] = Away
      /\ \A u \in Tellers : teller'[u].at # "idle" => teller'[u] = teller[u]
  BY <1>0, <1>1, SetAway
<1>6. nextReceipt \in Nat /\ nextReceipt' \in Nat \ {0} /\ nextReceipt <= nextReceipt' /\ strays \subseteq strays'
  BY <1>0, <1>1 DEF CountShape
<1>7. /\ CountShape' /\ TillIsTaken' /\ CallsAreOf' /\ ReturnsAreOfSales'
      /\ \A j \in Sales \cup Returns :
           /\ book'[j].receipt = book[j].receipt /\ book'[j].paid = book[j].paid
           /\ book'[j].st # "none" <=> book[j].st # "none"
      /\ book' = [j \in Sales \cup Returns |-> book'[j]]
  BY <1>1, <1>2, <1>5, <1>6, BookAgesKeeps
<1>8. NumbersGiven'
  <2>1. \A u \in Tellers : teller'[u].at = "sending" => teller'[u] = teller[u] BY <1>5
  <2> QED BY <1>0, <1>1, <1>6, <1>7, <2>1, NumbersFrame
<1>9. MoneyIsAccounted' BY <1>0, <1>1, <1>6, <1>7, MoneyStays
<1> QED BY <1>7, <1>8, <1>9 DEF CountInv

LEMMA AgesKeeps == \A i \in Sales \cup Returns : CountInv /\ Ages(i) => CountInv'
<1> SUFFICES ASSUME NEW i \in Sales \cup Returns, CountInv, Ages(i) PROVE CountInv' OBVIOUS
<1>0. CountShape /\ CallsAreOf /\ NumbersGiven /\ MoneyIsAccounted /\ TillIsTaken BY DEF CountInv
<1>1. UNCHANGED <<till, nextReceipt, teller, receipts, taken, strays>> BY DEF Ages
<1>2. PICK st \in {"SYNCED", "FAILED", "gone"} : book' = book \/ (Stored(i) /\ book' = [book EXCEPT ![i].st = st])
  <2> DEFINE st == IF book[i].st = "SYNCED" THEN "gone" ELSE "SYNCED"
  <2>1. Stored(i) /\ book' = [book EXCEPT ![i].st = st] BY DEF Ages
  <2> QED BY <2>1
<1>6. /\ nextReceipt \in Nat /\ nextReceipt' \in Nat \ {0} /\ nextReceipt <= nextReceipt' /\ strays \subseteq strays'
      /\ teller' \in [Tellers -> Call]
  BY <1>0, <1>1 DEF CountShape
<1>7. /\ CountShape' /\ TillIsTaken' /\ CallsAreOf' /\ ReturnsAreOfSales'
      /\ \A j \in Sales \cup Returns :
           /\ book'[j].receipt = book[j].receipt /\ book'[j].paid = book[j].paid
           /\ book'[j].st # "none" <=> book[j].st # "none"
      /\ book' = [j \in Sales \cup Returns |-> book'[j]]
  BY <1>1, <1>2, <1>6, BookAgesKeeps
<1>8. NumbersGiven' BY <1>0, <1>1, <1>6, <1>7, NumbersFrame
<1>9. MoneyIsAccounted' BY <1>0, <1>1, <1>6, <1>7, MoneyStays
<1> QED BY <1>7, <1>8, <1>9 DEF CountInv

\* A return is a row of its own, of the sale that was found.
LEMMA ProcessReturnKeeps == \A t \in Tellers, entries \in Entries : CountInv /\ ProcessReturn(t, entries) => CountInv'
<1> SUFFICES ASSUME NEW t \in Tellers, NEW entries \in Entries, CountInv, ProcessReturn(t, entries) PROVE CountInv' OBVIOUS
<1>0. CountShape /\ CallsAreOf /\ NumbersGiven /\ MoneyIsAccounted /\ TillIsTaken BY DEF CountInv
<1> DEFINE s == teller[t].sale
           pieces == -SumFunctionOnSet(entries, DOMAIN entries)
           row(r) == [NoRow EXCEPT !.st = "PENDING", !.receipt = MaxReceipts + r, !.of = s,
                                   !.pieces = pieces, !.entries = Len(entries)]
           call(r) == [at |-> "refunding", sale |-> r, receipt |-> 0]
<1>1. /\ teller[t].at = "found" /\ UNCHANGED <<till, nextReceipt, receipts, taken, strays>>
      /\ \E r \in Returns : /\ book[r].st = "none" /\ book' = [book EXCEPT ![r] = row(r)]
                            /\ teller' = [teller EXCEPT ![t] = call(r)]
  BY DEF ProcessReturn, Serving
<1>2. PICK r \in Returns : /\ book[r].st = "none" /\ book' = [book EXCEPT ![r] = row(r)]
                           /\ teller' = [teller EXCEPT ![t] = call(r)]
  BY <1>1
<1>3. s \in Sales /\ s \in Nat BY <1>0, <1>1, SalesAndReturns DEF CallsAreOf
<1>4. r \in Nat /\ r # 0 /\ MaxReceipts \in Nat /\ r \in Sales \cup Returns BY SalesAndReturns, CheckoutAssumption
<1> DEFINE new == row(r)
           c == call(r)
<1>5. IsARow(new) /\ new.st = "PENDING" /\ new.receipt = MaxReceipts + r /\ new.paid = 0 /\ new.of = s
  <2> HIDE DEF pieces, s
  <2>1. /\ DOMAIN new = {"st", "receipt", "pieces", "paid", "of", "entries"}
        /\ new.st = "PENDING" /\ new.receipt = MaxReceipts + r /\ new.paid = 0 /\ new.of = s
    BY DEF NoRow
  <2>2. MaxReceipts + r \in Nat BY <1>4
  <2> HIDE DEF new
  <2> QED BY <1>3, <2>1, <2>2 DEF IsARow
<1>6. c \in Call /\ c.at = "refunding" /\ c.sale = r BY <1>4 DEF Call
<1>7. book' = [book EXCEPT ![r] = new] /\ teller' = [teller EXCEPT ![t] = c] BY <1>2
<1> HIDE DEF new, c, s, pieces, row, call
<1>8. /\ book' = [i \in Sales \cup Returns |-> book'[i]] /\ book'[r] = new
      /\ \A i \in Sales \cup Returns : i # r => book'[i] = book[i]
  BY <1>0, <1>4, <1>7 DEF CountShape
<1>9. teller' \in [Tellers -> Call] /\ teller'[t] = c /\ \A u \in Tellers : u # t => teller'[u] = teller[u]
  BY <1>0, <1>6, <1>7 DEF CountShape
<1>10. CountShape' BY <1>0, <1>1, <1>5, <1>8, <1>9 DEF CountShape
<1>11. TillIsTaken' BY <1>0, <1>1 DEF TillIsTaken
<1>12. \A i \in Sales : i # r /\ book'[i] = book[i] BY <1>8, SalesAndReturns
<1>13. CallsAreOf'
  <2>1. \A i \in Sales \cup Returns : book[i].st # "none" => book'[i].st # "none" BY <1>5, <1>8
  <2> QED BY <1>0, <1>4, <1>5, <1>6, <1>8, <1>9, <2>1 DEF CallsAreOf
<1>14. NumbersGiven'
  <2>1. nextReceipt \in Nat /\ nextReceipt' \in Nat /\ nextReceipt <= nextReceipt' BY <1>0, <1>1 DEF CountShape
  <2>2. \A u \in Tellers : teller'[u].at = "sending" => teller'[u] = teller[u] BY <1>6, <1>9
  <2>3. \A i \in Returns : \/ book'[i].receipt > MaxReceipts
                           \/ (book'[i].receipt = book[i].receipt /\ (book'[i].st # "none" <=> book[i].st # "none"))
    <3>1. MaxReceipts + r > MaxReceipts BY <1>4
    <3> QED BY <1>5, <1>8, <3>1
  <2>4. \A i \in Sales : book'[i].receipt = book[i].receipt /\ (book'[i].st # "none" <=> book[i].st # "none") BY <1>12
  <2>5. strays \subseteq strays' /\ \A h \in receipts' : h \in receipts BY <1>1
  <2> QED BY <1>0, <1>8, <2>1, <2>2, <2>3, <2>4, <2>5, SMTT(30), NumbersFrame
<1>15. MoneyIsAccounted'
  <2>1. \A i \in Sales : book'[i].paid = book[i].paid BY <1>12
  <2> QED BY <1>0, <1>1, <2>1, MoneyStays
<1>16. ReturnsAreOfSales' BY <1>3, <1>5, <1>8 DEF CountInv, ReturnsAreOfSales
<1> QED BY <1>10, <1>11, <1>13, <1>14, <1>15, <1>16 DEF CountInv

\* The numbers begin anew, and nothing more is said of a receipt's number.
LEMMA CounterRestartsKeeps == CountInv /\ CounterRestarts => CountInv'
<1> SUFFICES ASSUME CountInv, CounterRestarts PROVE CountInv' OBVIOUS
<1>0. CountShape /\ CallsAreOf /\ NumbersGiven /\ MoneyIsAccounted /\ TillIsTaken BY DEF CountInv
<1>1. /\ till' = NoSale /\ nextReceipt' = 1 /\ teller' = [t \in Tellers |-> Away] /\ UNCHANGED <<book, receipts, taken>>
      /\ strays \cup Strays("restarted") \subseteq strays' /\ Renumbered'
  BY DEF CounterRestarts, Renumbered
<1>2. NoSale \in [sale : Nat, paid : Nat] /\ NoSale.sale = 0 BY DEF NoSale
<1>3. Away \in Call /\ Away.at = "idle" BY DEF Away, Call
<1>4. CountShape'
  <2>1. teller' \in [Tellers -> Call] BY <1>1, <1>3
  <2>2. nextReceipt' \in Nat \ {0} BY <1>1
  <2> QED BY <1>0, <1>1, <1>2, <2>1, <2>2 DEF CountShape
<1>5. TillIsTaken' BY <1>1, <1>2 DEF TillIsTaken
<1>6. \A t \in Tellers : teller'[t].at = "idle" BY <1>1, <1>3
<1>7. CallsAreOf' BY <1>6 DEF CallsAreOf
<1>8. NumbersGiven'
  <2>1. nextReceipt \in Nat /\ nextReceipt' \in Nat /\ strays \subseteq strays' BY <1>0, <1>1 DEF CountShape
  <2> QED BY <1>0, <1>1, <1>4, <1>6, <2>1, NumbersFrame DEF CountShape
<1>9. MoneyIsAccounted' BY <1>0, <1>1, MoneyFrame
<1>10. ReturnsAreOfSales' BY <1>1 DEF CountInv, ReturnsAreOfSales
<1> QED BY <1>4, <1>5, <1>7, <1>8, <1>9, <1>10 DEF CountInv

-----------------------------------------------------------------------------
LEMMA CountStepKeeps == CountInv /\ [CheckoutNext]_checkoutVars => CountInv'
<1> SUFFICES ASSUME CountInv, [CheckoutNext]_checkoutVars PROVE CountInv' OBVIOUS
<1>1. CASE CreateFromCart BY <1>1, CreateFromCartKeeps
<1>2. CASE \E amount \in 1..Sold : AddPayment(amount) BY <1>2, AddPaymentKeeps
<1>3. CASE Void BY <1>3, VoidKeeps
<1>4. CASE CounterRestarts BY <1>4, CounterRestartsKeeps
<1>5. CASE \E i \in Sales \cup Returns : Ages(i) BY <1>5, AgesKeeps
<1>6. ASSUME NEW t \in Tellers, Counter(t) PROVE CountInv'
  <2>1. CASE Complete(t) BY <2>1, CompleteKeeps
  <2>2. CASE CompleteEnds(t) BY <2>2, CompleteEndsKeeps
  <2>3. CASE ReturnRefused(t) \/ SyncReturn(t) BY <2>3, ReturnEndsKeeps
  <2>4. CASE \E no \in 1..(MaxReceipts + MaxSales + MaxReturns) : FindTransaction(t, no)
    <3>1. 1..(MaxReceipts + MaxSales + MaxReturns) \subseteq Nat BY CheckoutAssumption
    <3> QED BY <2>4, <3>1, FindTransactionKeeps
  <2>5. CASE \E entries \in Entries : ProcessReturn(t, entries) BY <2>5, ProcessReturnKeeps
  <2> QED BY <1>6, <2>1, <2>2, <2>3, <2>4, <2>5 DEF Counter
<1>7. CASE UNCHANGED checkoutVars
  BY <1>7 DEF checkoutVars, CountInv, CountShape, TillIsTaken, CallsAreOf, NumbersGiven, Renumbered, Recompleted,
              MoneyIsAccounted, ReturnsAreOfSales
<1> QED BY <1>1, <1>2, <1>3, <1>4, <1>5, <1>6, <1>7 DEF CheckoutNext

LEMMA CountInvImplies == CountInv => MoneyIsAccounted /\ ReceiptFindsItsSale /\ ReturnsAreOfSales
<1> SUFFICES ASSUME CountInv PROVE MoneyIsAccounted /\ ReceiptFindsItsSale /\ ReturnsAreOfSales OBVIOUS
<1>1. ReceiptFindsItsSale
  <2> SUFFICES ASSUME NEW h \in receipts
               PROVE  /\ [sale |-> 0, why |-> "numbered-anew"] \notin strays =>
                           \A i \in Sales \cup Returns : Stored(i) /\ book[i].receipt = h.no => i = h.sale
                      /\ [sale |-> h.sale, why |-> "completed-twice"] \notin strays => book[h.sale].receipt = h.no
    BY DEF ReceiptFindsItsSale
  <2>1. h.no \in Nat /\ h.no < MaxReceipts /\ MaxReceipts \in Nat BY CheckoutAssumption DEF CountInv, NumbersGiven
  <2>2. ASSUME [sale |-> 0, why |-> "numbered-anew"] \notin strays, NEW i \in Sales \cup Returns, Stored(i), book[i].receipt = h.no
        PROVE  i = h.sale
    <3>1. book[i].st # "none" BY <2>2 DEF Stored
    <3>2. i \in Sales
      <4>1. SUFFICES ASSUME i \in Returns PROVE FALSE OBVIOUS
      <4>2. book[i].receipt > MaxReceipts BY <3>1, <4>1 DEF CountInv, NumbersGiven
      <4> QED BY <2>1, <2>2, <4>2
    <3> QED BY <2>2, <3>1, <3>2 DEF CountInv, NumbersGiven, Renumbered
  <2>3. [sale |-> h.sale, why |-> "completed-twice"] \notin strays => book[h.sale].receipt = h.no
    BY DEF CountInv, NumbersGiven, Recompleted
  <2> QED BY <2>2, <2>3
<1> QED BY <1>1 DEF CountInv

-----------------------------------------------------------------------------
(* Sums.  A sum over a finite set is a recursive function on its subsets;   *)
(* that such a function is defined, and what it comes to, is proved here by  *)
(* induction on their size.                                                 *)

\* A set of numbers that holds 0, and with each its successor, holds them all.
LEMMA Induct ==
  ASSUME NEW P, P \subseteq Nat, 0 \in P, \A n \in P : n + 1 \in P
  PROVE  P = Nat
<1> SUFFICES ASSUME Nat \ P # {} PROVE FALSE OBVIOUS
<1>1. PICK n \in Nat \ P : \A m \in Nat \ P : <<m, n>> \notin OpToRel(<, Nat)
  <2>1. Nat \ P \subseteq Nat OBVIOUS
  <2> QED BY <2>1, WFMin, NatLessThanWellFounded, Zenon
<1>2. n # 0 /\ n - 1 \in Nat /\ (n - 1) + 1 = n OBVIOUS
<1>3. <<n - 1, n>> \in OpToRel(<, Nat) BY <1>2 DEF OpToRel
<1>4. n - 1 \in P BY <1>1, <1>2, <1>3, Zenon
<1> QED BY <1>1, <1>2, <1>4

Pick(t) == CHOOSE x \in t : TRUE
SumFrom(fun, f, t) == IF t = {} THEN 0 ELSE fun[Pick(t)] + f[t \ {Pick(t)}]
Sums(fun, S) == CHOOSE f : f = [t \in SUBSET S |-> SumFrom(fun, f, t)]
UpTo(S, n) == {t \in SUBSET S : Cardinality(t) <= n}

LEMMA SumIsTheLast == ASSUME NEW fun, NEW S PROVE SumFunctionOnSet(fun, S) = Sums(fun, S)[S]
BY DEF SumFunctionOnSet, FoldFunctionOnSet, MapThenFoldSet, Sums, SumFrom, Pick

LEMMA Picked == ASSUME NEW t, t # {} PROVE Pick(t) \in t
BY DEF Pick

LEMMA SumsAreDefined ==
  ASSUME NEW fun, NEW S, IsFiniteSet(S)
  PROVE  \A t \in SUBSET S : Sums(fun, S)[t] = SumFrom(fun, Sums(fun, S), t)
<1> DEFINE Good == {n \in Nat : \E f : f = [t \in UpTo(S, n) |-> SumFrom(fun, f, t)]}
<1>0. \A t \in SUBSET S : IsFiniteSet(t) /\ Cardinality(t) \in Nat /\ Cardinality(t) <= Cardinality(S)
  BY FS_Subset, FS_CardinalityType
<1>1. 0 \in Good
  <2>1. \A t \in UpTo(S, 0) : t = {} BY <1>0, FS_EmptySet DEF UpTo
  <2>2. [t \in UpTo(S, 0) |-> 0] = [t \in UpTo(S, 0) |-> SumFrom(fun, [u \in UpTo(S, 0) |-> 0], t)]
    BY <2>1 DEF SumFrom
  <2> QED BY <2>2
<1>2. ASSUME NEW n \in Good PROVE n + 1 \in Good
  <2>1. PICK f : f = [t \in UpTo(S, n) |-> SumFrom(fun, f, t)] OBVIOUS
  <2> DEFINE g == [t \in UpTo(S, n + 1) |-> SumFrom(fun, f, t)]
  <2>2. \A t \in UpTo(S, n) : g[t] = f[t]
    <3>1. UpTo(S, n) \subseteq UpTo(S, n + 1) BY <1>0 DEF UpTo
    <3>2. \A t \in UpTo(S, n) : f[t] = SumFrom(fun, f, t) BY <2>1, Zenon
    <3> QED BY <3>1, <3>2
  <2>3. ASSUME NEW t \in UpTo(S, n + 1) PROVE SumFrom(fun, f, t) = SumFrom(fun, g, t)
    <3>1. CASE t = {} BY <3>1 DEF SumFrom
    <3>2. CASE t # {}
      <4>1. Pick(t) \in t BY <3>2, Picked
      <4>2. Cardinality(t \ {Pick(t)}) = Cardinality(t) - 1 BY <1>0, <4>1, FS_RemoveElement DEF UpTo
      <4>3. t \ {Pick(t)} \in UpTo(S, n) BY <1>0, <4>2 DEF UpTo
      <4>4. g[t \ {Pick(t)}] = f[t \ {Pick(t)}] BY <2>2, <4>3
      <4> HIDE DEF g
      <4> QED BY <3>2, <4>4 DEF SumFrom
    <3> QED BY <3>1, <3>2
  <2>4. g = [t \in UpTo(S, n + 1) |-> SumFrom(fun, g, t)] BY <2>3
  <2> HIDE DEF g
  <2> QED BY <2>4
<1>3. Good = Nat
  <2>1. Good \subseteq Nat OBVIOUS
  <2> HIDE DEF Good
  <2> QED BY <1>1, <1>2, <2>1, Induct
<1>4. PICK f : f = [t \in UpTo(S, Cardinality(S)) |-> SumFrom(fun, f, t)] BY <1>0, <1>3
<1>5. UpTo(S, Cardinality(S)) = SUBSET S BY <1>0 DEF UpTo
<1>6. f = [t \in SUBSET S |-> SumFrom(fun, f, t)] BY <1>4, <1>5
<1>7. Sums(fun, S) = [t \in SUBSET S |-> SumFrom(fun, Sums(fun, S), t)] BY <1>6, Zenon DEF Sums
<1>8. ASSUME NEW F, F = [t \in SUBSET S |-> SumFrom(fun, F, t)]
      PROVE  \A t \in SUBSET S : F[t] = SumFrom(fun, F, t)
  BY <1>8, Zenon
<1> QED BY <1>7, <1>8, Zenon

\* F gives the sums of fun over the subsets of S.
SumsUp(F, fun, S) ==
  /\ F[{}] = 0
  /\ \A t \in SUBSET S : t # {} => Pick(t) \in t /\ F[t] = fun[Pick(t)] + F[t \ {Pick(t)}]

LEMMA SumsSumUp == ASSUME NEW fun, NEW S, IsFiniteSet(S) PROVE SumsUp(Sums(fun, S), fun, S)
<1> DEFINE F == Sums(fun, S)
<1>2. \A t \in SUBSET S : F[t] = SumFrom(fun, F, t) BY SumsAreDefined
<1> HIDE DEF F
<1>3. F[{}] = 0
  <2>1. {} \in SUBSET S OBVIOUS
  <2> QED BY <1>2, <2>1 DEF SumFrom
<1>4. \A t \in SUBSET S : t # {} => F[t] = fun[Pick(t)] + F[t \ {Pick(t)}] BY <1>2 DEF SumFrom
<1> QED BY <1>3, <1>4, Picked DEF F, SumsUp

\* As the element taken first is whichever CHOOSE gives, the step is used for
\* all subsets at once.
LEMMA SumInduct ==
  ASSUME NEW fun, NEW S, IsFiniteSet(S), NEW P, {} \in P,
         \A t \in SUBSET S : t # {} /\ t \ {Pick(t)} \in P => t \in P
  PROVE  S \in P
<1> DEFINE Q == {n \in Nat : \A t \in SUBSET S : Cardinality(t) = n => t \in P}
<1>1. \A t \in SUBSET S : IsFiniteSet(t) /\ Cardinality(t) \in Nat BY FS_Subset, FS_CardinalityType
<1>2. 0 \in Q BY <1>1, FS_EmptySet
<1>3. ASSUME NEW n \in Q PROVE n + 1 \in Q
  <2>1. ASSUME NEW t \in SUBSET S, Cardinality(t) = n + 1 PROVE t \in P
    <3>1. t # {} BY <1>1, <2>1, FS_EmptySet
    <3>2. Pick(t) \in t BY <3>1, Picked
    <3>3. Cardinality(t \ {Pick(t)}) = Cardinality(t) - 1 BY <1>1, <3>2, FS_RemoveElement
    <3>4. Cardinality(t \ {Pick(t)}) = n BY <2>1, <3>3
    <3> QED BY <3>1, <3>4
  <2> QED BY <2>1
<1>4. Q = Nat
  <2>1. Q \subseteq Nat OBVIOUS
  <2> HIDE DEF Q
  <2> QED BY <1>2, <1>3, <2>1, Induct
<1> QED BY <1>1, <1>4

LEMMA SumOfIntegers ==
  ASSUME NEW fun, NEW S, IsFiniteSet(S), \A x \in S : fun[x] \in Int
  PROVE  SumFunctionOnSet(fun, S) \in Int
<1>1. ASSUME NEW F, SumsUp(F, fun, S) PROVE F[S] \in Int
  <2> DEFINE P == {t \in SUBSET S : F[t] \in Int}
  <2>1. {} \in P BY <1>1 DEF SumsUp
  <2>2. ASSUME NEW t \in SUBSET S, t # {}, t \ {Pick(t)} \in P PROVE t \in P
    <3>1. F[t] = fun[Pick(t)] + F[t \ {Pick(t)}] /\ fun[Pick(t)] \in Int BY <1>1, <2>2 DEF SumsUp
    <3> QED BY <2>2, <3>1
  <2> HIDE DEF P
  <2>3. S \in P BY <2>1, <2>2, SumInduct
  <2> QED BY <2>3 DEF P
<1> QED BY <1>1, SumsSumUp, SumIsTheLast

LEMMA SumOfNothing ==
  ASSUME NEW fun, NEW S, IsFiniteSet(S), \A x \in S : fun[x] = 0
  PROVE  SumFunctionOnSet(fun, S) = 0
<1>1. ASSUME NEW F, SumsUp(F, fun, S) PROVE F[S] = 0
  <2> DEFINE P == {t \in SUBSET S : F[t] = 0}
  <2>1. {} \in P BY <1>1 DEF SumsUp
  <2>2. ASSUME NEW t \in SUBSET S, t # {}, t \ {Pick(t)} \in P PROVE t \in P
    <3>1. F[t] = fun[Pick(t)] + F[t \ {Pick(t)}] /\ fun[Pick(t)] = 0 BY <1>1, <2>2 DEF SumsUp
    <3> QED BY <2>2, <3>1
  <2> HIDE DEF P
  <2>3. S \in P BY <2>1, <2>2, SumInduct
  <2> QED BY <2>3 DEF P
<1> QED BY <1>1, SumsSumUp, SumIsTheLast

\* Sums compare as their terms do.
LEMMA SumWithin ==
  ASSUME NEW f, NEW g, NEW S, IsFiniteSet(S), NEW k \in Nat,
         \A x \in S : f[x] \in Int /\ g[x] \in Int /\ f[x] <= k * g[x]
  PROVE  SumFunctionOnSet(f, S) <= k * SumFunctionOnSet(g, S)
<1>1. ASSUME NEW F, SumsUp(F, f, S), NEW G, SumsUp(G, g, S) PROVE F[S] <= k * G[S]
  <2> DEFINE P == {t \in SUBSET S : F[t] \in Int /\ G[t] \in Int /\ F[t] <= k * G[t]}
  <2>1. {} \in P BY <1>1 DEF SumsUp
  <2>2. ASSUME NEW t \in SUBSET S, t # {}, t \ {Pick(t)} \in P PROVE t \in P
    <3> DEFINE a == f[Pick(t)]
               b == g[Pick(t)]
               c == F[t \ {Pick(t)}]
               d == G[t \ {Pick(t)}]
    <3>1. a \in Int /\ b \in Int /\ a <= k * b BY <1>1, <2>2 DEF SumsUp
    <3>2. c \in Int /\ d \in Int /\ c <= k * d BY <2>2
    <3>3. F[t] = a + c /\ G[t] = b + d BY <1>1, <2>2 DEF SumsUp
    <3> HIDE DEF a, b, c, d
    <3>4. k * (b + d) = k * b + k * d BY <3>1, <3>2
    <3>5. k * b \in Int /\ k * d \in Int BY <3>1, <3>2
    <3>6. a + c <= k * (b + d) BY <3>1, <3>2, <3>4, <3>5
    <3> QED BY <3>1, <3>2, <3>3, <3>6
  <2> HIDE DEF P
  <2>3. S \in P BY <2>1, <2>2, SumInduct
  <2> QED BY <2>3 DEF P
<1> QED BY <1>1, SumsSumUp, SumIsTheLast

\* A sum of bounded terms is at most so many times their bound.
LEMMA SumOfBounded ==
  ASSUME NEW f, NEW S, IsFiniteSet(S), NEW k \in Nat, \A x \in S : f[x] \in Int /\ f[x] <= k
  PROVE  SumFunctionOnSet(f, S) <= k * Cardinality(S)
<1>1. ASSUME NEW F, SumsUp(F, f, S) PROVE F[S] <= k * Cardinality(S)
  <2> DEFINE P == {t \in SUBSET S : F[t] \in Int /\ F[t] <= k * Cardinality(t)}
  <2>1. {} \in P
    <3>1. F[{}] = 0 /\ Cardinality({}) = 0 BY <1>1, FS_EmptySet DEF SumsUp
    <3> QED BY <3>1
  <2>2. ASSUME NEW t \in SUBSET S, t # {}, t \ {Pick(t)} \in P PROVE t \in P
    <3> DEFINE a == f[Pick(t)]
               c == F[t \ {Pick(t)}]
               n == Cardinality(t)
               m == Cardinality(t \ {Pick(t)})
    <3>0. Pick(t) \in t BY <2>2, Picked
    <3>1. a \in Int /\ a <= k BY <3>0
    <3>2. IsFiniteSet(t) /\ n \in Nat BY FS_Subset, FS_CardinalityType
    <3>3. m = n - 1 BY <3>0, <3>2, FS_RemoveElement
    <3>4. c \in Int /\ c <= k * m BY <2>2
    <3>5. F[t] = a + c BY <1>1, <2>2 DEF SumsUp
    <3> HIDE DEF a, c, n, m
    <3>6. k * n = k * m + k /\ k * m \in Int BY <3>2, <3>3
    <3>7. a + c <= k * n BY <3>1, <3>4, <3>6
    <3> QED BY <3>1, <3>4, <3>5, <3>7 DEF n
  <2> HIDE DEF P
  <2>3. S \in P BY <2>1, <2>2, SumInduct
  <2> QED BY <2>3 DEF P
<1> QED BY <1>1, SumsSumUp, SumIsTheLast

-----------------------------------------------------------------------------
(* No more comes back than was sold.                                       *)

\* Each return brings back at most what was sold for each of its entries.
Bounded(x) == x.pieces \in Int /\ x.entries \in Nat /\ -x.pieces <= Sold * x.entries
ReturnsBounded == \A r \in Returns : Bounded(book[r])

LEMMA NoRowIsBounded == Bounded(NoRow)
BY DEF Bounded, NoRow, Sold

\* A row that changes neither its pieces nor its entries stays bounded.
LEMMA BoundedKeeps ==
  ASSUME ReturnsBounded,
         \A r \in Returns : book'[r].pieces = book[r].pieces /\ book'[r].entries = book[r].entries
  PROVE  ReturnsBounded'
BY DEF ReturnsBounded, Bounded

LEMMA StatusKeeps ==
  ASSUME CountShape, NEW i \in Sales \cup Returns, NEW st, book' = [book EXCEPT ![i].st = st]
  PROVE  \A r \in Returns : book'[r].pieces = book[r].pieces /\ book'[r].entries = book[r].entries
<1> DEFINE x == [book[i] EXCEPT !.st = st]
<1>1. IsARow(book[i]) /\ DOMAIN book = Sales \cup Returns BY DEF CountShape
<1>2. x.pieces = book[i].pieces /\ x.entries = book[i].entries BY <1>1 DEF IsARow
<1>3. book' = [book EXCEPT ![i] = x] OBVIOUS
<1> HIDE DEF x
<1> QED BY <1>1, <1>2, <1>3

\* The pieces of a return that passes are those of its entries together.
LEMMA EntriesBounded ==
  ASSUME NEW entries \in Entries, ValidateReturnItems(entries)
  PROVE  /\ SumFunctionOnSet(entries, DOMAIN entries) \in Int /\ Len(entries) \in Nat
         /\ SumFunctionOnSet(entries, DOMAIN entries) <= Sold * Len(entries)
<1>1. entries \in Seq(Int)
  <2>1. \/ entries = <<>>
        \/ \E q \in Int : entries = <<q>>
        \/ \E q \in Int : entries = <<q, Sold>>
    BY DEF Entries, Sold
  <2>2. CASE entries = <<>> BY <2>2
  <2>3. ASSUME NEW q \in Int, entries = <<q>> PROVE entries \in Seq(Int) BY <2>3
  <2>4. ASSUME NEW q \in Int, entries = <<q, Sold>> PROVE entries \in Seq(Int)
    <3>1. Sold \in Int BY DEF Sold
    <3> QED BY <2>4, <3>1
  <2> QED BY <2>1, <2>2, <2>3, <2>4
<1>2. /\ Len(entries) \in Nat /\ DOMAIN entries = 1..Len(entries)
      /\ IsFiniteSet(DOMAIN entries) /\ Cardinality(DOMAIN entries) = Len(entries)
  BY <1>1, LenProperties, FS_Interval
<1>3. \A k \in DOMAIN entries : entries[k] \in Int /\ entries[k] <= Sold
  BY <1>1, <1>2, ElementOfSeq DEF ValidateReturnItems
<1>4. Sold \in Nat BY DEF Sold
<1> QED BY <1>2, <1>3, <1>4, SumOfIntegers, SumOfBounded

LEMMA BoundedStep ==
  ASSUME CountInv, ReturnsBounded, [CheckoutNext]_checkoutVars
  PROVE  ReturnsBounded'
<1>0. CountShape /\ \A i \in Sales : i \notin Returns
  BY CheckoutAssumption DEF CountInv, Sales, Returns
<1>1. CASE UNCHANGED book BY <1>1 DEF ReturnsBounded, Bounded
<1>2. ASSUME NEW t \in Tellers, Complete(t) PROVE ReturnsBounded'
  <2>1. UNCHANGED book \/ QueueOffline(nextReceipt) BY <1>2 DEF Complete
  <2>2. till.sale \in Sales
    <3>1. till.sale # 0 BY <1>2 DEF Complete
    <3>2. till.sale \in DOMAIN taken /\ taken \in Seq(Nat) /\ Len(taken) <= MaxSales
      BY <3>1 DEF CountInv, TillIsTaken, CountShape
    <3> QED BY <3>2, CheckoutAssumption, LenProperties DEF Sales
  <2>3. CASE QueueOffline(nextReceipt)
    <3>1. \A r \in Returns : book'[r] = book[r] BY <1>0, <2>2, <2>3 DEF QueueOffline, CountShape
    <3> QED BY <3>1, BoundedKeeps
  <2> QED BY <1>1, <2>1, <2>3
<1>3. ASSUME NEW t \in Tellers, CompleteEnds(t) \/ SyncReturn(t) PROVE ReturnsBounded'
  <2>1. teller[t].sale \in Sales \cup Returns
    BY <1>3 DEF CompleteEnds, SyncReturn, Serving, CountInv, CallsAreOf
  <2>2. UNCHANGED book \/ \E st : book' = [book EXCEPT ![teller[t].sale].st = st]
    BY <1>3 DEF CompleteEnds, SyncReturn, Marked
  <2> QED BY <1>0, <1>1, <2>1, <2>2, StatusKeeps, BoundedKeeps
<1>4. ASSUME NEW i \in Sales \cup Returns, Ages(i) PROVE ReturnsBounded'
  <2>1. book' = [book EXCEPT ![i].st = IF @ = "SYNCED" THEN "gone" ELSE "SYNCED"] BY <1>4 DEF Ages
  <2>2. \E st : book' = [book EXCEPT ![i].st = st] BY <2>1
  <2> QED BY <1>0, <2>2, StatusKeeps, BoundedKeeps
<1>5. ASSUME NEW t \in Tellers, NEW entries \in Entries, ProcessReturn(t, entries) PROVE ReturnsBounded'
  <2> DEFINE n == SumFunctionOnSet(entries, DOMAIN entries)
             x(r) == [NoRow EXCEPT !.st = "PENDING", !.receipt = MaxReceipts + r, !.of = teller[t].sale,
                                   !.pieces = -n, !.entries = Len(entries)]
  <2>1. PICK r \in Returns : book' = [book EXCEPT ![r] = x(r)] BY <1>5 DEF ProcessReturn
  <2>2. x(r).pieces = -n /\ x(r).entries = Len(entries) BY DEF NoRow
  <2>3. n \in Int /\ Len(entries) \in Nat /\ n <= Sold * Len(entries)
    BY <1>5, EntriesBounded DEF ProcessReturn
  <2> HIDE DEF n, x
  <2>4. -n \in Int /\ -(-n) = n BY <2>3
  <2>5. Bounded(x(r)) BY <2>2, <2>3, <2>4 DEF Bounded
  <2>6. \A q \in Returns : book'[q] = IF q = r THEN x(r) ELSE book[q] BY <1>0, <2>1 DEF CountShape
  <2> QED BY <2>5, <2>6 DEF ReturnsBounded
<1> QED BY <1>1, <1>2, <1>3, <1>4, <1>5
  DEF CheckoutNext, Counter, checkoutVars, CreateFromCart, AddPayment, Void, CounterRestarts,
      ReturnRefused, FindTransaction

LEMMA BoundedReturns == ReturnsBounded => ReturnedWithinSold
<1> SUFFICES ASSUME ReturnsBounded, NEW s \in Sales
             PROVE  SumFunctionOnSet([r \in Returns |-> -book[r].pieces], ReturnsOf(s))
                      <= Sold * SumFunctionOnSet([r \in Returns |-> book[r].entries], ReturnsOf(s))
  BY DEF ReturnedWithinSold
<1> DEFINE f == [r \in Returns |-> -book[r].pieces]
           g == [r \in Returns |-> book[r].entries]
<1>1. IsFiniteSet(ReturnsOf(s))
  <2>1. IsFiniteSet(Returns) /\ ReturnsOf(s) \subseteq Returns
    BY FS_Interval, CheckoutAssumption DEF Returns, ReturnsOf
  <2> QED BY <2>1, FS_Subset
<1>2. \A r \in ReturnsOf(s) : f[r] \in Int /\ g[r] \in Int /\ f[r] <= Sold * g[r]
  BY DEF ReturnsOf, ReturnsBounded, Bounded
<1>3. Sold \in Nat BY DEF Sold
<1> HIDE DEF f, g
<1>4. SumFunctionOnSet(f, ReturnsOf(s)) <= Sold * SumFunctionOnSet(g, ReturnsOf(s))
  BY <1>1, <1>2, <1>3, SumWithin
<1> QED BY <1>4 DEF f, g

\* What was taken is on record, a receipt is that of one sale, and never more
\* pieces of a sale come back than were sold, but by naming its line again, in
\* one return or over several: for every number of tellers, sales, returns and
\* receipts (TransactionService, ReturnService).
THEOREM CounterAccountsAlways == CheckoutSpec => []CounterAccounts
<1>1. CheckoutInit => CountInv /\ ReturnsBounded
  <2>1. CheckoutInit => ReturnsBounded BY NoRowIsBounded DEF CheckoutInit, ReturnsBounded
  <2> QED BY <2>1, CountInitHolds
<1>2. CountInv /\ ReturnsBounded /\ [CheckoutNext]_checkoutVars => CountInv' /\ ReturnsBounded'
  BY BoundedStep, CountStepKeeps
<1>3. CountInv /\ ReturnsBounded => CounterAccounts BY CountInvImplies, BoundedReturns DEF CounterAccounts
<1> QED BY <1>1, <1>2, <1>3, PTL DEF CheckoutSpec

-----------------------------------------------------------------------------
(* The sums of a cart.                                                     *)

LinesOk(ls) == ls \in [Products -> LineType] /\ \A p \in Products : ls[p].qty = 0 => ls[p] = NoLine
Payable(c) == IF Asked(c) < 0 THEN 0 ELSE Asked(c)
\* A cart of known lines and discounts shows what is asked for it.
Known(c) == LinesOk(c.lines) /\ c.pct \in {0, 50} /\ c.amt \in {0, 24}
Whole(c) == IsACart(c) /\ Known(c) /\ c.sums.grand \in Nat /\ c.sums.grand = Payable(c)

HandStages == {"idle", "persisting", "deleting", "saving", "emptying", "replacing", "renaming"}
WholeInv ==
  /\ Whole(basket) /\ Whole(stored)
  /\ \A d \in Drafts : Whole(held[d].row)
  /\ \A h \in Hands : Whole(hand[h].cart) /\ hand[h].at \in HandStages
  /\ \A k \in Parks : /\ \A p \in Products : FromAnswer(parked[k].lines[p]) \in LineType /\ IsALine(FromAnswer(parked[k].lines[p]))
                      /\ parked[k].st \in {"none", "PARKED", "RECALLED", "VOIDED"}

\* What a line of a known quantity and discount comes to.
LEMMA LineAmounts ==
  ASSUME NEW l \in LineType
  PROVE  /\ Gross(l) \in Nat /\ LineDiscount(l) \in Nat /\ LineSubtotal(l) \in Int /\ LineTax(l) \in Int
         /\ l.pct > 0 => (Gross(l) * l.pct) \div 100 \in Nat
<1>1. l.qty \in Nat /\ l.pct \in {0, 50} /\ l.amt \in Nat /\ l.incl \in BOOLEAN
  BY CartAssumption DEF LineType
<1>2. Gross(l) \in Nat BY <1>1 DEF Gross, UnitPrice
<1>3. LineDiscount(l) \in Nat /\ (l.pct > 0 => (Gross(l) * l.pct) \div 100 \in Nat)
  <2>1. CASE l.pct = 0
    <3>1. LineDiscount(l) = l.amt * l.qty BY <2>1 DEF LineDiscount
    <3>2. l.amt * l.qty \in Nat BY <1>1
    <3> QED BY <2>1, <3>1, <3>2
  <2>2. CASE l.pct = 50
    <3>1. LineDiscount(l) = (Gross(l) * 50) \div 100 BY <2>2 DEF LineDiscount
    <3> QED BY <1>2, <2>2, <3>1
  <2> QED BY <1>1, <2>1, <2>2
<1>4. LineAmount(l) \in Int BY <1>2, <1>3 DEF LineAmount
<1>5. LineSubtotal(l) \in Int
  <2>1. CASE l.incl
    <3>1. LineSubtotal(l) = (LineAmount(l) * 100) \div 200 BY <2>1 DEF LineSubtotal, TaxRate
    <3> QED BY <1>4, <3>1
  <2>2. CASE ~l.incl BY <1>4, <2>2 DEF LineSubtotal
  <2> QED BY <2>1, <2>2
<1>6. LineTax(l) \in Int
  <2>1. CASE l.incl
    <3>1. LineTax(l) = LineAmount(l) - LineSubtotal(l) BY <2>1 DEF LineTax
    <3> QED BY <1>4, <1>5, <3>1
  <2>2. CASE ~l.incl
    <3>1. LineTax(l) = (LineAmount(l) * 100) \div 100 BY <2>2 DEF LineTax, TaxRate
    <3> QED BY <1>4, <3>1
  <2> QED BY <2>1, <2>2
<1> QED BY <1>2, <1>3, <1>5, <1>6

LEMMA LinesAddUp ==
  ASSUME NEW ls, LinesOk(ls)
  PROVE  /\ SubtotalsOf(ls) \in Int /\ TaxesOf(ls) \in Int
         /\ (\A p \in Products : ls[p] = NoLine) => SubtotalsOf(ls) = 0 /\ TaxesOf(ls) = 0
<1> DEFINE f == [p \in DOMAIN ls |-> ls[p].sub]
           g == [p \in DOMAIN ls |-> ls[p].tax]
<1>1. DOMAIN ls = Products /\ \A p \in Products : ls[p].sub \in Int /\ ls[p].tax \in Int BY DEF LinesOk, LineType
<1>2. /\ DOMAIN f = Products /\ DOMAIN g = Products
      /\ \A p \in Products : f[p] = ls[p].sub /\ g[p] = ls[p].tax
  BY <1>1
<1>3. SubtotalsOf(ls) = SumFunctionOnSet(f, DOMAIN f) /\ TaxesOf(ls) = SumFunctionOnSet(g, DOMAIN g)
  BY DEF SubtotalsOf, TaxesOf, SumFunction
<1>4. IsFiniteSet(Products) BY CartAssumption
<1> HIDE DEF f, g
<1>5. \A p \in Products : f[p] \in Int /\ g[p] \in Int BY <1>1, <1>2
<1>6. SubtotalsOf(ls) \in Int /\ TaxesOf(ls) \in Int BY <1>2, <1>3, <1>4, <1>5, SumOfIntegers
<1>7. ASSUME \A p \in Products : ls[p] = NoLine PROVE SubtotalsOf(ls) = 0 /\ TaxesOf(ls) = 0
  <2>1. NoLine.sub = 0 /\ NoLine.tax = 0 BY DEF NoLine
  <2>2. \A p \in Products : f[p] = 0 /\ g[p] = 0 BY <1>2, <1>7, <2>1
  <2> QED BY <1>2, <1>3, <1>4, <2>2, SumOfNothing
<1> QED BY <1>6, <1>7

LEMMA GrandIsPayable ==
  ASSUME NEW c, Known(c)
  PROVE  SumsOf(c).grand = Payable(c) /\ Payable(c) \in Nat
<1> DEFINE s == SubtotalsOf(c.lines)
           t == TaxesOf(c.lines)
           d == CartDiscount(c)
<1>1. s \in Int /\ t \in Int BY LinesAddUp DEF Known
<1>2. d \in Int
  <2>1. CASE c.pct = 0
    <3>1. d = c.amt BY <2>1 DEF CartDiscount
    <3> QED BY <3>1 DEF Known
  <2>2. CASE c.pct = 50
    <3>1. d = (s * 50) \div 100 BY <2>2 DEF CartDiscount
    <3> QED BY <1>1, <3>1
  <2> QED BY <2>1, <2>2 DEF Known
<1>3. Asked(c) = s + t - d BY DEF Asked
<1>4. SumsOf(c).grand = IF (s - d) + t < 0 THEN 0 ELSE (s - d) + t BY DEF SumsOf
<1> HIDE DEF s, t, d
<1>5. Asked(c) = (s - d) + t /\ Asked(c) \in Int BY <1>1, <1>2, <1>3
<1> QED BY <1>4, <1>5 DEF Payable

LEMMA RecalculatedIsWhole ==
  ASSUME NEW c, IsACart(c), Known(c)
  PROVE  Whole(Recalculated(c))
<1> DEFINE r == Recalculated(c)
<1>1. r.lines = c.lines /\ r.pct = c.pct /\ r.amt = c.amt /\ r.sums = SumsOf(c) BY DEF Recalculated, IsACart
<1>2. IsACart(r) BY RecalculatedIs
<1> HIDE DEF r
<1>3. Known(r) BY <1>1 DEF Known
<1>4. Payable(r) = Payable(c) BY <1>1 DEF Payable, Asked, CartDiscount
<1>5. r.sums.grand = Payable(r) /\ r.sums.grand \in Nat BY <1>1, <1>4, GrandIsPayable
<1> QED BY <1>2, <1>3, <1>5 DEF Whole, r

LEMMA SameIsWhole ==
  ASSUME NEW c, NEW d, Whole(c), DOMAIN d = DOMAIN c, d.lines = c.lines, d.pct = c.pct, d.amt = c.amt, d.sums = c.sums
  PROVE  Whole(d)
<1>1. IsACart(d) /\ Known(d) BY DEF Whole, IsACart, Known
<1>2. Payable(d) = Payable(c) BY DEF Payable, Asked, CartDiscount
<1> QED BY <1>1, <1>2 DEF Whole

LEMMA EmptyIsWhole == Whole(EmptyCart) /\ Whole(NoCart) /\ LinesOk(EmptyCart.lines)
<1>1. NoLine \in LineType BY CartAssumption DEF NoLine, LineType
<1>2. /\ EmptyCart.lines = [p \in Products |-> NoLine] /\ EmptyCart.pct = 0 /\ EmptyCart.amt = 0
      /\ EmptyCart.sums.grand = 0
  BY DEF EmptyCart
<1>3. LinesOk(EmptyCart.lines) /\ \A p \in Products : EmptyCart.lines[p] = NoLine BY <1>1, <1>2 DEF LinesOk
<1>4. SubtotalsOf(EmptyCart.lines) = 0 /\ TaxesOf(EmptyCart.lines) = 0 BY <1>3, LinesAddUp
<1>5. CartDiscount(EmptyCart) = 0 BY <1>2 DEF CartDiscount
<1>6. Payable(EmptyCart) = 0 BY <1>4, <1>5 DEF Payable, Asked
<1>7. Whole(EmptyCart) BY <1>2, <1>3, <1>6, EmptyIs DEF Whole, Known
<1>8. /\ DOMAIN NoCart = DOMAIN EmptyCart /\ NoCart.lines = EmptyCart.lines /\ NoCart.pct = EmptyCart.pct
      /\ NoCart.amt = EmptyCart.amt /\ NoCart.sums = EmptyCart.sums
  BY DEF NoCart, EmptyCart
<1> QED BY <1>3, <1>7, <1>8, SameIsWhole

-----------------------------------------------------------------------------
(* A step leaves every cart whole.                                         *)

Listed(l) == l \in LineType /\ IsALine(l)
HandWhole(x) == Whole(x.cart) /\ x.at \in HandStages
ParkWhole(x) == (\A p \in Products : Listed(FromAnswer(x.lines[p]))) /\ x.st \in {"none", "PARKED", "RECALLED", "VOIDED"}
HandsWhole == \A h \in Hands : HandWhole(hand[h])
RowsWhole == \A d \in Drafts : Whole(held[d].row)
ParksWhole == \A k \in Parks : ParkWhole(parked[k])

LEMMA WholeParts ==
  /\ WholeInv <=> Whole(basket) /\ Whole(stored) /\ RowsWhole /\ HandsWhole /\ ParksWhole
  /\ CartInv => HandShape /\ HeldShape /\ ParksHeld
BY DEF WholeInv, RowsWhole, HandsWhole, ParksWhole, HandWhole, ParkWhole, Listed, CartInv

LEMMA WholeAgain ==
  ASSUME Whole(basket'), Whole(stored'), RowsWhole', HandsWhole', ParksWhole'
  PROVE  WholeInv'
BY DEF WholeInv, RowsWhole, HandsWhole, ParksWhole, HandWhole, ParkWhole, Listed

LEMMA SetHandWhole ==
  ASSUME HandShape, HandsWhole, NEW h \in Hands, NEW x, IsAHand(x), HandWhole(x), hand' = [hand EXCEPT ![h] = x]
  PROVE  HandsWhole'
<1>1. hand'[h] = x /\ \A g \in Hands : g # h => hand'[g] = hand[g] BY HandSet
<1> QED BY <1>1 DEF HandsWhole

LEMMA ThenWhole ==
  ASSUME HandShape, HandsWhole, NEW h \in Hands, NEW what \in HandStages, Then(h, what)
  PROVE  HandsWhole'
<1>1. hand'[h].at = what /\ hand'[h].cart = hand[h].cart /\ \A g \in Hands : g # h => hand'[g] = hand[g] BY ThenIs
<1> QED BY <1>1 DEF HandsWhole, HandWhole

LEMMA RestingIsWhole == IsAHand(Resting) /\ HandWhole(Resting)
BY EmptyIs, EmptyIsWhole DEF Resting, IsAHand, HandWhole, HandStages

LEMMA RestsWhole == ASSUME HandShape, HandsWhole, NEW h \in Hands, Rests(h) PROVE HandsWhole'
BY RestingIsWhole, SetHandWhole DEF Rests

LEMMA ChangesWhole ==
  ASSUME CartInv, WholeInv, NEW h \in Hands, NEW c, Whole(c), Changes(h, c)
  PROVE  WholeInv'
<1>1. basket' = c /\ Then(h, "persisting") /\ UNCHANGED <<stored, held, parked>> BY DEF Changes
<1>2. HandsWhole' BY <1>1, WholeParts, ThenWhole DEF HandStages
<1>3. RowsWhole' /\ ParksWhole' BY <1>1, WholeParts DEF RowsWhole, ParksWhole
<1>4. Whole(basket') /\ Whole(stored') BY <1>1, WholeParts
<1> QED BY <1>2, <1>3, <1>4, WholeAgain

\* The cart with one line written anew.
LEMMA WithLineWhole ==
  ASSUME Whole(basket), NEW p \in Products, NEW l, Listed(l)
  PROVE  Whole(WithLine(p, l))
<1> DEFINE c == [basket EXCEPT !.lines[p] = l]
<1>0. IsACart(basket) /\ LinesOk(basket.lines) BY DEF Whole, Known
<1>1. IsALine(l) BY DEF Listed
<1>2. /\ DOMAIN c = DOMAIN basket /\ c.lines = [basket.lines EXCEPT ![p] = l] /\ c.pct = basket.pct /\ c.amt = basket.amt
  BY <1>0 DEF IsACart
<1> HIDE DEF c
<1>3. DOMAIN c.lines = Products /\ c.lines[p] = l /\ \A q \in Products : q # p => c.lines[q] = basket.lines[q]
  BY <1>0, <1>2 DEF IsACart
<1>4. IsACart(c) BY <1>0, <1>1, <1>2, <1>3 DEF IsACart
<1>5. LinesOk(c.lines)
  <2>1. c.lines \in [Products -> LineType] BY <1>0, <1>2 DEF LinesOk, Listed
  <2>2. \A q \in Products : c.lines[q].qty = 0 => c.lines[q] = NoLine BY <1>0, <1>3 DEF LinesOk, Listed, IsALine
  <2> QED BY <2>1, <2>2 DEF LinesOk
<1>6. Known(c) BY <1>2, <1>5 DEF Whole, Known
<1> QED BY <1>4, <1>6, RecalculatedIsWhole DEF WithLine, c

LEMMA LineOfBasket ==
  ASSUME Whole(basket), NEW p \in Products
  PROVE  Listed(basket.lines[p]) /\ basket.lines[p].qty \in 0..MaxQuantity
<1>1. basket.lines[p] \in LineType BY DEF Whole, Known, LinesOk
<1>2. IsALine(basket.lines[p]) BY DEF Whole, IsACart
<1> QED BY <1>1, <1>2 DEF Listed, LineType

LEMMA NoLineListed == Listed(NoLine)
<1>1. NoLine \in LineType BY CartAssumption DEF NoLine, LineType
<1> QED BY <1>1, EmptyIs DEF Listed

LEMMA PricedListed ==
  ASSUME NEW l \in LineType, l.qty # 0
  PROVE  Listed(Priced(l))
<1>1. LineDiscount(l) \in Nat /\ LineSubtotal(l) \in Int /\ LineTax(l) \in Int BY LineAmounts
<1>2. Priced(l) \in LineType BY <1>1 DEF Priced, LineType
<1>3. l.qty \in Nat \ {0} /\ DOMAIN l = LineFields /\ l.incl \in BOOLEAN BY CartAssumption DEF LineType, LineFields
<1> QED BY <1>2, <1>3, PricedIs DEF Listed

LEMMA QuantityListed ==
  ASSUME NEW l, Listed(l), NEW q \in 1..MaxQuantity
  PROVE  Listed(Priced([l EXCEPT !.qty = q]))
<1> DEFINE m == [l EXCEPT !.qty = q]
<1>1. m \in LineType /\ m.qty = q BY CartAssumption DEF Listed, LineType
<1>2. q # 0 BY CartAssumption
<1> HIDE DEF m
<1>3. Listed(Priced(m)) BY <1>1, <1>2, PricedListed
<1> QED BY <1>3 DEF m

LEMMA UpdateQuantityWhole ==
  ASSUME CartInv, WholeInv, NEW h \in Hands, NEW p \in Products, NEW q \in 0..MaxQuantity, UpdateQuantity(h, p, q)
  PROVE  WholeInv'
<1> DEFINE l == IF q = 0 THEN NoLine ELSE Priced([basket.lines[p] EXCEPT !.qty = q])
<1>0. Whole(basket) BY WholeParts
<1>1. Listed(l)
  <2>1. CASE q = 0 BY <2>1, NoLineListed
  <2>2. CASE q # 0
    <3>1. q \in 1..MaxQuantity BY <2>2, CartAssumption
    <3> QED BY <1>0, <2>2, <3>1, LineOfBasket, QuantityListed
  <2> QED BY <2>1, <2>2
<1>2. Changes(h, WithLine(p, l)) BY DEF UpdateQuantity
<1> HIDE DEF l
<1> QED BY <1>0, <1>1, <1>2, WithLineWhole, ChangesWhole

LEMMA AddItemWhole ==
  ASSUME CartInv, WholeInv, NEW h \in Hands, NEW p \in Products, NEW q \in 1..MaxQuantity, AddItem(h, p, q)
  PROVE  WholeInv'
<1> DEFINE b == basket.lines[p]
           l == IF Has(p) THEN Priced([b EXCEPT !.qty = @ + q]) ELSE NewLine(p, q)
<1>0. Whole(basket) /\ Listed(b) /\ b.qty \in 0..MaxQuantity BY WholeParts, LineOfBasket
<1>1. Changes(h, WithLine(p, l)) /\ b.qty + q <= MaxQuantity BY DEF AddItem
<1>2. CASE Has(p)
  <2>1. b.qty + q \in 1..MaxQuantity BY <1>0, <1>1, CartAssumption
  <2>2. l = Priced([b EXCEPT !.qty = b.qty + q]) BY <1>2
  <2>3. Listed(l) BY <1>0, <2>1, <2>2, QuantityListed
  <2> HIDE DEF l
  <2> QED BY <1>0, <1>1, <2>3, WithLineWhole, ChangesWhole
<1>3. CASE ~Has(p)
  <2> DEFINE incl == p \in Inclusive
             m == [NoLine EXCEPT !.qty = q, !.incl = incl]
  <2>1. incl \in BOOLEAN OBVIOUS
  <2>2. l = Priced(m) BY <1>3 DEF NewLine
  <2> HIDE DEF incl, l
  <2>3. m.qty = q /\ m \in LineType
    <3>a. m = [NoLine EXCEPT !.qty = q, !.incl = incl] OBVIOUS
    <3> HIDE DEF m
    <3>b. NoLine = [qty |-> 0, pct |-> 0, amt |-> 0, incl |-> FALSE, note |-> FALSE,
                    disc |-> 0, sub |-> 0, tax |-> 0, theirs |-> FALSE] BY DEF NoLine
    <3>1. m = [qty |-> q, pct |-> 0, amt |-> 0, incl |-> incl, note |-> FALSE,
               disc |-> 0, sub |-> 0, tax |-> 0, theirs |-> FALSE] BY <3>a, <3>b
    <3>2. m.qty = q BY <3>1
    <3> QED BY <2>1, <3>1, <3>2, CartAssumption DEF LineType
  <2>4. q # 0 BY CartAssumption
  <2> HIDE DEF m
  <2>5. Listed(l) BY <2>2, <2>3, <2>4, PricedListed
  <2> QED BY <1>0, <1>1, <2>5, WithLineWhole, ChangesWhole
<1> QED BY <1>2, <1>3

LEMMA DiscountItemWhole ==
  ASSUME CartInv, WholeInv, NEW h \in Hands, NEW p \in Products, NEW pct \in {0, 50}, NEW amt \in {0, 24}, DiscountItem(h, p, pct, amt)
  PROVE  WholeInv'
<1> DEFINE m == [basket.lines[p] EXCEPT !.pct = pct, !.amt = amt]
<1>0. Whole(basket) /\ Listed(basket.lines[p]) /\ basket.lines[p].qty \in 0..MaxQuantity BY WholeParts, LineOfBasket
<1>1. Changes(h, WithLine(p, Priced(m))) /\ basket.lines[p].qty # 0 BY <1>0, CartAssumption DEF DiscountItem, Has
<1>2. m \in LineType /\ m.qty = basket.lines[p].qty
  <2>1. basket.lines[p] \in LineType /\ amt \in Nat BY <1>0 DEF Listed
  <2>2. m.qty = basket.lines[p].qty BY <2>1 DEF LineType
  <2>3. m \in LineType BY <2>1 DEF LineType
  <2> QED BY <2>2, <2>3
<1> HIDE DEF m
<1>3. Listed(Priced(m)) BY <1>1, <1>2, PricedListed
<1> QED BY <1>0, <1>1, <1>3, WithLineWhole, ChangesWhole

LEMMA SetItemNoteWhole ==
  ASSUME CartInv, WholeInv, NEW h \in Hands, NEW p \in Products, SetItemNote(h, p) PROVE WholeInv'
<1>0. /\ Whole(basket) /\ IsACart(basket) /\ Listed(basket.lines[p]) /\ basket.lines[p].qty \in 0..MaxQuantity
  BY WholeParts, LineOfBasket DEF Whole
<1>1. PICK note \in BOOLEAN : basket' = [basket EXCEPT !.lines[p].note = note] BY DEF SetItemNote
<1>2. UNCHANGED <<stored, held, parked, hand>> /\ basket.lines[p].qty # 0 BY <1>0, CartAssumption DEF SetItemNote, Has
<1> DEFINE l == [basket.lines[p] EXCEPT !.note = note]
<1>3. /\ DOMAIN basket' = DOMAIN basket /\ basket'.lines = [basket.lines EXCEPT ![p] = l]
      /\ basket'.pct = basket.pct /\ basket'.amt = basket.amt /\ basket'.sums = basket.sums
  BY <1>0, <1>1 DEF IsACart
<1>4. l \in LineType /\ l.qty = basket.lines[p].qty /\ PricedAlike(l, basket.lines[p])
  BY <1>0 DEF Listed, LineType, PricedAlike
<1> HIDE DEF l
<1>5. IsALine(l) /\ Listed(l)
  <2>1. CartInv' BY SetItemNoteKeeps
  <2>2. IsALine(basket'.lines[p])
    <3>1. IsACart(basket') BY <2>1 DEF CartInv, CartsCurrent, Current
    <3> QED BY <3>1 DEF IsACart
  <2>3. basket'.lines[p] = l BY <1>0, <1>3 DEF IsACart
  <2> QED BY <1>4, <2>2, <2>3 DEF Listed
<1>6. DOMAIN basket'.lines = Products /\ basket'.lines[p] = l /\ \A q \in Products : q # p => basket'.lines[q] = basket.lines[q]
  BY <1>0, <1>3 DEF IsACart
<1>7. IsACart(basket') BY <1>0, <1>3, <1>5, <1>6 DEF IsACart
<1>8. LinesOk(basket'.lines)
  <2>1. basket'.lines \in [Products -> LineType] BY <1>0, <1>3, <1>4 DEF Whole, Known, LinesOk
  <2>2. \A q \in Products : basket'.lines[q].qty = 0 => basket'.lines[q] = NoLine
    BY <1>0, <1>5, <1>6 DEF Whole, Known, LinesOk, Listed, IsALine
  <2> QED BY <2>1, <2>2 DEF LinesOk
<1>9. Known(basket') /\ Known(basket) BY <1>0, <1>3, <1>8 DEF Whole, Known
<1>10. SumsOf(basket') = SumsOf(basket)
  <2>1. \A q \in Products : PricedAlike(basket'.lines[q], basket.lines[q]) BY <1>4, <1>6 DEF PricedAlike
  <2> QED BY <1>0, <1>3, <1>6, <2>1, SumsAlike DEF IsACart
<1>11. Payable(basket') = Payable(basket) BY <1>9, <1>10, GrandIsPayable
<1>12. Whole(basket') BY <1>0, <1>3, <1>7, <1>9, <1>11 DEF Whole
<1> QED BY <1>2, <1>12 DEF WholeInv

LEMMA DiscountCartWhole ==
  ASSUME CartInv, WholeInv, NEW h \in Hands, NEW pct \in {0, 50}, NEW amt \in {0, 24}, DiscountCart(h, pct, amt)
  PROVE  WholeInv'
<1> DEFINE c == [basket EXCEPT !.pct = pct, !.amt = amt]
<1>0. Whole(basket) /\ IsACart(basket) BY WholeParts DEF Whole
<1>1. DOMAIN c = DOMAIN basket /\ c.lines = basket.lines /\ c.pct = pct /\ c.amt = amt BY <1>0 DEF IsACart
<1>2. Changes(h, Recalculated(c)) BY DEF DiscountCart
<1> HIDE DEF c
<1>3. IsACart(c) /\ Known(c) BY <1>0, <1>1 DEF IsACart, Whole, Known
<1> QED BY <1>2, <1>3, RecalculatedIsWhole, ChangesWhole

LEMMA RingsUpWhole == ASSUME CartInv, WholeInv, NEW h \in Hands, RingsUp(h) PROVE WholeInv'
<1>0. Whole(basket) /\ \A p \in Products : basket.lines[p].qty \in 0..MaxQuantity BY WholeParts, LineOfBasket
<1>1. ASSUME NEW p \in Products, NEW q \in 1..MaxQuantity, AddItem(h, p, q) PROVE WholeInv' BY <1>1, AddItemWhole
<1>2. ASSUME NEW p \in Products, NEW q \in 0..MaxQuantity, UpdateQuantity(h, p, q) PROVE WholeInv'
  BY <1>2, UpdateQuantityWhole
<1>3. ASSUME NEW p \in Products, NEW q \in 1..MaxQuantity, UpdateQuantity(h, p, q - 1) PROVE WholeInv'
  <2>1. q - 1 \in 0..MaxQuantity BY CartAssumption
  <2> QED BY <1>2, <1>3, <2>1
<1>4. ASSUME NEW p \in Products, Increment(h, p) PROVE WholeInv'
  <2>1. basket.lines[p].qty + 1 \in 0..MaxQuantity /\ UpdateQuantity(h, p, basket.lines[p].qty + 1)
    BY <1>0, <1>4, CartAssumption DEF Increment
  <2> QED BY <1>2, <2>1
<1>5. ASSUME NEW p \in Products, Decrement(h, p) PROVE WholeInv'
  <2>1. basket.lines[p].qty - 1 \in 0..MaxQuantity /\ UpdateQuantity(h, p, basket.lines[p].qty - 1)
    BY <1>0, <1>5, CartAssumption DEF Decrement, Has
  <2> QED BY <1>2, <2>1
<1>6. ASSUME NEW p \in Products, RemoveItem(h, p) PROVE WholeInv'
  <2>1. Changes(h, WithLine(p, NoLine)) BY <1>6 DEF RemoveItem
  <2> QED BY <1>0, <2>1, NoLineListed, WithLineWhole, ChangesWhole
<1>7. ASSUME NEW p \in Products, SetItemNote(h, p) PROVE WholeInv' BY <1>7, SetItemNoteWhole
<1>8. \A d \in Discounts : d[1] \in {0, 50} /\ d[2] \in {0, 24} BY DEF Discounts
<1>9. ASSUME NEW p \in Products, NEW d \in Discounts, DiscountItem(h, p, d[1], d[2]) PROVE WholeInv'
  BY <1>8, <1>9, DiscountItemWhole
<1>10. ASSUME NEW d \in Discounts, DiscountCart(h, d[1], d[2]) PROVE WholeInv' BY <1>8, <1>10, DiscountCartWhole
<1> QED BY <1>1, <1>3, <1>4, <1>5, <1>6, <1>7, <1>9, <1>10 DEF RingsUp

LEMMA AttendsWhole == ASSUME CartInv, WholeInv, NEW h \in Hands, Attends(h) PROVE WholeInv'
<1>0. Whole(basket) /\ IsACart(basket) BY WholeParts DEF Whole
<1>1. ASSUME NEW who, NEW balance, SetCustomer(h, who, balance) PROVE WholeInv'
  <2> DEFINE c == [basket EXCEPT !.customer = who, !.balance = balance]
  <2>1. DOMAIN c = DOMAIN basket /\ c.lines = basket.lines /\ c.pct = basket.pct /\ c.amt = basket.amt /\ c.sums = basket.sums
    BY <1>0 DEF IsACart
  <2>2. Changes(h, c) BY <1>1 DEF SetCustomer
  <2> HIDE DEF c
  <2> QED BY <1>0, <2>1, <2>2, SameIsWhole, ChangesWhole
<1>2. CASE SetCartNote(h)
  <2>1. PICK note \in BOOLEAN : Changes(h, [basket EXCEPT !.note = note]) BY <1>2 DEF SetCartNote
  <2> DEFINE c == [basket EXCEPT !.note = note]
  <2>2. DOMAIN c = DOMAIN basket /\ c.lines = basket.lines /\ c.pct = basket.pct /\ c.amt = basket.amt /\ c.sums = basket.sums
    BY <1>0 DEF IsACart
  <2>3. Changes(h, c) BY <2>1
  <2> HIDE DEF c
  <2> QED BY <1>0, <2>2, <2>3, SameIsWhole, ChangesWhole
<1>3. CASE Clear(h)
  <2> DEFINE c == [EmptyCart EXCEPT !.customer = basket.customer, !.balance = basket.balance]
  <2>1. DOMAIN c = DOMAIN EmptyCart /\ c.lines = EmptyCart.lines /\ c.pct = EmptyCart.pct /\ c.amt = EmptyCart.amt /\ c.sums = EmptyCart.sums
    BY EmptyIs DEF IsACart
  <2>2. Changes(h, c) BY <1>3 DEF Clear
  <2> HIDE DEF c
  <2> QED BY <2>1, <2>2, EmptyIsWhole, SameIsWhole, ChangesWhole
<1> QED BY <1>1, <1>2, <1>3 DEF Attends

LEMMA EmptiesWhole == ASSUME CartInv, WholeInv, NEW h \in Hands, Empties(h) \/ Persist(h) \/ NotWritten(h) PROVE WholeInv'
<1>1. ASSUME UNCHANGED <<held, parked>> PROVE RowsWhole' /\ ParksWhole' BY <1>1, WholeParts DEF RowsWhole, ParksWhole
<1>2. CASE ClearAll(h)
  <2>1. basket' = EmptyCart /\ Then(h, "deleting") /\ UNCHANGED <<stored, held, parked>> BY <1>2 DEF ClearAll
  <2>2. HandsWhole' BY <2>1, WholeParts, ThenWhole DEF HandStages
  <2>3. Whole(basket') /\ Whole(stored') BY <2>1, WholeParts, EmptyIsWhole
  <2> QED BY <1>1, <2>1, <2>2, <2>3, WholeAgain
<1>3. CASE ClearActiveCart(h)
  <2>1. stored' = NoCart /\ Rests(h) /\ UNCHANGED <<basket, held, parked>> BY <1>3 DEF ClearActiveCart
  <2>2. HandsWhole' BY <2>1, WholeParts, RestsWhole
  <2>3. Whole(basket') /\ Whole(stored') BY <2>1, WholeParts, EmptyIsWhole
  <2> QED BY <1>1, <2>1, <2>2, <2>3, WholeAgain
<1>4. CASE Persist(h)
  <2>1. stored' = basket /\ Rests(h) /\ UNCHANGED <<basket, held, parked>> BY <1>4 DEF Persist
  <2>2. HandsWhole' BY <2>1, WholeParts, RestsWhole
  <2>3. Whole(basket') /\ Whole(stored') BY <2>1, WholeParts
  <2> QED BY <1>1, <2>1, <2>2, <2>3, WholeAgain
<1>5. CASE NotWritten(h)
  <2>1. Rests(h) /\ UNCHANGED <<basket, stored, held, parked>> BY <1>5 DEF NotWritten
  <2>2. HandsWhole' BY <2>1, WholeParts, RestsWhole
  <2>3. Whole(basket') /\ Whole(stored') BY <2>1, WholeParts
  <2> QED BY <1>1, <2>1, <2>2, <2>3, WholeAgain
<1> QED BY <1>2, <1>3, <1>4, <1>5 DEF Empties

\* A row written to the table, or taken from it, holds a whole cart.
LEMMA ToRowWhole == ASSUME NEW c, Whole(c) PROVE Whole(ToRow(c))
<1> DEFINE d == [c EXCEPT !.balance = 0]
<1>1. DOMAIN d = DOMAIN c /\ d.lines = c.lines /\ d.pct = c.pct /\ d.amt = c.amt /\ d.sums = c.sums BY DEF Whole, IsACart
<1> HIDE DEF d
<1> QED BY <1>1, SameIsWhole DEF ToRow, d

LEMMA FromRowWhole == ASSUME NEW c, Whole(c) PROVE Whole(FromRow(c)) /\ Whole(Recalculated(c))
BY RecalculatedIsWhole DEF Whole, FromRow

LEMMA RowWhole ==
  ASSUME HeldShape, RowsWhole, NEW d \in Drafts, NEW x, Whole(x.row), held' = [held EXCEPT ![d] = x]
  PROVE  RowsWhole'
<1>1. held'[d] = x /\ \A e \in Drafts : e # d => held'[e] = held[e] BY DEF HeldShape
<1> QED BY <1>1 DEF RowsWhole

LEMMA RowsStay ==
  ASSUME RowsWhole, \A d \in Drafts : held'[d].row = held[d].row
  PROVE  RowsWhole'
BY DEF RowsWhole

\* What is held changes in all but its row.
LEMMA RowStays ==
  ASSUME NEW x, IsADraft(x), NEW st, NEW n
  PROVE  /\ [x EXCEPT !.st = st].row = x.row /\ [x EXCEPT !.st = st, !.told = FALSE].row = x.row
         /\ [x EXCEPT !.died = TRUE].row = x.row /\ [x EXCEPT !.given = n].row = x.row
BY DEF IsADraft

LEMMA HoldsWhole == ASSUME CartInv, WholeInv, NEW h \in Hands, Holds(h) PROVE WholeInv'
<1>0. Whole(basket) /\ HandShape /\ HeldShape /\ HandsWhole /\ RowsWhole /\ ParksWhole /\ Whole(stored) BY WholeParts
<1>a. Whole(hand[h].cart) /\ \A d \in Drafts : Whole(held[d].row) /\ IsADraft(held[d])
  BY <1>0 DEF HandsWhole, HandWhole, RowsWhole, HeldShape
<1>b. ASSUME NEW x, IsAHand(x), HandWhole(x), hand' = [hand EXCEPT ![h] = x], UNCHANGED <<basket, stored, held, parked>>
      PROVE  WholeInv'
  <2>1. HandsWhole' BY <1>0, <1>b, SetHandWhole
  <2>2. RowsWhole' /\ ParksWhole' BY <1>0, <1>b DEF RowsWhole, ParksWhole
  <2> QED BY <1>0, <1>b, <2>1, <2>2, WholeAgain
<1>c. ASSUME RowsWhole', HandsWhole', UNCHANGED <<basket, stored, parked>> PROVE WholeInv'
  <2>1. ParksWhole' BY <1>0, <1>c DEF ParksWhole
  <2> QED BY <1>0, <1>c, <2>1, WholeAgain
<1>1. CASE SaveCart(h)
  <2> DEFINE x == [Resting EXCEPT !.at = "saving", !.cart = basket]
  <2>1. hand' = [hand EXCEPT ![h] = x] /\ UNCHANGED <<basket, stored, held, parked>> BY <1>1 DEF SaveCart
  <2>2. DOMAIN x = {"at", "id", "cart"} /\ x.at = "saving" /\ x.cart = basket BY DEF Resting
  <2> HIDE DEF x
  <2>3. IsAHand(x) /\ HandWhole(x) BY <1>0, <2>2 DEF IsAHand, HandWhole, HandStages, Whole
  <2> QED BY <1>b, <2>1, <2>3
<1>2. ASSUME NEW d \in Drafts, SaveDraft(h, d) PROVE WholeInv'
  <2> DEFINE row == ToRow(hand[h].cart)
             total == hand[h].cart.sums.grand
             y == [NoDraft EXCEPT !.st = "live", !.row = row, !.total = total, !.told = TRUE]
  <2>1. held' = [held EXCEPT ![d] = y] /\ Rests(h) /\ UNCHANGED <<basket, stored, parked>> BY <1>2 DEF SaveDraft
  <2>2. Whole(row) BY <1>a, ToRowWhole
  <2> HIDE DEF row, total
  <2>3. y.row = row BY DEF NoDraft
  <2> HIDE DEF y
  <2>4. RowsWhole' BY <1>0, <2>1, <2>2, <2>3, RowWhole
  <2>5. HandsWhole' BY <1>0, <2>1, RestsWhole
  <2> QED BY <1>c, <2>1, <2>4, <2>5
<1>3. ASSUME NEW d \in Drafts, Recall(h, d) \/ Rename(h, d) PROVE WholeInv'
  <2> DEFINE c == FromRow(held[d].row)
  <2>1. Whole(c) BY <1>a, FromRowWhole
  <2> HIDE DEF c
  <2>2. UNCHANGED <<basket, stored, held, parked>> BY <1>3 DEF Recall, Rename
  <2>3. PICK at \in {"emptying", "renaming"} : hand' = [hand EXCEPT ![h] = [at |-> at, id |-> d, cart |-> c]]
    BY <1>3 DEF Recall, Rename, c
  <2> DEFINE x == [at |-> at, id |-> d, cart |-> c]
  <2>4. IsAHand(x) /\ HandWhole(x) BY <2>1 DEF IsAHand, HandWhole, HandStages, Whole
  <2> HIDE DEF x
  <2>5. hand' = [hand EXCEPT ![h] = x] BY <2>3 DEF x
  <2> QED BY <1>b, <2>2, <2>4, <2>5
<1>4. CASE DeleteRecalled(h)
  <2>1. /\ held' = [held EXCEPT ![hand[h].id].st = "gone"] /\ Then(h, "replacing") /\ UNCHANGED <<basket, stored, parked>>
    BY <1>4 DEF DeleteRecalled
  <2>2. \A d \in Drafts : held'[d].row = held[d].row BY <1>0, <2>1, RowStays DEF HeldShape
  <2>3. HandsWhole' BY <1>0, <2>1, ThenWhole DEF HandStages
  <2> QED BY <1>0, <1>c, <2>1, <2>2, <2>3, RowsStay
<1>5. CASE ReplaceCart(h)
  <2> DEFINE x == [Resting EXCEPT !.at = "persisting"]
  <2>1. /\ basket' = Recalculated(hand[h].cart) /\ hand' = [hand EXCEPT ![h] = x] /\ UNCHANGED <<stored, parked>>
        /\ held' = [d \in Drafts |-> IF d = hand[h].id THEN [held[d] EXCEPT !.given = @ + 1] ELSE held[d]]
    BY <1>5 DEF ReplaceCart
  <2>2. \A d \in Drafts : held'[d].row = held[d].row
    <3> TAKE d \in Drafts
    <3>1. CASE d = hand[h].id
      <4>1. held'[d] = [held[d] EXCEPT !.given = held[d].given + 1] BY <2>1, <3>1
      <4> QED BY <1>a, <4>1, RowStays
    <3>2. CASE d # hand[h].id BY <2>1, <3>2
    <3> QED BY <3>1, <3>2
  <2>3. Whole(basket') BY <1>a, <2>1, FromRowWhole
  <2>4. DOMAIN x = {"at", "id", "cart"} /\ x.at = "persisting" /\ x.cart = EmptyCart BY DEF Resting
  <2> HIDE DEF x
  <2>5. IsAHand(x) /\ HandWhole(x) BY <2>4, EmptyIsWhole, EmptyIs DEF IsAHand, HandWhole, HandStages
  <2>6. HandsWhole' BY <1>0, <2>1, <2>5, SetHandWhole
  <2>7. ParksWhole' /\ Whole(stored') BY <1>0, <2>1 DEF ParksWhole
  <2> QED BY <1>0, <2>2, <2>3, <2>6, <2>7, RowsStay, WholeAgain
<1>6. CASE SaveRenamed(h)
  <2> DEFINE d == hand[h].id
             row == ToRow(hand[h].cart)
             st == IF held[d].st = "gone" THEN "live" ELSE held[d].st
             y == [held[d] EXCEPT !.row = row, !.st = st]
  <2>1. /\ held' = [held EXCEPT ![d].row = row, ![d].st = IF @ = "gone" THEN "live" ELSE @]
        /\ hand[h].at = "renaming" /\ Rests(h) /\ UNCHANGED <<basket, stored, parked>>
    BY <1>6 DEF SaveRenamed, Doing
  <2>2. d \in Drafts BY <2>1 DEF CartInv, HandsKnowTheirs
  <2>3. Whole(row) BY <1>a, ToRowWhole
  <2> HIDE DEF row, d
  <2>4. held' = [held EXCEPT ![d] = y] BY <1>0, <1>a, <2>1, <2>2 DEF HeldShape, IsADraft
  <2>5. y.row = row BY <1>a, <2>2 DEF IsADraft
  <2> HIDE DEF y
  <2>6. RowsWhole' BY <1>0, <2>2, <2>3, <2>4, <2>5, RowWhole
  <2>7. HandsWhole' BY <1>0, <2>1, RestsWhole
  <2> QED BY <1>c, <2>1, <2>6, <2>7
<1>7. CASE CleanupExpired(h)
  <2>1. /\ UNCHANGED <<basket, stored, parked, hand>>
        /\ held' = [d \in Drafts |-> IF held[d].st = "expired" THEN [held[d] EXCEPT !.st = "gone", !.told = FALSE] ELSE held[d]]
    BY <1>7 DEF CleanupExpired
  <2>2. \A d \in Drafts : held'[d].row = held[d].row BY <1>a, <2>1, RowStays
  <2>3. HandsWhole' BY <1>0, <2>1 DEF HandsWhole
  <2> QED BY <1>0, <1>c, <2>1, <2>2, <2>3, RowsStay
<1>8. ASSUME NEW d \in Drafts, DeleteDraft(h, d) PROVE WholeInv'
  <2>1. /\ UNCHANGED <<basket, stored, parked, hand>> /\ held' = [held EXCEPT ![d].st = "gone", ![d].told = FALSE]
    BY <1>8 DEF DeleteDraft
  <2>2. held' = [held EXCEPT ![d] = [held[d] EXCEPT !.st = "gone", !.told = FALSE]] BY <1>0, <1>a, <2>1 DEF HeldShape, IsADraft
  <2>3. \A e \in Drafts : held'[e].row = held[e].row BY <1>0, <1>a, <2>2, RowStays DEF HeldShape
  <2>4. HandsWhole' BY <1>0, <2>1 DEF HandsWhole
  <2> QED BY <1>0, <1>c, <2>1, <2>3, <2>4, RowsStay
<1> QED BY <1>1, <1>2, <1>3, <1>4, <1>5, <1>6, <1>7, <1>8 DEF Holds

\* A crash, and the 24 hours of a held cart.
LEMMA RestartsWhole == ASSUME CartInv, WholeInv, Restarts \/ \E d \in Drafts : Expires(d) PROVE WholeInv'
<1>0. /\ HeldShape /\ HandsWhole /\ RowsWhole /\ ParksWhole /\ Whole(basket) /\ Whole(stored)
      /\ \A d \in Drafts : IsADraft(held[d])
  BY WholeParts DEF HeldShape
<1>1. CASE Restarts
  <2> DEFINE lost(d) == \E h \in Hands : hand[h].id = d /\ hand[h].at \in {"emptying", "replacing"}
  <2>1. /\ basket' \in {stored, EmptyCart} /\ hand' = [h \in Hands |-> Resting]
        /\ held' = [d \in Drafts |-> IF lost(d) THEN [held[d] EXCEPT !.died = TRUE] ELSE held[d]]
        /\ UNCHANGED <<stored, parked>>
    BY <1>1 DEF Restarts
  <2> HIDE DEF lost
  <2>2. Whole(basket') /\ Whole(stored') BY <1>0, <2>1, EmptyIsWhole
  <2>3. HandsWhole' BY <2>1, RestingIsWhole DEF HandsWhole
  <2>4. \A d \in Drafts : held'[d].row = held[d].row BY <1>0, <2>1, RowStays
  <2>5. ParksWhole' BY <1>0, <2>1 DEF ParksWhole
  <2> QED BY <1>0, <2>2, <2>3, <2>4, <2>5, RowsStay, WholeAgain
<1>2. ASSUME NEW d \in Drafts, Expires(d) PROVE WholeInv'
  <2>1. held' = [held EXCEPT ![d].st = "expired"] /\ UNCHANGED <<basket, stored, parked, hand>> BY <1>2 DEF Expires
  <2>2. \A e \in Drafts : held'[e].row = held[e].row BY <1>0, <2>1, RowStays DEF HeldShape
  <2>3. HandsWhole' /\ ParksWhole' /\ Whole(basket') /\ Whole(stored') BY <1>0, <2>1 DEF HandsWhole, ParksWhole
  <2> QED BY <1>0, <2>2, <2>3, RowsStay, WholeAgain
<1> QED BY <1>1, <1>2

\* What the platform answers of a line of the cart can be put in a cart.
LEMMA AnsweredListed ==
  ASSUME NEW l, Listed(l), NEW how
  PROVE  Listed(FromAnswer(Answered(l, how)))
<1> DEFINE a == Answered(l, how)
           off == TakenOff(l, how)
           said == IF how.says = "asked" THEN l.amt ELSE off
           sub == Gross(l) - off
           tax == (sub * TaxRate) \div 100
<1>1. l \in LineType /\ l.qty \in Nat /\ l.amt \in Nat BY CartAssumption DEF Listed, LineType
<1>2. Gross(l) \in Nat /\ (l.pct > 0 => (Gross(l) * l.pct) \div 100 \in Nat) BY <1>1, LineAmounts
<1>3. off \in Nat
  <2>1. l.amt * l.qty \in Nat BY <1>1
  <2> QED BY <1>1, <1>2, <2>1 DEF TakenOff
<1>4. said \in Nat /\ sub \in Int BY <1>1, <1>2, <1>3
<1>5. tax \in Int BY <1>4 DEF TaxRate
<1>6. a = [qty |-> l.qty, pct |-> l.pct, said |-> said, note |-> l.note, sub |-> sub, tax |-> tax] BY DEF Answered
<1> HIDE DEF off, said, sub, tax
<1>7. a.qty = l.qty /\ a.pct = l.pct /\ a.said = said /\ a.note = l.note /\ a.sub = sub /\ a.tax = tax BY <1>6
<1> HIDE DEF a
<1>8. FromAnswer(a) \in LineType
  <2>1. CASE a.qty = 0 BY <2>1, NoLineListed DEF FromAnswer, Listed
  <2>2. CASE a.qty # 0
    <3>1. FromAnswer(a) = [NoLine EXCEPT !.qty = l.qty, !.pct = l.pct, !.amt = said, !.disc = said,
                                         !.note = l.note, !.sub = sub, !.tax = tax, !.theirs = TRUE]
      BY <1>7, <2>2 DEF FromAnswer
    <3>2. NoLine \in LineType BY NoLineListed DEF Listed
    <3> QED BY <1>1, <1>4, <1>5, <3>1, <3>2 DEF LineType
  <2> QED BY <2>1, <2>2
<1>9. IsALine(FromAnswer(a)) BY <1>1, <1>7, FromAnswerIs
<1> QED BY <1>8, <1>9 DEF Listed, a

LEMMA FromParkedWhole ==
  ASSUME CartInv, NEW k \in Parks, ParkWhole(parked[k])
  PROVE  Whole(FromParked(k))
<1> DEFINE c == CartOf(parked[k])
<1>1. /\ IsACart(c) /\ c.pct = 0 /\ c.amt = 0 /\ DOMAIN c.lines = Products
      /\ \A p \in Products : c.lines[p] = FromAnswer(parked[k].lines[p])
  BY ParkIs, CartOfIs
<1>2. c.lines = [p \in Products |-> c.lines[p]] BY EmptyIs DEF CartOf, EmptyCart
<1> HIDE DEF c
<1>3. LinesOk(c.lines)
  <2>1. \A p \in Products : c.lines[p] \in LineType BY <1>1 DEF ParkWhole, Listed
  <2>2. \A p \in Products : c.lines[p].qty = 0 => c.lines[p] = NoLine BY <1>1 DEF IsACart, IsALine
  <2> QED BY <1>2, <2>1, <2>2 DEF LinesOk
<1>4. Known(c) BY <1>1, <1>3 DEF Known
<1>5. Whole(Recalculated(c)) BY <1>1, <1>4, RecalculatedIsWhole
<1> QED BY <1>5, FromParkedIs DEF c

LEMMA ParkWholeSet ==
  ASSUME CartInv, WholeInv, UNCHANGED <<basket, stored, held, hand>>, NEW k \in Parks, NEW x, ParkWhole(x),
         parked' = [parked EXCEPT ![k] = x]
  PROVE  WholeInv'
<1>1. parked'[k] = x /\ \A j \in Parks : j # k => parked'[j] = parked[j] BY WholeParts DEF ParksHeld
<1>2. ParksWhole' BY <1>1, WholeParts DEF ParksWhole
<1>3. RowsWhole' /\ HandsWhole' /\ Whole(basket') /\ Whole(stored') BY WholeParts DEF RowsWhole, HandsWhole
<1> QED BY <1>2, <1>3, WholeAgain

\* The lock of a parked cart moves, and its lines stay.
LEMMA LockMovesWhole ==
  ASSUME NEW x, IsAPark(x), ParkWhole(x), NEW st \in {"PARKED", "RECALLED", "VOIDED"}, NEW by, NEW holds, NEW unsure
  PROVE  /\ ParkWhole([x EXCEPT !.st = st, !.by = by, !.holds = holds, !.unsure = unsure])
         /\ ParkWhole([x EXCEPT !.st = st])
BY DEF IsAPark, ParkWhole

LEMMA ParkingWhole == ASSUME CartInv, WholeInv, Parking PROVE WholeInv'
<1>0. /\ Whole(basket) /\ Whole(stored) /\ HandShape /\ HandsWhole /\ RowsWhole /\ ParksWhole
      /\ \A k \in Parks : ParkWhole(parked[k]) /\ IsAPark(parked[k])
  BY WholeParts, ParkIs DEF ParksWhole
<1>1. ASSUME NEW h \in Hands, NEW k \in Parks, ParkCart(h, k) PROVE WholeInv'
  <2>1. PICK how \in Conventions :
          parked' = [parked EXCEPT ![k] = [NoPark EXCEPT !.st = "PARKED", !.customer = basket.customer,
                      !.lines = [p \in Products |-> Answered(basket.lines[p], how)], !.note = basket.note,
                      !.total = basket.sums.grand, !.plain = PlainCart(basket, how)]]
    BY <1>1 DEF ParkCart
  <2> DEFINE ls == [p \in Products |-> Answered(basket.lines[p], how)]
             total == basket.sums.grand
             plain == PlainCart(basket, how)
             customer == basket.customer
             note == basket.note
             x == [NoPark EXCEPT !.st = "PARKED", !.customer = customer, !.lines = ls, !.note = note,
                                 !.total = total, !.plain = plain]
  <2>2. UNCHANGED <<basket, stored, held, hand>> BY <1>1 DEF ParkCart
  <2>3. \A p \in Products : Listed(FromAnswer(ls[p])) BY <1>0, LineOfBasket, AnsweredListed
  <2>4. parked' = [parked EXCEPT ![k] = x] BY <2>1
  <2> HIDE DEF ls, total, plain, customer, note
  <2>5. x.st = "PARKED" /\ x.lines = ls BY DEF NoPark
  <2> HIDE DEF x
  <2>6. ParkWhole(x) BY <2>3, <2>5 DEF ParkWhole
  <2> QED BY <2>2, <2>4, <2>6, ParkWholeSet
<1>2. ASSUME NEW h \in Hands, NEW k \in Parks, ReplaceByParked(h, k) PROVE WholeInv'
  <2>1. basket' = FromParked(k) /\ Then(h, "persisting") /\ UNCHANGED <<stored, held, parked>>
    BY <1>2 DEF ReplaceByParked
  <2>2. Whole(basket') /\ Whole(stored') BY <1>0, <2>1, FromParkedWhole
  <2>3. HandsWhole' BY <1>0, <2>1, ThenWhole DEF HandStages
  <2>4. RowsWhole' /\ ParksWhole' BY <1>0, <2>1 DEF RowsWhole, ParksWhole
  <2> QED BY <2>2, <2>3, <2>4, WholeAgain
<1>3. ASSUME NEW t \in Tills, NEW k \in Parks, NEW force \in BOOLEAN, RecallParked(t, k, force) PROVE WholeInv'
  <2> DEFINE p == parked[k]
  <2>1. UNCHANGED <<basket, stored, held, hand>> BY <1>3 DEF RecallParked
  <2>2. PICK heard \in BOOLEAN :
          parked' = [parked EXCEPT ![k].st = "RECALLED", ![k].by = t, ![k].holds = IF heard THEN @ \cup {t} ELSE @,
                                   ![k].unsure = @ \/ (force /\ parked[k].by \notin {t, "none"})]
    BY <1>3 DEF RecallParked
  <2> DEFINE holds == IF heard THEN p.holds \cup {t} ELSE p.holds
             unsure == p.unsure \/ (force /\ p.by \notin {t, "none"})
             x == [p EXCEPT !.st = "RECALLED", !.by = t, !.holds = holds, !.unsure = unsure]
  <2>3. parked' = [parked EXCEPT ![k] = x] BY <1>0, <2>2 DEF IsAPark
  <2> HIDE DEF holds, unsure
  <2>4. ParkWhole(x) BY <1>0, LockMovesWhole
  <2> HIDE DEF x
  <2> QED BY <2>1, <2>3, <2>4, ParkWholeSet
<1>4. ASSUME NEW t \in Tills, NEW k \in Parks, ReleaseParked(t, k) PROVE WholeInv'
  <2> DEFINE p == parked[k]
  <2>1. UNCHANGED <<basket, stored, held, hand>> BY <1>4 DEF ReleaseParked
  <2>2. PICK heard \in BOOLEAN :
          parked' = [parked EXCEPT ![k].st = "PARKED", ![k].by = "none",
                                   ![k].holds = IF heard THEN @ \ {t} ELSE @, ![k].unsure = @ \/ ~heard]
    BY <1>4 DEF ReleaseParked
  <2> DEFINE holds == IF heard THEN p.holds \ {t} ELSE p.holds
             unsure == p.unsure \/ ~heard
             x == [p EXCEPT !.st = "PARKED", !.by = "none", !.holds = holds, !.unsure = unsure]
  <2>3. parked' = [parked EXCEPT ![k] = x] BY <1>0, <2>2 DEF IsAPark
  <2> HIDE DEF holds, unsure
  <2>4. ParkWhole(x) BY <1>0, LockMovesWhole
  <2> HIDE DEF x
  <2> QED BY <2>1, <2>3, <2>4, ParkWholeSet
<1>5. ASSUME NEW k \in Parks, VoidParked(k) PROVE WholeInv'
  <2> DEFINE x == [parked[k] EXCEPT !.st = "VOIDED"]
  <2>1. parked' = [parked EXCEPT ![k] = x] /\ UNCHANGED <<basket, stored, held, hand>> BY <1>5 DEF VoidParked
  <2>2. ParkWhole(x) BY <1>0, LockMovesWhole
  <2> HIDE DEF x
  <2> QED BY <2>1, <2>2, ParkWholeSet
<1> QED BY <1>1, <1>2, <1>3, <1>4, <1>5 DEF Parking

-----------------------------------------------------------------------------
LEMMA WholeStep == CartInv /\ WholeInv /\ [CartNext]_cartVars => WholeInv'
<1> SUFFICES ASSUME CartInv, WholeInv, [CartNext]_cartVars PROVE WholeInv' OBVIOUS
<1>1. ASSUME NEW h \in Hands, RingsUp(h) PROVE WholeInv' BY <1>1, RingsUpWhole
<1>2. ASSUME NEW h \in Hands, Attends(h) PROVE WholeInv' BY <1>2, AttendsWhole
<1>3. ASSUME NEW h \in Hands, Empties(h) \/ Persist(h) \/ NotWritten(h) PROVE WholeInv' BY <1>3, EmptiesWhole
<1>4. ASSUME NEW h \in Hands, Holds(h) PROVE WholeInv' BY <1>4, HoldsWhole
<1>5. CASE Restarts \/ \E d \in Drafts : Expires(d) BY <1>5, RestartsWhole
<1>6. CASE Parking BY <1>6, ParkingWhole
<1>7. CASE UNCHANGED cartVars BY <1>7 DEF cartVars, WholeInv
<1> QED BY <1>1, <1>2, <1>3, <1>4, <1>5, <1>6, <1>7 DEF CartNext

LEMMA WholeInit == CartInit => WholeInv
<1> SUFFICES ASSUME CartInit PROVE WholeInv OBVIOUS
<1>1. /\ basket = EmptyCart /\ stored = NoCart /\ held = [d \in Drafts |-> NoDraft]
      /\ parked = [k \in Parks |-> NoPark] /\ hand = [h \in Hands |-> Resting]
  BY DEF CartInit
<1>2. NoDraft.row = EmptyCart BY DEF NoDraft
<1>3. RowsWhole BY <1>1, <1>2, EmptyIsWhole DEF RowsWhole
<1>4. HandsWhole BY <1>1, RestingIsWhole DEF HandsWhole
<1>5. ParkWhole(NoPark)
  <2>1. NoPark.st = "none" /\ \A p \in Products : NoPark.lines[p] = NoLine BY DEF NoPark, EmptyCart
  <2>2. FromAnswer(NoLine) = NoLine BY DEF FromAnswer, NoLine
  <2> QED BY <2>1, <2>2, NoLineListed DEF ParkWhole
<1>6. ParksWhole BY <1>1, <1>5 DEF ParksWhole
<1> QED BY <1>1, <1>3, <1>4, <1>6, EmptyIsWhole, WholeParts

LEMMA WholeIsCurrent == CartInv /\ WholeInv /\ OnDisk => CartIsCurrent
<1> SUFFICES ASSUME CartInv, WholeInv, OnDisk PROVE CartIsCurrent OBVIOUS
<1>1. ASSUME NEW c, Whole(c) PROVE IsCart(c)
  BY <1>1 DEF Whole, Known, LinesOk, IsCart
<1>2. CartTypeOK
  <2>1. \A c \in {basket, stored} \cup {held[d].row : d \in Drafts} \cup {hand[h].cart : h \in Hands} : Whole(c)
    BY DEF WholeInv
  <2>2. \A d \in Drafts : held[d].st \in {"none", "live", "expired", "gone"} BY DEF CartInv, HeldShape, IsADraft
  <2>3. \A k \in Parks : parked[k].holds \subseteq Tills BY ParkIs DEF LockHeld
  <2> QED BY <1>1, <2>1, <2>2, <2>3 DEF CartTypeOK, WholeInv, HandStages
<1>3. SumsAreCurrent
  <2>1. Whole(basket) /\ Whole(stored) BY DEF WholeInv
  <2>2. \A c \in {basket, stored} : \A p \in Products : c.lines[p].theirs \/ c.lines[p] = Priced(c.lines[p])
    BY <2>1 DEF Whole, IsACart, IsALine
  <2>3. \A c \in {basket, stored} : c.sums.grand = IF Asked(c) < 0 THEN 0 ELSE Asked(c)
    BY <2>1 DEF Whole, Payable
  <2> QED BY <2>2, <2>3 DEF SumsAreCurrent
<1> QED BY <1>2, <1>3, OnDiskShows DEF CartIsCurrent

\* The cart on the screen, its copy on disk and every cart put aside are made
\* of lines of the products with a quantity in its bounds.  On the screen and on
\* disk the amount shown is what the lines with their tax come to less the
\* discount of the cart, never below nothing, and a line's figures are those of
\* its quantity and its discount - but for a line brought back from the platform,
\* which keeps the platform's figures until it is changed.  With no call under
\* way the row is the cart, with four exceptions: a note was set on a line since
\* the last write, the delete of clear_all fell behind a change, a write or a
\* delete failed, or the row was not read after a crash (CartService,
\* DraftService, SharedDraftService), for every number of products, drafts,
\* parked carts and threads.
THEOREM CartIsCurrentAlways == CartSpec => []CartIsCurrent
<1>1. CartInit => CartInv /\ WholeInv /\ OnDisk BY CartInitHolds, WholeInit, OnDiskInit
<1>2. CartInv /\ WholeInv /\ OnDisk /\ [CartNext]_cartVars => CartInv' /\ WholeInv' /\ OnDisk'
  BY CartStepKeeps, WholeStep, OnDiskStep
<1> QED BY <1>1, <1>2, WholeIsCurrent, PTL DEF CartSpec
=============================================================================
