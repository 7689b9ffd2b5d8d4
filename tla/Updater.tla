------------------------------ MODULE Updater ------------------------------
(***************************************************************************)
(* The launcher: at each start it backs the installation up, fetches and   *)
(* extracts the release the platform offers, restores the newest backup if *)
(* the extraction fails, and launches what is installed.  Directories are  *)
(* copied file by file, may fail at any file, and the launcher may be      *)
(* killed; nothing keeps a second launcher from running beside it.         *)
(***************************************************************************)
EXTENDS Integers, FiniteSets

CONSTANTS
  Launchers,   \* launcher processes
  Files,       \* files of a release, one of them the application's binary
  Binary, Extra,  \* Extra: a file the release adds
  Keep,        \* backups kept after an update, 3
  MaxBackups,  \* bound on backups, named by the time they were made
  MaxMishaps   \* bound on failures and kills

ASSUME UpdaterAssumption ==
  /\ Binary \in Files /\ Extra \in Files \ {Binary} /\ Keep \in Nat \ {0} /\ MaxBackups \in Nat /\ MaxMishaps \in Nat

VARIABLES
  nested,     \* backup_dir lies inside install_dir, as main.rs sets it
  install,    \* install_dir: each file's release, 0 for none
  backups,    \* backup_dir: what each backup holds, by its name
  made,       \* backups made
  launcher,   \* each launcher: where it is, its backup, files to copy, what it found,
              \* and whether no other ran beside it
  launched,   \* the installation the application was last started from, and its upsets
  upsets,     \* history: what happened to the installation since it was last whole
  mishaps

updaterVars == <<nested, install, backups, made, launcher, launched, upsets, mishaps>>

Nothing   == [f \in Files |-> 0]
Former    == [f \in Files |-> IF f = Extra THEN 0 ELSE 1]
Release   == [f \in Files |-> 2]
Resting   == [at |-> "off", backup |-> 0, left |-> {}, found |-> Nothing, alone |-> TRUE]

Upping(p, stage) == launcher[p].at = stage
UpTo(p, stage)   == launcher' = [launcher EXCEPT ![p].at = stage, ![p].left = Files]
Copied(p, f)     == launcher' = [launcher EXCEPT ![p].left = @ \ {f}]
Mishap           == mishaps < MaxMishaps /\ mishaps' = mishaps + 1
Smooth           == UNCHANGED mishaps
Upset(e)         == upsets' = upsets \cup e
Writing          == {p \in Launchers : launcher[p].at \in {"extracting", "restoring", "removing"}}
Others(p)        == IF launcher[p].alone THEN {} ELSE {"two-launchers"}

-----------------------------------------------------------------------------
\* Updater::check_and_update: nothing offered, nothing answered, or a release.
Check(p) ==
  /\ Upping(p, "off") /\ Smooth
  /\ \E next \in {"launching", "backing"} :
       LET alone == \A q \in Launchers : Upping(q, "off") IN
       launcher' = [q \in Launchers |->
         IF q = p THEN [Resting EXCEPT !.at = next, !.left = Files, !.found = install, !.alone = alone]
         ELSE IF Upping(q, "off") THEN launcher[q] ELSE [launcher[q] EXCEPT !.alone = FALSE]]
  /\ UNCHANGED <<nested, install, backups, made, launched, upsets>>

\* create_backup; a directory inside the one copied is copied into itself until
\* the path is too long, so the backup fails, and with it the update.
OpenBackup(p) ==
  /\ Upping(p, "backing") /\ made < MaxBackups /\ made' = made + 1 /\ Smooth
  /\ backups' = [backups EXCEPT ![made'] = Nothing]
  /\ IF nested THEN UpTo(p, "launching")
     ELSE launcher' = [launcher EXCEPT ![p].at = "copying", ![p].backup = made']
  /\ UNCHANGED <<nested, install, launched, upsets>>

CopyOut(p, f) ==
  /\ Upping(p, "copying") /\ f \in launcher[p].left /\ Copied(p, f) /\ Smooth
  /\ backups' = [backups EXCEPT ![launcher[p].backup][f] = install[f]]
  /\ UNCHANGED <<nested, install, made, launched, upsets>>

BackedUp(p) ==
  /\ Upping(p, "copying") /\ launcher[p].left = {} /\ UpTo(p, "fetching") /\ Smooth
  /\ UNCHANGED <<nested, install, backups, made, launched, upsets>>

SlipUpdatesAnyway(p) ==
  /\ Upping(p, "copying") /\ UpTo(p, "fetching") /\ Mishap
  /\ UNCHANGED <<nested, install, backups, made, launched, upsets>>

BackupFails(p) ==
  /\ Upping(p, "copying") /\ UpTo(p, "launching") /\ Mishap
  /\ UNCHANGED <<nested, install, backups, made, launched, upsets>>

\* download: failed, mismatched, or taken - unverified where no checksum came.
Fetch(p) ==
  /\ Upping(p, "fetching")
  /\ \/ UpTo(p, "extracting") /\ Smooth
     \/ UpTo(p, "launching") /\ Mishap
  /\ UNCHANGED <<nested, install, backups, made, launched, upsets>>

ExtractFile(p, f) ==
  /\ Upping(p, "extracting") /\ f \in launcher[p].left /\ Copied(p, f) /\ Smooth
  /\ install' = [install EXCEPT ![f] = 2] /\ Upset(Others(p))
  /\ UNCHANGED <<nested, backups, made, launched>>

\* Extracted: only the newest backups are kept.
Extracted(p) ==
  /\ Upping(p, "extracting") /\ launcher[p].left = {} /\ UpTo(p, "launching") /\ Smooth
  /\ backups' = [b \in 1..MaxBackups |-> IF b + Keep <= made THEN Nothing ELSE backups[b]]
  /\ upsets' = IF launcher[p].alone THEN {} ELSE upsets
  /\ UNCHANGED <<nested, install, made, launched>>

ExtractFails(p) ==
  /\ Upping(p, "extracting") /\ UpTo(p, "removing") /\ Mishap
  /\ UNCHANGED <<nested, install, backups, made, launched, upsets>>

SlipRestoresOver(p) ==
  /\ Upping(p, "removing") /\ Smooth
  /\ launcher' = [launcher EXCEPT ![p].at = "restoring", ![p].backup = made, ![p].left = Files]
  /\ UNCHANGED <<nested, install, backups, made, launched, upsets>>

\* restore_backup: the newest backup by name, whoever made it; the installation
\* is removed first.
RemoveInstall(p) ==
  /\ Upping(p, "removing") /\ install' = Nothing /\ Smooth
  /\ launcher' = [launcher EXCEPT ![p].at = "restoring", ![p].left = Files, ![p].backup = made]
  /\ Upset(Others(p)) /\ UNCHANGED <<nested, backups, made, launched>>

CopyBack(p, f) ==
  /\ Upping(p, "restoring") /\ f \in launcher[p].left /\ Copied(p, f) /\ Smooth
  /\ LET kept == backups[launcher[p].backup][f] IN
     install' = [install EXCEPT ![f] = IF kept = 0 THEN @ ELSE kept]
  /\ Upset(Others(p))
  /\ UNCHANGED <<nested, backups, made, launched>>

Restored(p) ==
  /\ Upping(p, "restoring") /\ launcher[p].left = {} /\ UpTo(p, "launching") /\ Smooth
  /\ UNCHANGED <<nested, install, backups, made, launched, upsets>>

RestoreFails(p) ==
  /\ launcher[p].at \in {"removing", "restoring"} /\ UpTo(p, "launching") /\ Mishap
  /\ Upset({"restore-failed"})
  /\ UNCHANGED <<nested, install, backups, made, launched>>

\* launch: whatever is installed, if its binary is there.
Launch(p) ==
  /\ Upping(p, "launching") /\ launcher' = [launcher EXCEPT ![p] = Resting] /\ Smooth
  /\ Upset(IF Writing = {} THEN {} ELSE {"two-launchers"})
  /\ launched' = IF install[Binary] = 0 THEN launched ELSE [from |-> install, upsets |-> upsets']
  /\ UNCHANGED <<nested, install, backups, made>>

Kill(p) ==
  /\ ~Upping(p, "off") /\ Mishap
  /\ launcher' = [launcher EXCEPT ![p] = Resting]
  /\ Upset(IF p \in Writing THEN {"killed"} ELSE {})
  /\ UNCHANGED <<nested, install, backups, made, launched>>

UpdaterInit ==
  /\ nested \in BOOLEAN /\ install = Former /\ backups = [b \in 1..MaxBackups |-> Nothing]
  /\ made = 0 /\ launcher = [p \in Launchers |-> Resting] /\ launched = [from |-> Former, upsets |-> {}] /\ upsets = {}
  /\ mishaps = 0

Copies(p) == \E f \in Files : CopyOut(p, f) \/ ExtractFile(p, f) \/ CopyBack(p, f)
UpdaterNext ==
  \E p \in Launchers :
    \/ Check(p) \/ OpenBackup(p) \/ BackedUp(p) \/ BackupFails(p) \/ Fetch(p) \/ Extracted(p)
    \/ ExtractFails(p) \/ RemoveInstall(p) \/ Restored(p) \/ RestoreFails(p) \/ Launch(p)
    \/ Kill(p) \/ Copies(p)

UpdaterSpec == UpdaterInit /\ [][UpdaterNext]_updaterVars

-----------------------------------------------------------------------------
\* The application is started from one whole release, the former or the new,
\* unless the launcher was killed while writing, could not restore, or ran twice.
LaunchedIsWhole == launched.upsets = {} => launched.from \in {Former, Release}

\* What a launcher is about to write over can be brought back: its backup is
\* what it found, and is still there.
BackupIsWhole ==
  \A p \in Launchers :
    launcher[p].at \in {"fetching", "extracting", "removing"} /\ launcher[p].alone =>
      backups[launcher[p].backup] = launcher[p].found

\* An update of one launcher that nothing cut short leaves a whole release to
\* start, and until then a way back.
UpdateIsWhole == LaunchedIsWhole /\ BackupIsWhole
=============================================================================
