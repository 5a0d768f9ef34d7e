----------------------------- MODULE ServiceDeploy -----------------------------
(***************************************************************************)
(* The commands behind deploy_artifact that replace one application and    *)
(* restart its service: scripts/deploy-bot-api-inner.sh,                   *)
(* scripts/deploy-mixchat-inner.sh and scripts/deploy-ari-bot-inner.sh.    *)
(*                                                                         *)
(* All three keep the live copy in a backup named by the second, put a     *)
(* staged copy in its place, restart, and roll back on some failures; each *)
(* does so in its own way.  They run under set -e: a command that fails    *)
(* outside a condition ends the script where it stands.  mixchat deploys   *)
(* its application, the directories of its h5 part, or both in one run;    *)
(* the application also holds the uploads of its users, in storage/.       *)
(*                                                                         *)
(* A directory that mv or cp put inside one that exists is left out: no    *)
(* script looks for it there.                                              *)
(***************************************************************************)
EXTENDS Integers, FiniteSets

CONSTANTS
    Run,          \* runs of the script; each installs a version of its own
    Dir,          \* the directories of mixchat's h5 part
    MaxStamp,     \* bound: seconds in which runs begin
    Old, Nothing, \* the version before any run; no directory, no process
    Fault         \* commands that may fail, "die" of the service, "crash" of a run

Script  == {"bot-api", "mixchat", "ari-bot"}
Version == Run \cup {Old}
Stamp   == 1..MaxStamp
Copy    == [version : Version, whole : BOOLEAN, storage : {"none", "package", "uploads"}]

ASSUME ServiceAssumption ==
    /\ Old \notin Run /\ Nothing \notin Run \cup Copy /\ Old # Nothing
    /\ MaxStamp \in Nat
    /\ Fault \subseteq {"mkdir", "mv", "cp", "rm", "stop", "start", "status", "migrate",
                       "die", "crash"}

VARIABLES
    script,   \* the script of this application
    live,     \* the application
    backup,   \* BACKUP_ROOT/<name>_<second>
    staged,   \* what stands ready beside the application, by second
    h5,       \* the directories of mixchat's h5 part, and their backups by second
    h5backup,
    serving,  \* the version of the application the running process has loaded
    pc,       \* where each run is
    stamp,    \* the second it began in, 0 before
    brings,   \* DEPLOY_APP and H5_DEPLOY_DIRS of each run
    todo,     \* the directories its loop has still to go through
    had,      \* HAD_OLD_BIN: runs of ari-bot that saved a binary
    found,    \* history: the application and the h5 part as a run found them
    foundH5,
    met,      \* history: runs that overlapped another
    stuck,    \* history: runs a failing command ended after the replacement began
    unsure    \* history: runs whose service did not stop or restart when told to

vars ==
    <<script, live, backup, staged, h5, h5backup, serving, pc, stamp, brings, todo, had,
      found, foundH5, met, stuck, unsure>>

Over == {"done", "rolledback", "failed", "killed"}
Place ==
    {"ready", "stage", "backup", "h5mkdir", "h5away", "install", "copying", "storage", "take",
     "h5install", "h5copying", "stop", "start", "verify", "restart", "migrate",
     "rollback", "rescue", "remove", "restore", "restoring",
     "h5remove", "h5restore", "h5restoring", "revive"} \cup Over

\* What a run deploys: one application, or for mixchat what its artifacts hold.
Load == [app : BOOLEAN, dirs : SUBSET Dir]
Loads ==
    IF script = "mixchat"
    THEN {load \in Load : load.app \/ load.dirs # {}}
    ELSE {[app |-> TRUE, dirs |-> {}]}

\* The copy a run brings: mixchat's package has a storage directory, or none.
Package(r, storage) == [version |-> r, whole |-> TRUE, storage |-> storage]
OldCopy == Package(Old, IF script = "mixchat" THEN "uploads" ELSE "none")

Init ==
    /\ script \in Script
    /\ live = OldCopy
    /\ backup = [t \in Stamp |-> Nothing] /\ staged = [t \in Stamp |-> Nothing]
    /\ h5 = [d \in Dir |-> Package(Old, "none")]
    /\ h5backup = [t \in Stamp |-> [d \in Dir |-> Nothing]]
    /\ serving \in {Old, Nothing}
    /\ pc = [r \in Run |-> "ready"] /\ stamp = [r \in Run |-> 0]
    /\ brings = [r \in Run |-> [app |-> FALSE, dirs |-> {}]] /\ todo = [r \in Run |-> {}]
    /\ found = [r \in Run |-> Nothing] /\ foundH5 = [r \in Run |-> h5]
    /\ had = {} /\ met = {} /\ stuck = {} /\ unsure = {}

Active == {r \in Run : pc[r] \notin Over \cup {"ready"}}
Begun  == {r \in Run : stamp[r] # 0}

Goto(r, label) == pc' = [pc EXCEPT ![r] = label]

\* A command fails where nothing catches it.
Abort(r) == Goto(r, "failed") /\ stuck' = stuck \cup {r}

Saved(r) == backup[stamp[r]]
HasStorage(copy) == copy # Nothing /\ copy.storage # "none"
files == <<live, backup, staged>>
h5part == <<h5, h5backup, brings, todo, foundH5>>
ghosts == <<had, found, met, unsure>>

\* The loops over H5_DEPLOY_DIRS take the directories in an order of their own.
Current(r) == CHOOSE d \in todo[r] : TRUE
H5Saved(r) == h5backup[stamp[r]][Current(r)]

\* On to the next directory, or to what comes after the loop.
NextDir(r, again, after) ==
    LET left == todo[r] \ {Current(r)} IN
    IF left = {}
    THEN Goto(r, after) /\ todo' = [todo EXCEPT ![r] = brings[r].dirs]
    ELSE Goto(r, again) /\ todo' = [todo EXCEPT ![r] = left]

\* Where a run goes when the loop before is over or has nothing to do.
Loop(r, place, after) == IF brings[r].dirs = {} THEN after ELSE place

----------------------------------------------------------------------------
(* Up to the replacement *)

\* The artifact is checked and unpacked before anything is changed.
Refuse(r) ==
    /\ pc[r] = "ready"
    /\ Goto(r, "failed")
    /\ UNCHANGED <<script, h5part, files, serving, stamp, stuck, ghosts>>

\* bot-api wants the application to be there.  The clock reads whole seconds;
\* runs that follow each other read different ones.
Begin(r) ==
    /\ pc[r] = "ready"
    /\ script = "bot-api" => live # Nothing
    /\ \E load \in Loads :
          /\ brings' = [brings EXCEPT ![r] = load]
          /\ todo' = [todo EXCEPT ![r] = load.dirs]
          /\ Goto(r, IF script = "bot-api" THEN "stage"
                     ELSE IF load.app THEN "backup" ELSE "h5mkdir")
    /\ \E t \in Stamp :
          /\ \A q \in Begun : stamp[q] < t \/ (stamp[q] = t /\ Active # {})
          /\ stamp' = [stamp EXCEPT ![r] = t]
    /\ found' = [found EXCEPT ![r] = live] /\ foundH5' = [foundH5 EXCEPT ![r] = h5]
    /\ met' = IF Active = {} THEN met ELSE met \cup Active \cup {r}
    /\ UNCHANGED <<script, files, h5, h5backup, serving, had, stuck, unsure>>

\* The new version is put beside the live one: rm -rf, then cp -a, for bot-api
\* before the backup, for ari-bot after it.
Stage(r) ==
    /\ pc[r] = "stage"
    /\ \/ /\ staged' = [staged EXCEPT ![stamp[r]] = Package(r, "none")]
          /\ Goto(r, IF script = "bot-api" THEN "backup" ELSE "install")
       \/ /\ {"cp", "rm"} \cap Fault # {} /\ Goto(r, "failed") /\ UNCHANGED staged
    /\ UNCHANGED <<script, h5part, live, backup, serving, stamp, stuck, ghosts>>

\* mv into a directory that exists leaves it there.
Moved(target, source) == IF target = Nothing THEN source ELSE target

\* mv of the live directory; mixchat goes on when there is none.
MoveAway(r) ==
    /\ pc[r] = "backup" /\ script # "ari-bot"
    /\ live # Nothing \/ script = "mixchat"
    /\ backup' = [backup EXCEPT ![stamp[r]] = Moved(@, live)]
    /\ live' = Nothing
    /\ Goto(r, Loop(r, "h5mkdir", "install"))
    /\ UNCHANGED <<script, h5part, staged, serving, stamp, stuck, ghosts>>

\* cp -a of the live binary, if there is one.
CopyAway(r) ==
    /\ pc[r] = "backup" /\ script = "ari-bot"
    /\ \/ /\ live # Nothing
          /\ backup' = [backup EXCEPT ![stamp[r]] = live]
          /\ had' = had \cup {r} /\ Goto(r, "stage")
       \/ live = Nothing /\ Goto(r, "stage") /\ UNCHANGED <<backup, had>>
       \/ live # Nothing /\ "cp" \in Fault /\ Goto(r, "failed") /\ UNCHANGED <<backup, had>>
    /\ UNCHANGED <<script, h5part, live, staged, serving, stamp, stuck, found, met, unsure>>

MoveAwayFails(r) ==
    /\ pc[r] = "backup" /\ script # "ari-bot"
    /\ \/ live = Nothing /\ script = "bot-api"
       \/ live # Nothing /\ "mv" \in Fault
    /\ Goto(r, "failed")
    /\ UNCHANGED <<script, h5part, files, serving, stamp, stuck, ghosts>>

----------------------------------------------------------------------------
(* Replacement *)

\* mv of the staged copy: over a binary, or into a directory that exists.
MoveInPlace(r) ==
    LET new == staged[stamp[r]] IN
    /\ pc[r] = "install" /\ script # "mixchat"
    /\ new # Nothing
    /\ live' = IF script = "ari-bot" THEN new ELSE Moved(live, new)
    /\ staged' = [staged EXCEPT ![stamp[r]] = Nothing]
    /\ Goto(r, IF script = "bot-api" THEN "stop" ELSE "restart")
    /\ UNCHANGED <<script, h5part, backup, serving, stamp, stuck, ghosts>>

\* No rollback: bot-api's application directory is moved away and stays so.
MoveInPlaceFails(r) ==
    /\ pc[r] = "install" /\ script # "mixchat"
    /\ staged[stamp[r]] = Nothing \/ "mv" \in Fault
    /\ IF script = "bot-api" THEN Abort(r) ELSE Goto(r, "failed") /\ UNCHANGED stuck
    /\ UNCHANGED <<script, h5part, files, serving, stamp, ghosts>>

\* cp -a makes its target when there is none, or works on one inside it.
CopyBegins(r) ==
    /\ pc[r] = "install" /\ script = "mixchat"
    /\ \E storage \in {"none", "package"} :
          live' = Moved(live, [Package(r, storage) EXCEPT !.whole = FALSE])
    /\ Goto(r, "copying")
    /\ UNCHANGED <<script, h5part, backup, staged, serving, stamp, stuck, ghosts>>

Half(v) == live # Nothing /\ live.version = v /\ ~live.whole

\* A copy whose target another run has taken fails, or is left out of sight.
CopyEnds(r) ==
    /\ pc[r] = "copying"
    /\ \/ /\ live' = IF Half(r) THEN [live EXCEPT !.whole = TRUE] ELSE live
          /\ Goto(r, "storage")
       \/ ("cp" \in Fault \/ ~Half(r)) /\ Goto(r, "rollback") /\ UNCHANGED live
    /\ UNCHANGED <<script, h5part, backup, staged, serving, stamp, stuck, ghosts>>

\* The storage directory of the package makes room for the uploads.
DropStorage(r) ==
    /\ pc[r] = "storage"
    /\ IF HasStorage(Saved(r))
       THEN /\ live' = IF live = Nothing THEN live ELSE [live EXCEPT !.storage = "none"]
            /\ Goto(r, "take")
       ELSE Goto(r, Loop(r, "h5install", "restart")) /\ UNCHANGED live
    /\ UNCHANGED <<script, h5part, backup, staged, serving, stamp, stuck, ghosts>>

\* rm -rf fails, perhaps half way: no rollback, the uploads stay in the backup.
DropStorageFails(r) ==
    /\ pc[r] = "storage" /\ "rm" \in Fault
    /\ HasStorage(Saved(r)) /\ HasStorage(live)
    /\ \E storage \in {"none", live.storage} : live' = [live EXCEPT !.storage = storage]
    /\ Abort(r)
    /\ UNCHANGED <<script, h5part, backup, staged, serving, stamp, ghosts>>

\* Seeded bug: the exit code of mv is not looked at.
TakeStorageUnnoticed(r) ==
    /\ pc[r] = "take"
    /\ \/ /\ live # Nothing /\ HasStorage(Saved(r))
          /\ live' = [live EXCEPT !.storage = IF @ = "none" THEN Saved(r).storage ELSE @]
          /\ backup' = [backup EXCEPT ![stamp[r]].storage = "none"]
       \/ /\ live = Nothing \/ ~HasStorage(Saved(r)) \/ "mv" \in Fault
          /\ UNCHANGED <<live, backup>>
    /\ Goto(r, Loop(r, "h5install", "restart"))
    /\ UNCHANGED <<script, h5part, staged, serving, stamp, stuck, ghosts>>

TakeStorage(r) ==
    /\ pc[r] = "take"
    /\ \/ /\ live # Nothing /\ HasStorage(Saved(r))
          /\ live' = [live EXCEPT !.storage = IF @ = "none" THEN Saved(r).storage ELSE @]
          /\ backup' = [backup EXCEPT ![stamp[r]].storage = "none"]
          /\ Goto(r, Loop(r, "h5install", "restart"))
       \/ /\ live = Nothing \/ ~HasStorage(Saved(r)) \/ "mv" \in Fault
          /\ Goto(r, "rollback") /\ UNCHANGED <<live, backup>>
    /\ UNCHANGED <<script, h5part, staged, serving, stamp, stuck, ghosts>>

----------------------------------------------------------------------------
(* Restart *)

\* bot-api goes on when the service does not stop.
Stop(r) ==
    /\ pc[r] = "stop"
    /\ \/ serving' = Nothing /\ UNCHANGED unsure
       \/ "stop" \in Fault /\ unsure' = unsure \cup {r} /\ UNCHANGED serving
    /\ Goto(r, "start")
    /\ UNCHANGED <<script, h5part, files, stamp, stuck, had, found, met>>

\* What a process that comes up has loaded.
Reloaded == IF live # Nothing /\ live.whole THEN live.version ELSE Nothing

\* A process that is running keeps what it has loaded.
Started == IF serving = Nothing THEN Reloaded ELSE serving

\* start -d returns before the daemon serves, also when it will not.
Start(r) ==
    /\ pc[r] = "start"
    /\ \/ serving' = Started /\ Goto(r, "verify")
       \/ /\ "start" \in Fault \/ Started = Nothing
          /\ serving' \in {serving, Started}
          /\ Goto(r, "rollback")
    /\ UNCHANGED <<script, h5part, files, stamp, stuck, ghosts>>

\* ari-bot believes the exit code of manage.sh status.  bot-api polls for 30 s
\* for an output that is not empty and does not say "connect to server fail",
\* which the errors of an application that is broken may be as well, and then
\* looks for a process of the recorded number.
Verify(r) ==
    /\ pc[r] = "verify"
    /\ \/ /\ serving # Nothing \/ (script = "bot-api" /\ "status" \in Fault)
          /\ Goto(r, "done")
       \/ /\ serving = Nothing \/ "status" \in Fault
          /\ Goto(r, "rollback")
    /\ UNCHANGED <<script, h5part, files, serving, stamp, stuck, ghosts>>

\* manage.sh restart: a failure is rolled back.  docker restart: a failure is a
\* warning, and the migrations are skipped.  Either may exit 0 with nothing
\* running, and fail with the service up again.
Restart(r) ==
    /\ pc[r] = "restart"
    /\ \/ /\ serving' = Reloaded
          /\ Goto(r, IF script = "ari-bot" THEN "verify" ELSE "migrate")
          /\ UNCHANGED unsure
       \/ /\ "start" \in Fault \/ Reloaded = Nothing
          /\ Goto(r, IF script = "ari-bot" THEN "rollback" ELSE "done")
          /\ serving' \in {serving, Reloaded, Nothing}
          /\ unsure' = unsure \cup {r}
    /\ UNCHANGED <<script, h5part, files, stamp, stuck, had, found, met>>

\* Migrations that fail end the script on the new version.
Migrate(r) ==
    /\ pc[r] = "migrate"
    /\ \/ Goto(r, "done") /\ UNCHANGED stuck
       \/ "migrate" \in Fault /\ Abort(r)
    /\ UNCHANGED <<script, h5part, files, serving, stamp, ghosts>>

\* The process ends by itself: nothing but the scripts starts it again.
Dies ==
    /\ "die" \in Fault
    /\ serving # Nothing /\ serving' = Nothing
    /\ UNCHANGED <<script, h5part, files, pc, stamp, stuck, ghosts>>

----------------------------------------------------------------------------
(* Rollback *)

\* ari-bot touches nothing when there was no binary.
Restores(r) == script = "ari-bot" => r \in had

\* Seeded bug: the application is removed with the uploads in it.
RollbackAtOnce(r) ==
    /\ pc[r] = "rollback"
    /\ Goto(r, IF brings[r].app THEN "remove" ELSE "h5remove")
    /\ UNCHANGED <<script, h5part, files, serving, stamp, stuck, ghosts>>

\* The uploads were moved into the application already.
Taken(r) == HasStorage(live) /\ Saved(r) # Nothing /\ ~HasStorage(Saved(r))

\* mixchat looks for them before it removes anything.
Rollback(r) ==
    /\ pc[r] = "rollback"
    /\ Goto(r, IF ~brings[r].app THEN "h5remove"
               ELSE IF script = "mixchat" /\ Taken(r) THEN "rescue" ELSE "remove")
    /\ UNCHANGED <<script, h5part, files, serving, stamp, stuck, ghosts>>

Rescue(r) ==
    /\ pc[r] = "rescue"
    /\ \/ /\ HasStorage(live)
          /\ backup' = [backup EXCEPT ![stamp[r]].storage = live.storage]
          /\ live' = [live EXCEPT !.storage = "none"]
          /\ Goto(r, "remove") /\ UNCHANGED stuck
       \/ /\ ~HasStorage(live) \/ "mv" \in Fault
          /\ Abort(r) /\ UNCHANGED <<live, backup>>
    /\ UNCHANGED <<script, h5part, staged, serving, stamp, ghosts>>

\* What follows the application in the rollback.
AfterApp(r) == IF script = "mixchat" THEN Loop(r, "h5remove", "rolledback") ELSE "revive"
AfterRemove(r) == IF Saved(r) = Nothing \/ ~Restores(r) THEN AfterApp(r) ELSE "restore"

\* rm -rf; install(1) removes the binary before it writes the one it copies.
Remove(r) ==
    /\ pc[r] = "remove"
    /\ live' = IF Restores(r) THEN Nothing ELSE live
    /\ Goto(r, AfterRemove(r))
    /\ UNCHANGED <<script, h5part, backup, staged, serving, stamp, stuck, ghosts>>

\* What is left of a directory when its removal fails.
Remains(copy) ==
    {copy} \cup {[copy EXCEPT !.whole = FALSE, !.storage = storage] :
                    storage \in {"none", copy.storage}}

RemoveFails(r) ==
    /\ pc[r] = "remove" /\ Restores(r)
    /\ "rm" \in Fault /\ live # Nothing
    /\ live' \in IF script = "ari-bot" THEN {live} ELSE Remains(live)
    /\ Abort(r)
    /\ UNCHANGED <<script, h5part, backup, staged, serving, stamp, ghosts>>

RestoreBegins(r) ==
    /\ pc[r] = "restore"
    /\ live' = Moved(live, [Saved(r) EXCEPT !.whole = FALSE])
    /\ Goto(r, "restoring")
    /\ UNCHANGED <<script, h5part, backup, staged, serving, stamp, stuck, ghosts>>

\* Half a copy is left when the restoration fails: the script ends there.
RestoreEnds(r) ==
    /\ pc[r] = "restoring"
    /\ \/ /\ live' = IF Half(Saved(r).version) THEN Saved(r) ELSE live
          /\ Goto(r, AfterApp(r)) /\ UNCHANGED stuck
       \/ /\ "cp" \in Fault \/ ~Half(Saved(r).version)
          /\ Abort(r) /\ UNCHANGED live
    /\ UNCHANGED <<script, h5part, backup, staged, serving, stamp, ghosts>>

\* Stop and start again, whatever comes of it.
Revive(r) ==
    /\ pc[r] = "revive"
    /\ staged' = [staged EXCEPT ![stamp[r]] = Nothing]
    /\ \/ ~Restores(r) /\ UNCHANGED <<serving, unsure>>
       \/ /\ Restores(r)
          /\ \/ serving' \in {Reloaded, Nothing} /\ UNCHANGED unsure
             \/ "stop" \in Fault /\ unsure' = unsure \cup {r} /\ UNCHANGED serving
    /\ Goto(r, "rolledback")
    /\ UNCHANGED <<script, h5part, live, backup, stamp, stuck, had, found, met>>

\* bot-api's rm -rf of the staged copy comes before the restart.
ReviveFails(r) ==
    /\ pc[r] = "revive" /\ script = "bot-api"
    /\ "rm" \in Fault /\ staged[stamp[r]] # Nothing
    /\ Abort(r)
    /\ UNCHANGED <<script, h5part, files, serving, stamp, ghosts>>

----------------------------------------------------------------------------

(* The h5 part of mixchat: backup, installation, rollback *)

MakeBackup(r) ==
    /\ pc[r] = "h5mkdir"
    /\ Goto(r, "h5away")
    /\ UNCHANGED <<script, h5part, files, serving, stamp, stuck, ghosts>>

\* Seeded bug: a copy that may be cut short, then rm -rf.
MoveDirByCopy(r) ==
    LET d == Current(r) IN
    /\ pc[r] = "h5away"
    /\ \E whole \in BOOLEAN :
          h5backup' = [h5backup EXCEPT ![stamp[r]][d] =
             Moved(@, IF h5[d] = Nothing THEN Nothing
                      ELSE [h5[d] EXCEPT !.whole = @ /\ whole])]
    /\ h5' = [h5 EXCEPT ![d] = Nothing]
    /\ NextDir(r, "h5away", IF brings[r].app THEN "install" ELSE "h5install")
    /\ UNCHANGED <<script, files, serving, stamp, brings, foundH5, stuck, ghosts>>

\* mv of a directory that is there.
MoveDirAway(r) ==
    LET d == Current(r) IN
    /\ pc[r] = "h5away"
    /\ h5backup' = [h5backup EXCEPT ![stamp[r]][d] = Moved(@, h5[d])]
    /\ h5' = [h5 EXCEPT ![d] = Nothing]
    /\ NextDir(r, "h5away", IF brings[r].app THEN "install" ELSE "h5install")
    /\ UNCHANGED <<script, files, serving, stamp, brings, foundH5, stuck, ghosts>>

\* No rollback, whatever has been moved away by then.
BackupFails(r) ==
    /\ \/ pc[r] = "h5mkdir" /\ "mkdir" \in Fault
       \/ pc[r] = "h5away" /\ h5[Current(r)] # Nothing /\ "mv" \in Fault
    /\ IF brings[r].app \/ todo[r] # brings[r].dirs
       THEN Abort(r) ELSE Goto(r, "failed") /\ UNCHANGED stuck
    /\ UNCHANGED <<script, h5part, files, serving, stamp, ghosts>>

\* cp -a from the staged copy, or back from the backup.
Source(r) == IF pc[r] \in {"h5install", "h5copying"} THEN Package(r, "none") ELSE H5Saved(r)

CopyDirBegins(r) ==
    LET d == Current(r) IN
    /\ pc[r] \in {"h5install", "h5restore"}
    /\ h5' = [h5 EXCEPT ![d] = Moved(@, [Source(r) EXCEPT !.whole = FALSE])]
    /\ Goto(r, IF pc[r] = "h5install" THEN "h5copying" ELSE "h5restoring")
    /\ UNCHANGED <<script, files, h5backup, serving, stamp, brings, todo, foundH5, stuck, ghosts>>

HalfDir(r) == h5[Current(r)] = [Source(r) EXCEPT !.whole = FALSE]

CopyDirEnds(r) ==
    LET d == Current(r) IN
    /\ pc[r] \in {"h5copying", "h5restoring"}
    /\ h5' = [h5 EXCEPT ![d] = IF HalfDir(r) THEN Source(r) ELSE @]
    /\ IF pc[r] = "h5copying"
       THEN NextDir(r, "h5install", "restart") ELSE NextDir(r, "h5remove", "rolledback")
    /\ UNCHANGED <<script, files, h5backup, serving, stamp, brings, foundH5, stuck, ghosts>>

\* Seeded bug: the rollback leaves out the directories that are installed.
CopyDirFailsHere(r) ==
    /\ \/ pc[r] = "h5copying" /\ Goto(r, "rollback") /\ UNCHANGED stuck
       \/ pc[r] \in {"h5restoring", "h5restore"} /\ Abort(r)
    /\ "cp" \in Fault
    /\ UNCHANGED <<script, h5part, files, serving, stamp, ghosts>>

\* A failed installation is rolled back; a failed restoration ends the script.
CopyDirFails(r) ==
    /\ \/ pc[r] = "h5copying" /\ ("cp" \in Fault \/ ~HalfDir(r))
          /\ Goto(r, "rollback") /\ todo' = [todo EXCEPT ![r] = brings[r].dirs]
          /\ UNCHANGED stuck
       \/ pc[r] = "h5restoring" /\ ("cp" \in Fault \/ ~HalfDir(r))
          /\ Abort(r) /\ UNCHANGED todo
       \/ pc[r] = "h5restore" /\ "mkdir" \in Fault
          /\ Abort(r) /\ UNCHANGED todo
    /\ UNCHANGED <<script, files, h5, h5backup, serving, stamp, brings, foundH5, ghosts>>

\* A directory without a backup is removed as well.
RemoveDir(r) ==
    /\ pc[r] = "h5remove"
    /\ h5' = [h5 EXCEPT ![Current(r)] = Nothing]
    /\ IF H5Saved(r) # Nothing
       THEN Goto(r, "h5restore") /\ UNCHANGED todo
       ELSE NextDir(r, "h5remove", "rolledback")
    /\ UNCHANGED <<script, files, h5backup, serving, stamp, brings, foundH5, stuck, ghosts>>

RemoveDirFails(r) ==
    LET d == Current(r) IN
    /\ pc[r] = "h5remove" /\ "rm" \in Fault /\ h5[d] # Nothing
    /\ \E rest \in Remains(h5[d]) : h5' = [h5 EXCEPT ![d] = rest]
    /\ Abort(r)
    /\ UNCHANGED <<script, files, h5backup, serving, stamp, brings, todo, foundH5, ghosts>>

----------------------------------------------------------------------------

Crash(r) ==
    /\ "crash" \in Fault
    /\ r \in Active
    /\ Goto(r, "killed")
    /\ UNCHANGED <<script, h5part, files, serving, stamp, stuck, ghosts>>

H5Step(r) ==
    \/ MakeBackup(r) \/ MoveDirAway(r) \/ BackupFails(r)
    \/ CopyDirBegins(r) \/ CopyDirEnds(r) \/ CopyDirFails(r)
    \/ RemoveDir(r) \/ RemoveDirFails(r)

Step(r) ==
    \/ Refuse(r) \/ Begin(r) \/ Stage(r) \/ MoveAway(r) \/ CopyAway(r) \/ MoveAwayFails(r)
    \/ MoveInPlace(r) \/ MoveInPlaceFails(r) \/ CopyBegins(r) \/ CopyEnds(r)
    \/ DropStorage(r) \/ DropStorageFails(r) \/ TakeStorage(r)
    \/ Stop(r) \/ Start(r) \/ Verify(r) \/ Restart(r) \/ Migrate(r)
    \/ Rollback(r) \/ Rescue(r) \/ Remove(r) \/ RemoveFails(r)
    \/ RestoreBegins(r) \/ RestoreEnds(r) \/ Revive(r) \/ ReviveFails(r)
    \/ H5Step(r) \/ Crash(r)

Next == Dies \/ \E r \in Run : Step(r)

Spec == Init /\ [][Next]_vars

----------------------------------------------------------------------------
(* Properties *)

Copies == {live} \cup {backup[t] : t \in Stamp}
DirCopies(d) == {h5[d]} \cup {h5backup[t][d] : t \in Stamp}

HasUploads(copy) == copy # Nothing /\ copy.storage = "uploads"
WholeOld(copy) == copy # Nothing /\ copy.version = Old /\ copy.whole

\* Whatever fails or is cut off: the version before the first run is kept
\* whole, the h5 part's too, also while others deploy, and the moves of mixchat's
\* storage/ to and fro never leave a single copy of the uploads where an rm -rf
\* reaches it.  Two things are not promised: runs of ari-bot that begin in one
\* second copy over the same backup, and a rollback of mixchat may remove the
\* uploads another run has just moved into place.
NothingLost ==
    /\ (script = "ari-bot" => met = {}) => \E copy \in Copies : WholeOld(copy)
    /\ \A d \in Dir : \E copy \in DirCopies(d) : WholeOld(copy)
    /\ script = "mixchat" /\ met = {} => \E copy \in Copies : HasUploads(copy)

\* No run began after r.
Latest(r) == r \in Begun /\ \A q \in Begun : stamp[q] =< stamp[r]

\* A copy of the version and the wholeness that the run found.
SameApp(r, copy) ==
    copy # Nothing /\ copy.version = found[r].version /\ copy.whole = found[r].whole

\* While a run that met no other goes on, and however it ends, each part it found
\* is there as it was, in place or in the backup of that very run: someone who
\* looks at the run's second can put things right by hand.
FoundKept ==
    \A r \in Run \ met :
        Latest(r) =>
            /\ found[r] # Nothing => SameApp(r, live) \/ SameApp(r, Saved(r))
            /\ HasUploads(found[r]) => HasUploads(live) \/ HasUploads(Saved(r))
            /\ \A d \in Dir : foundH5[r][d] # Nothing =>
                  foundH5[r][d] \in {h5[d], h5backup[stamp[r]][d]}

\* A run that met no other and exits 0 has put in place what it brings and only
\* that, with the uploads it found, also after a run that failed or was killed
\* half way; and no other version than the one in place is served, unless the
\* service did not stop or restart when told to.
SuccessMeansNew ==
    \A r \in Run \ met :
        pc[r] = "done" /\ Latest(r) =>
            /\ IF brings[r].app
               THEN live # Nothing /\ live.version = r /\ live.whole
               ELSE live = found[r]
            /\ HasUploads(found[r]) => HasUploads(live)
            /\ \A d \in Dir :
                  h5[d] = IF d \in brings[r].dirs THEN Package(r, "none") ELSE foundH5[r][d]
            /\ r \notin unsure => serving \in {Reloaded, Nothing}

\* A run that met no other and fails leaves what it found, with the uploads, and
\* does not serve its own version: whether it rolled back or had changed nothing
\* yet.  The exceptions (stuck) are the commands set -e ends the script at after
\* the replacement began: the second mv of bot-api (:174), mkdir and mv of the
\* h5 directories of mixchat (:164, :167) and its rm -rf of storage (:177), the
\* migrations (:213), and the commands of the rollbacks themselves (bot-api:163,
\* 165, 168, mixchat:141-145, 150-153, ari-bot:99).  FoundKept has no exception.
FailureRestores ==
    \A r \in Run \ (met \cup stuck) :
        pc[r] \in {"rolledback", "failed"} /\ Latest(r) =>
            /\ found[r] # Nothing => SameApp(r, live)
            /\ HasUploads(found[r]) => HasUploads(live)
            /\ h5 = foundH5[r]
            /\ found[r] # Nothing /\ r \notin unsure => serving # r
=============================================================================
