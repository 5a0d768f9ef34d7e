-------------------------- MODULE ServiceDeployProofs --------------------------
(***************************************************************************)
(* The deploys of a service lose neither the version that was there before *)
(* the first of them nor the uploads of its users; and a run that met no   *)
(* other keeps what it found, puts in place what it brings when it exits   *)
(* 0, and restores what it found when it fails, up to the exceptions       *)
(* named. For every number of runs and every choice of what fails or is    *)
(* killed.                                                                 *)
(***************************************************************************)
EXTENDS ServiceDeploy, TLAPS

----------------------------------------------------------------------------
(* The inductive invariant *)

TypeOK ==
    /\ script \in Script
    /\ live \in Copy \cup {Nothing}
    /\ backup \in [Stamp -> Copy \cup {Nothing}]
    /\ staged \in [Stamp -> Copy \cup {Nothing}]
    /\ pc \in [Run -> Place]
    /\ stamp \in [Run -> Stamp \cup {0}]
    /\ met \subseteq Run

\* The h5 part.
DirTypeOK ==
    /\ h5 \in [Dir -> Copy \cup {Nothing}]
    /\ h5backup \in [Stamp -> [Dir -> Copy \cup {Nothing}]]
    /\ brings \in [Run -> Load]
    /\ todo \in [Run -> SUBSET Dir]
    /\ foundH5 \in [Run -> [Dir -> Copy \cup {Nothing}]]

\* The places of the h5 part, and where its loops are on their way.
DirPlaces ==
    {"h5mkdir", "h5away", "h5install", "h5copying", "h5remove", "h5restore", "h5restoring"}
InLoop == DirPlaces \ {"h5mkdir"}

AppPlaces ==
    {"stage", "backup", "install", "copying", "storage", "take", "stop", "start", "verify",
     "rescue", "remove", "restore", "restoring", "revive"}

\* Each script goes through its own places only, and a run through those of what
\* it brings.
PlacesAt(r) ==
    /\ script = "mixchat" => pc[r] \notin {"stage", "stop", "start", "verify", "revive"}
    /\ script # "mixchat" =>
          pc[r] \notin {"copying", "storage", "take", "migrate", "rescue"} \cup DirPlaces
    /\ script = "ari-bot" => pc[r] \notin {"stop", "start"}
    /\ script = "bot-api" => pc[r] # "restart"
    /\ r \in Begun => brings[r] \in Loads
    /\ pc[r] \in AppPlaces => brings[r].app
    /\ pc[r] \in DirPlaces => brings[r].dirs # {}

OwnPlaces == \A r \in Run : PlacesAt(r)

\* A loop has a directory in hand, and the next one starts with all of them.
LoopAt(r) ==
    /\ todo[r] \subseteq brings[r].dirs
    /\ pc[r] \in InLoop => todo[r] # {}
    /\ pc[r] \notin InLoop \cup Over => todo[r] = brings[r].dirs
    /\ pc[r] \in {"h5restore", "h5restoring"} => H5Saved(r) # Nothing

Loops == \A r \in Run : LoopAt(r)

\* Runs that do not overlap have seconds of their own and are alone.
Alone ==
    /\ \A r \in Run : pc[r] = "ready" => stamp[r] = 0
    /\ \A r \in Active : stamp[r] # 0
    /\ met = {} =>
          /\ \A q, r \in Begun : stamp[q] = stamp[r] => q = r
          /\ \A q, r \in Active : q = r

\* A backup is there because a run has been past making it.
SavedBySome ==
    script # "bot-api" =>
        \A t \in Stamp : backup[t] # Nothing =>
            \E r \in Run : stamp[r] = t /\ pc[r] \notin {"ready", "backup"}

\* A rollback that goes for the backup has found it, and backups stay.
BackupFound ==
    \A r \in Run : pc[r] \in {"rescue", "restore", "restoring"} => Saved(r) # Nothing

OldBackedUp == \E t \in Stamp : WholeOld(backup[t])

\* bot-api stages its copy before the backup.
BeforeBackup ==
    {"ready", "backup", "failed", "killed"} \cup (IF script = "bot-api" THEN {"stage"} ELSE {})

OldLive ==
    /\ WholeOld(live)
    /\ \A r \in Run : pc[r] \in BeforeBackup \/ ~brings[r].app
    /\ \A t \in Stamp : backup[t] = Nothing

OldKept == (script = "ari-bot" => met = {}) => OldBackedUp \/ OldLive

\* The same for a directory of the h5 part.
DirBackedUp(d) == \E t \in Stamp : WholeOld(h5backup[t][d])

DirSpared(r, d) ==
    \/ d \notin brings[r].dirs
    \/ pc[r] \in {"ready", "backup", "h5mkdir", "failed", "killed"}
    \/ pc[r] = "h5away" /\ d \in todo[r]

DirLive(d) ==
    /\ WholeOld(h5[d])
    /\ \A r \in Run : DirSpared(r, d)
    /\ \A t \in Stamp : h5backup[t][d] = Nothing

DirsKept == \A d \in Dir : DirBackedUp(d) \/ DirLive(d)

UploadsBackedUp == \E t \in Stamp : HasUploads(backup[t])

\* Where the uploads are not, while a run of mixchat moves things about.
UploadsApart(r) ==
    /\ pc[r] = "install" \/ (pc[r] \in {"h5mkdir", "h5away"} /\ brings[r].app) => live = Nothing
    /\ pc[r] \in {"copying", "storage"} => live # Nothing /\ live.storage # "uploads"
    /\ pc[r] = "take" => live # Nothing /\ live.storage = "none"
    /\ pc[r] \in {"h5install", "h5copying", "rollback"} /\ brings[r].app =>
          (HasUploads(live) => Saved(r) # Nothing /\ ~HasStorage(Saved(r)))
    /\ pc[r] = "rescue" => ~HasStorage(Saved(r))
    /\ pc[r] = "remove" => ~HasUploads(live)
    /\ pc[r] = "restore" => live = Nothing
    /\ pc[r] = "restoring" => UploadsBackedUp

UploadsKept ==
    script = "mixchat" /\ met = {} =>
        /\ HasUploads(live) \/ UploadsBackedUp
        /\ \A r \in Run : UploadsApart(r)

IInv ==
    /\ TypeOK /\ DirTypeOK /\ OwnPlaces /\ Loops /\ Alone
    /\ SavedBySome /\ BackupFound /\ OldKept /\ DirsKept /\ UploadsKept

----------------------------------------------------------------------------
(* What every step leaves alone *)

\* The steps of the h5 part move the run and write the directories.
LEMMA DirFrame ==
    ASSUME TypeOK, NEW r \in Run, H5Step(r)
    PROVE  /\ UNCHANGED <<script, live, backup, staged, serving, stamp, brings, foundH5,
                          had, found, met, unsure>>
           /\ pc' = [pc EXCEPT ![r] = pc'[r]]
           /\ pc[r] \in DirPlaces
           /\ stuck' = stuck \/ (stuck' = stuck \cup {r} /\ pc'[r] = "failed")
           /\ \/ pc'[r] = "failed"
              \/ pc[r] \in {"h5mkdir", "h5away"} /\
                    \/ pc'[r] = "h5away"
                    \/ pc'[r] = IF brings[r].app THEN "install" ELSE "h5install"
              \/ /\ pc[r] \in {"h5install", "h5copying"}
                 /\ pc'[r] \in {"h5install", "h5copying", "restart", "rollback"}
              \/ /\ pc[r] \in {"h5remove", "h5restore", "h5restoring"}
                 /\ pc'[r] \in {"h5remove", "h5restore", "h5restoring", "rolledback"}
<1> USE DEF TypeOK, Goto, ghosts, files, h5part, DirPlaces, Abort
<1>1. CASE MakeBackup(r) BY <1>1 DEF MakeBackup
<1>2. CASE MoveDirAway(r) BY <1>2 DEF MoveDirAway, NextDir
<1>3. CASE BackupFails(r) BY <1>3 DEF BackupFails
<1>4. CASE CopyDirBegins(r) BY <1>4 DEF CopyDirBegins
<1>5. CASE CopyDirEnds(r) BY <1>5 DEF CopyDirEnds, NextDir
<1>6. CASE CopyDirFails(r) BY <1>6 DEF CopyDirFails
<1>7. CASE RemoveDir(r) BY <1>7 DEF RemoveDir, NextDir
<1>8. CASE RemoveDirFails(r) BY <1>8 DEF RemoveDirFails
<1> QED BY <1>1, <1>2, <1>3, <1>4, <1>5, <1>6, <1>7, <1>8 DEF H5Step

\* The others leave the h5 part alone.
LEMMA AppFrame ==
    ASSUME NEW r \in Run, Step(r), ~H5Step(r)
    PROVE  UNCHANGED <<h5, h5backup>> /\ (~Begin(r) => UNCHANGED <<brings, todo, foundH5>>)
BY DEF Step, Refuse, Begin, Stage, MoveAway, CopyAway, MoveAwayFails,
   MoveInPlace, MoveInPlaceFails, CopyBegins, CopyEnds, DropStorage, DropStorageFails,
   TakeStorage, Stop, Start, Verify, Restart, Migrate, Rollback, Rescue, Remove, RemoveFails,
   RestoreBegins, RestoreEnds, Revive, ReviveFails, Crash, h5part

\* Only the beginning of a run writes the seconds and who met whom.
LEMMA Frame ==
    ASSUME TypeOK, NEW r \in Run, Step(r)
    PROVE  /\ script' = script
           /\ \A q \in Run : q # r => pc'[q] = pc[q]
           /\ ~Begin(r) => UNCHANGED <<stamp, met, brings>>
           /\ pc[r] \in Place \ Over
           /\ ~Begin(r) /\ ~Refuse(r) => pc[r] # "ready"
<1> USE DEF TypeOK, Goto, ghosts
<1>1. CASE H5Step(r)
  BY <1>1, DirFrame DEF DirPlaces, Over, Place
<1>2. CASE ~H5Step(r)
  <2>1. pc' = [pc EXCEPT ![r] = pc'[r]]
    BY <1>2 DEF Step, Refuse, Begin, Stage, MoveAway, CopyAway, MoveAwayFails,
       MoveInPlace, MoveInPlaceFails, CopyBegins, CopyEnds, DropStorage, DropStorageFails,
       TakeStorage, Stop, Start, Verify, Restart, Migrate, Rollback, Rescue, Remove,
       RemoveFails, RestoreBegins, RestoreEnds, Revive, ReviveFails, Crash, Abort
  <2>2. script' = script /\ (~Begin(r) => UNCHANGED <<stamp, met>>)
    BY <1>2 DEF Step, Refuse, Begin, Stage, MoveAway, CopyAway, MoveAwayFails,
       MoveInPlace, MoveInPlaceFails, CopyBegins, CopyEnds, DropStorage, DropStorageFails,
       TakeStorage, Stop, Start, Verify, Restart, Migrate, Rollback, Rescue, Remove,
       RemoveFails, RestoreBegins, RestoreEnds, Revive, ReviveFails, Crash
  <2>3. pc[r] \in Place \ Over /\ (~Begin(r) /\ ~Refuse(r) => pc[r] # "ready")
    BY <1>2 DEF Step, Refuse, Begin, Stage, MoveAway, CopyAway, MoveAwayFails,
       MoveInPlace, MoveInPlaceFails, CopyBegins, CopyEnds, DropStorage, DropStorageFails,
       TakeStorage, Stop, Start, Verify, Restart, Migrate, Rollback, Rescue, Remove,
       RemoveFails, RestoreBegins, RestoreEnds, Revive, ReviveFails, Crash, Place, Over, Active
  <2> QED BY <1>2, <2>1, <2>2, <2>3, AppFrame
<1> QED BY <1>1, <1>2

----------------------------------------------------------------------------
(* Types *)

LEMMA CopyFacts ==
    /\ Nothing \notin Copy
    /\ \A r \in Run : Package(r, "none") \in Copy /\ Package(r, "package") \in Copy
    /\ OldCopy \in Copy
    /\ \A c \in Copy, w \in BOOLEAN : [c EXCEPT !.whole = w] \in Copy
    /\ \A c \in Copy, s \in {"none", "package", "uploads"} :
          [c EXCEPT !.storage = s] \in Copy
    /\ \A t, s \in Copy \cup {Nothing} : Moved(t, s) \in Copy \cup {Nothing}
BY ServiceAssumption DEF Copy, Package, OldCopy, Version, Moved

LEMMA TypeInit == Init => TypeOK
BY CopyFacts DEF Init, TypeOK, Place, Over

LEMMA TypeStep ==
    ASSUME TypeOK, Alone, BackupFound, NEW r \in Run, Step(r)
    PROVE  TypeOK'
<1> USE DEF Goto, files, ghosts, Loop, AfterApp, AfterRemove
<1>0. r \in Active => stamp[r] \in Stamp
  BY DEF TypeOK, Alone
<1>1. CASE Refuse(r) BY <1>1 DEF Refuse, TypeOK, Place, Over
<1>2. CASE Begin(r) BY <1>2 DEF Begin, TypeOK, Place, Active
<1>3. CASE Stage(r) BY <1>3, CopyFacts DEF Stage, TypeOK, Place, Over
<1>4. CASE MoveAway(r) BY <1>4, CopyFacts DEF MoveAway, TypeOK, Place
<1>5. CASE CopyAway(r) BY <1>5 DEF CopyAway, TypeOK, Place, Over
<1>6. CASE MoveAwayFails(r) BY <1>6 DEF MoveAwayFails, TypeOK, Place, Over
<1>7. CASE MoveInPlace(r)
  <2>1. stamp[r] \in Stamp BY <1>0, <1>7 DEF MoveInPlace, Active, Over
  <2>2. staged[stamp[r]] \in Copy \cup {Nothing} BY <2>1 DEF TypeOK
  <2>3. live' \in Copy \cup {Nothing} BY <1>7, <2>2, CopyFacts DEF MoveInPlace, TypeOK
  <2>4. QED BY <1>7, <2>3 DEF MoveInPlace, TypeOK, Place
<1>8. CASE MoveInPlaceFails(r) BY <1>8 DEF MoveInPlaceFails, Abort, TypeOK, Place, Over
<1>9. CASE CopyBegins(r)
  <2>1. PICK storage \in {"none", "package"} :
          live' = Moved(live, [Package(r, storage) EXCEPT !.whole = FALSE])
    BY <1>9 DEF CopyBegins
  <2>2. live' \in Copy \cup {Nothing} BY <2>1, CopyFacts DEF TypeOK
  <2>3. QED BY <1>9, <2>2 DEF CopyBegins, TypeOK, Place
<1>10. CASE CopyEnds(r)
  <2>1. live' \in Copy \cup {Nothing} BY <1>10, CopyFacts DEF CopyEnds, Half, TypeOK
  <2>2. QED BY <1>10, <2>1 DEF CopyEnds, TypeOK, Place
<1>11. CASE DropStorage(r)
  <2>1. live' \in Copy \cup {Nothing} BY <1>11, CopyFacts DEF DropStorage, TypeOK
  <2>2. QED BY <1>11, <2>1 DEF DropStorage, TypeOK, Place
<1>11a. CASE DropStorageFails(r)
  <2>1. PICK storage \in {"none", live.storage} : live' = [live EXCEPT !.storage = storage]
    BY <1>11a DEF DropStorageFails
  <2>2. live \in Copy BY <1>11a DEF DropStorageFails, HasStorage, TypeOK
  <2>3. storage \in {"none", "package", "uploads"} BY <2>2 DEF Copy
  <2>4. live' \in Copy BY <2>1, <2>2, <2>3, CopyFacts
  <2> QED BY <1>11a, <2>4 DEF DropStorageFails, Abort, TypeOK, Place, Over
<1>12. CASE TakeStorage(r)
  <2>1. stamp[r] \in Stamp BY <1>0, <1>12 DEF TakeStorage, Active, Over
  <2>2. CASE UNCHANGED <<live, backup>>
    BY <1>12, <2>2 DEF TakeStorage, TypeOK, Place
  <2>3. CASE /\ live # Nothing /\ HasStorage(Saved(r))
             /\ live' = [live EXCEPT !.storage = IF @ = "none" THEN Saved(r).storage ELSE @]
             /\ backup' = [backup EXCEPT ![stamp[r]].storage = "none"]
    <3>1. live \in Copy /\ Saved(r) \in Copy BY <2>1, <2>3 DEF TypeOK, HasStorage, Saved
    <3>2. live' \in Copy BY <2>3, <3>1 DEF Copy
    <3>3. backup' \in [Stamp -> Copy \cup {Nothing}]
      BY <2>1, <2>3, <3>1, CopyFacts DEF TypeOK, Saved
    <3>4. QED BY <1>12, <3>2, <3>3 DEF TakeStorage, TypeOK, Place
  <2>4. QED BY <1>12, <2>2, <2>3 DEF TakeStorage
<1>13. CASE Stop(r) \/ Start(r) \/ Verify(r) \/ Restart(r)
            \/ Migrate(r) \/ Rollback(r)
  BY <1>13 DEF Stop, Start, Verify, Restart, Migrate, Rollback, Abort,
               TypeOK, Place, Over
<1>14. CASE Rescue(r)
  <2>1. stamp[r] \in Stamp BY <1>0, <1>14 DEF Rescue, Active, Over
  <2>2. CASE UNCHANGED <<live, backup>>
    BY <1>14, <2>2 DEF Rescue, Abort, TypeOK, Place, Over
  <2>3. CASE /\ HasStorage(live)
             /\ backup' = [backup EXCEPT ![stamp[r]].storage = live.storage]
             /\ live' = [live EXCEPT !.storage = "none"]
    <3>1. live \in Copy BY <2>3 DEF TypeOK, HasStorage
    <3>2. live' \in Copy BY <2>3, <3>1, CopyFacts
    <3>3. Saved(r) \in Copy BY <1>14, <2>1 DEF Rescue, BackupFound, TypeOK, Saved
    <3>4. backup' \in [Stamp -> Copy \cup {Nothing}]
      <4>1. live.storage \in {"none", "package", "uploads"} BY <3>1 DEF Copy
      <4>2. [Saved(r) EXCEPT !.storage = live.storage] \in Copy
        BY <3>3, <4>1, CopyFacts
      <4>3. QED BY <2>1, <2>3, <4>2 DEF TypeOK, Saved
    <3>5. QED BY <1>14, <3>2, <3>4 DEF Rescue, Abort, TypeOK, Place, Over
  <2>4. QED BY <1>14, <2>2, <2>3 DEF Rescue
<1>15. CASE Remove(r) BY <1>15 DEF Remove, TypeOK, Place, Over
<1>15a. CASE RemoveFails(r)
  <2>1. live \in Copy BY <1>15a DEF RemoveFails, TypeOK
  <2>2. live' \in Copy
    <3>1. live' = live \/ live' \in Remains(live) BY <1>15a DEF RemoveFails
    <3> QED BY <2>1, <3>1 DEF Remains, Copy
  <2> QED BY <1>15a, <2>2 DEF RemoveFails, Abort, TypeOK, Place, Over
<1>16. CASE RestoreBegins(r)
  <2>1. stamp[r] \in Stamp BY <1>0, <1>16 DEF RestoreBegins, Active, Over
  <2>2. Saved(r) \in Copy BY <1>16, <2>1 DEF RestoreBegins, BackupFound, TypeOK, Saved
  <2>3. live' \in Copy \cup {Nothing} BY <1>16, <2>2, CopyFacts DEF RestoreBegins, TypeOK
  <2>4. QED BY <1>16, <2>3 DEF RestoreBegins, TypeOK, Place
<1>17. CASE RestoreEnds(r)
  <2>1. stamp[r] \in Stamp BY <1>0, <1>17 DEF RestoreEnds, Active, Over
  <2>2. Saved(r) \in Copy \cup {Nothing} BY <2>1 DEF TypeOK, Saved
  <2>3. live' \in Copy \cup {Nothing} BY <1>17, <2>2 DEF RestoreEnds, TypeOK
  <2>4. QED BY <1>17, <2>3 DEF RestoreEnds, Abort, TypeOK, Place, Over
<1>18. CASE Revive(r) BY <1>18 DEF Revive, TypeOK, Place, Over
<1>18a. CASE ReviveFails(r) BY <1>18a DEF ReviveFails, Abort, TypeOK, Place, Over
<1>19. CASE Crash(r) BY <1>19 DEF Crash, TypeOK, Place, Over
<1>20. CASE H5Step(r) BY <1>20, DirFrame DEF TypeOK, Place, Over, DirPlaces
<1>21. QED
  BY <1>1, <1>2, <1>3, <1>4, <1>5, <1>6, <1>7, <1>8, <1>9, <1>10, <1>11, <1>11a, <1>12,
     <1>13, <1>14, <1>15, <1>15a, <1>16, <1>17, <1>18, <1>18a, <1>19, <1>20 DEF Step

----------------------------------------------------------------------------
(* Seconds, overlaps and backups *)

LEMMA AloneStep ==
    ASSUME TypeOK, Alone, NEW r \in Run, Step(r)
    PROVE  Alone'
<1> USE DEF Alone, Begun, Active, Goto, ghosts
<1>1. CASE Refuse(r)
  BY <1>1 DEF Refuse, TypeOK, Over
<1>2. CASE Begin(r)
  <2>1. /\ pc[r] = "ready" /\ r \notin Active /\ r \in Active'
        /\ \A q \in Run \ {r} : pc'[q] = pc[q] /\ stamp'[q] = stamp[q]
        /\ \A q \in Begun : stamp[q] < stamp'[r] \/ Active # {}
        /\ stamp'[r] \in Stamp
        /\ met' = IF Active = {} THEN met ELSE met \cup Active \cup {r}
    BY <1>2 DEF Begin, TypeOK, Over, Stamp
  <2>2. stamp'[r] # 0 BY <2>1 DEF Stamp
  <2>3. ASSUME met' = {} PROVE met = {} /\ Active = {} BY <2>1, <2>3
  <2>4. ASSUME met' = {}, NEW q \in Begun', NEW p \in Begun', stamp'[q] = stamp'[p]
        PROVE  q = p
    <3>1. \A b \in Begun : stamp[b] \in Int /\ stamp[b] < stamp'[r]
      BY <2>1, <2>3, <2>4 DEF TypeOK, Stamp
    <3>2. stamp'[r] \in Int BY <2>1 DEF Stamp
    <3>3. \A b \in Run \ {r} : b \in Begun' => b \in Begun /\ stamp'[b] = stamp[b]
      BY <2>1
    <3>4. CASE q = r \/ p = r BY <2>4, <3>1, <3>2, <3>3, <3>4
    <3>5. CASE q # r /\ p # r BY <2>3, <2>4, <3>3, <3>5
    <3>6. QED BY <3>4, <3>5
  <2>5. ASSUME met' = {}, NEW q \in Active', NEW p \in Active'
        PROVE  q = p
    BY <2>1, <2>3, <2>5
  <2>6. QED BY <2>1, <2>2, <2>4, <2>5 DEF TypeOK
<1>3. CASE ~Refuse(r) /\ ~Begin(r)
  <2>1. /\ \A q \in Run : q # r => pc'[q] = pc[q]
        /\ UNCHANGED <<stamp, met>> /\ pc[r] \in Place \ Over /\ pc[r] # "ready"
    BY <1>3, Frame
  <2>2. r \in Active BY <2>1
  <2>3. pc'[r] # "ready"
    BY <1>3, DirFrame DEF DirPlaces, Loop, AfterApp, AfterRemove, TypeOK, Step, Stage, MoveAway, CopyAway, MoveAwayFails,
         MoveInPlace, MoveInPlaceFails, CopyBegins, CopyEnds, DropStorage, DropStorageFails,
         TakeStorage, Stop, Start, Verify, Restart, Migrate, Rollback, Rescue, Remove, RemoveFails,
         RestoreBegins, RestoreEnds, Revive, ReviveFails, Crash, Abort
  <2>4. Active' \subseteq Active BY <2>1, <2>2
  <2>5. QED BY <2>1, <2>3, <2>4
<1>4. QED BY <1>1, <1>2, <1>3

\* The steps that write backups.
LEMMA BackupWriters ==
    ASSUME TypeOK, NEW r \in Run, Step(r)
    PROVE  \/ backup' = backup
           \/ MoveAway(r) \/ CopyAway(r) \/ TakeStorage(r) \/ Rescue(r)
BY DirFrame
   DEF Step, Refuse, Begin, Stage, MoveAwayFails, MoveInPlace, MoveInPlaceFails,
       CopyBegins, CopyEnds, DropStorage, DropStorageFails, Stop, Start, Verify, Restart,
       Migrate, Rollback, Remove, RemoveFails, RestoreBegins, RestoreEnds, Revive, ReviveFails, Crash, files

\* A step writes the backup of its own second only.  Backups stay, and unless
\* ari-bot copies over one keep their version; new ones are made at "backup".
LEMMA BackupSteps ==
    ASSUME TypeOK, Alone, BackupFound, NEW r \in Run, Step(r)
    PROVE  /\ \A t \in Stamp : t # stamp[r] => backup'[t] = backup[t]
           /\ \A t \in Stamp : backup[t] # Nothing => backup'[t] # Nothing
           /\ \A t \in Stamp : backup[t] # Nothing /\ ~CopyAway(r) =>
                 /\ backup'[t].version = backup[t].version
                 /\ backup'[t].whole = backup[t].whole
           /\ \A t \in Stamp : backup'[t] # Nothing /\ backup[t] = Nothing =>
                 pc[r] = "backup"
<1>1. CASE backup' = backup BY <1>1
<1>2. CASE MoveAway(r)
  BY <1>2, ServiceAssumption DEF MoveAway, Moved, TypeOK
<1>3. CASE CopyAway(r)
  BY <1>3, ServiceAssumption DEF CopyAway, TypeOK
<1>4. CASE TakeStorage(r)
  <2>1. CASE UNCHANGED backup BY <2>1
  <2>2. CASE HasStorage(Saved(r)) /\ backup' = [backup EXCEPT ![stamp[r]].storage = "none"]
    <3>1. stamp[r] \in Stamp BY <1>4 DEF TakeStorage, Active, Over, Alone, TypeOK
    <3>2. backup[stamp[r]] \in Copy BY <2>2, <3>1 DEF HasStorage, Saved, TypeOK
    <3>3. backup' = [backup EXCEPT ![stamp[r]] = [backup[stamp[r]] EXCEPT !.storage = "none"]]
      BY <2>2
    <3>4. /\ backup'[stamp[r]] \in Copy
          /\ backup'[stamp[r]].version = backup[stamp[r]].version
          /\ backup'[stamp[r]].whole = backup[stamp[r]].whole
      BY <3>1, <3>2, <3>3 DEF Copy, TypeOK
    <3>5. QED BY <3>1, <3>2, <3>3, <3>4, CopyFacts DEF TypeOK
  <2>3. QED BY <1>4, <2>1, <2>2 DEF TakeStorage
<1>5. CASE Rescue(r)
  <2>1. CASE UNCHANGED backup BY <2>1
  <2>2. CASE HasStorage(live) /\ backup' = [backup EXCEPT ![stamp[r]].storage = live.storage]
    <3>1. stamp[r] \in Stamp BY <1>5 DEF Rescue, Active, Over, Alone, TypeOK
    <3>2. backup[stamp[r]] \in Copy
      BY <1>5, <3>1 DEF Rescue, BackupFound, Saved, TypeOK
    <3>3. live.storage \in {"none", "package", "uploads"}
      BY <2>2 DEF HasStorage, TypeOK, Copy
    <3>4. backup' = [backup EXCEPT ![stamp[r]] =
                        [backup[stamp[r]] EXCEPT !.storage = live.storage]]
      BY <2>2
    <3>5. /\ backup'[stamp[r]] \in Copy
          /\ backup'[stamp[r]].version = backup[stamp[r]].version
          /\ backup'[stamp[r]].whole = backup[stamp[r]].whole
      BY <3>1, <3>2, <3>3, <3>4 DEF Copy, TypeOK
    <3>6. QED BY <3>1, <3>2, <3>4, <3>5, CopyFacts DEF TypeOK
  <2>3. QED BY <1>5, <2>1, <2>2 DEF Rescue, Abort
<1>6. QED BY <1>1, <1>2, <1>3, <1>4, <1>5, BackupWriters

LEMMA SavedStep ==
    ASSUME TypeOK, Alone, BackupFound, SavedBySome, NEW r \in Run, Step(r)
    PROVE  SavedBySome'
<1> SUFFICES ASSUME script # "bot-api", NEW t \in Stamp, backup'[t] # Nothing
             PROVE  \E q \in Run : stamp'[q] = t /\ pc'[q] \notin {"ready", "backup"}
  BY Frame DEF SavedBySome, Stamp
<1>1. CASE backup[t] = Nothing
  <2>1. pc[r] = "backup" /\ stamp[r] = t BY <1>1, BackupSteps
  <2>2. UNCHANGED stamp BY <2>1, Frame DEF Begin
  <2>3. pc'[r] \notin {"ready", "backup"}
    <3>1. backup' # backup BY <1>1
    <3>2. MoveAway(r) \/ CopyAway(r) BY <2>1, <3>1, BackupWriters DEF TakeStorage, Rescue
    <3>3. QED BY <3>2 DEF MoveAway, CopyAway, Goto, TypeOK, Loop
  <2>4. QED BY <2>1, <2>2, <2>3
<1>2. CASE backup[t] # Nothing
  <2>1. PICK q \in Run : stamp[q] = t /\ pc[q] \notin {"ready", "backup"}
    BY <1>2 DEF SavedBySome
  <2>2. CASE q # r
    <3>1. pc'[q] = pc[q] /\ stamp'[q] = stamp[q]
      BY <2>2, Frame DEF Begin, TypeOK
    <3>2. QED BY <2>1, <3>1
  <2>3. CASE q = r
    <3>1. ~Refuse(r) /\ ~Begin(r) BY <2>1, <2>3 DEF Refuse, Begin
    <3>2. stamp'[r] = t BY <2>1, <2>3, <3>1, Frame
    <3>3. pc'[r] \notin {"ready", "backup"}
      <4>1. CASE Stage(r)
        BY <4>1 DEF Stage, Goto, TypeOK
      <4>2. CASE ~Stage(r)
        BY <2>1, <2>3, <3>1, <4>2, DirFrame
        DEF DirPlaces, Loop, AfterApp, AfterRemove, TypeOK, Step, MoveAway, CopyAway, MoveAwayFails, Goto,
         MoveInPlace, MoveInPlaceFails, CopyBegins, CopyEnds, DropStorage, DropStorageFails,
         TakeStorage, Stop, Start, Verify, Restart, Migrate, Rollback, Rescue, Remove, RemoveFails,
         RestoreBegins, RestoreEnds, Revive, ReviveFails, Crash, Abort
      <4>3. QED BY <4>1, <4>2
    <3>4. QED BY <3>2, <3>3
  <2>4. QED BY <2>2, <2>3
<1>3. QED BY <1>1, <1>2

\* While no runs have overlapped, the backup a run is about to make is not there.
LEMMA NoBackupYet ==
    ASSUME TypeOK, Alone, SavedBySome, script # "bot-api", met = {},
           NEW r \in Run, pc[r] = "backup"
    PROVE  stamp[r] \in Stamp /\ backup[stamp[r]] = Nothing
<1>1. r \in Active /\ stamp[r] \in Stamp
  BY DEF Active, Over, Alone, TypeOK
<1>2. ASSUME backup[stamp[r]] # Nothing PROVE FALSE
  <2>1. PICK q \in Run : stamp[q] = stamp[r] /\ pc[q] \notin {"ready", "backup"}
    BY <1>1, <1>2 DEF SavedBySome
  <2>2. q \in Begun /\ r \in Begun BY <1>1, <2>1 DEF Begun, Stamp
  <2>3. q = r BY <2>1, <2>2 DEF Alone
  <2>4. QED BY <2>1, <2>3
<1>3. QED BY <1>1, <1>2

LEMMA BackupFoundStep ==
    ASSUME TypeOK, Alone, BackupFound, NEW r \in Run, Step(r)
    PROVE  BackupFound'
<1> SUFFICES ASSUME NEW q \in Run, pc'[q] \in {"rescue", "restore", "restoring"}
             PROVE  backup'[stamp'[q]] # Nothing
  BY DEF BackupFound, Saved
<1>1. stamp'[q] = stamp[q]
  BY Frame DEF Begin, Goto, TypeOK
<1>2. backup[stamp[q]] # Nothing
  <2>1. CASE q # r BY <2>1, Frame DEF BackupFound, Saved
  <2>2. CASE q = r
    <3>1. CASE pc[r] \in {"rescue", "restore", "restoring"}
      BY <2>2, <3>1 DEF BackupFound, Saved
    <3>2. CASE pc[r] \notin {"rescue", "restore", "restoring"}
      BY <2>2, <3>2, DirFrame, ServiceAssumption
      DEF DirPlaces, Loop, AfterApp, AfterRemove, Taken, Saved, TypeOK, Step, Goto, Abort, Refuse, Begin,
         Stage, MoveAway, CopyAway, MoveAwayFails, MoveInPlace, MoveInPlaceFails, CopyBegins,
         CopyEnds, DropStorage, DropStorageFails, TakeStorage, Stop, Start, Verify, Restart,
         Migrate, Rollback, Rescue, Remove, RemoveFails, RestoreBegins, RestoreEnds, Revive, ReviveFails, Crash
    <3>3. QED BY <3>1, <3>2
  <2>3. QED BY <2>1, <2>2
<1>3. stamp[q] \in Stamp
  <2>1. CASE pc[q] \in Over \cup {"ready"}
    BY <2>1, Frame DEF Over, TypeOK, Goto, Refuse, Begin
  <2>2. CASE pc[q] \notin Over \cup {"ready"}
    BY <2>2 DEF Active, Alone, TypeOK
  <2>3. QED BY <2>1, <2>2
<1>4. QED BY <1>1, <1>2, <1>3, BackupSteps

----------------------------------------------------------------------------
(* The h5 part *)

LEMMA LoadFacts ==
    ASSUME NEW load \in Loads
    PROVE  /\ load \in Load /\ load.dirs \subseteq Dir
           /\ script # "mixchat" => load.app /\ load.dirs = {}
           /\ ~load.app => load.dirs # {}
<1>1. CASE script = "mixchat" BY <1>1 DEF Loads, Load
<1>2. CASE script # "mixchat"
  <2>1. load = [app |-> TRUE, dirs |-> {}] BY <1>2 DEF Loads
  <2>2. load.app = TRUE /\ load.dirs = {} BY <2>1
  <2>3. load \in Load BY <2>1 DEF Load
  <2> QED BY <1>2, <2>2, <2>3
<1> QED BY <1>1, <1>2

\* A run in a place of the h5 part has a directory in hand, and backups of its own.
LEMMA DirInHand ==
    ASSUME TypeOK, DirTypeOK, Loops, OwnPlaces, Alone, NEW r \in Run, pc[r] \in DirPlaces
    PROVE  /\ r \in Active /\ stamp[r] \in Stamp /\ r \in Begun
           /\ todo[r] \subseteq brings[r].dirs /\ brings[r].dirs \subseteq Dir
           /\ pc[r] \in InLoop => Current(r) \in todo[r] /\ Current(r) \in Dir
           /\ h5backup[stamp[r]] \in [Dir -> Copy \cup {Nothing}]
           /\ brings[r].dirs # {} /\ script = "mixchat"
<1>1. r \in Active
  BY DEF DirPlaces, Active, Over
<1>2. stamp[r] \in Stamp /\ r \in Begun
  BY <1>1 DEF TypeOK, Alone, Begun
<1>3. brings[r].dirs \subseteq Dir
  BY DEF DirTypeOK, Load
<1>4. todo[r] \subseteq brings[r].dirs /\ (pc[r] \in InLoop => todo[r] # {})
  BY DEF Loops, LoopAt
<1>5. pc[r] \in InLoop => Current(r) \in todo[r]
  BY <1>4 DEF Current
<1>6. brings[r].dirs # {} /\ script = "mixchat"
  BY DEF OwnPlaces, PlacesAt
<1>7. h5backup[stamp[r]] \in [Dir -> Copy \cup {Nothing}]
  BY <1>2 DEF DirTypeOK
<1> QED BY <1>1, <1>2, <1>3, <1>4, <1>5, <1>6, <1>7

\* What a step of the h5 part does to the directory in hand; it spares the others.
LEMMA DirEffect ==
    ASSUME TypeOK, DirTypeOK, Loops, OwnPlaces, Alone, NEW r \in Run, H5Step(r)
    PROVE  \/ UNCHANGED <<h5, h5backup>>
           \/ /\ pc[r] \in InLoop
              /\ \E c \in Copy \cup {Nothing} :
                    /\ h5' = [h5 EXCEPT ![Current(r)] = c]
                    /\ pc[r] = "h5away" => c = Nothing
              /\ \/ h5backup' = h5backup
                 \/ /\ pc[r] = "h5away"
                    /\ h5backup' = [h5backup EXCEPT ![stamp[r]] =
                          [h5backup[stamp[r]] EXCEPT ![Current(r)] =
                              Moved(h5backup[stamp[r]][Current(r)], h5[Current(r)])]]
<1> USE DEF h5part
<1>1. CASE MakeBackup(r) BY <1>1 DEF MakeBackup
<1>2. CASE MoveDirAway(r) BY <1>2 DEF MoveDirAway, InLoop, DirPlaces
<1>3. CASE BackupFails(r) BY <1>3 DEF BackupFails
<1>4. CASE CopyDirBegins(r)
  <2>1. pc[r] \in InLoop /\ pc[r] # "h5away" BY <1>4 DEF CopyDirBegins, InLoop, DirPlaces
  <2>2. Current(r) \in Dir /\ h5backup[stamp[r]] \in [Dir -> Copy \cup {Nothing}]
    BY <2>1, DirInHand DEF InLoop
  <2>3. Source(r) \in Copy
    <3>1. CASE pc[r] = "h5install" BY <3>1, CopyFacts DEF Source
    <3>2. CASE pc[r] = "h5restore"
      <4>1. H5Saved(r) # Nothing BY <3>2 DEF Loops, LoopAt
      <4> QED BY <2>2, <3>2, <4>1 DEF Source, H5Saved
    <3> QED BY <1>4, <3>1, <3>2 DEF CopyDirBegins
  <2>4. Moved(h5[Current(r)], [Source(r) EXCEPT !.whole = FALSE]) \in Copy \cup {Nothing}
    <3>1. h5[Current(r)] \in Copy \cup {Nothing} BY <2>2 DEF DirTypeOK
    <3> QED BY <2>3, <3>1, CopyFacts
  <2> QED BY <1>4, <2>1, <2>4 DEF CopyDirBegins
<1>5. CASE CopyDirEnds(r)
  <2>1. pc[r] \in InLoop /\ pc[r] # "h5away" BY <1>5 DEF CopyDirEnds, InLoop, DirPlaces
  <2>2. Current(r) \in Dir /\ h5backup[stamp[r]] \in [Dir -> Copy \cup {Nothing}]
    BY <2>1, DirInHand DEF InLoop
  <2>3. Source(r) \in Copy \cup {Nothing} BY <2>2, CopyFacts DEF Source, H5Saved
  <2>4. h5[Current(r)] \in Copy \cup {Nothing} BY <2>2 DEF DirTypeOK
  <2> QED BY <1>5, <2>1, <2>3, <2>4 DEF CopyDirEnds
<1>6. CASE CopyDirFails(r) BY <1>6 DEF CopyDirFails
<1>7. CASE RemoveDir(r) BY <1>7 DEF RemoveDir, InLoop, DirPlaces
<1>8. CASE RemoveDirFails(r)
  <2>1. pc[r] \in InLoop /\ pc[r] # "h5away" BY <1>8 DEF RemoveDirFails, InLoop, DirPlaces
  <2>2. Current(r) \in Dir BY <2>1, DirInHand DEF InLoop
  <2>3. h5[Current(r)] \in Copy BY <1>8, <2>2 DEF RemoveDirFails, DirTypeOK
  <2>4. Remains(h5[Current(r)]) \subseteq Copy BY <2>3 DEF Remains, Copy
  <2> QED BY <1>8, <2>1, <2>4 DEF RemoveDirFails
<1> QED BY <1>1, <1>2, <1>3, <1>4, <1>5, <1>6, <1>7, <1>8 DEF H5Step

\* How the loops go on.
LEMMA LoopEffect ==
    ASSUME TypeOK, DirTypeOK, Loops, OwnPlaces, Alone, NEW r \in Run, H5Step(r)
    PROVE  /\ todo' = [todo EXCEPT ![r] = todo'[r]]
           /\ todo'[r] \subseteq brings[r].dirs
           /\ pc'[r] \in InLoop => todo'[r] # {}
           /\ pc'[r] \notin InLoop \cup Over => todo'[r] = brings[r].dirs
<1>1. /\ pc[r] \in DirPlaces /\ todo \in [Run -> SUBSET Dir] /\ pc \in [Run -> Place]
      /\ todo[r] \subseteq brings[r].dirs /\ brings[r].dirs # {}
      /\ pc[r] \in InLoop => todo[r] # {}
      /\ pc[r] = "h5mkdir" => todo[r] = brings[r].dirs
      /\ InLoop = {"h5away", "h5install", "h5copying", "h5remove", "h5restore", "h5restoring"}
  BY DirFrame, DirInHand DEF Loops, LoopAt, DirTypeOK, TypeOK, InLoop, DirPlaces, Over
<1> USE DEF Goto, Abort, Over, h5part
<1>2. CASE MakeBackup(r) BY <1>1, <1>2 DEF MakeBackup
<1>3. CASE MoveDirAway(r) BY <1>1, <1>3 DEF MoveDirAway, NextDir
<1>4. CASE BackupFails(r) BY <1>1, <1>4 DEF BackupFails
<1>5. CASE CopyDirBegins(r) BY <1>1, <1>5 DEF CopyDirBegins
<1>6. CASE CopyDirEnds(r) BY <1>1, <1>6 DEF CopyDirEnds, NextDir
<1>7. CASE CopyDirFails(r) BY <1>1, <1>7 DEF CopyDirFails
<1>8. CASE RemoveDir(r) BY <1>1, <1>8 DEF RemoveDir, NextDir
<1>9. CASE RemoveDirFails(r) BY <1>1, <1>9 DEF RemoveDirFails
<1> QED BY <1>2, <1>3, <1>4, <1>5, <1>6, <1>7, <1>8, <1>9 DEF H5Step

LEMMA DirTypeStep ==
    ASSUME TypeOK, DirTypeOK, Loops, OwnPlaces, Alone, NEW r \in Run, Step(r)
    PROVE  DirTypeOK'
<1>1. CASE H5Step(r)
  <2>1. h5' \in [Dir -> Copy \cup {Nothing}]
    BY <1>1, DirEffect DEF DirTypeOK
  <2>2. h5backup' \in [Stamp -> [Dir -> Copy \cup {Nothing}]]
    <3>1. CASE h5backup' = h5backup BY <3>1 DEF DirTypeOK
    <3>2. CASE h5backup' # h5backup
      <4>1. pc[r] \in InLoop /\ pc[r] \in DirPlaces
        BY <1>1, <3>2, DirEffect DEF InLoop
      <4>2. /\ Current(r) \in Dir /\ stamp[r] \in Stamp
            /\ h5backup[stamp[r]] \in [Dir -> Copy \cup {Nothing}]
        BY <4>1, DirInHand
      <4>3. h5backup[stamp[r]][Current(r)] \in Copy \cup {Nothing}
            /\ h5[Current(r)] \in Copy \cup {Nothing}
        BY <4>2 DEF DirTypeOK
      <4>4. Moved(h5backup[stamp[r]][Current(r)], h5[Current(r)]) \in Copy \cup {Nothing}
        BY <4>3, CopyFacts
      <4> DEFINE new == [h5backup[stamp[r]] EXCEPT ![Current(r)] =
                              Moved(h5backup[stamp[r]][Current(r)], h5[Current(r)])]
      <4>5. new \in [Dir -> Copy \cup {Nothing}]
        BY <4>2, <4>4
      <4>6. h5backup' = [h5backup EXCEPT ![stamp[r]] = new]
        BY <1>1, <3>2, DirEffect
      <4> HIDE DEF new
      <4> QED BY <4>5, <4>6 DEF DirTypeOK
    <3> QED BY <3>1, <3>2
  <2>3. UNCHANGED <<brings, foundH5>>
    BY <1>1, DirFrame
  <2>4. todo' \in [Run -> SUBSET Dir]
    <3>1. todo'[r] \subseteq Dir
      BY <1>1, LoopEffect DEF DirTypeOK, Load
    <3>2. todo' = [todo EXCEPT ![r] = todo'[r]]
      BY <1>1, LoopEffect
    <3> QED BY <3>1, <3>2 DEF DirTypeOK
  <2> QED BY <2>1, <2>2, <2>3, <2>4 DEF DirTypeOK, Load, Stamp
<1>2. CASE Begin(r)
  <2>1. UNCHANGED <<h5, h5backup>>
    BY <1>2 DEF Begin
  <2>2. PICK load \in Loads :
          brings' = [brings EXCEPT ![r] = load] /\ todo' = [todo EXCEPT ![r] = load.dirs]
    BY <1>2 DEF Begin
  <2>3. load \in Load /\ load.dirs \subseteq Dir
    BY <2>2, LoadFacts
  <2>4. brings' \in [Run -> Load] /\ todo' \in [Run -> SUBSET Dir]
    BY <2>2, <2>3 DEF DirTypeOK
  <2>5. foundH5' = [foundH5 EXCEPT ![r] = h5]
    BY <1>2 DEF Begin
  <2>6. foundH5' \in [Run -> [Dir -> Copy \cup {Nothing}]]
    BY <2>5 DEF DirTypeOK
  <2> QED BY <2>1, <2>4, <2>6 DEF DirTypeOK, Stamp
<1>3. CASE ~H5Step(r) /\ ~Begin(r)
  BY <1>3, AppFrame DEF DirTypeOK, Stamp
<1> QED BY <1>1, <1>2, <1>3

\* A step of the application that is not a beginning, by the places.
LEMMA PlacesStep ==
    ASSUME TypeOK, DirTypeOK, Loops, OwnPlaces, Alone, NEW r \in Run, Step(r)
    PROVE  OwnPlaces'
<1>1. /\ script' = script /\ \A q \in Run : q # r => pc'[q] = pc[q]
      /\ ~Begin(r) => UNCHANGED <<stamp, brings>>
  BY Frame
<1>2. Loads' = Loads
  BY <1>1 DEF Loads, Load
<1>3. ASSUME NEW q \in Run, q # r PROVE PlacesAt(q)'
  <2>1. brings'[q] = brings[q] /\ stamp'[q] = stamp[q]
    BY <1>1, <1>3 DEF Begin, TypeOK, DirTypeOK
  <2> QED BY <1>1, <1>2, <1>3, <2>1 DEF OwnPlaces, PlacesAt, Begun
<1>4. PlacesAt(r)'
  <2>0. PlacesAt(r)
    BY DEF OwnPlaces
  <2>1. CASE Begin(r)
    <3>1. PICK load \in Loads :
            /\ brings' = [brings EXCEPT ![r] = load]
            /\ pc'[r] = IF script = "bot-api" THEN "stage"
                        ELSE IF load.app THEN "backup" ELSE "h5mkdir"
      BY <2>1 DEF Begin, Goto, TypeOK
    <3>2. brings'[r] = load
      BY <3>1 DEF DirTypeOK
    <3>3. /\ script # "mixchat" => load.app
          /\ ~load.app => load.dirs # {}
      BY DEF Loads
    <3> QED
      BY <1>1, <1>2, <3>1, <3>2, <3>3 DEF PlacesAt, AppPlaces, DirPlaces, TypeOK, Script
  <2>2. CASE ~Begin(r)
    <3>1. /\ script' = script /\ brings' = brings /\ (r \in Begun' <=> r \in Begun)
          /\ stamp' = stamp
      BY <1>1, <2>2 DEF Begun
    <3>2. r \in Begun => /\ script # "mixchat" => brings[r].app /\ brings[r].dirs = {}
                         /\ ~brings[r].app => brings[r].dirs # {}
      BY <2>0 DEF PlacesAt, Loads
    <3>3. ~Refuse(r) => r \in Begun
      BY <2>2, Frame DEF Alone, Active, Begun
    <3> SUFFICES
          /\ script = "mixchat" => pc'[r] \notin {"stage", "stop", "start", "verify", "revive"}
          /\ script # "mixchat" =>
                pc'[r] \notin {"copying", "storage", "take", "migrate", "rescue"} \cup DirPlaces
          /\ script = "ari-bot" => pc'[r] \notin {"stop", "start"}
          /\ script = "bot-api" => pc'[r] # "restart"
          /\ pc'[r] \in AppPlaces => brings[r].app
          /\ pc'[r] \in DirPlaces => brings[r].dirs # {}
      BY <1>2, <2>0, <3>1 DEF PlacesAt
    <3> USE <2>0, <3>2, <3>3
        DEF TypeOK, PlacesAt, Goto, Abort, Script, Loop, AfterApp, AfterRemove,
            AppPlaces, DirPlaces
    <3>4. CASE Refuse(r) \/ Stage(r) \/ MoveAway(r) \/ CopyAway(r) \/ MoveAwayFails(r)
      BY <3>4 DEF Refuse, Stage, MoveAway, CopyAway, MoveAwayFails
    <3>5. CASE MoveInPlace(r) \/ MoveInPlaceFails(r) \/ CopyBegins(r) \/ CopyEnds(r)
      BY <3>5 DEF MoveInPlace, MoveInPlaceFails, CopyBegins, CopyEnds
    <3>6. CASE DropStorage(r) \/ DropStorageFails(r) \/ TakeStorage(r)
      <4>1. CASE DropStorage(r) BY <4>1 DEF DropStorage
      <4>2. CASE DropStorageFails(r) BY <4>2 DEF DropStorageFails
      <4>3. CASE TakeStorage(r) BY <4>3 DEF TakeStorage
      <4> QED BY <3>6, <4>1, <4>2, <4>3
    <3>7. CASE Stop(r) \/ Start(r) \/ Verify(r) \/ Restart(r) \/ Migrate(r)
      <4>1. CASE Stop(r) BY <4>1 DEF Stop
      <4>2. CASE Start(r) BY <4>2 DEF Start
      <4>3. CASE Verify(r)
        <5>1. pc'[r] \in {"done", "rollback"}
          BY ONLY Verify(r), TypeOK, r \in Run DEF Verify, TypeOK, Goto
        <5> QED BY <5>1
      <4>4. CASE Restart(r)
        <5>1. /\ pc[r] = "restart"
              /\ pc'[r] \in IF script = "ari-bot" THEN {"verify", "rollback"}
                           ELSE {"migrate", "done"}
          BY ONLY Restart(r), TypeOK, r \in Run DEF Restart, TypeOK, Goto
        <5>2. r \in Begun BY <4>4, <3>3 DEF Refuse, Restart
        <5> QED BY <5>1, <5>2
      <4>5. CASE Migrate(r) BY <4>5 DEF Migrate
      <4> QED BY <3>7, <4>1, <4>2, <4>3, <4>4, <4>5
    <3>8. CASE Rollback(r) \/ Rescue(r) \/ Remove(r) \/ RemoveFails(r)
      <4>1. CASE Rollback(r)
        <5>1. r \in Begun BY <4>1, <3>3 DEF Refuse, Rollback
        <5>2. pc'[r] = IF ~brings[r].app THEN "h5remove"
                       ELSE IF script = "mixchat" /\ Taken(r) THEN "rescue" ELSE "remove"
          BY <4>1 DEF Rollback
        <5> QED BY <5>1, <5>2
      <4>2. CASE Rescue(r) BY <4>2 DEF Rescue
      <4>3. CASE Remove(r) BY <4>3 DEF Remove
      <4>4. CASE RemoveFails(r) BY <4>4 DEF RemoveFails
      <4> QED BY <3>8, <4>1, <4>2, <4>3, <4>4
    <3>9. CASE RestoreBegins(r) \/ RestoreEnds(r) \/ Revive(r) \/ ReviveFails(r) \/ Crash(r)
      BY <3>9 DEF RestoreBegins, RestoreEnds, Revive, ReviveFails, Crash
    <3>10. CASE H5Step(r)
      BY <3>10, DirFrame, DirInHand
    <3> QED BY <2>2, <3>4, <3>5, <3>6, <3>7, <3>8, <3>9, <3>10 DEF Step
  <2> QED BY <2>1, <2>2
<1> QED BY <1>3, <1>4 DEF OwnPlaces

\* A directory is backed up in the second of the run, once.
LEMMA DirBackupStays ==
    ASSUME TypeOK, DirTypeOK, Loops, OwnPlaces, Alone, NEW r \in Run, Step(r),
           NEW t \in Stamp, NEW d \in Dir
    PROVE  /\ h5backup[t][d] # Nothing => h5backup'[t][d] = h5backup[t][d]
           /\ h5backup'[t][d] # h5backup[t][d] =>
                 t = stamp[r] /\ d = Current(r) /\ pc[r] = "h5away" /\ H5Step(r)
<1>1. CASE h5backup' = h5backup BY <1>1
<1>2. CASE h5backup' # h5backup
  <2>1. H5Step(r) BY <1>2, AppFrame
  <2>2. pc[r] \in DirPlaces /\ pc[r] \in InLoop /\ pc[r] = "h5away"
    BY <1>2, <2>1, DirEffect DEF InLoop
  <2>3. stamp[r] \in Stamp /\ Current(r) \in Dir
        /\ h5backup[stamp[r]] \in [Dir -> Copy \cup {Nothing}]
    BY <2>2, DirInHand
  <2>4. h5backup' = [h5backup EXCEPT ![stamp[r]] =
                      [h5backup[stamp[r]] EXCEPT ![Current(r)] =
                          Moved(h5backup[stamp[r]][Current(r)], h5[Current(r)])]]
    BY <1>2, <2>1, DirEffect
  <2> QED BY <2>1, <2>2, <2>3, <2>4 DEF DirTypeOK, Moved
<1> QED BY <1>1, <1>2

LEMMA LoopsStep ==
    ASSUME TypeOK, DirTypeOK, Loops, OwnPlaces, Alone, NEW r \in Run, Step(r)
    PROVE  Loops'
<1>1. CASE H5Step(r)
  <2>1. UNCHANGED <<brings, stamp>> /\ \A q \in Run : q # r => pc'[q] = pc[q]
    BY <1>1, DirFrame, Frame
  <2>2. \A q \in Run : q # r => todo'[q] = todo[q]
    BY <1>1, LoopEffect DEF DirTypeOK
  <2>3. \A t \in Stamp, d \in Dir : h5backup[t][d] # Nothing => h5backup'[t][d] # Nothing
    BY DirBackupStays
  <2>4. ASSUME NEW q \in Run, q # r PROVE LoopAt(q)'
    <3>1. LoopAt(q) BY DEF Loops
    <3>2. Current(q)' = Current(q) BY <2>2, <2>4 DEF Current
    <3>3. pc[q] \in {"h5restore", "h5restoring"} => stamp[q] \in Stamp /\ Current(q) \in Dir
      BY DirInHand DEF DirPlaces, InLoop
    <3>4. pc[q] \in {"h5restore", "h5restoring"} => H5Saved(q)' # Nothing
      BY <2>1, <2>3, <3>1, <3>2, <3>3 DEF LoopAt, H5Saved
    <3> QED BY <2>1, <2>2, <2>4, <3>1, <3>4 DEF LoopAt
  <2>5. LoopAt(r)'
    <3>1. pc'[r] \in {"h5restore", "h5restoring"} => H5Saved(r)' # Nothing
      <4> SUFFICES ASSUME pc'[r] \in {"h5restore", "h5restoring"} PROVE H5Saved(r)' # Nothing
        OBVIOUS
      <4> USE DEF Goto, Abort, TypeOK
      <4>1. \/ RemoveDir(r) /\ H5Saved(r) # Nothing /\ UNCHANGED <<todo, h5backup, stamp>>
            \/ CopyDirBegins(r) /\ pc[r] = "h5restore" /\ UNCHANGED <<todo, h5backup, stamp>>
        <5>1. ~MakeBackup(r) BY DEF MakeBackup
        <5>2. ~MoveDirAway(r) BY DEF MoveDirAway, NextDir
        <5>3. ~BackupFails(r) BY DEF BackupFails
        <5>4. ~CopyDirEnds(r) BY DEF CopyDirEnds, NextDir
        <5>5. ~CopyDirFails(r) BY DEF CopyDirFails
        <5>6. ~RemoveDirFails(r) BY DEF RemoveDirFails
        <5>7. CASE RemoveDir(r) BY <5>7 DEF RemoveDir, NextDir
        <5>8. CASE CopyDirBegins(r) BY <5>8 DEF CopyDirBegins
        <5> QED BY <1>1, <5>1, <5>2, <5>3, <5>4, <5>5, <5>6, <5>7, <5>8 DEF H5Step
      <4>2. pc[r] = "h5restore" => H5Saved(r) # Nothing BY DEF Loops, LoopAt
      <4> QED BY <4>1, <4>2 DEF H5Saved, Current
    <3> QED BY <1>1, <2>1, <3>1, LoopEffect DEF LoopAt
  <2> QED BY <2>4, <2>5 DEF Loops
<1>2. CASE Begin(r)
  <2>1. PICK load \in Loads :
          brings' = [brings EXCEPT ![r] = load] /\ todo' = [todo EXCEPT ![r] = load.dirs]
    BY <1>2 DEF Begin
  <2>2. pc'[r] \in {"stage", "backup", "h5mkdir"}
    BY <1>2 DEF Begin, Goto, TypeOK
  <2>3. brings'[r] = load /\ todo'[r] = load.dirs
    BY <2>1 DEF DirTypeOK
  <2>4. LoopAt(r)'
    BY <2>2, <2>3 DEF LoopAt, InLoop, DirPlaces
  <2>5. ASSUME NEW q \in Run, q # r PROVE LoopAt(q)'
    <3>1. brings'[q] = brings[q] /\ todo'[q] = todo[q] /\ h5backup' = h5backup
          /\ stamp'[q] = stamp[q] /\ pc'[q] = pc[q]
      BY <1>2, <2>1, <2>5 DEF Begin, DirTypeOK, TypeOK, Goto
    <3>2. Current(q)' = Current(q) BY <3>1 DEF Current
    <3> QED BY <3>1, <3>2 DEF Loops, LoopAt, H5Saved
  <2> QED BY <2>4, <2>5 DEF Loops
<1>3. CASE ~H5Step(r) /\ ~Begin(r)
  <2>1. UNCHANGED <<brings, todo, h5backup, stamp>>
    BY <1>3, AppFrame, Frame
  <2>2. pc'[r] \in Over \/ pc'[r] \notin InLoop \/ (pc'[r] = "h5remove" /\ brings[r].dirs # {})
        \/ (pc'[r] = "h5install" /\ brings[r].dirs # {})
    <3> USE DEF Goto, Abort, TypeOK, InLoop, DirPlaces, Loop, AfterApp, AfterRemove, Over
    <3>1. CASE Refuse(r) \/ Stage(r) \/ MoveAway(r) \/ CopyAway(r) \/ MoveAwayFails(r)
               \/ MoveInPlace(r) \/ MoveInPlaceFails(r) \/ CopyBegins(r) \/ CopyEnds(r)
      BY <3>1 DEF Refuse, Stage, MoveAway, CopyAway, MoveAwayFails, MoveInPlace,
         MoveInPlaceFails, CopyBegins, CopyEnds
    <3>2. CASE DropStorage(r) \/ DropStorageFails(r) \/ TakeStorage(r)
      BY <3>2 DEF DropStorage, DropStorageFails, TakeStorage
    <3>3. CASE Stop(r) \/ Start(r) \/ Verify(r) \/ Restart(r) \/ Migrate(r)
      BY <3>3 DEF Stop, Start, Verify, Restart, Migrate
    <3>4. CASE Rescue(r) \/ Remove(r) \/ RemoveFails(r) \/ RestoreBegins(r) \/ RestoreEnds(r)
               \/ Revive(r) \/ ReviveFails(r) \/ Crash(r)
      BY <3>4 DEF Rescue, Remove, RemoveFails, RestoreBegins, RestoreEnds, Revive,
         ReviveFails, Crash
    <3>5. CASE Rollback(r)
      <4>1. r \in Begun /\ PlacesAt(r)
        BY <3>5 DEF Rollback, OwnPlaces, Alone, Active, Begun
      <4>2. ~brings[r].app => brings[r].dirs # {}
        BY <4>1 DEF PlacesAt, Loads
      <4> QED BY <3>5, <4>2 DEF Rollback
    <3> QED BY <1>3, <3>1, <3>2, <3>3, <3>4, <3>5 DEF Step
  <2>3. pc[r] \notin InLoop \cup Over \/ pc'[r] \in Over
    <3> USE DEF Goto, Abort, TypeOK, InLoop, DirPlaces, Over
    <3> QED BY <1>3 DEF Step, Refuse, Stage, MoveAway, CopyAway, MoveAwayFails,
         MoveInPlace, MoveInPlaceFails, CopyBegins, CopyEnds, DropStorage, DropStorageFails,
         TakeStorage, Stop, Start, Verify, Restart, Migrate, Rollback, Rescue, Remove,
         RemoveFails, RestoreBegins, RestoreEnds, Revive, ReviveFails, Crash
  <2>4. \A q \in Run : Current(q)' = Current(q) /\ H5Saved(q)' = H5Saved(q)
    BY <2>1 DEF Current, H5Saved
  <2>5. ASSUME NEW q \in Run PROVE LoopAt(q)'
    <3>1. LoopAt(q) BY DEF Loops
    <3>2. CASE q # r
      BY <2>1, <2>4, <3>1, <3>2, Frame DEF LoopAt
    <3>3. CASE q = r
      BY <2>1, <2>2, <2>3, <3>1, <3>3 DEF LoopAt, InLoop, DirPlaces, Over
    <3> QED BY <3>2, <3>3
  <2> QED BY <2>5 DEF Loops
<1> QED BY <1>1, <1>2, <1>3

\* The directories of the h5 part of the version before any run.
LEMMA DirsStep ==
    ASSUME TypeOK, DirTypeOK, Loops, OwnPlaces, Alone, DirsKept, NEW r \in Run, Step(r)
    PROVE  DirsKept'
<1> SUFFICES ASSUME NEW d \in Dir
             PROVE  DirBackedUp(d)' \/ DirLive(d)'
  BY DEF DirsKept
<1>1. CASE DirBackedUp(d)
  <2>1. PICK t \in Stamp : WholeOld(h5backup[t][d]) BY <1>1 DEF DirBackedUp
  <2>2. h5backup'[t][d] = h5backup[t][d] BY <2>1, DirBackupStays DEF WholeOld
  <2> QED BY <2>1, <2>2 DEF DirBackedUp, WholeOld, Stamp
<1>2. CASE DirLive(d) /\ H5Step(r)
  <2>1. UNCHANGED <<brings, stamp>> /\ \A q \in Run : q # r => pc'[q] = pc[q]
    BY <1>2, DirFrame, Frame
  <2>2. \A q \in Run : q # r => todo'[q] = todo[q]
    BY <1>2, LoopEffect DEF DirTypeOK
  <2>3. pc[r] \in DirPlaces
    BY <1>2, DirFrame
  <2>4. /\ stamp[r] \in Stamp /\ todo[r] \subseteq brings[r].dirs
        /\ pc[r] \in InLoop => Current(r) \in todo[r] /\ Current(r) \in Dir
        /\ h5backup[stamp[r]] \in [Dir -> Copy \cup {Nothing}]
    BY <2>3, DirInHand
  <2>5. WholeOld(h5[d]) /\ DirSpared(r, d) /\ \A t \in Stamp : h5backup[t][d] = Nothing
    BY <1>2 DEF DirLive
  <2>6. CASE pc[r] = "h5away" /\ MoveDirAway(r) /\ d = Current(r)
    <3>1. h5backup'[stamp[r]][d] = Moved(h5backup[stamp[r]][d], h5[d])
      BY <2>4, <2>6 DEF MoveDirAway, DirTypeOK, InLoop, DirPlaces
    <3>2. h5backup'[stamp[r]][d] = h5[d]
      BY <2>4, <2>5, <3>1 DEF Moved
    <3> QED BY <2>4, <2>5, <3>2 DEF DirBackedUp, WholeOld, Stamp
  <2>7. CASE ~(MoveDirAway(r) /\ d = Current(r))
    <3>1. pc[r] \in InLoop /\ Current(r) = d => BackupFails(r)
      <4> SUFFICES ASSUME pc[r] \in InLoop, Current(r) = d PROVE BackupFails(r)
        OBVIOUS
      <4>1. pc[r] = "h5away"
        BY <2>4, <2>5 DEF DirSpared, InLoop, DirPlaces
      <4> QED
        BY <1>2, <2>7, <4>1 DEF H5Step, MakeBackup, CopyDirBegins, CopyDirEnds, CopyDirFails,
           RemoveDir, RemoveDirFails
    <3>2. h5'[d] = h5[d] /\ \A t \in Stamp : h5backup'[t][d] = h5backup[t][d]
      <4>1. CASE UNCHANGED <<h5, h5backup>> BY <4>1
      <4>2. CASE ~UNCHANGED <<h5, h5backup>>
        <5>1. ~BackupFails(r) BY <4>2 DEF BackupFails, h5part
        <5>2. pc[r] \in InLoop /\ Current(r) # d
          BY <1>2, <3>1, <4>2, <5>1, DirEffect
        <5>3. h5'[d] = h5[d]
          BY <1>2, <4>2, <5>2, DirEffect DEF DirTypeOK
        <5>4. \A t \in Stamp : h5backup'[t][d] = h5backup[t][d]
          BY <5>2, DirBackupStays
        <5> QED BY <5>3, <5>4
      <4> QED BY <4>1, <4>2
    <3>3. DirSpared(r, d)'
      <4> SUFFICES ASSUME d \in brings[r].dirs PROVE DirSpared(r, d)'
        BY <2>1 DEF DirSpared
      <4>1. pc[r] = "h5mkdir" \/ (pc[r] = "h5away" /\ d \in todo[r])
        BY <2>3, <2>5 DEF DirSpared, DirPlaces
      <4>2. BackupFails(r) \/ MakeBackup(r) \/ MoveDirAway(r)
        BY <1>2, <4>1 DEF H5Step, CopyDirBegins, CopyDirEnds, CopyDirFails,
           RemoveDir, RemoveDirFails
      <4> USE DEF Goto, Abort, TypeOK, DirSpared
      <4>3. CASE BackupFails(r) BY <4>3 DEF BackupFails
      <4>4. CASE MakeBackup(r)
        <5>1. todo[r] = brings[r].dirs
          BY <4>4 DEF MakeBackup, Loops, LoopAt, InLoop, DirPlaces, Over
        <5> QED BY <4>4, <5>1 DEF MakeBackup, h5part
      <4>5. CASE MoveDirAway(r)
        <5>1. pc[r] = "h5away" /\ d \in todo[r] /\ d # Current(r)
          BY <2>7, <4>1, <4>5 DEF MoveDirAway
        <5> QED BY <4>5, <5>1 DEF MoveDirAway, NextDir, DirTypeOK
      <4> QED BY <4>2, <4>3, <4>4, <4>5
    <3>4. \A q \in Run : DirSpared(q, d)'
      BY <1>2, <2>1, <2>2, <3>3 DEF DirLive, DirSpared
    <3> QED BY <2>5, <3>2, <3>4 DEF DirLive, WholeOld, Stamp
  <2> QED BY <2>6, <2>7 DEF MoveDirAway
<1>3. CASE DirLive(d) /\ ~H5Step(r)
  <2>1. UNCHANGED <<h5, h5backup>> /\ \A q \in Run : q # r => pc'[q] = pc[q]
    BY <1>3, AppFrame, Frame
  <2>2. \A q \in Run : q # r => brings'[q] = brings[q] /\ todo'[q] = todo[q]
    BY <1>3, AppFrame DEF Begin, DirTypeOK
  <2>3. DirSpared(r, d)
    BY <1>3 DEF DirLive
  <2>4. PlacesAt(r)
    BY DEF OwnPlaces
  <2>5. DirSpared(r, d)'
    <3>1. CASE Begin(r)
      <4>1. PICK load \in Loads :
              /\ brings' = [brings EXCEPT ![r] = load]
              /\ pc'[r] = IF script = "bot-api" THEN "stage"
                          ELSE IF load.app THEN "backup" ELSE "h5mkdir"
        BY <3>1 DEF Begin, Goto, TypeOK
      <4>2. brings'[r] = load /\ (script = "bot-api" => load.dirs = {})
        BY <4>1 DEF DirTypeOK, Loads
      <4> QED BY <4>1, <4>2 DEF DirSpared
    <3>2. CASE ~Begin(r)
      <4>1. UNCHANGED <<brings, todo>> BY <1>3, <3>2, AppFrame
      <4> SUFFICES ASSUME d \in brings[r].dirs PROVE DirSpared(r, d)'
        BY <4>1 DEF DirSpared
      <4>2. pc[r] \in {"ready", "backup"} \cup DirPlaces
        BY <2>3, Frame DEF DirSpared, Over, DirPlaces
      <4>3. Refuse(r) \/ MoveAway(r) \/ CopyAway(r) \/ MoveAwayFails(r) \/ Crash(r)
        BY <1>3, <3>2, <4>2 DEF DirPlaces, Step, Stage, MoveInPlace, MoveInPlaceFails,
           CopyBegins, CopyEnds, DropStorage, DropStorageFails, TakeStorage, Stop, Start,
           Verify, Restart, Migrate, Rollback, Rescue, Remove, RemoveFails, RestoreBegins,
           RestoreEnds, Revive, ReviveFails
      <4>4. CopyAway(r) => FALSE
        <5>1. CopyAway(r) => r \in Begun
          BY DEF CopyAway, Alone, Active, Over, Begun
        <5> QED BY <2>4, <5>1 DEF PlacesAt, Loads, CopyAway
      <4> QED
        BY <4>1, <4>3, <4>4 DEF Refuse, MoveAway, MoveAwayFails, Crash, DirSpared, Goto,
           TypeOK, Loop
    <3> QED BY <3>1, <3>2
  <2>6. \A q \in Run : DirSpared(q, d)'
    BY <1>3, <2>1, <2>2, <2>5 DEF DirLive, DirSpared
  <2> QED BY <1>3, <2>1, <2>6 DEF DirLive, WholeOld, Stamp
<1> QED BY <1>1, <1>2, <1>3 DEF DirsKept

----------------------------------------------------------------------------
(* The version before any run *)

LEMMA OldStep ==
    ASSUME TypeOK, DirTypeOK, OwnPlaces, Alone, BackupFound, SavedBySome, OldKept,
           NEW r \in Run, Step(r)
    PROVE  OldKept'
<1> SUFFICES ASSUME script' = "ari-bot" => met' = {}
             PROVE  OldBackedUp' \/ OldLive'
  BY DEF OldKept
<1>1. script' = script /\ (script = "ari-bot" => met = {})
  BY Frame DEF Begin
<1>2. CASE OldBackedUp
  <2>1. PICK t \in Stamp : WholeOld(backup[t]) BY <1>2 DEF OldBackedUp
  <2>2. CASE CopyAway(r)
    <3>1. script = "ari-bot" /\ pc[r] = "backup" BY <2>2 DEF CopyAway
    <3>2. backup[stamp[r]] = Nothing BY <1>1, <3>1, NoBackupYet
    <3>3. t # stamp[r] BY <2>1, <3>2 DEF WholeOld
    <3>4. backup'[t] = backup[t] BY <3>3, BackupSteps
    <3> QED BY <2>1, <3>4 DEF OldBackedUp, WholeOld, Stamp
  <2>3. CASE ~CopyAway(r)
    <3>1. /\ backup'[t] # Nothing
          /\ backup'[t].version = backup[t].version
          /\ backup'[t].whole = backup[t].whole
      BY <2>1, <2>3, BackupSteps DEF WholeOld
    <3> QED BY <2>1, <3>1 DEF OldBackedUp, WholeOld, Stamp
  <2> QED BY <2>2, <2>3
<1>3. CASE OldLive
  <2>1. \A q \in Run : q # r => pc'[q] = pc[q] /\ brings'[q].app = brings[q].app
    BY Frame DEF Begin, DirTypeOK
  <2>2. CASE UNCHANGED <<live, backup>> /\ (pc'[r] \in BeforeBackup' \/ ~brings'[r].app)
    <3>1. \A q \in Run : pc'[q] \in BeforeBackup' \/ ~brings'[q].app
      BY <1>1, <1>3, <2>1, <2>2 DEF OldLive, BeforeBackup
    <3> QED BY <1>3, <2>2, <3>1 DEF OldLive, WholeOld, Stamp
  <2>3. CASE ~brings[r].app /\ ~Begin(r)
    <3>1. brings' = brings BY <2>3, Frame
    <3>2. pc[r] \notin AppPlaces BY <2>3 DEF OwnPlaces, PlacesAt
    <3>3. Refuse(r) \/ Restart(r) \/ Migrate(r) \/ Rollback(r) \/ H5Step(r) \/ Crash(r)
      BY <2>3, <3>2 DEF AppPlaces, Step, Stage, MoveAway, CopyAway, MoveAwayFails,
         MoveInPlace, MoveInPlaceFails, CopyBegins, CopyEnds, DropStorage, DropStorageFails,
         TakeStorage, Stop, Start, Verify, Rescue, Remove, RemoveFails, RestoreBegins,
         RestoreEnds, Revive, ReviveFails
    <3>4. UNCHANGED <<live, backup>>
      BY <3>3, DirFrame DEF Refuse, Restart, Migrate, Rollback, Crash, files
    <3> QED BY <2>2, <2>3, <3>1, <3>4
  <2>4. CASE brings[r].app \/ Begin(r)
    <3>1. pc[r] \in {"ready", "backup"} \/ (pc[r] = "stage" /\ script = "bot-api")
      BY <1>3, <2>4, Frame DEF OldLive, BeforeBackup, Over, Begin
    <3>2. CASE MoveAway(r)
      <4>1. stamp[r] \in Stamp BY <3>2 DEF MoveAway, Active, Over, Alone, TypeOK
      <4>2. backup'[stamp[r]] = live
        BY <1>3, <3>2, <4>1 DEF MoveAway, Moved, OldLive, TypeOK
      <4> QED BY <1>3, <4>1, <4>2 DEF OldLive, OldBackedUp, WholeOld, Stamp
    <3>3. CASE CopyAway(r)
      <4>1. stamp[r] \in Stamp BY <3>3 DEF CopyAway, Active, Over, Alone, TypeOK
      <4>2. live # Nothing BY <1>3 DEF OldLive, WholeOld
      <4>3. CASE backup'[stamp[r]] = live
        BY <1>3, <4>1, <4>3 DEF OldLive, OldBackedUp, WholeOld, Stamp
      <4>4. CASE UNCHANGED backup /\ pc'[r] = "failed"
        <5>1. live' = live BY <3>3 DEF CopyAway
        <5> QED BY <2>2, <4>4, <5>1 DEF BeforeBackup
      <4> QED BY <3>3, <4>1, <4>2, <4>3, <4>4 DEF CopyAway, Goto, TypeOK
    <3>4. CASE ~MoveAway(r) /\ ~CopyAway(r)
      <4>1. Refuse(r) \/ Begin(r) \/ Stage(r) \/ MoveAwayFails(r) \/ Crash(r)
        BY <3>1, <3>4, DirFrame DEF DirPlaces, Step, MoveInPlace, MoveInPlaceFails, CopyBegins,
           CopyEnds, DropStorage, DropStorageFails, TakeStorage, Stop, Start, Verify, Restart,
           Migrate, Rollback, Rescue, Remove, RemoveFails, RestoreBegins, RestoreEnds, Revive,
           ReviveFails
      <4>2. UNCHANGED <<live, backup>>
        BY <4>1 DEF Refuse, Begin, Stage, MoveAwayFails, Crash, files
      <4>3. pc'[r] \in BeforeBackup' \/ ~brings'[r].app
        <5>1. CASE Begin(r)
          <6>1. PICK load \in Loads :
                  /\ brings' = [brings EXCEPT ![r] = load]
                  /\ pc'[r] = IF script = "bot-api" THEN "stage"
                              ELSE IF load.app THEN "backup" ELSE "h5mkdir"
            BY <5>1 DEF Begin, Goto, TypeOK
          <6>2. brings'[r] = load BY <6>1 DEF DirTypeOK
          <6> QED BY <1>1, <6>1, <6>2 DEF BeforeBackup
        <5>2. CASE ~Begin(r)
          BY <1>1, <3>1, <4>1, <5>2 DEF Refuse, Stage, MoveAwayFails, Crash, BeforeBackup, Goto,
             TypeOK
        <5> QED BY <5>1, <5>2
      <4> QED BY <2>2, <4>2, <4>3
    <3> QED BY <3>2, <3>3, <3>4
  <2> QED BY <2>3, <2>4
<1> QED BY <1>1, <1>2, <1>3 DEF OldKept

----------------------------------------------------------------------------
(* The uploads of mixchat *)

LEMMA OthersApart ==
    ASSUME TypeOK, DirTypeOK, Alone, UploadsKept, script = "mixchat", met = {}, met' = {},
           NEW r \in Run, Step(r), NEW q \in Run, q # r
    PROVE  UploadsApart(q)'
<1>1. CASE Refuse(r)
  <2>1. UNCHANGED <<live, backup, stamp, brings>> /\ pc'[q] = pc[q]
    BY <1>1, Frame DEF Refuse, files, h5part
  <2>2. UploadsApart(q) BY DEF UploadsKept
  <2>3. UploadsBackedUp' <=> UploadsBackedUp BY <2>1 DEF UploadsBackedUp, HasUploads
  <2> QED BY <2>1, <2>2, <2>3 DEF UploadsApart, HasUploads, HasStorage, Saved
<1>2. CASE ~Refuse(r)
  <2>1. pc'[q] = pc[q] BY Frame
  <2>2. q \notin Active
    <3>1. CASE Begin(r)
      BY <3>1 DEF Begin
    <3>2. CASE ~Begin(r)
      <4>1. r \in Active BY <1>2, <3>2, Frame DEF Active
      <4> QED BY <4>1 DEF Alone
    <3> QED BY <3>1, <3>2
  <2>3. pc'[q] \in Over \cup {"ready"} BY <2>1, <2>2 DEF Active
  <2> QED BY <2>3 DEF UploadsApart, Over
<1> QED BY <1>1, <1>2

LEMMA UploadsStep ==
    ASSUME TypeOK, DirTypeOK, OwnPlaces, Alone, SavedBySome, BackupFound, UploadsKept,
           NEW r \in Run, Step(r)
    PROVE  UploadsKept'
<1> SUFFICES ASSUME script' = "mixchat", met' = {}
             PROVE  (HasUploads(live) \/ UploadsBackedUp)' /\ \A q \in Run : UploadsApart(q)'
  BY DEF UploadsKept
<1> USE DEF Goto, Loop, AfterApp, AfterRemove
<1>1. script = "mixchat" /\ met = {} BY Frame DEF Begin
<1>2. /\ HasUploads(live) \/ UploadsBackedUp
      /\ UploadsApart(r)
  BY <1>1 DEF UploadsKept
<1>3. SUFFICES (HasUploads(live) \/ UploadsBackedUp)' /\ UploadsApart(r)'
  BY <1>1, OthersApart
<1>4. r \in Active => stamp[r] \in Stamp
  BY DEF Alone, TypeOK
<1>0. PlacesAt(r) BY DEF OwnPlaces
<1>5. CASE UNCHANGED <<live, backup>>
  <2>1. (HasUploads(live) \/ UploadsBackedUp)'
    BY <1>2, <1>5 DEF HasUploads, UploadsBackedUp, Stamp
  <2>2. UploadsBackedUp' <=> UploadsBackedUp BY <1>5 DEF UploadsBackedUp, HasUploads, Stamp
  <2>3. Begin(r) \/ UNCHANGED <<stamp, brings>> BY Frame
  <2>4. UploadsApart(r)'
    <3>0. CASE H5Step(r)
      <4>1. UNCHANGED <<stamp, brings>> BY <3>0, DirFrame
      <4> QED
        BY <1>2, <1>5, <3>0, <4>1, DirFrame
        DEF UploadsApart, HasUploads, HasStorage, Saved, DirPlaces
    <3>1. CASE Refuse(r) \/ MoveAwayFails(r) \/ Crash(r) \/ Restart(r)
               \/ Migrate(r) \/ Revive(r) \/ ReviveFails(r) \/ DropStorageFails(r) \/ RemoveFails(r)
      <4>1. pc'[r] \in {"migrate"} \cup Over
        BY <1>1, <3>1 DEF Refuse, MoveAwayFails, Crash, Restart, Migrate, Revive,
           ReviveFails, DropStorageFails, RemoveFails, Abort, TypeOK, Over
      <4> QED BY <4>1 DEF UploadsApart, Over
    <3>2. CASE Begin(r)
      <4>1. PICK load \in Loads :
              /\ brings' = [brings EXCEPT ![r] = load]
              /\ pc'[r] = IF script = "bot-api" THEN "stage"
                          ELSE IF load.app THEN "backup" ELSE "h5mkdir"
        BY <3>2 DEF Begin, TypeOK
      <4>2. brings'[r] = load BY <4>1 DEF DirTypeOK
      <4>3. pc'[r] = "backup" \/ (pc'[r] = "h5mkdir" /\ ~brings'[r].app)
        BY <1>1, <4>1, <4>2
      <4> QED BY <4>3 DEF UploadsApart
    <3>3. CASE MoveAway(r)
      <4>1. pc'[r] \in {"h5mkdir", "install"} /\ live' = Nothing BY <3>3 DEF MoveAway, TypeOK
      <4> QED BY <4>1 DEF UploadsApart
    <3>4. CASE CopyBegins(r)
      <4>1. PICK storage \in {"none", "package"} :
              live' = Moved(live, [Package(r, storage) EXCEPT !.whole = FALSE])
        BY <3>4 DEF CopyBegins
      <4>2. live = Nothing BY <1>2, <3>4 DEF CopyBegins, UploadsApart
      <4>3. live' \in Copy BY <4>1, <4>2, CopyFacts DEF Moved
      <4> QED BY <1>5, <4>2, <4>3, CopyFacts
    <3>5. CASE CopyEnds(r)
      BY <1>2, <1>5, <3>5 DEF CopyEnds, UploadsApart, TypeOK, HasUploads
    <3>6. CASE DropStorage(r)
      <4>1. live \in Copy /\ live.storage # "uploads"
        BY <1>2, <3>6 DEF DropStorage, UploadsApart, TypeOK
      <4>2. CASE HasStorage(Saved(r))
        <5>1. live' = [live EXCEPT !.storage = "none"] /\ pc'[r] = "take"
          BY <3>6, <4>1, <4>2, CopyFacts DEF DropStorage, TypeOK
        <5>2. live'.storage = "none" BY <4>1, <5>1 DEF Copy
        <5> QED BY <1>5, <4>1, <5>1, <5>2, CopyFacts DEF UploadsApart
      <4>3. CASE ~HasStorage(Saved(r))
        <5>1. pc'[r] \in {"h5install", "restart"} BY <3>6, <4>3 DEF DropStorage, TypeOK
        <5> QED BY <1>5, <4>1, <5>1 DEF UploadsApart, HasUploads
      <4> QED BY <4>2, <4>3
    <3>7. CASE TakeStorage(r)
      <4>1. /\ live # Nothing /\ live.storage = "none"
            /\ pc'[r] \in {"rollback", "h5install", "restart"}
        BY <1>2, <3>7 DEF TakeStorage, UploadsApart, TypeOK
      <4> QED BY <1>5, <4>1 DEF UploadsApart, HasUploads
    <3>8. CASE Rollback(r)
      <4>0. r \in Begun BY <3>8 DEF Rollback, Active, Over, Alone, Begun
      <4>1. /\ pc[r] = "rollback" /\ UNCHANGED <<stamp, brings>>
            /\ pc'[r] = IF ~brings[r].app THEN "h5remove"
                        ELSE IF Taken(r) THEN "rescue" ELSE "remove"
        BY <1>1, <3>8 DEF Rollback, TypeOK, h5part
      <4>2. brings[r].app /\ HasUploads(live) => Taken(r)
        BY <1>2, <4>1 DEF UploadsApart, Taken, HasUploads, HasStorage
      <4>3. Taken(r) => ~HasStorage(Saved(r)) BY DEF Taken
      <4> QED
        BY <1>5, <4>1, <4>2, <4>3 DEF UploadsApart, HasUploads, HasStorage, Saved
    <3>9. CASE Rescue(r)
      <4>1. ~HasUploads(live) \/ pc'[r] = "failed"
        BY <1>5, <3>9 DEF Rescue, Abort, Copy, TypeOK, HasStorage, HasUploads
      <4>2. pc'[r] \in {"remove", "failed"} BY <3>9 DEF Rescue, Abort, TypeOK
      <4> QED BY <1>5, <4>1, <4>2 DEF UploadsApart, HasUploads
    <3>10. CASE Remove(r)
      <4>1. live' = Nothing /\ pc'[r] \in {"h5remove", "rolledback", "restore"}
        BY <1>1, <3>10 DEF Remove, Restores, TypeOK
      <4> QED BY <1>5, <4>1 DEF UploadsApart, HasUploads
    <3>11. CASE RestoreBegins(r)
      <4>1. live = Nothing /\ pc'[r] = "restoring"
        BY <1>2, <3>11 DEF RestoreBegins, UploadsApart, TypeOK
      <4>2. UploadsBackedUp BY <1>2, <4>1 DEF HasUploads
      <4> QED BY <2>2, <4>1, <4>2 DEF UploadsApart
    <3>12. CASE RestoreEnds(r)
      <4>1. pc'[r] \in {"h5remove", "rolledback", "failed"}
        BY <1>1, <3>12 DEF RestoreEnds, Abort, TypeOK
      <4> QED BY <4>1 DEF UploadsApart
    <3>13. CASE Stage(r) \/ CopyAway(r) \/ MoveInPlace(r) \/ MoveInPlaceFails(r)
               \/ Stop(r) \/ Start(r) \/ Verify(r)
      BY <1>0, <1>1, <3>13 DEF PlacesAt, Stage, CopyAway, MoveInPlace, MoveInPlaceFails,
         Stop, Start, Verify
    <3> QED
      BY <3>0, <3>1, <3>2, <3>3, <3>4, <3>5, <3>6, <3>7, <3>8, <3>9, <3>10, <3>11, <3>12,
         <3>13 DEF Step
  <2> QED BY <2>1, <2>4
<1>6. CASE MoveAway(r)
  <2>1. stamp[r] \in Stamp /\ backup[stamp[r]] = Nothing
    BY <1>1, <1>6, NoBackupYet DEF MoveAway
  <2>2. /\ backup' = [backup EXCEPT ![stamp[r]] = live]
        /\ live' = Nothing /\ pc'[r] \in {"h5mkdir", "install"}
    BY <1>6, <2>1 DEF MoveAway, Moved, TypeOK
  <2>3. UploadsBackedUp'
    <3>1. CASE HasUploads(live)
      BY <2>1, <2>2, <3>1 DEF UploadsBackedUp, HasUploads, TypeOK, Stamp
    <3>2. CASE UploadsBackedUp
      <4>1. PICK t \in Stamp : HasUploads(backup[t]) BY <3>2 DEF UploadsBackedUp
      <4>2. t # stamp[r] BY <2>1, <4>1 DEF HasUploads
      <4>3. backup'[t] = backup[t] BY <4>2, BackupSteps
      <4> QED BY <4>1, <4>3 DEF UploadsBackedUp, HasUploads, Stamp
    <3> QED BY <1>2, <3>1, <3>2
  <2> QED BY <2>2, <2>3 DEF UploadsApart
<1>7. CASE TakeStorage(r) /\ ~UNCHANGED <<live, backup>>
  <2>1. /\ pc[r] = "take" /\ live # Nothing /\ HasStorage(Saved(r))
        /\ live' = [live EXCEPT !.storage = IF @ = "none" THEN Saved(r).storage ELSE @]
        /\ backup' = [backup EXCEPT ![stamp[r]].storage = "none"]
        /\ pc'[r] \in {"h5install", "restart"} /\ stamp' = stamp
    BY <1>7 DEF TakeStorage, TypeOK
  <2>2. stamp[r] \in Stamp BY <1>4, <2>1 DEF Active, Over
  <2>3. live \in Copy /\ Saved(r) \in Copy /\ live.storage = "none"
    BY <1>2, <2>1, <2>2 DEF UploadsApart, TypeOK, HasStorage, Saved
  <2>4. live' \in Copy /\ live'.storage = Saved(r).storage
    BY <2>1, <2>3 DEF Copy
  <2>5. backup'[stamp[r]] \in Copy /\ backup'[stamp[r]].storage = "none"
    BY <2>1, <2>2, <2>3 DEF Copy, Saved, TypeOK
  <2>6. (HasUploads(live) \/ UploadsBackedUp)'
    <3>1. PICK t \in Stamp : HasUploads(backup[t])
      BY <1>2, <2>3 DEF UploadsBackedUp, HasUploads
    <3>2. CASE t = stamp[r]
      BY <2>4, <3>1, <3>2, CopyFacts DEF HasUploads, Saved
    <3>3. CASE t # stamp[r]
      <4>1. backup'[t] = backup[t] BY <3>3, BackupSteps
      <4> QED BY <3>1, <4>1 DEF UploadsBackedUp, HasUploads, Stamp
    <3> QED BY <3>2, <3>3
  <2>7. UploadsApart(r)'
    BY <2>1, <2>5, CopyFacts DEF UploadsApart, HasStorage, Saved
  <2> QED BY <2>6, <2>7
<1>8. CASE Rescue(r) /\ ~UNCHANGED <<live, backup>>
  <2>1. /\ pc[r] = "rescue" /\ HasStorage(live)
        /\ backup' = [backup EXCEPT ![stamp[r]].storage = live.storage]
        /\ live' = [live EXCEPT !.storage = "none"]
        /\ pc'[r] = "remove"
    BY <1>8 DEF Rescue, Abort, TypeOK
  <2>2. stamp[r] \in Stamp BY <1>4, <2>1 DEF Active, Over
  <2>3. live \in Copy /\ Saved(r) \in Copy /\ Saved(r).storage = "none"
    BY <1>2, <2>1, <2>2 DEF UploadsApart, TypeOK, HasStorage, Saved, BackupFound
  <2>4. live' \in Copy /\ live'.storage = "none"
    BY <2>1, <2>3 DEF Copy
  <2>5. backup'[stamp[r]] \in Copy /\ backup'[stamp[r]].storage = live.storage
    BY <2>1, <2>2, <2>3 DEF Copy, Saved, TypeOK
  <2>6. UploadsBackedUp'
    <3>1. CASE HasUploads(live)
      BY <2>2, <2>5, <3>1, CopyFacts DEF HasUploads, UploadsBackedUp, Stamp
    <3>2. CASE UploadsBackedUp
      <4>1. PICK t \in Stamp : HasUploads(backup[t]) BY <3>2 DEF UploadsBackedUp
      <4>2. t # stamp[r] BY <2>3, <4>1 DEF HasUploads, Saved
      <4>3. backup'[t] = backup[t] BY <4>2, BackupSteps
      <4> QED BY <4>1, <4>3 DEF UploadsBackedUp, HasUploads, Stamp
    <3> QED BY <1>2, <3>1, <3>2
  <2>7. UploadsApart(r)'
    BY <2>1, <2>4 DEF UploadsApart, HasUploads
  <2> QED BY <2>6, <2>7
<1>9. CASE ~UNCHANGED live /\ UNCHANGED <<backup, stamp>>
  <2>1. \/ CopyBegins(r) \/ CopyEnds(r) \/ DropStorage(r) \/ DropStorageFails(r)
        \/ Remove(r) \/ RemoveFails(r)
        \/ RestoreBegins(r) \/ RestoreEnds(r) \/ MoveAway(r) \/ TakeStorage(r) \/ Rescue(r)
    <3>1. ~MoveInPlace(r) BY <1>1 DEF MoveInPlace
    <3> QED
      BY <1>9, <3>1, DirFrame DEF Step, Refuse, Begin, Stage, CopyAway, MoveAwayFails,
         MoveInPlaceFails, Stop, Start, Verify, Restart, Migrate, Rollback, Revive,
         ReviveFails, Crash, files
  <2>2. UploadsBackedUp' <=> UploadsBackedUp BY <1>9 DEF UploadsBackedUp, HasUploads, Stamp
  <2>3. CASE CopyBegins(r)
    <3>1. live = Nothing BY <1>2, <2>3 DEF CopyBegins, UploadsApart
    <3>2. PICK storage \in {"none", "package"} :
            live' = [Package(r, storage) EXCEPT !.whole = FALSE]
      BY <2>3, <3>1 DEF CopyBegins, Moved
    <3>3. live' \in Copy /\ live'.storage # "uploads"
      BY <3>2, CopyFacts DEF Package, Copy
    <3>4. pc'[r] = "copying" BY <2>3 DEF CopyBegins, TypeOK
    <3> QED BY <1>2, <2>2, <3>1, <3>3, <3>4, CopyFacts DEF UploadsApart, HasUploads
  <2>4. CASE CopyEnds(r)
    <3>1. /\ live \in Copy /\ live.storage # "uploads"
          /\ pc'[r] = "storage" /\ live' = [live EXCEPT !.whole = TRUE]
      BY <1>2, <1>9, <2>4 DEF CopyEnds, UploadsApart, TypeOK
    <3>2. live' \in Copy /\ live'.storage # "uploads" BY <3>1 DEF Copy
    <3> QED BY <1>2, <2>2, <3>1, <3>2, CopyFacts DEF UploadsApart, HasUploads
  <2>5. CASE DropStorage(r)
    <3>1. /\ live \in Copy /\ live.storage # "uploads"
          /\ pc'[r] = "take" /\ live' = [live EXCEPT !.storage = "none"]
      BY <1>2, <1>9, <2>5 DEF DropStorage, UploadsApart, TypeOK
    <3>2. live' \in Copy /\ live'.storage = "none" BY <3>1 DEF Copy
    <3> QED BY <1>2, <2>2, <3>1, <3>2, CopyFacts DEF UploadsApart, HasUploads
  <2>5a. CASE DropStorageFails(r)
    <3>1. ~HasUploads(live) /\ pc'[r] = "failed"
      BY <1>2, <2>5a DEF DropStorageFails, UploadsApart, HasUploads, Abort, TypeOK
    <3> QED BY <1>2, <2>2, <3>1 DEF UploadsApart
  <2>6. CASE Remove(r)
    <3>1. /\ ~HasUploads(live) /\ live' = Nothing
          /\ pc'[r] \in {"restore", "h5remove", "rolledback"}
      BY <1>1, <1>2, <2>6 DEF Remove, Restores, UploadsApart, TypeOK
    <3> QED BY <1>2, <2>2, <3>1 DEF UploadsApart
  <2>6a. CASE RemoveFails(r)
    <3>1. ~HasUploads(live) /\ pc'[r] = "failed"
      BY <1>2, <2>6a DEF RemoveFails, UploadsApart, Abort, TypeOK
    <3> QED BY <1>2, <2>2, <3>1 DEF UploadsApart
  <2>7. CASE RestoreBegins(r)
    <3>1. live = Nothing /\ pc'[r] = "restoring"
      BY <1>2, <2>7 DEF RestoreBegins, UploadsApart, TypeOK
    <3> QED BY <1>2, <2>2, <3>1 DEF UploadsApart, HasUploads
  <2>8. CASE RestoreEnds(r)
    <3>1. UploadsBackedUp /\ pc'[r] \in {"h5remove", "rolledback", "failed"}
      BY <1>1, <1>2, <2>8 DEF RestoreEnds, Abort, UploadsApart, TypeOK
    <3> QED BY <2>2, <3>1 DEF UploadsApart
  <2> QED
    BY <1>6, <1>7, <1>8, <1>9, <2>1, <2>3, <2>4, <2>5, <2>5a, <2>6, <2>6a, <2>7, <2>8
<1> QED
  <2>1. CASE backup' = backup
    <3>1. CASE UNCHANGED live BY <1>5, <2>1, <3>1
    <3>2. CASE ~UNCHANGED live
      <4>1. ~Begin(r) BY <3>2 DEF Begin, files
      <4>2. UNCHANGED stamp BY <4>1, Frame
      <4> QED BY <1>9, <2>1, <3>2, <4>2
    <3> QED BY <3>1, <3>2
  <2>2. CASE backup' # backup
    <3>1. ~CopyAway(r) BY <1>1 DEF CopyAway
    <3> QED BY <1>6, <1>7, <1>8, <2>2, <3>1, BackupWriters
  <2> QED BY <2>1, <2>2

----------------------------------------------------------------------------
(* Theorems *)

LEMMA InitIInv == Init => IInv
<1> SUFFICES ASSUME Init PROVE IInv
  OBVIOUS
<1>1. TypeOK BY TypeInit
<1>2. Alone BY DEF Init, Alone, Begun, Active
<1>3. SavedBySome /\ BackupFound BY DEF Init, SavedBySome, BackupFound, Saved
<1>4. live = OldCopy /\ OldCopy # Nothing /\ OldCopy.version = Old /\ OldCopy.whole
  BY CopyFacts DEF Init, OldCopy, Package
<1>5. OldKept BY <1>4 DEF Init, OldKept, OldLive, WholeOld, BeforeBackup
<1>6. UploadsKept
  BY <1>4 DEF Init, UploadsKept, UploadsApart, HasUploads, OldCopy, Package
<1>7. Package(Old, "none") \in Copy /\ WholeOld(Package(Old, "none"))
  <2>1. Package(Old, "none") \in Copy BY DEF Package, Copy, Version
  <2>2. Package(Old, "none").version = Old /\ Package(Old, "none").whole BY DEF Package
  <2> QED BY <2>1, <2>2, CopyFacts DEF WholeOld
<1>8. DirTypeOK BY <1>7 DEF Init, DirTypeOK, Load
<1>9. OwnPlaces BY DEF Init, OwnPlaces, PlacesAt, AppPlaces, DirPlaces, Begun
<1>10. Loops BY DEF Init, Loops, LoopAt, InLoop, DirPlaces
<1>11. DirsKept BY <1>7 DEF Init, DirsKept, DirLive, DirSpared
<1> QED BY <1>1, <1>2, <1>3, <1>5, <1>6, <1>8, <1>9, <1>10, <1>11 DEF IInv

\* The invariant speaks of everything but what is served and what is history.
LEMMA IInvFrame ==
    ASSUME IInv, UNCHANGED <<script, h5part, files, pc, stamp, met>>
    PROVE  IInv'
<1> USE DEF h5part, files
<1>1. TypeOK' BY DEF IInv, TypeOK, Script, Copy, Version, Stamp, Place, Over
<1>2. Alone' BY DEF IInv, Alone, Begun, Active, Over
<1>3. SavedBySome' BY DEF IInv, SavedBySome, Stamp
<1>4. BackupFound' BY DEF IInv, BackupFound, Saved
<1>5. OldKept' BY DEF IInv, OldKept, OldBackedUp, OldLive, WholeOld, BeforeBackup, Stamp
<1>6. UploadsKept'
  BY DEF IInv, UploadsKept, UploadsApart, UploadsBackedUp, HasUploads, HasStorage, Saved, Stamp
<1>7. DirTypeOK' BY DEF IInv, DirTypeOK, Load, Copy, Version, Stamp
<1>8. OwnPlaces'
  BY DEF IInv, OwnPlaces, PlacesAt, AppPlaces, DirPlaces, Begun, Loads, Load
<1>9. Loops' BY DEF IInv, Loops, LoopAt, InLoop, DirPlaces, Over, H5Saved, Current
<1>10. DirsKept' BY DEF IInv, DirsKept, DirBackedUp, DirLive, DirSpared, WholeOld, Stamp
<1> QED BY <1>1, <1>2, <1>3, <1>4, <1>5, <1>6, <1>7, <1>8, <1>9, <1>10 DEF IInv

LEMMA NextIInv == IInv /\ [Next]_vars => IInv'
<1> SUFFICES ASSUME IInv, [Next]_vars PROVE IInv'
  OBVIOUS
<1>1. ASSUME NEW r \in Run, Step(r) PROVE IInv'
  BY <1>1, TypeStep, DirTypeStep, PlacesStep, LoopsStep, AloneStep, SavedStep, BackupFoundStep,
     OldStep, DirsStep, UploadsStep DEF IInv
<1>2. CASE Dies
  BY <1>2, IInvFrame DEF Dies, ghosts
<1>3. CASE UNCHANGED vars
  BY <1>3, IInvFrame DEF vars, h5part, files
<1> QED BY <1>1, <1>2, <1>3 DEF Next

\* Every state of every deploy of a service is in the invariant.
THEOREM Kept == Spec => []IInv
BY InitIInv, NextIInv, PTL DEF Spec

THEOREM KeepsOldAndUploads == Spec => []NothingLost
<1>1. IInv => NothingLost
  BY DEF IInv, OldKept, OldBackedUp, OldLive, WholeOld, UploadsKept, UploadsBackedUp, DirsKept,
         DirBackedUp, DirLive, NothingLost, Copies, DirCopies
<1> QED BY <1>1, Kept, PTL

----------------------------------------------------------------------------
(* A run that met no other *)

\* The types of what only these properties look at.
HistoryOK ==
    /\ serving \in Version \cup {Nothing}
    /\ found \in [Run -> Copy \cup {Nothing}]
    /\ had \subseteq Run /\ stuck \subseteq Run /\ unsure \subseteq Run

\* Only mixchat has uploads.
NoUploadsElsewhere ==
    script # "mixchat" =>
        /\ ~HasUploads(live)
        /\ \A t \in Stamp : ~HasUploads(backup[t]) /\ ~HasUploads(staged[t])
        /\ \A r \in Run : ~HasUploads(found[r])

\* What stands ready in a second is of a run of that second, and a second in
\* which no run began has no backup.
BySecond ==
    \A t \in Stamp :
        /\ staged[t] # Nothing =>
              staged[t].version \in Run /\ stamp[staged[t].version] = t
        /\ backup[t] # Nothing => \E q \in Begun : stamp[q] = t
        /\ \A d \in Dir : h5backup[t][d] # Nothing => \E q \in Begun : stamp[q] = t

\* Nothing is of the version of a run that has not begun.
Unseen ==
    \A r \in Run \ Begun :
        /\ r \notin had /\ serving # r
        /\ \A c \in Copies : c # Nothing => c.version # r

\* A run that met no other has a second of its own, and the runs active beside
\* it began when it had ended.
Apart(r) ==
    /\ \A q \in Begun \ {r} : stamp[q] # stamp[r]
    /\ \A q \in Active \ {r} : stamp[r] < stamp[q]

\* A copy of the version, the wholeness and the uploads that the run found.
LikeFound(r, c) == SameApp(r, c) /\ (HasUploads(found[r]) => HasUploads(c))

New(r) == live # Nothing /\ live.version = r /\ live.whole

FoundAt(r) ==
    /\ found[r] # Nothing => found[r].version # r
    /\ script = "bot-api" => found[r] # Nothing
    /\ script = "ari-bot" /\ pc[r] \notin {"backup", "failed", "killed"} =>
          (found[r] # Nothing => r \in had)
    /\ r \in had => found[r] # Nothing

Untouched == {"stage", "backup"}
Moving    == {"h5mkdir", "h5away", "install", "copying", "storage", "take"}
Undoing   == {"h5remove", "h5restore", "h5restoring"}

\* Up to the replacement.
BeforeAt(r) ==
    /\ \/ pc[r] \in Untouched \/ (pc[r] = "install" /\ script = "ari-bot")
       \/ pc[r] = "failed" /\ r \notin stuck
       => live = found[r]
    /\ pc[r] = "backup" \/ (pc[r] = "stage" /\ script = "bot-api") => Saved(r) = Nothing
    /\ pc[r] = "stage" /\ script = "ari-bot" => Saved(r) = found[r]
    /\ \/ pc[r] = "backup" /\ script = "bot-api"
       \/ pc[r] = "install" /\ script # "mixchat"
       => staged[stamp[r]] = Package(r, "none")

\* While the new version is put in place the backup is what was found.
InstallingAt(r) ==
    /\ pc[r] \in Moving \cup {"stop", "start", "verify"}
          \/ (pc[r] = "restart" /\ script = "ari-bot")
       => Saved(r) = found[r]
    /\ pc[r] \in {"h5mkdir", "h5away"} \/ (pc[r] = "install" /\ script # "ari-bot") =>
          live = Nothing
    /\ pc[r] = "copying" => live # Nothing /\ live.version = r /\ ~live.whole
    /\ pc[r] \in {"storage", "take"} => New(r)
    /\ pc[r] = "take" => live.storage = "none" /\ HasStorage(found[r])

\* From then on it is live, with the uploads.
InstalledAt(r) ==
    pc[r] \in {"h5install", "h5copying", "restart", "migrate", "stop", "start", "verify", "done"}
    => New(r) /\ (HasUploads(found[r]) => HasUploads(live))

\* The service serves the new version only after it was told to.
ServingAt(r) ==
    /\ \/ pc[r] \in Untouched \cup Moving \cup {"h5install", "h5copying", "stop"}
       \/ pc[r] = "failed" /\ r \notin stuck
       \/ script = "mixchat" /\ pc[r] \in {"rollback", "rescue", "remove", "restore",
                                           "restoring"} \cup Undoing
       => serving # r
    /\ r \notin unsure =>
          /\ pc[r] = "start" => serving = Nothing
          /\ pc[r] \in {"verify", "migrate", "done"} => serving \in {r, Nothing}
          /\ pc[r] = "rolledback" /\ found[r] # Nothing => serving # r

\* A rollback finds what it needs: until the uploads have been put back they
\* are in the backup, or live and nowhere else.
RestoringAt(r) ==
    found[r] # Nothing =>
        /\ \/ pc[r] \in {"h5install", "h5copying", "rollback"}
           \/ script = "mixchat" /\ pc[r] \in {"restart", "migrate"}
           => /\ SameApp(r, Saved(r))
              /\ HasUploads(found[r]) =>
                    HasUploads(Saved(r)) \/ (HasUploads(live) /\ ~HasStorage(Saved(r)))
        /\ pc[r] = "rescue" =>
              SameApp(r, Saved(r)) /\ (HasUploads(found[r]) => HasUploads(live))
        /\ pc[r] \in {"remove", "restore", "restoring"} => LikeFound(r, Saved(r))
        /\ pc[r] = "restore" => live = Nothing
        /\ pc[r] = "restoring" => live = [Saved(r) EXCEPT !.whole = FALSE]
        /\ pc[r] \in {"revive", "rolledback"} \cup Undoing => LikeFound(r, live)

\* The course of a run that brings an application.
AppCourse(r) ==
    /\ FoundAt(r) /\ BeforeAt(r) /\ InstallingAt(r) /\ InstalledAt(r)
    /\ ServingAt(r) /\ RestoringAt(r)

\* A run that brings none leaves the one it found, and restarts what serves it.
SpareCourse(r) ==
    /\ live = found[r] /\ serving # r
    /\ found[r] # Nothing => found[r].version # r
    /\ r \notin unsure /\ pc[r] \in {"migrate", "done"} => serving \in {Reloaded, Nothing}

\* A directory the run brings is moved away, copied, and copied back.
DirCourse(r, d) ==
    LET now  == h5[d]
        was  == foundH5[r][d]
        kept == h5backup[stamp[r]][d]
        gone == d \notin todo[r]
    IN  /\ pc[r] \in {"backup", "h5mkdir"} \/ (pc[r] = "h5away" /\ ~gone) =>
              now = was /\ kept = Nothing
        /\ pc[r] = "failed" /\ r \notin stuck => now = was
        /\ \/ pc[r] \in {"install", "copying", "storage", "take", "h5install", "h5copying",
                         "rollback", "rescue", "remove", "restore", "restoring",
                         "restart", "migrate", "done"} \cup Undoing
           \/ pc[r] = "h5away" /\ gone
           => kept = was
        /\ \/ pc[r] \in {"install", "copying", "storage", "take"}
           \/ pc[r] = "h5away" /\ gone
           \/ pc[r] = "h5install" /\ ~gone
           \/ pc[r] = "h5copying" /\ ~gone /\ d # Current(r)
           \/ pc[r] = "h5restore" /\ d = Current(r)
           => now = Nothing
        /\ pc[r] = "h5copying" /\ d = Current(r) =>
              now = [Package(r, "none") EXCEPT !.whole = FALSE]
        /\ \/ pc[r] \in {"h5install", "h5copying"} /\ gone
           \/ pc[r] \in {"restart", "migrate", "done"}
           => now = Package(r, "none")
        /\ pc[r] = "h5restoring" /\ d = Current(r) => now = [kept EXCEPT !.whole = FALSE]
        /\ (pc[r] \in Undoing /\ gone) \/ pc[r] = "rolledback" => now = was

DirsCourse(r) ==
    \A d \in Dir : IF d \in brings[r].dirs THEN DirCourse(r, d) ELSE h5[d] = foundH5[r][d]

Course(r) ==
    /\ IF brings[r].app THEN AppCourse(r) ELSE SpareCourse(r)
    /\ DirsCourse(r)

\* What the run found can be found again.
AppRecoverable(r) ==
    /\ found[r] # Nothing => SameApp(r, live) \/ SameApp(r, Saved(r))
    /\ HasUploads(found[r]) => HasUploads(live) \/ HasUploads(Saved(r))
DirsRecoverable(r) ==
    \A d \in Dir : foundH5[r][d] # Nothing =>
        foundH5[r][d] \in {h5[d], h5backup[stamp[r]][d]}

SoloAt(r) ==
    r \in Begun =>
        /\ Apart(r)
        /\ Latest(r) => Course(r) /\ AppRecoverable(r) /\ DirsRecoverable(r)

Solo ==
    /\ HistoryOK /\ NoUploadsElsewhere /\ BySecond /\ Unseen
    /\ \A r \in Run \ met : SoloAt(r)

\* What changing one field of a copy changes.
LEMMA FieldFacts ==
    /\ \A c \in Copy, w \in BOOLEAN :
          /\ [c EXCEPT !.whole = w] \in Copy /\ [c EXCEPT !.whole = w].version = c.version
          /\ [c EXCEPT !.whole = w].whole = w /\ [c EXCEPT !.whole = w].storage = c.storage
    /\ \A c \in Copy, s \in {"none", "package", "uploads"} :
          /\ [c EXCEPT !.storage = s] \in Copy /\ [c EXCEPT !.storage = s].version = c.version
          /\ [c EXCEPT !.storage = s].whole = c.whole /\ [c EXCEPT !.storage = s].storage = s
    /\ \A r \in Run, s \in {"none", "package"} :
          /\ Package(r, s) \in Copy /\ Package(r, s).version = r
          /\ Package(r, s).whole /\ Package(r, s).storage = s
BY DEF Copy, Package, Version

\* A run on its way has a second, and its backup and staged copy are copies.
LEMMA RunFacts ==
    ASSUME TypeOK, Alone, NEW r \in Run, r \in Active
    PROVE  /\ stamp[r] \in Stamp /\ r \in Begun
           /\ Saved(r) \in Copy \cup {Nothing}
           /\ staged[stamp[r]] \in Copy \cup {Nothing}
BY DEF TypeOK, Alone, Begun, Saved

LEMMA ActsActive ==
    ASSUME TypeOK, NEW r \in Run, Step(r), ~Begin(r), ~Refuse(r)
    PROVE  r \in Active /\ UNCHANGED <<stamp, met, brings, found, foundH5>>
<1>1. r \in Active /\ UNCHANGED <<stamp, met, brings>>
  BY Frame DEF Active
<1>2. CASE H5Step(r)
  BY <1>1, <1>2, DirFrame
<1>3. CASE ~H5Step(r)
  <2>1. UNCHANGED found
    BY <1>3 DEF Step, Stage, MoveAway, CopyAway, MoveAwayFails,
       MoveInPlace, MoveInPlaceFails, CopyBegins, CopyEnds, DropStorage, DropStorageFails,
       TakeStorage, Stop, Start, Verify, Restart, Migrate, Rollback, Rescue, Remove, RemoveFails,
       RestoreBegins, RestoreEnds, Revive, ReviveFails, Crash, ghosts
  <2> QED BY <1>1, <1>3, <2>1, AppFrame
<1> QED BY <1>2, <1>3

\* Where a step takes the live copy from.
LEMMA LiveFrom ==
    ASSUME TypeOK, Alone, BackupFound, NEW r \in Run, Step(r), live' # Nothing
    PROVE  \/ live' = live
           \/ live # Nothing /\ live'.version = live.version
           \/ CopyBegins(r) /\ live'.version = r
           \/ Saved(r) # Nothing /\ live'.version = Saved(r).version
           \/ MoveInPlace(r) /\ live' = staged[stamp[r]]
<1>1. CASE CopyBegins(r)
  <2>1. PICK storage \in {"none", "package"} :
          live' = Moved(live, [Package(r, storage) EXCEPT !.whole = FALSE])
    BY <1>1 DEF CopyBegins
  <2> QED BY <1>1, <2>1, FieldFacts DEF Moved
<1>2. CASE MoveInPlace(r) BY <1>2 DEF MoveInPlace, Moved
<1>3. CASE CopyEnds(r) \/ DropStorage(r)
  <2>1. \/ live' = live
        \/ live # Nothing /\ live' = [live EXCEPT !.whole = TRUE]
        \/ live # Nothing /\ live' = [live EXCEPT !.storage = "none"]
    BY <1>3 DEF CopyEnds, DropStorage, Half
  <2>2. live # Nothing => live \in Copy
    BY DEF TypeOK
  <2>3. live # Nothing => /\ [live EXCEPT !.whole = TRUE].version = live.version
                          /\ [live EXCEPT !.storage = "none"].version = live.version
    BY <2>2 DEF Copy
  <2> QED BY <2>1, <2>3
<1>4. CASE TakeStorage(r)
  <2>1. \/ live' = live
        \/ /\ live # Nothing /\ HasStorage(Saved(r))
           /\ live' = [live EXCEPT !.storage =
                          IF live.storage = "none" THEN Saved(r).storage ELSE live.storage]
    BY <1>4 DEF TakeStorage
  <2>2. \A s : live # Nothing => [live EXCEPT !.storage = s].version = live.version
    BY DEF TypeOK, Copy
  <2> QED BY <2>1, <2>2
<1>5. CASE Rescue(r)
  <2>1. live' = live \/ (HasStorage(live) /\ live' = [live EXCEPT !.storage = "none"])
    BY <1>5 DEF Rescue
  <2>2. live # Nothing => [live EXCEPT !.storage = "none"].version = live.version
    BY DEF TypeOK, Copy
  <2> QED BY <2>1, <2>2 DEF HasStorage
<1>6. CASE RestoreBegins(r)
  <2>1. Saved(r) \in Copy
    BY <1>6, RunFacts DEF RestoreBegins, Active, Over, BackupFound
  <2> QED BY <1>6, <2>1, FieldFacts, CopyFacts DEF RestoreBegins, Moved
<1>7. CASE RestoreEnds(r) BY <1>7 DEF RestoreEnds, Abort, BackupFound
<1>8. CASE MoveAway(r) \/ Remove(r) BY <1>8 DEF MoveAway, Remove
<1>9. CASE DropStorageFails(r)
  <2>1. PICK storage : live' = [live EXCEPT !.storage = storage] BY <1>9 DEF DropStorageFails
  <2>2. live \in Copy BY <1>9 DEF DropStorageFails, HasStorage, TypeOK
  <2> QED BY <2>1, <2>2, CopyFacts DEF Copy
<1>10. CASE RemoveFails(r)
  <2>1. live \in Copy BY <1>10 DEF RemoveFails, TypeOK
  <2>2. live' = live \/ live' \in Remains(live) BY <1>10 DEF RemoveFails
  <2>3. \A c \in Remains(live) : c.version = live.version BY <2>1 DEF Remains, Copy
  <2> QED BY <2>1, <2>2, <2>3, CopyFacts
<1>11. CASE H5Step(r) BY <1>11, DirFrame
<1> QED
  BY <1>1, <1>2, <1>3, <1>4, <1>5, <1>6, <1>7, <1>8, <1>9, <1>10, <1>11 DEF Step, Refuse,
     Begin, Stage, CopyAway, MoveAwayFails, MoveInPlaceFails, Stop, Start, Verify, Restart,
     Migrate, Rollback, Revive, ReviveFails, Crash, files

\* and the backups: they keep their version, or are of the live copy.
LEMMA BackupFrom ==
    ASSUME TypeOK, Alone, BackupFound, NEW r \in Run, Step(r), NEW t \in Stamp,
           backup'[t] # Nothing
    PROVE  \/ backup[t] # Nothing /\ backup'[t].version = backup[t].version
           \/ t = stamp[r] /\ live # Nothing /\ backup'[t] = live
<1>1. CASE MoveAway(r) \/ CopyAway(r)
  BY <1>1 DEF MoveAway, CopyAway, Moved, TypeOK
<1>2. CASE ~MoveAway(r) /\ ~CopyAway(r)
  <2>1. pc[r] = "backup" => backup' = backup
    BY <1>2, BackupWriters DEF TakeStorage, Rescue
  <2> QED BY <1>2, <2>1, BackupSteps
<1> QED BY <1>1, <1>2

LEMMA ServingFrom ==
    ASSUME TypeOK, NEW r \in Run, Step(r)
    PROVE  \/ serving' = serving \/ serving' = Nothing
           \/ live # Nothing /\ serving' = live.version
<1>1. CASE H5Step(r) BY <1>1, DirFrame
<1> QED
  BY <1>1 DEF Step, Refuse, Begin, Stage, MoveAway, CopyAway, MoveAwayFails,
     MoveInPlace, MoveInPlaceFails, CopyBegins, CopyEnds, DropStorage, DropStorageFails,
     TakeStorage, Stop, Start, Verify, Restart, Migrate, Rollback, Rescue, Remove, RemoveFails,
     RestoreBegins, RestoreEnds, Revive, ReviveFails, Crash, Started, Reloaded

LEMMA HistoryStep ==
    ASSUME TypeOK, HistoryOK, NEW r \in Run, Step(r)
    PROVE  HistoryOK'
<1>1. serving' \in Version \cup {Nothing}
  BY ServingFrom DEF TypeOK, HistoryOK, Copy
<1>2. found' \in [Run -> Copy \cup {Nothing}]
  <2>1. CASE Begin(r)
    BY <2>1 DEF Begin, HistoryOK, TypeOK
  <2>2. CASE Refuse(r)
    BY <2>2 DEF Refuse, ghosts, HistoryOK
  <2>3. CASE ~Begin(r) /\ ~Refuse(r)
    BY <2>3, ActsActive DEF HistoryOK
  <2> QED BY <2>1, <2>2, <2>3
<1>3. had' \subseteq Run /\ stuck' \subseteq Run /\ unsure' \subseteq Run
  <2>1. CASE H5Step(r) BY <2>1, DirFrame DEF HistoryOK
  <2> QED
    BY <2>1 DEF HistoryOK, Step, Refuse, Begin, Stage, MoveAway, CopyAway, MoveAwayFails,
       MoveInPlace, MoveInPlaceFails, CopyBegins, CopyEnds, DropStorage, DropStorageFails,
       TakeStorage, Stop, Start, Verify, Restart, Migrate, Rollback, Rescue, Remove,
       RemoveFails, RestoreBegins, RestoreEnds, Revive, ReviveFails, Crash, Abort, ghosts
<1> QED BY <1>1, <1>2, <1>3 DEF HistoryOK, Version

LEMMA NoUploadsStep ==
    ASSUME TypeOK, DirTypeOK, Loops, Alone, BackupFound, OwnPlaces, NoUploadsElsewhere,
           NEW r \in Run, Step(r)
    PROVE  NoUploadsElsewhere'
<1> SUFFICES ASSUME script # "mixchat"
             PROVE  /\ ~HasUploads(live')
                    /\ \A t \in Stamp : ~HasUploads(backup'[t]) /\ ~HasUploads(staged'[t])
                    /\ \A q \in Run : ~HasUploads(found'[q])
  BY Frame DEF NoUploadsElsewhere, Stamp, HasUploads
<1>1. /\ ~HasUploads(live)
      /\ \A t \in Stamp : ~HasUploads(backup[t]) /\ ~HasUploads(staged[t])
      /\ \A q \in Run : ~HasUploads(found[q])
  BY DEF NoUploadsElsewhere
<1>2. \A q \in Run : found'[q] = found[q] \/ found'[q] = live
  <2>1. CASE Begin(r)
    BY <2>1 DEF Begin
  <2>2. CASE Refuse(r)
    BY <2>2 DEF Refuse, ghosts
  <2> QED BY <2>1, <2>2, ActsActive
<1>3. r \in Active => stamp[r] \in Stamp
  BY RunFacts
<1>4. ~H5Step(r)
  BY DirFrame, DirInHand
<1>5. \A t \in Stamp : ~HasUploads(staged'[t])
  <2>1. CASE Stage(r)
    <3>1. ~HasUploads(Package(r, "none"))
      BY FieldFacts DEF HasUploads
    <3> QED BY <1>1, <2>1, <3>1 DEF Stage, TypeOK
  <2>2. CASE MoveInPlace(r) \/ Revive(r)
    BY <1>1, <2>2 DEF MoveInPlace, Revive, TypeOK, HasUploads
  <2>3. CASE staged' = staged
    BY <1>1, <2>3
  <2> QED
    BY <1>4, <2>1, <2>2, <2>3 DEF Step, Refuse, Begin, MoveAway, CopyAway, MoveAwayFails,
       MoveInPlaceFails, CopyBegins, CopyEnds, DropStorage, DropStorageFails,
       TakeStorage, Stop, Start, Verify, Restart, Migrate, Rollback, Rescue, Remove, RemoveFails,
       RestoreBegins, RestoreEnds, ReviveFails, Crash, files
<1>6. /\ ~TakeStorage(r) /\ ~Rescue(r) /\ ~CopyBegins(r) /\ ~CopyEnds(r)
      /\ ~DropStorage(r) /\ ~DropStorageFails(r)
  BY DEF OwnPlaces, PlacesAt, TakeStorage, Rescue, CopyBegins, CopyEnds, DropStorage,
     DropStorageFails
<1>7. \A t \in Stamp : ~HasUploads(backup'[t])
  <2>1. CASE MoveAway(r) \/ CopyAway(r)
    BY <1>1, <2>1 DEF MoveAway, CopyAway, Moved, TypeOK
  <2> QED BY <1>1, <1>6, <2>1, BackupWriters
<1>8. ~HasUploads(live')
  <2>1. CASE RestoreBegins(r)
    <3>1. Saved(r) \in Copy /\ ~HasUploads(Saved(r))
      BY <1>1, <1>3, <2>1, RunFacts DEF RestoreBegins, BackupFound, Active, Over, Saved
    <3>2. [Saved(r) EXCEPT !.whole = FALSE].storage = Saved(r).storage
      BY <3>1 DEF Copy
    <3> QED BY <1>1, <2>1, <3>1, <3>2, CopyFacts DEF RestoreBegins, Moved, HasUploads
  <2>2. CASE MoveInPlace(r)
    BY <1>1, <1>3, <2>2 DEF MoveInPlace, Moved, Active, Over
  <2>3. CASE RestoreEnds(r)
    BY <1>1, <1>3, <2>3 DEF RestoreEnds, Abort, Active, Over, Saved
  <2>4. CASE MoveAway(r) \/ Remove(r)
    BY <1>1, <2>4 DEF MoveAway, Remove, HasUploads
  <2>5. CASE RemoveFails(r)
    <3>1. live \in Copy /\ live.storage # "uploads"
      BY <1>1, <2>5 DEF RemoveFails, TypeOK, HasUploads
    <3>2. live' = live \/ live' \in Remains(live) BY <2>5 DEF RemoveFails
    <3> QED BY <1>1, <3>1, <3>2 DEF Remains, Copy, HasUploads
  <2>6. CASE live' = live
    BY <1>1, <2>6
  <2> QED
    BY <1>4, <1>6, <2>1, <2>2, <2>3, <2>4, <2>5, <2>6 DEF Step, Refuse, Begin, Stage, CopyAway,
       MoveAwayFails, MoveInPlaceFails, Stop, Start, Verify, Restart, Migrate,
       Rollback, Revive, ReviveFails, Crash, files
<1> QED BY <1>1, <1>2, <1>5, <1>7, <1>8

\* Who has begun stays so, in the same second.
LEMMA BegunStays ==
    ASSUME TypeOK, Alone, NEW r \in Run, Step(r)
    PROVE  /\ \A q \in Begun : q \in Begun' /\ stamp'[q] = stamp[q]
           /\ \A q \in Begun' : q \in Begun \/ (q = r /\ Begin(r))
<1>1. CASE Begin(r)
  <2>1. r \notin Begun
    BY <1>1 DEF Begin, Alone, Begun
  <2>2. PICK t \in Stamp : stamp' = [stamp EXCEPT ![r] = t]
    BY <1>1 DEF Begin
  <2>3. t # 0
    BY DEF Stamp
  <2> QED BY <1>1, <2>1, <2>2, <2>3 DEF Begun, TypeOK
<1>2. CASE ~Begin(r)
  BY <1>2, Frame DEF Begun
<1> QED BY <1>1, <1>2

LEMMA BySecondStep ==
    ASSUME TypeOK, DirTypeOK, Loops, OwnPlaces, Alone, BackupFound, BySecond,
           NEW r \in Run, Step(r)
    PROVE  BySecond'
<1> SUFFICES ASSUME NEW t \in Stamp
             PROVE  /\ staged'[t] # Nothing =>
                          staged'[t].version \in Run /\ stamp'[staged'[t].version] = t
                    /\ backup'[t] # Nothing => \E q \in Begun' : stamp'[q] = t
                    /\ \A d \in Dir : h5backup'[t][d] # Nothing => \E q \in Begun' : stamp'[q] = t
  BY DEF BySecond, Stamp
<1>0. t # 0
  BY DEF Stamp
<1>1. staged'[t] # Nothing => staged'[t].version \in Run /\ stamp'[staged'[t].version] = t
  <2>1. CASE staged'[t] # staged[t] /\ staged'[t] # Nothing
    <3>0. ~H5Step(r)
      BY <2>1, DirFrame
    <3>1. Stage(r) /\ t = stamp[r] /\ staged'[t] = Package(r, "none")
      BY <2>1, <3>0 DEF Step, Refuse, Begin, Stage, MoveAway, CopyAway, MoveAwayFails,
         MoveInPlace, MoveInPlaceFails, CopyBegins, CopyEnds, DropStorage, DropStorageFails,
         TakeStorage, Stop, Start, Verify, Restart, Migrate, Rollback, Rescue, Remove, RemoveFails,
         RestoreBegins, RestoreEnds, Revive, ReviveFails, Crash, files, TypeOK
    <3>2. UNCHANGED stamp
      BY <3>1 DEF Stage
    <3> QED BY <3>1, <3>2 DEF Package
  <2>2. CASE staged'[t] = staged[t] /\ staged[t] # Nothing
    <3>1. staged[t].version \in Run /\ stamp[staged[t].version] = t
      BY <2>2 DEF BySecond
    <3>2. staged[t].version \in Begun
      BY <1>0, <3>1 DEF Begun
    <3> QED BY <2>2, <3>1, <3>2, BegunStays
  <2> QED BY <2>1, <2>2
<1>2. ASSUME backup'[t] # Nothing
      PROVE  \E q \in Begun' : stamp'[q] = t
  <2>1. \E q \in Begun : stamp[q] = t
    <3>1. CASE backup[t] # Nothing
      BY <3>1 DEF BySecond
    <3>2. CASE backup[t] = Nothing
      BY <1>0, <1>2, <3>2, BackupFrom DEF Begun
    <3> QED BY <3>1, <3>2
  <2> QED BY <2>1, BegunStays
<1>3. ASSUME NEW d \in Dir, h5backup'[t][d] # Nothing
      PROVE  \E q \in Begun' : stamp'[q] = t
  <2>1. \E q \in Begun : stamp[q] = t
    <3>1. CASE h5backup[t][d] # Nothing
      BY <3>1 DEF BySecond
    <3>2. CASE h5backup[t][d] = Nothing
      BY <1>0, <1>3, <3>2, DirBackupStays DEF Begun
    <3> QED BY <3>1, <3>2
  <2> QED BY <2>1, BegunStays
<1> QED BY <1>1, <1>2, <1>3

LEMMA UnseenStep ==
    ASSUME TypeOK, Alone, BackupFound, BySecond, Unseen, NEW r \in Run, Step(r)
    PROVE  Unseen'
<1> SUFFICES ASSUME NEW q \in Run \ Begun'
             PROVE  /\ q \notin had' /\ serving' # q
                    /\ live' # Nothing => live'.version # q
                    /\ \A t \in Stamp : backup'[t] # Nothing => backup'[t].version # q
  BY DEF Unseen, Copies, Stamp
<1>1. q \in Run \ Begun
  BY BegunStays
<1>2. /\ q \notin had /\ serving # q
      /\ live # Nothing => live.version # q
      /\ \A t \in Stamp : backup[t] # Nothing => backup[t].version # q
  BY <1>1 DEF Unseen, Copies
<1>3. q # Nothing
  BY ServiceAssumption
<1>4. serving' # q
  BY <1>2, <1>3, ServingFrom
<1>5. q \notin had'
  <2>1. CASE CopyAway(r)
    BY <1>1, <1>2, <2>1, RunFacts DEF CopyAway, Active, Over
  <2>2. CASE had' = had
    BY <1>2, <2>2
  <2>3. CASE H5Step(r)
    BY <2>2, <2>3, DirFrame
  <2> QED
    BY <2>1, <2>2, <2>3 DEF Step, Refuse, Begin, Stage, MoveAway, MoveAwayFails,
       MoveInPlace, MoveInPlaceFails, CopyBegins, CopyEnds, DropStorage, DropStorageFails,
       TakeStorage, Stop, Start, Verify, Restart, Migrate, Rollback, Rescue, Remove, RemoveFails,
       RestoreBegins, RestoreEnds, Revive, ReviveFails, Crash, ghosts
<1>6. \A t \in Stamp : backup'[t] # Nothing => backup'[t].version # q
  BY <1>2, BackupFrom
<1>7. ASSUME live' # Nothing
      PROVE  live'.version # q
  <2>1. CASE Refuse(r) \/ Begin(r)
    BY <1>2, <1>7, <2>1 DEF Refuse, Begin, files
  <2>2. CASE ~Refuse(r) /\ ~Begin(r)
    <3>1. r \in Begun /\ stamp[r] \in Stamp /\ r # q
      BY <1>1, <2>2, ActsActive, RunFacts
    <3>2. MoveInPlace(r) => staged[stamp[r]].version # q
      <4>1. MoveInPlace(r) => stamp[staged[stamp[r]].version] = stamp[r]
        BY <3>1 DEF MoveInPlace, BySecond
      <4> QED BY <1>1, <3>1, <4>1 DEF Begun
    <3> QED BY <1>2, <1>7, <3>1, <3>2, LiveFrom DEF Saved
  <2> QED BY <2>1, <2>2
<1> QED BY <1>4, <1>5, <1>6, <1>7

\* Runs that met no other stay apart.
LEMMA ApartStep ==
    ASSUME TypeOK, Alone, NEW q \in Run, Step(q), NEW r \in Run \ met',
           r \in Begun => Apart(r), r \in Begun'
    PROVE  Apart(r)'
<1>0. /\ stamp \in [Run -> Stamp \cup {0}]
      /\ \A p \in Run : stamp[p] \in Int
      /\ \A t \in Stamp : t \in Int /\ t # 0
      /\ Active \subseteq Begun
  <2>1. stamp \in [Run -> Stamp \cup {0}]
    BY DEF TypeOK
  <2>2. \A t \in Stamp : t \in Int /\ t # 0
    BY DEF Stamp
  <2>3. Active \subseteq Begun
    BY DEF Alone, Begun, Active
  <2> QED BY <2>1, <2>2, <2>3
<1>1. CASE Begin(q)
  <2>1. PICK t \in Stamp :
          /\ \A p \in Begun : stamp[p] < t \/ (stamp[p] = t /\ Active # {})
          /\ stamp' = [stamp EXCEPT ![q] = t]
    BY <1>1 DEF Begin
  <2>2. /\ met' = IF Active = {} THEN met ELSE met \cup Active \cup {q}
        /\ q \notin Begun /\ Begun' = Begun \cup {q}
        /\ Active' \subseteq Active \cup {q}
    <3>1. met' = IF Active = {} THEN met ELSE met \cup Active \cup {q}
      BY <1>1 DEF Begin
    <3>2. q \notin Begun
      BY <1>1 DEF Begin, Alone, Begun
    <3>3. Begun' = Begun \cup {q}
      BY <1>0, <2>1 DEF Begun
    <3>4. Active' \subseteq Active \cup {q}
      BY Frame DEF Active
    <3> QED BY <3>1, <3>2, <3>3, <3>4
  <2>3. \A p \in Begun : stamp'[p] = stamp[p] /\ p \in Run
    BY <1>0, <2>1, <2>2 DEF Begun
  <2>4. stamp'[q] = t /\ t \in Int
    BY <1>0, <2>1
  <2>5. CASE r = q
    <3>1. Active = {}
      BY <2>2, <2>5
    <3>2. \A p \in Begun : stamp[p] < t /\ stamp[p] \in Int
      BY <1>0, <2>1, <2>3, <3>1
    <3> QED BY <2>2, <2>3, <2>4, <2>5, <3>1, <3>2 DEF Apart
  <2>6. CASE r # q
    <3>1. r \in Begun /\ Apart(r) /\ r \notin Active /\ stamp'[r] = stamp[r]
      BY <2>2, <2>3, <2>6
    <3>2. stamp[r] < t
      <4>1. CASE Active = {}
        BY <2>1, <3>1, <4>1
      <4>2. ASSUME NEW p \in Active
            PROVE  stamp[r] < t
        <5>1. p \in Begun /\ stamp[r] < stamp[p] /\ (stamp[p] < t \/ stamp[p] = t)
          BY <1>0, <2>1, <3>1, <4>2 DEF Apart
        <5>2. stamp[p] \in Int /\ stamp[r] \in Int
          BY <1>0, <2>3, <3>1, <5>1
        <5> QED BY <2>4, <5>1, <5>2
      <4> QED BY <4>1, <4>2
    <3>3. stamp[r] \in Int
      BY <1>0
    <3> QED BY <1>0, <2>2, <2>3, <2>4, <3>1, <3>2, <3>3 DEF Apart
  <2> QED BY <2>5, <2>6
<1>2. CASE ~Begin(q)
  <2>1. stamp' = stamp /\ Begun' = Begun
    BY <1>2, Frame DEF Begun
  <2>2. Active' \subseteq Active
    BY <1>2, Frame, ActsActive DEF Active, Refuse, Goto, TypeOK, Over
  <2> QED BY <2>1, <2>2 DEF Apart
<1> QED BY <1>1, <1>2

\* While a run is the last to have begun, nobody else does anything.
LEMMA OthersRefuse ==
    ASSUME TypeOK, Alone, NEW q \in Run, Step(q), NEW r \in Run \ met', r # q,
           r \in Begun, Apart(r), Latest(r)'
    PROVE  Refuse(q)
<1> SUFFICES ASSUME ~Refuse(q) PROVE FALSE
  OBVIOUS
<1>1. r \in Begun' /\ stamp'[r] = stamp[r] /\ stamp[r] \in Int
  BY BegunStays DEF TypeOK, Stamp
<1>2. q \in Begun' /\ stamp'[q] \in Int /\ stamp'[r] < stamp'[q]
  <2>1. CASE Begin(q)
    <3>1. PICK t \in Stamp : stamp' = [stamp EXCEPT ![q] = t]
      BY <2>1 DEF Begin
    <3>2. q \in Active' /\ q \in Begun' /\ stamp'[q] \in Int
      BY <2>1, <3>1 DEF Begin, Goto, TypeOK, Active, Over, Begun, Stamp
    <3>3. Apart(r)'
      BY <1>1, ApartStep
    <3> QED BY <3>2, <3>3 DEF Apart
  <2>2. CASE ~Begin(q)
    <3>1. q \in Active /\ stamp' = stamp
      BY <2>2, ActsActive
    <3>2. q \in Begun /\ stamp[q] \in Int
      BY <3>1, RunFacts DEF Stamp
    <3> QED BY <3>1, <3>2 DEF Apart, Begun
  <2> QED BY <2>1, <2>2
<1>3. stamp'[q] =< stamp'[r]
  BY <1>2 DEF Latest
<1> QED BY <1>1, <1>2, <1>3

\* A run that has just begun is at the start of its course.
LEMMA BeginsCourse ==
    ASSUME TypeOK, DirTypeOK, HistoryOK, Alone, BySecond, Unseen, NEW r \in Run, Begin(r),
           r \notin met'
    PROVE  Course(r)'
<1>1. PICK t \in Stamp :
        /\ \A p \in Begun : stamp[p] < t \/ (stamp[p] = t /\ Active # {})
        /\ stamp' = [stamp EXCEPT ![r] = t]
  BY DEF Begin
<1>0. PICK load \in Loads :
        /\ brings' = [brings EXCEPT ![r] = load]
        /\ todo' = [todo EXCEPT ![r] = load.dirs]
        /\ pc'[r] = IF script = "bot-api" THEN "stage"
                    ELSE IF load.app THEN "backup" ELSE "h5mkdir"
  BY DEF Begin, Goto, TypeOK
<1>2. /\ UNCHANGED <<script, live, backup, staged, serving, h5, h5backup>>
      /\ found'[r] = live /\ stamp'[r] = t /\ Active = {} /\ foundH5'[r] = h5
      /\ script = "bot-api" => live # Nothing
  BY <1>1 DEF Begin, files, TypeOK, DirTypeOK, HistoryOK
<1>3. /\ brings'[r] = load /\ todo'[r] = load.dirs
      /\ pc'[r] \in {"stage", "backup", "h5mkdir"}
      /\ load.app => pc'[r] = IF script = "bot-api" THEN "stage" ELSE "backup"
      /\ pc'[r] = "stage" => load.dirs = {}
  BY <1>0, LoadFacts DEF DirTypeOK
<1>4. r \notin Begun
  BY DEF Begin, Alone, Begun
<1>5. backup[t] = Nothing /\ \A d \in Dir : h5backup[t][d] = Nothing
  <2>1. \A p \in Begun : stamp[p] \in Int /\ t \in Int /\ stamp[p] < t
    BY <1>1, <1>2 DEF TypeOK, Stamp, Begun
  <2> QED BY <2>1 DEF BySecond
<1>6. serving # r /\ (live # Nothing => live.version # r) /\ r \notin had'
  BY <1>4 DEF Unseen, Copies, Begin
<1>7. load.app => AppCourse(r)'
  BY <1>2, <1>3, <1>5, <1>6 DEF AppCourse, FoundAt, BeforeAt, InstallingAt, InstalledAt,
     ServingAt, RestoringAt, Saved, Untouched, Moving, Undoing
<1>8. SpareCourse(r)'
  BY <1>2, <1>3, <1>6 DEF SpareCourse
<1>9. DirsCourse(r)'
  BY <1>2, <1>3, <1>5 DEF DirsCourse, DirCourse, Undoing
<1> QED BY <1>3, <1>7, <1>8, <1>9 DEF Course

----------------------------------------------------------------------------
(* The steps of a run that met no other *)

\* What a run on its way finds before a step of its own.
Here(r) ==
    /\ TypeOK /\ DirTypeOK /\ OwnPlaces /\ Loops /\ Alone /\ BackupFound
    /\ HistoryOK /\ NoUploadsElsewhere /\ Course(r)
    /\ r \in Active /\ stamp[r] \in Stamp
    /\ Saved(r) \in Copy \cup {Nothing}

LEMMA StagesOnCourse ==
    ASSUME NEW r \in Run, Here(r), brings[r].app, Stage(r)
    PROVE  AppCourse(r)'
<1>1. /\ UNCHANGED <<script, live, backup, serving, stamp, stuck, had, found, unsure>>
      /\ pc[r] = "stage" /\ r \in Run /\ TypeOK /\ stamp[r] \in Stamp
      /\ UNCHANGED Saved(r)
  BY DEF Stage, ghosts, Here, Saved
<1>2. \/ /\ staged'[stamp[r]] = Package(r, "none")
         /\ pc'[r] = IF script = "bot-api" THEN "backup" ELSE "install"
      \/ pc'[r] = "failed"
  BY <1>1 DEF Stage, Goto, TypeOK
<1>3. script # "mixchat"
  BY <1>1 DEF Here, OwnPlaces, PlacesAt
<1>4. /\ live = found[r] /\ serving # r
      /\ script = "bot-api" => Saved(r) = Nothing /\ found[r] # Nothing
      /\ script = "ari-bot" => Saved(r) = found[r] /\ (r \in had <=> found[r] # Nothing)
      /\ found[r] # Nothing => found[r].version # r
      /\ r \in had => found[r] # Nothing
  BY <1>1 DEF Here, Course, AppCourse, BeforeAt, FoundAt, ServingAt, Untouched, Moving, Undoing
<1>5. script \in {"bot-api", "ari-bot"}
  BY <1>1, <1>3 DEF TypeOK, Script
<1> QED
  BY <1>1, <1>2, <1>4, <1>5 DEF AppCourse, FoundAt, BeforeAt, InstallingAt, InstalledAt,
     ServingAt, RestoringAt, Untouched, Moving, Undoing

LEMMA BacksUpOnCourse ==
    ASSUME NEW r \in Run, Here(r), brings[r].app, MoveAway(r) \/ CopyAway(r) \/ MoveAwayFails(r)
    PROVE  AppCourse(r)'
<1>1. /\ UNCHANGED <<script, staged, serving, stamp, stuck, found, unsure>>
      /\ pc[r] = "backup" /\ r \in Run /\ TypeOK /\ stamp[r] \in Stamp
  BY DEF MoveAway, CopyAway, MoveAwayFails, files, ghosts, Here
<1>2. /\ live = found[r] /\ Saved(r) = Nothing /\ serving # r
      /\ script = "bot-api" => found[r] # Nothing /\ staged[stamp[r]] = Package(r, "none")
      /\ found[r] # Nothing => found[r].version # r
      /\ r \in had => found[r] # Nothing
  BY <1>1 DEF Here, Course, AppCourse, BeforeAt, ServingAt, FoundAt, Untouched
<1>3. CASE MoveAway(r)
  <2>1. /\ Saved(r)' = live /\ live' = Nothing /\ pc'[r] \in {"h5mkdir", "install"}
        /\ had' = had /\ script \in {"bot-api", "mixchat"}
    BY <1>1, <1>2, <1>3 DEF MoveAway, Moved, Saved, Goto, TypeOK, ghosts, Script, Loop
  <2>2. UNCHANGED staged /\ (script = "bot-api" => staged'[stamp'[r]] = Package(r, "none"))
    BY <1>1, <1>2
  <2> QED
    BY <1>1, <1>2, <2>1, <2>2 DEF AppCourse, FoundAt, BeforeAt, InstallingAt, InstalledAt,
       ServingAt, RestoringAt, Untouched, Moving, Undoing
<1>4. CASE CopyAway(r)
  <2>1. /\ live' = live /\ script = "ari-bot" /\ pc'[r] \in {"stage", "failed"}
        /\ r \in had' => live # Nothing
        /\ pc'[r] = "stage" => Saved(r)' = live /\ (r \in had' <=> live # Nothing)
    BY <1>1, <1>2, <1>4, CopyFacts DEF CopyAway, Saved, Goto, TypeOK, HistoryOK
  <2> QED
    BY <1>1, <1>2, <2>1 DEF AppCourse, FoundAt, BeforeAt, InstallingAt, InstalledAt,
       ServingAt, RestoringAt, Untouched, Moving, Undoing
<1>5. CASE MoveAwayFails(r)
  <2>1. UNCHANGED <<live, backup, had>> /\ pc'[r] = "failed" /\ UNCHANGED Saved(r)
    BY <1>1, <1>5 DEF MoveAwayFails, files, ghosts, Goto, TypeOK, Saved
  <2> QED
    BY <1>1, <1>2, <2>1 DEF AppCourse, FoundAt, BeforeAt, InstallingAt, InstalledAt,
       ServingAt, RestoringAt, Untouched, Moving, Undoing
<1> QED BY <1>3, <1>4, <1>5

LEMMA PlacesInside ==
    ASSUME NEW r \in Run, Here(r)
    PROVE  /\ script \in {"bot-api", "mixchat", "ari-bot"}
           /\ pc[r] \in {"copying", "storage", "take", "migrate", "rescue"} => script = "mixchat"
           /\ pc[r] \in {"stop", "start"} => script = "bot-api"
           /\ pc[r] \in {"verify", "revive"} => script # "mixchat"
           /\ pc[r] = "restart" => script # "bot-api"
           /\ script # "mixchat" => ~HasUploads(found[r])
           /\ found[r] \in Copy \cup {Nothing} /\ live \in Copy \cup {Nothing}
           /\ serving \in Version \cup {Nothing}
           /\ r # Nothing /\ brings[r] \in Loads
<1>1. script \in {"bot-api", "mixchat", "ari-bot"} /\ live \in Copy \cup {Nothing}
  BY DEF Here, TypeOK, Script
<1>2. PlacesAt(r) /\ r \in Begun
  BY DEF Here, OwnPlaces, Begun, Stamp
<1>3. /\ serving \in Version \cup {Nothing} /\ found[r] \in Copy \cup {Nothing}
      /\ script # "mixchat" => ~HasUploads(found[r])
  BY DEF Here, HistoryOK, NoUploadsElsewhere
<1> QED BY <1>1, <1>2, <1>3, ServiceAssumption DEF PlacesAt

LEMMA MovesInOnCourse ==
    ASSUME NEW r \in Run, Here(r), brings[r].app, MoveInPlace(r) \/ MoveInPlaceFails(r)
    PROVE  AppCourse(r)'
<1>1. /\ UNCHANGED <<script, serving, stamp, found, had, unsure, backup>>
      /\ pc[r] = "install" /\ script # "mixchat" /\ TypeOK /\ stamp[r] \in Stamp
      /\ Saved(r)' = Saved(r)
  BY DEF MoveInPlace, MoveInPlaceFails, files, ghosts, Abort, Here, Saved
<1>2. /\ Saved(r) = found[r] /\ staged[stamp[r]] = Package(r, "none") /\ serving # r
      /\ script # "ari-bot" => live = Nothing
      /\ script = "ari-bot" => live = found[r]
      /\ FoundAt(r)
  BY <1>1 DEF Here, Course, AppCourse, BeforeAt, InstallingAt, ServingAt, Moving
<1>3. CASE MoveInPlace(r)
  <2>1. live' = Package(r, "none") /\ pc'[r] = IF script = "bot-api" THEN "stop" ELSE "restart"
    BY <1>1, <1>2, <1>3 DEF MoveInPlace, Moved, Goto, TypeOK
  <2>2. live' \in Copy /\ New(r)'
    BY <2>1, FieldFacts, CopyFacts DEF New
  <2>3. ~HasUploads(found[r]) /\ script \in {"bot-api", "ari-bot"}
    BY <1>1, PlacesInside
  <2> QED
    BY <1>1, <1>2, <2>1, <2>2, <2>3 DEF AppCourse, FoundAt, BeforeAt, InstallingAt, InstalledAt,
       ServingAt, RestoringAt, Untouched, Moving, Undoing
<1>4. CASE MoveInPlaceFails(r)
  <2>1. /\ pc'[r] = "failed" /\ live' = live
        /\ script = "bot-api" => r \in stuck'
        /\ script # "bot-api" => script = "ari-bot"
    BY <1>1, <1>4, PlacesInside DEF MoveInPlaceFails, Abort, Goto, TypeOK, HistoryOK, files
  <2> QED
    BY <1>1, <1>2, <2>1 DEF AppCourse, FoundAt, BeforeAt, InstallingAt, InstalledAt,
       ServingAt, RestoringAt, Untouched, Moving, Undoing
<1> QED BY <1>3, <1>4

LEMMA CopiesOnCourse ==
    ASSUME NEW r \in Run, Here(r), brings[r].app, CopyBegins(r) \/ CopyEnds(r)
    PROVE  AppCourse(r)'
<1>1. /\ UNCHANGED <<script, serving, stamp, stuck, found, had, unsure, backup, staged>>
      /\ pc[r] \in {"install", "copying"} /\ script = "mixchat" /\ TypeOK
      /\ Saved(r)' = Saved(r) /\ Saved(r) = found[r] /\ serving # r
  BY PlacesInside
     DEF CopyBegins, CopyEnds, ghosts, Here, Saved, Course, AppCourse, InstallingAt, ServingAt, Untouched, Moving, Undoing
<1>2. FoundAt(r)
  BY DEF Here, Course, AppCourse
<1>3. CASE CopyBegins(r)
  <2>1. PICK storage \in {"none", "package"} :
          live' = Moved(live, [Package(r, storage) EXCEPT !.whole = FALSE])
    BY <1>3 DEF CopyBegins
  <2>2. live = Nothing /\ pc'[r] = "copying"
    BY <1>1, <1>3 DEF CopyBegins, Here, Course, AppCourse, InstallingAt, Goto, TypeOK
  <2>3. live' = [Package(r, storage) EXCEPT !.whole = FALSE]
    BY <2>1, <2>2 DEF Moved
  <2>4. live' \in Copy /\ live'.version = r /\ ~live'.whole
    BY <2>3 DEF Package, Copy, Version
  <2> QED
    BY <1>1, <1>2, <2>2, <2>4, CopyFacts DEF AppCourse, FoundAt, BeforeAt, InstallingAt,
       InstalledAt, ServingAt, RestoringAt, Untouched, Moving, Undoing
<1>4. CASE CopyEnds(r) /\ pc'[r] = "storage"
  <2>1. live \in Copy /\ live.version = r /\ live' = [live EXCEPT !.whole = TRUE]
    <3>1. live \in Copy /\ live.version = r /\ ~live.whole
      BY <1>1, <1>4, PlacesInside DEF CopyEnds, Here, Course, AppCourse, InstallingAt
    <3> QED BY <1>1, <1>4, <3>1, CopyFacts DEF CopyEnds, Half, Goto, TypeOK
  <2>2. live' \in Copy /\ live'.version = r /\ live'.whole
    BY <2>1 DEF Copy
  <2>3. New(r)'
    BY <2>2, CopyFacts DEF New
  <2> QED
    BY <1>1, <1>2, <1>4, <2>3 DEF AppCourse, FoundAt, BeforeAt, InstallingAt,
       InstalledAt, ServingAt, RestoringAt, Untouched, Moving, Undoing
<1>5. CASE CopyEnds(r) /\ pc'[r] = "rollback"
  <2>1. found[r] # Nothing => SameApp(r, Saved(r)) /\ (HasUploads(found[r]) => HasUploads(Saved(r)))
    BY <1>1 DEF SameApp
  <2> QED
    BY <1>1, <1>2, <1>5, <2>1 DEF AppCourse, FoundAt, BeforeAt, InstallingAt,
       InstalledAt, ServingAt, RestoringAt, Untouched, Moving, Undoing, SameApp, HasUploads, Saved
<1> QED BY <1>1, <1>3, <1>4, <1>5 DEF CopyEnds, Goto, TypeOK

\* mixchat's uploads change places.
LEMMA StorageOnCourse ==
    ASSUME NEW r \in Run, Here(r), brings[r].app, DropStorage(r) \/ DropStorageFails(r) \/ TakeStorage(r)
    PROVE  AppCourse(r)'
<1>1. /\ UNCHANGED <<script, serving, stamp, found, had, unsure, staged>>
      /\ pc[r] \in {"storage", "take"} /\ script = "mixchat" /\ TypeOK
      /\ serving # r /\ New(r) /\ live \in Copy /\ stamp[r] \in Stamp
      /\ found[r] \in Copy \cup {Nothing}
  BY PlacesInside
     DEF DropStorage, DropStorageFails, TakeStorage, ghosts, files, Here, Course, AppCourse,
         InstallingAt, InstalledAt, ServingAt, Untouched, Moving, Undoing, New
<1>2. FoundAt(r)
  BY DEF Here, Course, AppCourse
<1>3. CASE DropStorage(r)
  <2>1. Saved(r)' = Saved(r) /\ Saved(r) = found[r]
    BY <1>1, <1>3 DEF DropStorage, Saved, Here, Course, AppCourse, InstallingAt, Moving
  <2>2. CASE HasStorage(found[r])
    <3>1. pc'[r] = "take" /\ live' = [live EXCEPT !.storage = "none"]
      BY <1>1, <1>3, <2>1, <2>2, CopyFacts DEF DropStorage, Goto, TypeOK
    <3>2. /\ live' \in Copy /\ live'.storage = "none"
          /\ live'.version = live.version /\ live'.whole = live.whole
      BY <1>1, <3>1 DEF Copy
    <3>3. New(r)'
      BY <1>1, <3>2, CopyFacts DEF New
    <3> QED
      BY <1>1, <1>2, <2>1, <2>2, <3>1, <3>2, <3>3 DEF AppCourse, FoundAt, BeforeAt, InstallingAt,
         InstalledAt, ServingAt, RestoringAt, Untouched, Moving, Undoing, HasStorage
  <2>3. CASE ~HasStorage(found[r])
    <3>1. pc'[r] \in {"h5install", "restart"} /\ live' = live /\ New(r)'
      BY <1>1, <1>3, <2>1, <2>3 DEF DropStorage, Goto, TypeOK, New, Loop
    <3>2. ~HasUploads(found[r])
      BY <2>3 DEF HasStorage, HasUploads
    <3> QED
      BY <1>1, <1>2, <2>1, <3>1, <3>2 DEF AppCourse, FoundAt, BeforeAt, InstallingAt,
         InstalledAt, ServingAt, RestoringAt, Untouched, Moving, Undoing, SameApp
  <2> QED BY <2>2, <2>3
<1>4. CASE TakeStorage(r)
  <2>1. Saved(r) = found[r] /\ live.storage = "none" /\ HasStorage(found[r]) /\ pc[r] = "take"
    BY <1>1, <1>4 DEF TakeStorage, Here, Course, AppCourse, InstallingAt, Moving
  <2>2. CASE pc'[r] \in {"h5install", "restart"}
    <3>1. /\ live' = [live EXCEPT !.storage = Saved(r).storage]
          /\ backup' = [backup EXCEPT ![stamp[r]] = [backup[stamp[r]] EXCEPT !.storage = "none"]]
      BY <1>1, <1>4, <2>1, <2>2 DEF TakeStorage, Goto, Loop, TypeOK
    <3>2. found[r] \in Copy /\ found[r].storage \in {"none", "package", "uploads"}
      BY <1>1, <2>1 DEF HasStorage, Copy
    <3>3. Saved(r)' = [found[r] EXCEPT !.storage = "none"]
      BY <1>1, <2>1, <3>1 DEF Saved, TypeOK
    <3>4. /\ Saved(r)' \in Copy /\ Saved(r)'.version = found[r].version
          /\ Saved(r)'.whole = found[r].whole /\ Saved(r)'.storage = "none"
      BY <3>2, <3>3 DEF Copy
    <3>5. /\ live' \in Copy /\ live'.storage = found[r].storage
          /\ live'.version = live.version /\ live'.whole = live.whole
      BY <1>1, <2>1, <3>1, <3>2 DEF Copy
    <3>6. New(r)'
      BY <1>1, <3>5, CopyFacts DEF New
    <3>7. /\ SameApp(r, Saved(r))' /\ ~HasStorage(Saved(r))'
          /\ HasUploads(found[r]) => HasUploads(live)'
      BY <1>1, <3>2, <3>4, <3>5, CopyFacts DEF SameApp, HasStorage, HasUploads
    <3> QED
      BY <1>1, <1>2, <2>2, <3>5, <3>6, <3>7 DEF AppCourse, FoundAt, BeforeAt, InstallingAt,
         InstalledAt, ServingAt, RestoringAt, Untouched, Moving, Undoing, HasUploads
  <2>3. CASE pc'[r] = "rollback"
    <3>1. UNCHANGED <<live, backup>> /\ Saved(r)' = found[r]
      BY <1>1, <1>4, <2>1, <2>3 DEF TakeStorage, Goto, Loop, TypeOK, Saved
    <3> QED
      BY <1>1, <1>2, <2>3, <3>1 DEF AppCourse, FoundAt, BeforeAt, InstallingAt,
         InstalledAt, ServingAt, RestoringAt, Untouched, Moving, Undoing, SameApp
  <2> QED BY <1>1, <1>4, <2>2, <2>3 DEF TakeStorage, Goto, TypeOK, Loop
<1>5. CASE DropStorageFails(r)
  <2>1. pc'[r] = "failed" /\ r \in stuck'
    BY <1>1, <1>5 DEF DropStorageFails, Abort, Goto, TypeOK
  <2> QED
    BY <1>1, <1>2, <2>1 DEF AppCourse, FoundAt, BeforeAt, InstallingAt,
       InstalledAt, ServingAt, RestoringAt, Untouched, Moving, Undoing
<1> QED BY <1>3, <1>4, <1>5

\* The service: it serves the new version once it was told to, unless it resists.
LEMMA ServesOnCourse ==
    ASSUME NEW r \in Run, Here(r), brings[r].app,
           Stop(r) \/ Start(r) \/ Verify(r) \/ Restart(r) \/ Migrate(r)
    PROVE  AppCourse(r)'
<1>1. /\ UNCHANGED <<script, live, backup, staged, stamp, found, had>>
      /\ pc[r] \in {"stop", "start", "verify", "restart", "migrate"} /\ TypeOK
      /\ Saved(r)' = Saved(r) /\ New(r)' /\ (HasUploads(found[r]) => HasUploads(live))'
      /\ unsure' = unsure \/ unsure' = unsure \cup {r}
      /\ live.version = r /\ live.whole /\ live # Nothing
  BY DEF Stop, Start, Verify, Restart, Migrate, Abort, ghosts, files, Here, Saved, Course, AppCourse,
     InstalledAt, New
<1>2. FoundAt(r) /\ InstalledAt(r) /\ ServingAt(r)
  BY DEF Here, Course, AppCourse
<1>3. pc[r] \in {"stop", "start", "verify"} \/ (pc[r] = "restart" /\ script = "ari-bot") =>
         Saved(r) = found[r]
  BY DEF Here, Course, AppCourse, InstallingAt, Moving
<1>4. found[r] # Nothing /\ Saved(r) = found[r] => SameApp(r, Saved(r))
  BY DEF SameApp
<1>5. Reloaded = r /\ (serving = Nothing => Started = r) /\ (serving # Nothing => Started = serving)
  BY <1>1 DEF Reloaded, Started
<1>6. /\ script \in {"bot-api", "mixchat", "ari-bot"} /\ r # Nothing
      /\ pc[r] \in {"stop", "start"} => script = "bot-api"
      /\ pc[r] = "verify" => script # "mixchat"
      /\ pc[r] = "restart" => script # "bot-api"
      /\ pc[r] = "migrate" => script = "mixchat"
      /\ script # "mixchat" => ~HasUploads(found[r])
  BY PlacesInside
<1>7. CASE Stop(r)
  <2>1. pc[r] = "stop" /\ pc'[r] = "start" /\ (r \notin unsure' => serving' = Nothing)
    BY <1>1, <1>7 DEF Stop, Goto, TypeOK
  <2> QED
    BY <1>1, <1>2, <1>3, <1>6, <2>1 DEF AppCourse, FoundAt, BeforeAt, InstallingAt, InstalledAt,
       ServingAt, RestoringAt, Untouched, Moving, Undoing
<1>8. CASE Start(r)
  <2>1. /\ pc[r] = "start" /\ pc'[r] \in {"verify", "rollback"} /\ unsure' = unsure
        /\ pc'[r] = "verify" => serving' \in {Started, Nothing}
    BY <1>1, <1>8 DEF Start, Goto, TypeOK, ghosts
  <2> QED
    BY <1>1, <1>2, <1>3, <1>4, <1>5, <1>6, <2>1 DEF AppCourse, FoundAt, BeforeAt, InstallingAt,
       InstalledAt, ServingAt, RestoringAt, Untouched, Moving, Undoing, SameApp
<1>9. CASE Verify(r)
  <2>1. /\ pc[r] = "verify" /\ pc'[r] \in {"done", "rollback"} /\ unsure' = unsure
        /\ serving' = serving
    BY ONLY <1>1, <1>9, r \in Run DEF Verify, Goto, TypeOK, ghosts
  <2> QED
    BY <1>1, <1>2, <1>3, <1>4, <1>6, <2>1 DEF AppCourse, FoundAt, BeforeAt, InstallingAt,
       InstalledAt, ServingAt, RestoringAt, Untouched, Moving, Undoing, SameApp
<1>10. CASE Restart(r)
  <2>1. \/ /\ pc'[r] = IF script = "ari-bot" THEN "verify" ELSE "migrate"
           /\ serving' = r
        \/ /\ pc'[r] = IF script = "ari-bot" THEN "rollback" ELSE "done"
           /\ r \in unsure'
    BY <1>1, <1>5, <1>10 DEF Restart, Goto, TypeOK
  <2>2. pc[r] = "restart"
    BY <1>10 DEF Restart
  <2>3. script = "mixchat" /\ found[r] # Nothing =>
          /\ SameApp(r, Saved(r))'
          /\ HasUploads(found[r]) => (HasUploads(Saved(r)) \/ (HasUploads(live) /\ ~HasStorage(Saved(r))))'
    <3>1. RestoringAt(r) BY DEF Here, Course, AppCourse
    <3> QED BY <1>1, <2>2, <3>1 DEF RestoringAt, SameApp, HasUploads, HasStorage
  <2>4. CASE script = "ari-bot"
    BY <1>1, <1>2, <1>3, <1>4, <1>6, <2>1, <2>2, <2>4 DEF AppCourse, FoundAt, BeforeAt,
       InstallingAt, InstalledAt, ServingAt, RestoringAt, Untouched, Moving, Undoing, SameApp
  <2>5. CASE script = "mixchat"
    BY <1>1, <1>2, <1>6, <2>1, <2>2, <2>3, <2>5 DEF AppCourse, FoundAt, BeforeAt,
       InstallingAt, InstalledAt, ServingAt, RestoringAt, Untouched, Moving, Undoing, HasUploads
  <2> QED BY <1>6, <2>2, <2>4, <2>5
<1>11. CASE Migrate(r)
  <2>1. /\ pc[r] = "migrate" /\ serving' = serving /\ unsure' = unsure
        /\ pc'[r] = "done" \/ (pc'[r] = "failed" /\ r \in stuck')
    BY <1>1, <1>11 DEF Migrate, Abort, Goto, TypeOK, ghosts
  <2> QED
    BY <1>1, <1>2, <1>6, <2>1 DEF AppCourse, FoundAt, BeforeAt, InstallingAt,
       InstalledAt, ServingAt, RestoringAt, Untouched, Moving, Undoing, SameApp
<1> QED BY <1>7, <1>8, <1>9, <1>10, <1>11

\* The roll-back, up to the removal: the uploads are in the backup by then.
LEMMA RollsBackOnCourse ==
    ASSUME NEW r \in Run, Here(r), brings[r].app,
           Rollback(r) \/ Rescue(r) \/ Remove(r) \/ RemoveFails(r)
    PROVE  AppCourse(r)'
<1>1. /\ UNCHANGED <<script, staged, serving, stamp, found, had, unsure>>
      /\ pc[r] \in {"rollback", "rescue", "remove"} /\ TypeOK /\ stamp[r] \in Stamp
      /\ script = "mixchat" => serving # r
      /\ FoundAt(r)
  BY DEF Rollback, Rescue, Remove, RemoveFails, Abort, ghosts, files, Here, Course, AppCourse,
     ServingAt
<1>2. RestoringAt(r)
  BY DEF Here, Course, AppCourse
<1>3. /\ script \in {"bot-api", "mixchat", "ari-bot"} /\ r # Nothing
      /\ script # "mixchat" => ~HasUploads(found[r])
      /\ pc[r] = "rescue" => script = "mixchat"
      /\ live \in Copy \cup {Nothing} /\ found[r] \in Copy \cup {Nothing}
      /\ Saved(r) \in Copy \cup {Nothing}
  BY PlacesInside DEF Here
<1>4. CASE Rollback(r)
  <2>1. /\ pc[r] = "rollback" /\ UNCHANGED <<live, backup>> /\ Saved(r)' = Saved(r)
        /\ pc'[r] = IF /\ script = "mixchat" /\ HasStorage(live)
                       /\ Saved(r) # Nothing /\ ~HasStorage(Saved(r))
                    THEN "rescue" ELSE "remove"
    BY <1>1, <1>4 DEF Rollback, files, Goto, TypeOK, Saved, Taken
  <2>2. HasUploads(live) => HasStorage(live)
    BY DEF HasUploads, HasStorage
  <2>3. HasUploads(Saved(r)) => HasStorage(Saved(r))
    BY DEF HasUploads, HasStorage
  <2>4. found[r] # Nothing =>
          /\ SameApp(r, Saved(r)) /\ Saved(r) # Nothing
          /\ pc'[r] = "remove" => (HasUploads(found[r]) => HasUploads(Saved(r)))
          /\ pc'[r] = "rescue" => (HasUploads(found[r]) => HasUploads(live))
    BY <1>2, <1>3, <2>1, <2>2, <2>3 DEF RestoringAt, SameApp
  <2> QED
    BY <1>1, <2>1, <2>4 DEF AppCourse, FoundAt, BeforeAt, InstallingAt,
       InstalledAt, ServingAt, RestoringAt, Untouched, Moving, Undoing, SameApp, LikeFound, HasUploads
<1>5. CASE Rescue(r) /\ pc'[r] = "remove"
  <2>1. /\ HasStorage(live) /\ pc[r] = "rescue"
        /\ backup' = [backup EXCEPT ![stamp[r]].storage = live.storage]
    BY <1>1, <1>5 DEF Rescue, Abort, Goto, TypeOK
  <2>2. live \in Copy /\ Saved(r) \in Copy /\ live.storage \in {"none", "package", "uploads"}
    BY <1>3, <2>1 DEF HasStorage, Here, BackupFound, Copy
  <2>3. Saved(r)' = [Saved(r) EXCEPT !.storage = live.storage]
    BY <1>1, <2>1 DEF Saved, TypeOK
  <2>4. /\ Saved(r)' \in Copy /\ Saved(r)'.version = Saved(r).version
        /\ Saved(r)'.whole = Saved(r).whole /\ Saved(r)'.storage = live.storage
    BY <2>2, <2>3 DEF Copy
  <2>5. found[r] # Nothing => LikeFound(r, Saved(r))'
    BY <1>1, <1>2, <2>1, <2>4, CopyFacts DEF RestoringAt, LikeFound, SameApp, HasUploads
  <2> QED
    BY <1>1, <1>5, <2>5 DEF AppCourse, FoundAt, BeforeAt, InstallingAt,
       InstalledAt, ServingAt, RestoringAt, Untouched, Moving, Undoing
<1>6. CASE Rescue(r) /\ pc'[r] = "failed"
  <2>1. r \in stuck'
    BY <1>1, <1>6 DEF Rescue, Abort, Goto, TypeOK
  <2> QED
    BY <1>1, <1>6, <2>1 DEF AppCourse, FoundAt, BeforeAt, InstallingAt,
       InstalledAt, ServingAt, RestoringAt, Untouched, Moving, Undoing
<1>7. CASE Remove(r)
  <2>1. /\ pc[r] = "remove" /\ backup' = backup /\ Saved(r)' = Saved(r)
        /\ live' = IF Restores(r) THEN Nothing ELSE live
        /\ IF Saved(r) = Nothing \/ ~Restores(r)
           THEN pc'[r] \in {"revive", "h5remove", "rolledback"}
           ELSE pc'[r] = "restore"
        /\ pc'[r] \in {"h5remove", "rolledback"} => script = "mixchat"
    BY <1>1, <1>7 DEF Remove, files, Goto, TypeOK, Saved, AfterRemove, AfterApp, Loop
  <2>2. found[r] # Nothing =>
          LikeFound(r, Saved(r)) /\ Saved(r) # Nothing /\ Restores(r)
    BY <1>1, <1>2, <2>1 DEF RestoringAt, LikeFound, SameApp, FoundAt, Restores
  <2>3. found[r] # Nothing => LikeFound(r, Saved(r))'
    BY <1>1, <2>1, <2>2 DEF LikeFound, SameApp, HasUploads
  <2> QED
    BY <1>1, <2>1, <2>2, <2>3 DEF AppCourse, FoundAt, BeforeAt, InstallingAt,
       InstalledAt, ServingAt, RestoringAt, Untouched, Moving, Undoing
<1>8. CASE RemoveFails(r)
  <2>1. pc'[r] = "failed" /\ r \in stuck'
    BY <1>1, <1>8 DEF RemoveFails, Abort, Goto, TypeOK
  <2> QED
    BY <1>1, <2>1 DEF AppCourse, FoundAt, BeforeAt, InstallingAt,
       InstalledAt, ServingAt, RestoringAt, Untouched, Moving, Undoing
<1> QED BY <1>1, <1>4, <1>5, <1>6, <1>7, <1>8 DEF Rescue, Abort, Goto, TypeOK

\* and from there on: the copy is what was found.
LEMMA RestoresOnCourse ==
    ASSUME NEW r \in Run, Here(r), brings[r].app,
           RestoreBegins(r) \/ RestoreEnds(r) \/ Revive(r) \/ ReviveFails(r)
    PROVE  AppCourse(r)'
<1>1. /\ UNCHANGED <<script, stamp, found, had, backup>> /\ Saved(r)' = Saved(r)
      /\ pc[r] \in {"restore", "restoring", "revive"} /\ TypeOK
      /\ script = "mixchat" => serving # r
      /\ FoundAt(r)
  BY PlacesInside
     DEF RestoreBegins, RestoreEnds, Revive, ReviveFails, Abort, ghosts, files, Here, Course,
         AppCourse, ServingAt, Saved
<1>2. RestoringAt(r)
  BY DEF Here, Course, AppCourse
<1>3. script \in {"bot-api", "mixchat", "ari-bot"} /\ r # Nothing
  BY PlacesInside
<1>4. CASE RestoreBegins(r)
  <2>1. /\ pc[r] = "restore" /\ pc'[r] = "restoring" /\ serving' = serving
        /\ live' = Moved(live, [Saved(r) EXCEPT !.whole = FALSE])
    BY <1>1, <1>4 DEF RestoreBegins, Goto, TypeOK
  <2>2. found[r] # Nothing =>
          /\ LikeFound(r, Saved(r))'
          /\ live' = [Saved(r) EXCEPT !.whole = FALSE]
    BY <1>1, <1>2, <2>1 DEF RestoringAt, Moved, LikeFound, SameApp, HasUploads
  <2> QED
    BY <1>1, <2>1, <2>2 DEF AppCourse, FoundAt, BeforeAt, InstallingAt,
       InstalledAt, ServingAt, RestoringAt, Untouched, Moving, Undoing
<1>5. CASE RestoreEnds(r) /\ pc'[r] # "failed"
  <2>1. /\ pc[r] = "restoring" /\ serving' = serving
        /\ pc'[r] \in {"revive", "h5remove", "rolledback"}
        /\ pc'[r] \in {"h5remove", "rolledback"} => script = "mixchat"
        /\ live' = IF Half(Saved(r).version) THEN Saved(r) ELSE live
    BY <1>1, <1>5 DEF RestoreEnds, Abort, Goto, TypeOK, AfterApp, Loop
  <2>2. Saved(r) \in Copy
    BY <1>1, <2>1 DEF Here, BackupFound
  <2>3. /\ [Saved(r) EXCEPT !.whole = FALSE] \in Copy
        /\ [Saved(r) EXCEPT !.whole = FALSE].version = Saved(r).version
        /\ ~[Saved(r) EXCEPT !.whole = FALSE].whole
    BY <2>2 DEF Copy
  <2>4. found[r] # Nothing => live = [Saved(r) EXCEPT !.whole = FALSE] /\ LikeFound(r, Saved(r))
    BY <1>2, <2>1 DEF RestoringAt
  <2>5. found[r] # Nothing => live' = Saved(r)
    BY <2>1, <2>3, <2>4, CopyFacts DEF Half
  <2>6. found[r] # Nothing => LikeFound(r, live)'
    BY <1>1, <2>4, <2>5 DEF LikeFound, SameApp, HasUploads
  <2> QED
    BY <1>1, <1>5, <2>1, <2>6 DEF AppCourse, FoundAt, BeforeAt, InstallingAt,
       InstalledAt, ServingAt, RestoringAt, Untouched, Moving, Undoing
<1>6. CASE RestoreEnds(r) /\ pc'[r] = "failed"
  <2>1. r \in stuck'
    BY <1>1, <1>6 DEF RestoreEnds, Abort, Goto, TypeOK, AfterApp, Loop
  <2> QED
    BY <1>1, <1>6, <2>1 DEF AppCourse, FoundAt, BeforeAt, InstallingAt,
       InstalledAt, ServingAt, RestoringAt, Untouched, Moving, Undoing
<1>7. CASE Revive(r)
  <2>1. /\ pc[r] = "revive" /\ pc'[r] = "rolledback" /\ live' = live
    BY <1>1, <1>7 DEF Revive, Goto, TypeOK
  <2>2. found[r] # Nothing => LikeFound(r, live)
    BY <1>2, <2>1 DEF RestoringAt
  <2>3. found[r] # Nothing => LikeFound(r, live)'
    BY <1>1, <2>1, <2>2 DEF LikeFound, SameApp, HasUploads
  <2>4. found[r] # Nothing => Reloaded # r /\ Restores(r)
    BY <1>1, <1>3, <2>1, <2>2 DEF Reloaded, LikeFound, SameApp, FoundAt, Restores
  <2>5. found[r] # Nothing /\ r \notin unsure' => serving' # r
    BY <1>1, <1>3, <1>7, <2>4 DEF Revive
  <2> QED
    BY <1>1, <2>1, <2>3, <2>5 DEF AppCourse, FoundAt, BeforeAt, InstallingAt,
       InstalledAt, ServingAt, RestoringAt, Untouched, Moving, Undoing
<1>8. CASE ReviveFails(r)
  <2>1. pc'[r] = "failed" /\ r \in stuck'
    BY <1>1, <1>8 DEF ReviveFails, Abort, Goto, TypeOK
  <2> QED
    BY <1>1, <2>1 DEF AppCourse, FoundAt, BeforeAt, InstallingAt,
       InstalledAt, ServingAt, RestoringAt, Untouched, Moving, Undoing
<1> QED BY <1>1, <1>4, <1>5, <1>6, <1>7, <1>8

\* A run that brings no application does not touch the one that is there.
LEMMA SparesOnCourse ==
    ASSUME NEW r \in Run, Here(r), ~brings[r].app, Step(r), ~H5Step(r), ~Refuse(r), ~Begin(r)
    PROVE  SpareCourse(r)'
<1>1. Restart(r) \/ Migrate(r) \/ Rollback(r) \/ Crash(r)
  <2>1. pc[r] \notin AppPlaces BY DEF Here, OwnPlaces, PlacesAt
  <2> QED
    BY <2>1 DEF AppPlaces, Step, Stage, MoveAway, CopyAway, MoveAwayFails,
       MoveInPlace, MoveInPlaceFails, CopyBegins, CopyEnds, DropStorage, DropStorageFails,
       TakeStorage, Stop, Start, Verify, Rescue, Remove, RemoveFails, RestoreBegins,
       RestoreEnds, Revive, ReviveFails
<1>2. script = "mixchat" /\ r # Nothing
  BY PlacesInside, LoadFacts
<1>3. SpareCourse(r) /\ TypeOK
  BY DEF Here, Course
<1>4. UNCHANGED <<script, live, found>> /\ Reloaded' = Reloaded
  BY <1>1, ActsActive, <1>3 DEF Restart, Migrate, Rollback, Crash, files, Reloaded
<1>5. Reloaded # r
  BY <1>2, <1>3 DEF SpareCourse, Reloaded
<1>6. CASE Restart(r)
  <2>1. \/ serving' = Reloaded
        \/ r \in unsure' /\ serving' \in {serving, Reloaded, Nothing}
    BY <1>6 DEF Restart
  <2> QED BY <1>2, <1>3, <1>4, <1>5, <2>1 DEF SpareCourse
<1>7. CASE Migrate(r)
  <2>1. UNCHANGED <<serving, unsure>> /\ pc[r] = "migrate" BY <1>7 DEF Migrate, ghosts
  <2> QED BY <1>3, <1>4, <2>1 DEF SpareCourse
<1>8. CASE Rollback(r) \/ Crash(r)
  <2>1. UNCHANGED <<serving, unsure>> /\ pc'[r] \notin {"migrate", "done"}
    BY <1>3, <1>8 DEF Rollback, Crash, ghosts, Goto, TypeOK
  <2> QED BY <1>3, <1>4, <2>1 DEF SpareCourse
<1> QED BY <1>1, <1>6, <1>7, <1>8

\* The steps of the h5 part leave the application where it is.
LEMMA DirsSpareApp ==
    ASSUME NEW r \in Run, Here(r), H5Step(r)
    PROVE  /\ brings[r].app => AppCourse(r)'
           /\ ~brings[r].app => SpareCourse(r)'
<1>1. /\ UNCHANGED <<script, live, backup, staged, serving, stamp, found, had, unsure>>
      /\ pc[r] \in DirPlaces
      /\ \/ pc'[r] = "failed"
         \/ pc[r] \in {"h5mkdir", "h5away"} /\
               \/ pc'[r] = "h5away"
               \/ pc'[r] = IF brings[r].app THEN "install" ELSE "h5install"
         \/ /\ pc[r] \in {"h5install", "h5copying"}
            /\ pc'[r] \in {"h5install", "h5copying", "restart", "rollback"}
         \/ /\ pc[r] \in {"h5remove", "h5restore", "h5restoring"}
            /\ pc'[r] \in {"h5remove", "h5restore", "h5restoring", "rolledback"}
      /\ Saved(r)' = Saved(r)
  BY DirFrame DEF Here, Saved
<1>2. script = "mixchat"
  BY <1>1, DirInHand DEF Here
<1>3. ASSUME ~brings[r].app PROVE SpareCourse(r)'
  BY <1>1, <1>3 DEF Here, Course, SpareCourse, Reloaded
<1>4. ASSUME brings[r].app PROVE AppCourse(r)'
  <2>1. FoundAt(r) /\ InstallingAt(r) /\ InstalledAt(r) /\ ServingAt(r) /\ RestoringAt(r)
    BY <1>4 DEF Here, Course, AppCourse
  <2>2. pc'[r] = "failed" => r \in stuck'
    BY <1>4 DEF H5Step, MakeBackup, MoveDirAway, BackupFails, CopyDirBegins, CopyDirEnds,
       CopyDirFails, RemoveDir, RemoveDirFails, NextDir, Abort, Goto, Here, TypeOK, HistoryOK
  <2>3. FoundAt(r)'
    BY <1>1, <1>2, <2>1 DEF FoundAt
  <2>4. BeforeAt(r)'
    BY <1>1, <1>2, <1>4, <2>2 DEF BeforeAt, Untouched, DirPlaces
  <2>5. InstallingAt(r)'
    BY <1>1, <1>2, <1>4, <2>1 DEF InstallingAt, Moving
  <2>6. InstalledAt(r)'
    BY <1>1, <1>2, <1>4, <2>1 DEF InstalledAt, New, HasUploads
  <2>7. ServingAt(r)'
    BY <1>1, <1>2, <1>4, <2>1, <2>2 DEF ServingAt, Untouched, Moving, Undoing
  <2>8. RestoringAt(r)'
    BY <1>1, <1>2, <1>4, <2>1 DEF RestoringAt, Undoing, SameApp, LikeFound, HasUploads, HasStorage
  <2> QED BY <2>3, <2>4, <2>5, <2>6, <2>7, <2>8 DEF AppCourse
<1> QED BY <1>3, <1>4

\* How a run that has h5 directories goes on from the places of the application.
LEMMA AppMoves ==
    ASSUME NEW r \in Run, Here(r), Step(r), ~H5Step(r), ~Refuse(r), ~Begin(r),
           script = "mixchat", brings[r].dirs # {}
    PROVE  \/ pc'[r] = "killed"
           \/ pc'[r] = "failed" /\ (pc[r] = "backup" \/ r \in stuck')
           \/ pc[r] = "backup" /\ pc'[r] = "h5mkdir"
           \/ /\ pc[r] \in {"install", "copying", "storage", "take"}
              /\ pc'[r] \in {"copying", "storage", "take", "h5install", "rollback"}
           \/ pc[r] \in {"restart", "migrate"} /\ pc'[r] \in {"migrate", "done"}
           \/ /\ pc[r] \in {"rollback", "rescue", "remove", "restore", "restoring"}
              /\ pc'[r] \in {"rescue", "remove", "restore", "restoring", "h5remove"}
<1>1. TypeOK /\ pc[r] \notin {"stage", "stop", "start", "verify", "revive"} /\ r \in Run
  BY DEF Here, OwnPlaces, PlacesAt
<1>2. CASE MoveAway(r) \/ CopyAway(r) \/ MoveAwayFails(r)
  BY <1>1, <1>2 DEF MoveAway, CopyAway, MoveAwayFails, Goto, Loop, TypeOK
<1>3. CASE CopyBegins(r) \/ CopyEnds(r)
  BY <1>1, <1>3 DEF CopyBegins, CopyEnds, Goto, TypeOK
<1>4. CASE DropStorage(r) \/ TakeStorage(r)
  BY <1>1, <1>4 DEF DropStorage, TakeStorage, Goto, Loop, TypeOK
<1>5. CASE DropStorageFails(r) \/ RemoveFails(r)
  BY <1>1, <1>5 DEF DropStorageFails, RemoveFails, Goto, Abort, TypeOK
<1>6. CASE Restart(r)
  BY ONLY <1>1, <1>6, script = "mixchat" DEF Restart, Goto, TypeOK
<1>7. CASE Migrate(r)
  BY ONLY <1>1, <1>7 DEF Migrate, Goto, Abort, TypeOK
<1>8. CASE Rollback(r) \/ Rescue(r)
  BY <1>1, <1>8 DEF Rollback, Rescue, Goto, Abort, TypeOK
<1>9. CASE Remove(r)
  BY <1>1, <1>9 DEF Remove, Restores, AfterRemove, AfterApp, Loop, Goto, TypeOK
<1>10. CASE RestoreBegins(r) \/ RestoreEnds(r)
  BY <1>1, <1>10 DEF RestoreBegins, RestoreEnds, AfterApp, Loop, Goto, Abort, TypeOK
<1>11. CASE Crash(r)
  BY <1>1, <1>11 DEF Crash, Goto, TypeOK
<1> QED
  BY <1>1, <1>2, <1>3, <1>4, <1>5, <1>6, <1>7, <1>8, <1>9, <1>10, <1>11
  DEF Step, Stage, MoveInPlace, MoveInPlaceFails, Stop, Start, Verify, Revive, ReviveFails

\* They leave the directories where they are.
LEMMA AppSparesDirs ==
    ASSUME NEW r \in Run, Here(r), Step(r), ~H5Step(r), ~Refuse(r), ~Begin(r)
    PROVE  DirsCourse(r)'
<1>1. UNCHANGED <<h5, h5backup, brings, todo, foundH5, stamp>>
  BY AppFrame, ActsActive DEF Here
<1>2. DirsCourse(r)
  BY DEF Here, Course
<1>3. CASE brings[r].dirs = {}
  BY <1>1, <1>2, <1>3 DEF DirsCourse
<1>4. CASE brings[r].dirs # {}
  <2>1. script = "mixchat"
    BY <1>4, PlacesInside, LoadFacts
  <2>2. SUFFICES ASSUME NEW d \in Dir, d \in brings[r].dirs PROVE DirCourse(r, d)'
    BY <1>1, <1>2 DEF DirsCourse
  <2>3. DirCourse(r, d)
    BY <1>2, <2>2 DEF DirsCourse
  <2>4. pc[r] \notin InLoop \cup Over => d \in todo[r]
    BY <2>2 DEF Here, Loops, LoopAt
  <2>5. pc[r] \in {"install", "copying", "storage", "take"} => d \in todo'[r]
    BY <1>1, <2>4 DEF InLoop, DirPlaces, Over
  <2>6. pc[r] \in {"rollback", "rescue", "remove", "restore", "restoring"} => d \in todo'[r]
    BY <1>1, <2>4 DEF InLoop, DirPlaces, Over
  <2> QED
    BY <1>1, <1>4, <2>1, <2>3, <2>5, <2>6, AppMoves DEF DirCourse, Undoing
<1> QED BY <1>3, <1>4

\* What a run in the h5 part finds before a step of its own.
LEMMA DirHere ==
    ASSUME NEW r \in Run, Here(r), H5Step(r)
    PROVE  /\ UNCHANGED <<brings, foundH5, stamp>> /\ pc \in [Run -> Place]
           /\ todo \in [Run -> SUBSET Dir] /\ h5 \in [Dir -> Copy \cup {Nothing}]
           /\ h5backup \in [Stamp -> [Dir -> Copy \cup {Nothing}]]
           /\ stamp[r] \in Stamp /\ todo[r] \subseteq brings[r].dirs
           /\ brings[r].dirs \subseteq Dir
           /\ pc[r] \in InLoop => Current(r) \in todo[r] /\ Current(r) \in Dir
           /\ pc[r] = "h5mkdir" => todo[r] = brings[r].dirs
           /\ pc[r] \in {"h5restore", "h5restoring"} => H5Saved(r) # Nothing
           /\ \A d \in brings[r].dirs : DirCourse(r, d)
           /\ \A d \in Dir \ brings[r].dirs : h5[d] = foundH5[r][d]
<1>1. pc[r] \in DirPlaces /\ UNCHANGED <<brings, foundH5, stamp>>
  BY DirFrame DEF Here
<1>2. LoopAt(r) BY DEF Here, Loops
<1>3. /\ pc[r] = "h5mkdir" => todo[r] = brings[r].dirs
      /\ pc[r] \in {"h5restore", "h5restoring"} => H5Saved(r) # Nothing
  BY <1>2 DEF LoopAt, InLoop, DirPlaces, Over
<1>4. DirsCourse(r) BY DEF Here, Course
<1>5. /\ stamp[r] \in Stamp /\ todo[r] \subseteq brings[r].dirs /\ brings[r].dirs \subseteq Dir
      /\ pc[r] \in InLoop => Current(r) \in todo[r] /\ Current(r) \in Dir
  BY <1>1, DirInHand DEF Here
<1>6. /\ pc \in [Run -> Place] /\ todo \in [Run -> SUBSET Dir]
      /\ h5 \in [Dir -> Copy \cup {Nothing}]
      /\ h5backup \in [Stamp -> [Dir -> Copy \cup {Nothing}]]
  BY DEF Here, TypeOK, DirTypeOK
<1>7. \A d \in brings[r].dirs : DirCourse(r, d) BY <1>4, <1>5 DEF DirsCourse
<1>8. \A d \in Dir \ brings[r].dirs : h5[d] = foundH5[r][d] BY <1>4 DEF DirsCourse
<1> QED BY <1>1, <1>3, <1>5, <1>6, <1>7, <1>8

\* The loops take each directory the run brings along its course.
LEMMA DirsOnCourse ==
    ASSUME NEW r \in Run, Here(r), H5Step(r)
    PROVE  DirsCourse(r)'
<1> DEFINE c == Current(r)
           s == stamp[r]
<1>1. /\ UNCHANGED <<brings, foundH5, stamp>> /\ pc \in [Run -> Place]
      /\ todo \in [Run -> SUBSET Dir] /\ h5 \in [Dir -> Copy \cup {Nothing}]
      /\ h5backup \in [Stamp -> [Dir -> Copy \cup {Nothing}]]
      /\ s \in Stamp /\ todo[r] \subseteq brings[r].dirs
      /\ brings[r].dirs \subseteq Dir
      /\ pc[r] \in InLoop => c \in todo[r] /\ c \in Dir
      /\ pc[r] = "h5mkdir" => todo[r] = brings[r].dirs
      /\ pc[r] \in {"h5restore", "h5restoring"} => H5Saved(r) # Nothing
  BY DirHere
<1>2. \A d \in Dir \ brings[r].dirs : h5'[d] = foundH5'[r][d]
  <2>1. \A d \in Dir \ brings[r].dirs : h5'[d] = h5[d]
    BY <1>1, DirEffect DEF Here
  <2> QED BY <1>1, <2>1, DirHere
<1>3. SUFFICES ASSUME NEW d \in brings[r].dirs PROVE DirCourse(r, d)'
  BY <1>1, <1>2 DEF DirsCourse
<1>4. DirCourse(r, d) /\ d \in Dir
  BY <1>1, DirHere
<1>5. InLoop = {"h5away", "h5install", "h5copying", "h5remove", "h5restore", "h5restoring"}
  BY DEF InLoop, DirPlaces
<1>6. CASE pc'[r] = "failed" /\ r \in stuck'
  BY <1>6 DEF DirCourse, Undoing
<1>7. CASE MakeBackup(r)
  <2>1. /\ pc[r] = "h5mkdir" /\ pc'[r] = "h5away" /\ UNCHANGED <<h5, h5backup, todo>>
    BY <1>1, <1>7 DEF MakeBackup, Goto, h5part
  <2>2. d \in todo'[r] BY <1>1, <2>1
  <2> QED BY <1>1, <1>4, <2>1, <2>2 DEF DirCourse, Undoing
<1>8. CASE MoveDirAway(r)
  <2>1. /\ pc[r] = "h5away" /\ c \in todo[r] /\ c \in Dir
        /\ h5' = [h5 EXCEPT ![c] = Nothing]
        /\ h5backup' = [h5backup EXCEPT ![s][c] = Moved(@, h5[c])]
    BY <1>1, <1>5, <1>8 DEF MoveDirAway
  <2>2. /\ d = c => h5'[d] = Nothing /\ h5backup'[s][d] = Moved(h5backup[s][d], h5[d])
        /\ d # c => h5'[d] = h5[d] /\ h5backup'[s][d] = h5backup[s][d]
    BY <1>1, <1>4, <2>1
  <2>3. \/ /\ pc'[r] \in {"install", "h5install"} /\ todo'[r] = brings[r].dirs
           /\ d \notin todo[r] \/ d = c
        \/ pc'[r] = "h5away" /\ todo'[r] = todo[r] \ {c}
    BY <1>1, <1>8, <2>1 DEF MoveDirAway, NextDir, Goto
  <2>4. d = c => h5[d] = foundH5[r][d] /\ h5backup[s][d] = Nothing
    BY <1>4, <2>1 DEF DirCourse
  <2>5. d = c => h5'[d] = Nothing /\ h5backup'[s][d] = foundH5[r][d]
    BY <2>2, <2>4 DEF Moved
  <2> QED BY <1>1, <1>4, <2>1, <2>2, <2>3, <2>5 DEF DirCourse, Undoing
<1>9. CASE BackupFails(r)
  <2>1. /\ pc[r] \in {"h5mkdir", "h5away"} /\ pc'[r] = "failed" /\ UNCHANGED h5
        /\ todo[r] = brings[r].dirs \/ r \in stuck'
    BY <1>1, <1>9 DEF BackupFails, Abort, Goto, h5part, Here, HistoryOK
  <2> QED BY <1>1, <1>4, <1>6, <2>1 DEF DirCourse, Undoing
<1>10. CASE CopyDirBegins(r) /\ pc[r] = "h5install"
  <2>1. /\ c \in todo[r] /\ c \in Dir /\ pc'[r] = "h5copying" /\ UNCHANGED <<todo, h5backup>>
        /\ h5' = [h5 EXCEPT ![c] = Moved(@, [Package(r, "none") EXCEPT !.whole = FALSE])]
    BY <1>1, <1>5, <1>10 DEF CopyDirBegins, Goto, Source
  <2>2. Current(r)' = c /\ todo'[r] = todo[r] BY <2>1 DEF Current
  <2>3. d = c => h5[d] = Nothing BY <1>4, <1>10, <2>1 DEF DirCourse
  <2>4. /\ d = c => h5'[d] = [Package(r, "none") EXCEPT !.whole = FALSE]
        /\ d # c => h5'[d] = h5[d]
    BY <1>1, <1>4, <2>1, <2>3 DEF Moved
  <2>5. Package(r, "none")' = Package(r, "none") BY DEF Package
  <2> QED BY <1>1, <1>4, <1>10, <2>1, <2>2, <2>4, <2>5 DEF DirCourse, Undoing
<1>11. CASE CopyDirBegins(r) /\ pc[r] = "h5restore"
  <2>1. /\ c \in todo[r] /\ c \in Dir /\ pc'[r] = "h5restoring" /\ UNCHANGED <<todo, h5backup>>
        /\ h5' = [h5 EXCEPT ![c] = Moved(@, [h5backup[s][c] EXCEPT !.whole = FALSE])]
    BY <1>1, <1>5, <1>11 DEF CopyDirBegins, Goto, Source, H5Saved
  <2>2. Current(r)' = c /\ todo'[r] = todo[r] BY <2>1 DEF Current
  <2>3. d = c => h5[d] = Nothing BY <1>4, <1>11 DEF DirCourse
  <2>4. /\ d = c => h5'[d] = [h5backup[s][d] EXCEPT !.whole = FALSE]
        /\ d # c => h5'[d] = h5[d]
    BY <1>1, <1>4, <2>1, <2>3 DEF Moved
  <2> QED BY <1>1, <1>4, <1>11, <2>1, <2>2, <2>4 DEF DirCourse, Undoing
<1>12. CASE CopyDirEnds(r) /\ pc[r] = "h5copying"
  <2>1. /\ c \in todo[r] /\ c \in Dir /\ UNCHANGED h5backup
        /\ h5' = [h5 EXCEPT ![c] = IF h5[c] = [Package(r, "none") EXCEPT !.whole = FALSE]
                                   THEN Package(r, "none") ELSE @]
    BY <1>1, <1>5, <1>12 DEF CopyDirEnds, Source, HalfDir
  <2>2. d = c => h5[d] = [Package(r, "none") EXCEPT !.whole = FALSE]
    BY <1>4, <1>12 DEF DirCourse
  <2>3. /\ d = c => h5'[d] = Package(r, "none")
        /\ d # c => h5'[d] = h5[d]
    BY <1>1, <1>4, <2>1, <2>2
  <2>4. \/ /\ pc'[r] = "restart" /\ todo'[r] = brings[r].dirs
           /\ d \notin todo[r] \/ d = c
        \/ pc'[r] = "h5install" /\ todo'[r] = todo[r] \ {c}
    BY <1>1, <1>12 DEF CopyDirEnds, NextDir, Goto
  <2>5. Package(r, "none")' = Package(r, "none") BY DEF Package
  <2> QED BY <1>1, <1>4, <1>12, <2>1, <2>3, <2>4, <2>5 DEF DirCourse, Undoing
<1>13. CASE CopyDirEnds(r) /\ pc[r] = "h5restoring"
  <2>1. /\ c \in todo[r] /\ c \in Dir /\ UNCHANGED h5backup
        /\ h5' = [h5 EXCEPT ![c] = IF h5[c] = [h5backup[s][c] EXCEPT !.whole = FALSE]
                                   THEN h5backup[s][c] ELSE @]
    BY <1>1, <1>5, <1>13 DEF CopyDirEnds, Source, HalfDir, H5Saved
  <2>2. d = c => h5[d] = [h5backup[s][d] EXCEPT !.whole = FALSE]
    BY <1>4, <1>13 DEF DirCourse
  <2>3. /\ d = c => h5'[d] = h5backup[s][d]
        /\ d # c => h5'[d] = h5[d]
    BY <1>1, <1>4, <2>1, <2>2
  <2>4. \/ /\ pc'[r] = "rolledback" /\ todo'[r] = brings[r].dirs
           /\ d \notin todo[r] \/ d = c
        \/ pc'[r] = "h5remove" /\ todo'[r] = todo[r] \ {c}
    BY <1>1, <1>13 DEF CopyDirEnds, NextDir, Goto
  <2> QED BY <1>1, <1>4, <1>13, <2>1, <2>3, <2>4 DEF DirCourse, Undoing
<1>14. CASE CopyDirFails(r)
  <2>1. \/ /\ pc[r] = "h5copying" /\ pc'[r] = "rollback" /\ UNCHANGED <<h5, h5backup>>
        \/ pc'[r] = "failed" /\ r \in stuck'
    BY <1>1, <1>14 DEF CopyDirFails, Abort, Goto, Here, HistoryOK
  <2> QED BY <1>1, <1>4, <1>6, <2>1 DEF DirCourse, Undoing
<1>15. CASE RemoveDir(r)
  <2>1. /\ pc[r] = "h5remove" /\ c \in todo[r] /\ c \in Dir /\ UNCHANGED h5backup
        /\ h5' = [h5 EXCEPT ![c] = Nothing]
    BY <1>1, <1>5, <1>15 DEF RemoveDir
  <2>2. /\ d = c => h5'[d] = Nothing
        /\ d # c => h5'[d] = h5[d]
    BY <1>1, <1>4, <2>1
  <2>3. CASE h5backup[s][c] # Nothing
    <3>1. pc'[r] = "h5restore" /\ UNCHANGED todo BY <1>1, <1>15, <2>3 DEF RemoveDir, Goto, H5Saved
    <3>2. Current(r)' = c BY <3>1 DEF Current
    <3> QED BY <1>1, <1>4, <2>1, <2>2, <3>1, <3>2 DEF DirCourse, Undoing
  <2>4. CASE h5backup[s][c] = Nothing
    <3>1. \/ /\ pc'[r] = "rolledback" /\ todo'[r] = brings[r].dirs
             /\ d \notin todo[r] \/ d = c
          \/ pc'[r] = "h5remove" /\ todo'[r] = todo[r] \ {c}
      BY <1>1, <1>15, <2>4 DEF RemoveDir, NextDir, Goto, H5Saved
    <3>2. d = c => foundH5[r][d] = Nothing BY <1>4, <2>1, <2>4 DEF DirCourse, Undoing
    <3> QED BY <1>1, <1>4, <2>1, <2>2, <3>1, <3>2 DEF DirCourse, Undoing
  <2> QED BY <2>3, <2>4
<1>16. CASE RemoveDirFails(r)
  <2>1. pc'[r] = "failed" /\ r \in stuck'
    BY <1>1, <1>16 DEF RemoveDirFails, Abort, Goto
  <2> QED BY <1>6, <2>1
<1> QED
  BY <1>7, <1>8, <1>9, <1>10, <1>11, <1>12, <1>13, <1>14, <1>15, <1>16
  DEF H5Step, CopyDirBegins, CopyDirEnds

LEMMA OwnStep ==
    ASSUME NEW r \in Run, Here(r), Step(r)
    PROVE  Course(r)'
<1>1. ~Refuse(r) /\ ~Begin(r)
  BY DEF Here, Active, Refuse, Begin, Over
<1>2. brings' = brings
  BY <1>1, Frame DEF Here
<1>3. CASE H5Step(r)
  BY <1>2, <1>3, DirsSpareApp, DirsOnCourse DEF Course
<1>4. CASE ~H5Step(r)
  <2>1. DirsCourse(r)'
    BY <1>1, <1>4, AppSparesDirs
  <2>2. ~brings[r].app => SpareCourse(r)'
    BY <1>1, <1>4, SparesOnCourse
  <2>3. ASSUME brings[r].app PROVE AppCourse(r)'
    <3>1. CASE Crash(r)
      <4>1. /\ UNCHANGED <<script, found, had, stamp>> /\ pc'[r] = "killed"
            /\ FoundAt(r)
        BY <2>3, <3>1 DEF Crash, ghosts, Goto, Here, TypeOK, Course, AppCourse
      <4> QED
        BY <4>1 DEF AppCourse, FoundAt, BeforeAt, InstallingAt,
           InstalledAt, ServingAt, RestoringAt, Untouched, Moving, Undoing
    <3> QED
      BY <1>1, <1>4, <2>3, <3>1, StagesOnCourse, BacksUpOnCourse, MovesInOnCourse,
         CopiesOnCourse, StorageOnCourse, ServesOnCourse, RollsBackOnCourse, RestoresOnCourse
      DEF Step
  <2> QED BY <1>2, <2>1, <2>2, <2>3 DEF Course
<1> QED BY <1>3, <1>4

\* Along its course, and when it has rolled back, a run can find what it found.
Keeps ==
    \A r \in Run :
        /\ TypeOK /\ DirTypeOK /\ HistoryOK /\ PlacesAt(r) /\ Course(r) /\ r \in Begun
        /\ pc[r] \notin {"ready", "done", "failed", "killed"}
        => AppRecoverable(r) /\ DirsRecoverable(r)

LEMMA CourseKeeps == Keeps
<1> SUFFICES ASSUME NEW r \in Run, TypeOK, DirTypeOK, HistoryOK, PlacesAt(r), Course(r),
                    r \in Begun, pc[r] \notin {"ready", "done", "failed", "killed"}
             PROVE  AppRecoverable(r) /\ DirsRecoverable(r)
  BY DEF Keeps
<1>1. pc[r] \in Place /\ script \in Script /\ brings[r] \in Loads
  BY DEF TypeOK, PlacesAt
<1>2. ASSUME live = found[r] PROVE AppRecoverable(r)
  BY <1>2 DEF AppRecoverable, SameApp, HasUploads
<1>3. ASSUME Saved(r) = found[r] PROVE AppRecoverable(r)
  BY <1>3 DEF AppRecoverable, SameApp, HasUploads
<1>4. AppRecoverable(r)
  <2>1. CASE ~brings[r].app
    BY <1>2, <2>1 DEF Course, SpareCourse
  <2>2. CASE brings[r].app
    <3>1. BeforeAt(r) /\ InstallingAt(r) /\ RestoringAt(r)
      BY <2>2 DEF Course, AppCourse
    <3>2. CASE pc[r] \in Untouched
      BY <1>2, <3>1, <3>2 DEF BeforeAt
    <3>3. CASE \/ pc[r] \in Moving \cup {"stop", "start", "verify"}
               \/ pc[r] = "restart" /\ script = "ari-bot"
      BY <1>3, <3>1, <3>3 DEF InstallingAt
    <3>4. CASE \/ pc[r] \in {"h5install", "h5copying", "rollback", "rescue", "remove", "restore",
                             "restoring", "revive", "rolledback"} \cup Undoing
               \/ pc[r] \in {"restart", "migrate"} /\ script = "mixchat"
      BY <3>1, <3>4 DEF RestoringAt, AppRecoverable, LikeFound, HasUploads
    <3> QED
      BY <1>1, <3>2, <3>3, <3>4 DEF Place, Over, Untouched, Moving, Undoing, PlacesAt, Script
  <2> QED BY <2>1, <2>2
<1>5. DirsRecoverable(r)
  <2> SUFFICES ASSUME NEW d \in Dir
               PROVE  foundH5[r][d] \in {h5[d], h5backup[stamp[r]][d]}
    BY DEF DirsRecoverable
  <2>1. CASE d \notin brings[r].dirs
    BY <2>1 DEF Course, DirsCourse
  <2>2. CASE d \in brings[r].dirs
    <3>1. DirCourse(r, d)
      BY <2>2 DEF Course, DirsCourse
    <3>2. script = "mixchat"
      BY <1>1, <2>2, LoadFacts
    <3>3. pc[r] \notin {"stage", "stop", "start", "verify", "revive"}
      BY <3>2 DEF PlacesAt
    <3> QED BY <1>1, <3>1, <3>3 DEF DirCourse, Undoing, Place, Over
  <2> QED BY <2>1, <2>2
<1> QED BY <1>4, <1>5

LEMMA CourseKeepsNext == Keeps'
BY CourseKeeps, PTL

\* A step into an end keeps it too.
LEMMA KeepsFound ==
    ASSUME NEW r \in Run, Here(r), Step(r), AppRecoverable(r), DirsRecoverable(r),
           TypeOK', DirTypeOK', HistoryOK', OwnPlaces', Alone', Course(r)'
    PROVE  AppRecoverable(r)' /\ DirsRecoverable(r)'
<1>0. UNCHANGED <<stamp, found, foundH5, brings>> /\ ~Begin(r) /\ ~Refuse(r)
  <2>1. ~Begin(r) /\ ~Refuse(r) BY DEF Here, Active, Refuse, Begin, Over
  <2> QED BY <2>1, ActsActive DEF Here
<1>1. CASE pc'[r] \notin {"ready", "done", "failed", "killed"}
  <2>1. PlacesAt(r)' /\ (r \in Begun)'
    BY <1>0 DEF OwnPlaces, Here, Begun, Stamp
  <2> QED BY <1>1, <2>1, CourseKeepsNext DEF Keeps
<1>2. CASE UNCHANGED <<live, backup, h5, h5backup>>
  <2>1. Saved(r)' = Saved(r) BY <1>0, <1>2 DEF Saved
  <2> QED
    BY <1>0, <1>2, <2>1 DEF AppRecoverable, DirsRecoverable, SameApp, HasUploads
<1>3. CASE DropStorageFails(r) \/ RemoveFails(r)
  <2>1. UNCHANGED <<backup, h5, h5backup>> /\ Saved(r)' = Saved(r)
    <3>1. ~H5Step(r)
      BY <1>3, DirFrame DEF Here, DropStorageFails, RemoveFails, DirPlaces
    <3> QED BY <1>0, <1>3, <3>1, AppFrame DEF DropStorageFails, RemoveFails, Saved
  <2>2. brings[r].app
    BY <1>3 DEF DropStorageFails, RemoveFails, Here, OwnPlaces, PlacesAt, AppPlaces
  <2>3. found[r] # Nothing => LikeFound(r, Saved(r))
    <3>1. InstallingAt(r) /\ RestoringAt(r) BY <2>2 DEF Here, Course, AppCourse
    <3> QED
      BY <1>3, <3>1 DEF DropStorageFails, RemoveFails, InstallingAt, Moving, RestoringAt,
         LikeFound, SameApp
  <2> QED
    BY <1>0, <2>1, <2>3 DEF LikeFound, AppRecoverable, DirsRecoverable, SameApp, HasUploads
<1>4. CASE RemoveDirFails(r)
  <2>1. H5Step(r) BY <1>4 DEF H5Step
  <2>2. UNCHANGED <<live, backup, h5backup>> /\ pc[r] = "h5remove" /\ Saved(r)' = Saved(r)
    BY <1>0, <1>4 DEF RemoveDirFails, files, Saved
  <2>3. AppRecoverable(r)'
    BY <1>0, <2>2 DEF AppRecoverable, SameApp, HasUploads
  <2>4. \A d \in Dir : d \in brings[r].dirs => h5backup[stamp[r]][d] = foundH5[r][d]
    BY <2>1, <2>2, DirHere DEF DirCourse, Undoing
  <2>5. \A d \in Dir : d \notin brings[r].dirs => h5'[d] = foundH5'[r][d]
    BY <1>0 DEF Course, DirsCourse
  <2> QED BY <1>0, <2>2, <2>3, <2>4, <2>5 DEF DirsRecoverable
<1>5. CASE pc'[r] \in {"done", "failed", "killed"} /\ H5Step(r) /\ ~RemoveDirFails(r)
  <2>1. UNCHANGED <<live, backup>> /\ pc'[r] = "failed"
    BY <1>5, DirFrame DEF Here, DirPlaces
  <2>2. UNCHANGED <<h5, h5backup>>
    BY <1>5, <2>1 DEF H5Step, MakeBackup, MoveDirAway, BackupFails, CopyDirBegins, CopyDirEnds,
       CopyDirFails, RemoveDir, NextDir, Goto, h5part, Here, TypeOK
  <2> QED BY <1>2, <2>1, <2>2
<1>6. CASE /\ pc'[r] \in {"done", "failed", "killed"} /\ ~H5Step(r)
           /\ ~DropStorageFails(r) /\ ~RemoveFails(r)
  <2>1. UNCHANGED <<h5, h5backup>> BY <1>6, AppFrame
  <2>2. UNCHANGED <<live, backup>>
    <3>1. TypeOK BY DEF Here
    <3>2. CASE Stage(r) \/ MoveAwayFails(r) \/ MoveInPlaceFails(r) \/ Stop(r) \/ Start(r)
               \/ Verify(r) \/ Restart(r) \/ Migrate(r) \/ Rollback(r) \/ Revive(r)
               \/ ReviveFails(r) \/ Crash(r)
      BY <3>2 DEF Stage, MoveAwayFails, MoveInPlaceFails, Stop, Start, Verify, Restart, Migrate,
         Rollback, Revive, ReviveFails, Crash, files
    <3>3. CASE CopyAway(r) \/ Rescue(r) \/ RestoreEnds(r)
      BY <1>6, <3>1, <3>3 DEF CopyAway, Rescue, RestoreEnds, AfterApp, Loop, Goto, TypeOK
    <3>4. ~(\/ MoveAway(r) \/ MoveInPlace(r) \/ CopyBegins(r) \/ CopyEnds(r) \/ DropStorage(r)
            \/ TakeStorage(r) \/ Remove(r) \/ RestoreBegins(r))
      BY <1>6, <3>1 DEF MoveAway, MoveInPlace, CopyBegins, CopyEnds, DropStorage, TakeStorage,
         Remove, RestoreBegins, AfterRemove, AfterApp, Loop, Goto, TypeOK
    <3> QED BY <1>0, <1>6, <3>2, <3>3, <3>4 DEF Step
  <2> QED BY <1>2, <2>1, <2>2
<1>7. pc'[r] # "ready"
  BY <1>0 DEF Here, Alone, Stamp
<1> QED BY <1>1, <1>3, <1>4, <1>5, <1>6, <1>7

\* Where a run is does not change while others refuse, the service dies, or
\* nothing happens.
LEMMA StaysOnCourse ==
    ASSUME NEW r \in Run, pc'[r] = pc[r], serving' \in {serving, Nothing},
           UNCHANGED <<script, h5part, files, stamp, stuck, ghosts>>
    PROVE  /\ Latest(r)' => Latest(r)
           /\ Course(r) => Course(r)'
           /\ AppRecoverable(r) => AppRecoverable(r)'
           /\ DirsRecoverable(r) => DirsRecoverable(r)'
<1> USE DEF files, ghosts, h5part
<1>1. r # Nothing
  BY ServiceAssumption
<1>2. Latest(r)' => Latest(r)
  BY DEF Latest, Begun
<1>3. AppCourse(r) => AppCourse(r)'
  <2>1. FoundAt(r) => FoundAt(r)'
    BY DEF FoundAt
  <2>2. BeforeAt(r) => BeforeAt(r)'
    BY DEF BeforeAt, Untouched, Saved, Package
  <2>3. InstallingAt(r) => InstallingAt(r)'
    BY DEF InstallingAt, Moving, Saved, New, HasStorage
  <2>4. InstalledAt(r) => InstalledAt(r)'
    BY DEF InstalledAt, New, HasUploads
  <2>5. ServingAt(r) => ServingAt(r)'
    BY <1>1 DEF ServingAt, Untouched, Moving, Undoing
  <2>6. RestoringAt(r) => RestoringAt(r)'
    BY DEF RestoringAt, Undoing, Saved, SameApp, LikeFound, HasUploads, HasStorage
  <2> QED BY <2>1, <2>2, <2>3, <2>4, <2>5, <2>6 DEF AppCourse
<1>4. SpareCourse(r) => SpareCourse(r)'
  BY <1>1 DEF SpareCourse, Reloaded
<1>5. DirsCourse(r) => DirsCourse(r)'
  BY DEF DirsCourse, DirCourse, Current, Undoing, Package
<1>6. AppRecoverable(r) => AppRecoverable(r)'
  BY DEF AppRecoverable, SameApp, HasUploads, Saved
<1>7. DirsRecoverable(r) => DirsRecoverable(r)'
  BY DEF DirsRecoverable
<1> QED BY <1>2, <1>3, <1>4, <1>5, <1>6, <1>7 DEF Course

----------------------------------------------------------------------------
(* Success and failure *)

LEMMA SoloStep ==
    ASSUME IInv, Solo, NEW q \in Run, Step(q)
    PROVE  Solo'
<1>0. /\ TypeOK /\ DirTypeOK /\ OwnPlaces /\ Loops /\ Alone /\ BackupFound
      /\ HistoryOK /\ NoUploadsElsewhere /\ BySecond /\ Unseen
  BY DEF IInv, Solo
<1>1. HistoryOK' /\ NoUploadsElsewhere' /\ BySecond' /\ Unseen'
  BY <1>0, HistoryStep, NoUploadsStep, BySecondStep, UnseenStep
<1>2. TypeOK' /\ DirTypeOK' /\ OwnPlaces' /\ Alone'
  <2>1. IInv'
    BY NextIInv DEF Next
  <2> QED BY <2>1 DEF IInv
<1>3. ASSUME NEW r \in Run \ met', r \in Begun'
      PROVE  Apart(r)' /\ (Latest(r)' => (Course(r) /\ AppRecoverable(r) /\ DirsRecoverable(r))')
  <2>1. r \notin met
    BY <1>0, <1>3, Frame DEF Begin
  <2>2. r \in Begun =>
           Apart(r) /\ (Latest(r) => Course(r) /\ AppRecoverable(r) /\ DirsRecoverable(r))
    BY <2>1 DEF Solo, SoloAt
  <2>3. Apart(r)'
    BY <1>0, <1>3, <2>2, ApartStep
  <2>4. ASSUME Latest(r)'
        PROVE  Course(r)' /\ AppRecoverable(r)' /\ DirsRecoverable(r)'
    <3>1. CASE r = q /\ Begin(q)
      <4>1. Course(r)'
        BY <1>0, <1>3, <3>1, BeginsCourse
      <4>2. pc'[r] \in {"stage", "backup", "h5mkdir"}
        BY <1>0, <3>1 DEF Begin, Goto, TypeOK
      <4> QED BY <1>1, <1>2, <1>3, <4>1, <4>2, CourseKeepsNext DEF Keeps, OwnPlaces
    <3>2. CASE r = q /\ ~Begin(q)
      <4>1. r \in Begun
        BY <1>0, <1>3, <3>2, BegunStays
      <4>2. ~Refuse(q)
        BY <1>0, <3>2, <4>1 DEF Refuse, Alone, Begun
      <4>3. r \in Active /\ UNCHANGED <<stamp, met, found>>
        BY <1>0, <3>2, <4>2, ActsActive
      <4>4. Latest(r)
        BY <2>4, <4>1, <4>3 DEF Latest, Begun
      <4>5. Here(r) /\ AppRecoverable(r) /\ DirsRecoverable(r)
        BY <1>0, <2>2, <4>1, <4>3, <4>4, RunFacts DEF Here
      <4>6. Course(r)'
        BY <3>2, <4>5, OwnStep
      <4> QED BY <1>1, <1>2, <3>2, <4>5, <4>6, KeepsFound
    <3>3. CASE r # q
      <4>1. r \in Begun
        BY <1>0, <1>3, <3>3, BegunStays
      <4>2. Refuse(q)
        BY <1>0, <1>3, <2>2, <2>4, <3>3, <4>1, OthersRefuse
      <4>3. /\ pc'[r] = pc[r] /\ serving' = serving
            /\ UNCHANGED <<script, h5part, files, stamp, stuck, ghosts>>
        BY <1>0, <3>3, <4>2 DEF Refuse, Goto, TypeOK
      <4>4. Latest(r)
        BY <1>3, <2>4, <4>3, StaysOnCourse
      <4> QED BY <1>3, <2>2, <4>1, <4>3, <4>4, StaysOnCourse
    <3> QED BY <3>1, <3>2, <3>3
  <2> QED BY <2>3, <2>4
<1> QED BY <1>1, <1>3 DEF Solo, SoloAt

LEMMA SoloInit == Init => Solo
<1> SUFFICES ASSUME Init PROVE Solo
  OBVIOUS
<1>1. live = OldCopy /\ OldCopy \in Copy /\ OldCopy.version = Old
      /\ (script # "mixchat" => OldCopy.storage = "none")
  BY CopyFacts DEF Init, OldCopy, Package
<1>2. HistoryOK
  BY DEF Init, HistoryOK, Version
<1>3. NoUploadsElsewhere
  BY <1>1 DEF Init, NoUploadsElsewhere, HasUploads
<1>4. BySecond
  BY DEF Init, BySecond
<1>5. Unseen
  BY <1>1, ServiceAssumption DEF Init, Unseen, Copies
<1>6. Begun = {}
  BY DEF Init, Begun
<1> QED BY <1>2, <1>3, <1>4, <1>5, <1>6 DEF Solo, SoloAt

\* No run acts: the process ends, or nothing happens.
LEMMA SoloStays ==
    ASSUME IInv, Solo, serving' \in {serving, Nothing},
           UNCHANGED <<script, h5part, files, pc, stamp, stuck, ghosts>>
    PROVE  Solo'
<1>1. HistoryOK'
  BY DEF Solo, HistoryOK, ghosts, Copy, Version
<1>2. NoUploadsElsewhere'
  BY DEF Solo, NoUploadsElsewhere, files, ghosts, HasUploads, Stamp
<1>3. BySecond'
  BY DEF Solo, BySecond, files, h5part, Stamp, Begun
<1>4. Unseen'
  BY ServiceAssumption DEF Solo, Unseen, files, ghosts, Copies, Stamp, Begun
<1>5. ASSUME NEW r \in Run \ met' PROVE SoloAt(r)'
  <2>1. SoloAt(r)
    BY <1>5 DEF Solo, ghosts
  <2>2. Apart(r) => Apart(r)'
    BY DEF Apart, Begun, Active, Over
  <2> QED BY <2>1, <2>2, StaysOnCourse DEF SoloAt, Begun
<1> QED BY <1>1, <1>2, <1>3, <1>4, <1>5 DEF Solo

LEMMA SoloNext == IInv /\ Solo /\ [Next]_vars => Solo'
<1> SUFFICES ASSUME IInv, Solo, [Next]_vars PROVE Solo'
  OBVIOUS
<1>1. CASE Dies
  BY <1>1, SoloStays DEF Dies
<1>2. ASSUME NEW r \in Run, Step(r) PROVE Solo'
  BY <1>2, SoloStep
<1>3. CASE UNCHANGED vars
  BY <1>3, SoloStays DEF vars, h5part, files, ghosts
<1> QED BY <1>1, <1>2, <1>3 DEF Next

\* A run that met no other and began last is, at every step of its script,
\* where its course says it is, and has what it found.
THEOREM OnCourse == Spec => []Solo
BY SoloInit, SoloNext, Kept, PTL DEF Spec

\* What a run found is in place or in the backup of its own second, wherever it
\* is and however it ended.
THEOREM FoundIsKept == Spec => []FoundKept
<1>1. Solo => FoundKept
  BY DEF Solo, SoloAt, FoundKept, AppRecoverable, DirsRecoverable, Latest
<1> QED BY <1>1, OnCourse, PTL

\* A run of any of the three scripts that met no other and exits 0 has put what
\* it brings in place and nothing else, with the uploads it found, whatever the
\* runs before it left behind; and unless the service resisted no other version
\* is served than the one in place.
THEOREM SuccessIsNew == Spec => []SuccessMeansNew
<1>1. IInv /\ Solo => SuccessMeansNew
  <2> SUFFICES ASSUME IInv, Solo, NEW r \in Run \ met, pc[r] = "done", Latest(r)
               PROVE  /\ IF brings[r].app THEN New(r) ELSE live = found[r]
                      /\ HasUploads(found[r]) => HasUploads(live)
                      /\ \A d \in Dir : h5[d] = IF d \in brings[r].dirs
                                                THEN Package(r, "none") ELSE foundH5[r][d]
                      /\ r \notin unsure => serving \in {Reloaded, Nothing}
    BY DEF SuccessMeansNew, New
  <2>1. Course(r)
    BY DEF Solo, SoloAt, Latest
  <2>2. \A d \in Dir : h5[d] = IF d \in brings[r].dirs
                               THEN Package(r, "none") ELSE foundH5[r][d]
    BY <2>1 DEF Course, DirsCourse, DirCourse
  <2>3. CASE brings[r].app
    <3>1. InstalledAt(r) /\ ServingAt(r)
      BY <2>1, <2>3 DEF Course, AppCourse
    <3>2. New(r) /\ (HasUploads(found[r]) => HasUploads(live))
      BY <3>1 DEF InstalledAt
    <3>3. Reloaded = r
      BY <3>2 DEF Reloaded, New
    <3>4. r \notin unsure => serving \in {r, Nothing}
      BY <3>1 DEF ServingAt
    <3> QED BY <2>2, <2>3, <3>2, <3>3, <3>4
  <2>4. CASE ~brings[r].app
    <3>1. SpareCourse(r)
      BY <2>1, <2>4 DEF Course
    <3> QED BY <2>2, <2>4, <3>1 DEF SpareCourse, HasUploads
  <2> QED BY <2>3, <2>4
<1> QED BY <1>1, OnCourse, Kept, PTL

\* A run that met no other and fails before it replaced anything, or rolls back,
\* leaves the application, the uploads and the h5 part it found and does not
\* serve its own version.
THEOREM FailureIsOld == Spec => []FailureRestores
<1>1. IInv /\ Solo => FailureRestores
  <2> SUFFICES ASSUME IInv, Solo, NEW r \in Run \ (met \cup stuck),
                      pc[r] \in {"rolledback", "failed"}, Latest(r)
               PROVE  /\ found[r] # Nothing => SameApp(r, live)
                      /\ HasUploads(found[r]) => HasUploads(live)
                      /\ h5 = foundH5[r]
                      /\ found[r] # Nothing /\ r \notin unsure => serving # r
    BY DEF FailureRestores
  <2>1. Course(r)
    BY DEF Solo, SoloAt, Latest
  <2>2. h5 = foundH5[r]
    <3>1. \A d \in Dir : h5[d] = foundH5[r][d]
      BY <2>1 DEF Course, DirsCourse, DirCourse
    <3> QED BY <3>1 DEF IInv, DirTypeOK
  <2>3. /\ found[r] # Nothing => SameApp(r, live)
        /\ HasUploads(found[r]) => HasUploads(live)
        /\ found[r] # Nothing /\ r \notin unsure => serving # r
    <3>1. CASE ~brings[r].app
      BY <2>1, <3>1 DEF Course, SpareCourse, SameApp, HasUploads
    <3>2. CASE brings[r].app /\ pc[r] = "rolledback"
      BY <2>1, <3>2 DEF Course, AppCourse, RestoringAt, ServingAt, LikeFound, HasUploads
    <3>3. CASE brings[r].app /\ pc[r] = "failed"
      BY <2>1, <3>3 DEF Course, AppCourse, BeforeAt, ServingAt, SameApp, HasUploads
    <3> QED BY <3>1, <3>2, <3>3
  <2> QED BY <2>2, <2>3
<1> QED BY <1>1, OnCourse, Kept, PTL
=============================================================================
