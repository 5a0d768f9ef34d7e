-------------------------- MODULE DirectoryDeploy --------------------------
(***************************************************************************)
(* scripts/deploy-mixbot-inner.sh: the command behind deploy_artifact that *)
(* moves the live directories of an application into a backup and copies   *)
(* the new ones into place.  deploy-antd-pri-dev-inner.sh has the same     *)
(* steps on directories of its own.                                        *)
(*                                                                         *)
(* The limits of the command service hold within one server process, and   *)
(* every connection has its own, so runs of the script may overlap.  The   *)
(* script runs under set -e: a command that fails outside a condition ends *)
(* it where it stands.                                                     *)
(***************************************************************************)
EXTENDS Integers, Sequences, FiniteSets

CONSTANTS
    Run,        \* runs of the script; each installs a version of its own
    NumParts,   \* directories of the application (modules, public/prod, ...)
    MaxStamp,   \* bound: seconds in which runs begin
    Old, Mixed, \* the version before any run, a directory two copies share
    Fault       \* commands that may fail, and "crash"

Part == 1..NumParts
Stamp == 1..MaxStamp
Layer == [version : Run \cup {Old, Mixed}, whole : BOOLEAN]

ASSUME PartAssumption == NumParts \in Nat \ {0} /\ MaxStamp \in Nat
ASSUME VersionAssumption == Old \notin Run /\ Mixed \notin Run /\ Old # Mixed
ASSUME FaultAssumption == Fault \subseteq {"mkdir", "mv", "cp", "rm", "crash"}

VARIABLES
    live,      \* the application: per part a chain of layers, see below
    backup,    \* BACKUP_ROOT/mixbot_<second>, per second and part
    pc, pos,   \* where each run is, and at which part of its loop
    stamp,     \* the second it began in, 0 before
    depth,     \* the layer its copy writes to, 1 outside a copy
    had,       \* history: parts that existed before the first run
    found,     \* history: the application as a run found it
    met        \* history: runs that overlapped another

vars == <<live, backup, pc, pos, stamp, depth, had, found, met>>

\* mv and cp put a directory INTO a target that exists: its layers are the
\* target, the directory of the same name inside it, and so on.
Tree == Seq(Layer)
Whole(v) == [version |-> v, whole |-> TRUE]
Partial(v) == [version |-> v, whole |-> FALSE]

Working == {"look", "move", "install", "copying", "rollback", "restore", "restoring"}
Place == Working \cup {"ready", "done", "rolledback", "failed"}

TypeOK ==
    /\ live \in [Part -> Tree]
    /\ backup \in [Stamp -> [Part -> Tree]]
    /\ pc \in [Run -> Place] /\ pos \in [Run -> Part]
    /\ stamp \in [Run -> 0..MaxStamp]
    /\ \A r \in Run : pc[r] \in Working => stamp[r] \in Stamp
    /\ depth \in [Run -> {1, 2}]
    /\ had \subseteq Part
    /\ found \in [Run -> [Part -> Tree]]
    /\ met \subseteq Run

Nothing == [p \in Part |-> <<>>]

Init ==
    /\ had \in SUBSET Part
    /\ live = [p \in Part |-> IF p \in had THEN <<Whole(Old)>> ELSE <<>>]
    /\ backup = [t \in Stamp |-> Nothing]
    /\ pc = [r \in Run |-> "ready"] /\ pos = [r \in Run |-> 1]
    /\ stamp = [r \in Run |-> 0]
    /\ depth = [r \in Run |-> 1]
    /\ found = [r \in Run |-> Nothing]
    /\ met = {}

Active == {r \in Run : pc[r] \in Working}
Begun == {r \in Run : stamp[r] # 0}

Goto(r, label) == pc' = [pc EXCEPT ![r] = label]

\* The script is over; its loop variable goes with it.
Fail(r) == Goto(r, "failed") /\ pos' = [pos EXCEPT ![r] = 1]

ghosts == <<had, found, met>>

----------------------------------------------------------------------------
(* Beginning *)

\* Before the backup directory is made nothing of the application is touched.
Refuse(r) ==
    /\ pc[r] = "ready"
    /\ Fail(r)
    /\ UNCHANGED <<live, backup, stamp, depth, ghosts>>

\* The clock reads whole seconds; runs that follow each other read different
\* ones.
Begin(r) ==
    /\ pc[r] = "ready"
    /\ \E t \in Stamp :
          /\ \A q \in Begun : stamp[q] < t \/ (stamp[q] = t /\ Active # {})
          /\ stamp' = [stamp EXCEPT ![r] = t]
    /\ Goto(r, "look")
    /\ found' = [found EXCEPT ![r] = live]
    /\ met' = IF Active = {} THEN met ELSE met \cup Active \cup {r}
    /\ UNCHANGED <<live, backup, pos, depth, had>>

----------------------------------------------------------------------------
(* The loops *)

\* Seeded bug: one iteration too many.
NextPartBeyond(r, again, after) ==
    IF pos[r] =< NumParts
    THEN Goto(r, again) /\ pos' = [pos EXCEPT ![r] = pos[r] + 1]
    ELSE Goto(r, after) /\ pos' = [pos EXCEPT ![r] = 1]

\* On to the next part, or to the first one of what comes after the loop.
NextPart(r, again, after) ==
    IF pos[r] < NumParts
    THEN Goto(r, again) /\ pos' = [pos EXCEPT ![r] = pos[r] + 1]
    ELSE Goto(r, after) /\ pos' = [pos EXCEPT ![r] = 1]

\* mkdir -p fails; set -e ends the script.
MkdirFails(r) ==
    /\ "mkdir" \in Fault
    /\ pc[r] \in {"move", "install", "restore"}
    /\ Fail(r)
    /\ UNCHANGED <<live, backup, stamp, depth, ghosts>>

----------------------------------------------------------------------------
(* Backup *)

\* [[ -e "$MIXBOT_DIR/$d" ]]
Look(r) ==
    /\ pc[r] = "look"
    /\ IF live[pos[r]] # <<>>
       THEN Goto(r, "move") /\ UNCHANGED pos
       ELSE NextPart(r, "look", "install")
    /\ UNCHANGED <<live, backup, stamp, depth, ghosts>>

\* mv finds its source and no directory of that name inside its target.
Movable(r) ==
    live[pos[r]] # <<>> /\ Len(backup[stamp[r]][pos[r]]) =< 1

\* Seeded bug: a copy that may be cut short, then rm -rf.
MoveByCopy(r) ==
    LET p == pos[r]  t == stamp[r] IN
    /\ pc[r] = "move"
    /\ Movable(r)
    /\ \E whole \in BOOLEAN :
          backup' = [backup EXCEPT ![t][p] =
             Append(@, [version |-> live[p][1].version,
                        whole |-> live[p][1].whole /\ whole])]
    /\ live' = [live EXCEPT ![p] = <<>>]
    /\ NextPart(r, "look", "install")
    /\ UNCHANGED <<stamp, depth, ghosts>>

Move(r) ==
    LET p == pos[r]  t == stamp[r] IN
    /\ pc[r] = "move"
    /\ Movable(r)
    /\ backup' = [backup EXCEPT ![t][p] = @ \o live[p]]
    /\ live' = [live EXCEPT ![p] = <<>>]
    /\ NextPart(r, "look", "install")
    /\ UNCHANGED <<stamp, depth, ghosts>>

\* set -e: no rollback.
MoveFails(r) ==
    /\ pc[r] = "move"
    /\ ~Movable(r) \/ "mv" \in Fault
    /\ Fail(r)
    /\ UNCHANGED <<live, backup, stamp, depth, ghosts>>

----------------------------------------------------------------------------
(* Copies *)

\* What a run copies: its staged version, or its backup while it rolls back.
Source(r) ==
    IF pc[r] \in {"install", "copying"}
    THEN <<Whole(r)>>
    ELSE backup[stamp[r]][pos[r]]

\* cp -a makes its target when it does not exist, and otherwise works on the
\* directory of that name inside it.
Target(tree) == IF tree = <<>> THEN 1 ELSE 2
Land(tree, v) ==
    IF Len(tree) < Target(tree)
    THEN Append(tree, Partial(v))
    ELSE [tree EXCEPT ![2] = Partial(Mixed)]

\* Once the copy is whole; what others put inside it meanwhile stays there.
Completed(tree, k, src) ==
    SubSeq(tree, 1, k - 1) \o <<src[1]>> \o
    (IF Len(tree) > k THEN SubSeq(tree, k + 1, Len(tree)) ELSE Tail(src))

CopyBegins(r) ==
    LET p == pos[r] IN
    /\ pc[r] \in {"install", "restore"} /\ Source(r) # <<>>
    /\ live' = [live EXCEPT ![p] = Land(live[p], Source(r)[1].version)]
    /\ depth' = [depth EXCEPT ![r] = Target(live[p])]
    /\ Goto(r, IF pc[r] = "install" THEN "copying" ELSE "restoring")
    /\ UNCHANGED <<backup, pos, stamp, ghosts>>

\* The directory the copy writes to is still the one it made.
Undisturbed(r) ==
    /\ Source(r) # <<>> /\ depth[r] =< Len(live[pos[r]])
    /\ live[pos[r]][depth[r]] = Partial(Source(r)[1].version)

\* The copy goes on by path name: into what another run has put there.
Spoilt(r) ==
    IF depth[r] =< Len(live[pos[r]])
    THEN [live EXCEPT ![pos[r]][depth[r]] = Partial(Mixed)]
    ELSE live

CopyEnds(r) ==
    LET p == pos[r] IN
    /\ pc[r] \in {"copying", "restoring"}
    /\ \/ /\ Undisturbed(r)
          /\ live' = [live EXCEPT ![p] = Completed(live[p], depth[r], Source(r))]
       \/ /\ ~Undisturbed(r) /\ depth[r] =< Len(live[p])
          /\ live' = Spoilt(r)
    /\ IF pc[r] = "copying"
       THEN NextPart(r, "install", "done")
       ELSE NextPart(r, "rollback", "rolledback")
    /\ depth' = [depth EXCEPT ![r] = 1]
    /\ UNCHANGED <<backup, stamp, ghosts>>

\* Seeded bug: the exit code of cp is not looked at.
CopyFailsUnnoticed(r) ==
    /\ pc[r] \in {"copying", "restoring"}
    /\ "cp" \in Fault \/ ~Undisturbed(r)
    /\ live' = IF Undisturbed(r) THEN live ELSE Spoilt(r)
    /\ IF pc[r] = "copying"
       THEN NextPart(r, "install", "done")
       ELSE NextPart(r, "rollback", "rolledback")
    /\ depth' = [depth EXCEPT ![r] = 1]
    /\ UNCHANGED <<backup, stamp, ghosts>>

\* Half a copy stays behind.  A failed installation is rolled back from the
\* first part on; a failed restoration ends the script.
CopyFails(r) ==
    /\ pc[r] \in {"copying", "restoring"}
    /\ "cp" \in Fault \/ ~Undisturbed(r)
    /\ live' = IF Undisturbed(r) THEN live ELSE Spoilt(r)
    /\ IF pc[r] = "copying"
       THEN Goto(r, "rollback") /\ pos' = [pos EXCEPT ![r] = 1]
       ELSE Fail(r)
    /\ depth' = [depth EXCEPT ![r] = 1]
    /\ UNCHANGED <<backup, stamp, ghosts>>

----------------------------------------------------------------------------
(* Rollback *)

\* Seeded bug: the backup is copied over what is there.
RemoveNothing(r) ==
    LET p == pos[r] IN
    /\ pc[r] = "rollback"
    /\ IF backup[stamp[r]][p] = <<>>
       THEN NextPart(r, "rollback", "rolledback")
       ELSE Goto(r, "restore") /\ UNCHANGED pos
    /\ UNCHANGED <<live, backup, stamp, depth, ghosts>>

\* A part with a backup is removed; one without stays as the run left it.
Remove(r) ==
    LET p == pos[r] IN
    /\ pc[r] = "rollback"
    /\ IF backup[stamp[r]][p] = <<>>
       THEN NextPart(r, "rollback", "rolledback") /\ UNCHANGED live
       ELSE /\ live' = [live EXCEPT ![p] = <<>>]
            /\ Goto(r, "restore") /\ UNCHANGED pos
    /\ UNCHANGED <<backup, stamp, depth, ghosts>>

\* rm -rf fails half way; set -e ends the script.
RemoveFails(r) ==
    LET p == pos[r] IN
    /\ "rm" \in Fault
    /\ pc[r] = "rollback"
    /\ backup[stamp[r]][p] # <<>> /\ live[p] # <<>>
    /\ live' = [live EXCEPT ![p] = <<Partial(live[p][1].version)>>]
    /\ Fail(r)
    /\ UNCHANGED <<backup, stamp, depth, ghosts>>

\* The machine or an administrator ends the script; the server cannot, it
\* runs as root.
Killed(r) ==
    /\ "crash" \in Fault
    /\ pc[r] \in Working
    /\ Fail(r)
    /\ depth' = [depth EXCEPT ![r] = 1]
    /\ UNCHANGED <<live, backup, stamp, ghosts>>

----------------------------------------------------------------------------

RunStep(r) ==
    \/ Refuse(r) \/ Begin(r)
    \/ Look(r) \/ Move(r) \/ MoveFails(r) \/ MkdirFails(r)
    \/ CopyBegins(r) \/ CopyEnds(r) \/ CopyFails(r)
    \/ Remove(r) \/ RemoveFails(r)
    \/ Killed(r)

Next == \E r \in Run : RunStep(r)

Spec == Init /\ [][Next]_vars

----------------------------------------------------------------------------
(* Properties *)

OldIn(tree) == \E i \in DOMAIN tree : tree[i] = Whole(Old)
OldBackedUp(p) == \E t \in Stamp : OldIn(backup[t][p])

\* Whatever fails, is cut off or overlaps, the version that was there before
\* the first run is still there whole, in the application or in a backup: the
\* rm -rf of a rollback and the copies over existing directories never reach
\* the only copy.
OldVersionKept == \A p \in had : OldIn(live[p]) \/ OldBackedUp(p)

\* No run began after r.
Latest(r) == \A q \in Begun : stamp[q] =< stamp[r]

\* A run that met no other and exits 0 leaves the application all new, also
\* after a run that failed or was killed half way.
SuccessMeansNew ==
    \A r \in Run \ met :
        pc[r] = "done" /\ Latest(r) => \A p \in Part : live[p] = <<Whole(r)>>

\* A run that met no other and rolled back leaves each directory it had found
\* as it had found it.
FailureRestores ==
    \A r \in Run \ met :
        pc[r] = "rolledback" /\ Latest(r) =>
            \A p \in Part : found[r][p] # <<>> => live[p] = found[r][p]

\* "deployed" means deployed, also for runs that overlapped: when all that
\* began have exited 0, the directories are the new ones of one and the same
\* run, whatever else may lie inside them.
OneVersionServed ==
    Begun # {} /\ (\A r \in Begun : pc[r] = "done")
        => \E r \in Begun : \A p \in Part :
               live[p] # <<>> /\ live[p][1] = Whole(r)
=============================================================================
