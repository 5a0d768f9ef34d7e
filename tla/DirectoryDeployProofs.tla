----------------------- MODULE DirectoryDeployProofs -----------------------
(***************************************************************************)
(* No deploy of directories loses the version that was there before the    *)
(* first, whatever overlaps; and a run that met no other either installs   *)
(* the whole new version or restores what it found.  For every set of      *)
(* runs, every number of directories and every choice of what fails.       *)
(***************************************************************************)
EXTENDS DirectoryDeploy, SequenceTheorems, TLAPS

----------------------------------------------------------------------------
(* The inductive invariant *)

BackingUp == {"look", "move"}
PastBackup == Working \ BackingUp

\* A run past the backup of a part has its old version in some backup, its own
\* or an earlier one.
PastBackedUp ==
    \A r \in Run, p \in had :
        \/ pc[r] \in BackingUp /\ p < pos[r]
        \/ pc[r] \in PastBackup
        => OldBackedUp(p)

\* A run that has not begun starts its loops at the first part.
ReadyAtFirst == \A r \in Run : pc[r] = "ready" => pos[r] = 1

IInv == TypeOK /\ OldVersionKept /\ PastBackedUp /\ ReadyAtFirst

----------------------------------------------------------------------------
(* Types *)

\* What the copies make of a tree is a tree.
LEMMA TreeFacts ==
    /\ <<>> \in Tree
    /\ \A v \in Run \cup {Old, Mixed} :
          Whole(v) \in Layer /\ Partial(v) \in Layer
    /\ \A s, t \in Tree : s \o t \in Tree
    /\ \A s \in Tree, l \in Layer : <<l>> \in Tree /\ Append(s, l) \in Tree
    /\ \A s \in Tree, k \in Nat, l \in Layer : [s EXCEPT ![k] = l] \in Tree
    /\ \A s \in Tree : \A i, j \in Int :
          1 =< i /\ j =< Len(s) => SubSeq(s, i, j) \in Tree
    /\ \A s \in Tree : s # <<>> => s[1] \in Layer /\ Tail(s) \in Tree
    /\ \A s \in Tree : \A k \in 1..Len(s) : s[k] \in Layer
    /\ \A s \in Tree : Len(s) \in Nat
<1>1. \A s \in Tree : \A i, j \in Int :
          1 =< i /\ j =< Len(s) => SubSeq(s, i, j) \in Tree
  BY DEF Tree
<1>2. \A s \in Tree, k \in Nat, l \in Layer : [s EXCEPT ![k] = l] \in Tree
  <2> SUFFICES ASSUME NEW s \in Tree, NEW k \in Nat, NEW l \in Layer
               PROVE  [s EXCEPT ![k] = l] \in Tree
    OBVIOUS
  <2>1. s \in [1..Len(s) -> Layer] /\ Len(s) \in Nat
    BY DEF Tree
  <2>2. [s EXCEPT ![k] = l] \in [1..Len(s) -> Layer]
    BY <2>1
  <2> QED BY <2>1, <2>2, IsASeq DEF Tree
<1>3. \A v \in Run \cup {Old, Mixed} : Whole(v) \in Layer /\ Partial(v) \in Layer
  BY DEF Whole, Partial, Layer
<1> QED BY <1>1, <1>2, <1>3 DEF Tree

LEMMA LandTree ==
    ASSUME NEW tree \in Tree, NEW v \in Run \cup {Old, Mixed}
    PROVE  Land(tree, v) \in Tree /\ Target(tree) \in {1, 2}
BY TreeFacts DEF Land, Target

LEMMA CompletedTree ==
    ASSUME NEW tree \in Tree, NEW src \in Tree, src # <<>>,
           NEW k \in {1, 2}, k =< Len(tree)
    PROVE  Completed(tree, k, src) \in Tree
<1>1. SubSeq(tree, 1, k - 1) \in Tree /\ Len(tree) \in Nat
  BY TreeFacts
<1>2. <<src[1]>> \in Tree
  BY TreeFacts
<1>3. (IF Len(tree) > k THEN SubSeq(tree, k + 1, Len(tree)) ELSE Tail(src)) \in Tree
  BY <1>1, TreeFacts
<1> QED BY <1>1, <1>2, <1>3, TreeFacts DEF Completed

\* The source of a copy under way is a tree of known versions.
LEMMA SourceTree ==
    ASSUME TypeOK, NEW r \in Run, pc[r] \in Working
    PROVE  /\ Source(r) \in Tree
           /\ Source(r) # <<>> => Source(r)[1].version \in Run \cup {Old, Mixed}
<1>1. backup[stamp[r]][pos[r]] \in Tree
  BY DEF TypeOK
<1>2. <<Whole(r)>> \in Tree
  BY TreeFacts
<1>3. Source(r) \in Tree
  BY <1>1, <1>2 DEF Source
<1>4. Source(r) # <<>> => Source(r)[1] \in Layer
  BY <1>3, TreeFacts
<1> QED BY <1>3, <1>4 DEF Layer

LEMMA SpoiltType ==
    ASSUME TypeOK, NEW r \in Run
    PROVE  Spoilt(r) \in [Part -> Tree]
<1>1. live[pos[r]] \in Tree /\ Partial(Mixed) \in Layer /\ depth[r] \in Nat
  BY TreeFacts DEF TypeOK
<1>2. [live[pos[r]] EXCEPT ![depth[r]] = Partial(Mixed)] \in Tree
  BY <1>1, TreeFacts
<1> QED BY <1>2 DEF Spoilt, TypeOK

LEMMA PartFacts ==
    /\ Part \subseteq Nat
    /\ 1 \in Part
    /\ \A p \in Part : p < NumParts => p + 1 \in Part
BY PartAssumption DEF Part

\* A loop goes on within the parts, and keeps the place of every other run.
LEMMA NextPartType ==
    ASSUME TypeOK, NEW r \in Run, NEW again \in Place, NEW after \in Place,
           NextPart(r, again, after)
    PROVE  /\ pc' \in [Run -> Place] /\ pos' \in [Run -> Part]
           /\ pc'[r] \in {again, after}
           /\ \A q \in Run \ {r} : pc'[q] = pc[q] /\ pos'[q] = pos[q]
<1>1. pos[r] \in Part
  BY DEF TypeOK
<1>2. pos \in [Run -> Part]
  BY DEF TypeOK
<1>3. pos' \in [Run -> Part] /\ \A q \in Run \ {r} : pos'[q] = pos[q]
  <2>1. CASE pos[r] < NumParts
    <3>1. pos[r] + 1 \in Part /\ pos' = [pos EXCEPT ![r] = pos[r] + 1]
      BY <1>1, <2>1, PartFacts DEF NextPart
    <3> QED BY <3>1, <1>2
  <2>2. CASE ~(pos[r] < NumParts)
    <3>1. 1 \in Part /\ pos' = [pos EXCEPT ![r] = 1]
      BY <2>2, PartFacts DEF NextPart
    <3> QED BY <3>1, <1>2
  <2> QED BY <2>1, <2>2
<1> QED BY <1>3 DEF NextPart, Goto, TypeOK

LEMMA FailType ==
    ASSUME TypeOK, NEW r \in Run, Fail(r)
    PROVE  /\ pc' \in [Run -> Place] /\ pos' \in [Run -> Part]
           /\ pc'[r] = "failed"
           /\ \A q \in Run \ {r} : pc'[q] = pc[q] /\ pos'[q] = pos[q]
BY PartFacts DEF Fail, Goto, TypeOK, Place

LEMMA GotoType ==
    ASSUME TypeOK, NEW r \in Run, NEW label \in Place, Goto(r, label)
    PROVE  /\ pc' \in [Run -> Place]
           /\ pc'[r] = label
           /\ \A q \in Run \ {r} : pc'[q] = pc[q]
BY DEF Goto, TypeOK

----------------------------------------------------------------------------
(* Steps *)

\* What an action of a run leaves alone, and what it must establish, for the
\* places of the runs.
LEMMA PlacesType ==
    ASSUME TypeOK, NEW r \in Run,
           pc' \in [Run -> Place], pos' \in [Run -> Part],
           \A q \in Run \ {r} : pc'[q] = pc[q],
           pc'[r] \in Working => pc[r] \in Working,
           stamp' = stamp, ghosts' = ghosts,
           live' \in [Part -> Tree], backup' \in [Stamp -> [Part -> Tree]],
           depth' \in [Run -> {1, 2}]
    PROVE  TypeOK'
BY DEF TypeOK, ghosts

LEMMA PlaceFacts == Working \subseteq Place /\ "ready" \notin Working
BY DEF Place, Working

LEMMA StepType ==
    ASSUME TypeOK, NEW r \in Run, RunStep(r)
    PROVE  TypeOK'
<1> USE PlaceFacts
<1>1. CASE Refuse(r)
  <2>1. pc' \in [Run -> Place] /\ pos' \in [Run -> Part] /\ pc'[r] = "failed"
        /\ \A q \in Run \ {r} : pc'[q] = pc[q]
    BY <1>1, FailType DEF Refuse
  <2> QED BY <2>1, <1>1 DEF Refuse, TypeOK, Working, ghosts
<1>2. CASE Begin(r)
  <2>1. PICK t \in Stamp : stamp' = [stamp EXCEPT ![r] = t]
    BY <1>2 DEF Begin
  <2>2. stamp' \in [Run -> 0..MaxStamp] /\ t \in 0..MaxStamp
    BY <2>1, PartAssumption DEF TypeOK, Stamp
  <2>3. pc' = [pc EXCEPT ![r] = "look"] /\ "look" \in Place
    BY <1>2 DEF Begin, Goto, Place, Working
  <2>4. pc' \in [Run -> Place]
    BY <2>3 DEF TypeOK
  <2>5. \A q \in Run : pc'[q] \in Working => stamp'[q] \in Stamp
    BY <2>1, <2>3 DEF TypeOK
  <2>6. found' \in [Run -> [Part -> Tree]] /\ met' \subseteq Run
    BY <1>2 DEF Begin, TypeOK, Active
  <2>7. UNCHANGED <<live, backup, pos, depth, had>>
    BY <1>2 DEF Begin
  <2> QED BY <2>2, <2>4, <2>5, <2>6, <2>7 DEF TypeOK
<1>3. CASE Look(r)
  <2>1. UNCHANGED <<live, backup, stamp, depth, ghosts>> /\ pc[r] \in Working
    BY <1>3 DEF Look, Working
  <2>2. pc' \in [Run -> Place] /\ pos' \in [Run -> Part]
        /\ \A q \in Run \ {r} : pc'[q] = pc[q]
    <3>1. CASE live[pos[r]] # <<>>
      BY <3>1, <1>3, GotoType DEF Look, Place, Working, TypeOK
    <3>2. CASE live[pos[r]] = <<>>
      BY <3>2, <1>3, NextPartType DEF Look, Place, Working
    <3> QED BY <3>1, <3>2
  <2> QED BY <2>1, <2>2, PlacesType DEF TypeOK
<1>4. CASE Move(r)
  <2>1. UNCHANGED <<stamp, depth, ghosts>> /\ pc[r] \in Working
        /\ stamp[r] \in Stamp /\ pos[r] \in Part
    BY <1>4 DEF Move, Working, TypeOK
  <2>2. pc' \in [Run -> Place] /\ pos' \in [Run -> Part]
        /\ \A q \in Run \ {r} : pc'[q] = pc[q]
    BY <1>4, NextPartType DEF Move, Place, Working
  <2>3. backup[stamp[r]][pos[r]] \o live[pos[r]] \in Tree
    BY <2>1, TreeFacts DEF TypeOK
  <2>4. backup' \in [Stamp -> [Part -> Tree]]
    BY <1>4, <2>1, <2>3 DEF Move, TypeOK
  <2>5. live' \in [Part -> Tree]
    BY <1>4, <2>1, TreeFacts DEF Move, TypeOK
  <2> QED BY <2>1, <2>2, <2>4, <2>5, PlacesType DEF TypeOK
<1>5. CASE MoveFails(r) \/ MkdirFails(r)
  <2>1. UNCHANGED <<live, backup, stamp, depth, ghosts>>
    BY <1>5 DEF MoveFails, MkdirFails
  <2>2. pc' \in [Run -> Place] /\ pos' \in [Run -> Part] /\ pc'[r] = "failed"
        /\ \A q \in Run \ {r} : pc'[q] = pc[q]
    BY <1>5, FailType DEF MoveFails, MkdirFails
  <2> QED BY <2>1, <2>2, PlacesType DEF TypeOK, Working
<1>6. CASE CopyBegins(r)
  <2>1. UNCHANGED <<backup, pos, stamp, ghosts>> /\ pc[r] \in Working
        /\ pos[r] \in Part /\ live[pos[r]] \in Tree /\ Source(r) # <<>>
    BY <1>6 DEF CopyBegins, Working, TypeOK
  <2>2. Source(r)[1].version \in Run \cup {Old, Mixed}
    BY <2>1, SourceTree
  <2>3. /\ Land(live[pos[r]], Source(r)[1].version) \in Tree
        /\ Target(live[pos[r]]) \in {1, 2}
    BY <2>1, <2>2, LandTree
  <2>4. live' \in [Part -> Tree] /\ depth' \in [Run -> {1, 2}]
    BY <1>6, <2>1, <2>3 DEF CopyBegins, TypeOK
  <2>5. pc' \in [Run -> Place] /\ \A q \in Run \ {r} : pc'[q] = pc[q]
    BY <1>6, GotoType DEF CopyBegins, Place, Working
  <2> QED BY <2>1, <2>4, <2>5, PlacesType DEF TypeOK
<1>7. CASE CopyEnds(r)
  <2>1. UNCHANGED <<backup, stamp, ghosts>> /\ pc[r] \in Working
        /\ pos[r] \in Part /\ live[pos[r]] \in Tree /\ depth[r] \in {1, 2}
    BY <1>7 DEF CopyEnds, Working, TypeOK
  <2>2. live' \in [Part -> Tree]
    <3>1. CASE /\ Undisturbed(r)
               /\ live' = [live EXCEPT ![pos[r]] =
                              Completed(live[pos[r]], depth[r], Source(r))]
      <4>1. Completed(live[pos[r]], depth[r], Source(r)) \in Tree
        BY <2>1, <3>1, SourceTree, CompletedTree DEF Undisturbed
      <4> QED BY <3>1, <4>1 DEF TypeOK
    <3>2. CASE live' = Spoilt(r)
      BY <3>2, SpoiltType
    <3> QED BY <1>7, <3>1, <3>2 DEF CopyEnds
  <2>3. pc' \in [Run -> Place] /\ pos' \in [Run -> Part]
        /\ \A q \in Run \ {r} : pc'[q] = pc[q]
    <3>1. CASE pc[r] = "copying"
      BY <3>1, <1>7, NextPartType DEF CopyEnds, Place, Working
    <3>2. CASE pc[r] # "copying"
      BY <3>2, <1>7, NextPartType DEF CopyEnds, Place, Working
    <3> QED BY <3>1, <3>2
  <2>4. depth' \in [Run -> {1, 2}]
    BY <1>7 DEF CopyEnds, TypeOK
  <2> QED BY <2>1, <2>2, <2>3, <2>4, PlacesType DEF TypeOK
<1>8. CASE CopyFails(r)
  <2>1. UNCHANGED <<backup, stamp, ghosts>> /\ pc[r] \in Working
    BY <1>8 DEF CopyFails, Working
  <2>2. live' \in [Part -> Tree]
    BY <1>8, SpoiltType DEF CopyFails, TypeOK
  <2>3. pc' \in [Run -> Place] /\ pos' \in [Run -> Part]
        /\ \A q \in Run \ {r} : pc'[q] = pc[q]
    <3>1. CASE pc[r] = "copying"
      BY <3>1, <1>8, GotoType, PartFacts DEF CopyFails, Place, Working, TypeOK
    <3>2. CASE pc[r] # "copying"
      BY <3>2, <1>8, FailType DEF CopyFails
    <3> QED BY <3>1, <3>2
  <2>4. depth' \in [Run -> {1, 2}]
    BY <1>8 DEF CopyFails, TypeOK
  <2> QED BY <2>1, <2>2, <2>3, <2>4, PlacesType DEF TypeOK
<1>9. CASE Remove(r)
  <2>1. UNCHANGED <<backup, stamp, depth, ghosts>> /\ pc[r] \in Working
        /\ pos[r] \in Part
    BY <1>9 DEF Remove, Working, TypeOK
  <2>2. live' \in [Part -> Tree]
    BY <1>9, TreeFacts DEF Remove, TypeOK
  <2>3. pc' \in [Run -> Place] /\ pos' \in [Run -> Part]
        /\ \A q \in Run \ {r} : pc'[q] = pc[q]
    <3>1. CASE backup[stamp[r]][pos[r]] = <<>>
      BY <3>1, <1>9, NextPartType DEF Remove, Place, Working
    <3>2. CASE backup[stamp[r]][pos[r]] # <<>>
      BY <3>2, <1>9, GotoType DEF Remove, Place, Working, TypeOK
    <3> QED BY <3>1, <3>2
  <2> QED BY <2>1, <2>2, <2>3, PlacesType DEF TypeOK
<1>10. CASE RemoveFails(r)
  <2>1. UNCHANGED <<backup, stamp, depth, ghosts>> /\ pos[r] \in Part
        /\ live[pos[r]] \in Tree /\ live[pos[r]] # <<>>
    BY <1>10 DEF RemoveFails, TypeOK
  <2>2. live[pos[r]][1].version \in Run \cup {Old, Mixed}
    BY <2>1, TreeFacts DEF Layer
  <2>3. live' \in [Part -> Tree]
    BY <1>10, <2>1, <2>2, TreeFacts DEF RemoveFails, TypeOK
  <2>4. pc' \in [Run -> Place] /\ pos' \in [Run -> Part] /\ pc'[r] = "failed"
        /\ \A q \in Run \ {r} : pc'[q] = pc[q]
    BY <1>10, FailType DEF RemoveFails
  <2> QED BY <2>1, <2>3, <2>4, PlacesType DEF TypeOK, Working
<1>11. CASE Killed(r)
  <2>1. pc' \in [Run -> Place] /\ pos' \in [Run -> Part] /\ pc'[r] = "failed"
        /\ \A q \in Run \ {r} : pc'[q] = pc[q]
    BY <1>11, FailType DEF Killed
  <2>2. UNCHANGED <<live, backup, stamp, ghosts>> /\ depth' \in [Run -> {1, 2}]
    BY <1>11 DEF Killed, TypeOK
  <2> QED BY <2>1, <2>2, PlacesType DEF TypeOK, Working
<1> QED
  BY <1>1, <1>2, <1>3, <1>4, <1>5, <1>6, <1>7, <1>8, <1>9, <1>10, <1>11
  DEF RunStep

LEMMA InitType == Init => TypeOK
<1> SUFFICES ASSUME Init PROVE TypeOK
  OBVIOUS
<1>1. Nothing \in [Part -> Tree] /\ <<Whole(Old)>> \in Tree
  BY TreeFacts DEF Nothing
<1>2. live \in [Part -> Tree]
  BY <1>1, TreeFacts DEF Init
<1>3. pc \in [Run -> Place] /\ pos \in [Run -> Part]
      /\ \A r \in Run : pc[r] \notin Working
  BY PartFacts DEF Init, Place, Working
<1>4. stamp \in [Run -> 0..MaxStamp]
  BY PartAssumption DEF Init
<1> QED BY <1>1, <1>2, <1>3, <1>4 DEF Init, TypeOK

\* Every variable keeps its type.
THEOREM TypeCorrect == Spec => []TypeOK
<1>1. TypeOK /\ [Next]_vars => TypeOK'
  <2> SUFFICES ASSUME TypeOK, [Next]_vars PROVE TypeOK'
    OBVIOUS
  <2>1. CASE Next
    BY <2>1, StepType DEF Next
  <2>2. CASE UNCHANGED vars
    BY <2>2 DEF vars, TypeOK
  <2> QED BY <2>1, <2>2
<1> QED BY InitType, <1>1, PTL DEF Spec

----------------------------------------------------------------------------
(* The version before the first run *)

\* Whole layers stay when a tree is put into another one.
LEMMA OldInJoin ==
    ASSUME NEW s \in Tree, NEW t \in Tree
    PROVE  OldIn(s \o t) <=> OldIn(s) \/ OldIn(t)
<1>1. /\ Len(s) \in Nat /\ Len(t) \in Nat
      /\ DOMAIN s = 1..Len(s) /\ DOMAIN t = 1..Len(t)
      /\ DOMAIN (s \o t) = 1..(Len(s) + Len(t))
      /\ \A i \in 1..Len(s) : (s \o t)[i] = s[i]
      /\ \A i \in 1..Len(t) : (s \o t)[i + Len(s)] = t[i]
      /\ \A i \in 1..(Len(s) + Len(t)) :
            i \in 1..Len(s) \/ (i - Len(s) \in 1..Len(t) /\ i = (i - Len(s)) + Len(s))
  BY DEF Tree
<1>2. \A i \in 1..Len(t) : i + Len(s) \in 1..(Len(s) + Len(t))
  BY <1>1
<1>3. OldIn(s) => OldIn(s \o t)
  BY <1>1 DEF OldIn
<1>4. OldIn(t) => OldIn(s \o t)
  BY <1>1, <1>2 DEF OldIn
<1>5. OldIn(s \o t) => OldIn(s) \/ OldIn(t)
  <2> SUFFICES ASSUME NEW i \in 1..(Len(s) + Len(t)), (s \o t)[i] = Whole(Old)
               PROVE  OldIn(s) \/ OldIn(t)
    BY <1>1 DEF OldIn
  <2>1. CASE i \in 1..Len(s)
    BY <1>1, <2>1 DEF OldIn
  <2>2. CASE i - Len(s) \in 1..Len(t)
    BY <1>1, <2>2 DEF OldIn
  <2> QED BY <1>1, <2>1, <2>2
<1> QED BY <1>3, <1>4, <1>5

\* Only the backup loop changes a backup, and it only adds to it.
LEMMA BackupsGrow ==
    ASSUME TypeOK, NEW r \in Run, RunStep(r), NEW p \in Part, OldBackedUp(p)
    PROVE  OldBackedUp(p)'
<1>1. CASE Move(r)
  <2>1. stamp[r] \in Stamp /\ pos[r] \in Part
    BY <1>1 DEF Move, Working, TypeOK
  <2>2. PICK t \in Stamp : OldIn(backup[t][p])
    BY DEF OldBackedUp
  <2>3. backup'[t][p] = backup[t][p]
        \/ /\ t = stamp[r] /\ p = pos[r]
           /\ backup'[t][p] = backup[t][p] \o live[p]
    BY <1>1, <2>1 DEF Move, TypeOK
  <2>4. backup[t][p] \in Tree /\ live[p] \in Tree
    BY DEF TypeOK
  <2>5. OldIn(backup[t][p] \o live[p])
    BY <2>2, <2>4, OldInJoin
  <2>6. OldIn(backup'[t][p])
    BY <2>2, <2>3, <2>5
  <2> QED BY <2>6 DEF OldBackedUp
<1>2. CASE ~Move(r)
  <2>1. backup' = backup
    BY <1>2 DEF RunStep, Refuse, Begin, Look, MoveFails, MkdirFails, CopyBegins,
       CopyEnds, CopyFails, Remove, RemoveFails, Killed
  <2> QED BY <2>1 DEF OldBackedUp
<1> QED BY <1>1, <1>2

\* A run does not touch a part before it is past the backup of it.
LEMMA LiveTouched ==
    ASSUME TypeOK, NEW r \in Run, RunStep(r), ~Move(r), NEW p \in Part
    PROVE  live'[p] = live[p] \/ pc[r] \in PastBackup
BY DEF RunStep, Refuse, Begin, Look, MoveFails, MkdirFails, CopyBegins, CopyEnds,
   CopyFails, Remove, RemoveFails, Killed, PastBackup, Working, BackingUp

\* A step of one run leaves the places of the others.
LEMMA OtherPlaces ==
    ASSUME TypeOK, NEW r \in Run, RunStep(r), NEW q \in Run \ {r}
    PROVE  pc'[q] = pc[q] /\ pos'[q] = pos[q]
BY DEF RunStep, Refuse, Begin, Look, Move, MoveFails, MkdirFails, CopyBegins,
   CopyEnds, CopyFails, Remove, RemoveFails, Killed, Fail, Goto, NextPart, TypeOK

\* The parts a run is past the backup of: those it was past of before, and the
\* one it has just moved or found missing.
LEMMA OwnProgress ==
    ASSUME TypeOK, ReadyAtFirst, NEW r \in Run, RunStep(r), NEW p \in Part,
           \/ pc'[r] \in BackingUp /\ p < pos'[r]
           \/ pc'[r] \in PastBackup
    PROVE  \/ pc[r] \in BackingUp /\ p < pos[r]
           \/ pc[r] \in PastBackup
           \/ p = pos[r] /\ (Move(r) \/ live[p] = <<>>)
<1> USE DEF BackingUp, PastBackup, Working
<1>1. pos[r] \in Part /\ pos[r] =< NumParts /\ p =< NumParts /\ p >= 1
      /\ pos[r] \in Nat /\ NumParts \in Nat /\ p \in Nat
  BY PartAssumption DEF TypeOK, Part
<1>2. CASE pc[r] \in PastBackup
  BY <1>2
<1>3. CASE Refuse(r) \/ MoveFails(r) \/ MkdirFails(r) \/ Killed(r)
  BY <1>3 DEF Refuse, MoveFails, MkdirFails, Killed, Fail, Goto, TypeOK
<1>4. CASE Begin(r)
  <2>1. pc'[r] = "look" /\ pos'[r] = pos[r]
    BY <1>4 DEF Begin, Goto, TypeOK
  <2>2. pos[r] = 1
    BY <1>4 DEF Begin, ReadyAtFirst
  <2> QED BY <2>1, <2>2, <1>1
<1>5. CASE Look(r) \/ Move(r)
  <2>1. CASE Look(r) /\ live[pos[r]] # <<>>
    BY <2>1 DEF Look, Goto, TypeOK
  <2>2. CASE NextPart(r, "look", "install") /\ (Move(r) \/ live[pos[r]] = <<>>)
    <3>1. CASE pos[r] < NumParts
      BY <1>1, <1>5, <2>2, <3>1 DEF NextPart, Goto, TypeOK, Look, Move
    <3>2. CASE ~(pos[r] < NumParts)
      BY <1>1, <1>5, <2>2, <3>2 DEF Look, Move
    <3> QED BY <3>1, <3>2
  <2> QED BY <1>5, <2>1, <2>2 DEF Look, Move
<1> QED
  BY <1>2, <1>3, <1>4, <1>5
  DEF RunStep, CopyBegins, CopyEnds, CopyFails, Remove, RemoveFails

LEMMA ReadyStep ==
    ASSUME TypeOK, ReadyAtFirst, NEW r \in Run, RunStep(r)
    PROVE  ReadyAtFirst'
<1>1. pc'[r] # "ready"
  BY DEF RunStep, Refuse, Begin, Look, Move, MoveFails, MkdirFails, CopyBegins,
     CopyEnds, CopyFails, Remove, RemoveFails, Killed, Fail, Goto, NextPart, TypeOK
<1> QED BY <1>1, OtherPlaces DEF ReadyAtFirst

\* A step keeps the old version of every part in the application or a backup,
\* and what is past the backup loop in a backup.
LEMMA StepKeeps ==
    ASSUME IInv, NEW r \in Run, RunStep(r)
    PROVE  OldVersionKept' /\ PastBackedUp'
<1>1. TypeOK /\ OldVersionKept /\ PastBackedUp /\ ReadyAtFirst
  BY DEF IInv
<1>2. had' = had /\ had \subseteq Part
  BY <1>1 DEF RunStep, Refuse, Begin, Look, Move, MoveFails, MkdirFails,
     CopyBegins, CopyEnds, CopyFails, Remove, RemoveFails, Killed, ghosts, TypeOK
<1>3. \A p \in had : p = pos[r] /\ Move(r) => OldBackedUp(p)'
  <2> SUFFICES ASSUME NEW p \in had, p = pos[r], Move(r) PROVE OldBackedUp(p)'
    OBVIOUS
  <2>1. stamp[r] \in Stamp /\ p \in Part
    BY <1>1, <1>2 DEF Move, Working, TypeOK
  <2>2. backup[stamp[r]][p] \in Tree /\ live[p] \in Tree
    BY <1>1, <2>1 DEF TypeOK
  <2>3. CASE OldIn(live[p])
    <3>1. backup'[stamp[r]][p] = backup[stamp[r]][p] \o live[p]
      BY <1>1, <2>1 DEF Move, TypeOK
    <3>2. OldIn(backup'[stamp[r]][p])
      BY <2>2, <2>3, <3>1, OldInJoin
    <3> QED BY <2>1, <3>2 DEF OldBackedUp
  <2>4. CASE OldBackedUp(p)
    BY <1>1, <2>1, <2>4, BackupsGrow
  <2> QED BY <1>1, <2>3, <2>4 DEF OldVersionKept
<1>4. PastBackedUp'
  <2> SUFFICES ASSUME NEW q \in Run, NEW p \in had,
                      \/ pc'[q] \in BackingUp /\ p < pos'[q]
                      \/ pc'[q] \in PastBackup
               PROVE  OldBackedUp(p)'
    BY <1>2 DEF PastBackedUp
  <2>1. CASE q # r
    <3>1. OldBackedUp(p)
      BY <1>1, <2>1, OtherPlaces DEF PastBackedUp
    <3> QED BY <1>1, <1>2, <3>1, BackupsGrow
  <2>2. CASE q = r
    <3>1. \/ pc[r] \in BackingUp /\ p < pos[r]
          \/ pc[r] \in PastBackup
          \/ p = pos[r] /\ (Move(r) \/ live[p] = <<>>)
      BY <1>1, <1>2, <2>2, OwnProgress
    <3>2. CASE \/ pc[r] \in BackingUp /\ p < pos[r]
               \/ pc[r] \in PastBackup
      <4>1. OldBackedUp(p)
        BY <1>1, <3>2 DEF PastBackedUp
      <4> QED BY <1>1, <1>2, <4>1, BackupsGrow
    <3>3. CASE live[p] = <<>>
      <4>1. OldBackedUp(p)
        BY <1>1, <3>3 DEF OldVersionKept, OldIn
      <4> QED BY <1>1, <1>2, <4>1, BackupsGrow
    <3> QED BY <1>3, <3>1, <3>2, <3>3
  <2> QED BY <2>1, <2>2
<1>5. OldVersionKept'
  <2> SUFFICES ASSUME NEW p \in had PROVE OldIn(live'[p]) \/ OldBackedUp(p)'
    BY <1>2 DEF OldVersionKept
  <2>1. CASE OldBackedUp(p)
    BY <1>1, <1>2, <2>1, BackupsGrow
  <2>2. CASE OldIn(live[p]) /\ ~OldBackedUp(p)
    <3>1. pc[r] \notin PastBackup
      BY <1>1, <2>2 DEF PastBackedUp
    <3>2. CASE ~Move(r)
      BY <1>1, <1>2, <2>2, <3>1, <3>2, LiveTouched
    <3>3. CASE Move(r) /\ p # pos[r]
      BY <2>2, <3>3 DEF Move
    <3> QED BY <1>3, <3>2, <3>3
  <2> QED BY <1>1, <2>1, <2>2 DEF OldVersionKept
<1> QED BY <1>4, <1>5

\* Whatever fails, is killed or overlaps, each directory's version from before
\* the first run is whole in the application or in a backup.
THEOREM NothingLost == Spec => []OldVersionKept
<1>1. Init => IInv
  <2> SUFFICES ASSUME Init PROVE IInv
    OBVIOUS
  <2>1. TypeOK
    BY InitType
  <2>2. OldVersionKept
    <3> SUFFICES ASSUME NEW p \in had PROVE OldIn(live[p])
      BY DEF OldVersionKept
    <3>1. live[p] = <<Whole(Old)>>
      BY <2>1 DEF Init, TypeOK
    <3> QED BY <3>1 DEF OldIn
  <2>3. PastBackedUp /\ ReadyAtFirst
    BY DEF Init, PastBackedUp, ReadyAtFirst, BackingUp, PastBackup, Working
  <2> QED BY <2>1, <2>2, <2>3 DEF IInv
<1>2. IInv /\ [Next]_vars => IInv'
  <2> SUFFICES ASSUME IInv, [Next]_vars PROVE IInv'
    OBVIOUS
  <2>1. CASE Next
    BY <2>1, StepType, ReadyStep, StepKeeps DEF Next, IInv
  <2>2. CASE UNCHANGED vars
    BY <2>2 DEF vars, IInv, TypeOK, OldVersionKept, PastBackedUp, ReadyAtFirst,
       OldBackedUp
  <2> QED BY <2>1, <2>2
<1>3. IInv => OldVersionKept
  BY DEF IInv
<1> QED BY <1>1, <1>2, <1>3, PTL DEF Spec
----------------------------------------------------------------------------
(* A run that met no other *)

\* It has a second of its own, and runs active beside it began later, when it
\* had ended.
Apart(r) ==
    /\ \A q \in Begun \ {r} : stamp[q] # stamp[r]
    /\ \A q \in Active \ {r} : stamp[r] < stamp[q]

\* While its backups are made: before its place they are the application as
\* it was found, from its place on nothing has been moved.
BackingUpAt(r) ==
    pc[r] \in BackingUp =>
        \A p \in Part :
            IF p < pos[r]
            THEN live[p] = <<>> /\ backup[stamp[r]][p] = found[r][p]
            ELSE live[p] = found[r][p] /\ backup[stamp[r]][p] = <<>>

Saved(r) == pc[r] \in PastBackup => backup[stamp[r]] = found[r]

\* While it installs: new before its place, empty from its place on.
InstallingAt(r) ==
    pc[r] \in {"install", "copying"} =>
        \A p \in Part :
            live[p] = IF p < pos[r] THEN <<Whole(r)>>
                      ELSE IF p = pos[r] /\ pc[r] = "copying" THEN <<Partial(r)>>
                      ELSE <<>>

\* While it rolls back: as found before its place, whatever from there on.
RestoringAt(r) ==
    LET was == found[r][pos[r]] IN
    /\ pc[r] \in {"rollback", "restore", "restoring"} =>
          \A p \in Part : p < pos[r] /\ found[r][p] # <<>> => live[p] = found[r][p]
    /\ pc[r] \in {"restore", "restoring"} => was # <<>>
    /\ pc[r] = "restore" => live[pos[r]] = <<>>
    /\ pc[r] = "restoring" => live[pos[r]] = <<Partial(was[1].version)>>

EndedAt(r) ==
    /\ pc[r] = "done" => \A p \in Part : live[p] = <<Whole(r)>>
    /\ pc[r] = "rolledback" =>
          \A p \in Part : found[r][p] # <<>> => live[p] = found[r][p]

Course(r) ==
    /\ BackingUpAt(r) /\ Saved(r) /\ InstallingAt(r) /\ RestoringAt(r) /\ EndedAt(r)
    /\ pc[r] \in {"copying", "restoring"} => depth[r] = 1

SoloAt(r) == r \in Begun => Apart(r) /\ (Latest(r) => Course(r))

\* A second in which no run began has no backup; a run that has not begun can
\* only fail; loops are entered at the first part.
FreshSeconds == \A t \in Stamp : (\A q \in Begun : stamp[q] # t) => backup[t] = Nothing
Unbegun ==
    \A r \in Run :
        /\ stamp[r] = 0 => pc[r] \in {"ready", "failed"}
        /\ pc[r] = "ready" => stamp[r] = 0

SInv ==
    /\ TypeOK /\ ReadyAtFirst /\ FreshSeconds /\ Unbegun
    /\ \A r \in Run \ met : SoloAt(r)

\* A copy that nobody disturbed leaves its source.
LEMMA CompletedAlone ==
    ASSUME NEW x, NEW src \in Tree, src # <<>>
    PROVE  Completed(<<x>>, 1, src) = src
<1>1. SubSeq(<<x>>, 1, 0) = <<>> /\ Len(<<x>>) = 1
  OBVIOUS
<1>2. <<src[1]>> \o Tail(src) = src
  BY DEF Tree
<1>3. Completed(<<x>>, 1, src) = <<>> \o <<src[1]>> \o Tail(src)
  BY <1>1 DEF Completed
<1>4. <<src[1]>> \in Tree /\ Tail(src) \in Tree
  BY TreeFacts
<1> QED BY <1>2, <1>3, <1>4 DEF Tree

LEMMA NextPartMoves ==
    ASSUME TypeOK, NEW r \in Run, NEW again, NEW after, NextPart(r, again, after)
    PROVE  \/ pc'[r] = again /\ pos'[r] = pos[r] + 1 /\ pos[r] < NumParts
           \/ pc'[r] = after /\ pos'[r] = 1 /\ pos[r] = NumParts
<1>1. pos[r] \in Nat /\ pos[r] =< NumParts /\ NumParts \in Nat
  BY PartAssumption DEF TypeOK, Part
<1>2. pc \in [Run -> Place] /\ pos \in [Run -> Part]
  BY DEF TypeOK
<1>3. CASE pos[r] < NumParts
  <2>1. pc' = [pc EXCEPT ![r] = again] /\ pos' = [pos EXCEPT ![r] = pos[r] + 1]
    BY <1>3 DEF NextPart, Goto
  <2> QED BY <1>2, <1>3, <2>1
<1>4. CASE ~(pos[r] < NumParts)
  <2>1. pc' = [pc EXCEPT ![r] = after] /\ pos' = [pos EXCEPT ![r] = 1]
    BY <1>4 DEF NextPart, Goto
  <2> QED BY <1>1, <1>2, <1>4, <2>1
<1> QED BY <1>3, <1>4

\* Nobody is active beside the run that began last, unless they met.
LEMMA AloneNow ==
    ASSUME TypeOK, NEW r \in Run, r \in Begun, Apart(r), Latest(r)
    PROVE  Active \subseteq {r}
<1> SUFFICES ASSUME NEW q \in Active, q # r PROVE FALSE
  OBVIOUS
<1>1. q \in Run /\ stamp[q] \in Stamp /\ stamp[r] \in 0..MaxStamp
  BY DEF Active, TypeOK
<1>2. stamp[q] # 0
  BY <1>1 DEF Stamp
<1>3. stamp[q] =< stamp[r] /\ stamp[r] < stamp[q]
  BY <1>1, <1>2 DEF Latest, Begun, Apart
<1> QED BY <1>1, <1>3, PartAssumption DEF Stamp

----------------------------------------------------------------------------
(* Its steps *)

Before(r) ==
    /\ TypeOK /\ Course(r)
    /\ pos[r] \in Part /\ NumParts \in Nat /\ Part \subseteq Nat
    /\ \A p \in Part : p =< NumParts
    /\ \A p \in Part : live[p] \in Tree /\ found[r][p] \in Tree

LEMMA BackupSteps ==
    ASSUME NEW r \in Run, Before(r), Look(r) \/ Move(r), stamp[r] \in Stamp
    PROVE  Course(r)'
<1> DEFINE b == backup[stamp[r]]
           q == pos[r]
<1>1. /\ UNCHANGED <<stamp, found>> /\ pc[r] \in BackingUp /\ TypeOK /\ q \in Part
  BY DEF Before, Look, Move, ghosts, BackingUp
<1>2. \A p \in Part : IF p < q THEN live[p] = <<>> /\ b[p] = found[r][p]
                       ELSE live[p] = found[r][p] /\ b[p] = <<>>
  BY <1>1 DEF Before, Course, BackingUpAt
<1>3. CASE Look(r) /\ live[q] # <<>>
  <2>1. pc'[r] = "move" /\ UNCHANGED <<live, backup, pos>>
    BY <1>1, <1>3 DEF Look, Goto, TypeOK
  <2> QED
    BY <1>1, <1>2, <2>1
       DEF Course, BackingUpAt, Saved, InstallingAt, RestoringAt, EndedAt, BackingUp, PastBackup, Working
<1>4. CASE NextPart(r, "look", "install") /\ ~(Look(r) /\ live[q] # <<>>)
  <2> DEFINE b2 == backup'[stamp[r]]
  <2>1. /\ live'[q] = <<>> /\ b2[q] = found[r][q]
        /\ \A p \in Part \ {q} : live'[p] = live[p] /\ b2[p] = b[p]
    <3>1. CASE Look(r)
      BY <1>1, <1>2, <1>4, <3>1 DEF Look, Before
    <3>2. CASE Move(r)
      <4>1. /\ backup' = [backup EXCEPT ![stamp[r]][q] = @ \o live[q]]
            /\ live' = [live EXCEPT ![q] = <<>>]
        BY <3>2 DEF Move
      <4>2. b2[q] = b[q] \o live[q] /\ live'[q] = <<>>
            /\ \A p \in Part \ {q} : live'[p] = live[p] /\ b2[p] = b[p]
        BY <1>1, <4>1 DEF TypeOK
      <4>3. b[q] = <<>> /\ live[q] = found[r][q] /\ live[q] \in Tree
        BY <1>1, <1>2 DEF Before, Part
      <4>4. <<>> \o live[q] = live[q]
        BY <4>3 DEF Tree
      <4> QED BY <4>2, <4>3, <4>4
    <3> QED BY <3>1, <3>2
  <2>2. \A p \in Part : IF p =< q THEN live'[p] = <<>> /\ b2[p] = found[r][p]
                         ELSE live'[p] = found[r][p] /\ b2[p] = <<>>
    <3> SUFFICES ASSUME NEW p \in Part
                 PROVE  IF p =< q THEN live'[p] = <<>> /\ b2[p] = found[r][p]
                        ELSE live'[p] = found[r][p] /\ b2[p] = <<>>
      OBVIOUS
    <3>1. p \in Nat /\ q \in Nat
      BY <1>1 DEF Before
    <3> HIDE DEF b, b2, q
    <3>2. CASE p = q
      BY <2>1, <3>1, <3>2
    <3>3. CASE p # q
      BY <1>2, <2>1, <3>1, <3>3
    <3> QED BY <3>2, <3>3
  <2>3. CASE pc'[r] = "look" /\ pos'[r] = q + 1
    <3>1. BackingUpAt(r)'
      <4>1. \A p \in Part : p \in Nat /\ q \in Nat
        BY <1>1 DEF Before
      <4>2. \A p \in Part : p < q + 1 <=> p =< q
        BY <4>1
      <4>3. b2 = backup'[stamp'[r]] /\ found' = found /\ pos'[r] = q + 1
        BY <1>1, <2>3
      <4> HIDE DEF b2, q
      <4> QED BY <2>2, <4>2, <4>3 DEF BackingUpAt
    <3> QED
      BY <2>3, <3>1
         DEF Course, Saved, InstallingAt, RestoringAt, EndedAt, BackingUp, PastBackup, Working
  <2>4. CASE pc'[r] = "install" /\ pos'[r] = 1 /\ q = NumParts
    <3>1. \A p \in Part : live'[p] = <<>> /\ b2[p] = found[r][p] /\ ~(p < 1)
      BY <2>2, <2>4 DEF Before, Part
    <3>2. backup' \in [Stamp -> [Part -> Tree]]
      BY StepType, <1>1 DEF RunStep, TypeOK
    <3>3. b2 \in [Part -> Tree] /\ found[r] \in [Part -> Tree]
      BY <1>1, <3>2 DEF TypeOK
    <3>4. b2 = found[r]
      BY <3>1, <3>3
    <3> HIDE DEF b2
    <3>5. Saved(r)'
      BY <1>1, <3>4 DEF Saved, b2
    <3>6. InstallingAt(r)'
      BY <2>4, <3>1 DEF InstallingAt
    <3> QED
      BY <2>4, <3>5, <3>6
         DEF Course, BackingUpAt, RestoringAt, EndedAt, BackingUp
  <2> QED BY <1>1, <1>4, <2>3, <2>4, NextPartMoves
<1> QED BY <1>3, <1>4 DEF Look, Move
\* Where a copy writes to nothing or ends undisturbed.
LEMMA CopyFacts ==
    ASSUME NEW r \in Run, Before(r), CopyBegins(r) \/ CopyEnds(r) \/ CopyFails(r)
    PROVE  /\ UNCHANGED <<stamp, found, backup>> /\ pos[r] \in Part
           /\ pc[r] \in {"install", "copying", "restore", "restoring"}
           /\ pc[r] \in {"install", "copying"} => Source(r) = <<Whole(r)>>
           /\ pc[r] \in {"restore", "restoring"} => Source(r) = found[r][pos[r]]
           /\ Source(r) \in Tree
           /\ CopyBegins(r) =>
                /\ pc'[r] = IF pc[r] = "install" THEN "copying" ELSE "restoring"
                /\ pos' = pos /\ depth'[r] = 1 /\ Source(r) # <<>>
                /\ live' = [live EXCEPT ![pos[r]] = <<Partial(Source(r)[1].version)>>]
           /\ CopyEnds(r) =>
                /\ Source(r) # <<>>
                /\ live' = [live EXCEPT ![pos[r]] = Source(r)]
           /\ CopyFails(r) => live' = live
<1> DEFINE q == pos[r]
<1>1. /\ UNCHANGED <<stamp, found, backup>> /\ TypeOK /\ q \in Part
      /\ pc[r] \in {"install", "copying", "restore", "restoring"}
      /\ backup[stamp[r]] = found[r] /\ found[r][q] \in Tree
  BY DEF Before, CopyBegins, CopyEnds, CopyFails, ghosts, Course, Saved, PastBackup,
     Working, BackingUp
<1>2. /\ pc[r] \in {"install", "copying"} => Source(r) = <<Whole(r)>>
      /\ pc[r] \in {"restore", "restoring"} => Source(r) = found[r][q]
      /\ Source(r) \in Tree
  BY <1>1, TreeFacts DEF Source
<1>3. pc[r] \in {"install", "restore"} => live[q] = <<>>
  <2>1. q \in Nat /\ ~(q < q)
    <3>1. q \in Nat
      BY <1>1, PartFacts
    <3> QED BY <3>1
  <2>2. CASE pc[r] = "install"
    BY <1>1, <2>1, <2>2 DEF Before, Course, InstallingAt
  <2>3. CASE pc[r] = "restore"
    BY <1>1, <2>3 DEF Before, Course, RestoringAt
  <2> QED BY <2>2, <2>3
<1>4. pc[r] \in {"copying", "restoring"} =>
        /\ depth[r] = 1 /\ Source(r) # <<>>
        /\ live[q] = <<Partial(Source(r)[1].version)>>
  <2>1. q \in Nat /\ ~(q < q)
    <3>1. q \in Nat
      BY <1>1, PartFacts
    <3> QED BY <3>1
  <2>2. CASE pc[r] = "copying"
    <3>1. depth[r] = 1 /\ live[q] = <<Partial(r)>> /\ Source(r) = <<Whole(r)>>
      BY <1>1, <1>2, <2>1, <2>2 DEF Before, Course, InstallingAt
    <3>2. <<Whole(r)>>[1].version = r /\ <<Whole(r)>> # <<>>
      BY DEF Whole
    <3> QED BY <3>1, <3>2
  <2>3. CASE pc[r] = "restoring"
    BY <1>1, <1>2, <2>3 DEF Before, Course, RestoringAt
  <2> QED BY <2>2, <2>3
<1>5. ASSUME CopyBegins(r)
      PROVE  /\ pc'[r] = IF pc[r] = "install" THEN "copying" ELSE "restoring"
             /\ pos' = pos /\ depth'[r] = 1 /\ Source(r) # <<>>
             /\ live' = [live EXCEPT ![q] = <<Partial(Source(r)[1].version)>>]
  <2>1. live[q] = <<>> /\ Source(r) # <<>>
    BY <1>3, <1>5 DEF CopyBegins
  <2>2. Land(<<>>, Source(r)[1].version) = <<Partial(Source(r)[1].version)>>
        /\ Target(<<>>) = 1
    BY DEF Land, Target
  <2> QED BY <1>1, <1>5, <2>1, <2>2 DEF CopyBegins, Goto, TypeOK
<1>6. ASSUME CopyEnds(r) \/ CopyFails(r)
      PROVE  Undisturbed(r) /\ pc[r] \in {"copying", "restoring"}
  <2>1. pc[r] \in {"copying", "restoring"}
    BY <1>6 DEF CopyEnds, CopyFails
  <2>2. Len(live[q]) = 1 /\ live[q][1] = Partial(Source(r)[1].version)
    <3> DEFINE x == Partial(Source(r)[1].version)
    <3>1. live[q] = <<x>>
      BY <1>4, <2>1
    <3> HIDE DEF x
    <3>2. Len(<<x>>) = 1 /\ <<x>>[1] = x
      OBVIOUS
    <3>3. Len(live[q]) = 1 /\ live[q][1] = x
      BY <3>1, <3>2
    <3> QED BY <3>3 DEF x
  <2> QED BY <1>4, <2>1, <2>2 DEF Undisturbed
<1>7. ASSUME CopyEnds(r)
      PROVE  live' = [live EXCEPT ![q] = Source(r)] /\ Source(r) # <<>>
  <2>1. live' = [live EXCEPT ![q] = Completed(live[q], depth[r], Source(r))]
    BY <1>6, <1>7 DEF CopyEnds
  <2>2. Completed(live[q], depth[r], Source(r)) = Source(r)
    BY <1>2, <1>4, <1>6, <1>7, CompletedAlone
  <2> QED BY <1>4, <1>6, <1>7, <2>1, <2>2
<1>8. CopyFails(r) => live' = live
  BY <1>6 DEF CopyFails
<1> QED BY <1>1, <1>2, <1>5, <1>7, <1>8

LEMMA InstallSteps ==
    ASSUME NEW r \in Run, Before(r), pc[r] \in {"install", "copying"},
           CopyBegins(r) \/ CopyEnds(r) \/ CopyFails(r)
    PROVE  Course(r)'
<1> DEFINE q == pos[r]
<1>1. /\ UNCHANGED <<stamp, found, backup>> /\ TypeOK /\ q \in Part
      /\ Source(r) = <<Whole(r)>> /\ backup[stamp[r]] = found[r]
  BY CopyFacts DEF Before, Course, Saved, PastBackup, Working, BackingUp
<1>2. \A p \in Part :
        live[p] = IF p < q THEN <<Whole(r)>>
                  ELSE IF p = q /\ pc[r] = "copying" THEN <<Partial(r)>>
                  ELSE <<>>
  BY DEF Before, Course, InstallingAt
<1>3. \A p \in Part : p \in Nat /\ p =< NumParts /\ (p < q + 1 <=> p =< q) /\ ~(p < 1)
  BY <1>1 DEF Before, Part
<1>4. Saved(r)'
  BY <1>1 DEF Saved
<1>5. CASE CopyBegins(r)
  <2>1. pc'[r] = "copying" /\ pos' = pos /\ depth'[r] = 1
    BY <1>5, CopyFacts DEF CopyBegins
  <2>2. live' = [live EXCEPT ![q] = <<Partial(r)>>]
    BY <1>1, <1>5, CopyFacts DEF Whole
  <2>3. InstallingAt(r)'
    <3>1. live'[q] = <<Partial(r)>> /\ \A p \in Part \ {q} : live'[p] = live[p]
      BY <1>1, <2>2 DEF TypeOK
    <3>2. \A p \in Part : p < q => p # q
      BY <1>1, <1>3
    <3>3. pos'[r] = q
      BY <2>1
    <3> HIDE DEF q
    <3> QED BY <1>2, <2>1, <3>1, <3>2, <3>3 DEF InstallingAt
  <2> QED BY <1>4, <2>1, <2>3 DEF Course, BackingUpAt, RestoringAt, EndedAt, BackingUp
<1>6. CASE CopyEnds(r)
  <2>1. live' = [live EXCEPT ![q] = <<Whole(r)>>]
    BY <1>1, <1>6, CopyFacts
  <2>2. NextPart(r, "install", "done") /\ pc[r] = "copying"
    BY <1>6 DEF CopyEnds
  <2>3. \A p \in Part : live'[p] = IF p =< q THEN <<Whole(r)>> ELSE <<>>
    <3> SUFFICES ASSUME NEW p \in Part
                 PROVE  live'[p] = IF p =< q THEN <<Whole(r)>> ELSE <<>>
      OBVIOUS
    <3>1. p = q => live'[p] = <<Whole(r)>>
      BY <1>1, <2>1 DEF TypeOK
    <3>2. p # q => live'[p] = live[p]
      BY <1>1, <2>1 DEF TypeOK
    <3> HIDE DEF q
    <3> QED BY <1>1, <1>2, <1>3, <3>1, <3>2
  <2>4. CASE pc'[r] = "install" /\ pos'[r] = q + 1
    <3>1. InstallingAt(r)'
      BY <1>3, <2>3, <2>4 DEF InstallingAt
    <3> QED BY <1>4, <2>4, <3>1 DEF Course, BackingUpAt, RestoringAt, EndedAt, BackingUp
  <2>5. CASE pc'[r] = "done" /\ q = NumParts
    <3>1. EndedAt(r)'
      BY <1>3, <2>3, <2>5 DEF EndedAt
    <3> QED BY <1>4, <2>5, <3>1 DEF Course, BackingUpAt, InstallingAt, RestoringAt, BackingUp
  <2> QED BY <1>1, <2>2, <2>4, <2>5, NextPartMoves
<1>7. CASE CopyFails(r)
  <2>1. pc'[r] = "rollback" /\ pos'[r] = 1
    BY <1>1, <1>7 DEF CopyFails, Goto, TypeOK
  <2>2. RestoringAt(r)'
    BY <1>3, <2>1 DEF RestoringAt
  <2> QED BY <1>4, <2>1, <2>2 DEF Course, BackingUpAt, InstallingAt, EndedAt, BackingUp
<1> QED BY <1>5, <1>6, <1>7

LEMMA RollbackSteps ==
    ASSUME NEW r \in Run, Before(r),
           \/ Remove(r)
           \/ pc[r] \in {"restore", "restoring"} /\ (CopyBegins(r) \/ CopyEnds(r) \/ CopyFails(r))
    PROVE  Course(r)'
<1> DEFINE q == pos[r]
           was == found[r][q]
<1>1. /\ UNCHANGED <<stamp, found, backup>> /\ TypeOK /\ q \in Part
      /\ backup[stamp[r]] = found[r] /\ was \in Tree
  BY DEF Before, Course, Saved, PastBackup, Working, BackingUp, Remove,
     CopyBegins, CopyEnds, CopyFails, ghosts
<1>2. \A p \in Part : p < q /\ found[r][p] # <<>> => live[p] = found[r][p]
  BY DEF Before, Course, RestoringAt, Remove
<1>3. \A p \in Part : p \in Nat /\ p =< NumParts /\ (p < q + 1 <=> p =< q)
                       /\ (p =< q <=> p < q \/ p = q)
  <2>1. q \in Nat /\ \A p \in Part : p \in Nat /\ p =< NumParts
    BY <1>1 DEF Before
  <2> HIDE DEF q
  <2> QED BY <2>1
<1>4. Saved(r)'
  BY <1>1 DEF Saved
<1>5. ASSUME NextPart(r, "rollback", "rolledback"),
             \A p \in Part : p =< q /\ found[r][p] # <<>> => live'[p] = found[r][p]
      PROVE  Course(r)'
  <2>1. CASE pc'[r] = "rollback" /\ pos'[r] = q + 1
    <3>1. RestoringAt(r)'
      BY <1>1, <1>3, <1>5, <2>1 DEF RestoringAt
    <3> QED BY <1>4, <2>1, <3>1 DEF Course, BackingUpAt, InstallingAt, EndedAt, BackingUp
  <2>2. CASE pc'[r] = "rolledback" /\ q = NumParts
    <3>1. EndedAt(r)'
      BY <1>1, <1>3, <1>5, <2>2 DEF EndedAt
    <3> QED BY <1>4, <2>2, <3>1 DEF Course, BackingUpAt, InstallingAt, RestoringAt, BackingUp
  <2> QED BY <1>1, <1>5, <2>1, <2>2, NextPartMoves
<1>6. CASE Remove(r) /\ was = <<>>
  <2>1. NextPart(r, "rollback", "rolledback") /\ live' = live
    BY <1>1, <1>6 DEF Remove
  <2> QED BY <1>2, <1>3, <1>5, <1>6, <2>1
<1>7. CASE Remove(r) /\ was # <<>>
  <2>1. pc'[r] = "restore" /\ pos' = pos /\ live' = [live EXCEPT ![q] = <<>>]
    BY <1>1, <1>7 DEF Remove, Goto, TypeOK
  <2>2. live'[q] = <<>> /\ \A p \in Part \ {q} : live'[p] = live[p]
    BY <1>1, <2>1 DEF TypeOK
  <2>3. RestoringAt(r)'
    BY <1>1, <1>2, <1>3, <1>7, <2>1, <2>2 DEF RestoringAt
  <2> QED BY <1>4, <2>1, <2>3 DEF Course, BackingUpAt, InstallingAt, EndedAt, BackingUp
<1>8. CASE pc[r] \in {"restore", "restoring"} /\ CopyBegins(r)
  <2>1. /\ pc'[r] = "restoring" /\ pos' = pos /\ depth'[r] = 1 /\ was # <<>>
        /\ live' = [live EXCEPT ![q] = <<Partial(was[1].version)>>]
    BY <1>8, CopyFacts
  <2>2. live'[q] = <<Partial(was[1].version)>> /\ \A p \in Part \ {q} : live'[p] = live[p]
    BY <1>1, <2>1 DEF TypeOK
  <2>3. RestoringAt(r)'
    BY <1>1, <1>2, <1>3, <2>1, <2>2 DEF RestoringAt
  <2> QED BY <1>4, <2>1, <2>3 DEF Course, BackingUpAt, InstallingAt, EndedAt, BackingUp
<1>9. CASE pc[r] \in {"restore", "restoring"} /\ CopyEnds(r)
  <2>1. live' = [live EXCEPT ![q] = was]
    BY <1>9, CopyFacts
  <2>2. NextPart(r, "rollback", "rolledback")
    BY <1>9 DEF CopyEnds
  <2>3. live'[q] = was /\ \A p \in Part \ {q} : live'[p] = live[p]
    BY <1>1, <2>1 DEF TypeOK
  <2> QED BY <1>2, <1>3, <1>5, <2>2, <2>3
<1>10. CASE pc[r] \in {"restore", "restoring"} /\ CopyFails(r)
  <2>1. pc'[r] = "failed"
    BY <1>1, <1>10, FailType DEF CopyFails
  <2> QED BY <1>4, <2>1 DEF Course, BackingUpAt, InstallingAt, RestoringAt, EndedAt, BackingUp
<1> QED BY <1>6, <1>7, <1>8, <1>9, <1>10

\* The run itself goes on as its course says,
LEMMA OwnStep ==
    ASSUME TypeOK, NEW r \in Run, stamp[r] # 0, Unbegun, Course(r), RunStep(r)
    PROVE  Course(r)'
<1>1. Before(r)
  BY PartFacts, PartAssumption DEF Before, TypeOK, Part
<1>2. stamp[r] \in Stamp /\ pc[r] # "ready"
  BY PartAssumption DEF TypeOK, Stamp, Unbegun
<1>3. CASE MoveFails(r) \/ MkdirFails(r) \/ RemoveFails(r) \/ Killed(r)
  <2>1. pc'[r] = "failed"
    BY <1>3, FailType DEF MoveFails, MkdirFails, RemoveFails, Killed
  <2> QED
    BY <2>1 DEF Course, BackingUpAt, Saved, InstallingAt, RestoringAt, EndedAt,
       BackingUp, PastBackup, Working
<1>4. CASE CopyBegins(r) \/ CopyEnds(r) \/ CopyFails(r)
  <2>1. pc[r] \in {"install", "copying"} \/ pc[r] \in {"restore", "restoring"}
    BY <1>1, <1>4, CopyFacts
  <2> QED BY <1>1, <1>4, <2>1, InstallSteps, RollbackSteps
<1> QED
  BY <1>1, <1>2, <1>3, <1>4, BackupSteps, RollbackSteps DEF RunStep, Refuse, Begin
\* and nobody else touches the application while it is the last to have begun.
LEMMA OthersStep ==
    ASSUME SInv, NEW q \in Run, RunStep(q), NEW r \in (Run \ {q}) \ met', stamp[r] # 0
    PROVE  SoloAt(r)'
<1>1. /\ TypeOK /\ r \in Begun /\ r \in Run \ met /\ stamp[r] \in Stamp
  <2>1. met \subseteq met'
    BY DEF RunStep, Refuse, Begin, Look, Move, MoveFails, MkdirFails,
           CopyBegins, CopyEnds, CopyFails, Remove, RemoveFails, Killed, ghosts
  <2>2. TypeOK /\ stamp[r] \in 0..MaxStamp
    BY DEF SInv, TypeOK
  <2> QED BY <2>1, <2>2, PartAssumption DEF Begun, Stamp
<1>2. Apart(r) /\ (Latest(r) => Course(r))
  BY <1>1 DEF SInv, SoloAt
<1>3. Stamp \subseteq Nat /\ stamp \in [Run -> Nat]
  BY <1>1, PartAssumption DEF Stamp, TypeOK
<1>4. CASE Begin(q)
  <2>1. PICK t \in Stamp :
           /\ \A p \in Begun : stamp[p] < t \/ (stamp[p] = t /\ Active # {})
           /\ stamp' = [stamp EXCEPT ![q] = t]
    BY <1>4 DEF Begin
  <2>2. stamp[r] < t
    <3>1. CASE Active = {}
      BY <1>1, <2>1, <3>1
    <3>2. ASSUME NEW a \in Active
          PROVE  stamp[r] < t
      <4>1. r \notin Active
        BY <1>1, <1>4, <3>2 DEF Begin
      <4>2. a \in Begun /\ stamp[a] \in Nat
        BY <1>1, <1>3, PartAssumption DEF Active, TypeOK, Begun, Stamp
      <4>3. stamp[r] < stamp[a]
        BY <1>2, <3>2, <4>1 DEF Apart
      <4>4. stamp[a] =< t
        BY <1>3, <2>1, <4>2
      <4> QED BY <1>1, <1>3, <4>2, <4>3, <4>4
    <3> QED BY <3>1, <3>2
  <2>3. /\ stamp'[q] = t /\ \A p \in Run \ {q} : stamp'[p] = stamp[p] /\ pc'[p] = pc[p]
        /\ t # 0
    BY <1>1, <1>4, <2>1 DEF Begin, Goto, TypeOK, Stamp
  <2>4. Apart(r)'
    BY <1>2, <1>3, <1>1, <2>2, <2>3 DEF Apart, Begun, Active
  <2>5. ~Latest(r)'
    BY <1>1, <1>3, <2>2, <2>3 DEF Latest, Begun
  <2> QED BY <2>4, <2>5 DEF SoloAt
<1>5. CASE ~Begin(q)
  <2>1. /\ stamp' = stamp /\ \A p \in Run \ {q} : pc'[p] = pc[p]
        /\ pc'[q] \in Working => pc[q] \in Working
    <3>1. stamp' = stamp
      BY <1>5 DEF RunStep, Refuse, Look, Move, MoveFails, MkdirFails,
         CopyBegins, CopyEnds, CopyFails, Remove, RemoveFails, Killed
    <3>2. pc[q] \in Working \/ Refuse(q)
      BY <1>5 DEF RunStep, Look, Move, MoveFails, MkdirFails,
         CopyBegins, CopyEnds, CopyFails, Remove, RemoveFails, Killed, Working
    <3>3. Refuse(q) => pc'[q] = "failed"
      BY <1>1, FailType DEF Refuse
    <3> QED BY <1>1, <3>1, <3>2, <3>3, OtherPlaces DEF Working
  <2>2. Apart(r)'
    BY <1>2, <2>1 DEF Apart, Begun, Active
  <2>3. ASSUME Latest(r)' PROVE Course(r)'
    <3>1. Latest(r)
      BY <2>1, <2>3 DEF Latest, Begun
    <3>2. Refuse(q)
      <4>1. q \notin Active
        BY <1>1, <1>2, <3>1, AloneNow
      <4> QED
        BY <1>5, <4>1 DEF RunStep, Look, Move, MoveFails, MkdirFails, Active,
           CopyBegins, CopyEnds, CopyFails, Remove, RemoveFails, Killed, Working
    <3>3. /\ UNCHANGED <<live, backup, stamp, depth, found>>
          /\ pc'[r] = pc[r] /\ pos'[r] = pos[r]
      BY <1>1, <3>2, OtherPlaces DEF Refuse, ghosts
    <3>4. Course(r)
      BY <1>2, <3>1
    <3> QED
      BY <3>3, <3>4 DEF Course, BackingUpAt, Saved, InstallingAt, RestoringAt, EndedAt
  <2> QED BY <2>2, <2>3 DEF SoloAt
<1> QED BY <1>4, <1>5

\* A run that begins finds the application as it is and no backup of its second.
LEMMA BeginSolo ==
    ASSUME SInv, NEW r \in Run \ met', Begin(r)
    PROVE  SoloAt(r)'
<1>1. TypeOK /\ r \in Run /\ pos[r] = 1
  BY DEF SInv, ReadyAtFirst, Begin
<1>2. Active = {}
  BY DEF Begin
<1>3. PICK t \in Stamp :
         /\ \A q \in Begun : stamp[q] < t
         /\ stamp' = [stamp EXCEPT ![r] = t]
  BY <1>2 DEF Begin
<1>4. /\ stamp'[r] = t /\ \A q \in Run \ {r} : stamp'[q] = stamp[q] /\ pc'[q] = pc[q]
      /\ pc'[r] = "look" /\ found'[r] = live /\ UNCHANGED <<live, backup, pos>>
  BY <1>1, <1>3 DEF Begin, Goto, TypeOK
<1>5. t \in Nat /\ stamp \in [Run -> Nat]
  BY <1>1, PartAssumption DEF Stamp, TypeOK
<1>6. Apart(r)'
  BY <1>2, <1>3, <1>4, <1>5 DEF Apart, Begun, Active
<1>7. backup[t] = Nothing
  BY <1>3, <1>5 DEF SInv, FreshSeconds, Begun
<1>8. BackingUpAt(r)'
  <2>1. \A p \in Part : ~(p < 1) /\ Nothing[p] = <<>>
    BY DEF Part, Nothing
  <2> QED BY <1>1, <1>4, <1>7, <2>1 DEF BackingUpAt
<1> QED
  BY <1>4, <1>6, <1>8
     DEF SoloAt, Course, Saved, InstallingAt, RestoringAt, EndedAt, PastBackup, BackingUp, Working

LEMMA FreshStep ==
    ASSUME TypeOK, FreshSeconds, Unbegun, NEW r \in Run, RunStep(r)
    PROVE  FreshSeconds' /\ Unbegun'
<1>1. FreshSeconds'
  <2> SUFFICES ASSUME NEW t \in Stamp, \A q \in Begun' : stamp'[q] # t
               PROVE  backup'[t] = Nothing
    BY DEF FreshSeconds
  <2>1. \A q \in Begun : stamp[q] # t
    BY PartAssumption
       DEF RunStep, Refuse, Begin, Look, Move, MoveFails, MkdirFails, CopyBegins, CopyEnds,
           CopyFails, Remove, RemoveFails, Killed, Begun, TypeOK, Stamp, Unbegun
  <2>2. backup[t] = Nothing
    BY <2>1 DEF FreshSeconds
  <2>3. CASE Move(r)
    <3>1. stamp[r] \in Stamp /\ stamp[r] # t
      BY <2>1, <2>3, PartAssumption DEF Move, TypeOK, Working, Begun, Stamp
    <3> QED BY <2>2, <2>3, <3>1 DEF Move, TypeOK
  <2>4. CASE ~Move(r)
    BY <2>2, <2>4 DEF RunStep, Refuse, Begin, Look, MoveFails, MkdirFails,
       CopyBegins, CopyEnds, CopyFails, Remove, RemoveFails, Killed
  <2> QED BY <2>3, <2>4
<1>2. Unbegun'
  <2>1. pc[r] \in Working \/ Refuse(r) \/ Begin(r)
    BY DEF RunStep, Refuse, Begin, Look, Move, MoveFails, MkdirFails, CopyBegins, CopyEnds,
       CopyFails, Remove, RemoveFails, Killed, Working
  <2>2. CASE Begin(r)
    BY <2>2, PartAssumption DEF Begin, Goto, TypeOK, Stamp, Unbegun
  <2>3. CASE Refuse(r)
    BY <2>3 DEF Refuse, Fail, Goto, TypeOK, Unbegun
  <2>4. CASE pc[r] \in Working
    <3>1. stamp[r] # 0 /\ stamp' = stamp
      <4>1. stamp[r] \in Stamp /\ 0 \notin Stamp /\ pc[r] # "ready"
        BY <2>4 DEF TypeOK, Stamp, Working
      <4> QED BY <4>1 DEF RunStep, Refuse, Begin, Look, Move, MoveFails, MkdirFails,
             CopyBegins, CopyEnds, CopyFails, Remove, RemoveFails, Killed
    <3>2. pc'[r] # "ready"
      BY DEF RunStep, Refuse, Begin, Look, Move, MoveFails, MkdirFails, CopyBegins,
         CopyEnds, CopyFails, Remove, RemoveFails, Killed, Fail, Goto, NextPart, TypeOK
    <3> QED BY <3>1, <3>2, OtherPlaces DEF Unbegun
  <2> QED BY <2>1, <2>2, <2>3, <2>4
<1> QED BY <1>1, <1>2

LEMMA SInvStep == SInv /\ [Next]_vars => SInv'
<1> SUFFICES ASSUME SInv, [Next]_vars PROVE SInv'
  OBVIOUS
<1>1. ASSUME NEW q \in Run, RunStep(q)
      PROVE  SInv'
  <2>1. TypeOK' /\ ReadyAtFirst' /\ FreshSeconds' /\ Unbegun'
    BY <1>1, StepType, ReadyStep, FreshStep DEF SInv
  <2>2. ASSUME NEW r \in Run \ met' PROVE SoloAt(r)'
    <3>1. CASE r # q
      <4>1. stamp'[r] = stamp[r]
        BY <1>1, <3>1 DEF SInv, TypeOK, RunStep, Refuse, Begin, Look, Move, MoveFails,
           MkdirFails, CopyBegins, CopyEnds, CopyFails, Remove, RemoveFails, Killed
      <4>2. CASE stamp[r] = 0
        BY <4>1, <4>2 DEF SoloAt, Begun
      <4>3. CASE stamp[r] # 0
        BY <1>1, <3>1, <4>3, OthersStep
      <4> QED BY <4>2, <4>3
    <3>2. CASE r = q /\ Begin(q)
      BY <2>2, <3>2, BeginSolo
    <3>3. CASE r = q /\ ~Begin(q)
      <4>1. stamp' = stamp /\ TypeOK /\ Unbegun /\ met' = met
        BY <1>1, <3>3 DEF SInv, RunStep, Refuse, Look, Move, MoveFails,
           MkdirFails, CopyBegins, CopyEnds, CopyFails, Remove, RemoveFails, Killed, ghosts
      <4>2. CASE stamp[r] = 0
        BY <4>1, <4>2 DEF SoloAt, Begun
      <4>3. CASE stamp[r] # 0
        <5>1. Apart(r) /\ (Latest(r) => Course(r))
          BY <2>2, <4>1, <4>3 DEF SInv, SoloAt, Begun
        <5>2. Latest(r)' => Course(r)'
          BY <1>1, <3>3, <4>1, <4>3, <5>1, OwnStep DEF Latest, Begun
        <5>3. Apart(r)'
          BY <1>1, <3>3, <4>1, <5>1, OtherPlaces DEF Apart, Begun, Active
        <5> QED BY <5>2, <5>3 DEF SoloAt
      <4> QED BY <4>2, <4>3
    <3> QED BY <3>1, <3>2, <3>3
  <2> QED BY <2>1, <2>2 DEF SInv
<1>2. CASE UNCHANGED vars
  <2>1. /\ UNCHANGED <<live, backup, pc, pos, stamp, depth, had, found, met>>
        /\ TypeOK /\ ReadyAtFirst /\ FreshSeconds /\ Unbegun
    BY <1>2 DEF vars, SInv
  <2>2. TypeOK' /\ ReadyAtFirst' /\ FreshSeconds' /\ Unbegun'
    BY <2>1 DEF TypeOK, ReadyAtFirst, FreshSeconds, Unbegun, Begun
  <2>3. ASSUME NEW r \in Run \ met PROVE SoloAt(r)'
    <3>1. SoloAt(r)
      BY DEF SInv
    <3> QED
      BY <2>1, <3>1 DEF SoloAt, Begun, Apart, Active, Latest, Course, BackingUpAt, Saved,
         InstallingAt, RestoringAt, EndedAt
  <2> QED BY <2>1, <2>2, <2>3 DEF SInv
<1> QED BY <1>1, <1>2 DEF Next

LEMMA SInvInit == Init => SInv
<1> SUFFICES ASSUME Init PROVE SInv
  OBVIOUS
<1>1. ReadyAtFirst /\ FreshSeconds /\ Unbegun /\ Begun = {}
  BY DEF Init, ReadyAtFirst, FreshSeconds, Unbegun, Begun
<1> QED BY <1>1, InitType DEF SInv, SoloAt

\* A run that met no other and began last is where its course says.
LEMMA SInvSays ==
    ASSUME SInv, NEW r \in Run \ met, pc[r] \in {"done", "rolledback"}, Latest(r)
    PROVE  EndedAt(r)
<1>1. r \in Begun
  <2>1. stamp[r] # 0
    BY DEF SInv, Unbegun
  <2> QED BY <2>1 DEF Begun
<1> QED BY <1>1 DEF SInv, SoloAt, Course

\* A run that met no other and began last is, at every step of the script, where
\* its course says it is.
THEOREM OnCourse == Spec => []SInv
BY SInvInit, SInvStep, PTL DEF Spec

\* A run that met no other and exits 0 leaves the application all new, for any
\* number of directories and whatever the runs before it left behind.
THEOREM SuccessIsNew == Spec => []SuccessMeansNew
<1>1. SInv => SuccessMeansNew
  BY SInvSays DEF SuccessMeansNew, EndedAt
<1> QED BY <1>1, OnCourse, PTL

\* A run that met no other and rolled back leaves each directory it had found
\* as it had found it.
THEOREM RollbackRestores == Spec => []FailureRestores
<1>1. SInv => FailureRestores
  BY SInvSays DEF FailureRestores, EndedAt
<1> QED BY <1>1, OnCourse, PTL
=============================================================================
