------------------------ MODULE ProcessExecutorProofs ------------------------
(***************************************************************************)
(* What Execute says of a command is true for every number of processes it *)
(* starts, every limit of its output and every moment of its deadline.     *)
(***************************************************************************)
EXTENDS ProcessExecutor, TLAPS

----------------------------------------------------------------------------
(* The inductive invariant *)

\* Wait returns for a child that has been started and has ended.
ChildKnown ==
    /\ phase = "start" <=> child = "none" /\ phase # "done"
    /\ phase \in {"drain", "classify"} \/ Returned =>
          child \in {"zero", "nonzero", "killed"}

\* Only the deadline kills.
KilledLate == child = "killed" => deadline

\* From the end of Wait on nobody can write any more, nor make one who can.
PipeClosed == phase = "classify" \/ Returned => Holders = {}

PInv ==
    /\ TypeOK
    /\ ChildKnown
    /\ KilledLate
    /\ PipeClosed
    /\ GroupGone
    /\ ExitIsTheChilds
    /\ OutputWhole

----------------------------------------------------------------------------
(* Types *)

LEMMA InitPInv == Init => PInv
<1> SUFFICES ASSUME Init PROVE PInv
  OBVIOUS
<1>1. NoResult \in Result /\ Unborn \in DescState
  BY DEF NoResult, Result, Unborn, DescState
<1>2. TypeOK
  <2>1. written \in 0..OutputBound
    BY ProcessAssumption DEF Init
  <2> QED BY <1>1, <2>1 DEF Init, TypeOK
<1> QED
  BY <1>2 DEF Init, PInv, ChildKnown, KilledLate, PipeClosed, GroupGone, ExitIsTheChilds,
     OutputWhole, Returned

\* A process that is forked or changes its files or its group is one still.
LEMMA DescType ==
    ASSUME TypeOK, NEW d \in Descendant, Fork(d) \/ Redirect(d) \/ Detach(d) \/ End(d)
    PROVE  desc' \in [Descendant -> DescState]
<1>1. Forked \in DescState /\ Ended \in DescState
  BY DEF Forked, Ended, DescState
<1>2. \A x \in DescState, b \in BOOLEAN :
         [x EXCEPT !.pipe = b] \in DescState /\ [x EXCEPT !.group = b] \in DescState
  BY DEF DescState
<1>3. CASE Fork(d) BY <1>1, <1>3 DEF Fork, TypeOK
<1>4. CASE Redirect(d)
  <2>1. desc' = [desc EXCEPT ![d] = [desc[d] EXCEPT !.pipe = FALSE]] BY <1>4 DEF Redirect
  <2> QED BY <1>2, <2>1 DEF TypeOK
<1>5. CASE Detach(d)
  <2>1. desc' = [desc EXCEPT ![d] = [desc[d] EXCEPT !.group = FALSE]] BY <1>5 DEF Detach
  <2> QED BY <1>2, <2>1 DEF TypeOK
<1>6. CASE End(d) BY <1>1, <1>6 DEF End, TypeOK
<1> QED BY <1>3, <1>4, <1>5, <1>6

\* A result that is cut keeps its kind.
LEMMA LimitedKeeps ==
    ASSUME written \in Nat, NEW r \in Result
    PROVE  /\ Limited(r) \in Result
           /\ Limited(r).timedOut = r.timedOut
           /\ Limited(r).exit = r.exit
           /\ Limited(r).output = written \/ Limited(r).truncated
           /\ Limited(r).truncated =>
                 MaxOutputBytes > 0 /\ Limited(r).output = MaxOutputBytes
<1> DEFINE cut == MaxOutputBytes > 0 /\ written > MaxOutputBytes
           output == IF cut THEN MaxOutputBytes ELSE written
<1>1. output \in Nat /\ cut \in BOOLEAN
  BY ProcessAssumption
<1>2. /\ output = written \/ cut
      /\ cut => MaxOutputBytes > 0 /\ output = MaxOutputBytes
  OBVIOUS
<1>3. Limited(r) = [r EXCEPT !.output = output, !.truncated = cut]
  BY DEF Limited
<1> HIDE DEF cut, output
<1>4. /\ [r EXCEPT !.output = output, !.truncated = cut] \in Result
      /\ [r EXCEPT !.output = output, !.truncated = cut].timedOut = r.timedOut
      /\ [r EXCEPT !.output = output, !.truncated = cut].exit = r.exit
      /\ [r EXCEPT !.output = output, !.truncated = cut].output = output
      /\ [r EXCEPT !.output = output, !.truncated = cut].truncated = cut
  BY <1>1 DEF Result
<1> QED BY <1>2, <1>3, <1>4

\* What Classify makes of the deadline, the exit of the child and the output.
LEMMA ClassifiedResult ==
    ASSUME TypeOK, ChildKnown, Classify
    PROVE  /\ result' \in Result
           /\ result'.timedOut = deadline
           /\ ~deadline => result'.exit = child
           /\ result'.output = written \/ result'.truncated
           /\ result'.truncated => MaxOutputBytes > 0 /\ result'.output = MaxOutputBytes
<1>1. written \in Nat /\ deadline \in BOOLEAN
  BY ProcessAssumption DEF TypeOK
<1>2. child \in {"zero", "nonzero", "killed"}
  BY DEF Classify, ChildKnown
<1>3. CASE deadline
  <2>1. PICK c \in {"failed", "completed"} :
           result' = Limited([NoResult EXCEPT !.timedOut = TRUE, !.cleanup = c])
    BY <1>3 DEF Classify
  <2>2. /\ [NoResult EXCEPT !.timedOut = TRUE, !.cleanup = c] \in Result
        /\ [NoResult EXCEPT !.timedOut = TRUE, !.cleanup = c].timedOut = TRUE
    BY DEF NoResult, Result
  <2>3. deadline = TRUE BY <1>1, <1>3
  <2> QED BY <1>1, <1>3, <2>1, <2>2, <2>3, LimitedKeeps
<1>4. CASE ~deadline
  <2>1. result' = Limited([NoResult EXCEPT !.exit = child])
    BY <1>4 DEF Classify
  <2>2. /\ [NoResult EXCEPT !.exit = child] \in Result
        /\ [NoResult EXCEPT !.exit = child].timedOut = FALSE
        /\ [NoResult EXCEPT !.exit = child].exit = child
    BY <1>2 DEF NoResult, Result
  <2>3. deadline = FALSE BY <1>1, <1>4
  <2> QED BY <1>1, <2>1, <2>2, <2>3, LimitedKeeps
<1> QED BY <1>3, <1>4

LEMMA TypeStep ==
    ASSUME TypeOK, ChildKnown, [Next]_vars
    PROVE  TypeOK'
<1>1. CASE \E d \in Descendant : Fork(d) \/ Redirect(d) \/ Detach(d) \/ End(d)
  BY <1>1, DescType DEF TypeOK, Fork, Redirect, Detach, End
<1>2. CASE Write
  BY <1>2, ProcessAssumption DEF Write, TypeOK
<1>3. CASE ChildEnds \/ Start \/ Deadline \/ Kill \/ Reap \/ Drain
  BY <1>3 DEF ChildEnds, Start, Deadline, Kill, Reap, Drain, TypeOK
<1>4. CASE Classify
  <2>1. desc' \in [Descendant -> DescState]
    <3>1. CASE deadline
      <4>1. desc' = [d \in Descendant |->
                       IF d \in (IF privileged THEN {} ELSE Group) THEN Ended ELSE desc[d]]
        BY <1>4, <3>1 DEF Classify
      <4>2. Ended \in DescState BY DEF Ended, DescState
      <4> QED BY <4>1, <4>2 DEF TypeOK
    <3>2. CASE ~deadline
      BY <1>4, <3>2 DEF Classify, TypeOK
    <3> QED BY <3>1, <3>2
  <2> QED BY <1>4, <2>1, ClassifiedResult DEF Classify, TypeOK
<1>5. CASE UNCHANGED vars
  BY <1>5 DEF vars, TypeOK
<1> QED BY <1>1, <1>2, <1>3, <1>4, <1>5 DEF Next, Program, Executor

----------------------------------------------------------------------------
(* Programs *)

\* Group and pipe are inherited: once the child has ended, a fork adds to the
\* group or to the holders of the pipe only what is in it already.
LEMMA ProgramsOnlyLeave ==
    ASSUME TypeOK, child # "running",
           NEW d \in Descendant, Fork(d) \/ Redirect(d) \/ Detach(d) \/ End(d)
    PROVE  /\ Group = {} => Group' = {}
           /\ Holders = {} => Holders' = {}
<1>1. CASE Fork(d) BY <1>1 DEF Fork, TypeOK, Group, Holders
<1>2. CASE Redirect(d)
  <2>1. /\ desc'[d].pipe = FALSE /\ desc'[d].group = desc[d].group
        /\ \A e \in Descendant \ {d} : desc'[e] = desc[e]
    BY <1>2 DEF Redirect, TypeOK, DescState
  <2> QED BY <2>1 DEF Group, Holders
<1>3. CASE Detach(d)
  <2>1. /\ desc'[d].group = FALSE /\ desc'[d].pipe = desc[d].pipe
        /\ \A e \in Descendant \ {d} : desc'[e] = desc[e]
    BY <1>3 DEF Detach, TypeOK, DescState
  <2> QED BY <2>1 DEF Group, Holders
<1>4. CASE End(d) BY <1>4 DEF End, TypeOK, Group, Holders, Ended
<1> QED BY <1>1, <1>2, <1>3, <1>4

\* No program changes anything a result is about once Execute has returned.
LEMMA ProgramStep ==
    ASSUME PInv, Program
    PROVE  PInv'
<1> USE DEF PInv
<1>1. TypeOK'
  BY TypeStep DEF Next
<1>2. UNCHANGED <<phase, privileged, deadline, result>>
  BY DEF Program, Fork, Redirect, Detach, End, Write, ChildEnds
<1>3. CASE \E d \in Descendant : Fork(d) \/ Redirect(d) \/ Detach(d) \/ End(d)
  <2>1. UNCHANGED <<child, written>> BY <1>3 DEF Fork, Redirect, Detach, End
  <2>2. ChildKnown' /\ KilledLate' /\ ExitIsTheChilds' /\ OutputWhole'
    BY <1>2, <2>1 DEF ChildKnown, KilledLate, ExitIsTheChilds, OutputWhole, Returned
  <2>3. phase = "classify" \/ Returned => child # "running"
    BY DEF ChildKnown
  <2>4. PipeClosed' /\ GroupGone'
    BY <1>2, <1>3, <2>1, <2>3, ProgramsOnlyLeave DEF PipeClosed, GroupGone, Returned
  <2> QED BY <1>1, <2>2, <2>4
<1>4. CASE Write
  <2>1. phase # "classify" /\ ~Returned
    BY <1>4 DEF Write, ChildKnown, PipeClosed
  <2>2. UNCHANGED <<child, desc>> BY <1>4 DEF Write
  <2> QED
    BY <1>1, <1>2, <2>1, <2>2
    DEF ChildKnown, KilledLate, PipeClosed, GroupGone, ExitIsTheChilds, OutputWhole, Returned
<1>5. CASE ChildEnds
  <2>1. phase = "wait"
    BY <1>5 DEF ChildEnds, ChildKnown, TypeOK, Returned
  <2>2. child' \in {"zero", "nonzero"} BY <1>5 DEF ChildEnds
  <2> QED
    BY <1>1, <1>2, <2>1, <2>2
    DEF ChildKnown, KilledLate, PipeClosed, GroupGone, ExitIsTheChilds, OutputWhole, Returned
<1> QED BY <1>3, <1>4, <1>5 DEF Program

----------------------------------------------------------------------------
(* Execute *)

LEMMA ExecutorStep ==
    ASSUME PInv, Executor
    PROVE  PInv'
<1> USE DEF PInv
<1>1. TypeOK'
  BY TypeStep DEF Next
<1>2. CASE Start
  BY <1>1, <1>2 DEF Start, ChildKnown, KilledLate, PipeClosed, GroupGone, ExitIsTheChilds,
     OutputWhole, Returned
<1>3. CASE Deadline \/ Kill \/ Reap
  BY <1>1, <1>3 DEF Deadline, Kill, Reap, TypeOK, ChildKnown, KilledLate, PipeClosed,
     GroupGone, ExitIsTheChilds, OutputWhole, Returned
<1>4. CASE Drain
  BY <1>1, <1>4 DEF Drain, ChildKnown, KilledLate, PipeClosed,
     GroupGone, ExitIsTheChilds, OutputWhole, Returned, Holders
<1>5. CASE Classify
  <2>1. /\ phase = "classify" /\ phase' = "done"
        /\ UNCHANGED <<privileged, child, deadline, written>>
    BY <1>5 DEF Classify
  <2>2. ChildKnown' /\ KilledLate'
    BY <2>1 DEF ChildKnown, KilledLate, Returned
  <2>3. PipeClosed'
    <3>1. \A d \in Descendant : desc'[d] \in {Ended, desc[d]}
      BY <1>5 DEF Classify, TypeOK
    <3> QED BY <2>1, <3>1 DEF PipeClosed, Holders, Ended
  <2>4. GroupGone'
    <3> SUFFICES ASSUME deadline, ~privileged PROVE Group' = {}
      BY <1>5, <2>1, ClassifiedResult DEF GroupGone
    <3>1. \A d \in Descendant : desc'[d] = IF d \in Group THEN Ended ELSE desc[d]
      BY <1>5 DEF Classify
    <3> QED BY <3>1 DEF Group, Ended
  <2>5. ExitIsTheChilds'
    BY <1>5, <2>1, ClassifiedResult DEF ExitIsTheChilds, KilledLate, ChildKnown
  <2>6. OutputWhole'
    BY <1>5, <2>1, ClassifiedResult DEF OutputWhole
  <2> QED BY <1>1, <2>2, <2>3, <2>4, <2>5, <2>6
<1> QED BY <1>2, <1>3, <1>4, <1>5 DEF Executor

----------------------------------------------------------------------------
(* Theorems *)

\* Every execution is in the invariant, at every step of it.
THEOREM Invariance == Spec => []PInv
<1>1. PInv /\ [Next]_vars => PInv'
  <2> SUFFICES ASSUME PInv, [Next]_vars PROVE PInv'
    OBVIOUS
  <2>1. CASE UNCHANGED vars
    BY <2>1 DEF vars, PInv, TypeOK, ChildKnown, KilledLate, PipeClosed, GroupGone,
       ExitIsTheChilds, OutputWhole, Returned, Holders, Group
  <2> QED BY <2>1, ProgramStep, ExecutorStep DEF Next
<1> QED BY InitPInv, <1>1, PTL DEF Spec

\* Every variable of the executor keeps its type.
THEOREM Typing == Spec => []TypeOK
<1>1. PInv => TypeOK BY DEF PInv
<1> QED BY <1>1, Invariance, PTL

\* A command that timed out leaves nobody of its process group behind, however
\* many processes it started and whichever of them forked when (process.go's
\* kill of the group after Wait).
THEOREM NobodyLeft == Spec => []GroupGone
<1>1. PInv => GroupGone BY DEF PInv
<1> QED BY <1>1, Invariance, PTL

\* The exit code is the child's own and a killed child is always a timeout
\* (process.go looks at the context before the error of Wait).
THEOREM ExitTruth == Spec => []ExitIsTheChilds
<1>1. PInv => ExitIsTheChilds BY DEF PInv
<1> QED BY <1>1, Invariance, PTL

\* The output is everything that was ever written, or is marked as cut.
THEOREM OutputTruth == Spec => []OutputWhole
<1>1. PInv => OutputWhole BY DEF PInv
<1> QED BY <1>1, Invariance, PTL
=============================================================================
