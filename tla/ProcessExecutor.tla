--------------------------- MODULE ProcessExecutor --------------------------
(***************************************************************************)
(* One execution of a command (internal/executor/process.go): the child is *)
(* started in a process group of its own with its output in a pipe, and    *)
(* Wait returns once the child is reaped and every copy of the pipe's      *)
(* write end is closed.  At the deadline the exec package kills the child, *)
(* and only the child; Execute kills what is left of the group after Wait. *)
(*                                                                         *)
(* The programs themselves (scripts/*.sh and the services they start) are  *)
(* external: they fork, write, detach and end as they like.                *)
(***************************************************************************)
EXTENDS Integers, FiniteSets

CONSTANTS
    Descendant,      \* processes the child may start, each once
    MaxOutputBytes,  \* policy.MaxOutputBytes; no limit when =< 0
    OutputBound      \* bound on what is written to the pipe

ASSUME ProcessAssumption == MaxOutputBytes \in Int /\ OutputBound \in Nat

VARIABLES
    phase,       \* where Execute is
    privileged,  \* the program runs as another user: signals fail (sudo)
    child,       \* the direct child
    desc,        \* its descendants
    deadline,    \* the context's deadline has passed
    written,     \* bytes written to the pipe so far
    result       \* Execute's Result

vars == <<phase, privileged, child, desc, deadline, written, result>>

\* group: in the child's process group; pipe: holds the pipe's write end.
DescState == [life : {"unborn", "alive", "ended"}, group : BOOLEAN, pipe : BOOLEAN]
Unborn == [life |-> "unborn", group |-> FALSE, pipe |-> FALSE]
Forked == [life |-> "alive", group |-> TRUE, pipe |-> TRUE]
Ended == [life |-> "ended", group |-> FALSE, pipe |-> FALSE]

Result ==
    [timedOut : BOOLEAN, exit : {"none", "zero", "nonzero", "killed"},
     cleanup : {"completed", "failed", "not_required"},
     output : Nat, truncated : BOOLEAN]
NoResult ==
    [timedOut |-> FALSE, exit |-> "none", cleanup |-> "not_required",
     output |-> 0, truncated |-> FALSE]

TypeOK ==
    /\ phase \in {"start", "wait", "drain", "classify", "done"}
    /\ privileged \in BOOLEAN
    /\ child \in {"none", "running", "zero", "nonzero", "killed"}
    /\ desc \in [Descendant -> DescState]
    /\ deadline \in BOOLEAN
    /\ written \in 0..OutputBound
    /\ result \in Result

Init ==
    /\ phase = "start"
    /\ privileged \in BOOLEAN
    /\ child = "none"
    /\ desc = [d \in Descendant |-> Unborn]
    /\ deadline = FALSE
    /\ written = 0
    /\ result = NoResult

Holders == {d \in Descendant : desc[d].pipe}
Group == {d \in Descendant : desc[d].group}

----------------------------------------------------------------------------
(* The programs *)

\* A process forks: its child inherits group and pipe.
Fork(d) ==
    /\ desc[d] = Unborn
    /\ \/ /\ child = "running"
          /\ desc' = [desc EXCEPT ![d] = Forked]
       \/ \E e \in Descendant :
             /\ desc[e].life = "alive"
             /\ desc' = [desc EXCEPT ![d] = desc[e]]
    /\ UNCHANGED <<phase, privileged, child, deadline, written, result>>

\* Redirects its output (a daemon started with >log 2>&1).
Redirect(d) ==
    /\ desc[d].pipe
    /\ desc' = [desc EXCEPT ![d].pipe = FALSE]
    /\ UNCHANGED <<phase, privileged, child, deadline, written, result>>

\* Leaves the group (setsid, as daemons do).
Detach(d) ==
    /\ desc[d].group
    /\ desc' = [desc EXCEPT ![d].group = FALSE]
    /\ UNCHANGED <<phase, privileged, child, deadline, written, result>>

End(d) ==
    /\ desc[d].life = "alive"
    /\ desc' = [desc EXCEPT ![d] = Ended]
    /\ UNCHANGED <<phase, privileged, child, deadline, written, result>>

Write ==
    /\ child = "running" \/ Holders # {}
    /\ written < OutputBound
    /\ written' = written + 1
    /\ UNCHANGED <<phase, privileged, child, desc, deadline, result>>

ChildEnds ==
    /\ child = "running"
    /\ child' \in {"zero", "nonzero"}
    /\ UNCHANGED <<phase, privileged, desc, deadline, written, result>>

Program ==
    \/ \E d \in Descendant : Fork(d) \/ Redirect(d) \/ Detach(d) \/ End(d)
    \/ Write
    \/ ChildEnds

----------------------------------------------------------------------------
(* Execute *)

Start ==
    /\ phase = "start"
    /\ \/ /\ child' = "running"
          /\ phase' = "wait"
       \/ /\ phase' = "done"       \* cmd.Start fails: NoResult with its error
          /\ UNCHANGED child
    /\ UNCHANGED <<privileged, desc, deadline, written, result>>

Deadline ==
    /\ phase \in {"wait", "drain"}
    /\ ~deadline
    /\ deadline' = TRUE
    /\ UNCHANGED <<phase, privileged, child, desc, written, result>>

\* Seeded bug: exec.Command instead of exec.CommandContext.
KillNobody == FALSE /\ UNCHANGED vars

\* The exec package kills the child of a context that is done, unless the
\* child runs as root under sudo.
Kill ==
    /\ phase = "wait"
    /\ deadline /\ ~privileged
    /\ child = "running"
    /\ child' = "killed"
    /\ UNCHANGED <<phase, privileged, desc, deadline, written, result>>

\* Seeded bug: Wait is not called.
ReapBlindly ==
    /\ phase = "wait"
    /\ phase' = "drain"
    /\ UNCHANGED <<privileged, child, desc, deadline, written, result>>

\* The first half of Wait: the child is reaped.
Reap ==
    /\ phase = "wait"
    /\ child \notin {"none", "running"}
    /\ phase' = "drain"
    /\ UNCHANGED <<privileged, child, desc, deadline, written, result>>

\* Seeded bug: Wait does not wait for the copies of the output.
DrainEarly ==
    /\ phase = "drain"
    /\ phase' = "classify"
    /\ UNCHANGED <<privileged, child, desc, deadline, written, result>>

\* The second half: the copying goroutines have seen the end of the pipe.
Drain ==
    /\ phase = "drain"
    /\ Holders = {}
    /\ phase' = "classify"
    /\ UNCHANGED <<privileged, child, desc, deadline, written, result>>

\* LimitOutput
Limited(r) ==
    LET cut == MaxOutputBytes > 0 /\ written > MaxOutputBytes IN
    [r EXCEPT !.output = IF cut THEN MaxOutputBytes ELSE written,
              !.truncated = cut]

\* Seeded bug: the exit of the child is looked at before the context.
ClassifyExitFirst ==
    /\ phase = "classify"
    /\ result' = Limited([NoResult EXCEPT !.exit = child])
    /\ phase' = "done"
    /\ UNCHANGED <<privileged, child, desc, deadline, written>>

\* Seeded bug: only the child's pid is killed, which is gone already.
ClassifyKillForked ==
    /\ phase = "classify"
    /\ result' = Limited(IF deadline
                         THEN [NoResult EXCEPT !.timedOut = TRUE, !.cleanup = "completed"]
                         ELSE [NoResult EXCEPT !.exit = child])
    /\ phase' = "done"
    /\ UNCHANGED <<privileged, child, desc, deadline, written>>

\* The context may have expired while the pipe was drained: that is a timeout
\* whatever the child did.  kill(-pid) fails when no group is left or when it
\* runs as root.
Classify ==
    LET signalled == IF privileged THEN {} ELSE Group IN
    /\ phase = "classify"
    /\ IF deadline
       THEN /\ desc' = [d \in Descendant |->
                          IF d \in signalled THEN Ended ELSE desc[d]]
            /\ result' = Limited([NoResult EXCEPT
                            !.timedOut = TRUE,
                            !.cleanup = IF signalled = {} THEN "failed" ELSE "completed"])
       ELSE /\ result' = Limited([NoResult EXCEPT !.exit = child])
            /\ UNCHANGED desc
    /\ phase' = "done"
    /\ UNCHANGED <<privileged, child, deadline, written>>

Executor == Start \/ Deadline \/ Kill \/ Reap \/ Drain \/ Classify

Next == Program \/ Executor

Spec == Init /\ [][Next]_vars

\* The server and its timer run on; processes that hold the pipe end or
\* redirect it in the end; the child is only known to end by itself when the
\* server cannot kill it.
FairSpec ==
    /\ Spec
    /\ WF_vars(Start) /\ WF_vars(Deadline) /\ WF_vars(Kill)
    /\ WF_vars(Reap) /\ WF_vars(Drain) /\ WF_vars(Classify)
    /\ \A d \in Descendant : WF_vars(End(d))
    /\ WF_vars(privileged /\ ChildEnds)

----------------------------------------------------------------------------
(* Properties *)

Returned == phase = "done" /\ child # "none"

\* A command that timed out leaves nobody of its group behind, whatever the
\* child started before it was killed and whenever the deadline came; those
\* who left the group or run as root are out of the server's reach.
GroupGone == Returned /\ result.timedOut /\ ~privileged => Group = {}

\* The exit code is the child's own: a child that the server killed is
\* reported as a timeout, never with a code, and a result that is not a
\* timeout carries the code of a child that ended before the deadline.
ExitIsTheChilds ==
    Returned =>
        /\ child = "killed" => result.timedOut
        /\ ~result.timedOut => result.exit = child /\ child \in {"zero", "nonzero"}

\* The output in the result is all that was ever written, also by processes
\* that outlive the child, or it is marked as cut.
OutputWhole ==
    Returned =>
        /\ result.output = written \/ result.truncated
        /\ result.truncated => MaxOutputBytes > 0 /\ result.output = MaxOutputBytes

\* Every execution ends: a program that never would is killed at its deadline,
\* and a background process that inherited the pipe delays the answer only as
\* long as it holds it.
EveryRunEnds == <>(phase = "done")
=============================================================================
