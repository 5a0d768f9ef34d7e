------------------------ MODULE CommandServiceProofs ------------------------
(***************************************************************************)
(* The command service: what it tells its callers, for every number of     *)
(* them, and that it uses the limiter as it is meant to be used.           *)
(***************************************************************************)
EXTENDS CommandService, LimitingExecutorProofs

\* A caller is in the limiter while its call executes, with a request that
\* passed every check.
InExecutor ==
    \A c \in Caller :
        /\ at[c] # "out" <=> stage[c] = "execute"
        /\ stage[c] # "idle" => request[c] \in Requests
        /\ stage[c] = "execute" => Accepted(request[c])

\* The executor has answered when, and only when, the call left its run.
Answered ==
    \A c \in Caller :
        /\ stage[c] \in {"idle", "check"} \/ at[c] \in {"global", "command", "run"}
              => outcome[c] = None
        /\ at[c] = "denied" => outcome[c] = PolicyDenied
        /\ at[c] = "leave" => outcome[c] \in Outcome
        /\ at[c] = "return" => outcome[c] \in Outcome \cup {PolicyDenied}

\* The result is the one of the failed check or of the executor's answer.
Explained ==
    \A c \in Caller :
        stage[c] \in {"audit", "record"} =>
            IF outcome[c] = None
            THEN /\ ~Accepted(request[c])
                 /\ result[c] = Rejection(request[c])
            ELSE /\ Accepted(request[c])
                 /\ outcome[c] \in Outcome \cup {PolicyDenied}
                 /\ result[c] = fromExecution(outcome[c])

\* Types of the variables the argument needs.
CallTypes ==
    /\ at \in [Caller -> Place]
    /\ stage \in [Caller -> Stage]
    /\ request \in [Caller -> Request \cup {None}]
    /\ outcome \in [Caller -> Outcome \cup {PolicyDenied, None}]
    /\ result \in [Caller -> CommandResult \cup {None}]

SInv == CallTypes /\ InExecutor /\ Answered /\ Explained

----------------------------------------------------------------------------
(* Operators *)

\* Both mappings give results of the declared kinds.
LEMMA ResultTypes ==
    /\ \A r : Rejection(r) \in CommandResult
    /\ \A o : fromExecution(o) \in CommandResult
BY DEF Rejection, fromExecution, Answer, CommandResult, Status, Category

\* None is neither a request nor an answer.
LEMMA NoneIsNothing ==
    /\ \A r \in Requests : r \in Request /\ r # None
    /\ \A o \in Outcome \cup {PolicyDenied} : o # None
BY ServiceAssumption DEF PolicyDenied

----------------------------------------------------------------------------
(* The inductive invariant *)

LEMMA ServiceInitOK == ServiceInit => SInv
BY DEF ServiceInit, LimiterInit, SInv, CallTypes, InExecutor, Answered, Explained,
       Place, Stage

LEMMA ServiceInductive == SInv /\ [ServiceNext]_vars => SInv'
<1> SUFFICES ASSUME SInv, [ServiceNext]_vars PROVE SInv'
  OBVIOUS
<1> USE DEF SInv
<1>1. CASE UNCHANGED vars
  BY <1>1 DEF vars, lvars, svars, CallTypes, InExecutor, Answered, Explained
<1>2. ASSUME NEW c \in Caller, NEW r \in Requests, Receive(c, r)
      PROVE  SInv'
  BY <1>2, NoneIsNothing
    DEF Receive, Advance, lvars, CallTypes, InExecutor, Answered, Explained, Stage
<1>3. ASSUME NEW c \in Caller, Reject(c)
      PROVE  SInv'
  BY <1>3, NoneIsNothing, ResultTypes
    DEF Reject, Advance, lvars, CallTypes, InExecutor, Answered, Explained, Stage
<1>4. ASSUME NEW c \in Caller, EnterExecutor(c)
      PROVE  SInv'
  BY <1>4 DEF EnterExecutor, Call, Move, Advance, CallTypes, InExecutor, Answered,
       Explained, Stage, Place
<1>5. ASSUME NEW c \in Caller, TakeOrGive(c)
      PROVE  SInv'
  BY <1>5 DEF TakeOrGive, AcquireGlobal, AcquireCommand, ReleaseCommand, Move, svars,
       CallTypes, InExecutor, Answered, Explained, Stage, Place
<1>6. ASSUME NEW c \in Caller, Refuse(c)
      PROVE  SInv'
  BY <1>6 DEF Refuse, DenyGlobal, DenyCommand, Move,
       CallTypes, InExecutor, Answered, Explained, Stage, Place
<1>7. ASSUME NEW c \in Caller, ProcessEnds(c)
      PROVE  SInv'
  BY <1>7, ServiceAssumption DEF ProcessEnds, Finish, Move,
       CallTypes, InExecutor, Answered, Explained, Stage, Place
<1>8. ASSUME NEW c \in Caller, LeaveExecutor(c)
      PROVE  SInv'
  BY <1>8, NoneIsNothing, ResultTypes
    DEF LeaveExecutor, ReleaseGlobal, Denied, Leave, Move, Advance,
       CallTypes, InExecutor, Answered, Explained, Stage, Place
<1>9. ASSUME NEW c \in Caller, Audit(c)
      PROVE  SInv'
  BY <1>9 DEF Audit, Advance, lvars, CallTypes, InExecutor, Answered, Explained, Stage
<1>10. ASSUME NEW c \in Caller, Record(c)
       PROVE  SInv'
  BY <1>10 DEF Record, Advance, lvars, CallTypes, InExecutor, Answered, Explained, Stage
<1> QED
  BY <1>1, <1>2, <1>3, <1>4, <1>5, <1>6, <1>7, <1>8, <1>9, <1>10
    DEF ServiceNext, Step

\* What a caller is told follows from its request and the executor's answer.
THEOREM ServiceInvariance == ServiceSpec => []SInv
BY ServiceInitOK, ServiceInductive, PTL DEF ServiceSpec

----------------------------------------------------------------------------
(* What follows from it *)

\* "rejected" means that nothing ran, for every request and every interleaving.
THEOREM RejectionSafety == ServiceSpec => []RejectedNeverRan
<1>1. SInv => RejectedNeverRan
  <2> SUFFICES ASSUME SInv, NEW c \in Caller, stage[c] \in {"audit", "record"}
               PROVE  /\ result[c].status = "rejected" <=> outcome[c] = None
                      /\ outcome[c] # None =>
                            request[c].id \in Command /\ request[c].valid /\ request[c].builds
    BY DEF RejectedNeverRan
  <2>1. request[c] \in Request
    BY NoneIsNothing DEF SInv, InExecutor
  <2>2. \A o : fromExecution(o).status # "rejected"
    BY DEF fromExecution, Answer
  <2>3. Rejection(request[c]).status = "rejected"
    BY DEF Rejection, Answer
  <2>4. result[c].status = "rejected" <=> outcome[c] = None
    BY <2>2, <2>3 DEF SInv, Explained
  <2>5. outcome[c] # None => Accepted(request[c])
    BY DEF SInv, Explained
  <2>6. outcome[c] # None =>
            request[c].id # Unknown /\ request[c].valid /\ request[c].builds
    BY <2>5, Zenon DEF Accepted
  <2>7. request[c].id # Unknown => request[c].id \in Command
    BY <2>1 DEF Request
  <2> QED
    BY <2>4, <2>6, <2>7
<1> QED
  BY <1>1, ServiceInvariance, PTL

\* "success" is said only of a process that ran to its end, exited 0 and whose
\* output is whole.
THEOREM SuccessSafety == ServiceSpec => []SuccessIsReal
<1>1. ASSUME NEW o \in Outcome \cup {PolicyDenied}, fromExecution(o).status = "success"
      PROVE  o = [timedOut |-> FALSE, truncated |-> FALSE, error |-> "none", exit |-> 0]
  <2>1. ~o.timedOut /\ ~o.truncated /\ o.error = "none"
    BY <1>1 DEF fromExecution, Answer
  <2>2. o \in [timedOut : {FALSE}, truncated : BOOLEAN, error : {"none"}, exit : {0}]
    <3>1. o.error = "none"
      BY <2>1
    <3>2. PolicyDenied.error # "none" /\ StartFailed.error # "none"
      BY DEF PolicyDenied, StartFailed
    <3>3. o \in Started
      BY <3>1, <3>2 DEF Outcome
    <3> QED
      BY <3>1, <3>3 DEF Started
  <2>3. o.truncated = FALSE
    BY <2>1, <2>2
  <2> QED
    BY <2>2, <2>3
<1>2. SInv => SuccessIsReal
  <2> SUFFICES ASSUME SInv, NEW c \in Caller, stage[c] \in {"audit", "record"},
                      result[c].status = "success"
               PROVE  outcome[c] = [timedOut |-> FALSE, truncated |-> FALSE,
                                    error |-> "none", exit |-> 0]
    BY DEF SuccessIsReal
  <2>1. Rejection(request[c]).status # "success"
    BY DEF Rejection, Answer
  <2> QED
    BY <1>1, <2>1 DEF SInv, Explained
<1> QED
  BY <1>2, ServiceInvariance, PTL

\* The service drives the limiter as its specification allows: each of its
\* steps is a step of the limiter or leaves it alone.
THEOREM ServiceUsesLimiter == ServiceSpec => LimiterSpec
<1>1. ServiceInit => LimiterInit
  BY DEF ServiceInit
<1>2. SInv /\ [ServiceNext]_vars => [LimiterNext]_lvars
  <2> SUFFICES ASSUME SInv, [ServiceNext]_vars PROVE [LimiterNext]_lvars
    OBVIOUS
  <2>1. CASE UNCHANGED vars
    BY <2>1 DEF vars
  <2>2. ASSUME NEW c \in Caller, NEW r \in Requests, Receive(c, r)
        PROVE  UNCHANGED lvars
    BY <2>2 DEF Receive
  <2>3. ASSUME NEW c \in Caller, Step(c)
        PROVE  [LimiterNext]_lvars
    <3>1. CASE Reject(c) \/ Audit(c) \/ Record(c)
      BY <3>1 DEF Reject, Audit, Record
    <3>2. CASE EnterExecutor(c)
      <4>1. request[c].id \in Command
        BY <3>2, NoneIsNothing
          DEF EnterExecutor, SInv, InExecutor, Accepted, Request
      <4> QED
        BY <3>2, <4>1 DEF EnterExecutor, LimiterNext
    <3>3. CASE TakeOrGive(c) \/ Refuse(c) \/ ProcessEnds(c) \/ LeaveExecutor(c)
      BY <3>3 DEF TakeOrGive, Refuse, ProcessEnds, LeaveExecutor, LimiterNext, LimiterStep
    <3> QED
      BY <2>3, <3>1, <3>2, <3>3 DEF Step
  <2> QED
    BY <2>1, <2>2, <2>3 DEF ServiceNext
<1> QED
  BY <1>1, <1>2, ServiceInvariance, PTL DEF ServiceSpec, LimiterSpec
----------------------------------------------------------------------------
(* Audit log and metrics *)

CountTypes ==
    /\ events \in [Status -> Nat]
    /\ lost \in [Status -> Nat]
    /\ metrics \in [requests : Nat, failures : Nat, timeouts : Nat, truncated : Nat]

\* The calls whose event is written and that are not yet counted.
Pending(s) == {c \in Caller : stage[c] = "record" /\ result[c].status = s}

\* Events of a status and calls of it that are pending are whole numbers.
LEMMA CountedType ==
    ASSUME CountTypes, NEW s \in Status
    PROVE  /\ Counted(s) = events[s] + lost[s] - Cardinality(Pending(s))
           /\ Cardinality(Pending(s)) \in Nat
           /\ events[s] \in Nat /\ lost[s] \in Nat
           /\ Counted(s) \in Int
<1>1. Cardinality(Pending(s)) \in Nat
  BY FiniteCallers DEF Pending
<1>2. Counted(s) = events[s] + lost[s] - Cardinality(Pending(s))
  BY DEF Counted, Pending
<1> QED BY <1>1, <1>2 DEF CountTypes

\* A call that is audited or counted has a result with a status.
LEMMA StatusKnown ==
    ASSUME SInv, NEW c \in Caller, stage[c] \in {"audit", "record"}
    PROVE  result[c].status \in Status
<1>1. result[c] \in CommandResult
  BY ResultTypes DEF SInv, Explained
<1> QED BY <1>1 DEF CommandResult

\* Neither the numbers nor the calls between the two writes change.
LEMMA QuietStep ==
    ASSUME CountTypes, UNCHANGED <<events, lost, metrics>>,
           \A s \in Status : Pending(s)' = Pending(s)
    PROVE  CountTypes' /\ (CountersAgree => CountersAgree')
<1>1. \A s \in Status : Counted(s)' = Counted(s)
  BY DEF Counted, Pending
<1> QED BY <1>1 DEF CountTypes, CountersAgree, Status

\* Every step outside the two writes is such a step.
LEMMA OtherSteps ==
    ASSUME SInv, CountTypes, NEW c \in Caller,
           \/ \E r \in Requests : Receive(c, r)
           \/ Reject(c) \/ EnterExecutor(c) \/ TakeOrGive(c) \/ Refuse(c)
           \/ ProcessEnds(c) \/ LeaveExecutor(c)
    PROVE  CountTypes' /\ (CountersAgree => CountersAgree')
<1> USE DEF SInv
<1>1. CASE \E r \in Requests : Receive(c, r)
  <2>1. \A s \in Status : Pending(s)' = Pending(s)
    BY <1>1 DEF Receive, Advance, Pending, CallTypes
  <2> QED BY <1>1, <2>1, QuietStep DEF Receive
<1>2. CASE Reject(c)
  <2>1. \A s \in Status : Pending(s)' = Pending(s)
    BY <1>2 DEF Reject, Advance, Pending, CallTypes
  <2> QED BY <1>2, <2>1, QuietStep DEF Reject
<1>3. CASE EnterExecutor(c)
  <2>1. \A s \in Status : Pending(s)' = Pending(s)
    BY <1>3 DEF EnterExecutor, Advance, Pending, CallTypes
  <2> QED BY <1>3, <2>1, QuietStep DEF EnterExecutor
<1>4. CASE TakeOrGive(c) \/ Refuse(c) \/ ProcessEnds(c)
  <2>1. UNCHANGED <<stage, result, events, lost, metrics>>
    BY <1>4 DEF TakeOrGive, Refuse, ProcessEnds, svars
  <2>2. \A s \in Status : Pending(s)' = Pending(s)
    BY <2>1 DEF Pending
  <2> QED BY <2>1, <2>2, QuietStep
<1>5. CASE LeaveExecutor(c)
  <2>1. stage[c] = "execute"
    BY <1>5 DEF LeaveExecutor, ReleaseGlobal, Denied, InExecutor
  <2>2. \A s \in Status : Pending(s)' = Pending(s)
    BY <1>5, <2>1 DEF LeaveExecutor, Advance, Pending, CallTypes
  <2> QED BY <1>5, <2>2, QuietStep DEF LeaveExecutor
<1> QED BY <1>1, <1>2, <1>3, <1>4, <1>5

\* One event more and one call more that is not yet counted.
LEMMA AuditStep ==
    ASSUME SInv, CountTypes, NEW c \in Caller, Audit(c)
    PROVE  CountTypes' /\ (CountersAgree => CountersAgree')
<1>1. PICK s0 \in Status : s0 = result[c].status
  BY StatusKnown DEF Audit
<1>2. UNCHANGED <<metrics, result>>
  BY DEF Audit
<1>3. /\ CountTypes'
      /\ \A s \in Status :
            events'[s] + lost'[s] = events[s] + lost[s] + (IF s = s0 THEN 1 ELSE 0)
  <2>1. CASE events' = [events EXCEPT ![s0] = @ + 1] /\ lost' = lost
    BY <1>1, <1>2, <2>1 DEF CountTypes
  <2>2. CASE lost' = [lost EXCEPT ![s0] = @ + 1] /\ events' = events
    BY <1>1, <1>2, <2>2 DEF CountTypes
  <2> QED BY <1>1, <2>1, <2>2 DEF Audit
<1>4. /\ c \notin Pending(s0) /\ Pending(s0)' = Pending(s0) \cup {c}
      /\ \A s \in Status \ {s0} : Pending(s)' = Pending(s)
  BY <1>1 DEF Audit, Advance, Pending, SInv, CallTypes
<1>5. Cardinality(Pending(s0)') = Cardinality(Pending(s0)) + 1
  BY <1>4, OneMore DEF Pending
<1>6. \A s \in Status : Counted(s)' = Counted(s)
  <2> SUFFICES ASSUME NEW s \in Status PROVE Counted(s)' = Counted(s)
    OBVIOUS
  <2>1. Counted(s)' = events'[s] + lost'[s] - Cardinality(Pending(s)')
    BY DEF Counted, Pending
  <2>2. Cardinality(Pending(s)') = Cardinality(Pending(s)) + (IF s = s0 THEN 1 ELSE 0)
    <3>1. CASE s = s0 BY <1>5, <3>1
    <3>2. CASE s # s0
      <4>1. Pending(s)' = Pending(s) BY <1>4, <3>2, Zenon
      <4> QED BY <3>2, <4>1, CountedType
    <3> QED BY <3>1, <3>2
  <2>4. /\ Counted(s) = events[s] + lost[s] - Cardinality(Pending(s))
        /\ Cardinality(Pending(s)) \in Nat /\ events[s] \in Nat /\ lost[s] \in Nat
    BY CountedType
  <2>5. events'[s] + lost'[s] = events[s] + lost[s] + (IF s = s0 THEN 1 ELSE 0)
    BY <1>3
  <2>6. events'[s] \in Nat /\ lost'[s] \in Nat
    BY <1>3 DEF CountTypes
  <2>7. CASE s = s0 BY <2>1, <2>2, <2>4, <2>5, <2>6, <2>7
  <2>8. CASE s # s0 BY <2>1, <2>2, <2>4, <2>5, <2>6, <2>8
  <2> QED BY <2>7, <2>8
<1> QED BY <1>2, <1>3, <1>6 DEF CountersAgree, Status

\* The call is counted and no longer pending.
LEMMA RecordStep ==
    ASSUME SInv, CountTypes, NEW c \in Caller, Record(c)
    PROVE  CountTypes' /\ (CountersAgree => CountersAgree')
<1>1. PICK s0 \in Status : s0 = result[c].status
  BY StatusKnown DEF Record
<1>2. UNCHANGED <<events, lost>>
  BY DEF Record
<1>3. /\ metrics'.requests = metrics.requests + 1
      /\ metrics'.failures = metrics.failures + One(s0 \in {"failed", "rejected"})
      /\ metrics'.timeouts = metrics.timeouts + One(s0 = "timeout")
      /\ metrics'.truncated = metrics.truncated + One(s0 = "truncated")
      /\ metrics' \in [requests : Nat, failures : Nat, timeouts : Nat, truncated : Nat]
  BY <1>1 DEF Record, One, CountTypes
<1>4. CountTypes'
  BY <1>2, <1>3 DEF CountTypes
<1>5. /\ c \in Pending(s0) /\ Pending(s0)' = Pending(s0) \ {c}
      /\ \A s \in Status \ {s0} : Pending(s)' = Pending(s)
  BY <1>1 DEF Record, Advance, Pending, SInv, CallTypes
<1>6. Cardinality(Pending(s0)') = Cardinality(Pending(s0)) - 1
  BY <1>5, OneLess DEF Pending
<1>7. \A s \in Status : Counted(s)' = Counted(s) + One(s = s0)
  <2> SUFFICES ASSUME NEW s \in Status PROVE Counted(s)' = Counted(s) + One(s = s0)
    OBVIOUS
  <2>1. Counted(s)' = events[s] + lost[s] - Cardinality(Pending(s)')
    BY <1>2 DEF Counted, Pending
  <2>2. Cardinality(Pending(s)') = Cardinality(Pending(s)) - One(s = s0)
    <3>1. CASE s = s0 BY <1>6, <3>1 DEF One
    <3>2. CASE s # s0
      <4>1. Pending(s)' = Pending(s) BY <1>5, <3>2, Zenon
      <4> QED BY <3>2, <4>1, CountedType DEF One
    <3> QED BY <3>1, <3>2
  <2>3. One(s = s0) \in {0, 1}
    BY DEF One
  <2>4. /\ Counted(s) = events[s] + lost[s] - Cardinality(Pending(s))
        /\ Cardinality(Pending(s)) \in Nat /\ events[s] \in Nat /\ lost[s] \in Nat
    BY CountedType
  <2> QED BY <2>1, <2>2, <2>3, <2>4
<1>8. /\ metrics.requests \in Nat /\ metrics.failures \in Nat
      /\ metrics.timeouts \in Nat /\ metrics.truncated \in Nat
      /\ \A s \in Status : Counted(s) \in Int
  BY CountedType DEF CountTypes
<1> QED
  BY <1>1, <1>3, <1>4, <1>7, <1>8 DEF CountersAgree, Status, One

\* Audit log and metrics agree before the first call, and after every step.
LEMMA ServiceCounts == ServiceSpec => [](CountTypes /\ CountersAgree)
<1>1. ServiceInit => CountTypes /\ CountersAgree
  <2> SUFFICES ASSUME ServiceInit PROVE CountTypes /\ CountersAgree
    OBVIOUS
  <2>1. \A s \in Status : Pending(s) = {}
    BY DEF ServiceInit, Pending
  <2>2. CountTypes BY DEF ServiceInit, CountTypes
  <2>3. \A s \in Status : Counted(s) = 0
    <3>1. Cardinality({}) = 0 BY FS_EmptySet
    <3>2. \A s \in Status : events[s] = 0 /\ lost[s] = 0 BY DEF ServiceInit
    <3>3. \A s \in Status : Counted(s) = events[s] + lost[s] - Cardinality(Pending(s))
      BY DEF Counted, Pending
    <3> QED BY <2>1, <3>1, <3>2, <3>3
  <2> QED BY <2>2, <2>3 DEF ServiceInit, CountersAgree, Status
<1>2. SInv /\ CountTypes /\ CountersAgree /\ [ServiceNext]_vars
        => CountTypes' /\ CountersAgree'
  <2> SUFFICES ASSUME SInv, CountTypes, CountersAgree, [ServiceNext]_vars
               PROVE  CountTypes' /\ CountersAgree'
    OBVIOUS
  <2>1. CASE UNCHANGED vars
    BY <2>1, QuietStep DEF vars, svars, Pending
  <2> QED
    BY <2>1, OtherSteps, AuditStep, RecordStep DEF ServiceNext, Step
<1> QED BY <1>1, <1>2, ServiceInvariance, PTL DEF ServiceSpec

\* Every variable of the service and of its limiter keeps its type.
THEOREM ServiceTyping == ServiceSpec => []ServiceTypeOK
<1>1. LInv => LimiterTypeOK BY DEF LInv
<1>2. SInv /\ CountTypes /\ LimiterTypeOK => ServiceTypeOK
  BY DEF SInv, CallTypes, CountTypes, ServiceTypeOK
<1> QED
  BY <1>1, <1>2, ServiceInvariance, ServiceCounts, ServiceUsesLimiter, LimiterInvariance, PTL

\* Audit log and metrics tell the same story under every interleaving of the
\* callers and whichever audit writes fail (server.go drops their errors and
\* counts all the same).
THEOREM OneStory == ServiceSpec => []CountersAgree
BY ServiceCounts, PTL

\* The limits hold for the service's calls too.
THEOREM ServiceWithinLimits == ServiceSpec => [](LimitsRespected /\ ReleaseNeverBlocks)
BY ServiceUsesLimiter, Limits, NoBlockedRelease, PTL
=============================================================================
