--------------------------- MODULE CommandService ---------------------------
(***************************************************************************)
(* The command service (internal/app/server.go) over the limiter: look the *)
(* command up, validate its arguments, build its argv, execute it, then    *)
(* write the audit event and count the result.                             *)
(*                                                                         *)
(* A call is a caller of LimitingExecutor with a stage of its own; the     *)
(* process behind the limiter is an arbitrary Outcome.                     *)
(***************************************************************************)
EXTENDS LimitingExecutor

CONSTANTS
    Unknown,      \* a command id that is not registered
    Requests,     \* the requests that arrive
    Outcomes,     \* what processes answer
    MaxCalls,     \* bound on the calls of one behaviour
    AuditFaults   \* whether the write of an audit event may fail

VARIABLES
    stage,     \* where each caller is in CommandService.Execute
    request,   \* the request it serves
    outcome,   \* what the executor answered it
    result,    \* the CommandResult it returns
    events,    \* audit events written, by status
    lost,      \* audit events whose write failed, by status
    metrics    \* the recorder's snapshot

svars == <<stage, request, outcome, result, events, lost, metrics>>
vars == <<lvars, svars>>

Stage == {"idle", "check", "execute", "audit", "record"}
Status == {"success", "failed", "rejected", "timeout", "truncated"}

\* valid, builds: whether the validator and the builder accept the arguments.
Request == [id : Command \cup {Unknown}, valid : BOOLEAN, builds : BOOLEAN]

\* executor.Result.  error is the kind of ExecutionError, exit the exit code
\* (-1: none or killed by a signal).
Started == [timedOut : {FALSE}, truncated : BOOLEAN, error : {"none"}, exit : {0}]
    \cup [timedOut : {FALSE}, truncated : BOOLEAN, error : {"exit"}, exit : {-1, 1}]
    \cup [timedOut : {TRUE}, truncated : BOOLEAN, error : {"timeout"}, exit : {-1}]
StartFailed ==
    [timedOut |-> FALSE, truncated |-> FALSE, error |-> "start", exit |-> -1]
PolicyDenied ==
    [timedOut |-> FALSE, truncated |-> FALSE, error |-> "policy_denied", exit |-> -1]
Outcome == Started \cup {StartFailed}

ASSUME ServiceAssumption ==
    /\ Unknown \notin Command
    /\ Requests \subseteq Request
    /\ Outcomes \subseteq Outcome
    /\ None \notin Request \cup Outcome \cup {PolicyDenied}
    /\ MaxCalls \in Nat
    /\ AuditFaults \in BOOLEAN

Category ==
    {"none", "not_found", "validation_error", "build_error",
     "timeout", "output_truncated", "execution_failed"}
CommandResult == [status : Status, category : Category]

ServiceTypeOK ==
    /\ LimiterTypeOK
    /\ stage \in [Caller -> Stage]
    /\ request \in [Caller -> Request \cup {None}]
    /\ outcome \in [Caller -> Outcome \cup {PolicyDenied, None}]
    /\ result \in [Caller -> CommandResult \cup {None}]
    /\ events \in [Status -> Nat]
    /\ lost \in [Status -> Nat]
    /\ metrics \in [requests : Nat, failures : Nat, timeouts : Nat, truncated : Nat]

ServiceInit ==
    /\ LimiterInit
    /\ stage = [c \in Caller |-> "idle"]
    /\ request = [c \in Caller |-> None]
    /\ outcome = [c \in Caller |-> None]
    /\ result = [c \in Caller |-> None]
    /\ events = [s \in Status |-> 0]
    /\ lost = [s \in Status |-> 0]
    /\ metrics = [requests |-> 0, failures |-> 0, timeouts |-> 0, truncated |-> 0]

Answer(status, category) == [status |-> status, category |-> category]
Advance(c, next) == stage' = [stage EXCEPT ![c] = next]
Busy == {c \in Caller : stage[c] # "idle"}

----------------------------------------------------------------------------
(* CommandService.Execute *)

Receive(c, r) ==
    /\ stage[c] = "idle"
    /\ metrics.requests + Cardinality(Busy) < MaxCalls
    /\ request' = [request EXCEPT ![c] = r]
    /\ Advance(c, "check")
    /\ UNCHANGED <<lvars, outcome, result, events, lost, metrics>>

\* Seeded bug: the registry's "not found" is not looked at.
AcceptedUnknown(r) == r.valid /\ r.builds

Accepted(r) == r.id # Unknown /\ r.valid /\ r.builds

\* The first check that fails names the category.
Rejection(r) ==
    Answer("rejected", CASE r.id = Unknown -> "not_found"
                         [] r.id # Unknown /\ ~r.valid -> "validation_error"
                         [] OTHER -> "build_error")

Reject(c) ==
    /\ stage[c] = "check"
    /\ ~Accepted(request[c])
    /\ result' = [result EXCEPT ![c] = Rejection(request[c])]
    /\ Advance(c, "audit")
    /\ UNCHANGED <<lvars, request, outcome, events, lost, metrics>>

EnterExecutor(c) ==
    /\ stage[c] = "check"
    /\ Accepted(request[c])
    /\ Call(c, request[c].id)
    /\ Advance(c, "execute")
    /\ UNCHANGED <<request, outcome, result, events, lost, metrics>>

TakeOrGive(c) ==
    /\ AcquireGlobal(c) \/ AcquireCommand(c) \/ ReleaseCommand(c)
    /\ UNCHANGED svars

Refuse(c) ==
    /\ DenyGlobal(c) \/ DenyCommand(c)
    /\ outcome' = [outcome EXCEPT ![c] = PolicyDenied]
    /\ UNCHANGED <<stage, request, result, events, lost, metrics>>

ProcessEnds(c) ==
    /\ Finish(c)
    /\ \E o \in Outcomes : outcome' = [outcome EXCEPT ![c] = o]
    /\ UNCHANGED <<stage, request, result, events, lost, metrics>>

\* Seeded bug: only the exit code is looked at, and absent without a process.
fromExecutionExitOnly(o) ==
    CASE o.timedOut -> Answer("timeout", "timeout")
      [] ~o.timedOut /\ o.truncated -> Answer("truncated", "output_truncated")
      [] ~o.timedOut /\ ~o.truncated /\ o.exit > 0 -> Answer("failed", "execution_failed")
      [] OTHER -> Answer("success", "none")

\* A timeout hides a truncation, and a truncation the exit code.
fromExecution(o) ==
    CASE o.timedOut -> Answer("timeout", "timeout")
      [] ~o.timedOut /\ o.truncated -> Answer("truncated", "output_truncated")
      [] ~o.timedOut /\ ~o.truncated /\ (o.error # "none" \/ o.exit # 0) ->
            Answer("failed", "execution_failed")
      [] OTHER -> Answer("success", "none")

LeaveExecutor(c) ==
    /\ ReleaseGlobal(c) \/ Denied(c)
    /\ result' = [result EXCEPT ![c] = fromExecution(outcome[c])]
    /\ Advance(c, "audit")
    /\ UNCHANGED <<request, outcome, events, lost, metrics>>

\* Seeded bug: the error of the auditor ends the call.
AuditOrReturn(c) ==
    /\ stage[c] = "audit"
    /\ \/ /\ events' = [events EXCEPT ![result[c].status] = @ + 1]
          /\ Advance(c, "record")
          /\ UNCHANGED lost
       \/ /\ AuditFaults
          /\ lost' = [lost EXCEPT ![result[c].status] = @ + 1]
          /\ Advance(c, "idle")
          /\ UNCHANGED events
    /\ UNCHANGED <<lvars, request, outcome, result, metrics>>

\* The error of the auditor is dropped.
Audit(c) ==
    /\ stage[c] = "audit"
    /\ \/ /\ events' = [events EXCEPT ![result[c].status] = @ + 1]
          /\ UNCHANGED lost
       \/ /\ AuditFaults
          /\ lost' = [lost EXCEPT ![result[c].status] = @ + 1]
          /\ UNCHANGED events
    /\ Advance(c, "record")
    /\ UNCHANGED <<lvars, request, outcome, result, metrics>>

One(condition) == IF condition THEN 1 ELSE 0

\* Recorder.Record under its mutex, and the return to the caller.
Record(c) ==
    LET status == result[c].status IN
    /\ stage[c] = "record"
    /\ metrics' =
         [requests  |-> metrics.requests + 1,
          failures  |-> metrics.failures + One(status \in {"failed", "rejected"}),
          timeouts  |-> metrics.timeouts + One(status = "timeout"),
          truncated |-> metrics.truncated + One(status = "truncated")]
    /\ Advance(c, "idle")
    /\ request' = [request EXCEPT ![c] = None]
    /\ outcome' = [outcome EXCEPT ![c] = None]
    /\ result' = [result EXCEPT ![c] = None]
    /\ UNCHANGED <<lvars, events, lost>>

Step(c) ==
    \/ Reject(c) \/ EnterExecutor(c)
    \/ TakeOrGive(c) \/ Refuse(c) \/ ProcessEnds(c) \/ LeaveExecutor(c)
    \/ Audit(c) \/ Record(c)

ServiceNext ==
    \E c \in Caller : Step(c) \/ \E r \in Requests : Receive(c, r)

ServiceSpec == ServiceInit /\ [][ServiceNext]_vars

\* A goroutine runs on, and the process behind the limiter ends: its pipes
\* are closed by its exit or by its deadline.
FairServiceSpec == ServiceSpec /\ \A c \in Caller : WF_vars(Step(c))

----------------------------------------------------------------------------
(* Properties *)

\* A rejected request has touched neither the limiter nor a process, and a
\* request that did is never reported as rejected: the caller may take
\* "rejected" to mean that nothing was done.
RejectedNeverRan ==
    \A c \in Caller :
        stage[c] \in {"audit", "record"} =>
            /\ result[c].status = "rejected" <=> outcome[c] = None
            /\ outcome[c] # None =>
                  request[c].id \in Command /\ request[c].valid /\ request[c].builds

\* "success" is said only of a process that ran, was not killed, exited 0 and
\* whose output is complete; never of a call the limiter refused or of a
\* program that could not be started.
SuccessIsReal ==
    \A c \in Caller :
        stage[c] \in {"audit", "record"} /\ result[c].status = "success" =>
            outcome[c] = [timedOut |-> FALSE, truncated |-> FALSE,
                          error |-> "none", exit |-> 0]

\* Events of a status that the recorder has counted too.
Counted(s) ==
    events[s] + lost[s]
    - Cardinality({c \in Caller : stage[c] = "record" /\ result[c].status = s})

\* Audit log and metrics tell the same story: every call is recorded once in
\* each, under the same status, whatever path it took and even when the
\* event's write failed.
CountersAgree ==
    /\ metrics.timeouts = Counted("timeout")
    /\ metrics.truncated = Counted("truncated")
    /\ metrics.failures = Counted("failed") + Counted("rejected")
    /\ metrics.requests = Counted("success") + metrics.failures
                          + metrics.timeouts + metrics.truncated

\* Every call returns, also one that meets a full limiter or a failing
\* auditor.
EveryCallReturns == \A c \in Caller : stage[c] # "idle" ~> stage[c] = "idle"
=============================================================================
