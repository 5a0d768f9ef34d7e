-------------------------- MODULE LimitingExecutor --------------------------
(***************************************************************************)
(* The concurrency limiter (internal/executor/limiter_concurrency.go): a   *)
(* call takes a token of the global channel, then one of the channel of    *)
(* its command, runs, and gives both back in reverse order.  A full        *)
(* channel refuses at once; nobody waits for a token.                      *)
(*                                                                         *)
(* Callers are goroutines that share one LimitingExecutor.  The server of  *)
(* this repository answers one request after the other and so has a single *)
(* caller per process; the type is written, and tested, for many.          *)
(***************************************************************************)
EXTENDS Integers, FiniteSets

CONSTANTS
    Caller,         \* goroutines
    Command,        \* command ids
    GlobalLimit,    \* NewLimitingExecutor's globalLimit; none when =< 0
    CommandLimit,   \* policy.PerCommandLimit of each command; none when =< 0
    None            \* no value

ASSUME LimitAssumption ==
    /\ GlobalLimit \in Int
    /\ CommandLimit \in [Command -> Int]
    /\ None \notin Command
ASSUME CallerAssumption == IsFiniteSet(Caller)

VARIABLES
    at,       \* where each caller is in Execute
    cmd,      \* the command it executes, None outside
    global,   \* tokens in the global channel
    byID      \* tokens in the channel of each command; made empty on first use

lvars == <<at, cmd, global, byID>>

Place == {"out", "global", "command", "run", "leave", "return", "denied"}

LimiterTypeOK ==
    /\ at \in [Caller -> Place]
    /\ cmd \in [Caller -> Command \cup {None}]
    /\ \A c \in Caller : at[c] # "out" => cmd[c] \in Command
    /\ global \in Nat
    /\ byID \in [Command -> Nat]

LimiterInit ==
    /\ at = [c \in Caller |-> "out"]
    /\ cmd = [c \in Caller |-> None]
    /\ global = 0
    /\ byID = [k \in Command |-> 0]

Move(c, place) == at' = [at EXCEPT ![c] = place]

\* The call returns to its caller.
Leave(c) ==
    /\ Move(c, "out")
    /\ cmd' = [cmd EXCEPT ![c] = None]

HasGlobal == GlobalLimit > 0
HasLimit(k) == CommandLimit[k] > 0

Call(c, k) ==
    /\ at[c] = "out"
    /\ Move(c, "global")
    /\ cmd' = [cmd EXCEPT ![c] = k]
    /\ UNCHANGED <<global, byID>>

AcquireGlobal(c) ==
    /\ at[c] = "global"
    /\ ~HasGlobal \/ global < GlobalLimit
    /\ global' = IF HasGlobal THEN global + 1 ELSE global
    /\ Move(c, "command")
    /\ UNCHANGED <<cmd, byID>>

\* "global concurrency limit reached"
DenyGlobal(c) ==
    /\ at[c] = "global"
    /\ HasGlobal /\ global >= GlobalLimit
    /\ Move(c, "denied")
    /\ UNCHANGED <<cmd, global, byID>>

AcquireCommand(c) ==
    LET k == cmd[c] IN
    /\ at[c] = "command"
    /\ ~HasLimit(k) \/ byID[k] < CommandLimit[k]
    /\ byID' = IF HasLimit(k) THEN [byID EXCEPT ![k] = @ + 1] ELSE byID
    /\ Move(c, "run")
    /\ UNCHANGED <<cmd, global>>

\* Seeded bug: the early return forgets the token of the global channel.
DenyCommandLeak(c) ==
    /\ at[c] = "command"
    /\ HasLimit(cmd[c]) /\ byID[cmd[c]] >= CommandLimit[cmd[c]]
    /\ Move(c, "denied")
    /\ UNCHANGED <<cmd, global, byID>>

\* Seeded bug: both receives are deferred before the refusal.
DenyCommandReleases(c) ==
    /\ at[c] = "command"
    /\ HasLimit(cmd[c]) /\ byID[cmd[c]] >= CommandLimit[cmd[c]]
    /\ byID' = [byID EXCEPT ![cmd[c]] = @ - 1]
    /\ Move(c, "return")
    /\ UNCHANGED <<cmd, global>>

\* "per-command concurrency limit reached"; the deferred release of the
\* global token is still to come.
DenyCommand(c) ==
    /\ at[c] = "command"
    /\ HasLimit(cmd[c]) /\ byID[cmd[c]] >= CommandLimit[cmd[c]]
    /\ Move(c, "return")
    /\ UNCHANGED <<cmd, global, byID>>

\* next.Execute returns.
Finish(c) ==
    /\ at[c] = "run"
    /\ Move(c, "leave")
    /\ UNCHANGED <<cmd, global, byID>>

\* Seeded bug: the command's token is released although none was taken.
ReleaseCommandAlways(c) ==
    /\ at[c] = "leave"
    /\ byID[cmd[c]] > 0
    /\ byID' = [byID EXCEPT ![cmd[c]] = @ - 1]
    /\ Move(c, "return")
    /\ UNCHANGED <<cmd, global>>

\* Deferred receives, in reverse order; a receive from an empty channel blocks.
ReleaseCommand(c) ==
    LET k == cmd[c] IN
    /\ at[c] = "leave"
    /\ HasLimit(k) => byID[k] > 0
    /\ byID' = IF HasLimit(k) THEN [byID EXCEPT ![k] = @ - 1] ELSE byID
    /\ Move(c, "return")
    /\ UNCHANGED <<cmd, global>>

ReleaseGlobal(c) ==
    /\ at[c] = "return"
    /\ HasGlobal => global > 0
    /\ global' = IF HasGlobal THEN global - 1 ELSE global
    /\ Leave(c)
    /\ UNCHANGED byID

\* A call without a token returns policyDeniedResult.
Denied(c) ==
    /\ at[c] = "denied"
    /\ Leave(c)
    /\ UNCHANGED <<global, byID>>

LimiterStep(c) ==
    \/ AcquireGlobal(c) \/ DenyGlobal(c)
    \/ AcquireCommand(c) \/ DenyCommand(c)
    \/ Finish(c) \/ ReleaseCommand(c) \/ ReleaseGlobal(c) \/ Denied(c)

LimiterNext ==
    \E c \in Caller : LimiterStep(c) \/ \E k \in Command : Call(c, k)

LimiterSpec == LimiterInit /\ [][LimiterNext]_lvars

----------------------------------------------------------------------------
(* Properties *)

InGlobal == {c \in Caller : at[c] \in {"command", "run", "leave", "return"}}
InCommand(k) == {c \in Caller : cmd[c] = k /\ at[c] \in {"run", "leave"}}
RunningCalls == {c \in Caller : at[c] = "run"}

\* No token is leaked or given back twice, on any path through Execute,
\* refusals and early returns included: each channel holds one token per
\* caller between its acquire and its release.
TokensAccounted ==
    /\ HasGlobal => global = Cardinality(InGlobal)
    /\ \A k \in Command :
          HasLimit(k) => byID[k] = Cardinality(InCommand(k))

\* Never more commands run at once than the limits allow, in all and per
\* command.
LimitsRespected ==
    /\ HasGlobal => Cardinality(RunningCalls) =< GlobalLimit
    /\ \A k \in Command :
          HasLimit(k) =>
              Cardinality({c \in RunningCalls : cmd[c] = k}) =< CommandLimit[k]

\* The deferred receive of a caller that leaves never finds its channel empty:
\* it would block for ever and with it the request.
ReleaseNeverBlocks ==
    \A c \in Caller :
        /\ at[c] = "leave" /\ HasLimit(cmd[c]) => byID[cmd[c]] > 0
        /\ at[c] = "return" /\ HasGlobal => global > 0
=============================================================================
