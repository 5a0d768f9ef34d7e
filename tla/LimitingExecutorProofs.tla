----------------------- MODULE LimitingExecutorProofs -----------------------
(***************************************************************************)
(* The limiter is correct for every finite set of goroutines, every set of *)
(* commands and every limits.                                              *)
(***************************************************************************)
EXTENDS LimitingExecutor, FiniteSetTheorems, TLAPS

\* The channels never hold more than their capacity.
WithinCapacity ==
    /\ HasGlobal => global =< GlobalLimit
    /\ \A k \in Command : HasLimit(k) => byID[k] =< CommandLimit[k]

LInv == LimiterTypeOK /\ TokensAccounted /\ WithinCapacity

----------------------------------------------------------------------------
(* Counting callers *)

\* A set of callers is finite.
LEMMA FiniteCallers ==
    ASSUME NEW S \in SUBSET Caller
    PROVE  IsFiniteSet(S) /\ Cardinality(S) \in Nat
BY CallerAssumption, FS_Subset, FS_CardinalityType

\* One more caller.
LEMMA OneMore ==
    ASSUME NEW S \in SUBSET Caller, NEW c \in Caller, c \notin S
    PROVE  Cardinality(S \cup {c}) = Cardinality(S) + 1
BY FiniteCallers, FS_AddElement

\* One caller less; there was at least one.
LEMMA OneLess ==
    ASSUME NEW S \in SUBSET Caller, NEW c \in S
    PROVE  /\ Cardinality(S) > 0
           /\ Cardinality(S \ {c}) = Cardinality(S) - 1
<1>1. IsFiniteSet(S) /\ Cardinality(S) \in Nat
  BY FiniteCallers
<1>2. Cardinality(S) # 0
  BY <1>1, FS_EmptySet
<1>3. Cardinality(S \ {c}) = Cardinality(S) - 1
  BY <1>1, FS_RemoveElement
<1> QED
  BY <1>1, <1>2, <1>3

----------------------------------------------------------------------------
(* The inductive step *)

\* No caller holds a token before the first call.
LEMMA LimiterInitOK == LimiterInit => LInv
<1> SUFFICES ASSUME LimiterInit PROVE LInv
  OBVIOUS
<1>1. InGlobal = {} /\ \A k \in Command : InCommand(k) = {}
  BY DEF LimiterInit, InGlobal, InCommand
<1>2. Cardinality({}) = 0
  BY FS_EmptySet
<1>3. LimiterTypeOK
  BY DEF LimiterInit, LimiterTypeOK, Place
<1>4. TokensAccounted
  BY <1>1, <1>2 DEF LimiterInit, TokensAccounted
<1>5. WithinCapacity
  BY LimitAssumption DEF LimiterInit, WithinCapacity, HasGlobal, HasLimit
<1> QED
  BY <1>3, <1>4, <1>5 DEF LInv

\* A step that changes no token and moves no caller over the edge of a
\* critical part.
LEMMA NoToken ==
    ASSUME LInv, LimiterTypeOK', UNCHANGED <<global, byID>>,
           InGlobal' = InGlobal,
           \A k \in Command : InCommand(k)' = InCommand(k)
    PROVE  LInv'
BY DEF LInv, TokensAccounted, WithinCapacity, HasGlobal, HasLimit

\* Each step of each caller preserves the invariant.
LEMMA LimiterInductive == LInv /\ [LimiterNext]_lvars => LInv'
<1> SUFFICES ASSUME LInv, [LimiterNext]_lvars
             PROVE  LInv'
  OBVIOUS
<1> USE LimitAssumption DEF LInv
<1> InGlobal \in SUBSET Caller /\ \A k \in Command : InCommand(k) \in SUBSET Caller
  BY DEF InGlobal, InCommand
<1>1. CASE UNCHANGED lvars
  BY <1>1, NoToken DEF lvars, LimiterTypeOK, InGlobal, InCommand
<1>2. ASSUME NEW c \in Caller, NEW k \in Command, Call(c, k)
      PROVE  LInv'
  <2>1. LimiterTypeOK'
    BY <1>2 DEF Call, Move, LimiterTypeOK, Place
  <2>2. InGlobal' = InGlobal /\ \A j \in Command : InCommand(j)' = InCommand(j)
    BY <1>2 DEF Call, Move, LimiterTypeOK, InGlobal, InCommand
  <2> QED
    BY <1>2, <2>1, <2>2, NoToken DEF Call
<1>3. ASSUME NEW c \in Caller, AcquireGlobal(c)
      PROVE  LInv'
  <2>1. LimiterTypeOK'
    BY <1>3 DEF AcquireGlobal, Move, LimiterTypeOK, Place, HasGlobal
  <2>2. c \notin InGlobal /\ InGlobal' = InGlobal \cup {c}
    BY <1>3 DEF AcquireGlobal, Move, LimiterTypeOK, InGlobal
  <2>3. \A j \in Command : InCommand(j)' = InCommand(j)
    BY <1>3 DEF AcquireGlobal, Move, LimiterTypeOK, InCommand
  <2>4. Cardinality(InGlobal') = Cardinality(InGlobal) + 1
    BY <2>2, OneMore
  <2>5. TokensAccounted'
    BY <1>3, <2>3, <2>4 DEF AcquireGlobal, TokensAccounted, HasGlobal, HasLimit
  <2>6. WithinCapacity'
    BY <1>3 DEF AcquireGlobal, WithinCapacity, HasGlobal, HasLimit, LimiterTypeOK
  <2> QED
    BY <2>1, <2>5, <2>6
<1>4. ASSUME NEW c \in Caller, DenyGlobal(c)
      PROVE  LInv'
  <2>1. LimiterTypeOK'
    BY <1>4 DEF DenyGlobal, Move, LimiterTypeOK, Place
  <2>2. InGlobal' = InGlobal /\ \A j \in Command : InCommand(j)' = InCommand(j)
    BY <1>4 DEF DenyGlobal, Move, LimiterTypeOK, InGlobal, InCommand
  <2> QED
    BY <1>4, <2>1, <2>2, NoToken DEF DenyGlobal
<1>5. ASSUME NEW c \in Caller, AcquireCommand(c)
      PROVE  LInv'
  <2> DEFINE k == cmd[c]
  <2>1. k \in Command /\ k = cmd'[c]
    BY <1>5 DEF AcquireCommand, LimiterTypeOK
  <2>2. LimiterTypeOK'
    BY <1>5, <2>1 DEF AcquireCommand, Move, LimiterTypeOK, Place, HasLimit
  <2>3. InGlobal' = InGlobal
    BY <1>5 DEF AcquireCommand, Move, LimiterTypeOK, InGlobal
  <2>4. c \notin InCommand(k) /\ InCommand(k)' = InCommand(k) \cup {c}
    BY <1>5, <2>1 DEF AcquireCommand, Move, LimiterTypeOK, InCommand
  <2>5. \A j \in Command \ {k} : InCommand(j)' = InCommand(j)
    BY <1>5, <2>1 DEF AcquireCommand, Move, LimiterTypeOK, InCommand
  <2>6. Cardinality(InCommand(k)') = Cardinality(InCommand(k)) + 1
    BY <2>1, <2>4, OneMore
  <2>7. \A j \in Command : HasLimit(j) =>
            byID'[j] = IF j = k THEN byID[j] + 1 ELSE byID[j]
    BY <1>5, <2>1 DEF AcquireCommand, LimiterTypeOK
  <2>8. TokensAccounted'
    BY <1>5, <2>3, <2>5, <2>6, <2>7
      DEF AcquireCommand, TokensAccounted, HasGlobal, HasLimit
  <2>9. WithinCapacity'
    BY <1>5, <2>1, <2>7 DEF AcquireCommand, WithinCapacity, HasGlobal, HasLimit, LimiterTypeOK
  <2> QED
    BY <2>2, <2>8, <2>9
<1>6. ASSUME NEW c \in Caller, DenyCommand(c)
      PROVE  LInv'
  <2>1. LimiterTypeOK'
    BY <1>6 DEF DenyCommand, Move, LimiterTypeOK, Place
  <2>2. InGlobal' = InGlobal /\ \A j \in Command : InCommand(j)' = InCommand(j)
    BY <1>6 DEF DenyCommand, Move, LimiterTypeOK, InGlobal, InCommand
  <2> QED
    BY <1>6, <2>1, <2>2, NoToken DEF DenyCommand
<1>7. ASSUME NEW c \in Caller, Finish(c)
      PROVE  LInv'
  <2>1. LimiterTypeOK'
    BY <1>7 DEF Finish, Move, LimiterTypeOK, Place
  <2>2. InGlobal' = InGlobal /\ \A j \in Command : InCommand(j)' = InCommand(j)
    BY <1>7 DEF Finish, Move, LimiterTypeOK, InGlobal, InCommand
  <2> QED
    BY <1>7, <2>1, <2>2, NoToken DEF Finish
<1>8. ASSUME NEW c \in Caller, ReleaseCommand(c)
      PROVE  LInv'
  <2> DEFINE k == cmd[c]
  <2>1. k \in Command /\ k = cmd'[c]
    BY <1>8 DEF ReleaseCommand, LimiterTypeOK
  <2>2. LimiterTypeOK'
    BY <1>8, <2>1 DEF ReleaseCommand, Move, LimiterTypeOK, Place, HasLimit
  <2>3. InGlobal' = InGlobal
    BY <1>8 DEF ReleaseCommand, Move, LimiterTypeOK, InGlobal
  <2>4. c \in InCommand(k) /\ InCommand(k)' = InCommand(k) \ {c}
    BY <1>8, <2>1 DEF ReleaseCommand, Move, LimiterTypeOK, InCommand
  <2>5. \A j \in Command \ {k} : InCommand(j)' = InCommand(j)
    BY <1>8, <2>1 DEF ReleaseCommand, Move, LimiterTypeOK, InCommand
  <2>6. Cardinality(InCommand(k)') = Cardinality(InCommand(k)) - 1
    BY <2>1, <2>4, OneLess
  <2>7. \A j \in Command : HasLimit(j) =>
            byID'[j] = IF j = k THEN byID[j] - 1 ELSE byID[j]
    BY <1>8, <2>1 DEF ReleaseCommand, LimiterTypeOK
  <2>8. TokensAccounted'
    BY <1>8, <2>3, <2>5, <2>6, <2>7
      DEF ReleaseCommand, TokensAccounted, HasGlobal, HasLimit
  <2>9. WithinCapacity'
    BY <1>8, <2>1, <2>7 DEF ReleaseCommand, WithinCapacity, HasGlobal, HasLimit, LimiterTypeOK
  <2> QED
    BY <2>2, <2>8, <2>9
<1>9. ASSUME NEW c \in Caller, ReleaseGlobal(c)
      PROVE  LInv'
  <2>1. LimiterTypeOK'
    BY <1>9 DEF ReleaseGlobal, Leave, Move, LimiterTypeOK, Place, HasGlobal
  <2>2. c \in InGlobal /\ InGlobal' = InGlobal \ {c}
    BY <1>9 DEF ReleaseGlobal, Leave, Move, LimiterTypeOK, InGlobal
  <2>3. \A j \in Command : InCommand(j)' = InCommand(j)
    BY <1>9 DEF ReleaseGlobal, Leave, Move, LimiterTypeOK, InCommand
  <2>4. Cardinality(InGlobal') = Cardinality(InGlobal) - 1
    BY <2>2, OneLess
  <2>5. TokensAccounted'
    BY <1>9, <2>3, <2>4 DEF ReleaseGlobal, TokensAccounted, HasGlobal, HasLimit
  <2>6. WithinCapacity'
    BY <1>9 DEF ReleaseGlobal, WithinCapacity, HasGlobal, HasLimit, LimiterTypeOK
  <2> QED
    BY <2>1, <2>5, <2>6
<1>10. ASSUME NEW c \in Caller, Denied(c)
       PROVE  LInv'
  <2>1. LimiterTypeOK'
    BY <1>10 DEF Denied, Leave, Move, LimiterTypeOK, Place
  <2>2. InGlobal' = InGlobal /\ \A j \in Command : InCommand(j)' = InCommand(j)
    BY <1>10 DEF Denied, Leave, Move, LimiterTypeOK, InGlobal, InCommand
  <2> QED
    BY <1>10, <2>1, <2>2, NoToken DEF Denied
<1> QED
  BY <1>1, <1>2, <1>3, <1>4, <1>5, <1>6, <1>7, <1>8, <1>9, <1>10
    DEF LimiterNext, LimiterStep

----------------------------------------------------------------------------
(* What follows from it *)

\* Capacity and accounting bound the callers that run.
LEMMA LimitsFollow == LInv => LimitsRespected
<1> SUFFICES ASSUME LInv PROVE LimitsRespected
  OBVIOUS
<1>1. Cardinality(RunningCalls) =< Cardinality(InGlobal)
  <2>1. RunningCalls \in SUBSET InGlobal /\ InGlobal \in SUBSET Caller
    BY DEF RunningCalls, InGlobal
  <2> QED
    BY <2>1, FiniteCallers, FS_Subset
<1>2. ASSUME NEW k \in Command
      PROVE  Cardinality({c \in RunningCalls : cmd[c] = k}) =< Cardinality(InCommand(k))
  <2>1. /\ {c \in RunningCalls : cmd[c] = k} \in SUBSET InCommand(k)
        /\ InCommand(k) \in SUBSET Caller
    BY DEF RunningCalls, InCommand
  <2> QED
    BY <2>1, FiniteCallers, FS_Subset
<1>3. /\ Cardinality(RunningCalls) \in Nat
      /\ \A k \in Command : Cardinality({c \in RunningCalls : cmd[c] = k}) \in Nat
  BY FiniteCallers DEF RunningCalls
<1> QED
  BY <1>1, <1>2, <1>3, LimitAssumption
    DEF LInv, TokensAccounted, WithinCapacity, LimitsRespected, LimiterTypeOK,
        HasGlobal, HasLimit

\* A caller that holds a token is counted by its channel.
LEMMA ReleaseFollows == LInv => ReleaseNeverBlocks
<1> SUFFICES ASSUME LInv, NEW c \in Caller
             PROVE  /\ at[c] = "leave" /\ HasLimit(cmd[c]) => byID[cmd[c]] > 0
                    /\ at[c] = "return" /\ HasGlobal => global > 0
  BY DEF ReleaseNeverBlocks
<1>1. ASSUME at[c] = "leave", HasLimit(cmd[c]) PROVE byID[cmd[c]] > 0
  <2>1. cmd[c] \in Command /\ c \in InCommand(cmd[c])
    BY <1>1 DEF LInv, LimiterTypeOK, InCommand
  <2>2. Cardinality(InCommand(cmd[c])) > 0
    BY <2>1, OneLess DEF InCommand
  <2> QED
    BY <1>1, <2>1, <2>2 DEF LInv, TokensAccounted
<1>2. ASSUME at[c] = "return", HasGlobal PROVE global > 0
  <2>1. c \in InGlobal /\ InGlobal \in SUBSET Caller
    BY <1>2 DEF InGlobal
  <2> QED
    BY <1>2, <2>1, OneLess DEF LInv, TokensAccounted
<1> QED
  BY <1>1, <1>2

\* The limiter's invariant, for every number of goroutines.
THEOREM LimiterInvariance == LimiterSpec => []LInv
BY LimiterInitOK, LimiterInductive, PTL DEF LimiterSpec

\* The channels account for every caller between its acquire and its release,
\* on every path through Execute.
THEOREM Accounting == LimiterSpec => []TokensAccounted
<1>1. LInv => TokensAccounted
  BY DEF LInv
<1> QED
  BY <1>1, LimiterInvariance, PTL

\* No more commands run at once than the limits allow.
THEOREM Limits == LimiterSpec => []LimitsRespected
BY LimitsFollow, LimiterInvariance, PTL

\* A release finds its token, so no call hangs in a deferred receive.
THEOREM NoBlockedRelease == LimiterSpec => []ReleaseNeverBlocks
BY ReleaseFollows, LimiterInvariance, PTL
=============================================================================
