-------------------------- MODULE StdioSessionProofs --------------------------
(***************************************************************************)
(* For every configuration file, every limit on the lines written and      *)
(* every way the connection or the server ends:                            *)
(*  - deploy-artifact reads the answer to the request it waits for,        *)
(*    although it compares no ids;                                         *)
(*  - paths reach a command only as descent from an allowed root;          *)
(*  - what the loader lets pass, the builder refuses only for what the     *)
(*    loader cannot judge;                                                 *)
(*  - a deploy hands its artifact through to the command.                  *)
(* The last three are about what Walk and FlattenSeq compute, by induction *)
(* over sets of positions (Induction).                                     *)
(***************************************************************************)
EXTENDS StdioSession, SequenceTheorems, WellFoundedInduction, TLAPS

----------------------------------------------------------------------------
(* The inductive invariant: where the one request under way is *)

Note == Line("initialized", Nil)

IsRequest(line) == line.kind \in {"initialize", "call"}

\* Nothing is under way, but the notification may not have been read yet.
Idle ==
    /\ pending = {} /\ fromServer = <<>> /\ server # "running"
    /\ toServer = <<>> \/ (toServer = <<Note>> /\ stage = "tools")

\* The server has yet to read the request.
Asked ==
    /\ fromServer = <<>> /\ server # "running" /\ stage # "initialized"
    /\ \E line : /\ IsRequest(line) /\ pending = {line.id}
                 /\ toServer = <<line>> \/ toServer = <<Note, line>>

\* The server runs the command the request asks for.
Running ==
    /\ server = "running" /\ stage # "initialized"
    /\ pending = {job.request} /\ fromServer = <<>> /\ toServer = <<>>

\* The client has yet to read the answer.
Answered ==
    /\ server # "running" /\ stage # "initialized" /\ toServer = <<>>
    /\ \E answer : fromServer = <<answer>> /\ pending = {answer.id}

\* The request was taken and is never answered.
Unanswered ==
    /\ server # "running" /\ stage # "initialized"
    /\ fromServer = <<>> /\ toServer = <<>>
    /\ pending # {}
    /\ server = "ended" \/ conn = "lost"

OneUnderWay == Idle \/ Asked \/ Running \/ Answered \/ Unanswered

Conversation == client = "deploy" => OneUnderWay

----------------------------------------------------------------------------
(* Lines and answers *)

LEMMA NoteFacts ==
    /\ Silent(Note)
    /\ Note.kind = "initialized"
    /\ Targets(Note) = {}
<1>1. Note.kind = "initialized" BY DEF Note, Line
<1>2. Silent(Note) BY <1>1 DEF Silent
<1>3. Targets(Note) = {} BY <1>1 DEF Targets
<1>4. QED BY <1>1, <1>2, <1>3

\* An answer to a request bears its id.
LEMMA AnswerIds ==
    ASSUME NEW line, IsRequest(line)
    PROVE  ~Silent(line) /\ Reply(line).id = line.id
<1>1. CASE line.kind = "initialize" BY <1>1 DEF Silent, Reply, Result, Error
<1>2. CASE line.kind = "call" BY <1>2 DEF Silent, Reply, Result, Error
<1>3. QED BY <1>1, <1>2 DEF IsRequest

LEMMA ResultId == \A id, isError : Result(id, isError).id = id
BY DEF Result

\* Every call of deploy-artifact is a request with the next id.
LEMMA CallFacts ==
    ASSUME NEW id, NEW line \in DeployCalls(id)
    PROVE  IsRequest(line)
BY DEF DeployCalls, Call, Line, IsRequest

\* What is at the head of the queue, and behind it.
LEMMA QueueFacts ==
    /\ \A x : Head(<<x>>) = x /\ Tail(<<x>>) = <<>> /\ <<x>> # <<>> /\ Len(<<x>>) = 1
    /\ \A x, y : Head(<<x, y>>) = x /\ Tail(<<x, y>>) = <<y>> /\ <<x, y>> # <<>>
    /\ \A x : Append(<<>>, x) = <<x>>
    /\ \A x, y : Append(<<x>>, y) = <<x, y>>
<1>1. ASSUME NEW x
      PROVE  Head(<<x>>) = x /\ Tail(<<x>>) = <<>> /\ <<x>> # <<>> /\ Len(<<x>>) = 1
  <2>1. <<x>> \in Seq({x}) OBVIOUS
  <2>2. Len(<<x>>) = 1 /\ <<x>>[1] = x OBVIOUS
  <2>3. Tail(<<x>>) = <<>> BY <2>1, <2>2
  <2>4. QED BY <2>1, <2>2, <2>3
<1>2. ASSUME NEW x, NEW y
      PROVE  Head(<<x, y>>) = x /\ Tail(<<x, y>>) = <<y>> /\ <<x, y>> # <<>>
  <2>1. <<x, y>> \in Seq({x, y}) /\ <<y>> \in Seq({x, y}) OBVIOUS
  <2>2. Len(<<x, y>>) = 2 /\ <<x, y>>[1] = x /\ <<x, y>>[2] = y OBVIOUS
  <2>3. Tail(<<x, y>>) = <<y>> BY <2>1, <2>2
  <2>4. QED BY <2>1, <2>2, <2>3
<1>3. \A x : Append(<<>>, x) = <<x>> OBVIOUS
<1>4. ASSUME NEW x, NEW y PROVE Append(<<x>>, y) = <<x, y>>
  <2>1. <<x>> \in Seq({x, y}) /\ <<x, y>> \in Seq({x, y}) OBVIOUS
  <2>2. Append(<<x>>, y) \in Seq({x, y}) BY <2>1
  <2>3. /\ Len(Append(<<x>>, y)) = 2
        /\ Append(<<x>>, y)[1] = x /\ Append(<<x>>, y)[2] = y
    BY <2>1
  <2>4. Len(<<x, y>>) = 2 /\ <<x, y>>[1] = x /\ <<x, y>>[2] = y OBVIOUS
  <2>5. \A i \in 1..2 : i = 1 \/ i = 2 OBVIOUS
  <2>6. \A i \in 1..Len(Append(<<x>>, y)) : Append(<<x>>, y)[i] = <<x, y>>[i]
    BY <2>3, <2>4, <2>5
  <2>7. QED BY <2>1, <2>2, <2>3, <2>4, <2>6, SeqEqual
<1>5. QED BY <1>1, <1>2, <1>3, <1>4

----------------------------------------------------------------------------
(* The server *)

\* A request leaves the queue when the server takes a line that is not the
\* notification.
LEMMA Taken ==
    ASSUME OneUnderWay, Take, Head(toServer) # Note
    PROVE  /\ Asked /\ IsRequest(Head(toServer))
           /\ pending = {Head(toServer).id} /\ toServer' = <<>>
<1>1. toServer # <<>> /\ server = "serving" BY DEF Take
<1>2. ~Running /\ ~Answered /\ ~Unanswered BY <1>1 DEF Running, Answered, Unanswered
<1>3. ~Idle BY <1>1, QueueFacts DEF Idle
<1>4. Asked BY <1>2, <1>3 DEF OneUnderWay
<1>5. PICK line : /\ IsRequest(line) /\ pending = {line.id}
                  /\ toServer = <<line>> \/ toServer = <<Note, line>>
  BY <1>4 DEF Asked
<1>6. toServer = <<line>> BY <1>5, QueueFacts
<1>7. QED BY <1>4, <1>5, <1>6, QueueFacts DEF Take

\* An answer with the id of the request that was taken or has been running.
LEMMA Answering ==
    ASSUME NEW answer, Write(answer), pending = {answer.id}, fromServer = <<>>,
           toServer' = <<>>, stage # "initialized",
           UNCHANGED <<client, stage, conn, sent, pending>>
    PROVE  OneUnderWay'
<1>1. CASE conn # "lost" /\ server' = "serving" /\ fromServer' = Append(fromServer, answer)
  <2>1. fromServer' = <<answer>> BY <1>1, QueueFacts
  <2>2. Answered' BY <1>1, <2>1 DEF Answered
  <2>3. QED BY <2>2 DEF OneUnderWay
<1>2. CASE conn = "lost" /\ server' \in {"serving", "ended"} /\ UNCHANGED fromServer
  <2>1. Unanswered' BY <1>2 DEF Unanswered
  <2>2. QED BY <2>1 DEF OneUnderWay
<1>3. QED BY <1>1, <1>2 DEF Write

LEMMA ServerKeeps ==
    ASSUME OneUnderWay, ServerStep
    PROVE  OneUnderWay'
<1> USE DEF cvars
<1>1. CASE Load
  <2>1. server # "running" /\ server' # "running" BY <1>1 DEF Load
  <2>2. CASE Idle BY <1>1, <2>1, <2>2 DEF Load, Idle, OneUnderWay
  <2>3. CASE Asked BY <1>1, <2>1, <2>3 DEF Load, Asked, OneUnderWay
  <2>4. CASE Answered BY <1>1, <2>1, <2>4 DEF Load, Answered, OneUnderWay
  <2>5. CASE Unanswered
    <3>1. conn' = "lost" BY <1>1, <2>5 DEF Load, Unanswered
    <3>2. QED BY <1>1, <2>1, <2>5, <3>1 DEF Load, Unanswered, OneUnderWay
  <2>6. QED BY <2>1, <2>2, <2>3, <2>4, <2>5 DEF OneUnderWay, Running
<1>2. CASE Skip
  <2>1. Take /\ Silent(Head(toServer)) BY <1>2 DEF Skip
  <2>2. Head(toServer) = Note
    BY <2>1, Taken, AnswerIds
  <2>3. toServer # <<>> /\ toServer' = Tail(toServer) BY <2>1 DEF Take
  <2>4. CASE Idle
    <3>1. toServer' = <<>> BY <2>3, <2>4, QueueFacts DEF Idle
    <3>2. QED BY <1>2, <2>4, <3>1 DEF Skip, Idle, OneUnderWay
  <2>5. CASE Asked
    <3>1. PICK line : /\ IsRequest(line) /\ pending = {line.id}
                      /\ toServer = <<line>> \/ toServer = <<Note, line>>
      BY <2>5 DEF Asked
    <3>2. line # Note BY <3>1, NoteFacts DEF IsRequest
    <3>3. toServer = <<Note, line>>
      <4>1. Head(<<line>>) = line BY QueueFacts
      <4>2. toServer # <<line>> BY <2>2, <3>2, <4>1
      <4>3. QED BY <3>1, <4>2
    <3>4. toServer' = <<line>>
      <4>1. Tail(<<Note, line>>) = <<line>> BY QueueFacts
      <4>2. QED BY <2>3, <3>3, <4>1
    <3>5. QED BY <1>2, <2>5, <3>1, <3>4 DEF Skip, Asked, OneUnderWay
  <2>6. QED BY <2>3, <2>4, <2>5 DEF OneUnderWay, Running, Answered, Unanswered
<1>3. CASE AnswerNow
  <2>1. Take /\ ~Silent(Head(toServer)) /\ Write(Reply(Head(toServer)))
    BY <1>3 DEF AnswerNow
  <2>2. Head(toServer) # Note BY <2>1, NoteFacts
  <2>3. /\ Asked /\ IsRequest(Head(toServer))
        /\ pending = {Head(toServer).id} /\ toServer' = <<>>
    BY <2>1, <2>2, Taken
  <2>4. pending = {Reply(Head(toServer)).id} BY <2>3, AnswerIds
  <2>5. QED BY <1>3, <2>1, <2>3, <2>4, Answering DEF AnswerNow, Asked
<1>4. CASE AnswerArtifact
  <2>1. Take /\ Head(toServer).kind = "call" BY <1>4 DEF AnswerArtifact
  <2>2. PICK isError \in BOOLEAN : Write(Result(Head(toServer).id, isError))
    BY <1>4 DEF AnswerArtifact
  <2>3. Head(toServer) # Note BY <2>1, NoteFacts
  <2>4. /\ Asked
        /\ pending = {Head(toServer).id} /\ toServer' = <<>>
    BY <2>1, <2>3, Taken
  <2>5. pending = {Result(Head(toServer).id, isError).id} BY <2>4, ResultId
  <2>6. QED BY <1>4, <2>2, <2>4, <2>5, Answering DEF AnswerArtifact, Asked
<1>5. CASE RefuseCommand
  <2>1. Take /\ Targets(Head(toServer)) # {} BY <1>5 DEF RefuseCommand
  <2>2. Write(Result(Head(toServer).id, TRUE)) BY <1>5 DEF RefuseCommand
  <2>3. Head(toServer) # Note BY <2>1, NoteFacts
  <2>4. /\ Asked
        /\ pending = {Head(toServer).id} /\ toServer' = <<>>
    BY <2>1, <2>3, Taken
  <2>5. pending = {Result(Head(toServer).id, TRUE).id} BY <2>4, ResultId
  <2>6. QED BY <1>5, <2>2, <2>4, <2>5, Answering DEF RefuseCommand, Asked
<1>6. CASE StartCommand
  <2>1. Take /\ Targets(Head(toServer)) # {} BY <1>6 DEF StartCommand
  <2>2. job'.request = Head(toServer).id BY <1>6 DEF StartCommand
  <2>3. Head(toServer) # Note BY <2>1, NoteFacts
  <2>4. /\ Asked
        /\ pending = {Head(toServer).id} /\ toServer' = <<>>
    BY <2>1, <2>3, Taken
  <2>5. Running' BY <1>6, <2>2, <2>4 DEF StartCommand, Asked, Running
  <2>6. QED BY <2>5 DEF OneUnderWay
<1>7. CASE Panic
  <2>1. Take /\ Targets(Head(toServer)) # {} BY <1>7 DEF Panic
  <2>2. Head(toServer) # Note BY <2>1, NoteFacts
  <2>3. /\ Asked
        /\ pending = {Head(toServer).id} /\ toServer' = <<>>
    BY <2>1, <2>2, Taken
  <2>4. Unanswered' BY <1>7, <2>3 DEF Panic, Asked, Unanswered
  <2>5. QED BY <2>4 DEF OneUnderWay
<1>8. CASE CommandEnds
  <2>1. Running
    BY <1>8 DEF CommandEnds, OneUnderWay, Idle, Asked, Answered, Unanswered
  <2>2. PICK isError \in BOOLEAN : Write(Result(job.request, isError))
    BY <1>8 DEF CommandEnds
  <2>3. pending = {Result(job.request, isError).id} BY <2>1, ResultId DEF Running
  <2>4. QED BY <1>8, <2>1, <2>2, <2>3, Answering DEF CommandEnds, Running
<1>9. CASE Overflow \/ EndOfInput
  <2>1. /\ server = "serving" /\ server' = "ended"
        /\ UNCHANGED <<job, toServer, fromServer, client, stage, conn, sent, pending>>
    BY <1>9 DEF Overflow, EndOfInput
  <2>2. CASE Idle BY <2>1, <2>2 DEF Idle, OneUnderWay
  <2>3. CASE Asked BY <2>1, <2>3 DEF Asked, OneUnderWay
  <2>4. CASE Answered BY <2>1, <2>4 DEF Answered, OneUnderWay
  <2>5. CASE Unanswered BY <2>1, <2>5 DEF Unanswered, OneUnderWay
  <2>6. QED BY <2>1, <2>2, <2>3, <2>4, <2>5 DEF OneUnderWay, Running
<1>10. QED
  BY <1>1, <1>2, <1>3, <1>4, <1>5, <1>6, <1>7, <1>8, <1>9 DEF ServerStep

----------------------------------------------------------------------------
(* The client *)

\* What a step that only changes the connection keeps.
LEMMA ConnectionOnly ==
    ASSUME OneUnderWay, conn' = "lost" \/ conn # "lost",
           UNCHANGED <<server, job, fromServer, toServer, stage, pending>>
    PROVE  OneUnderWay'
<1>1. CASE Idle BY <1>1 DEF Idle, OneUnderWay
<1>2. CASE Asked BY <1>2 DEF Asked, OneUnderWay
<1>3. CASE Running BY <1>3 DEF Running, OneUnderWay
<1>4. CASE Answered BY <1>4 DEF Answered, OneUnderWay
<1>5. CASE Unanswered BY <1>5 DEF Unanswered, OneUnderWay
<1>6. QED BY <1>1, <1>2, <1>3, <1>4, <1>5 DEF OneUnderWay

LEMMA ClientKeeps ==
    ASSUME client = "deploy", OneUnderWay, ClientStep
    PROVE  OneUnderWay'
<1> USE DEF svars
<1>1. CASE FreeSend BY <1>1 DEF FreeSend
<1>2. CASE SendInitialize
  <2>1. Idle /\ stage = "initialize"
    BY <1>2 DEF SendInitialize, Waiting, OneUnderWay, Asked, Running, Answered, Unanswered
  <2>2. toServer' = <<Line("initialize", 1)>>
    BY <1>2, <2>1, QueueFacts DEF SendInitialize, Send, Idle
  <2>3. IsRequest(Line("initialize", 1)) /\ Line("initialize", 1).id = 1
    BY DEF Line, IsRequest
  <2>4. Asked' BY <1>2, <2>1, <2>2, <2>3 DEF SendInitialize, Send, Idle, Asked
  <2>5. QED BY <2>4 DEF OneUnderWay
<1>3. CASE SendInitialized
  <2>1. Idle /\ toServer = <<>>
    BY <1>3 DEF SendInitialized, OneUnderWay, Idle, Asked, Running, Answered, Unanswered
  <2>2. toServer' = <<Note>>
    BY <1>3, <2>1, QueueFacts DEF SendInitialized, Send, Note
  <2>3. Idle' BY <1>3, <2>1, <2>2 DEF SendInitialized, Send, Idle
  <2>4. QED BY <2>3 DEF OneUnderWay
<1>4. CASE SendCall
  <2>1. Idle /\ stage = "tools"
    BY <1>4 DEF SendCall, Waiting, OneUnderWay, Asked, Running, Answered, Unanswered
  <2>2. PICK line \in DeployCalls(NextId) : Send(line) /\ pending' = {line.id}
    BY <1>4 DEF SendCall
  <2>3. IsRequest(line) BY <2>2, CallFacts
  <2>4. toServer' = <<line>> \/ toServer' = <<Note, line>>
    BY <2>1, <2>2, QueueFacts DEF Send, Idle
  <2>5. Asked' BY <1>4, <2>1, <2>2, <2>3, <2>4 DEF SendCall, Send, Idle, Asked
  <2>6. QED BY <2>5 DEF OneUnderWay
<1>5. CASE Read
  <2>1. Answered
    BY <1>5 DEF Read, OneUnderWay, Idle, Asked, Running, Unanswered
  <2>2. fromServer' = <<>> /\ toServer' = <<>> /\ pending' = {} /\ server' # "running"
    BY <1>5, <2>1, QueueFacts DEF Read, Answered
  <2>3. Idle' BY <2>2 DEF Idle
  <2>4. QED BY <2>3 DEF OneUnderWay
<1>6. CASE ReadEnd \/ Close
  <2>1. /\ conn # "lost"
        /\ UNCHANGED <<server, job, fromServer, toServer, stage, pending>>
    BY <1>6 DEF ReadEnd, Close
  <2>2. QED BY <2>1, ConnectionOnly
<1>7. CASE Lose
  <2>1. /\ conn' = "lost"
        /\ UNCHANGED <<server, job, fromServer, toServer, stage, pending>>
    BY <1>7 DEF Lose
  <2>2. QED BY <2>1, ConnectionOnly
<1>8. QED BY <1>1, <1>2, <1>3, <1>4, <1>5, <1>6, <1>7 DEF ClientStep

----------------------------------------------------------------------------

LEMMA Stays == Next => client' = client
<1> USE DEF cvars, svars
<1>1. ServerStep => client' = client
  BY DEF ServerStep, Load, Skip, AnswerNow, AnswerArtifact, RefuseCommand,
         StartCommand, Panic, CommandEnds, Overflow, EndOfInput
<1>2. ClientStep => client' = client
  BY DEF ClientStep, FreeSend, SendInitialize, SendInitialized, SendCall, Send,
         Read, ReadEnd, Close, Lose
<1>3. QED BY <1>1, <1>2 DEF Next

\* At every moment the request deploy-artifact waits for is in one place: on its
\* way, being run, answered, or lost with the server or the connection.
THEOREM OneRequest == Spec => []Conversation
<1>1. Init => Conversation BY DEF Init, Conversation, OneUnderWay, Idle
<1>2. Conversation /\ [Next]_vars => Conversation'
  <2>1. CASE UNCHANGED vars
    BY <2>1 DEF vars, Conversation, OneUnderWay, Idle, Asked, Running, Answered, Unanswered
  <2>2. ASSUME Conversation, Next PROVE Conversation'
    BY <2>2, Stays, ServerKeeps, ClientKeeps DEF Next, Conversation
  <2>3. QED BY <2>1, <2>2
<1>3. QED BY <1>1, <1>2, PTL DEF Spec

\* deploy-artifact never takes another line for the answer to its request
\* (cmd/deploy-artifact/main.go, rpc).
THEOREM AnswersMatch == Spec => []NextAnswerIsMine
<1>1. Conversation => NextAnswerIsMine
  <2>1. ASSUME Conversation, client = "deploy", fromServer # <<>>
        PROVE  Len(fromServer) = 1 /\ pending = {Head(fromServer).id}
    <3>1. Answered
      BY <2>1 DEF Conversation, OneUnderWay, Idle, Asked, Running, Unanswered
    <3>2. PICK answer : fromServer = <<answer>> /\ pending = {answer.id}
      BY <3>1 DEF Answered
    <3>3. QED BY <3>2, QueueFacts
  <2>2. QED BY <2>1 DEF NextAnswerIsMine
<1>2. QED BY <1>1, OneRequest, PTL

----------------------------------------------------------------------------
(* Induction over numbers *)

\* Every set of natural numbers has a least one.
LEMMA Least ==
    ASSUME NEW T, T \subseteq Nat, T # {}
    PROVE  \E n \in T : \A m \in T : n =< m
<1>1. IsWellFoundedOn(OpToRel(<, Nat), Nat)
  BY NatLessThanWellFounded
<1>2. \E n \in T : \A m \in T : ~(<<m, n>> \in OpToRel(<, Nat))
  BY <1>1, WFMin
<1>3. ASSUME NEW n \in T, NEW m \in T, ~(<<m, n>> \in OpToRel(<, Nat))
      PROVE  n =< m
  <2>1. m \in Nat /\ n \in Nat
    OBVIOUS
  <2>2. ~(m < n)
    BY <1>3, <2>1 DEF OpToRel
  <2> QED BY <2>1, <2>2
<1> QED BY <1>2, <1>3

\* Induction, over a set: what the prover cannot do over an operator.
LEMMA Induction ==
    ASSUME NEW n \in Nat, NEW T, 0 \in T, \A i \in 1..n : i - 1 \in T => i \in T
    PROVE  0..n \subseteq T
<1> DEFINE Rest == (0..n) \ T
<1> SUFFICES ASSUME Rest # {} PROVE FALSE
  OBVIOUS
<1>1. PICK m \in Rest : \A k \in Rest : m =< k
  <2>1. Rest \subseteq Nat
    OBVIOUS
  <2> QED BY <2>1, Least
<1>2. m \in 1..n
  BY <1>1
<1>3. m - 1 \in 0..n /\ ~(m =< m - 1)
  BY <1>2
<1>4. m - 1 \in T
  BY <1>1, <1>3
<1> QED BY <1>1, <1>2, <1>4

\* A function that is defined step by step exists.
LEMMA Iteration ==
    ASSUME NEW S, NEW c \in S, NEW n \in Nat, NEW D \in [1..n -> [S -> S]]
    PROVE  \E f \in [0..n -> S] : f[0] = c /\ \A i \in 1..n : f[i] = D[i][f[i - 1]]
<1> DEFINE Upto(m, f) == f[0] = c /\ \A i \in 1..m : f[i] = D[i][f[i - 1]]
           T == {m \in 0..n : \E f \in [0..m -> S] : Upto(m, f)}
<1>1. 0 \in T
  <2>1. [i \in 0..0 |-> c] \in [0..0 -> S] /\ Upto(0, [i \in 0..0 |-> c])
    OBVIOUS
  <2>2. \E f \in [0..0 -> S] : Upto(0, f)
    BY <2>1
  <2> HIDE DEF Upto
  <2> QED BY <2>2
<1>2. ASSUME NEW m \in 1..n, m - 1 \in T PROVE m \in T
  <2>1. PICK f \in [0..(m - 1) -> S] : Upto(m - 1, f)
    BY <1>2
  <2> DEFINE g == [i \in 0..m |-> IF i = m THEN D[m][f[m - 1]] ELSE f[i]]
  <2>2. D[m][f[m - 1]] \in S
    OBVIOUS
  <2>3. g \in [0..m -> S]
    BY <2>2
  <2>4. Upto(m, g)
    <3>1. g[0] = c
      BY <2>1
    <3>2. ASSUME NEW i \in 1..m PROVE g[i] = D[i][g[i - 1]]
      <4>1. CASE i = m
        BY <4>1
      <4>2. CASE i # m
        <5>1. i \in 1..(m - 1) /\ i - 1 \in 0..(m - 1)
          BY <4>2
        <5>2. f[i] = D[i][f[i - 1]]
          BY <2>1, <5>1
        <5> QED BY <5>1, <5>2, <4>2
      <4> QED BY <4>1, <4>2
    <3> QED BY <3>1, <3>2
  <2>5. \E h \in [0..m -> S] : Upto(m, h)
    BY <2>3, <2>4
  <2> HIDE DEF Upto
  <2> QED BY <2>5
<1>3. n \in T
  <2> HIDE DEF T
  <2>1. 0..n \subseteq T
    BY <1>1, <1>2, Induction
  <2> QED BY <2>1
<1> QED BY <1>3

----------------------------------------------------------------------------
(* Walks *)

\* The names that are neither empty nor dots.
Plain(S) == S \ {"", ".", ".."}

LEMMA EnterPlain ==
    ASSUME NEW S, NEW names \in Seq(Plain(S)), NEW name \in S
    PROVE  Enter(names, name) \in Seq(Plain(S))
<1>1. CASE name \in {"", "."}
  BY <1>1 DEF Enter
<1>2. CASE name = ".." /\ names = <<>>
  BY <1>2 DEF Enter
<1>3. CASE name = ".." /\ names # <<>>
  <2>1. Enter(names, name) = Front(names)
    BY <1>3 DEF Enter
  <2>2. Front(names) \in Seq(Plain(S))
    BY DEF Front
  <2> QED BY <2>1, <2>2
<1>4. CASE name \notin {"", ".", ".."}
  <2>1. Enter(names, name) = Append(names, name)
    BY <1>4 DEF Enter
  <2>2. name \in Plain(S)
    BY <1>4 DEF Plain
  <2> QED BY <2>1, <2>2
<1> QED BY <1>1, <1>2, <1>3, <1>4

\* The places of a walk, one name after the other.
LEMMA WalkSteps ==
    ASSUME NEW S, NEW text \in Seq(S)
    PROVE  \E at \in [0..Len(text) -> Seq(Plain(S))] :
              /\ at[0] = <<>> /\ \A i \in 1..Len(text) : at[i] = Enter(at[i - 1], text[i])
              /\ Walk(text) = at[Len(text)]
<1> DEFINE P == Seq(Plain(S))
           n == Len(text)
           c == <<>>
           D == [i \in 1..n |-> [v \in P |-> Enter(v, text[i])]]
           Eq(g) == g = [i \in 0..n |-> IF i = 0 THEN <<>> ELSE Enter(g[i - 1], text[i])]
           at == CHOOSE g : Eq(g)
<1>1. c \in P /\ n \in Nat
  OBVIOUS
<1>2. \A i \in 1..n : \A v \in P : Enter(v, text[i]) \in P
  BY EnterPlain
<1>3. \E f \in [0..n -> P] : f[0] = c /\ \A i \in 1..n : f[i] = Enter(f[i - 1], text[i])
  <2> HIDE DEF P, n, c, Eq, at
  <2>1. D \in [1..n -> [P -> P]]
    BY <1>2
  <2>2. \A f \in [0..n -> P] : \A i \in 1..n : D[i][f[i - 1]] = Enter(f[i - 1], text[i])
    <3>1. ASSUME NEW f \in [0..n -> P], NEW i \in 1..n
          PROVE  D[i][f[i - 1]] = Enter(f[i - 1], text[i])
      <4>1. i - 1 \in 0..n
        BY <1>1
      <4>2. f[i - 1] \in P
        BY <4>1
      <4> QED BY <4>2
    <3> QED BY <3>1
  <2> HIDE DEF D
  <2>3. \E f \in [0..n -> P] : f[0] = c /\ \A i \in 1..n : f[i] = D[i][f[i - 1]]
    BY <1>1, <2>1, Iteration
  <2> QED BY <2>2, <2>3
<1>4. PICK f \in [0..n -> P] : f[0] = c /\ \A i \in 1..n : f[i] = Enter(f[i - 1], text[i])
  <2> HIDE DEF P, n, c, Eq, at, D
  <2> QED BY <1>3
<1>5. Eq(f)
  <2> HIDE DEF P, n
  <2> QED BY <1>4
<1>6. Eq(at)
  <2> HIDE DEF Eq
  <2> QED BY <1>5
<1>7. at[0] = c /\ \A i \in 1..n : at[i] = Enter(at[i - 1], text[i])
  <2> HIDE DEF at
  <2> QED BY <1>1, <1>6
<1>8. 0..n \subseteq {i \in 0..n : at[i] \in P}
  <2> DEFINE T == {i \in 0..n : at[i] \in P}
  <2> HIDE DEF at, P, c, Eq, D
  <2>1. 0 \in T
    BY <1>1, <1>7
  <2>2. ASSUME NEW i \in 1..n, i - 1 \in T PROVE i \in T
    BY <2>2, <1>7, <1>2
  <2> HIDE DEF T
  <2>3. 0..n \subseteq T
    BY <1>1, <2>1, <2>2, Induction
  <2> QED BY <2>3 DEF T
<1>9. at \in [0..n -> P]
  <2> HIDE DEF at, P, c, D
  <2> QED BY <1>6, <1>8
<1>10. Walk(text) = at[n]
  BY DEF Walk
<1> HIDE DEF at, D, Eq
<1> QED BY <1>7, <1>9, <1>10

LEMMA WalkNames ==
    ASSUME NEW S, NEW text \in Seq(S)
    PROVE  Walk(text) \in Seq(Plain(S))
<1>1. Len(text) \in 0..Len(text)
  OBVIOUS
<1> QED BY <1>1, WalkSteps

\* A walk is determined by its steps.
LEMMA WalkIs ==
    ASSUME NEW S, NEW text \in Seq(S), NEW f, f[0] = <<>>,
           \A i \in 1..Len(text) : f[i] = Enter(f[i - 1], text[i])
    PROVE  Walk(text) = f[Len(text)]
<1> DEFINE n == Len(text)
<1>1. PICK at \in [0..n -> Seq(Plain(S))] :
         /\ at[0] = <<>> /\ \A i \in 1..n : at[i] = Enter(at[i - 1], text[i])
         /\ Walk(text) = at[n]
  BY WalkSteps
<1> DEFINE T == {i \in 0..n : at[i] = f[i]}
<1>2. n \in Nat
  OBVIOUS
<1> HIDE DEF n
<1>3. 0 \in T
  BY <1>1, <1>2
<1>4. ASSUME NEW i \in 1..n, i - 1 \in T PROVE i \in T
  BY <1>1, <1>4 DEF n
<1>5. 0..n \subseteq T
  <2> HIDE DEF T
  <2> QED BY <1>2, <1>3, <1>4, Induction
<1>6. n \in T
  BY <1>2, <1>5
<1> QED BY <1>1, <1>6 DEF n

\* A sequence with one more element in front.
LEMMA Prefixed ==
    ASSUME NEW Q, NEW e \in Q, NEW names \in Seq(Q), NEW path, path = <<e>> \o names
    PROVE  /\ path \in Seq(Q) /\ Len(path) = Len(names) + 1 /\ path[1] = e
           /\ Len(names) \in Nat /\ path # <<>> /\ Tail(path) = names
           /\ \A i \in 1..Len(names) : path[i + 1] = names[i]
<1>1. <<e>> \in Seq(Q) /\ Len(<<e>>) = 1 /\ <<e>>[1] = e
  OBVIOUS
<1>2. Len(names) \in Nat
  OBVIOUS
<1>3. /\ path \in Seq(Q) /\ Len(path) = 1 + Len(names)
      /\ \A i \in 1..(1 + Len(names)) : path[i] = IF i =< 1 THEN <<e>>[i] ELSE names[i - 1]
  BY <1>1, ConcatProperties
<1>4. path[1] = e /\ \A i \in 1..Len(names) : path[i + 1] = names[i]
  BY <1>1, <1>2, <1>3
<1>5. path # <<>>
  BY <1>2, <1>3
<1>6. /\ Tail(path) \in Seq(Q) /\ Len(Tail(path)) = Len(names)
      /\ \A i \in 1..Len(names) : Tail(path)[i] = names[i]
  <2>1. /\ Tail(path) \in Seq(Q) /\ Len(Tail(path)) = Len(path) - 1
        /\ \A i \in 1..Len(Tail(path)) : Tail(path)[i] = path[i + 1]
    BY <1>3, <1>5, HeadTailProperties
  <2> QED BY <1>2, <1>3, <1>4, <2>1
<1>7. Tail(path) = names
  BY <1>6, SeqEqual
<1> QED BY <1>2, <1>3, <1>4, <1>5, <1>7

\* The empty piece, under a name of its own: the arithmetic prover has no
\* empty string.
NoName == ""

\* The path that names make.
LEMMA PathTextIs ==
    ASSUME NEW S, NoName \in S, NEW names \in Seq(S), names # <<>>
    PROVE  LET path == PathText(names) IN
           /\ path \in Seq(S) /\ Len(path) = Len(names) + 1 /\ Len(names) \in Nat \ {0}
           /\ path[1] = NoName /\ Tail(path) = names
           /\ \A i \in 1..Len(names) : path[i + 1] = names[i]
           /\ Absolute(path)
<1>1. PathText(names) = <<NoName>> \o names
  BY Zenon DEF PathText, NoName
<1>2. Len(names) \in Nat \ {0}
  BY EmptySeq
<1>3. /\ PathText(names) \in Seq(S) /\ Len(PathText(names)) = Len(names) + 1
      /\ PathText(names)[1] = NoName /\ Tail(PathText(names)) = names
      /\ \A i \in 1..Len(names) : PathText(names)[i + 1] = names[i]
  BY <1>1, Prefixed
<1>4. Len(PathText(names)) > 1
  BY <1>2, <1>3
<1>5. Absolute(PathText(names))
  BY <1>3, <1>4, Zenon DEF Absolute, NoName
<1> QED BY <1>2, <1>3, <1>5, Zenon

LEMMA PathTextOfRoot == PathText(<<>>) = <<NoName, NoName>> /\ Absolute(PathText(<<>>))
BY DEF PathText, Absolute, NoName

LEMMA PlainNames == \A S : \A name \in Plain(S) : name \in S /\ name \notin {NoName, ".", ".."}
BY DEF Plain, NoName

LEMMA DescendsWhen ==
    ASSUME NEW path, NEW roots, NEW root \in roots,
           Absolute(path),
           \A i \in 2..Len(path) :
              path[i] \notin {".", ".."} /\ (path[i] = NoName => Len(path) = 2),
           IsPrefix(Clean(root), IF path = <<NoName, NoName>> THEN <<>> ELSE Tail(path))
    PROVE  Descends(path, roots)
BY Zenon DEF Descends, NoName

\* The path of the names below a root descends from it.
LEMMA BelowDescends ==
    ASSUME NEW B, NEW names \in Seq(Plain(B)), NEW roots, NEW root \in roots,
           Below(names, Clean(root))
    PROVE  Descends(PathText(names), roots)
<1> DEFINE path == PathText(names)
           rest == IF path = <<NoName, NoName>> THEN <<>> ELSE Tail(path)
<1>1. IsPrefix(Clean(root), names)
  <2>1. Len(names) =< Len(names)
    OBVIOUS
  <2> QED BY <2>1 DEF Below, IsStrictPrefix, IsPrefix
<1>2. CASE names = <<>>
  <2>1. path = <<NoName, NoName>> /\ Absolute(path)
    BY <1>2, PathTextOfRoot
  <2>2. \A i \in 2..Len(path) : path[i] = NoName /\ Len(path) = 2
    <3> HIDE DEF path
    <3> QED BY <2>1
  <2>3. NoName \notin {".", ".."}
    BY DEF NoName
  <2>4. \A i \in 2..Len(path) :
           path[i] \notin {".", ".."} /\ (path[i] = NoName => Len(path) = 2)
    BY <2>2, <2>3, Zenon
  <2>5. rest = names
    BY <1>2, <2>1
  <2> QED BY <1>1, <2>1, <2>4, <2>5, DescendsWhen, Zenon
<1>3. CASE names # <<>>
  <2>1. /\ Len(path) = Len(names) + 1 /\ Len(names) \in Nat \ {0}
        /\ Tail(path) = names /\ Absolute(path)
        /\ \A i \in 1..Len(names) : path[i + 1] = names[i]
    <3> DEFINE S == B \cup {NoName}
    <3>1. Plain(B) \subseteq S /\ NoName \in S
      BY PlainNames
    <3> HIDE DEF S
    <3>2. names \in Seq(S)
      BY <3>1, SeqMonotonic
    <3> QED BY <1>3, <3>1, <3>2, PathTextIs
  <2> HIDE DEF path
  <2>2. \A i \in 2..Len(path) : path[i] \in Plain(B)
    <3>1. \A i \in 2..Len(path) : i - 1 \in 1..Len(names) /\ (i - 1) + 1 = i
      BY <2>1
    <3>2. \A j \in 1..Len(names) : names[j] \in Plain(B)
      BY ElementOfSeq
    <3> QED BY <2>1, <3>1, <3>2
  <2>3. path # <<NoName, NoName>>
    <3>1. 2 \in 2..Len(path)
      BY <2>1
    <3> QED BY <2>2, <3>1, PlainNames
  <2>4. rest = names
    BY <2>1, <2>3
  <2>5. \A i \in 2..Len(path) :
           path[i] \notin {".", ".."} /\ (path[i] = NoName => Len(path) = 2)
    BY <2>2, PlainNames, Zenon
  <2> QED BY <1>1, <2>1, <2>4, <2>5, DescendsWhen, Zenon DEF path
<1> QED BY <1>2, <1>3

\* A cleaned path has plain names only.
LEMMA CleanNames ==
    ASSUME NEW S, Cwd \in Seq(S), NEW text \in Seq(S)
    PROVE  Clean(text) \in Seq(Plain(S))
<1>1. Cwd \o text \in Seq(S)
  OBVIOUS
<1> QED BY <1>1, WalkNames DEF Clean

----------------------------------------------------------------------------
(* Values *)

\* Texts and lists have a length.
ScalarOK(v) ==
    /\ Is(v, "string") => \E S : v.text \in Seq(S)
    /\ Is(v, "number") => v.num \in Int

ValueOK(v) ==
    /\ ScalarOK(v)
    /\ Is(v, "array") => \E S : v.items \in Seq(S) /\ \A item \in S : ScalarOK(item)

LEMMA JSONOK == \A v \in JSONValue : ValueOK(v)
<1>1. \A v \in JSONScalar : ScalarOK(v)
  BY DEF JSONScalar, ScalarOK, Is
<1>2. \A v \in JSONScalar : ~Is(v, "array")
  BY DEF JSONScalar, Is
<1>3. ASSUME NEW v \in [kind : {"array"}, items : Seq(JSONScalar)]
      PROVE  ValueOK(v)
  BY <1>1 DEF ValueOK, ScalarOK, Is
<1> QED BY <1>1, <1>2, <1>3 DEF JSONValue, ValueOK

\* What a path becomes that is let through.
LEMMA PathNormal ==
    ASSUME NEW param, NEW v, ScalarOK(v), param.type = "path", ScalarAccepts(param, v)
    PROVE  Descends(ScalarNormal(param, v).text, param.roots)
<1>1. Is(v, "string") /\ PathAllowed(v.text, param.roots)
  BY DEF ScalarAccepts
<1>2. ScalarNormal(param, v) = Str(PathText(Clean(v.text)))
  BY DEF ScalarNormal, normalizePath
<1>3. PICK S : v.text \in Seq(S)
  BY <1>1 DEF ScalarOK
<1> DEFINE B == S \cup STRING
<1>4. v.text \in Seq(B) /\ Cwd \in Seq(B)
  <2>1. S \subseteq B /\ STRING \subseteq B
    OBVIOUS
  <2> HIDE DEF B
  <2> QED BY <1>3, <2>1, SeqMonotonic, ValidationAssumption
<1>5. Clean(v.text) \in Seq(Plain(B))
  <2> HIDE DEF B
  <2> QED BY <1>4, CleanNames
<1>6. PICK root \in param.roots : Below(Clean(v.text), Clean(root))
  BY <1>1 DEF PathAllowed
<1>7. Descends(PathText(Clean(v.text)), param.roots)
  <2> HIDE DEF B
  <2> QED BY <1>5, <1>6, BelowDescends
<1> QED BY <1>2, <1>7 DEF Str

Inside(param, value) ==
    /\ param.type = "path" => Descends(value.text, param.roots)
    /\ param.type = "array" /\ param.item.type = "path" =>
           \A i \in DOMAIN value.items : Descends(value.items[i].text, param.item.roots)

\* What a value becomes that is let through.
LEMMA NormalInside ==
    ASSUME NEW param, NEW v, ValueOK(v), Accepts(param, v)
    PROVE  Inside(param, Normal(param, v))
<1>1. CASE param.type = "path"
  <2>1. ScalarAccepts(param, v) /\ Normal(param, v) = ScalarNormal(param, v)
    BY <1>1 DEF Accepts, Normal
  <2> QED BY <1>1, <2>1, PathNormal DEF Inside, ValueOK
<1>2. CASE param.type = "array" /\ param.item.type = "path"
  <2>1. /\ Is(v, "array") /\ \A i \in DOMAIN v.items : ScalarAccepts(param.item, v.items[i])
        /\ Normal(param, v) = Array([i \in DOMAIN v.items |-> ScalarNormal(param.item, v.items[i])])
    BY <1>2 DEF Accepts, ScalarAccepts, Normal
  <2>2. \A i \in DOMAIN v.items : ScalarOK(v.items[i])
    BY <2>1 DEF ValueOK
  <2>3. \A i \in DOMAIN v.items :
           Descends(ScalarNormal(param.item, v.items[i]).text, param.item.roots)
    BY <1>2, <2>1, <2>2, PathNormal
  <2> QED BY <1>2, <2>1, <2>3 DEF Inside, Array
<1> QED BY <1>1, <1>2 DEF Inside

----------------------------------------------------------------------------
(* Definitions *)

\* The last and the first place of a list at which something holds.
LEMMA MaxIn ==
    ASSUME NEW n \in Nat, NEW T, T \subseteq 1..n, T # {}
    PROVE  Max(T) \in T
<1> DEFINE R == {n - k : k \in T}
<1>1. R \subseteq Nat /\ R # {}
  <2>1. \A k \in T : n - k \in Nat
    OBVIOUS
  <2> QED BY <2>1
<1>2. PICK r \in R : \A q \in R : r =< q
  <2> HIDE DEF R
  <2> QED BY <1>1, Least
<1>3. PICK k \in T : r = n - k
  BY <1>2
<1>4. \A j \in T : n - k =< n - j
  BY <1>2, <1>3
<1>5. \A j \in T : k >= j
  BY <1>4
<1> QED BY <1>3, <1>5 DEF Max

LEMMA MinIn ==
    ASSUME NEW n \in Nat, NEW T, T \subseteq 1..n, T # {}
    PROVE  Min(T) \in T
<1>1. T \subseteq Nat
  OBVIOUS
<1> QED BY <1>1, Least DEF Min

\* A registered command is one of the file's.
LEMMA RegisteredIs ==
    ASSUME NEW f \in Files, NEW id \in DOMAIN Registry(f)
    PROVE  \E k \in DOMAIN f.commands : Registry(f)[id] = f.commands[k] /\ f.commands[k].id = id
<1>1. Registry(f)[id] = CommandNamed(f, id)
  BY DEF Registry
<1>2. CommandsNamed(f, id) # {} /\ CommandsNamed(f, id) \subseteq 1..Len(f.commands)
  <2>1. DOMAIN f.commands = 1..Len(f.commands)
    BY FilesAssumption DEF IsList
  <2>2. \E i \in DOMAIN f.commands : f.commands[i].id = id
    BY DEF Registry
  <2> QED BY <2>1, <2>2 DEF CommandsNamed
<1>3. Max(CommandsNamed(f, id)) \in CommandsNamed(f, id)
  <2>1. Len(f.commands) \in Nat
    BY FilesAssumption DEF IsList
  <2> QED BY <1>2, <2>1, MaxIn
<1> QED BY <1>1, <1>3 DEF CommandNamed, CommandsNamed

LEMMA DefaultOK ==
    ASSUME NEW f \in Files, NEW id \in DOMAIN Registry(f),
           NEW n \in DOMAIN Registry(f)[id].params
    PROVE  ValueOK(Registry(f)[id].params[n].default)
BY RegisteredIs, FilesAssumption, JSONOK

\* Arguments a handler may get.
ArgumentsOK(raw) == \A n \in DOMAIN raw : ValueOK(raw[n])

LEMMA ArtifactPathIsText ==
    ASSUME NEW f \in Files
    PROVE  \E S : ArtifactPath(f, ArtifactName) \in Seq(S)
<1> DEFINE S == STRING \cup {"committed", ArtifactName, NoName}
           D == CommittedDirectory(f)
<1>1. STRING \subseteq S /\ "committed" \in S /\ ArtifactName \in S /\ NoName \in S
  OBVIOUS
<1> HIDE DEF S
<1>2. f.store.root \in Seq(S)
  BY <1>1, FilesAssumption, SeqMonotonic
<1>3. D \in Seq(S)
  BY <1>1, <1>2 DEF CommittedDirectory
<1>4. Walk(Append(D, ArtifactName)) \in Seq(Plain(S))
  <2>1. Append(D, ArtifactName) \in Seq(S)
    BY <1>1, <1>3
  <2> QED BY <2>1, WalkNames
<1>5. Walk(Append(D, ArtifactName)) \in Seq(S)
  BY <1>4, PlainNames, SeqMonotonic
<1>6. CASE Walk(Append(D, ArtifactName)) = <<>>
  <2>1. ArtifactPath(f, ArtifactName) = <<NoName, NoName>>
    BY <1>6, PathTextOfRoot DEF ArtifactPath
  <2>2. <<NoName, NoName>> \in Seq(S)
    BY <1>1
  <2> QED BY <2>1, <2>2
<1>7. CASE Walk(Append(D, ArtifactName)) # <<>>
  BY <1>1, <1>5, <1>7, PathTextIs DEF ArtifactPath
<1> QED BY <1>6, <1>7

\* So is what the artifact service hands over.
LEMMA DeployArgumentsOK ==
    ASSUME NEW f \in Files
    PROVE  ArgumentsOK(DeployArguments(f, ArtifactName))
BY ArtifactPathIsText DEF ArgumentsOK, DeployArguments, ValueOK, ScalarOK, Is, Str

\* What a command is given stays inside.
LEMMA JobInside ==
    ASSUME NEW f \in Files, NEW id, NEW raw, ArgumentsOK(raw),
           Verdict(f, id, raw) = "ready", NEW n \in DOMAIN Job(f, id, raw).args
    PROVE  Inside(Registry(f)[id].params[n], Job(f, id, raw).args[n])
<1> DEFINE def == Registry(f)[id]
<1>1. id \in DOMAIN Registry(f) /\ Valid(def, raw)
  BY DEF Verdict
<1>2. Job(f, id, raw).args = Normalized(def, raw)
  BY DEF Job
<1>3. n \in Supplied(def, raw)
  BY <1>2 DEF Normalized
<1>4. n \in DOMAIN def.params /\ Accepts(def.params[n], ValueFor(def, raw, n))
  BY <1>1, <1>3 DEF Valid, Supplied
<1>5. ValueOK(ValueFor(def, raw, n))
  BY <1>1, <1>4, DefaultOK DEF ArgumentsOK, ValueFor
<1>6. Job(f, id, raw).args[n] = Normal(def.params[n], ValueFor(def, raw, n))
  BY <1>2, <1>3 DEF Normalized
<1> HIDE DEF def
<1> QED BY <1>4, <1>5, <1>6, NormalInside DEF def

----------------------------------------------------------------------------
(* The session *)

\* A process that reads lines has loaded its file.
Loaded == file \in Files /\ (server \in {"serving", "running"} => Usable(file))

\* What a call of a command brings is JSON.
LineOK(line) ==
    Usable(file) /\ line.kind = "call" /\ Route(file, line.name) = "command" =>
        ArgumentsOK(line.args)

Lines == \E S : toServer \in Seq(S) /\ \A line \in S : LineOK(line)

Served == Loaded /\ Lines

\* The lines clients write.
LEMMA FreeLineOK ==
    ASSUME file \in Files, NEW line \in FreeLines(file), NEW i
    PROVE  LineOK([line EXCEPT !.id = i])
BY LinesAssumption, JSONOK DEF LineOK, ArgumentsOK

LEMMA OtherLineOK ==
    /\ \A kind, id : kind # "call" => LineOK(Line(kind, id))
    /\ \A id, name : LineOK(Call(id, name, <<>>))
BY DEF LineOK, Line, Call, ArgumentsOK

LEMMA ChunkLineOK ==
    \A id, name, b : LineOK([Call(id, name, <<>>) EXCEPT !.long = b])
BY DEF LineOK, Line, Call, ArgumentsOK

\* Profiles come with a store, so a deploy is an artifact tool's call.
LEMMA DeployLineOK ==
    ASSUME NEW i \in DOMAIN file.profiles, NEW id, NEW args
    PROVE  LineOK(Call(id, "deploy_artifact", args))
<1>1. SUFFICES ASSUME Usable(file) PROVE Route(file, "deploy_artifact") # "command"
  BY DEF LineOK, Call, Line
<1>2. file.profiles # <<>>
  OBVIOUS
<1>3. file.store.enabled
  <2>1. ArtifactErrors(file) = {}
    <3>1. ConfigErrors(file) = {}
      BY <1>1 DEF Usable, Loads
    <3>2. ArtifactErrors(file) \subseteq ConfigErrors(file)
      BY DEF ConfigErrors
    <3> QED BY <3>1, <3>2
  <2> QED BY <1>2, <2>1 DEF ArtifactErrors, ErrorIf
<1> QED BY <1>3 DEF Route, Tools, ArtifactTools

LEMMA CallLineOK ==
    ASSUME NEW id, NEW line \in DeployCalls(id)
    PROVE  LineOK(line)
<1>1. CASE \E name : line = Call(id, name, <<>>)
  BY <1>1, OtherLineOK
<1>2. CASE \E name, b : line = [Call(id, name, <<>>) EXCEPT !.long = b]
  <2>1. PICK name, b : line = [Call(id, name, <<>>) EXCEPT !.long = b]
    BY <1>2
  <2> QED BY <2>1, ChunkLineOK
<1>3. CASE \E i \in DOMAIN file.profiles :
              line = Call(id, "deploy_artifact", [profile_id |-> file.profiles[i].id])
  BY <1>3, DeployLineOK
<1> QED BY <1>1, <1>2, <1>3 DEF DeployCalls

LEMMA LinesAppend ==
    ASSUME Lines, NEW line, LineOK(line), toServer' = Append(toServer, line), file' = file
    PROVE  Lines'
<1>1. PICK S : toServer \in Seq(S) /\ \A l \in S : LineOK(l)
  BY DEF Lines
<1> DEFINE R == S \cup {line}
<1>2. toServer' \in Seq(R)
  <2>1. S \subseteq R /\ line \in R
    OBVIOUS
  <2> HIDE DEF R
  <2>2. toServer \in Seq(R)
    BY <1>1, <2>1, SeqMonotonic
  <2> QED BY <2>1, <2>2
<1>3. \A l \in R : LineOK(l)'
  BY <1>1 DEF LineOK, ArgumentsOK
<1> HIDE DEF R
<1> QED BY <1>2, <1>3 DEF Lines

LEMMA LinesKept ==
    ASSUME Lines, toServer' = toServer \/ (toServer # <<>> /\ toServer' = Tail(toServer)), file' = file
    PROVE  Lines'
<1>1. PICK S : toServer \in Seq(S) /\ \A l \in S : LineOK(l)
  BY DEF Lines
<1>2. toServer' \in Seq(S)
  BY <1>1, HeadTailProperties
<1>3. \A l \in S : LineOK(l)'
  BY <1>1 DEF LineOK, ArgumentsOK
<1> QED BY <1>2, <1>3 DEF Lines

LEMMA HeadOK ==
    ASSUME Lines, toServer # <<>>
    PROVE  LineOK(Head(toServer))
BY HeadTailProperties DEF Lines

\* What a command is called with is such an argument.
LEMMA TargetsOK ==
    ASSUME Served, server \in {"serving", "running"}, toServer # <<>>,
           NEW t \in Targets(Head(toServer))
    PROVE  ArgumentsOK(t.raw)
<1>1. LineOK(Head(toServer)) /\ Usable(file) /\ file \in Files
  BY HeadOK DEF Served, Loaded
<1> QED BY <1>1, DeployArgumentsOK DEF Targets, LineOK

LEMMA ServedInit == Init => Served
<1> SUFFICES ASSUME Init PROVE Served
  OBVIOUS
<1>1. toServer \in Seq({}) 
  BY DEF Init
<1> QED BY <1>1 DEF Init, Served, Loaded, Lines

\* A server that reads lines has a usable file and lines it may get.
LEMMA ServedStep == Served /\ [Next]_vars => Served'
<1> SUFFICES ASSUME Served, [Next]_vars PROVE Served'
  OBVIOUS
<1>1. file' = file
  BY DEF Next, ServerStep, ClientStep, vars, cvars, svars, Load, Skip, AnswerNow,
         AnswerArtifact, RefuseCommand, StartCommand, Panic, CommandEnds, Overflow, EndOfInput,
         FreeSend, Send, SendInitialize, SendInitialized, SendCall, Read, ReadEnd, Close, Lose
<1>2. Loaded'
  <2>1. server' \in {"serving", "running"} => Usable(file)
    <3>1. CASE ServerStep
      BY <3>1 DEF Served, Loaded, ServerStep, Load, Skip, AnswerNow, AnswerArtifact, RefuseCommand,
                  StartCommand, Panic, CommandEnds, Overflow, EndOfInput, Take, Write
    <3>2. CASE ClientStep \/ UNCHANGED vars
      BY <3>2 DEF Served, Loaded, vars, svars, ClientStep, FreeSend, Send, SendInitialize,
                  SendInitialized, SendCall, Read, ReadEnd, Close, Lose
    <3> QED BY <3>1, <3>2 DEF Next
  <2> QED BY <1>1, <2>1 DEF Served, Loaded, Usable
<1>3. Lines'
  <2>1. CASE FreeSend
    BY <1>1, <2>1, FreeLineOK, LinesAppend DEF FreeSend, Send, Served, Loaded
  <2>2. CASE SendInitialize \/ SendInitialized
    BY <1>1, <2>2, OtherLineOK, LinesAppend DEF SendInitialize, SendInitialized, Send, Served
  <2>3. CASE SendCall
    BY <1>1, <2>3, CallLineOK, LinesAppend DEF SendCall, Send, Served
  <2>4. CASE ServerStep \/ Read \/ ReadEnd \/ Close \/ Lose \/ UNCHANGED vars
    <3>1. toServer' = toServer \/ (toServer # <<>> /\ toServer' = Tail(toServer))
      BY <2>4 DEF ServerStep, vars, cvars, svars, Load, Skip, AnswerNow,
         AnswerArtifact, RefuseCommand, StartCommand, Panic, CommandEnds, Overflow, EndOfInput,
         Take, Read, ReadEnd, Close, Lose
    <3> QED BY <1>1, <3>1, LinesKept DEF Served
  <2> QED BY <2>1, <2>2, <2>3, <2>4 DEF Next, ClientStep
<1> QED BY <1>2, <1>3 DEF Served

\* Only the start of a command puts paths in its hands.
LEMMA InsideStep ==
    ASSUME Served, PathStaysInside, [Next]_vars
    PROVE  PathStaysInside'
<1>1. file' = file
  BY DEF Next, ServerStep, ClientStep, vars, cvars, svars, Load, Skip, AnswerNow,
         AnswerArtifact, RefuseCommand, StartCommand, Panic, CommandEnds, Overflow, EndOfInput,
         FreeSend, Send, SendInitialize, SendInitialized, SendCall, Read, ReadEnd, Close, Lose
<1>2. CASE StartCommand
  <2>1. toServer # <<>> /\ server = "serving"
    BY <1>2 DEF StartCommand, Take
  <2>2. PICK t \in Targets(Head(toServer)) :
           /\ Verdict(file, t.id, t.raw) = "ready"
           /\ job' = [request |-> Head(toServer).id, run |-> Job(file, t.id, t.raw)]
    BY <1>2 DEF StartCommand
  <2>3. ArgumentsOK(t.raw) /\ file \in Files
    BY <2>1, TargetsOK DEF Served, Loaded
  <2>4. job'.run = Job(file, t.id, t.raw) /\ job'.run.id = t.id
    BY <2>2 DEF Job
  <2>5. \A n \in DOMAIN job'.run.args : Inside(Registry(file)[t.id].params[n], job'.run.args[n])
    BY <2>2, <2>3, <2>4, JobInside
  <2> QED BY <1>1, <2>4, <2>5 DEF PathStaysInside, Definition, Inside
<1>3. CASE job' = job \/ job' = Nil
  BY <1>1, <1>3 DEF PathStaysInside, Definition
<1> QED
  BY <1>2, <1>3 DEF Next, ServerStep, ClientStep, vars, cvars, svars, Load, Skip, AnswerNow,
         AnswerArtifact, RefuseCommand, Panic, CommandEnds, Overflow, EndOfInput,
         FreeSend, Send, SendInitialize, SendInitialized, SendCall, Read, ReadEnd, Close, Lose

\* A path a command is given descends from a root its parameter allows
\* (validation/doc.go, normalizePath), whatever file was loaded and whatever
\* was asked.
THEOREM PathsInside == Spec => []PathStaysInside
<1>1. Init => PathStaysInside
  BY DEF Init, PathStaysInside
<1> QED BY <1>1, ServedInit, ServedStep, InsideStep, PTL DEF Spec

----------------------------------------------------------------------------
(* Flattening *)

\* The stages of a flattening, one sequence after the other.
Stages(at, P, n, seqs) ==
    /\ at \in [0..n -> P]
    /\ at[0] = <<>> /\ \A i \in 1..n : at[i] = at[i - 1] \o seqs[i]
    /\ FlattenSeq(seqs) = at[n]

LEMMA FlattenSteps ==
    ASSUME NEW P, <<>> \in P, NEW seqs, NEW n \in Nat, n = Len(seqs), n = 0 => seqs = <<>>,
           \A i \in 1..n : /\ seqs[i] \in P /\ <<>> \o seqs[i] = seqs[i]
                          /\ \A v \in P : v \o seqs[i] \in P
    PROVE  /\ \E at : Stages(at, P, n, seqs)
           /\ FlattenSeq(seqs) \in P
<1> DEFINE c == <<>>
           D == [i \in 1..n |-> [v \in P |-> v \o seqs[i]]]
           Eq(g) == g = [i \in 1..n |-> IF i = 1 THEN seqs[i] ELSE g[i - 1] \o seqs[i]]
           flatten == CHOOSE g : Eq(g)
<1>3. \E f \in [0..n -> P] : f[0] = c /\ \A i \in 1..n : f[i] = f[i - 1] \o seqs[i]
  <2> HIDE DEF Eq, flatten
  <2> HIDE DEF c
  <2>1. c \in P
    BY DEF c
  <2>2. D \in [1..n -> [P -> P]]
    OBVIOUS
  <2>3. \A f \in [0..n -> P] : \A i \in 1..n : D[i][f[i - 1]] = f[i - 1] \o seqs[i]
    <3>1. ASSUME NEW f \in [0..n -> P], NEW i \in 1..n
          PROVE  D[i][f[i - 1]] = f[i - 1] \o seqs[i]
      <4>1. i - 1 \in 0..n
        OBVIOUS
      <4>2. f[i - 1] \in P
        BY <4>1
      <4> QED BY <4>2
    <3> QED BY <3>1
  <2> HIDE DEF D
  <2>4. \E f \in [0..n -> P] : f[0] = c /\ \A i \in 1..n : f[i] = D[i][f[i - 1]]
    BY ONLY <2>1, <2>2, Iteration
  <2>5. PICK f \in [0..n -> P] : f[0] = c /\ \A i \in 1..n : f[i] = D[i][f[i - 1]]
    BY ONLY <2>4
  <2> WITNESS f \in [0..n -> P]
  <2> QED BY ONLY <2>3, <2>5
<1>4. PICK f \in [0..n -> P] : f[0] = c /\ \A i \in 1..n : f[i] = f[i - 1] \o seqs[i]
  <2> HIDE DEF c, Eq, flatten, D
  <2> QED BY <1>3
<1>5. FlattenSeq(seqs) = f[n]
  <2>1. CASE n = 0
    <3>1. FlattenSeq(seqs) = seqs
      BY <2>1 DEF FlattenSeq
    <3> QED BY <1>4, <2>1, <3>1
  <2>2. CASE n # 0
    <3>1. FlattenSeq(seqs) = flatten[n]
      BY <2>2 DEF FlattenSeq
    <3> DEFINE h == [i \in 1..n |-> f[i]]
    <3>2. f[1] = seqs[1]
      <4>1. 1 \in 1..n /\ 1 - 1 = 0
        BY <2>2
      <4>2. f[1] = f[1 - 1] \o seqs[1] /\ f[0] = <<>>
        BY ONLY <1>4, <4>1
      <4>3. f[1] = <<>> \o seqs[1]
        BY <4>1, <4>2
      <4> QED BY <4>1, <4>3
    <3>3. Eq(h)
      <4> HIDE DEF c, flatten, D
      <4>1. \A i \in 1..n : i # 1 => i - 1 \in 1..n
        OBVIOUS
      <4>2. \A i \in 1..n : h[i] = IF i = 1 THEN seqs[i] ELSE h[i - 1] \o seqs[i]
        BY <1>4, <3>2, <4>1
      <4> QED BY <4>2
    <3>4. Eq(flatten)
      <4> HIDE DEF Eq, h
      <4> QED BY <3>3
    <3> DEFINE T == {i \in 0..n : i = 0 \/ flatten[i] = f[i]}
    <3>5. 0 \in T
      OBVIOUS
    <3>6. ASSUME NEW i \in 1..n, i - 1 \in T PROVE i \in T
      <4>1. flatten[i] = IF i = 1 THEN seqs[i] ELSE flatten[i - 1] \o seqs[i]
        <5> HIDE DEF flatten, D
        <5> QED BY <3>4
      <4> HIDE DEF flatten, Eq, c, D
      <4>2. i \in 0..n /\ (i # 1 => i - 1 # 0)
        OBVIOUS
      <4>3. i # 1 => flatten[i - 1] = f[i - 1]
        BY <3>6, <4>2
      <4>4. f[i] = f[i - 1] \o seqs[i]
        BY <1>4
      <4> QED BY <3>2, <4>1, <4>2, <4>3, <4>4
    <3>7. n \in T
      <4> HIDE DEF T
      <4>1. 0..n \subseteq T
        BY <3>5, <3>6, Induction
      <4> QED BY <4>1
    <3> QED BY <2>2, <3>1, <3>7
  <2> QED BY <2>1, <2>2
<1> HIDE DEF flatten, D, Eq
<1>6. n \in 0..n
  OBVIOUS
<1>7. FlattenSeq(seqs) \in P
  BY <1>4, <1>5, <1>6
<1>8. Stages(f, P, n, seqs)
  BY ONLY <1>4, <1>5 DEF Stages
<1> QED BY <1>7, <1>8

\* The elements of a sequence.
In(seq) == {seq[i] : i \in DOMAIN seq}

LEMMA SeqOfIn ==
    ASSUME NEW S, NEW seq \in Seq(S)
    PROVE  /\ seq \in Seq(In(seq)) /\ Len(seq) \in Nat /\ DOMAIN seq = 1..Len(seq)
           /\ In(seq) \subseteq S
<1>1. Len(seq) \in Nat /\ DOMAIN seq = 1..Len(seq) /\ seq \in [1..Len(seq) -> S]
  BY LenProperties
<1>2. seq \in [1..Len(seq) -> In(seq)]
  BY <1>1 DEF In
<1>3. seq \in Seq(In(seq))
  BY <1>1, <1>2, SeqDef
<1> QED BY <1>1, <1>3 DEF In

LEMMA SeqFrom ==
    ASSUME NEW n \in Nat, NEW seq, DOMAIN seq = 1..n, seq = [i \in DOMAIN seq |-> seq[i]],
           NEW S, \A i \in 1..n : seq[i] \in S
    PROVE  seq \in Seq(S) /\ Len(seq) = n
<1>1. seq \in [1..n -> S]
  OBVIOUS
<1> QED BY <1>1, SeqDef, LenProperties

\* What is in a flattened sequence is in one of its parts.
LEMMA FlattenIn ==
    ASSUME NEW n \in Nat, NEW seqs, DOMAIN seqs = 1..n, seqs = [i \in DOMAIN seqs |-> seqs[i]],
           \A i \in 1..n : \E S : seqs[i] \in Seq(S)
    PROVE  /\ \E S : FlattenSeq(seqs) \in Seq(S)
           /\ \A x \in In(FlattenSeq(seqs)) : \E i \in DOMAIN seqs : x \in In(seqs[i])
<1> DEFINE U == UNION {In(seqs[i]) : i \in 1..n}
<1>1. \A i \in 1..n : seqs[i] \in Seq(U)
  <2>1. ASSUME NEW i \in 1..n PROVE seqs[i] \in Seq(U)
    <3>1. seqs[i] \in Seq(In(seqs[i]))
      BY SeqOfIn
    <3>2. In(seqs[i]) \subseteq U
      OBVIOUS
    <3> HIDE DEF U
    <3> QED BY <3>1, <3>2, SeqMonotonic
  <2> QED BY <2>1
<1>2. seqs \in Seq(Seq(U)) /\ Len(seqs) = n
  <2> HIDE DEF U
  <2> QED BY <1>1, SeqFrom
<1>3. FlattenSeq(seqs) \in Seq(U)
  <2> HIDE DEF U
  <2>1. n = 0 => seqs = <<>>
    BY <1>2, EmptySeq
  <2>2. \A i \in 1..n : <<>> \o seqs[i] = seqs[i] /\ \A v \in Seq(U) : v \o seqs[i] \in Seq(U)
    BY <1>1, ConcatProperties, ConcatEmptySeq
  <2> DEFINE P == Seq(U)
  <2>3. /\ <<>> \in P
        /\ \A i \in 1..n : /\ seqs[i] \in P /\ <<>> \o seqs[i] = seqs[i]
                           /\ \A v \in P : v \o seqs[i] \in P
    BY <1>1, <2>2
  <2> HIDE DEF P
  <2>4. n = Len(seqs)
    BY <1>2
  <2>5. FlattenSeq(seqs) \in P
    BY ONLY <2>1, <2>3, <2>4, FlattenSteps
  <2> QED BY <2>5 DEF P
<1>4. In(FlattenSeq(seqs)) \subseteq U
  <2> HIDE DEF U
  <2> QED BY <1>3, SeqOfIn
<1> QED BY <1>3, <1>4

\* What is in a part is in the flattened sequence.
LEMMA FlattenHas ==
    ASSUME NEW n \in Nat, NEW seqs, DOMAIN seqs = 1..n, seqs = [i \in DOMAIN seqs |-> seqs[i]],
           \A i \in 1..n : \E S : seqs[i] \in Seq(S),
           NEW k \in 1..n, NEW x \in In(seqs[k])
    PROVE  Contains(FlattenSeq(seqs), x)
<1> DEFINE U == UNION {In(seqs[i]) : i \in 1..n}
           P == Seq(U)
<1>1. \A i \in 1..n : seqs[i] \in P
  <2>1. ASSUME NEW i \in 1..n PROVE seqs[i] \in P
    <3>1. seqs[i] \in Seq(In(seqs[i]))
      BY SeqOfIn
    <3>2. In(seqs[i]) \subseteq U
      OBVIOUS
    <3> HIDE DEF U
    <3> QED BY <3>1, <3>2, SeqMonotonic
  <2> QED BY <2>1
<1> HIDE DEF U
<1>2. n = Len(seqs) /\ (n = 0 => seqs = <<>>)
  <2>1. seqs \in Seq(P) /\ Len(seqs) = n
    <3> HIDE DEF P
    <3> QED BY <1>1, SeqFrom
  <2> QED BY <2>1, EmptySeq
<1>3. /\ <<>> \in P
      /\ \A i \in 1..n : /\ seqs[i] \in P /\ <<>> \o seqs[i] = seqs[i]
                         /\ \A v \in P : v \o seqs[i] \in P
  BY <1>1, ConcatProperties, ConcatEmptySeq
<1> HIDE DEF P
<1>4. PICK at : Stages(at, P, n, seqs)
  BY ONLY <1>2, <1>3, FlattenSteps
<1>5. /\ \A j \in 0..n : at[j] \in P
      /\ \A i \in 1..n : at[i] = at[i - 1] \o seqs[i]
      /\ FlattenSeq(seqs) = at[n]
  BY <1>4 DEF Stages
<1> USE DEF P
<1> DEFINE T == {j \in 0..n : j < k \/ x \in In(at[j])}
<1>6. 0 \in T
  OBVIOUS
<1>7. ASSUME NEW j \in 1..n, j - 1 \in T PROVE j \in T
  <2>1. j - 1 \in 0..n /\ at[j] = at[j - 1] \o seqs[j]
    BY <1>5
  <2>2. at[j - 1] \in P /\ seqs[j] \in P
    BY <1>1, <1>5, <2>1
  <2>3. /\ DOMAIN at[j - 1] = 1..Len(at[j - 1]) /\ DOMAIN seqs[j] = 1..Len(seqs[j])
        /\ Len(at[j - 1]) \in Nat /\ Len(seqs[j]) \in Nat
    BY <2>2, LenProperties
  <2>4. DOMAIN at[j] = 1..(Len(at[j - 1]) + Len(seqs[j]))
    BY <2>1, <2>2, <2>3, ConcatProperties, LenProperties
  <2>5. \A i \in 1..(Len(at[j - 1]) + Len(seqs[j])) :
           at[j][i] = IF i <= Len(at[j - 1]) THEN at[j - 1][i] ELSE seqs[j][i - Len(at[j - 1])]
    BY <2>1, <2>2, ConcatProperties
  <2>6. In(at[j - 1]) \subseteq In(at[j])
    <3>1. ASSUME NEW i \in DOMAIN at[j - 1] PROVE at[j - 1][i] \in In(at[j])
      <4>1. i \in DOMAIN at[j] /\ i <= Len(at[j - 1])
        BY <2>3, <2>4
      <4>2. at[j][i] = at[j - 1][i]
        BY <2>4, <2>5, <4>1
      <4> QED BY <4>1, <4>2 DEF In
    <3> QED BY <3>1 DEF In
  <2>7. In(seqs[j]) \subseteq In(at[j])
    <3>1. ASSUME NEW i \in DOMAIN seqs[j] PROVE seqs[j][i] \in In(at[j])
      <4> DEFINE m == Len(at[j - 1]) + i
      <4>1. m \in DOMAIN at[j] /\ ~(m <= Len(at[j - 1])) /\ m - Len(at[j - 1]) = i
        BY <2>3, <2>4
      <4>2. at[j][m] = seqs[j][i]
        BY <2>4, <2>5, <4>1
      <4> QED BY <4>1, <4>2 DEF In
    <3> QED BY <3>1 DEF In
  <2>8. CASE j < k
    BY <2>8
  <2>9. CASE j = k
    BY <2>7, <2>9
  <2>10. CASE j > k
    BY <1>7, <2>6, <2>10
  <2> QED BY <2>8, <2>9, <2>10
<1>8. n \in T
  <2> HIDE DEF T
  <2>1. 0..n \subseteq T
    BY <1>6, <1>7, Induction
  <2> QED BY <2>1
<1>9. x \in In(FlattenSeq(seqs)) /\ FlattenSeq(seqs) \in P
  BY <1>8, <1>5
<1>10. DOMAIN FlattenSeq(seqs) = 1..Len(FlattenSeq(seqs))
  BY <1>9, LenProperties
<1> QED BY <1>9, <1>10 DEF In, Contains

----------------------------------------------------------------------------
(* Shell syntax *)

\* The digits and the sign of a number are no shell tokens.
PlainNumbers == \A n \in Int : ToString(n) \notin ShellPiece

LEMMA PlainPieces == NoName \notin ShellPiece /\ "true" \notin ShellPiece /\ "false" \notin ShellPiece
BY BuilderAssumption, Zenon DEF NoName

\* A path has the names it was made from.
LEMMA PathPieces ==
    ASSUME NEW S, NEW text \in Seq(S)
    PROVE  LET path == PathText(Clean(text)) IN
           /\ \E Q : path \in Seq(Q)
           /\ containsShellSyntax(path) => containsShellSyntax(text) \/ containsShellSyntax(Cwd)
<1> DEFINE R == In(text) \cup In(Cwd)
           names == Clean(text)
           path == PathText(names)
<1>1. text \in Seq(R) /\ Cwd \in Seq(R)
  <2>1. text \in Seq(In(text)) /\ Cwd \in Seq(In(Cwd))
    BY SeqOfIn, ValidationAssumption
  <2>2. In(text) \subseteq R /\ In(Cwd) \subseteq R
    OBVIOUS
  <2> HIDE DEF R
  <2> QED BY <2>1, <2>2, SeqMonotonic
<1>2. names \in Seq(Plain(R))
  <2> HIDE DEF R
  <2> QED BY <1>1, CleanNames
<1>3. /\ \E Q : path \in Seq(Q)
      /\ \A i \in DOMAIN path : path[i] \in R \cup {NoName}
  <2>1. CASE names = <<>>
    <3>1. path = <<NoName, NoName>>
      BY <2>1, PathTextOfRoot
    <3>2. path \in Seq({NoName})
      BY <3>1
    <3>3. DOMAIN path = 1..Len(path) /\ \A i \in 1..Len(path) : path[i] \in {NoName}
      <4> HIDE DEF path
      <4> QED BY <3>2, LenProperties, ElementOfSeq
    <3> QED BY <3>2, <3>3
  <2>2. CASE names # <<>>
    <3> DEFINE Q == R \cup {NoName}
    <3>1. Plain(R) \subseteq Q /\ NoName \in Q
      BY PlainNames
    <3> HIDE DEF Q, names
    <3>2. names \in Seq(Q)
      BY <1>2, <3>1, SeqMonotonic
    <3>3. path \in Seq(Q)
      BY <2>2, <3>1, <3>2, PathTextIs
    <3> HIDE DEF path
    <3>4. DOMAIN path = 1..Len(path) /\ \A i \in 1..Len(path) : path[i] \in Q
      BY <3>3, LenProperties, ElementOfSeq
    <3> QED BY <3>3, <3>4 DEF Q
  <2> QED BY <2>1, <2>2
<1>4. ASSUME containsShellSyntax(path)
      PROVE  containsShellSyntax(text) \/ containsShellSyntax(Cwd)
  <2> HIDE DEF path
  <2>1. PICK i \in DOMAIN path : path[i] \in ShellPiece
    BY <1>4 DEF containsShellSyntax
  <2>2. path[i] \in R
    BY <1>3, <2>1, PlainPieces
  <2> QED BY <2>1, <2>2 DEF In, containsShellSyntax
<1> HIDE DEF path
<1> QED BY <1>3, <1>4 DEF path

\* What an accepted value becomes as an argument.
LEMMA ScalarPieces ==
    ASSUME NEW param, NEW v, ScalarOK(v), ScalarAccepts(param, v), PlainNumbers
    PROVE  LET w == ScalarNormal(param, v) IN
           /\ w.kind \in {"string", "bool", "int"}
           /\ \E S : scalarText(w) \in Seq(S)
           /\ containsShellSyntax(scalarText(w)) =>
                 \/ containsShellSyntax(Cwd)
                 \/ Is(v, "string") /\ containsShellSyntax(v.text)
<1> DEFINE w == ScalarNormal(param, v)
<1>1. CASE param.type \in {"enum", "string"}
  <2>1. Is(v, "string") /\ w = v
    BY <1>1 DEF ScalarAccepts, ScalarNormal
  <2>2. scalarText(w) = v.text
    BY <2>1 DEF scalarText, Is
  <2> QED BY <2>1, <2>2 DEF ScalarOK, Is
<1>2. CASE param.type = "bool"
  <2>1. Is(v, "bool") /\ w = v
    BY <1>2 DEF ScalarAccepts, ScalarNormal
  <2>2. scalarText(w) \in {<<"true">>, <<"false">>}
    BY <2>1 DEF scalarText, Is
  <2>3. \A i \in DOMAIN scalarText(w) : scalarText(w)[i] \in {"true", "false"}
    BY <2>2
  <2>4. <<"true">> \in Seq({"true"}) /\ <<"false">> \in Seq({"false"})
    OBVIOUS
  <2>5. \E S : scalarText(w) \in Seq(S)
    BY <2>2, <2>4
  <2> QED BY <2>1, <2>3, <2>5, PlainPieces DEF containsShellSyntax, Is
<1>3. CASE param.type = "int"
  <2>1. Is(v, "number") /\ w = Int_(v.num)
    BY <1>3 DEF ScalarAccepts, ScalarNormal
  <2>2. scalarText(w) = <<ToString(v.num)>> /\ w.kind = "int"
    BY <2>1 DEF scalarText, Int_
  <2>3. ToString(v.num) \notin ShellPiece
    BY <2>1 DEF ScalarOK, PlainNumbers
  <2>4. ~containsShellSyntax(scalarText(w))
    BY <2>2, <2>3 DEF containsShellSyntax
  <2>5. scalarText(w) \in Seq({ToString(v.num)})
    BY <2>2
  <2> QED BY <2>2, <2>4, <2>5
<1>4. CASE param.type = "path"
  <2>1. Is(v, "string") /\ w = Str(PathText(Clean(v.text)))
    BY <1>4 DEF ScalarAccepts, ScalarNormal, normalizePath
  <2>2. scalarText(w) = PathText(Clean(v.text)) /\ w.kind = "string"
    BY <2>1 DEF scalarText, Str
  <2> QED BY <2>1, <2>2, PathPieces DEF ScalarOK
<1> QED BY <1>1, <1>2, <1>3, <1>4 DEF ScalarAccepts

\* Where the shell syntax of an argument comes from.
FromOutside(v) ==
    containsShellSyntax(Cwd) \/ \E text \in Texts(v) : containsShellSyntax(text)

\* The same for the items of a list.
LEMMA ItemPieces ==
    ASSUME NEW param, NEW v, ValueOK(v), Accepts(param, v), PlainNumbers, param.type = "array"
    PROVE  LET items == Normal(param, v).items IN
           /\ \E n \in Nat : DOMAIN items = 1..n
           /\ \A i \in DOMAIN items : \E S : scalarText(items[i]) \in Seq(S)
           /\ \A i \in DOMAIN items : containsShellSyntax(scalarText(items[i])) => FromOutside(v)
<1> DEFINE items == Normal(param, v).items
<1>1. Is(v, "array") /\ \A i \in DOMAIN v.items : ScalarAccepts(param.item, v.items[i])
  BY DEF Accepts, ScalarAccepts
<1>2. items = [i \in DOMAIN v.items |-> ScalarNormal(param.item, v.items[i])]
  BY DEF Normal, Array
<1>3. PICK S : v.items \in Seq(S) /\ \A item \in S : ScalarOK(item)
  BY <1>1 DEF ValueOK
<1>4. Len(v.items) \in Nat /\ DOMAIN v.items = 1..Len(v.items)
  BY <1>3
<1>5. \A i \in DOMAIN v.items : ScalarOK(v.items[i])
  BY <1>3, <1>4, ElementOfSeq
<1> HIDE DEF items
<1>6. ASSUME NEW i \in DOMAIN items
      PROVE  /\ \E Q : scalarText(items[i]) \in Seq(Q)
             /\ containsShellSyntax(scalarText(items[i])) => FromOutside(v)
  <2>1. i \in DOMAIN v.items /\ items[i] = ScalarNormal(param.item, v.items[i])
    BY <1>2
  <2>2. /\ \E Q : scalarText(items[i]) \in Seq(Q)
        /\ containsShellSyntax(scalarText(items[i])) =>
              \/ containsShellSyntax(Cwd)
              \/ Is(v.items[i], "string") /\ containsShellSyntax(v.items[i].text)
    BY <1>1, <1>5, <2>1, ScalarPieces
  <2>3. Is(v.items[i], "string") => v.items[i].text \in Texts(v)
    BY <1>1, <2>1 DEF Texts, Is
  <2> QED BY <2>2, <2>3 DEF FromOutside
<1> QED BY <1>2, <1>4, <1>6 DEF items

\* The same for any argument, as a template shows it.
LEMMA ValuePieces ==
    ASSUME NEW param, NEW v, ValueOK(v), Accepts(param, v), PlainNumbers,
           containsShellSyntax(stringValue(Normal(param, v)))
    PROVE  FromOutside(v)
<1>1. CASE param.type = "array"
  <2> DEFINE items == Normal(param, v).items
             seqs == [i \in DOMAIN items |-> scalarText(items[i])]
  <2>1. stringValue(Normal(param, v)) = FlattenSeq(seqs)
    BY <1>1 DEF stringValue, Normal, Array
  <2>2. /\ \E n \in Nat : DOMAIN items = 1..n
        /\ \A i \in DOMAIN items : \E S : scalarText(items[i]) \in Seq(S)
        /\ \A i \in DOMAIN items : containsShellSyntax(scalarText(items[i])) => FromOutside(v)
    BY <1>1, ItemPieces
  <2> HIDE DEF items
  <2>3. PICK n \in Nat : DOMAIN items = 1..n
    BY <2>2
  <2>4. /\ DOMAIN seqs = 1..n /\ seqs = [i \in DOMAIN seqs |-> seqs[i]]
        /\ \A i \in 1..n : \E S : seqs[i] \in Seq(S)
    BY <2>2, <2>3
  <2>5. \A i \in DOMAIN items : seqs[i] = scalarText(items[i])
    OBVIOUS
  <2> HIDE DEF seqs
  <2>6. \A x \in In(FlattenSeq(seqs)) : \E i \in DOMAIN seqs : x \in In(seqs[i])
    BY <2>4, FlattenIn
  <2>7. PICK x \in In(FlattenSeq(seqs)) : x \in ShellPiece
    BY <2>1 DEF containsShellSyntax, In
  <2>8. PICK i \in DOMAIN seqs : x \in In(seqs[i])
    BY <2>6
  <2>9. containsShellSyntax(seqs[i])
    BY <2>7, <2>8 DEF containsShellSyntax, In
  <2> QED BY <2>2, <2>3, <2>4, <2>5, <2>9
<1>2. CASE param.type # "array"
  <2>1. ScalarAccepts(param, v) /\ Normal(param, v) = ScalarNormal(param, v) /\ ScalarOK(v)
    BY <1>2 DEF Accepts, Normal, ValueOK
  <2>2. stringValue(Normal(param, v)) = scalarText(ScalarNormal(param, v))
    BY <2>1, ScalarPieces DEF stringValue
  <2>3. Is(v, "string") => v.text \in Texts(v)
    BY DEF Texts, Is
  <2> QED BY <2>1, <2>2, <2>3, ScalarPieces DEF FromOutside
<1> QED BY <1>1, <1>2

\* A repeated part has its prefix and the items.
LEMMA RepeatPieces ==
    ASSUME NEW repeat, NEW n \in Nat, NEW items, DOMAIN items = 1..n
    PROVE  \A i \in DOMAIN Repeated(repeat, items) :
              LET s == Repeated(repeat, items)[i] IN
              \/ s = repeat.prefix
              \/ \E j \in DOMAIN items : s = scalarText(items[j])
<1> DEFINE first == IF repeat.prefix # EmptyText THEN <<repeat.prefix>> ELSE <<>>
           seqs == [i \in DOMAIN items |-> first \o <<scalarText(items[i])>>]
<1>1. Repeated(repeat, items) = FlattenSeq(seqs)
  BY DEF Repeated
<1>2. ASSUME NEW i \in 1..n
      PROVE  /\ seqs[i] \in Seq({repeat.prefix, scalarText(items[i])})
  <2> DEFINE Q == {repeat.prefix, scalarText(items[i])}
  <2>1. repeat.prefix \in Q /\ scalarText(items[i]) \in Q
    OBVIOUS
  <2> HIDE DEF Q
  <2>2. first \in Seq(Q) /\ <<scalarText(items[i])>> \in Seq(Q)
    BY <2>1
  <2> HIDE DEF first
  <2>3. seqs[i] \in Seq(Q)
    BY <2>2, ConcatProperties
  <2> QED BY <2>3 DEF Q
<1>3. DOMAIN seqs = 1..n /\ seqs = [i \in DOMAIN seqs |-> seqs[i]]
  OBVIOUS
<1> HIDE DEF seqs
<1>4. \A x \in In(FlattenSeq(seqs)) : \E j \in DOMAIN seqs : x \in In(seqs[j])
  <2>1. \A i \in 1..n : \E S : seqs[i] \in Seq(S)
    BY <1>2
  <2> QED BY <1>3, <2>1, FlattenIn
<1>5. \A i \in 1..n : In(seqs[i]) \subseteq {repeat.prefix, scalarText(items[i])}
  BY <1>2, SeqOfIn
<1>6. ASSUME NEW i \in DOMAIN FlattenSeq(seqs)
      PROVE  \/ FlattenSeq(seqs)[i] = repeat.prefix
             \/ \E j \in DOMAIN items : FlattenSeq(seqs)[i] = scalarText(items[j])
  <2>1. PICK j \in DOMAIN seqs : FlattenSeq(seqs)[i] \in In(seqs[j])
    BY <1>4 DEF In
  <2> QED BY <1>3, <1>5, <2>1
<1> QED BY <1>1, <1>6

\* What the loader has seen of the parts of a template.
LEMMA LoadedParts ==
    ASSUME NEW f \in Files, Loads(f), NEW id \in DOMAIN Registry(f),
           NEW i \in DOMAIN Registry(f)[id].template
    PROVE  LET def == Registry(f)[id]
               part == def.template[i] IN
           /\ ~containsShellSyntax(part.literal)
           /\ part.param # Nil => part.param \in DOMAIN def.params
           /\ part.repeat # Nil => part.repeat.param \in DOMAIN def.params
<1>1. PICK k \in DOMAIN f.commands : Registry(f)[id] = f.commands[k]
  BY RegisteredIs
<1> DEFINE cmd == f.commands[k]
<1>2. CommandErrors(cmd) = {}
  <2>1. CommandErrors(cmd) \subseteq ConfigErrors(f)
    BY DEF ConfigErrors
  <2> QED BY <2>1 DEF Loads
<1>3. PartErrors(cmd.template[i], cmd.params) = {}
  <2> HIDE DEF cmd
  <2>1. PartErrors(cmd.template[i], cmd.params) \subseteq CommandErrors(cmd)
    BY <1>1, Zenon DEF CommandErrors, cmd
  <2> QED BY <1>2, <2>1
<1> QED BY <1>1, <1>3 DEF PartErrors, ErrorIf

\* A part the builder refuses, of a file the loader let pass.
LEMMA PartExplained ==
    ASSUME NEW f \in Files, Loads(f), NEW id \in DOMAIN Registry(f), NEW raw,
           ArgumentsOK(raw), PlainNumbers, Valid(Registry(f)[id], raw),
           NEW i \in DOMAIN Registry(f)[id].template,
           PartFault(Registry(f)[id].template[i], Normalized(Registry(f)[id], raw))
               \notin {"none", "panic"}
    PROVE  ShellFromOutside(Registry(f)[id], raw) \/ PartNeverRendered(Registry(f)[id], raw)
<1> DEFINE def == Registry(f)[id]
           args == Normalized(def, raw)
           part == def.template[i]
<1>1. /\ ~containsShellSyntax(part.literal)
      /\ part.param # Nil => part.param \in DOMAIN def.params
      /\ part.repeat # Nil => part.repeat.param \in DOMAIN def.params
  BY LoadedParts
<1>2. DOMAIN args = Supplied(def, raw) /\ Supplied(def, raw) \subseteq DOMAIN def.params
  BY DEF Normalized, Supplied
<1>3. ASSUME NEW n \in DOMAIN args
      PROVE  LET v == ValueFor(def, raw, n) IN
             /\ ValueOK(v) /\ Accepts(def.params[n], v) /\ args[n] = Normal(def.params[n], v)
             /\ FromOutside(v) => ShellFromOutside(def, raw)
  <2> DEFINE v == ValueFor(def, raw, n)
  <2>1. n \in Supplied(def, raw) /\ n \in DOMAIN def.params
    BY <1>2
  <2>2. Accepts(def.params[n], v) /\ args[n] = Normal(def.params[n], v)
    BY <2>1 DEF Valid, Normalized
  <2>3. ValueOK(v)
    BY <2>1, DefaultOK DEF ArgumentsOK, ValueFor
  <2>4. Texts(v) \subseteq Texts(def.params[n].default)
                           \cup (IF n \in DOMAIN raw THEN Texts(raw[n]) ELSE {})
    BY DEF ValueFor
  <2>5. FromOutside(v) => ShellFromOutside(def, raw)
    <3> HIDE DEF v, def
    <3> QED BY <2>1, <2>4 DEF FromOutside, ShellFromOutside
  <2> QED BY <2>2, <2>3, <2>5
<1> HIDE DEF def, args
<1>4. CASE RenderFault(part, args) # "none"
  <2>1. RenderFault(part, args) \in {"missing", "not_array", "empty"}
    BY <1>4 DEF PartFault, RenderFault, def, args
  <2>2. CASE RenderFault(part, args) = "missing"
    <3>1. Form(part) = "param" /\ part.param \notin DOMAIN args
      BY <2>2 DEF RenderFault
    <3>2. part.param \in DOMAIN def.params
      BY <1>1, <3>1 DEF Form
    <3>3. part.param \notin DOMAIN raw /\ def.params[part.param].default = Nil
      BY <1>2, <3>1, <3>2 DEF Supplied
    <3> QED BY <3>1, <3>2, <3>3 DEF PartNeverRendered, def
  <2>3. CASE RenderFault(part, args) = "not_array"
    <3>1. /\ Form(part) = "repeat" /\ part.repeat.param \in DOMAIN args
          /\ args[part.repeat.param].kind # "array"
      BY <2>3 DEF RenderFault
    <3>2. def.params[part.repeat.param].type # "array"
      BY <1>3, <3>1 DEF Normal, Array
    <3> QED BY <3>1, <3>2 DEF PartNeverRendered, def
  <2>4. CASE RenderFault(part, args) = "empty"
    <3>1. Form(part) = "empty"
      BY <2>4 DEF RenderFault
    <3> QED BY <3>1 DEF PartNeverRendered, def
  <2> QED BY <2>1, <2>2, <2>3, <2>4
<1>5. CASE RenderFault(part, args) = "none"
  <2>1. PICK j \in DOMAIN renderPart(part, args) :
           containsShellSyntax(renderPart(part, args)[j])
    BY <1>5 DEF PartFault, def, args
  <2>2. Form(part) \in {"literal", "param", "flag", "repeat"}
    BY <1>5 DEF RenderFault, Form
  <2>3. CASE Form(part) = "literal"
    <3>1. renderPart(part, args) = <<part.literal>>
      BY <2>3 DEF renderPart
    <3> QED BY <1>1, <2>1, <3>1
  <2>4. CASE Form(part) = "param"
    <3>1. renderPart(part, args) = <<stringValue(args[part.param])>>
      BY <2>4 DEF renderPart
    <3>2. part.param \in DOMAIN args
      BY <1>5, <2>4 DEF RenderFault
    <3>3. containsShellSyntax(stringValue(args[part.param]))
      BY <2>1, <3>1
    <3> QED BY <1>3, <3>2, <3>3, ValuePieces DEF def
  <2>5. CASE Form(part) = "flag"
    <3>1. part.flag # Nil
      BY <2>5 DEF Form
    <3>2. renderPart(part, args) \in {<<part.flag.value>>, <<>>}
      BY <2>5 DEF renderPart
    <3>3. containsShellSyntax(part.flag.value)
      BY <2>1, <3>2
    <3> QED BY <3>1, <3>3 DEF ShellFromOutside, def
  <2>6. CASE Form(part) = "repeat"
    <3> DEFINE n == part.repeat.param
               items == args[n].items
    <3>1. part.repeat # Nil
      BY <2>6 DEF Form
    <3>2. n \in DOMAIN args /\ renderPart(part, args) = Repeated(part.repeat, items)
      <4>1. renderPart(part, args) = IF n \in DOMAIN args
                                      THEN Repeated(part.repeat, items) ELSE <<>>
        BY <2>6 DEF renderPart
      <4> QED BY <2>1, <4>1
    <3>3. args[n].kind = "array"
      BY <1>5, <2>6, <3>2 DEF RenderFault
    <3>4. def.params[n].type = "array"
      <4>1. /\ args[n] = Normal(def.params[n], ValueFor(def, raw, n))
            /\ Accepts(def.params[n], ValueFor(def, raw, n)) /\ ValueOK(ValueFor(def, raw, n))
        BY <1>3, <3>2
      <4>2. CASE def.params[n].type # "array"
        <5>1. args[n] = ScalarNormal(def.params[n], ValueFor(def, raw, n))
          BY <4>1, <4>2 DEF Normal
        <5>2. ScalarAccepts(def.params[n], ValueFor(def, raw, n)) /\ ScalarOK(ValueFor(def, raw, n))
          BY <4>1, <4>2 DEF Accepts, ValueOK
        <5>3. args[n].kind \in {"string", "bool", "int"}
          BY <5>1, <5>2, ScalarPieces
        <5> QED BY <3>3, <5>3
      <4> QED BY <4>2
    <3>5. /\ \E m \in Nat : DOMAIN items = 1..m
          /\ \A k \in DOMAIN items :
                containsShellSyntax(scalarText(items[k])) => ShellFromOutside(def, raw)
      BY <1>3, <3>2, <3>4, ItemPieces
    <3>6. \/ containsShellSyntax(part.repeat.prefix)
          \/ \E k \in DOMAIN items : containsShellSyntax(scalarText(items[k]))
      BY <2>1, <3>2, <3>5, RepeatPieces
    <3> QED BY <3>1, <3>5, <3>6 DEF ShellFromOutside, def
  <2> QED BY <2>2, <2>3, <2>4, <2>5, <2>6
<1> QED BY <1>4, <1>5

\* What the loader let pass is refused by the builder only for what the loader
\* cannot judge (config/doc.go, buildArgvTemplate; argv/doc.go, Build).
THEOREM RefusalsExplained == PlainNumbers => (Spec => []BuildRefusalsExplained)
<1> SUFFICES ASSUME PlainNumbers PROVE Spec => []BuildRefusalsExplained
  OBVIOUS
<1>1. Served => BuildRefusalsExplained
  <2> SUFFICES ASSUME Served PROVE BuildRefusalsExplained
    OBVIOUS
  <2>1. SUFFICES ASSUME server = "serving", toServer # <<>>, NEW t \in Targets(Head(toServer)),
                        Verdict(file, t.id, t.raw) = "build_error"
                 PROVE  \/ ShellFromOutside(Definition(t.id), t.raw)
                        \/ PartNeverRendered(Definition(t.id), t.raw)
    BY DEF BuildRefusalsExplained
  <2> DEFINE def == Registry(file)[t.id]
             args == Normalized(def, t.raw)
             bad == {i \in DOMAIN def.template : PartFault(def.template[i], args) # "none"}
  <2>2. ArgumentsOK(t.raw) /\ file \in Files /\ Loads(file)
    BY <2>1, TargetsOK DEF Served, Loaded, Usable
  <2>3. /\ t.id \in DOMAIN Registry(file) /\ Valid(def, t.raw)
        /\ BuildFault(def, args) \notin {"none", "panic"}
    BY <2>1 DEF Verdict
  <2>4. CASE containsShellSyntax(def.exe)
    BY <2>4 DEF ShellFromOutside, Definition
  <2>5. CASE ~containsShellSyntax(def.exe)
    <3>1. bad # {} /\ BuildFault(def, args) = PartFault(def.template[Min(bad)], args)
      BY <2>3, <2>5 DEF BuildFault
    <3>2. Min(bad) \in bad
      <4>1. \E k \in DOMAIN file.commands : def = file.commands[k]
        BY <2>2, <2>3, RegisteredIs
      <4>2. Len(def.template) \in Nat /\ DOMAIN def.template = 1..Len(def.template)
        BY <2>2, <4>1, FilesAssumption DEF IsList
      <4>3. bad \subseteq 1..Len(def.template)
        BY <4>2
      <4> QED BY <3>1, <4>2, <4>3, MinIn
    <3> QED BY <2>2, <2>3, <3>1, <3>2, PartExplained DEF Definition
  <2> QED BY <2>4, <2>5
<1> QED BY <1>1, ServedInit, ServedStep, PTL DEF Spec

----------------------------------------------------------------------------
(* The path of an artifact *)

LEMMA EnterNoName == \A names : Enter(names, NoName) = names
BY DEF Enter, NoName

LEMMA EnterName ==
    ASSUME NEW S, NEW names, NEW name \in Plain(S)
    PROVE  Enter(names, name) = Append(names, name)
BY DEF Enter, Plain

\* A path of plain names leads to them.
LEMMA WalkOfPath ==
    ASSUME NEW S, NEW names \in Seq(Plain(S)), names # <<>>
    PROVE  Walk(PathText(names)) = names
<1> DEFINE Q == S \cup {NoName}
           path == PathText(names)
           n == Len(names)
           f == [i \in 0..(n + 1) |-> IF i = 0 THEN <<>> ELSE SubSeq(names, 1, i - 1)]
<1>1. Plain(S) \subseteq Q /\ NoName \in Q
  BY PlainNames
<1> HIDE DEF Q
<1>2. names \in Seq(Q)
  BY <1>1, SeqMonotonic
<1>3. /\ path \in Seq(Q) /\ Len(path) = n + 1 /\ n \in Nat \ {0}
      /\ path[1] = NoName /\ \A i \in 1..n : path[i + 1] = names[i]
  BY <1>1, <1>2, PathTextIs
<1>4. \A i \in 1..n : names[i] \in Plain(S)
  BY ElementOfSeq
<1> HIDE DEF path
<1>5. ASSUME NEW i \in 1..(n + 1) PROVE f[i] = Enter(f[i - 1], path[i])
  <2>1. CASE i = 1
    <3>1. f[i] = <<>> /\ f[i - 1] = <<>>
      BY <1>3, <2>1, SubSeqEmpty
    <3>2. path[i] = NoName
      BY <1>3, <2>1
    <3> HIDE DEF f
    <3> QED BY <3>1, <3>2, EnterNoName
  <2>2. CASE i # 1
    <3> DEFINE k == i - 1
    <3>1. k \in 1..n /\ k + 1 = i /\ i - 1 = k
      BY <1>3, <2>2
    <3>2. f[i] = SubSeq(names, 1, k) /\ f[i - 1] = SubSeq(names, 1, k - 1)
      BY <1>3, <3>1
    <3>3. path[i] = names[k] /\ names[k] \in Plain(S)
      BY <1>3, <1>4, <3>1
    <3>4. SubSeq(names, 1, k) = SubSeq(names, 1, k - 1) \o <<names[k]>>
      BY <1>3, <3>1, SubSeqRecursiveSecond
    <3>5. SubSeq(names, 1, k - 1) \in Seq(Plain(S))
      <4>1. \A j \in 1..(k - 1) : names[j] \in Plain(S)
        BY <1>3, <1>4, <3>1
      <4>2. 1 \in Int /\ k - 1 \in Int
        BY <3>1
      <4> HIDE DEF k
      <4> QED BY <4>1, <4>2, SubSeqProperties
    <3> HIDE DEF k, f
    <3>6. SubSeq(names, 1, k) = Append(SubSeq(names, 1, k - 1), names[k])
      BY <3>3, <3>4, <3>5, AppendIsConcat
    <3> QED BY <3>2, <3>3, <3>6, EnterName
  <2> QED BY <2>1, <2>2
<1>6. Walk(path) = f[Len(path)]
  <2>1. f[0] = <<>>
    BY <1>3
  <2> HIDE DEF f
  <2> QED BY <1>3, <1>5, <2>1, WalkIs
<1>7. f[n + 1] = names
  BY <1>3, SubSeqFull
<1> QED BY <1>3, <1>6, <1>7 DEF path

\* One name more is one step more.
LEMMA WalkAppend ==
    ASSUME NEW S, NEW text \in Seq(S), NEW name \in S
    PROVE  Walk(Append(text, name)) = Enter(Walk(text), name)
<1> DEFINE longer == Append(text, name)
           n == Len(text)
<1>1. /\ longer \in Seq(S) /\ Len(longer) = n + 1 /\ n \in Nat
      /\ longer[n + 1] = name /\ \A i \in 1..n : longer[i] = text[i]
  BY AppendProperties
<1> HIDE DEF longer
<1>2. PICK at \in [0..Len(longer) -> Seq(Plain(S))] :
         /\ at[0] = <<>> /\ \A i \in 1..Len(longer) : at[i] = Enter(at[i - 1], longer[i])
         /\ Walk(longer) = at[Len(longer)]
  BY <1>1, WalkSteps
<1>3. \A i \in 1..n : at[i] = Enter(at[i - 1], text[i])
  BY <1>1, <1>2
<1>4. Walk(text) = at[n]
  BY <1>2, <1>3, WalkIs
<1>5. at[n + 1] = Enter(at[n + 1 - 1], longer[n + 1])
  BY <1>1, <1>2
<1> QED BY <1>1, <1>2, <1>4, <1>5 DEF longer

\* An artifact lies where the committed ones lie, and its path says so.
LEMMA ArtifactPlace ==
    ASSUME NEW f \in Files
    PROVE  LET place == Walk(CommittedDirectory(f))
               names == Append(place, ArtifactName)
               path == ArtifactPath(f, ArtifactName) IN
           \E S : /\ place \in Seq(Plain(S)) /\ ArtifactName \in Plain(S)
                  /\ path = PathText(names) /\ Clean(path) = names
                  /\ path # EmptyText /\ path \in Seq(S)
<1> DEFINE S == STRING \cup {"committed", ArtifactName, NoName}
           D == CommittedDirectory(f)
           place == Walk(D)
           names == Append(place, ArtifactName)
           path == ArtifactPath(f, ArtifactName)
<1>1. STRING \subseteq S /\ "committed" \in S /\ ArtifactName \in S /\ NoName \in S
  OBVIOUS
<1>2. ArtifactName \in Plain(S)
  BY <1>1, ArtifactAssumption, Zenon DEF Plain
<1> HIDE DEF S
<1>3. D \in Seq(S)
  <2>1. f.store.root \in Seq(S)
    BY <1>1, FilesAssumption, SeqMonotonic
  <2> QED BY <1>1, <2>1 DEF CommittedDirectory
<1>4. place \in Seq(Plain(S))
  BY <1>3, WalkNames
<1>5. Walk(Append(D, ArtifactName)) = names
  <2>1. Walk(Append(D, ArtifactName)) = Enter(place, ArtifactName)
    BY <1>1, <1>3, WalkAppend
  <2> QED BY <1>2, <2>1, EnterName
<1>6. path = PathText(names)
  BY <1>5 DEF ArtifactPath
<1>7. names \in Seq(Plain(S)) /\ names # <<>>
  BY <1>2, <1>4, AppendProperties
<1> HIDE DEF names, D, place
<1>8. names \in Seq(S)
  BY <1>7, PlainNames, SeqMonotonic
<1>9. path \in Seq(S) /\ Len(path) = Len(names) + 1 /\ Len(names) \in Nat \ {0} /\ Absolute(path)
  BY <1>1, <1>6, <1>7, <1>8, PathTextIs
<1>10. Clean(path) = names
  BY <1>6, <1>7, <1>9, WalkOfPath DEF Clean
<1>11. path # EmptyText
  <2>1. EmptyText = <<NoName>>
    BY Zenon DEF EmptyText, NoName
  <2>2. Len(<<NoName>>) = 1
    OBVIOUS
  <2> QED BY <1>9, <2>1, <2>2
<1> QED BY <1>2, <1>4, <1>6, <1>9, <1>10, <1>11 DEF names, place, D

\* What is below a prefix is strictly below.
LEMMA PrefixBelow ==
    ASSUME NEW S, NEW root \in Seq(S), root # <<>>, NEW place \in Seq(S), NEW name \in S,
           IsPrefix(root, place)
    PROVE  Below(Append(place, name), root)
<1> DEFINE names == Append(place, name)
<1>1. /\ names \in Seq(S) /\ Len(names) = Len(place) + 1
      /\ \A i \in 1..Len(place) : names[i] = place[i]
  BY AppendProperties
<1>2. Len(root) \in Nat /\ Len(place) \in Nat /\ Len(root) <= Len(place)
  BY DEF IsPrefix
<1>3. SubSeq(root, 1, Len(root)) = SubSeq(place, 1, Len(root))
  BY DEF IsPrefix
<1> HIDE DEF names
<1>4. SubSeq(place, 1, Len(root)) = SubSeq(names, 1, Len(root))
  <2> DEFINE m == Len(root)
  <2>1. \A i \in 1..m : place[i] \in S /\ names[i] \in S /\ names[i] = place[i]
    BY <1>1, <1>2, ElementOfSeq
  <2>2. /\ SubSeq(place, 1, m) \in Seq(S) /\ SubSeq(names, 1, m) \in Seq(S)
        /\ Len(SubSeq(place, 1, m)) = m /\ Len(SubSeq(names, 1, m)) = m
        /\ \A i \in 1..m : SubSeq(place, 1, m)[i] = place[i] /\ SubSeq(names, 1, m)[i] = names[i]
    BY <1>2, <2>1, SubSeqProperties
  <2> QED BY <2>1, <2>2, SeqEqual
<1>5. IsPrefix(root, names)
  BY <1>1, <1>2, <1>3, <1>4 DEF IsPrefix
<1>6. root # names
  BY <1>1, <1>2
<1> QED BY <1>5, <1>6 DEF Below, IsStrictPrefix, names

LEMMA ArtifactAccepted ==
    ASSUME NEW f \in Files, NEW param, param.type = "path",
           \E root \in param.roots :
               Clean(root) # <<>> /\ IsPrefix(Clean(root), Walk(CommittedDirectory(f))),
           \A root \in param.roots : \E S : root \in Seq(S)
    PROVE  LET path == ArtifactPath(f, ArtifactName) IN
           /\ Accepts(param, Str(path)) /\ Normal(param, Str(path)) = Str(path)
           /\ stringValue(Str(path)) = path
<1> DEFINE path == ArtifactPath(f, ArtifactName)
           place == Walk(CommittedDirectory(f))
           names == Append(place, ArtifactName)
<1>1. PICK S : /\ place \in Seq(Plain(S)) /\ ArtifactName \in Plain(S)
               /\ path = PathText(names) /\ Clean(path) = names
               /\ path # EmptyText /\ path \in Seq(S)
  BY ArtifactPlace
<1>2. PICK root \in param.roots : Clean(root) # <<>> /\ IsPrefix(Clean(root), place)
  OBVIOUS
<1>3. Below(names, Clean(root))
  <2>1. PICK Q : root \in Seq(Q)
    OBVIOUS
  <2> DEFINE R == S \cup Q \cup STRING
  <2>2. /\ root \in Seq(R) /\ Cwd \in Seq(R) /\ Plain(S) \subseteq R /\ Plain(R) \subseteq R
    <3>1. Q \subseteq R /\ STRING \subseteq R /\ S \subseteq R
      OBVIOUS
    <3> HIDE DEF R
    <3> QED BY <2>1, <3>1, SeqMonotonic, ValidationAssumption, PlainNames
  <2> HIDE DEF R
  <2>3. Clean(root) \in Seq(R)
    BY <2>2, CleanNames, SeqMonotonic
  <2>4. place \in Seq(R) /\ ArtifactName \in R
    BY <1>1, <2>2, SeqMonotonic
  <2> HIDE DEF place
  <2> QED BY <1>2, <2>3, <2>4, PrefixBelow
<1> HIDE DEF path, names
<1>4. PathAllowed(path, param.roots)
  BY <1>1, <1>2, <1>3 DEF PathAllowed
<1>5. Is(Str(path), "string") /\ Str(path).text = path
  BY ArtifactAssumption DEF Is, Str, path
<1>6. Accepts(param, Str(path))
  BY <1>4, <1>5 DEF Accepts, ScalarAccepts
<1>7. Normal(param, Str(path)) = Str(path)
  BY <1>1, <1>5 DEF Normal, ScalarNormal, normalizePath
<1>8. stringValue(Str(path)) = path
  BY DEF stringValue, scalarText, Str
<1> QED BY <1>6, <1>7, <1>8 DEF path

\* A profile that was loaded has its command.
LEMMA LoadedProfile ==
    ASSUME NEW f \in Files, Loads(f), f.store.enabled, NEW i \in DOMAIN f.profiles
    PROVE  LET id == f.profiles[i].command IN
           /\ id \in DOMAIN Registry(f)
           /\ "artifact_path" \in DOMAIN Registry(f)[id].params
           /\ Registry(f)[id].params["artifact_path"].type = "path"
<1> DEFINE profile == f.profiles[i]
           id == profile.command
<1>1. ArtifactErrors(f) = {}
  <2>1. ArtifactErrors(f) \subseteq ConfigErrors(f)
    BY DEF ConfigErrors
  <2> QED BY <2>1 DEF Loads
<1>2. ProfileErrors(f, profile) = {}
  <2> HIDE DEF profile
  <2>1. ProfileErrors(f, profile) \subseteq ArtifactErrors(f)
    BY Zenon DEF ArtifactErrors, profile
  <2> QED BY <1>1, <2>1
<1>3. DeployErrors(f, profile) = {}
  <2> HIDE DEF profile
  <2>1. DeployErrors(f, profile) \subseteq ProfileErrors(f, profile)
    BY Zenon DEF ProfileErrors
  <2> QED BY <1>2, <2>1
<1> DEFINE params == CommandNamed(f, id).params
<1>4. /\ CommandsNamed(f, id) # {}
      /\ IF "artifact_path" \notin DOMAIN params
         THEN {"config.artifact_path_required"} = {}
         ELSE ErrorIf(params["artifact_path"].type # "path", "config.artifact_path_type") = {}
  BY <1>3, Zenon DEF DeployErrors
<1>5. "artifact_path" \in DOMAIN params /\ params["artifact_path"].type = "path"
  <2> HIDE DEF params
  <2> QED BY <1>4 DEF ErrorIf
<1>6. id \in DOMAIN Registry(f) /\ Registry(f)[id] = CommandNamed(f, id)
  BY <1>4 DEF Registry, CommandsNamed
<1> QED BY <1>5, <1>6

\* A command that lacks nothing but the artifact gets it.
LEMMA ArtifactDeploys ==
    ASSUME NEW f \in Files, Loads(f), NEW id \in DOMAIN Registry(f), PlainNumbers,
           "artifact_path" \in DOMAIN Registry(f)[id].params,
           Accepts(Registry(f)[id].params["artifact_path"], Str(ArtifactPath(f, ArtifactName))),
           Normal(Registry(f)[id].params["artifact_path"], Str(ArtifactPath(f, ArtifactName)))
               = Str(ArtifactPath(f, ArtifactName)),
           stringValue(Str(ArtifactPath(f, ArtifactName))) = ArtifactPath(f, ArtifactName),
           TakesArtifactAlone(Registry(f)[id]), ~ComparesLists(Registry(f)[id]),
           ~containsShellSyntax(ArtifactPath(f, ArtifactName))
    PROVE  LET def  == Registry(f)[id]
               path == ArtifactPath(f, ArtifactName)
               raw  == DeployArguments(f, ArtifactName) IN
           /\ Verdict(f, id, raw) = "ready"
           /\ \A i \in DOMAIN def.template :
                 Form(def.template[i]) = "param" /\ def.template[i].param = "artifact_path"
                 => Contains(Job(f, id, raw).argv, path)
<1> DEFINE def  == Registry(f)[id]
           path == ArtifactPath(f, ArtifactName)
           raw  == DeployArguments(f, ArtifactName)
           args == Normalized(def, raw)
<1>1. DOMAIN raw = {"artifact_path"} /\ raw["artifact_path"] = Str(path)
  BY DEF DeployArguments
<1>2. ASSUME NEW n \in Supplied(def, raw)
      PROVE  /\ n \in DOMAIN def.params /\ ValueOK(ValueFor(def, raw, n))
             /\ Accepts(def.params[n], ValueFor(def, raw, n))
             /\ n = "artifact_path" => ValueFor(def, raw, n) = Str(path)
             /\ n # "artifact_path" => ValueFor(def, raw, n) = def.params[n].default
  <2>1. n \in DOMAIN def.params
    BY DEF Supplied
  <2>2. ValueOK(ValueFor(def, raw, n))
    BY <2>1, DefaultOK, DeployArgumentsOK DEF ArgumentsOK, ValueFor
  <2> HIDE DEF def, path, raw
  <2>3. /\ n = "artifact_path" => ValueFor(def, raw, n) = Str(path)
        /\ n # "artifact_path" => ValueFor(def, raw, n) = def.params[n].default
    BY <1>1 DEF ValueFor
  <2>4. CASE n = "artifact_path"
    BY <2>1, <2>2, <2>3, <2>4 DEF def, path
  <2>5. CASE n # "artifact_path"
    <3>1. def.params[n].default # Nil
      BY <1>1, <2>5 DEF Supplied
    <3>2. Accepts(def.params[n], def.params[n].default)
      BY <2>1, <2>5, <3>1 DEF TakesArtifactAlone, def
    <3> QED BY <2>1, <2>2, <2>3, <2>5, <3>2
  <2> QED BY <2>4, <2>5
<1>3. Valid(def, raw)
  <2>1. DOMAIN raw \subseteq DOMAIN def.params
    BY <1>1
  <2>2. \A n \in Missing(def, raw) : ~def.params[n].required
    BY <1>1 DEF Missing, TakesArtifactAlone
  <2> HIDE DEF def, raw
  <2> QED BY <1>2, <2>1, <2>2 DEF Valid
<1>4. DOMAIN args = Supplied(def, raw) /\ "artifact_path" \in DOMAIN args
  BY <1>1 DEF Normalized, Supplied
<1>5. args["artifact_path"] = Str(path)
  <2>1. args["artifact_path"] = Normal(def.params["artifact_path"], Str(path))
    BY <1>1, <1>4 DEF Normalized, ValueFor
  <2> QED BY <2>1
<1>6. ASSUME NEW n \in DOMAIN args, n # "artifact_path"
      PROVE  ~containsShellSyntax(stringValue(args[n]))
  <2> DEFINE v == def.params[n].default
  <2>1. n \in DOMAIN def.params /\ ValueOK(v) /\ Accepts(def.params[n], v)
    BY <1>2, <1>4, <1>6
  <2>2. args[n] = Normal(def.params[n], v)
    BY <1>2, <1>4, <1>6 DEF Normalized
  <2>3. ~FromOutside(v)
    <3>1. ~ShellFromOutside(def, <<>>)
      BY DEF TakesArtifactAlone
    <3> HIDE DEF def
    <3> QED BY <2>1, <3>1 DEF ShellFromOutside, FromOutside
  <2> QED BY <2>1, <2>2, <2>3, ValuePieces
<1> HIDE DEF args, raw
<1>7. ASSUME NEW i \in DOMAIN def.template
      PROVE  LET part == def.template[i] IN
             /\ PartFault(part, args) = "none"
             /\ \E S : renderPart(part, args) \in Seq(S)
             /\ Form(part) = "param" /\ part.param = "artifact_path" =>
                   renderPart(part, args) = <<path>>
  <2> DEFINE part == def.template[i]
  <2>1. \/ Form(part) = "literal"
        \/ Form(part) = "flag"
        \/ /\ Form(part) = "param"
           /\ part.param = "artifact_path" \/ def.params[part.param].default # Nil
    BY DEF TakesArtifactAlone
  <2>2. ~ShellFromOutside(def, <<>>)
    BY DEF TakesArtifactAlone
  <2>3. /\ ~containsShellSyntax(part.literal)
        /\ part.param # Nil => part.param \in DOMAIN def.params
    BY LoadedParts
  <2>4. part.flag # Nil => ~Is(part.flag.equals, "array")
    BY DEF ComparesLists
  <2> HIDE DEF def, path
  <2>5. CASE Form(part) = "literal"
    <3>1. RenderFault(part, args) = "none" /\ renderPart(part, args) = <<part.literal>>
      BY <2>5 DEF RenderFault, renderPart
    <3>2. <<part.literal>> \in Seq({part.literal})
      OBVIOUS
    <3>3. ~\E j \in DOMAIN renderPart(part, args) : containsShellSyntax(renderPart(part, args)[j])
      BY <2>3, <3>1
    <3>4. PartFault(part, args) = "none"
      BY <3>1, <3>3 DEF PartFault
    <3>5. \E S : renderPart(part, args) \in Seq(S)
      BY <3>1, <3>2
    <3> QED BY <2>5, <3>4, <3>5
  <2>6. CASE Form(part) = "flag"
    <3>1. part.flag # Nil
      BY <2>6 DEF Form
    <3>2. RenderFault(part, args) = "none"
      BY <2>4, <2>6, <3>1 DEF RenderFault, Uncomparable
    <3>3. renderPart(part, args) \in {<<part.flag.value>>, <<>>}
      BY <2>6 DEF renderPart
    <3>4. ~containsShellSyntax(part.flag.value)
      BY <2>2, <3>1 DEF ShellFromOutside
    <3>5. <<part.flag.value>> \in Seq({part.flag.value}) /\ <<>> \in Seq({part.flag.value})
      OBVIOUS
    <3>6. ~\E j \in DOMAIN renderPart(part, args) : containsShellSyntax(renderPart(part, args)[j])
      BY <3>3, <3>4
    <3>7. PartFault(part, args) = "none"
      BY <3>2, <3>6 DEF PartFault
    <3>8. \E S : renderPart(part, args) \in Seq(S)
      BY <3>3, <3>5
    <3> QED BY <2>6, <3>7, <3>8
  <2>7. CASE Form(part) = "param"
    <3>1. part.param \in DOMAIN args
      <4>1. part.param \in DOMAIN def.params
        BY <2>3, <2>7 DEF Form
      <4> QED BY <1>4, <2>1, <2>7, <4>1 DEF Supplied
    <3>2. RenderFault(part, args) = "none"
      BY <2>7, <3>1 DEF RenderFault
    <3>3. renderPart(part, args) = <<stringValue(args[part.param])>>
      BY <2>7 DEF renderPart
    <3>4. part.param = "artifact_path" => stringValue(args[part.param]) = path
      BY <1>5 DEF path
    <3>5. ~containsShellSyntax(stringValue(args[part.param]))
      BY <1>6, <3>1, <3>4 DEF path
    <3> DEFINE w == stringValue(args[part.param])
    <3>6. <<w>> \in Seq({w})
      OBVIOUS
    <3> HIDE DEF w
    <3>7. renderPart(part, args) = <<w>> /\ ~containsShellSyntax(w)
      BY <3>3, <3>5 DEF w
    <3>8. PartFault(part, args) = "none"
      BY <3>2, <3>7 DEF PartFault
    <3> QED BY <3>4, <3>6, <3>7, <3>8 DEF w
  <2> QED BY <2>1, <2>5, <2>6, <2>7
<1>8. Verdict(f, id, raw) = "ready"
  <2>1. BuildFault(def, args) = "none"
    <3>1. ~containsShellSyntax(def.exe)
      BY DEF TakesArtifactAlone, ShellFromOutside
    <3> HIDE DEF def
    <3> QED BY <1>7, <3>1 DEF BuildFault
  <2> HIDE DEF def
  <2>2. id \in DOMAIN Registry(f)
    OBVIOUS
  <2> QED BY <1>3, <2>1, <2>2 DEF Verdict, def, args
<1>9. ASSUME NEW i \in DOMAIN def.template,
             Form(def.template[i]) = "param", def.template[i].param = "artifact_path"
      PROVE  Contains(Job(f, id, raw).argv, path)
  <2> DEFINE seqs == [j \in DOMAIN def.template |-> renderPart(def.template[j], args)]
             n == Len(def.template)
  <2>1. Job(f, id, raw).argv = FlattenSeq(seqs)
    BY DEF Job, Argv, args
  <2>2. n \in Nat /\ DOMAIN def.template = 1..n
    <3>1. \E k \in DOMAIN f.commands : def = f.commands[k]
      BY RegisteredIs
    <3> HIDE DEF def
    <3> QED BY <3>1, FilesAssumption DEF IsList
  <2>3. path \in In(seqs[i])
    <3>1. seqs[i] = <<path>>
      BY <1>7, <1>9
    <3> HIDE DEF seqs, path
    <3> QED BY <3>1 DEF In
  <2> HIDE DEF def, n, path
  <2>4. /\ DOMAIN seqs = 1..n /\ seqs = [j \in DOMAIN seqs |-> seqs[j]] /\ i \in 1..n
        /\ \A j \in 1..n : \E S : seqs[j] \in Seq(S)
    BY <1>7, <2>2
  <2> HIDE DEF seqs
  <2> QED BY <2>1, <2>2, <2>3, <2>4, FlattenHas
<1> QED BY <1>8, <1>9 DEF raw

\* A deploy hands its artifact to the command (artifact/doc.go, deploy), and
\* the command gets its path (config/doc.go, validateArtifactConfig).
THEOREM DeploysGetThrough == PlainNumbers => (Spec => []ProfileDeploys)
<1> SUFFICES ASSUME PlainNumbers PROVE Spec => []ProfileDeploys
  OBVIOUS
<1>1. Served => ProfileDeploys
  <2> SUFFICES ASSUME Served PROVE ProfileDeploys
    OBVIOUS
  <2>1. SUFFICES ASSUME server = "serving", toServer # <<>>,
                        Route(file, Head(toServer).name) = "artifact",
                        NEW t \in Targets(Head(toServer)),
                        CoversStore(Definition(t.id).params["artifact_path"]),
                        TakesArtifactAlone(Definition(t.id)), ~ComparesLists(Definition(t.id)),
                        ~containsShellSyntax(ArtifactPath(file, ArtifactName))
                 PROVE  /\ Verdict(file, t.id, t.raw) = "ready"
                        /\ \A i \in DOMAIN Definition(t.id).template :
                              /\ Form(Definition(t.id).template[i]) = "param"
                              /\ Definition(t.id).template[i].param = "artifact_path"
                              => Contains(Job(file, t.id, t.raw).argv, ArtifactPath(file, ArtifactName))
    BY DEF ProfileDeploys
  <2>2. file \in Files /\ Loads(file) /\ file.store.enabled
    BY <2>1 DEF Served, Loaded, Usable, Route
  <2>3. PICK i \in DOMAIN file.profiles :
           t.id = file.profiles[i].command /\ t.raw = DeployArguments(file, ArtifactName)
    <3> DEFINE line == Head(toServer)
    <3>1. t \in {[id |-> file.profiles[i].command, raw |-> DeployArguments(file, ArtifactName)]
                   : i \in ProfilesNamed(line.args)}
      BY <2>1, Zenon DEF Targets
    <3>2. PICK i \in ProfilesNamed(line.args) :
             t = [id |-> file.profiles[i].command, raw |-> DeployArguments(file, ArtifactName)]
      BY <3>1
    <3>3. i \in DOMAIN file.profiles
      BY DEF ProfilesNamed
    <3> QED BY <3>2, <3>3
  <2> DEFINE def == Registry(file)[t.id]
             param == def.params["artifact_path"]
  <2>4. t.id \in DOMAIN Registry(file) /\ "artifact_path" \in DOMAIN def.params /\ param.type = "path"
    BY <2>2, <2>3, LoadedProfile
  <2>5. \A root \in param.roots : \E S : root \in Seq(S)
    <3>1. PICK k \in DOMAIN file.commands : def = file.commands[k]
      BY <2>2, <2>4, RegisteredIs
    <3> HIDE DEF def
    <3> QED BY <2>2, <2>4, <3>1, FilesAssumption
  <2>6. \E root \in param.roots :
           Clean(root) # <<>> /\ IsPrefix(Clean(root), Walk(CommittedDirectory(file)))
    BY <2>1 DEF CoversStore, Definition
  <2> DEFINE path == ArtifactPath(file, ArtifactName)
  <2>7. /\ Accepts(param, Str(path)) /\ Normal(param, Str(path)) = Str(path)
        /\ stringValue(Str(path)) = path
    BY <2>2, <2>4, <2>5, <2>6, ArtifactAccepted
  <2> QED BY <2>1, <2>2, <2>3, <2>4, <2>7, ArtifactDeploys DEF Definition
<1> QED BY <1>1, ServedInit, ServedStep, PTL DEF Spec
=============================================================================
