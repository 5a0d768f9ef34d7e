------------------------- MODULE DeployClientProofs -------------------------
(***************************************************************************)
(* The deploy program over the store: what each client asks for is what    *)
(* the store's invariants are proved for, and what it deploys is its own   *)
(* file, for every number of connections and every size of the file.       *)
(***************************************************************************)
EXTENDS DeployClient, ArtifactStoreProofs

----------------------------------------------------------------------------
(* The inductive invariant: each connection for itself *)

Run ==
    [profile : Profile, name : [base : Base, ext : LocalExt \cup {"tar.gz"}],
     size : Nat, sha : {Digest(f) : f \in LocalFile}, file : LocalFile,
     upload : UploadId \cup {Absent}, sent : Nat, id : ArtifactId \cup {Absent}]

ClientTypes ==
    /\ step \in [Server -> ClientStep]
    /\ run \in [Server -> Run \cup {Absent}]

\* How far a run is.
RunAt(s) ==
    step[s] # "off" =>
        /\ run[s] \in Run
        /\ run[s].sent =< Len(run[s].file)
        /\ step[s] = "chunked" => run[s].sent < Len(run[s].file)
        /\ step[s] \in {"upload", "chunked", "committing", "abort", "aborting"}
              => run[s].upload \in UploadId

\* An answer names an upload or an artifact.
ReplyAt(s) ==
    /\ reply[s].kind = "opened" => reply[s].id \in UploadId
    /\ reply[s].kind \in {"committed", "already"} => reply[s].id \in ArtifactId

\* The server accepted what the run asks for.
Opened(s) == BeginAllowed(run[s].profile, run[s].name, run[s].size, run[s].sha)
OfRun(s, x) ==
    /\ Opened(s)
    /\ x.profile = run[s].profile /\ x.name = run[s].name /\ x.sha = run[s].sha

\* A connection works on the artifact of its run only.
OwnAt(s) ==
    /\ step[s] = "off" => pc[s] = "idle" /\ reply[s] = NoReply
    /\ up[s] # Absent => step[s] # "off" /\ OfRun(s, up[s].session)
    /\ reply[s].kind \in {"committed", "already"} =>
          Opened(s) /\ reply[s].id = ArtifactIdOf(run[s].name, run[s].sha)
    /\ step[s] \in {"deploy", "deploying"} =>
          Opened(s) /\ run[s].id = ArtifactIdOf(run[s].name, run[s].sha)
    /\ pc[s] \in {"stat", "exec"} => dep[s].id = run[s].id /\ dep[s].profile = run[s].profile

\* It has one session at most, and knows of it unless it is lost.
SessionAt(s) ==
    \A u \in UploadId :
        HasSession(s, u) =>
            /\ OfRun(s, sessions[s][u])
            /\ step[s] \in {"begun", "upload", "chunked", "committing", "abort", "lost"}
            /\ step[s] # "lost" => pc[s] = "idle"
            /\ step[s] = "begun" => reply[s] = [kind |-> "opened", id |-> u]
            /\ step[s] \in {"upload", "chunked", "committing", "abort"} => u = run[s].upload
            /\ step[s] = "committing" => reply[s].kind = "rejected"

ClientAt(s) == RunAt(s) /\ ReplyAt(s) /\ OwnAt(s) /\ SessionAt(s)

CInv == IInv /\ ClientTypes /\ \A s \in Server : ClientAt(s)

\* A step of one connection: of its client, of its process or of both.
Act(s) ==
    \/ Start(s) \/ Progress(s) \/ Unreadable(s)
    \/ Lose(s) \/ Crash(s) \/ Disconnect(s)

----------------------------------------------------------------------------
(* Runs *)

\* An update of a run changes its one field.
LEMMA RunUpdates ==
    ASSUME NEW r \in Run
    PROVE  /\ \A u \in UploadId :
                 /\ [r EXCEPT !.upload = u] \in Run
                 /\ [r EXCEPT !.upload = u].upload = u
                 /\ [r EXCEPT !.upload = u].profile = r.profile
                 /\ [r EXCEPT !.upload = u].name = r.name
                 /\ [r EXCEPT !.upload = u].size = r.size
                 /\ [r EXCEPT !.upload = u].sha = r.sha
                 /\ [r EXCEPT !.upload = u].file = r.file
                 /\ [r EXCEPT !.upload = u].sent = r.sent
                 /\ [r EXCEPT !.upload = u].id = r.id
           /\ \A n \in Nat :
                 /\ [r EXCEPT !.sent = n] \in Run
                 /\ [r EXCEPT !.sent = n].sent = n
                 /\ [r EXCEPT !.sent = n].profile = r.profile
                 /\ [r EXCEPT !.sent = n].name = r.name
                 /\ [r EXCEPT !.sent = n].size = r.size
                 /\ [r EXCEPT !.sent = n].sha = r.sha
                 /\ [r EXCEPT !.sent = n].file = r.file
                 /\ [r EXCEPT !.sent = n].upload = r.upload
                 /\ [r EXCEPT !.sent = n].id = r.id
           /\ \A a \in ArtifactId :
                 /\ [r EXCEPT !.id = a] \in Run
                 /\ [r EXCEPT !.id = a].id = a
                 /\ [r EXCEPT !.id = a].profile = r.profile
                 /\ [r EXCEPT !.id = a].name = r.name
                 /\ [r EXCEPT !.id = a].size = r.size
                 /\ [r EXCEPT !.id = a].sha = r.sha
                 /\ [r EXCEPT !.id = a].file = r.file
                 /\ [r EXCEPT !.id = a].upload = r.upload
                 /\ [r EXCEPT !.id = a].sent = r.sent
BY DEF Run

\* The next chunk is a part of the file that has not been sent.
LEMMA ChunkOfFile ==
    ASSUME NEW r \in Run, r.sent < Len(r.file)
    PROVE  /\ NextChunk(r) \in Content
           /\ Len(NextChunk(r)) \in Nat
           /\ r.sent + Len(NextChunk(r)) \in Nat
           /\ r.sent + Len(NextChunk(r)) =< Len(r.file)
<1> DEFINE end == r.sent + MaxChunk
           last == IF end < Len(r.file) THEN end ELSE Len(r.file)
<1>1. r.file \in Seq(Byte) /\ r.sent \in Nat /\ MaxChunk \in Nat /\ Len(r.file) \in Nat
  BY ClientAssumption, BoundAssumption DEF Run, Content
<1>2. last \in r.sent .. Len(r.file)
  BY <1>1
<1>3. NextChunk(r) = SubSeq(r.file, r.sent + 1, last)
  BY DEF NextChunk
<1> HIDE DEF end, last
<1>4. /\ SubSeq(r.file, r.sent + 1, last) \in Seq(Byte)
      /\ Len(SubSeq(r.file, r.sent + 1, last)) =
            IF r.sent + 1 =< last THEN last - (r.sent + 1) + 1 ELSE 0
  BY <1>1, <1>2, SubSeqProperties
<1> QED BY <1>1, <1>2, <1>3, <1>4 DEF Content

----------------------------------------------------------------------------
(* Steps of the store *)

\* A handler of the process starts or goes on.
Serve(s) ==
    \/ AnyBegin(s) \/ AnyChunk(s) \/ Commit(s) \/ Abort(s) \/ Deploy(s)
    \/ Continue(s)

\* What a client does to the store is a step of its process or none.
LEMMA ActServes ==
    ASSUME CInv, NEW s \in Server, Act(s)
    PROVE  Serve(s) \/ Crash(s) \/ Disconnect(s) \/ UNCHANGED vars
<1> USE DEF Serve
<1>1. step[s] # "off" => run[s] \in Run
  BY DEF CInv, ClientAt, RunAt
<1>2. CASE SendBegin(s)
  <2>1. CASE BeginRefuse(s, run[s].profile, run[s].name, run[s].size, run[s].sha)
    BY <2>1 DEF BeginRefuse, Refused, AnyBegin
  <2>2. ASSUME NEW u \in UploadId,
               BeginAccept(s, run[s].profile, run[s].name, run[s].size, run[s].sha, u)
        PROVE  AnyBegin(s)
    <3>1. /\ run[s].profile \in Profile /\ run[s].name \in Name
          /\ run[s].size \in Int /\ run[s].sha \in Sha
      BY <1>1, <1>2, <2>2, NameAssumption
         DEF SendBegin, BeginAccept, BeginAllowed, Run
    <3> QED BY <2>2, <3>1 DEF AnyBegin
  <2> QED BY <1>2, <2>1, <2>2 DEF SendBegin
<1>3. CASE SendChunk(s)
  <2>1. run[s] \in Run /\ run[s].sent < Len(run[s].file) /\ run[s].upload \in UploadId
    BY <1>3 DEF SendChunk, CInv, ClientAt, RunAt
  <2>2. run[s].sent \in Nat /\ NextChunk(run[s]) \in Content
    BY <2>1, ChunkOfFile DEF Run
  <2> QED BY <1>3, <2>1, <2>2 DEF SendChunk, AnyChunk, ChunkRefuse, Refused
<1>4. CASE SendCommit(s)
  <2>1. run[s].upload \in UploadId
    BY <1>4 DEF SendCommit, CInv, ClientAt, RunAt
  <2> QED BY <1>4, <2>1 DEF SendCommit, Commit
<1>5. CASE SendDeploy(s)
  <2>1. run[s] \in Run /\ run[s].id = ArtifactIdOf(run[s].name, run[s].sha) /\ Opened(s)
    BY <1>5 DEF SendDeploy, CInv, ClientAt, RunAt, OwnAt
  <2>2. run[s].id \in ArtifactId /\ run[s].profile \in Profile
    BY <2>1, NameAssumption
       DEF Run, ArtifactIdOf, ArtifactId, Opened, BeginAllowed, Name
  <2> QED BY <1>5, <2>2 DEF SendDeploy, Deploy
<1>6. CASE SendAbort(s)
  <2>1. run[s].upload \in UploadId
    BY <1>6 DEF SendAbort, CInv, ClientAt, RunAt
  <2> QED BY <1>6, <2>1 DEF SendAbort, Abort
<1>7. CASE Receive(s)
  BY <1>7 DEF Receive, GotUpload, GotChunk, GotCommit, GotDeployed, GotError, Answer
<1>8. CASE ServerStep(s)
  BY <1>8 DEF ServerStep
<1>9. CASE Start(s) \/ Unreadable(s) \/ Lose(s)
  BY <1>9 DEF Start, Unreadable, Lose
<1> QED
  BY <1>2, <1>3, <1>4, <1>5, <1>6, <1>7, <1>8, <1>9 DEF Act, Progress, Request

LEMMA ActIsStoreStep ==
    ASSUME CInv, NEW s \in Server, Act(s)
    PROVE  StoreStep(s) \/ UNCHANGED vars
BY ActServes DEF Serve, StoreStep, Crash, Disconnect

LEMMA ClientIsStoreNext == CInv /\ [ClientNext]_cvars => [StoreNext]_vars
BY ActIsStoreStep DEF ClientNext, Act, StoreNext, cvars

\* A process changes nothing of another one but files.
LEMMA OthersUntouched ==
    ASSUME TypeOK, NEW s \in Server, StoreStep(s), NEW t \in Server \ {s}
    PROVE  /\ sessions'[t] = sessions[t] /\ pc'[t] = pc[t] /\ up'[t] = up[t]
           /\ dep'[t] = dep[t] /\ reply'[t] = reply[t]
<1> USE DEF TypeOK, Goto, Send, Reject, Return, EndDeploy
<1>1. CASE AnyBegin(s) \/ AnyChunk(s)
  BY <1>1 DEF AnyBegin, AnyChunk, BeginAccept, ChunkAccept, ChunkFail, Refused
<1>2. CASE Commit(s) \/ Abort(s) \/ Deploy(s)
  BY <1>2 DEF Commit, CommitTake, CommitRefuse, Abort, UploadAbort,
              Deploy, DeployLookup, DeployRefuse
<1>3. CASE CommitStep(s)
  BY <1>3 DEF CommitStep, CommitUnreadable, CommitDiscard, CommitAlready,
              CommitVerify, CommitRename, CommitRenameFail, CommitManifestOpen,
              CommitManifestOpenFail, CommitManifestWrite,
              CommitManifestCloseFail, CommitManifestWriteFail, CommitUndo
<1>4. CASE DeployStep(s) \/ Restart(s)
  BY <1>4 DEF DeployStep, DeployStat, DeployMissing, DeployExec, Restart
<1> QED BY <1>1, <1>2, <1>3, <1>4 DEF StoreStep, Continue

\* Nor does a client change anything of another client.
LEMMA ClientTypesStep ==
    ASSUME CInv, NEW s \in Server, Act(s)
    PROVE  /\ \A t \in Server \ {s} : step'[t] = step[t] /\ run'[t] = run[t]
           /\ (run'[s] \in Run \cup {Absent} => ClientTypes')
<1> USE DEF CInv, ClientTypes, Sent, Then, ClientStep
<1>1. CASE Start(s) \/ Unreadable(s) \/ Lose(s) \/ Crash(s) \/ Disconnect(s)
  BY <1>1 DEF Start, Unreadable, Lose, Crash, Disconnect
<1>2. CASE Request(s) \/ ServerStep(s)
  BY <1>2 DEF Request, SendBegin, SendChunk, SendCommit, SendDeploy, SendAbort, ServerStep
<1>3. CASE Receive(s)
  BY <1>3 DEF Receive, GotUpload, GotChunk, GotCommit, GotDeployed, GotError
<1> QED BY <1>1, <1>2, <1>3 DEF Act, Progress

LEMMA OtherAt ==
    ASSUME CInv, NEW s \in Server, Act(s), NEW t \in Server \ {s}
    PROVE  ClientAt(t)'
<1>1. step'[t] = step[t] /\ run'[t] = run[t]
  BY ClientTypesStep
<1>2. /\ sessions'[t] = sessions[t] /\ pc'[t] = pc[t] /\ up'[t] = up[t]
      /\ dep'[t] = dep[t] /\ reply'[t] = reply[t]
  BY ActIsStoreStep, OthersUntouched DEF CInv, IInv, vars
<1>3. ClientAt(t)
  BY DEF CInv
<1> QED
  BY <1>1, <1>2, <1>3
     DEF ClientAt, RunAt, ReplyAt, OwnAt, SessionAt, HasSession, OfRun, Opened
----------------------------------------------------------------------------
(* Steps of a connection *)

At(s) == ClientAt(s) /\ run[s] \in Run \cup {Absent}

\* Only the place of the client changes, within the places that say the same.
LEMMA StepOnly ==
    ASSUME CInv, NEW s \in Server, UNCHANGED vars, run'[s] = run[s], step[s] # "off",
           \/ step'[s] \in {"done", "failed", "lost"}
           \/ step'[s] = "abort" /\ step[s] = "upload"
           \/ /\ step'[s] = "abort" /\ step[s] \in {"chunked", "committing"}
              /\ pc[s] = "idle" /\ reply[s].kind = "rejected",
           step'[s] \in {"done", "failed"} => \A u \in UploadId : ~HasSession(s, u)
    PROVE  At(s)'
BY DEF At, CInv, ClientTypes, vars, ClientAt, RunAt, ReplyAt, OwnAt, SessionAt,
       HasSession, OfRun, Opened

LEMMA StartAt ==
    ASSUME CInv, NEW s \in Server, Start(s)
    PROVE  At(s)'
<1>1. ClientAt(s) /\ ClientTypes
  BY DEF CInv
<1>0. PICK p \in Profile, b \in Base, e \in LocalExt, h, f, g \in LocalFile :
         run' = [run EXCEPT ![s] =
                    [profile |-> p, name |-> mcpArtifactName([base |-> b, ext |-> e]),
                     size |-> Len(h), sha |-> Digest(f), file |-> g,
                     upload |-> Absent, sent |-> 0, id |-> Absent]]
  BY DEF Start
<1>2. run'[s] = [profile |-> p, name |-> mcpArtifactName([base |-> b, ext |-> e]),
                 size |-> Len(h), sha |-> Digest(f), file |-> g,
                 upload |-> Absent, sent |-> 0, id |-> Absent]
  BY <1>0, <1>1 DEF ClientTypes
<1>3. mcpArtifactName([base |-> b, ext |-> e]) \in [base : Base, ext : LocalExt \cup {"tar.gz"}]
  BY DEF mcpArtifactName
<1>4. Len(h) \in Nat /\ Len(g) \in Nat
  BY ClientAssumption DEF Content
<1>5. run'[s] \in Run /\ run'[s].sent = 0 /\ run'[s].file = g
  BY <1>2, <1>3, <1>4 DEF Run
<1>6. UNCHANGED vars /\ step[s] = "off" /\ step'[s] = "begin"
  BY <1>1 DEF Start, ClientTypes
<1>7. /\ pc[s] = "idle" /\ reply[s].kind = "none" /\ up[s] = Absent
      /\ \A u \in UploadId : ~HasSession(s, u)
  BY <1>1, <1>6 DEF ClientAt, OwnAt, SessionAt, NoReply
<1> QED
  BY <1>4, <1>5, <1>6, <1>7
     DEF At, vars, ClientAt, RunAt, ReplyAt, OwnAt, SessionAt, HasSession

LEMMA BeginAt ==
    ASSUME CInv, NEW s \in Server, SendBegin(s)
    PROVE  At(s)'
<1> USE DEF Send, Reject, Sent
<1>1. ClientAt(s) /\ ClientTypes /\ TypeOK
  BY DEF CInv, IInv
<1>2. /\ step[s] = "begin" /\ step'[s] = "begun" /\ run'[s] = run[s] /\ run[s] \in Run
      /\ \A u \in UploadId : ~HasSession(s, u)
  BY <1>1 DEF SendBegin, ClientTypes, ClientAt, RunAt, SessionAt
<1>3. UNCHANGED <<pc, up, dep>> /\ pc[s] = "idle"
  BY DEF SendBegin, BeginAccept, BeginRefuse
<1>4. ASSUME NEW u \in UploadId,
             BeginAccept(s, run[s].profile, run[s].name, run[s].size, run[s].sha, u)
      PROVE  At(s)'
  <2>1. /\ reply'[s] = [kind |-> "opened", id |-> u] /\ Opened(s)
        /\ sessions'[s][u] = [profile |-> run[s].profile, name |-> run[s].name,
                              size |-> run[s].size, sha |-> run[s].sha, received |-> 0]
        /\ \A v \in UploadId \ {u} : sessions'[s][v] = sessions[s][v]
    BY <1>1, <1>4 DEF BeginAccept, TypeOK, Opened
  <2> QED
    BY <1>1, <1>2, <1>3, <2>1
       DEF At, ClientAt, RunAt, ReplyAt, OwnAt, SessionAt, HasSession, OfRun, Opened
<1>5. ASSUME BeginRefuse(s, run[s].profile, run[s].name, run[s].size, run[s].sha)
      PROVE  At(s)'
  <2>1. reply'[s].kind = "rejected" /\ UNCHANGED sessions
    BY <1>1, <1>5 DEF BeginRefuse, TypeOK
  <2> QED
    BY <1>1, <1>2, <1>3, <2>1
       DEF At, ClientAt, RunAt, ReplyAt, OwnAt, SessionAt, HasSession, OfRun, Opened
<1> QED BY <1>4, <1>5 DEF SendBegin

LEMMA ChunkAt ==
    ASSUME CInv, NEW s \in Server, SendChunk(s)
    PROVE  At(s)'
<1> USE DEF Send, Reject, Sent
<1>1. ClientAt(s) /\ ClientTypes /\ TypeOK
  BY DEF CInv, IInv
<1>2. /\ step[s] = "upload" /\ step'[s] = "chunked" /\ run'[s] = run[s] /\ run[s] \in Run
      /\ run[s].sent < Len(run[s].file) /\ run[s].upload \in UploadId
  BY <1>1 DEF SendChunk, ClientTypes, ClientAt, RunAt
<1>3. UNCHANGED <<pc, up, dep>> /\ pc[s] = "idle"
  BY DEF SendChunk, ChunkAccept, ChunkRefuse, ChunkFail
<1>4. reply'[s].kind \in {"accepted", "rejected"}
  <2>1. \E k \in {"accepted", "rejected"}, x \in {run[s].upload, Absent} :
           reply' = [reply EXCEPT ![s] = [kind |-> k, id |-> x]]
    BY DEF SendChunk, ChunkAccept, ChunkRefuse, ChunkFail
  <2> QED BY <1>1, <2>1 DEF TypeOK
<1>5. ASSUME NEW v \in UploadId, HasSession(s, v)'
      PROVE  /\ HasSession(s, v)
             /\ sessions'[s][v].profile = sessions[s][v].profile
             /\ sessions'[s][v].name = sessions[s][v].name
             /\ sessions'[s][v].sha = sessions[s][v].sha
  <2> DEFINE u == run[s].upload
  <2>1. CASE ChunkAccept(s, u, run[s].sent, NextChunk(run[s]))
    <3>1. sessions[s][u] \in Session /\ HasSession(s, u)
      BY <1>1, <1>2, <2>1 DEF ChunkAccept, ChunkAllowed, TypeOK, HasSession
    <3>2. sessions' = [sessions EXCEPT ![s][u] =
                          Advance(sessions[s][u], Len(NextChunk(run[s])))]
      BY <2>1 DEF ChunkAccept
    <3>3. \A n : \A x \in Session :
             /\ Advance(x, n).profile = x.profile
             /\ Advance(x, n).name = x.name
             /\ Advance(x, n).sha = x.sha
      BY DEF Advance, Session
    <3> HIDE DEF u
    <3>4. CASE v = u
      BY <1>1, <1>2, <3>1, <3>2, <3>3, <3>4 DEF TypeOK, u
    <3>5. CASE v # u
      BY <1>1, <1>2, <1>5, <3>2, <3>5 DEF TypeOK, HasSession
    <3> QED BY <3>4, <3>5
  <2>2. CASE \/ ChunkRefuse(s, u, run[s].sent, NextChunk(run[s]))
             \/ ChunkFail(s, u, run[s].sent, NextChunk(run[s]))
    BY <1>5, <2>2 DEF ChunkRefuse, ChunkFail, HasSession
  <2> QED BY <2>1, <2>2 DEF SendChunk
<1>6. RunAt(s)' /\ ReplyAt(s)' /\ OwnAt(s)'
  BY <1>1, <1>2, <1>3, <1>4 DEF ClientAt, RunAt, ReplyAt, OwnAt, OfRun, Opened
<1>7. SessionAt(s)'
  <2> SUFFICES ASSUME NEW v \in UploadId, HasSession(s, v)'
               PROVE  /\ OfRun(s, sessions[s][v])'
                      /\ pc'[s] = "idle" /\ v = run'[s].upload
    BY <1>2 DEF SessionAt
  <2>1. OfRun(s, sessions[s][v]) /\ v = run[s].upload
    BY <1>1, <1>2, <1>5 DEF ClientAt, SessionAt
  <2> QED BY <1>2, <1>3, <1>5, <2>1 DEF OfRun, Opened
<1> QED BY <1>2, <1>6, <1>7 DEF At, ClientAt

LEMMA CommitAt ==
    ASSUME CInv, NEW s \in Server, SendCommit(s)
    PROVE  At(s)'
<1> USE DEF Send, Reject, Sent, Goto
<1>1. ClientAt(s) /\ ClientTypes /\ TypeOK
  BY DEF CInv, IInv
<1>2. /\ step[s] = "upload" /\ step'[s] = "committing" /\ run'[s] = run[s]
      /\ run[s] \in Run /\ run[s].upload \in UploadId
  BY <1>1 DEF SendCommit, ClientTypes, ClientAt, RunAt
<1>3. CASE CommitTake(s, run[s].upload)
  <2>1. /\ HasSession(s, run[s].upload) /\ up'[s].session = sessions[s][run[s].upload]
        /\ pc'[s] = "verify" /\ reply'[s].kind = "none" /\ UNCHANGED dep
        /\ \A v \in UploadId :
              HasSession(s, v)' => HasSession(s, v) /\ v # run[s].upload
    BY <1>1, <1>2, <1>3
       DEF CommitTake, CommitAllowed, TypeOK, HasSession, NoReply
  <2> QED
    BY <1>1, <1>2, <2>1
       DEF At, ClientAt, RunAt, ReplyAt, OwnAt, SessionAt, OfRun, Opened
<1>4. CASE CommitRefuse(s, run[s].upload)
  <2>1. /\ UNCHANGED <<sessions, pc, up, dep>> /\ pc[s] = "idle"
        /\ reply'[s].kind = "rejected"
    BY <1>1, <1>4 DEF CommitRefuse, TypeOK
  <2> QED
    BY <1>1, <1>2, <2>1
       DEF At, ClientAt, RunAt, ReplyAt, OwnAt, SessionAt, HasSession, OfRun, Opened
<1> QED BY <1>3, <1>4 DEF SendCommit

LEMMA DeployAt ==
    ASSUME CInv, NEW s \in Server, SendDeploy(s)
    PROVE  At(s)'
<1> USE DEF Send, Reject, Sent, Goto
<1>1. ClientAt(s) /\ ClientTypes /\ TypeOK
  BY DEF CInv, IInv
<1>2. /\ step[s] = "deploy" /\ step'[s] = "deploying" /\ run'[s] = run[s]
      /\ run[s] \in Run /\ UNCHANGED <<sessions, up>>
      /\ \A v \in UploadId : ~HasSession(s, v)
  BY <1>1 DEF SendDeploy, DeployLookup, DeployRefuse, ClientTypes, ClientAt, RunAt, SessionAt
<1>3. CASE DeployLookup(s, run[s].profile, run[s].id)
  <2>1. /\ dep'[s].id = run[s].id /\ dep'[s].profile = run[s].profile
        /\ pc'[s] = "stat" /\ reply'[s].kind = "none"
    BY <1>1, <1>3 DEF DeployLookup, TypeOK, NoReply
  <2> QED
    BY <1>1, <1>2, <2>1
       DEF At, ClientAt, RunAt, ReplyAt, OwnAt, SessionAt, HasSession, OfRun, Opened
<1>4. CASE DeployRefuse(s, run[s].profile, run[s].id)
  <2>1. UNCHANGED <<pc, dep>> /\ pc[s] = "idle" /\ reply'[s].kind = "rejected"
    BY <1>1, <1>4 DEF DeployRefuse, TypeOK
  <2> QED
    BY <1>1, <1>2, <2>1
       DEF At, ClientAt, RunAt, ReplyAt, OwnAt, SessionAt, HasSession, OfRun, Opened
<1> QED BY <1>3, <1>4 DEF SendDeploy

LEMMA AbortAt ==
    ASSUME CInv, NEW s \in Server, SendAbort(s)
    PROVE  At(s)'
<1>1. ClientAt(s) /\ ClientTypes /\ TypeOK
  BY DEF CInv, IInv
<1>2. /\ step[s] = "abort" /\ step'[s] = "aborting" /\ run'[s] = run[s]
      /\ run[s] \in Run /\ run[s].upload \in UploadId
  BY <1>1 DEF SendAbort, Sent, ClientTypes, ClientAt, RunAt
<1>3. /\ UNCHANGED <<pc, up, dep>> /\ pc[s] = "idle" /\ reply'[s].kind = "aborted"
      /\ \A v \in UploadId :
            HasSession(s, v)' => HasSession(s, v) /\ v # run[s].upload
  BY <1>1, <1>2 DEF SendAbort, UploadAbort, Send, TypeOK, HasSession
<1> QED
  BY <1>1, <1>2, <1>3
     DEF At, ClientAt, RunAt, ReplyAt, OwnAt, SessionAt, OfRun, Opened
LEMMA GotUploadAt ==
    ASSUME CInv, NEW s \in Server, GotUpload(s)
    PROVE  At(s)'
<1>1. ClientAt(s) /\ ClientTypes
  BY DEF CInv
<1>2. /\ step[s] = "begun" /\ pc[s] = "idle" /\ reply[s].kind = "opened"
      /\ UNCHANGED vars /\ step'[s] = "upload" /\ run[s] \in Run
      /\ run'[s] = [run[s] EXCEPT !.upload = reply[s].id] /\ reply[s].id \in UploadId
  BY <1>1 DEF GotUpload, Answer, Then, ClientTypes, ClientAt, RunAt, ReplyAt
<1>3. /\ run'[s] \in Run /\ run'[s].upload = reply[s].id
      /\ run'[s].profile = run[s].profile /\ run'[s].name = run[s].name
      /\ run'[s].size = run[s].size /\ run'[s].sha = run[s].sha
      /\ run'[s].file = run[s].file /\ run'[s].sent = run[s].sent
  BY <1>2, RunUpdates
<1>4. RunAt(s)' /\ ReplyAt(s)' /\ OwnAt(s)'
  BY <1>1, <1>2, <1>3 DEF vars, ClientAt, RunAt, ReplyAt, OwnAt, OfRun, Opened
<1>5. \A u \in UploadId : HasSession(s, u) => OfRun(s, sessions[s][u]) /\ reply[s].id = u
  <2> SUFFICES ASSUME NEW u \in UploadId, HasSession(s, u)
               PROVE  OfRun(s, sessions[s][u]) /\ reply[s].id = u
    OBVIOUS
  <2>1. OfRun(s, sessions[s][u]) /\ reply[s] = [kind |-> "opened", id |-> u]
    BY <1>1, <1>2 DEF ClientAt, SessionAt
  <2> QED BY <2>1
<1>6. SessionAt(s)'
  BY <1>2, <1>3, <1>5 DEF vars, SessionAt, HasSession, OfRun, Opened
<1> QED BY <1>3, <1>4, <1>6 DEF At, ClientAt

LEMMA GotChunkAt ==
    ASSUME CInv, NEW s \in Server, GotChunk(s)
    PROVE  At(s)'
<1>1. ClientAt(s) /\ ClientTypes
  BY DEF CInv
<1>2. /\ step[s] = "chunked" /\ pc[s] = "idle" /\ reply[s].kind = "accepted"
      /\ UNCHANGED vars /\ step'[s] = "upload"
      /\ run[s] \in Run /\ run[s].sent < Len(run[s].file) /\ run[s].upload \in UploadId
      /\ run'[s] = [run[s] EXCEPT !.sent = run[s].sent + Len(NextChunk(run[s]))]
  BY <1>1 DEF GotChunk, Answer, Then, ClientTypes, ClientAt, RunAt
<1>3. /\ run[s].sent + Len(NextChunk(run[s])) \in Nat
      /\ run[s].sent + Len(NextChunk(run[s])) =< Len(run[s].file)
  BY <1>2, ChunkOfFile
<1>4. /\ run'[s] \in Run /\ run'[s].sent =< Len(run'[s].file)
      /\ run'[s].profile = run[s].profile /\ run'[s].name = run[s].name
      /\ run'[s].size = run[s].size /\ run'[s].sha = run[s].sha
      /\ run'[s].upload = run[s].upload
  BY <1>2, <1>3, RunUpdates
<1>5. RunAt(s)' /\ ReplyAt(s)' /\ OwnAt(s)'
  BY <1>1, <1>2, <1>4 DEF vars, ClientAt, RunAt, ReplyAt, OwnAt, OfRun, Opened
<1>6. SessionAt(s)'
  BY <1>1, <1>2, <1>4 DEF vars, ClientAt, SessionAt, HasSession, OfRun, Opened
<1> QED BY <1>4, <1>5, <1>6 DEF At, ClientAt

\* Both answers to a commit name the artifact of the run.
LEMMA GotCommitAt ==
    ASSUME CInv, NEW s \in Server, GotCommit(s)
    PROVE  At(s)'
<1>1. ClientAt(s) /\ ClientTypes
  BY DEF CInv
<1>2. /\ step[s] = "committing" /\ pc[s] = "idle"
      /\ reply[s].kind \in {"committed", "already"}
      /\ UNCHANGED vars /\ step'[s] = "deploy" /\ run[s] \in Run
  BY <1>1 DEF GotCommit, Answer, Then, ClientTypes, ClientAt, RunAt
<1>3. /\ Opened(s) /\ reply[s].id = ArtifactIdOf(run[s].name, run[s].sha)
      /\ reply[s].id \in ArtifactId
      /\ \A u \in UploadId : ~HasSession(s, u)
  BY <1>1, <1>2 DEF ClientAt, OwnAt, ReplyAt, SessionAt
<1>4. run'[s] = [run[s] EXCEPT !.id = reply[s].id]
  BY <1>1, <1>2, <1>3 DEF GotCommit, Then, ClientTypes
<1>5. /\ run'[s] \in Run /\ run'[s].id = reply[s].id
      /\ run'[s].profile = run[s].profile /\ run'[s].name = run[s].name
      /\ run'[s].size = run[s].size /\ run'[s].sha = run[s].sha
      /\ run'[s].file = run[s].file /\ run'[s].sent = run[s].sent
  BY <1>2, <1>3, <1>4, RunUpdates
<1> QED
  BY <1>1, <1>2, <1>3, <1>5
     DEF At, vars, ClientAt, RunAt, ReplyAt, OwnAt, SessionAt, HasSession, OfRun, Opened

LEMMA GotEndAt ==
    ASSUME CInv, NEW s \in Server, GotDeployed(s) \/ GotError(s)
    PROVE  At(s)'
<1>1. ClientAt(s) /\ ClientTypes
  BY DEF CInv
<1>2. UNCHANGED vars /\ run'[s] = run[s] /\ pc[s] = "idle"
  BY <1>1 DEF GotDeployed, GotError, Answer, Then, ClientTypes
<1>3. CASE GotDeployed(s)
  <2>1. step[s] = "deploying" /\ step'[s] = "done"
    BY <1>1, <1>3 DEF GotDeployed, Answer, Then, ClientTypes
  <2>2. \A u \in UploadId : ~HasSession(s, u)
    BY <1>1, <2>1 DEF ClientAt, SessionAt
  <2> QED BY <1>2, <2>1, <2>2, StepOnly
<1>4. CASE GotError(s)
  <2>1. \/ /\ \/ step[s] = "begun" /\ reply[s].kind = "rejected"
              \/ step[s] \in {"aborting", "deploying"}
           /\ step'[s] = "failed"
        \/ /\ step[s] \in {"chunked", "committing"} /\ reply[s].kind = "rejected"
           /\ step'[s] = "abort"
    BY <1>1, <1>4 DEF GotError, Answer, Then, ClientTypes
  <2>2. ASSUME step'[s] = "failed", NEW u \in UploadId, HasSession(s, u)
        PROVE  FALSE
    <3>1. step[s] = "begun" /\ reply[s] = [kind |-> "opened", id |-> u]
      BY <1>1, <2>1, <2>2 DEF ClientAt, SessionAt
    <3> QED BY <2>1, <2>2, <3>1
  <2>3. step[s] # "off"
    BY <2>1
  <2>4. CASE step'[s] = "failed"
    BY <1>2, <2>2, <2>3, <2>4, StepOnly
  <2>5. CASE step'[s] = "abort"
    <3>1. step[s] \in {"chunked", "committing"} /\ reply[s].kind = "rejected"
      BY <2>1, <2>5
    <3> QED BY <1>2, <2>3, <2>5, <3>1, StepOnly
  <2> QED BY <2>1, <2>4, <2>5
<1> QED BY <1>3, <1>4

\* A handler that commits answers for the session it has taken.
LEMMA CommitStepAt ==
    ASSUME CInv, NEW s \in Server, CommitStep(s), step' = step, run' = run
    PROVE  At(s)'
<1> USE DEF Send, Reject, Goto, Return
<1>1. ClientAt(s) /\ ClientTypes /\ TypeOK
  BY DEF CInv, IInv
<1>2. /\ pc[s] \in {"verify", "rename", "create", "write", "undo"}
      /\ up[s] # Absent /\ UNCHANGED <<sessions, dep>>
  BY DEF CommitStep, CommitUnreadable, CommitDiscard, CommitAlready,
         CommitVerify, CommitRename, CommitRenameFail, CommitManifestOpen,
         CommitManifestOpenFail, CommitManifestWrite, CommitManifestCloseFail,
         CommitManifestWriteFail, CommitUndo, CInv, IInv, HandlerState
<1>3. \/ up'[s] = up[s] /\ reply'[s] = reply[s]
      \/ up'[s] = Absent /\ reply'[s].kind = "rejected"
      \/ /\ up'[s] = Absent /\ reply'[s].kind \in {"committed", "already"}
         /\ reply'[s].id = UploadArtifact(s)
  BY <1>1 DEF CommitStep, CommitUnreadable, CommitDiscard, CommitAlready,
         CommitVerify, CommitRename, CommitRenameFail, CommitManifestOpen,
         CommitManifestOpenFail, CommitManifestWrite, CommitManifestCloseFail,
         CommitManifestWriteFail, CommitUndo, TypeOK
<1>4. pc'[s] \notin {"stat", "exec"}
  BY <1>1 DEF CommitStep, CommitUnreadable, CommitDiscard, CommitAlready,
         CommitVerify, CommitRename, CommitRenameFail, CommitManifestOpen,
         CommitManifestOpenFail, CommitManifestWrite, CommitManifestCloseFail,
         CommitManifestWriteFail, CommitUndo, TypeOK
<1>5. /\ OfRun(s, up[s].session) /\ UploadArtifact(s) \in ArtifactId
      /\ UploadArtifact(s) = ArtifactIdOf(run[s].name, run[s].sha)
      /\ step[s] # "off"
  BY <1>1, <1>2, CommitTypes DEF ClientAt, OwnAt, OfRun, UploadArtifact
<1>6. \A u \in UploadId : HasSession(s, u) => step[s] = "lost"
  BY <1>1, <1>2 DEF ClientAt, SessionAt
<1>7. RunAt(s)' /\ ReplyAt(s)'
  BY <1>1, <1>3, <1>5 DEF ClientAt, RunAt, ReplyAt
<1>8. OwnAt(s)'
  BY <1>1, <1>3, <1>4, <1>5 DEF ClientAt, OwnAt, OfRun, Opened
<1>9. SessionAt(s)'
  BY <1>1, <1>2, <1>6 DEF ClientAt, SessionAt, HasSession, OfRun, Opened
<1> QED BY <1>1, <1>7, <1>8, <1>9 DEF At, ClientAt, ClientTypes

LEMMA DeployStepAt ==
    ASSUME CInv, NEW s \in Server, DeployStep(s), step' = step, run' = run
    PROVE  At(s)'
<1> USE DEF Send, Reject, Goto, EndDeploy
<1>1. ClientAt(s) /\ ClientTypes /\ TypeOK
  BY DEF CInv, IInv
<1>2. /\ pc[s] \in {"stat", "exec"} /\ UNCHANGED <<sessions, up>>
  BY DEF DeployStep, DeployStat, DeployMissing, DeployExec
<1>3. \/ pc'[s] = "exec" /\ dep'[s] = dep[s] /\ reply'[s] = reply[s]
      \/ pc'[s] = "idle" /\ reply'[s].kind \in {"rejected", "deployed", "failed"}
  BY <1>1 DEF DeployStep, DeployStat, DeployMissing, DeployExec, TypeOK
<1>4. step[s] # "off" /\ \A u \in UploadId : HasSession(s, u) => step[s] = "lost"
  BY <1>1, <1>2 DEF ClientAt, OwnAt, SessionAt
<1> QED
  BY <1>1, <1>2, <1>3, <1>4
     DEF At, ClientTypes, ClientAt, RunAt, ReplyAt, OwnAt, SessionAt, HasSession, OfRun, Opened

LEMMA ConnectionAt ==
    ASSUME CInv, NEW s \in Server,
           Unreadable(s) \/ Lose(s) \/ Crash(s) \/ Disconnect(s)
    PROVE  At(s)'
<1>1. ClientAt(s) /\ ClientTypes /\ TypeOK
  BY DEF CInv, IInv
<1>2. CASE Unreadable(s)
  <2>1. UNCHANGED vars /\ run'[s] = run[s] /\ step[s] = "upload" /\ step'[s] = "abort"
    BY <1>1, <1>2 DEF Unreadable, ClientTypes
  <2> QED BY <2>1, StepOnly
<1>3. CASE Lose(s)
  <2>1. UNCHANGED vars /\ run'[s] = run[s] /\ step[s] # "off" /\ step'[s] = "lost"
    BY <1>1, <1>3 DEF Lose, Running, Then, ClientTypes
  <2> QED BY <2>1, StepOnly
<1>4. CASE Crash(s) \/ Disconnect(s)
  <2>1. /\ pc'[s] = "idle" /\ up'[s] = Absent /\ reply'[s] = NoReply
        /\ \A u \in UploadId : ~HasSession(s, u)'
    BY <1>1, <1>4 DEF Crash, Disconnect, Restart, Goto, TypeOK, HasSession
  <2>2. CASE Crash(s)
    <3>1. step'[s] = "lost" /\ run'[s] = run[s] /\ step[s] # "off"
      BY <1>1, <2>2 DEF Crash, Running, Then, ClientTypes
    <3> QED
      BY <1>1, <2>1, <3>1
         DEF At, ClientTypes, ClientAt, RunAt, ReplyAt, OwnAt, SessionAt, NoReply
  <2>3. CASE Disconnect(s)
    <3>1. step'[s] = "off" /\ run'[s] = Absent
      BY <1>1, <2>3 DEF Disconnect, Then, ClientTypes
    <3> QED
      BY <2>1, <3>1 DEF At, ClientAt, RunAt, ReplyAt, OwnAt, SessionAt, NoReply
  <2> QED BY <1>4, <2>2, <2>3
<1> QED BY <1>2, <1>3, <1>4

----------------------------------------------------------------------------
(* The invariant *)

LEMMA CInvInit == ClientInit => CInv
<1> SUFFICES ASSUME ClientInit PROVE CInv
  OBVIOUS
<1>1. IInv
  BY IInvInit DEF ClientInit
<1>2. ClientTypes
  BY DEF ClientInit, ClientTypes, ClientStep
<1>3. \A s \in Server : ClientAt(s)
  BY DEF ClientInit, Init, NoReply, ClientAt, RunAt, ReplyAt, OwnAt, SessionAt, HasSession
<1> QED BY <1>1, <1>2, <1>3 DEF CInv

LEMMA CInvStep == CInv /\ [ClientNext]_cvars => CInv'
<1> SUFFICES ASSUME CInv, [ClientNext]_cvars PROVE CInv'
  OBVIOUS
<1>1. IInv'
  BY ClientIsStoreNext, IInvStep DEF CInv
<1>2. ASSUME NEW s \in Server, Act(s)
      PROVE  ClientTypes' /\ \A t \in Server : ClientAt(t)'
  <2>1. At(s)'
    BY <1>2, StartAt, BeginAt, ChunkAt, CommitAt, DeployAt, AbortAt, GotUploadAt,
       GotChunkAt, GotCommitAt, GotEndAt, CommitStepAt, DeployStepAt, ConnectionAt
       DEF Act, Progress, Request, Receive, ServerStep, Continue
  <2>2. \A t \in Server \ {s} : ClientAt(t)'
    BY <1>2, OtherAt
  <2> QED BY <1>2, <2>1, <2>2, ClientTypesStep DEF At
<1>3. CASE UNCHANGED cvars
  <2>1. ClientTypes'
    BY <1>3 DEF cvars, CInv, ClientTypes
  <2>2. ASSUME NEW s \in Server PROVE ClientAt(s)'
    <3>1. ClientAt(s) /\ UNCHANGED <<step, run, sessions, pc, up, dep, reply>>
      BY <1>3 DEF cvars, vars, CInv
    <3> QED
      BY <3>1 DEF ClientAt, RunAt, ReplyAt, OwnAt, SessionAt, HasSession, OfRun, Opened
  <2> QED BY <1>1, <2>1, <2>2 DEF CInv
<1>4. CASE ClientNext
  BY <1>1, <1>2, <1>4 DEF ClientNext, Act, CInv
<1> QED BY <1>1, <1>3, <1>4 DEF CInv

\* Whatever the clients of any number of connections do, the invariants of the
\* store and of each connection hold.
THEOREM ClientInvariance == ClientSpec => []CInv
BY CInvInit, CInvStep, PTL DEF ClientSpec
----------------------------------------------------------------------------
(* What follows *)

\* Every variable of clients and store keeps its type; no client is further in a
\* file than the file is long.
THEOREM ClientTyping == ClientSpec => []ClientTypeOK
<1>1. CInv => ClientTypeOK
  <2> SUFFICES ASSUME CInv PROVE ClientTypeOK
    OBVIOUS
  <2>1. TypeOK /\ step \in [Server -> ClientStep]
    BY DEF CInv, IInv, ClientTypes
  <2>2. ASSUME NEW s \in Server, step[s] # "off"
        PROVE  /\ run[s].sent \in 0..Len(run[s].file)
               /\ run[s].upload \in UploadId \cup {Absent}
               /\ run[s].id \in ArtifactId \cup {Absent}
    <3>1. run[s] \in Run /\ run[s].sent =< Len(run[s].file)
      BY <2>2 DEF CInv, ClientAt, RunAt
    <3>2. run[s].sent \in Nat /\ Len(run[s].file) \in Nat
      BY <3>1, ClientAssumption DEF Run, Content
    <3> QED BY <3>1, <3>2 DEF Run
  <2> QED BY <2>1, <2>2 DEF ClientTypeOK
<1> QED BY <1>1, ClientInvariance, PTL

\* A client deploys the bytes it took the digest of, whoever committed them.
THEOREM OwnFile == ClientSpec => []DeploysItsOwnFile
<1>1. CInv => DeploysItsOwnFile
  <2> SUFFICES ASSUME CInv, NEW s \in Server, step[s] = "deploying", pc[s] = "exec",
                      committed[DeployPath(s)] # Absent
               PROVE  Digest(committed[DeployPath(s)]) = run[s].sha
    BY DEF DeploysItsOwnFile
  <2>1. TypeOK /\ ContentAddressed
    BY DEF CInv, IInv
  <2>2. dep[s].id \in ArtifactId /\ dep[s].manifest \in Manifest
    BY DEF CInv, IInv, HandlerState, TypeOK, Deployment
  <2>3. FiledUnder(dep[s].id, dep[s].manifest)
    BY DEF CInv, IInv, ManifestsFiled
  <2>4. Digest(committed[DeployPath(s)]) = dep[s].manifest.sha
    BY <2>1, <2>2, <2>3, SameDigest DEF FiledUnder, DeployPath
  <2>5. /\ Opened(s) /\ dep[s].id = ArtifactIdOf(run[s].name, run[s].sha)
    BY DEF CInv, ClientAt, OwnAt
  <2>6. run[s].sha \in Sha /\ dep[s].manifest.sha \in Sha
    BY <2>2, <2>5 DEF Opened, BeginAllowed, Manifest
  <2>7. Short(dep[s].manifest.sha) = Short(run[s].sha)
    BY <2>3, <2>5 DEF FiledUnder, ArtifactIdOf
  <2> QED BY <2>4, <2>6, <2>7, ShortAssumption
<1> QED BY <1>1, ClientInvariance, PTL

\* With clients that act as they do, a manifest that parses has its file,
THEOREM ClientFileBehindManifest ==
    ASSUME ManifestsWork
    PROVE  ClientSpec => []ManifestHasFile
<1>1. CInv /\ Kept /\ [ClientNext]_cvars => Kept'
  BY KeptStep, ClientIsStoreNext DEF CInv
<1>2. ClientInit => Kept
  BY KeptInit DEF ClientInit
<1>3. Kept => ManifestHasFile BY DEF Kept
<1> QED BY <1>1, <1>2, <1>3, ClientInvariance, PTL DEF ClientSpec

\* and a committed file is never removed nor changed.
THEOREM ClientCommittedForGood ==
    ASSUME ManifestsWork, CollisionFree
    PROVE  ClientSpec => CommittedStays
<1>1. CInv /\ Kept /\ [ClientNext]_cvars => Kept'
  BY KeptStep, ClientIsStoreNext DEF CInv
<1>2. ClientInit => Kept
  BY KeptInit DEF ClientInit
<1>3. CInv /\ CInv' /\ Kept /\ [ClientNext]_cvars =>
        [\A p \in Path : committed[p] # Absent => committed'[p] = committed[p]]_vars
  BY ContentKept, ClientIsStoreNext DEF CInv
<1> QED BY <1>1, <1>2, <1>3, ClientInvariance, PTL DEF ClientSpec, CommittedStays

----------------------------------------------------------------------------
(* What is left behind *)

\* Failures that leave a file behind: of its removal and of reading it.
Tidy == "remove" \notin Fault /\ "hash" \notin Fault

Holds(s, u) == HasSession(s, u) \/ InHand(s, u)

LEMMA BeginHolds ==
    ASSUME TypeOK, NEW s \in Server, NEW p \in Profile, NEW n \in Name, NEW size \in Int,
           NEW sha \in Sha, NEW v \in UploadId, BeginAccept(s, p, n, size, sha, v)
    PROVE  /\ uploads' = [uploads EXCEPT ![v] = <<>>]
           /\ HasSession(s, v)'
           /\ \A u \in UploadId \ {v} : sessions'[s][u] = sessions[s][u]
<1> DEFINE x == [profile |-> p, name |-> n, size |-> size, sha |-> sha, received |-> 0]
<1>1. size \in Nat
  BY DEF BeginAccept, BeginAllowed
<1>2. x \in Session
  BY <1>1 DEF Session
<1>3. x # Absent
  BY <1>2, AbsentAssumption
<1>4. /\ sessions' = [sessions EXCEPT ![s][v] = x]
      /\ uploads' = [uploads EXCEPT ![v] = <<>>]
  BY DEF BeginAccept
<1> HIDE DEF x
<1> QED BY <1>3, <1>4 DEF TypeOK, HasSession

\* An upload file appears with its session.
LEMMA Appears ==
    ASSUME TypeOK, OneOwner, HandlerState, NEW s \in Server, Serve(s), NEW u \in UploadId,
           uploads[u] = Absent, uploads'[u] # Absent
    PROVE  HasSession(s, u)'
<1> USE DEF TypeOK, HasSession
<1>1. CASE AnyBegin(s)
  BY <1>1, BeginHolds DEF AnyBegin, Refused, files
<1>2. CASE AnyChunk(s)
  BY <1>2 DEF AnyChunk, ChunkAccept, ChunkFail, ChunkAllowed, Refused, files, OneOwner
<1>3. CASE Commit(s) \/ Abort(s) \/ Deploy(s) \/ DeployStep(s)
  BY <1>3 DEF Commit, CommitTake, CommitRefuse, Abort, UploadAbort, Remove, Deploy,
     DeployLookup, DeployRefuse, DeployStep, DeployStat, DeployMissing, DeployExec, files
<1>4. CASE CommitStep(s)
  BY <1>4 DEF CommitStep, CommitUnreadable, CommitDiscard, CommitAlready,
     CommitVerify, CommitRename, CommitRenameFail, CommitManifestOpen,
     CommitManifestOpenFail, CommitManifestWrite, CommitManifestCloseFail,
     CommitManifestWriteFail, CommitUndo, Remove, files
<1> QED BY <1>1, <1>2, <1>3, <1>4 DEF Serve, Continue

\* A handler that lets go of a file removes it, unless its rename fails.
LEMMA LetsGo ==
    ASSUME Tidy, TypeOK, OneOwner, HandlerState, NEW s \in Server, Serve(s), NEW u \in UploadId,
           Holds(s, u), ~Holds(s, u)', uploads'[u] # Absent
    PROVE  CommitRenameFail(s)
<1> USE DEF TypeOK, Holds, HasSession, InHand, Goto, Return
<1>1. CASE AnyBegin(s)
  <2>1. CASE Refused(s)
    BY <1>1, <2>1 DEF Refused, files
  <2>2. ASSUME NEW p \in Profile, NEW n \in Name, NEW size \in Int, NEW sha \in Sha,
               NEW v \in UploadId, BeginAccept(s, p, n, size, sha, v)
        PROVE  FALSE
    <3>1. UNCHANGED <<pc, up>> /\ pc[s] = "idle"
      BY <2>2 DEF BeginAccept
    <3> QED BY <2>2, <3>1, BeginHolds
  <2> QED BY <1>1, <2>1, <2>2 DEF AnyBegin
<1>2. CASE AnyChunk(s)
  <2>1. ASSUME NEW v \in UploadId, NEW offset \in Nat, NEW data \in Content,
               ChunkAccept(s, v, offset, data)
        PROVE  FALSE
    <3>1. /\ UNCHANGED <<pc, up>> /\ pc[s] = "idle" /\ sessions[s][v] \in Session
          /\ sessions' = [sessions EXCEPT ![s][v] = Advance(sessions[s][v], Len(data))]
      BY <2>1 DEF ChunkAccept, ChunkAllowed
    <3>2. Len(data) \in Nat
      BY DEF Content
    <3>3. Advance(sessions[s][v], Len(data)) # Absent
      BY <3>1, <3>2, AdvanceType, AbsentAssumption
    <3> QED BY <3>1, <3>3
  <2>2. CASE UNCHANGED <<sessions, pc, up>>
    BY <2>2
  <2> QED BY <1>2, <2>1, <2>2 DEF AnyChunk, ChunkFail, Refused
<1>3. CASE Commit(s)
  BY <1>3 DEF Commit, CommitTake, CommitRefuse, files
<1>4. CASE Abort(s)
  BY <1>4 DEF Abort, UploadAbort, Remove, Tidy
<1>5. CASE Deploy(s) \/ DeployStep(s)
  BY <1>5 DEF Deploy, DeployLookup, DeployRefuse, DeployStep, DeployStat, DeployMissing,
     DeployExec, EndDeploy, files
<1>6. CASE CommitStep(s)
  BY <1>6 DEF CommitStep, CommitUnreadable, CommitDiscard, CommitAlready,
     CommitVerify, CommitRename, CommitManifestOpen,
     CommitManifestOpenFail, CommitManifestWrite, CommitManifestCloseFail,
     CommitManifestWriteFail, CommitUndo, Remove, Tidy, files, HandlerState
<1> QED BY <1>1, <1>2, <1>3, <1>4, <1>5, <1>6 DEF Serve, Continue

LEMMA LeftBehind ==
    ASSUME Tidy, CInv, NEW s \in Server, Act(s), NEW u \in UploadId, Orphan(u)', ~Orphan(u)
    PROVE  \/ CommitRenameFail(s)
           \/ (step[s] = "lost" \/ Crash(s)) /\ (HasSession(s, u) \/ InHand(s, u))
<1>1. TypeOK /\ OneOwner /\ HandlerState
  BY DEF CInv, IInv
<1>2. uploads'[u] # Absent /\ \A t \in Server : ~Holds(t, u)'
  BY DEF Orphan, Holds
<1>3. CASE UNCHANGED vars
  BY <1>3 DEF vars, Orphan, HasSession, InHand
<1>4. CASE uploads[u] = Absent
  <2>1. ~Serve(s)
    BY <1>1, <1>2, <1>4, Appears DEF Holds
  <2>2. UNCHANGED uploads => FALSE
    BY <1>2, <1>4
  <2> QED
    BY <1>3, <2>1, <2>2, ActServes DEF Crash, Disconnect, Restart, files
<1>5. ASSUME NEW t \in Server, Holds(t, u)
      PROVE  \/ CommitRenameFail(s)
             \/ (step[s] = "lost" \/ Crash(s)) /\ (HasSession(s, u) \/ InHand(s, u))
  <2>1. t = s
    <3> SUFFICES ASSUME t # s PROVE FALSE
      OBVIOUS
    <3>1. sessions'[t] = sessions[t] /\ pc'[t] = pc[t] /\ up'[t] = up[t]
      BY <1>1, ActIsStoreStep, OthersUntouched DEF vars
    <3> QED BY <1>2, <1>5, <3>1 DEF Holds, HasSession, InHand
  <2>2. CASE Serve(s)
    BY <1>1, <1>2, <1>5, <2>1, <2>2, LetsGo
  <2>3. CASE Crash(s)
    BY <1>5, <2>1, <2>3 DEF Holds
  <2>4. CASE Disconnect(s)
    <3>1. pc[s] = "idle" /\ step[s] \in Ended
      BY <2>4 DEF Disconnect
    <3>2. HasSession(s, u)
      BY <1>5, <2>1, <3>1 DEF Holds, InHand
    <3>3. step[s] = "lost"
      BY <3>1, <3>2 DEF CInv, ClientAt, SessionAt, Ended
    <3> QED BY <3>2, <3>3
  <2> QED BY <1>3, <2>2, <2>3, <2>4, ActServes
<1> QED BY <1>2, <1>4, <1>5 DEF Orphan, Holds

\* As long as upload files can be read and removed, a file without an owner is
\* the doing of a broken connection, a crash or a failed rename: every run that
\* ends by itself clears up after itself, for any number of connections.
THEOREM NothingLeft ==
    ASSUME Tidy
    PROVE  ClientSpec => NothingLeftBehind
<1>1. CInv /\ [ClientNext]_cvars =>
        [\A u \in UploadId :
          Orphan(u)' => \/ Orphan(u)
                        \/ \E s \in Server : CommitRenameFail(s)
                        \/ \E s \in Server : /\ step[s] = "lost" \/ Crash(s)
                                             /\ HasSession(s, u) \/ InHand(s, u)]_cvars
  BY LeftBehind DEF ClientNext, Act
<1> QED BY <1>1, ClientInvariance, PTL DEF ClientSpec, NothingLeftBehind

----------------------------------------------------------------------------
(* Who is told "committed" can deploy *)

\* The artifact of a run.
RunArtifact(s) == ArtifactIdOf(run[s].name, run[s].sha)

\* Connections open at the same time are for different artifacts.
OneClientPerArtifact ==
    \A s, t \in Server :
        s # t /\ step[s] # "off" /\ step[t] # "off" => RunArtifact(s) # RunArtifact(t)

\* The patterns of two profiles never accept names of one base.
ProfilesApart ==
    \A p, q \in Profile : \A m \in Allowed(p), n \in Allowed(q) : m.base = n.base => p = q

\* A commit is under way while its client waits, or waited before it was lost;
\* no answer of the process is older than the handler it is in.
HandlerOf(s) ==
    /\ pc[s] # "idle" => reply[s] = NoReply
    /\ pc[s] \in {"verify", "rename", "create", "write"} => step[s] \in {"committing", "lost"}

\* A client that was told "committed", by either answer, has a manifest.
ToldAt(s) ==
    \/ step[s] = "deploy"
    \/ step[s] = "committing" /\ reply[s].kind \in {"committed", "already"}
    => manifests[RunArtifact(s)] \in Manifest

\* A deploy has its file, a commit an empty manifest to fill.
HasAt(s) ==
    /\ pc[s] = "stat" => committed[DeployPath(s)] # Absent
    /\ pc[s] = "write" => manifests[UploadArtifact(s)] = Empty
    /\ step[s] = "deploying" => reply[s].kind # "rejected"

DeployableAt(s) == HandlerOf(s) /\ ToldAt(s) /\ HasAt(s)

\* A committed file has its manifest, or a commit is about to write it.
WritesManifest(s, a) == pc[s] \in {"create", "write"} /\ UploadArtifact(s) = a
FilesDescribed ==
    \A p \in Path :
        committed[p] # Absent =>
            manifests[p.id] \in Manifest \/ \E s \in Server : WritesManifest(s, p.id)

DInv == FilesDescribed /\ \A s \in Server : DeployableAt(s)

\* The faults under which it holds: manifests are written, nothing dies.
Uncut == ManifestsWork /\ "crash" \notin Fault

\* An artifact in the hands of a commit is that of its client's run.
LEMMA CommitsOwn ==
    ASSUME CInv, NEW s \in Server, up[s] # Absent
    PROVE  /\ step[s] # "off" /\ UploadArtifact(s) = RunArtifact(s) /\ Opened(s)
           /\ RunArtifact(s) \in ArtifactId
           /\ UploadPath(s) \in Path /\ UploadPath(s).id = RunArtifact(s)
           /\ ManifestOf(up[s].session) \in Manifest
<1>1. step[s] # "off" /\ OfRun(s, up[s].session)
  BY DEF CInv, ClientAt, OwnAt
<1>2. /\ up[s] \in Upload /\ UploadPath(s) \in Path /\ UploadArtifact(s) \in ArtifactId
      /\ UploadPath(s).id = UploadArtifact(s)
  BY CommitTypes DEF CInv, IInv
<1>3. UploadArtifact(s) = RunArtifact(s)
  BY <1>1 DEF OfRun, UploadArtifact, RunArtifact
<1>4. ManifestOf(up[s].session) \in Manifest
  BY <1>2 DEF ManifestOf, Manifest, Upload, Session
<1> QED BY <1>1, <1>2, <1>3, <1>4 DEF OfRun

\* No other connection touches the manifest a client relies on.
LEMMA ManifestOfOthers ==
    ASSUME CInv, OneClientPerArtifact, NEW s \in Server, Act(s), NEW t \in Server \ {s},
           step[t] # "off"
    PROVE  manifests'[RunArtifact(t)] = manifests[RunArtifact(t)]
<1>1. TypeOK /\ HandlerState /\ [StoreNext]_vars
  BY ActIsStoreStep DEF CInv, IInv, StoreNext
<1>2. ASSUME NEW x \in Server,
             \/ CommitManifestOpen(x) \/ CommitManifestWrite(x)
             \/ CommitManifestCloseFail(x) \/ CommitManifestWriteFail(x)
      PROVE  manifests'[RunArtifact(t)] = manifests[RunArtifact(t)]
  <2>1. pc[x] \in {"create", "write"} /\ up[x] # Absent /\ pc'[x] # pc[x]
    BY <1>1, <1>2
       DEF CommitManifestOpen, CommitManifestWrite, CommitManifestCloseFail,
           CommitManifestWriteFail, HandlerState, Goto, Return, TypeOK
  <2>2. x # t
    BY <1>1, <2>1, ActIsStoreStep, OthersUntouched DEF vars
  <2>3. UploadArtifact(x) # RunArtifact(t)
    BY <2>1, <2>2, CommitsOwn DEF OneClientPerArtifact
  <2>4. \E m : manifests' = [manifests EXCEPT ![UploadArtifact(x)] = m]
    BY <1>2 DEF CommitManifestOpen, CommitManifestWrite, CommitManifestCloseFail,
                CommitManifestWriteFail
  <2> QED BY <1>1, <2>3, <2>4 DEF TypeOK
<1> QED BY <1>1, <1>2, ManifestsChange

\* The file a deploy is about to look for stays.
LEMMA FileToDeploy ==
    ASSUME IInv, NoUndo, [StoreNext]_vars, NEW s \in Server, pc[s] = "stat",
           committed[DeployPath(s)] # Absent
    PROVE  committed'[DeployPath(s)] # Absent
<1>1. dep[s] \in Deployment
  BY DEF IInv, HandlerState, TypeOK
<1>2. DeployPath(s) \in Path
  BY <1>1 DEF Deployment, Manifest, Name, DeployPath, Path
<1> QED BY <1>2, CommittedKept

LEMMA OthersDeployable ==
    ASSUME CInv, Kept, OneClientPerArtifact, NEW s \in Server, Act(s),
           NEW t \in Server \ {s}, DeployableAt(t)
    PROVE  DeployableAt(t)'
<1>1. step'[t] = step[t] /\ run'[t] = run[t]
  BY ClientTypesStep
<1>2. /\ pc'[t] = pc[t] /\ up'[t] = up[t] /\ dep'[t] = dep[t] /\ reply'[t] = reply[t]
  BY ActIsStoreStep, OthersUntouched DEF CInv, IInv, vars
<1>3. HandlerOf(t)'
  BY <1>1, <1>2 DEF DeployableAt, HandlerOf
<1>4. ToldAt(t)'
  <2>1. RunArtifact(t)' = RunArtifact(t)
    BY <1>1 DEF RunArtifact
  <2> QED BY <1>1, <1>2, <2>1, ManifestOfOthers DEF DeployableAt, ToldAt
<1>5. HasAt(t)'
  <2>1. pc[t] = "stat" => committed'[DeployPath(t)] # Absent
    BY FileToDeploy, ActIsStoreStep DEF CInv, Kept, StoreNext, DeployableAt, HasAt
  <2>2. pc[t] = "write" => manifests'[UploadArtifact(t)] = Empty
    <3> SUFFICES ASSUME pc[t] = "write" PROVE manifests'[UploadArtifact(t)] = Empty
      OBVIOUS
    <3>1. up[t] # Absent
      BY DEF CInv, IInv, HandlerState
    <3> QED BY <3>1, CommitsOwn, ManifestOfOthers DEF DeployableAt, HasAt
  <2>3. DeployPath(t)' = DeployPath(t) /\ UploadArtifact(t)' = UploadArtifact(t)
    BY <1>2 DEF DeployPath, UploadArtifact
  <2> QED BY <1>1, <1>2, <2>1, <2>2, <2>3 DEF DeployableAt, HasAt
<1> QED BY <1>3, <1>4, <1>5 DEF DeployableAt

\* The steps of a client that leave the store alone.
LEMMA ClientDeployable ==
    ASSUME CInv, NEW s \in Server, UNCHANGED vars,
           Start(s) \/ Unreadable(s) \/ Lose(s) \/ Receive(s), DeployableAt(s)
    PROVE  DeployableAt(s)'
<1>1. ClientAt(s) /\ ClientTypes /\ (step[s] # "off" => run[s] \in Run)
  BY DEF CInv, ClientAt, RunAt
<1> USE DEF ClientTypes, DeployableAt, HandlerOf, ToldAt, HasAt, DeployPath,
            UploadArtifact, vars
<1>2. CASE Start(s)
  <2>1. step'[s] = "begin" /\ pc[s] = "idle"
    BY <1>1, <1>2 DEF Start, ClientAt, OwnAt
  <2> QED BY <2>1
<1>3. CASE Unreadable(s)
  <2>1. step'[s] = "abort" /\ step[s] = "upload"
    BY <1>1, <1>3 DEF Unreadable
  <2> QED BY <2>1
<1>4. CASE Lose(s)
  <2>1. step'[s] = "lost"
    BY <1>1, <1>4 DEF Lose, Then
  <2> QED BY <2>1
<1>5. CASE GotCommit(s)
  <2>1. /\ step'[s] = "deploy" /\ pc[s] = "idle" /\ step[s] = "committing"
        /\ reply[s].kind \in {"committed", "already"} /\ run[s] \in Run
    BY <1>1, <1>5 DEF GotCommit, Answer, Then
  <2>2. PICK a : run'[s] = [run[s] EXCEPT !.id = a]
    BY <1>1, <1>5 DEF GotCommit, Then
  <2>3. run'[s].name = run[s].name /\ run'[s].sha = run[s].sha
    BY <2>1, <2>2 DEF Run
  <2>4. RunArtifact(s)' = RunArtifact(s)
    BY <2>3 DEF RunArtifact
  <2> QED BY <2>1, <2>4
<1>6. CASE GotUpload(s) \/ GotChunk(s) \/ GotDeployed(s) \/ GotError(s)
  <2>1. step'[s] \in {"upload", "done", "failed", "abort"} /\ pc[s] = "idle"
    BY <1>1, <1>6 DEF GotUpload, GotChunk, GotDeployed, GotError, Answer, Then
  <2> QED BY <2>1
<1> QED BY <1>2, <1>3, <1>4, <1>5, <1>6 DEF Receive

\* The requests.  A client that asks for its deploy gets past the look at the
\* manifest: there is one, and only its own profile takes names of its base.
LEMMA RequestDeployable ==
    ASSUME ProfilesApart, CInv, Kept, NEW s \in Server, Request(s), DeployableAt(s)
    PROVE  DeployableAt(s)'
<1>1. ClientAt(s) /\ ClientTypes /\ TypeOK /\ ManifestHasFile
  BY DEF CInv, IInv, Kept
<1> USE DEF ClientTypes, DeployableAt, HandlerOf, ToldAt, HasAt, Sent, Send, Reject,
            Goto, TypeOK
<1>2. CASE SendBegin(s) \/ SendChunk(s) \/ SendAbort(s)
  <2>1. /\ step'[s] \in {"begun", "chunked", "aborting"} /\ pc[s] = "idle"
        /\ UNCHANGED pc
    BY <1>1, <1>2
       DEF SendBegin, BeginAccept, BeginRefuse, SendChunk, ChunkAccept, ChunkRefuse,
           ChunkFail, SendAbort, UploadAbort
  <2> QED BY <2>1
<1>3. CASE SendCommit(s)
  <2>1. step'[s] = "committing" /\ step[s] = "upload"
    BY <1>1, <1>3 DEF SendCommit
  <2>2. \/ pc'[s] = "verify" /\ reply'[s] = NoReply
        \/ pc'[s] = "idle" /\ reply'[s].kind = "rejected"
    BY <1>1, <1>3 DEF SendCommit, CommitTake, CommitRefuse
  <2> QED BY <2>1, <2>2 DEF NoReply
<1>4. CASE SendDeploy(s)
  <2>1. /\ step'[s] = "deploying" /\ step[s] = "deploy" /\ run[s] \in Run
        /\ Opened(s) /\ run[s].id = RunArtifact(s)
    BY <1>1, <1>4 DEF SendDeploy, ClientAt, RunAt, OwnAt, RunArtifact
  <2> DEFINE a == RunArtifact(s)
             m == manifests[a]
  <2>2. /\ m \in Manifest /\ a \in ArtifactId
        /\ run[s].profile \in Profile /\ run[s].name \in Allowed(run[s].profile)
        /\ a.base = run[s].name.base
    BY <2>1, NameAssumption
       DEF Opened, BeginAllowed, RunArtifact, ArtifactIdOf, ArtifactId, Name
  <2>3. /\ m.profile \in Profile /\ m.name \in Allowed(m.profile)
        /\ ArtifactIdOf(m.name, m.sha) = a
    BY <2>2, ManifestPath DEF CInv
  <2>4. m.name.base = run[s].name.base
    BY <2>2, <2>3 DEF ArtifactIdOf
  <2>5. m.profile = run[s].profile
    BY <2>2, <2>3, <2>4 DEF ProfilesApart
  <2>6. DeployLookup(s, run[s].profile, a)
    BY <1>4, <2>1, <2>2, <2>5 DEF SendDeploy, DeployRefuse, DeployAllowed
  <2>7. /\ pc'[s] = "stat" /\ reply'[s] = NoReply /\ UNCHANGED committed
        /\ dep'[s] = [id |-> a, profile |-> run[s].profile, manifest |-> m]
    BY <1>1, <2>6 DEF DeployLookup, files
  <2>8. DeployPath(s)' = PathOf(m.name, m.sha)
    BY <2>3, <2>7 DEF DeployPath, PathOf
  <2>9. committed[PathOf(m.name, m.sha)] # Absent
    BY <1>1, <2>2 DEF ManifestHasFile
  <2> QED BY <2>1, <2>7, <2>8, <2>9 DEF NoReply
<1> QED BY <1>2, <1>3, <1>4 DEF Request

\* A commit that finds its path taken finds a manifest beside it: nobody else
\* is about to write one.
LEMMA FoundDescribed ==
    ASSUME CInv, OneClientPerArtifact, FilesDescribed, NEW s \in Server,
           up[s] # Absent, pc[s] = "verify", committed[UploadPath(s)] # Absent
    PROVE  manifests[RunArtifact(s)] \in Manifest
<1>1. UploadPath(s) \in Path /\ UploadPath(s).id = RunArtifact(s) /\ step[s] # "off"
  BY CommitsOwn
<1>2. ASSUME NEW t \in Server, WritesManifest(t, RunArtifact(s))
      PROVE  FALSE
  <2>1. t # s /\ up[t] # Absent
    BY <1>2 DEF WritesManifest, CInv, IInv, HandlerState
  <2> QED BY <1>1, <1>2, <2>1, CommitsOwn DEF WritesManifest, OneClientPerArtifact
<1> QED BY <1>1, <1>2 DEF FilesDescribed

\* The rest of a handler.
LEMMA ServeDeployable ==
    ASSUME Uncut, CInv, Kept, OneClientPerArtifact, FilesDescribed,
           NEW s \in Server, ServerStep(s), DeployableAt(s)
    PROVE  DeployableAt(s)'
<1>1. ClientAt(s) /\ ClientTypes /\ TypeOK /\ HandlerState /\ NoUndo
  BY DEF CInv, IInv, Kept
<1>2. UNCHANGED <<step, run>> /\ RunArtifact(s)' = RunArtifact(s)
  BY DEF ServerStep, RunArtifact
<1> USE DEF DeployableAt, HandlerOf, ToldAt, HasAt, Send, Reject, Goto, Return, TypeOK
<1>3. CASE CommitStep(s)
  <2>1. /\ pc[s] \in {"verify", "rename", "create", "write"}
        /\ step[s] \in {"committing", "lost"} /\ reply[s] = NoReply /\ up[s] # Absent
    <3>1. pc[s] \in {"verify", "rename", "create", "write", "undo"}
      BY <1>3 DEF CommitStep, CommitUnreadable, CommitDiscard, CommitAlready,
         CommitVerify, CommitRename, CommitRenameFail, CommitManifestOpen,
         CommitManifestOpenFail, CommitManifestWrite, CommitManifestCloseFail,
         CommitManifestWriteFail, CommitUndo
    <3> QED BY <1>1, <3>1 DEF NoUndo, HandlerState
  <2>2. /\ UploadArtifact(s) = RunArtifact(s) /\ RunArtifact(s) \in ArtifactId
        /\ ManifestOf(up[s].session) \in Manifest
    BY <2>1, CommitsOwn
  <2>3. CASE CommitUnreadable(s) \/ CommitDiscard(s) \/ CommitRenameFail(s)
    <3>1. pc'[s] = "idle" /\ reply'[s].kind = "rejected"
      BY <1>1, <2>3 DEF CommitUnreadable, CommitDiscard, CommitRenameFail
    <3> QED BY <1>2, <2>1, <3>1
  <2>4. CASE CommitAlready(s)
    <3>1. /\ pc'[s] = "idle" /\ UNCHANGED manifests
          /\ pc[s] = "verify" /\ committed[UploadPath(s)] # Absent
      BY <1>1, <2>4 DEF CommitAlready
    <3> QED BY <1>2, <2>1, <3>1, FoundDescribed
  <2>5. CASE CommitVerify(s) \/ CommitRename(s)
    <3>1. pc'[s] \in {"rename", "create"} /\ UNCHANGED reply
      BY <1>1, <2>5 DEF CommitVerify, CommitRename
    <3> QED BY <1>2, <2>1, <3>1 DEF NoReply
  <2>6. CASE CommitManifestOpen(s)
    <3>1. /\ pc'[s] = "write" /\ UNCHANGED <<reply, up>>
          /\ manifests' = [manifests EXCEPT ![UploadArtifact(s)] = Empty]
      BY <1>1, <2>6 DEF CommitManifestOpen
    <3>2. UploadArtifact(s)' = UploadArtifact(s)
      BY <3>1 DEF UploadArtifact
    <3> QED BY <1>1, <1>2, <2>1, <2>2, <3>1, <3>2 DEF NoReply
  <2>7. CASE CommitManifestWrite(s)
    <3>1. pc'[s] = "idle" /\ pc[s] = "write"
      BY <1>1, <2>7 DEF CommitManifestWrite
    <3>2. manifests'[RunArtifact(s)] = ManifestOf(up[s].session)
      BY <1>1, <2>2, <2>7, <3>1 DEF CommitManifestWrite, Written
    <3> QED BY <1>2, <2>1, <2>2, <3>1, <3>2
  <2>8. ~CommitManifestOpenFail(s) /\ ~CommitManifestCloseFail(s)
        /\ ~CommitManifestWriteFail(s) /\ ~CommitUndo(s)
    BY <2>1 DEF Uncut, ManifestsWork, CommitManifestOpenFail, CommitManifestCloseFail,
       CommitManifestWriteFail, CommitUndo
  <2> QED BY <1>3, <2>3, <2>4, <2>5, <2>6, <2>7, <2>8 DEF CommitStep
<1>4. CASE DeployStep(s)
  <2>1. pc[s] \in {"stat", "exec"} /\ reply[s] = NoReply /\ UNCHANGED <<manifests, up>>
    BY <1>4 DEF DeployStep, DeployStat, DeployMissing, DeployExec, files
  <2>2. \/ pc'[s] = "exec" /\ reply'[s] = NoReply
        \/ pc'[s] = "idle" /\ reply'[s].kind \in {"deployed", "failed"}
    BY <1>1, <1>4, <2>1 DEF DeployStep, DeployStat, DeployMissing, DeployExec, EndDeploy
  <2> QED BY <1>2, <2>1, <2>2 DEF NoReply
<1> QED BY <1>3, <1>4 DEF ServerStep, Continue

\* Committed files stay described: by the manifest, or by the commit that is
\* about to write it, which nothing but that write ends.
LEMMA DescribedStep ==
    ASSUME Uncut, CInv, Kept, FilesDescribed, \A s \in Server : DeployableAt(s),
           NEW s \in Server, Act(s)
    PROVE  FilesDescribed'
<1>1. TypeOK /\ HandlerState /\ NoUndo /\ [StoreNext]_vars
  BY ActIsStoreStep DEF CInv, IInv, Kept, StoreNext
<1>2. ASSUME NEW t \in Server, pc[t] \in {"create", "write"}
      PROVE  \/ pc'[t] \in {"create", "write"} /\ UploadArtifact(t)' = UploadArtifact(t)
             \/ CommitManifestWrite(t)
  <2>1. CASE t # s
    <3>1. pc'[t] = pc[t] /\ up'[t] = up[t]
      BY <1>1, <2>1, ActIsStoreStep, OthersUntouched DEF vars
    <3> QED BY <1>2, <3>1 DEF UploadArtifact
  <2>2. CASE t = s
    <3>1. ~Crash(s) /\ ~Disconnect(s)
      BY <1>2, <2>2 DEF Uncut, Crash, Disconnect
    <3>2. CASE UNCHANGED vars
      BY <1>2, <3>2 DEF vars, UploadArtifact
    <3>3. CASE Serve(s)
      <4>1. CASE CommitStep(s)
        BY <1>1, <1>2, <2>2, <4>1
           DEF CommitStep, CommitUnreadable, CommitDiscard, CommitAlready,
               CommitVerify, CommitRename, CommitRenameFail, CommitManifestOpen,
               CommitManifestOpenFail, CommitManifestCloseFail,
               CommitManifestWriteFail, CommitUndo, Uncut, ManifestsWork, Goto,
               UploadArtifact, TypeOK
      <4>2. pc[s] \notin {"idle", "stat", "exec"}
        BY <1>2, <2>2
      <4> QED
        BY <3>3, <4>1, <4>2
           DEF Serve, Continue, AnyBegin, BeginAccept, Refused, AnyChunk, ChunkAccept,
               ChunkFail, Commit, CommitTake, CommitRefuse, Abort, UploadAbort, Deploy,
               DeployLookup, DeployRefuse, DeployStep, DeployStat, DeployMissing,
               DeployExec
    <3> QED BY <3>1, <3>2, <3>3, ActServes
  <2> QED BY <2>1, <2>2
<1>3. ASSUME NEW t \in Server, CommitManifestWrite(t)
      PROVE  manifests'[UploadArtifact(t)] \in Manifest
  <2>1. pc[t] = "write" /\ up[t] # Absent
    BY <1>1, <1>3 DEF CommitManifestWrite, HandlerState
  <2>2. /\ UploadArtifact(t) \in ArtifactId /\ ManifestOf(up[t].session) \in Manifest
        /\ manifests[UploadArtifact(t)] = Empty
    BY <2>1, CommitsOwn DEF DeployableAt, HasAt
  <2> QED BY <1>1, <1>3, <2>2 DEF CommitManifestWrite, Written, TypeOK
<1>4. ASSUME NEW a \in ArtifactId, manifests[a] \in Manifest
      PROVE  manifests'[a] \in Manifest \/ \E t \in Server : WritesManifest(t, a)'
  <2>1. ASSUME NEW t \in Server, CommitManifestOpen(t)
        PROVE  manifests'[a] \in Manifest \/ WritesManifest(t, a)'
    <3>1. /\ manifests' = [manifests EXCEPT ![UploadArtifact(t)] = Empty]
          /\ pc'[t] = "write" /\ UploadArtifact(t)' = UploadArtifact(t)
      BY <1>1, <2>1 DEF CommitManifestOpen, Goto, UploadArtifact, TypeOK
    <3> QED BY <1>1, <1>4, <3>1 DEF TypeOK, WritesManifest
  <2>2. ASSUME NEW t \in Server, CommitManifestWrite(t)
        PROVE  manifests'[a] \in Manifest
    <3>1. PICK m : manifests' = [manifests EXCEPT ![UploadArtifact(t)] = m]
      BY <2>2 DEF CommitManifestWrite
    <3>2. CASE a = UploadArtifact(t)
      BY <1>3, <2>2, <3>2
    <3>3. CASE a # UploadArtifact(t)
      BY <1>1, <1>4, <3>1, <3>3 DEF TypeOK
    <3> QED BY <3>2, <3>3
  <2>3. \A t \in Server : ~CommitManifestCloseFail(t) /\ ~CommitManifestWriteFail(t)
    BY DEF Uncut, ManifestsWork, CommitManifestCloseFail, CommitManifestWriteFail
  <2> QED BY <1>1, <1>4, <2>1, <2>2, <2>3, ManifestsChange
<1> SUFFICES ASSUME NEW p \in Path, committed'[p] # Absent
             PROVE  manifests'[p.id] \in Manifest
                    \/ \E t \in Server : WritesManifest(t, p.id)'
  BY DEF FilesDescribed
<1>5. p.id \in ArtifactId
  BY DEF Path
<1>6. CASE committed[p] # Absent /\ manifests[p.id] \in Manifest
  BY <1>4, <1>5, <1>6
<1>7. ASSUME NEW t \in Server, WritesManifest(t, p.id)
      PROVE  manifests'[p.id] \in Manifest \/ WritesManifest(t, p.id)'
  BY <1>2, <1>3, <1>7 DEF WritesManifest
<1>8. CASE committed[p] = Absent
  <2>1. PICK t \in Server : CommitRename(t)
    BY <1>1, <1>8, CommittedChange DEF NoUndo, CommitUndo
  <2>2. pc[t] = "rename" /\ up[t] # Absent
    BY <1>1, <2>1 DEF CommitRename, HandlerState
  <2>3. p = UploadPath(t) /\ p.id = UploadArtifact(t)
    BY <1>1, <1>8, <2>1, <2>2, CommitTypes DEF CommitRename, TypeOK
  <2>4. pc'[t] = "create" /\ UploadArtifact(t)' = UploadArtifact(t)
    BY <1>1, <2>1 DEF CommitRename, Goto, UploadArtifact, TypeOK
  <2> QED BY <2>3, <2>4 DEF WritesManifest
<1> QED BY <1>6, <1>7, <1>8 DEF FilesDescribed

LEMMA DInvStep ==
    /\ Uncut /\ ProfilesApart
    /\ CInv /\ Kept /\ DInv /\ OneClientPerArtifact /\ [ClientNext]_cvars
    => DInv'
<1> SUFFICES ASSUME Uncut, ProfilesApart, CInv, Kept, DInv, OneClientPerArtifact,
                    [ClientNext]_cvars
             PROVE  DInv'
  OBVIOUS
<1>1. ASSUME NEW s \in Server, Act(s)
      PROVE  DInv'
  <2>1. FilesDescribed /\ \A t \in Server : DeployableAt(t)
    BY DEF DInv
  <2>2. DeployableAt(s)'
    <3>1. CASE Request(s)
      BY <2>1, <3>1, RequestDeployable
    <3>2. CASE ServerStep(s)
      BY <2>1, <3>2, ServeDeployable
    <3>3. CASE Start(s) \/ Unreadable(s) \/ Lose(s) \/ Receive(s)
      <4>1. UNCHANGED vars
        BY <3>3 DEF Start, Unreadable, Lose, Receive, GotUpload, GotChunk, GotCommit,
                    GotDeployed, GotError, Answer
      <4> QED BY <2>1, <3>3, <4>1, ClientDeployable
    <3>4. CASE Disconnect(s)
      <4>1. pc'[s] = "idle" /\ step'[s] = "off"
        BY <3>4 DEF Disconnect, Restart, Goto, Then, CInv, IInv, TypeOK, ClientTypes
      <4> QED BY <4>1 DEF DeployableAt, HandlerOf, ToldAt, HasAt
    <3>5. ~Crash(s)
      BY DEF Uncut, Crash
    <3> QED BY <1>1, <3>1, <3>2, <3>3, <3>4, <3>5 DEF Act, Progress
  <2>3. \A t \in Server \ {s} : DeployableAt(t)'
    BY <1>1, <2>1, OthersDeployable
  <2>4. FilesDescribed'
    BY <1>1, <2>1, DescribedStep
  <2> QED BY <2>2, <2>3, <2>4 DEF DInv
<1>2. CASE UNCHANGED cvars
  BY <1>2 DEF cvars, vars, DInv, FilesDescribed, WritesManifest, DeployableAt, HandlerOf,
     ToldAt, HasAt, RunArtifact, UploadArtifact, DeployPath
<1> QED BY <1>1, <1>2 DEF ClientNext, Act

LEMMA DInvInit == ClientInit => DInv
BY AbsentAssumption
   DEF ClientInit, Init, DInv, FilesDescribed, DeployableAt, HandlerOf, ToldAt, HasAt, NoReply

\* Who was told that its artifact is committed is not refused the deploy: of any
\* number of clients, in any order, with lost connections and failing system
\* calls, as long as manifests can be written, no process dies in a commit,
\* profiles share no base, and no two open connections are for one artifact.
THEOREM ToldCanDeploy ==
    ASSUME Uncut, ProfilesApart
    PROVE  ClientSpec /\ []OneClientPerArtifact => []CommittedIsDeployable
<1>1. CInv /\ Kept /\ [ClientNext]_cvars => Kept'
  BY KeptStep, ClientIsStoreNext DEF CInv, Uncut
<1>2. ClientInit => Kept
  BY KeptInit DEF ClientInit
<1>3. CInv /\ Kept /\ DInv /\ OneClientPerArtifact /\ [ClientNext]_cvars => DInv'
  BY DInvStep
<1>4. DInv => CommittedIsDeployable
  BY DEF DInv, DeployableAt, HasAt, CommittedIsDeployable
<1> QED BY <1>1, <1>2, <1>3, <1>4, DInvInit, ClientInvariance, PTL DEF ClientSpec

\* In particular of clients that come one after the other.
THEOREM OneAfterTheOther ==
    ASSUME Uncut, ProfilesApart, \A s, t \in Server : s = t
    PROVE  ClientSpec => []CommittedIsDeployable
<1>1. OneClientPerArtifact
  BY DEF OneClientPerArtifact
<1> QED BY <1>1, ToldCanDeploy, PTL
=============================================================================
