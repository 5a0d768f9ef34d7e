------------------------ MODULE ArtifactStoreProofs ------------------------
(***************************************************************************)
(* Safety of ArtifactStore for every set of processes, uploads, profiles   *)
(* and names, and for every choice of faults.                              *)
(***************************************************************************)
EXTENDS ArtifactStoreRefinement, SequenceTheorems, TLAPS

----------------------------------------------------------------------------
(* The inductive invariant *)

\* Sessions, in the map or taken by a commit, passed the checks of begin.
SessionsAllowed ==
    /\ \A s \in Server, u \in UploadId :
          HasSession(s, u) =>
              sessions[s][u].name \in Allowed(sessions[s][u].profile)
    /\ \A s \in Server :
          up[s] # Absent =>
              up[s].session.name \in Allowed(up[s].session.profile)

\* A handler has what its remaining steps work on.
HandlerState ==
    \A s \in Server :
        /\ pc[s] \in {"verify", "rename", "create", "write", "undo"}
              => up[s] # Absent
        /\ pc[s] \in {"stat", "exec"} => dep[s] # Absent

\* Between the digest check and the rename nobody touches the file.
Verified ==
    \A s \in Server :
        pc[s] = "rename" =>
            Digest(uploads[up[s].id]) = up[s].session.sha

\* A manifest is filed under the id of the artifact it describes.
FiledUnder(a, m) == ArtifactIdOf(m.name, m.sha) = a /\ m.name \in Allowed(m.profile)

ManifestsFiled ==
    /\ \A a \in ArtifactId : manifests[a] \in Manifest => FiledUnder(a, manifests[a])
    /\ \A s \in Server :
          pc[s] \in {"stat", "exec"} =>
              /\ FiledUnder(dep[s].id, dep[s].manifest)
              /\ dep[s].manifest.profile = dep[s].profile

IInv ==
    /\ TypeOK
    /\ HandlerState
    /\ OneOwner
    /\ SessionsAllowed
    /\ Verified
    /\ ContentAddressed
    /\ ManifestsFiled

----------------------------------------------------------------------------
(* Steps *)

\* What a client may ask for is not bounded here: any size, data and offset.
Refused(s) ==
    /\ pc[s] = "idle"
    /\ Reject(s)
    /\ UNCHANGED <<files, sessions, pc, up, dep>>

AnyBegin(s) ==
    \/ \E p \in Profile, n \in Name, size \in Int, sha \in Sha, u \in UploadId :
          BeginAccept(s, p, n, size, sha, u)
    \/ Refused(s)

AnyChunk(s) ==
    \/ \E u \in UploadId, offset \in Nat, data \in Content :
          ChunkAccept(s, u, offset, data) \/ ChunkFail(s, u, offset, data)
    \/ Refused(s)

StoreStep(s) ==
    \/ AnyBegin(s) \/ AnyChunk(s) \/ Commit(s) \/ Abort(s) \/ Deploy(s)
    \/ Continue(s)
    \/ Restart(s)

StoreNext == \E s \in Server : StoreStep(s)

\* The store's own steps are among them.
LEMMA NextIsStoreNext == [Next]_vars => [StoreNext]_vars
<1> SUFFICES ASSUME NEW s \in Server, Begin(s) \/ Chunk(s)
             PROVE  AnyBegin(s) \/ AnyChunk(s)
  BY DEF Next, StoreNext, StoreStep
<1>1. CASE Begin(s)
  BY <1>1, BoundAssumption DEF Begin, AnyBegin, BeginRefuse, Refused
<1>2. CASE Chunk(s)
  <2>1. 0..MaxUpload \subseteq Nat /\ DataArg \subseteq Content
    BY BoundAssumption
  <2> QED BY <1>2, <2>1 DEF Chunk, AnyChunk, ChunkRefuse, Refused
<1> QED BY <1>1, <1>2

\* committed/ changes by a rename and by an undo only.
LEMMA CommittedChange ==
    [StoreNext]_vars =>
        \/ UNCHANGED committed
        \/ \E s \in Server : CommitRename(s) \/ CommitUndo(s)
<1> SUFFICES ASSUME [StoreNext]_vars,
                    ~(\E s \in Server : CommitRename(s) \/ CommitUndo(s))
             PROVE  UNCHANGED committed
  OBVIOUS
<1>1. ASSUME NEW s \in Server,
             \/ AnyBegin(s) \/ AnyChunk(s) \/ Commit(s) \/ Abort(s) \/ Deploy(s)
             \/ DeployStep(s) \/ Restart(s)
      PROVE  UNCHANGED committed
  BY <1>1 DEF AnyBegin, BeginAccept, Refused, AnyChunk, ChunkAccept, ChunkFail,
              Commit, CommitTake, CommitRefuse, Abort, UploadAbort,
              Deploy, DeployLookup, DeployRefuse, DeployStep, DeployStat,
              DeployMissing, DeployExec, Restart, files
<1>2. ASSUME NEW s \in Server, CommitStep(s)
      PROVE  UNCHANGED committed
  BY <1>2 DEF CommitStep, CommitUnreadable, CommitDiscard, CommitAlready,
              CommitVerify, CommitRenameFail, CommitManifestOpen,
              CommitManifestOpenFail, CommitManifestWrite,
              CommitManifestCloseFail, CommitManifestWriteFail, files
<1> QED BY <1>1, <1>2 DEF StoreNext, StoreStep, Continue, vars

\* Manifests change by the calls of ioutil.WriteFile only.
LEMMA ManifestsChange ==
    [StoreNext]_vars =>
        \/ UNCHANGED manifests
        \/ \E s \in Server :
              \/ CommitManifestOpen(s) \/ CommitManifestWrite(s)
              \/ CommitManifestCloseFail(s) \/ CommitManifestWriteFail(s)
<1> SUFFICES ASSUME [StoreNext]_vars,
                    ~(\E s \in Server :
                        \/ CommitManifestOpen(s) \/ CommitManifestWrite(s)
                        \/ CommitManifestCloseFail(s) \/ CommitManifestWriteFail(s))
             PROVE  UNCHANGED manifests
  OBVIOUS
<1>1. ASSUME NEW s \in Server,
             \/ AnyBegin(s) \/ AnyChunk(s) \/ Commit(s) \/ Abort(s) \/ Deploy(s)
             \/ DeployStep(s) \/ Restart(s)
      PROVE  UNCHANGED manifests
  BY <1>1 DEF AnyBegin, BeginAccept, Refused, AnyChunk, ChunkAccept, ChunkFail,
              Commit, CommitTake, CommitRefuse, Abort, UploadAbort,
              Deploy, DeployLookup, DeployRefuse, DeployStep, DeployStat,
              DeployMissing, DeployExec, Restart, files
<1>2. ASSUME NEW s \in Server, CommitStep(s)
      PROVE  UNCHANGED manifests
  BY <1>2 DEF CommitStep, CommitUnreadable, CommitDiscard, CommitAlready,
              CommitVerify, CommitRename, CommitRenameFail,
              CommitManifestOpenFail, CommitUndo, files
<1> QED BY <1>1, <1>2 DEF StoreNext, StoreStep, Continue, vars

----------------------------------------------------------------------------
(* Types *)

\* What an upload file can hold, and that it is never the missing file.
LEMMA ContentFacts ==
    /\ <<>> \in Content
    /\ \A c, d \in Content : c \o d \in Content
    /\ \A c \in Content, k \in Nat : k =< Len(c) => SubSeq(c, 1, k) \in Content
    /\ \A c \in Content : Len(c) \in Nat
    /\ \A c \in Content : c # Absent
<1>1. \A c \in Content : c # Absent
  BY AbsentAssumption
<1> QED
  BY <1>1 DEF Content

\* Every value of every variable stays in its domain.
LEMMA TypeInit == Init => TypeOK
BY DEF Init, TypeOK, NoReply, ReplyKind

\* Advancing a session keeps it a session.
LEMMA AdvanceType ==
    ASSUME NEW x \in Session, NEW n \in Nat
    PROVE  Advance(x, n) \in Session
<1>1. x.received \in Nat
  BY DEF Session
<1>2. x.received + n \in Nat
  BY <1>1
<1>3. \A k \in Nat : [x EXCEPT !.received = k] \in Session
  BY DEF Session
<1> QED
  BY <1>2, <1>3 DEF Advance

LEMMA TypeStep == TypeOK /\ HandlerState /\ OneOwner /\ [StoreNext]_vars => TypeOK'
<1> SUFFICES ASSUME TypeOK, HandlerState, OneOwner, [StoreNext]_vars
             PROVE  TypeOK'
  OBVIOUS
<1> USE DEF TypeOK, Goto, Send, Reject, Return, EndDeploy, ReplyKind, files
<1>1. ASSUME NEW s \in Server, NEW p \in Profile, NEW n \in Name,
             NEW size \in Int, NEW sha \in Sha, NEW u \in UploadId,
             BeginAccept(s, p, n, size, sha, u)
      PROVE  TypeOK'
  <2>1. <<>> \in Content
    BY DEF Content
  <2>2. [profile |-> p, name |-> n, size |-> size, sha |-> sha, received |-> 0]
          \in Session
    BY <1>1, BoundAssumption DEF BeginAccept, BeginAllowed, Session
  <2> QED
    BY <1>1, <2>1, <2>2 DEF BeginAccept
<1>2. ASSUME NEW s \in Server, Refused(s)
      PROVE  TypeOK'
  BY <1>2 DEF Refused
<1>3. ASSUME NEW s \in Server, NEW u \in UploadId, NEW offset \in Nat,
             NEW data \in Content, ChunkAccept(s, u, offset, data)
      PROVE  TypeOK'
  <2>1. data \in Content /\ uploads[u] \in Content
    BY <1>3, BoundAssumption DEF ChunkAccept, ChunkAllowed, OneOwner, HasSession
  <2>2. uploads[u] \o data \in Content
    BY <2>1 DEF Content
  <2>3. Len(data) \in Nat
    BY <2>1 DEF Content
  <2>4. sessions[s][u] \in Session
    BY <1>3 DEF ChunkAccept, ChunkAllowed
  <2>5. Advance(sessions[s][u], Len(data)) \in Session
    BY <2>3, <2>4, AdvanceType
  <2> QED
    BY <1>3, <2>2, <2>5 DEF ChunkAccept
<1>4. ASSUME NEW s \in Server, NEW u \in UploadId, NEW offset \in Nat,
             NEW data \in Content, ChunkFail(s, u, offset, data)
      PROVE  TypeOK'
  <2>1. PICK k \in 0..Len(data) :
           uploads' = [uploads EXCEPT ![u] = @ \o SubSeq(data, 1, k)]
    BY <1>4 DEF ChunkFail
  <2>2. data \in Content /\ uploads[u] \in Content
    BY <1>4, BoundAssumption DEF ChunkFail, ChunkAllowed, OneOwner, HasSession
  <2>3. SubSeq(data, 1, k) \in Content
    BY <2>2 DEF Content
  <2>4. uploads[u] \o SubSeq(data, 1, k) \in Content
    BY <2>2, <2>3 DEF Content
  <2> QED
    BY <1>4, <2>1, <2>4 DEF ChunkFail
<1>5. ASSUME NEW s \in Server, NEW u \in UploadId, CommitRefuse(s, u)
      PROVE  TypeOK'
  BY <1>5 DEF CommitRefuse
<1>6. ASSUME NEW s \in Server, NEW u \in UploadId, CommitTake(s, u)
      PROVE  TypeOK'
  <2>1. [id |-> u, session |-> sessions[s][u]] \in Upload
    BY <1>6 DEF CommitTake, CommitAllowed, Upload
  <2> QED
    BY <1>6, <2>1 DEF CommitTake, NoReply
<1>7. ASSUME NEW s \in Server, CommitStep(s)
      PROVE  TypeOK'
  <2> USE DEF HandlerState
  <2>1. CASE CommitUnreadable(s)
    BY <2>1 DEF CommitUnreadable
  <2>2. CASE CommitDiscard(s)
    BY <2>2 DEF CommitDiscard, Remove, Upload
  <2>3. CASE CommitAlready(s)
    <3>1. UploadArtifact(s) \in ArtifactId
      BY <2>3 DEF CommitAlready, UploadArtifact, ArtifactIdOf, ArtifactId,
                  Upload, Session, Name
    <3> QED
      BY <2>3, <3>1 DEF CommitAlready, Remove, Upload
  <2>4. CASE CommitVerify(s)
    BY <2>4 DEF CommitVerify
  <2>5. CASE CommitRename(s)
    <3>1. up[s] \in Upload
      BY <2>5 DEF CommitRename
    <3>2. InHand(s, up[s].id) /\ up[s].id \in UploadId
      BY <2>5, <3>1 DEF CommitRename, InHand, Upload
    <3>3. uploads[up[s].id] \in Content
      BY <3>2 DEF OneOwner
    <3> QED
      BY <2>5, <3>3 DEF CommitRename
  <2>6. CASE CommitRenameFail(s)
    BY <2>6 DEF CommitRenameFail
  <2>7. CASE CommitManifestOpen(s)
    BY <2>7 DEF CommitManifestOpen
  <2>8. CASE CommitManifestOpenFail(s)
    BY <2>8 DEF CommitManifestOpenFail
  <2>9. CASE CommitManifestWrite(s)
    <3>1. up[s] \in Upload
      BY <2>9 DEF CommitManifestWrite
    <3>2. ManifestOf(up[s].session) \in Manifest
      BY <3>1 DEF ManifestOf, Manifest, Upload, Session
    <3>3. UploadArtifact(s) \in ArtifactId
      BY <3>1 DEF UploadArtifact, ArtifactIdOf, ArtifactId, Upload, Session, Name
    <3> QED
      BY <2>9, <3>2, <3>3 DEF CommitManifestWrite, Written
  <2>10. CASE CommitManifestWriteFail(s)
    <3>1. UploadArtifact(s) \in ArtifactId
      BY <2>10 DEF CommitManifestWriteFail, UploadArtifact, ArtifactIdOf,
                   ArtifactId, Upload, Session, Name
    <3> QED
      BY <2>10, <3>1 DEF CommitManifestWriteFail
  <2>11. CASE CommitUndo(s)
    BY <2>11 DEF CommitUndo, Remove
  <2>12. CASE CommitManifestCloseFail(s)
    <3>1. up[s] \in Upload
      BY <2>12 DEF CommitManifestCloseFail
    <3>2. ManifestOf(up[s].session) \in Manifest
      BY <3>1 DEF ManifestOf, Manifest, Upload, Session
    <3>3. UploadArtifact(s) \in ArtifactId
      BY <3>1 DEF UploadArtifact, ArtifactIdOf, ArtifactId, Upload, Session, Name
    <3> QED
      BY <2>12, <3>2, <3>3 DEF CommitManifestCloseFail, Written
  <2> QED
    BY <1>7, <2>1, <2>2, <2>3, <2>4, <2>5, <2>6, <2>7, <2>8, <2>9, <2>10,
       <2>11, <2>12
       DEF CommitStep
<1>8. ASSUME NEW s \in Server, NEW u \in UploadId, UploadAbort(s, u)
      PROVE  TypeOK'
  BY <1>8 DEF UploadAbort, Remove
<1>9. ASSUME NEW s \in Server, NEW p \in Profile, NEW a \in ArtifactId,
              DeployLookup(s, p, a)
       PROVE  TypeOK'
  <2>1. [id |-> a, profile |-> p, manifest |-> manifests[a]] \in Deployment
    BY <1>9 DEF DeployLookup, DeployAllowed, Deployment
  <2> QED
    BY <1>9, <2>1 DEF DeployLookup, NoReply
<1>10. ASSUME NEW s \in Server, NEW p \in Profile, NEW a \in ArtifactId,
              DeployRefuse(s, p, a)
       PROVE  TypeOK'
  BY <1>10 DEF DeployRefuse
<1>11. ASSUME NEW s \in Server, DeployStep(s)
       PROVE  TypeOK'
  <2>1. dep[s].id \in ArtifactId
    BY <1>11 DEF DeployStep, DeployStat, DeployMissing, DeployExec,
                 HandlerState, Deployment
  <2>2. CASE DeployStat(s)
    BY <2>2 DEF DeployStat
  <2>3. CASE DeployMissing(s)
    BY <2>3 DEF DeployMissing
  <2>4. CASE DeployExec(s)
    <3>1. reply' \in [Server -> [kind : ReplyKind,
                                id : UploadId \cup ArtifactId \cup {Absent}]]
      BY <2>1, <2>4 DEF DeployExec
    <3> QED
      BY <2>4, <3>1 DEF DeployExec
  <2> QED
    BY <1>11, <2>2, <2>3, <2>4 DEF DeployStep
<1>12. ASSUME NEW s \in Server, Restart(s)
       PROVE  TypeOK'
  BY <1>12 DEF Restart, NoReply
<1>13. CASE UNCHANGED vars
  BY <1>13 DEF vars
<1> QED
  BY <1>1, <1>2, <1>3, <1>4, <1>5, <1>6, <1>7, <1>8, <1>9, <1>10, <1>11,
     <1>12, <1>13
     DEF StoreNext, StoreStep, AnyBegin, AnyChunk, Commit, Abort, Deploy, Continue

----------------------------------------------------------------------------
(* Control state and ownership *)

LEMMA HandlerStep == TypeOK /\ HandlerState /\ [StoreNext]_vars => HandlerState'
<1> SUFFICES ASSUME TypeOK, HandlerState, [StoreNext]_vars
             PROVE  HandlerState'
  OBVIOUS
<1> USE DEF HandlerState, TypeOK, Goto, Return, EndDeploy
<1>1. ASSUME NEW s \in Server, AnyBegin(s) \/ AnyChunk(s) \/ Abort(s)
      PROVE  HandlerState'
  BY <1>1 DEF AnyBegin, BeginAccept, Refused, AnyChunk, ChunkAccept, ChunkFail,
              Abort, UploadAbort
<1>2. ASSUME NEW s \in Server, Commit(s)
      PROVE  HandlerState'
  <2>1. ASSUME NEW u \in UploadId, CommitTake(s, u)
        PROVE  HandlerState'
    <3>1. [id |-> u, session |-> sessions[s][u]] \in Upload
      BY <2>1 DEF CommitTake, CommitAllowed, Upload
    <3> QED
      BY <2>1, <3>1, AbsentAssumption DEF CommitTake
  <2>2. ASSUME NEW u \in UploadId, CommitRefuse(s, u)
        PROVE  HandlerState'
    BY <2>2 DEF CommitRefuse
  <2> QED
    BY <1>2, <2>1, <2>2 DEF Commit
<1>3. ASSUME NEW s \in Server, CommitStep(s)
      PROVE  HandlerState'
  BY <1>3 DEF CommitStep, CommitUnreadable, CommitDiscard, CommitAlready,
              CommitVerify, CommitRename, CommitRenameFail, CommitManifestOpen,
              CommitManifestOpenFail, CommitManifestWrite,
              CommitManifestCloseFail, CommitManifestWriteFail, CommitUndo
<1>4. ASSUME NEW s \in Server, Deploy(s)
      PROVE  HandlerState'
  <2>1. ASSUME NEW p \in Profile, NEW a \in ArtifactId, DeployLookup(s, p, a)
        PROVE  HandlerState'
    <3>1. [id |-> a, profile |-> p, manifest |-> manifests[a]] \in Deployment
      BY <2>1 DEF DeployLookup, DeployAllowed, Deployment
    <3> QED
      BY <2>1, <3>1, AbsentAssumption DEF DeployLookup
  <2>2. ASSUME NEW p \in Profile, NEW a \in ArtifactId, DeployRefuse(s, p, a)
        PROVE  HandlerState'
    BY <2>2 DEF DeployRefuse
  <2> QED
    BY <1>4, <2>1, <2>2 DEF Deploy
<1>5. ASSUME NEW s \in Server, DeployStep(s)
      PROVE  HandlerState'
  BY <1>5 DEF DeployStep, DeployStat, DeployMissing, DeployExec
<1>6. ASSUME NEW s \in Server, Restart(s)
      PROVE  HandlerState'
  BY <1>6 DEF Restart
<1>7. CASE UNCHANGED vars
  BY <1>7 DEF vars
<1> QED
  BY <1>1, <1>2, <1>3, <1>4, <1>5, <1>6, <1>7 DEF StoreNext, StoreStep, Continue

\* A new session is put on a file nobody owns, an owner that lets go is the
\* only one to remove or move the file, and taking a session hands it over.
LEMMA OwnerStep ==
    TypeOK /\ HandlerState /\ OneOwner /\ [StoreNext]_vars => OneOwner'
<1> SUFFICES ASSUME TypeOK, HandlerState, OneOwner, [StoreNext]_vars
             PROVE  OneOwner'
  OBVIOUS
<1> USE DEF TypeOK, HandlerState, OneOwner, HasSession, InHand, Goto, Return,
            EndDeploy, files
<1>1. ASSUME NEW s \in Server, NEW p \in Profile, NEW n \in Name,
             NEW size \in Int, NEW sha \in Sha, NEW u \in UploadId,
             BeginAccept(s, p, n, size, sha, u)
      PROVE  OneOwner'
  <2>1. <<>> # Absent
    BY ContentFacts
  <2>2. \A t \in Server : ~HasSession(t, u) /\ ~InHand(t, u)
    BY <1>1 DEF BeginAccept
  <2> QED
    BY <1>1, <2>1, <2>2 DEF BeginAccept
<1>2. ASSUME NEW s \in Server, Refused(s)
      PROVE  OneOwner'
  BY <1>2 DEF Refused
<1>3. ASSUME NEW s \in Server, NEW u \in UploadId, NEW offset \in Nat,
             NEW data \in Content, ChunkAccept(s, u, offset, data)
      PROVE  OneOwner'
  <2>1. sessions[s][u] # Absent /\ uploads[u] # Absent
    BY <1>3 DEF ChunkAccept, ChunkAllowed
  <2>2. uploads[u] \o data # Absent
    BY <2>1, BoundAssumption, ContentFacts
  <2>3. \A t \in Server, v \in UploadId :
            sessions'[t][v] # Absent => sessions[t][v] # Absent
    BY <1>3, <2>1 DEF ChunkAccept
  <2> QED
    BY <1>3, <2>1, <2>2, <2>3 DEF ChunkAccept
<1>4. ASSUME NEW s \in Server, NEW u \in UploadId, NEW offset \in Nat,
             NEW data \in Content, ChunkFail(s, u, offset, data)
      PROVE  OneOwner'
  <2>1. PICK k \in 0..Len(data) :
           uploads' = [uploads EXCEPT ![u] = @ \o SubSeq(data, 1, k)]
    BY <1>4 DEF ChunkFail
  <2>2. data \in Content /\ uploads[u] \in Content
    BY <1>4, BoundAssumption DEF ChunkFail, ChunkAllowed
  <2>3. SubSeq(data, 1, k) \in Content
    BY <2>2 DEF Content
  <2>4. uploads[u] \o SubSeq(data, 1, k) # Absent
    BY <2>2, <2>3, ContentFacts
  <2> QED
    BY <1>4, <2>1, <2>4 DEF ChunkFail
<1>5. ASSUME NEW s \in Server, NEW u \in UploadId, CommitRefuse(s, u)
      PROVE  OneOwner'
  BY <1>5 DEF CommitRefuse
<1>6. ASSUME NEW s \in Server, NEW u \in UploadId, CommitTake(s, u)
      PROVE  OneOwner'
  <2>1. up'[s].id = u /\ \A t \in Server : t # s => up'[t] = up[t]
    BY <1>6 DEF CommitTake
  <2> QED
    BY <1>6, <2>1 DEF CommitTake, CommitAllowed
<1>7. ASSUME NEW s \in Server, CommitStep(s)
      PROVE  OneOwner'
  <2>1. CASE CommitUnreadable(s)
    BY <2>1 DEF CommitUnreadable
  <2>2. CASE CommitDiscard(s) \/ CommitAlready(s)
    <3>1. /\ pc[s] = "verify" /\ pc' = [pc EXCEPT ![s] = "idle"]
          /\ up' = [up EXCEPT ![s] = Absent]
          /\ sessions' = sessions
          /\ uploads' = uploads \/ uploads' = [uploads EXCEPT ![up[s].id] = Absent]
      BY <2>2 DEF CommitDiscard, CommitAlready, Remove
    <3>2. InHand(s, up[s].id) /\ up[s].id \in UploadId
      BY <3>1 DEF Upload
    <3> QED
      BY <3>1, <3>2
  <2>4. CASE CommitVerify(s)
    BY <2>4 DEF CommitVerify
  <2>5. CASE CommitRename(s)
    <3>1. InHand(s, up[s].id) /\ up[s].id \in UploadId
      BY <2>5 DEF CommitRename, Upload
    <3> QED
      BY <2>5, <3>1 DEF CommitRename
  <2>6. CASE CommitRenameFail(s)
    BY <2>6 DEF CommitRenameFail
  <2>7. CASE \/ CommitManifestOpen(s) \/ CommitManifestOpenFail(s)
             \/ CommitManifestCloseFail(s) \/ CommitManifestWriteFail(s)
    BY <2>7 DEF CommitManifestOpen, CommitManifestOpenFail,
                CommitManifestCloseFail, CommitManifestWriteFail
  <2>8. CASE CommitManifestWrite(s)
    BY <2>8 DEF CommitManifestWrite
  <2>9. CASE CommitUndo(s)
    BY <2>9 DEF CommitUndo
  <2> QED
    BY <1>7, <2>1, <2>2, <2>4, <2>5, <2>6, <2>7, <2>8, <2>9 DEF CommitStep
<1>8. ASSUME NEW s \in Server, NEW u \in UploadId, UploadAbort(s, u)
      PROVE  OneOwner'
  <2>1. CASE sessions[s][u] = Absent
    BY <1>8, <2>1 DEF UploadAbort
  <2>2. CASE sessions[s][u] # Absent
    BY <1>8, <2>2 DEF UploadAbort, Remove
  <2> QED
    BY <2>1, <2>2
<1>9. ASSUME NEW s \in Server, Deploy(s) \/ DeployStep(s)
       PROVE  OneOwner'
  <2>1. /\ UNCHANGED <<uploads, sessions, up>>
        /\ pc[s] \in {"idle", "stat", "exec"}
        /\ \/ UNCHANGED pc
           \/ pc' = [pc EXCEPT ![s] = "stat"]
           \/ pc' = [pc EXCEPT ![s] = "exec"]
           \/ pc' = [pc EXCEPT ![s] = "idle"]
    BY <1>9 DEF Deploy, DeployLookup, DeployRefuse, DeployStep, DeployStat,
                 DeployMissing, DeployExec
  <2> QED
    BY <2>1
<1>10. ASSUME NEW s \in Server, Restart(s)
       PROVE  OneOwner'
  BY <1>10 DEF Restart
<1>11. CASE UNCHANGED vars
  BY <1>11 DEF vars
<1> QED
  BY <1>1, <1>2, <1>3, <1>4, <1>5, <1>6, <1>7, <1>8, <1>9, <1>10, <1>11
     DEF StoreNext, StoreStep, AnyBegin, AnyChunk, Commit, Abort, Deploy, Continue

----------------------------------------------------------------------------
(* What sessions, verified files and manifests say *)

LEMMA SessionsStep ==
    TypeOK /\ HandlerState /\ SessionsAllowed /\ [StoreNext]_vars
        => SessionsAllowed'
<1> SUFFICES ASSUME TypeOK, HandlerState, SessionsAllowed, [StoreNext]_vars
             PROVE  SessionsAllowed'
  OBVIOUS
<1> USE DEF TypeOK, SessionsAllowed, HasSession, Return
<1>1. ASSUME NEW s \in Server, AnyBegin(s)
      PROVE  SessionsAllowed'
  <2>1. ASSUME NEW p \in Profile, NEW n \in Name, NEW size \in Int,
               NEW sha \in Sha, NEW u \in UploadId,
               BeginAccept(s, p, n, size, sha, u)
        PROVE  SessionsAllowed'
    <3>1. n \in Allowed(p)
      BY <2>1 DEF BeginAccept, BeginAllowed
    <3> QED
      BY <2>1, <3>1 DEF BeginAccept
  <2>2. ASSUME Refused(s)
        PROVE  SessionsAllowed'
    BY <2>2 DEF Refused
  <2> QED
    BY <1>1, <2>1, <2>2 DEF AnyBegin
<1>2. ASSUME NEW s \in Server, AnyChunk(s)
      PROVE  SessionsAllowed'
  <2>1. ASSUME NEW u \in UploadId, NEW offset \in Nat, NEW data \in Content,
               ChunkAccept(s, u, offset, data)
        PROVE  SessionsAllowed'
    <3>1. sessions[s][u] \in Session
      BY <2>1 DEF ChunkAccept, ChunkAllowed
    <3>2. /\ Advance(sessions[s][u], Len(data)).name = sessions[s][u].name
          /\ Advance(sessions[s][u], Len(data)).profile = sessions[s][u].profile
      BY <3>1 DEF Advance, Session
    <3>3. sessions[s][u] # Absent
      BY <2>1 DEF ChunkAccept, ChunkAllowed
    <3>4. ASSUME NEW t \in Server, NEW v \in UploadId, HasSession(t, v)'
          PROVE  /\ HasSession(t, v)
                 /\ sessions'[t][v].name = sessions[t][v].name
                 /\ sessions'[t][v].profile = sessions[t][v].profile
      BY <2>1, <3>2, <3>3, <3>4 DEF ChunkAccept
    <3> QED
      BY <2>1, <3>4 DEF ChunkAccept
  <2>2. ASSUME NEW u \in UploadId, NEW offset \in Nat, NEW data \in Content,
               ChunkFail(s, u, offset, data)
        PROVE  SessionsAllowed'
    BY <2>2 DEF ChunkFail
  <2>3. ASSUME Refused(s)
        PROVE  SessionsAllowed'
    BY <2>3 DEF Refused
  <2> QED
    BY <1>2, <2>1, <2>2, <2>3 DEF AnyChunk
<1>3. ASSUME NEW s \in Server, NEW u \in UploadId, CommitTake(s, u)
      PROVE  SessionsAllowed'
  <2>1. up'[s].session = sessions[s][u] /\ HasSession(s, u)
    BY <1>3 DEF CommitTake, CommitAllowed
  <2> QED
    BY <1>3, <2>1 DEF CommitTake
<1>4. ASSUME NEW s \in Server, NEW u \in UploadId,
             CommitRefuse(s, u) \/ UploadAbort(s, u)
      PROVE  SessionsAllowed'
  <2>1. UNCHANGED up
    BY <1>4 DEF CommitRefuse, UploadAbort
  <2>2. ASSUME NEW t \in Server, NEW v \in UploadId, HasSession(t, v)'
        PROVE  sessions[t][v] = sessions'[t][v]
    <3>1. CASE CommitRefuse(s, u)
      BY <3>1 DEF CommitRefuse
    <3>2. CASE UploadAbort(s, u)
      BY <2>2, <3>2 DEF UploadAbort
    <3> QED
      BY <1>4, <3>1, <3>2
  <2> QED
    BY <2>1, <2>2
<1>5. ASSUME NEW s \in Server, CommitStep(s)
      PROVE  SessionsAllowed'
  <2>1. /\ UNCHANGED sessions
        /\ UNCHANGED up \/ up' = [up EXCEPT ![s] = Absent]
    BY <1>5 DEF CommitStep, CommitUnreadable, CommitDiscard, CommitAlready,
                CommitVerify, CommitRename, CommitRenameFail,
                CommitManifestOpen, CommitManifestOpenFail,
                CommitManifestWrite, CommitManifestCloseFail,
                CommitManifestWriteFail, CommitUndo
  <2> QED
    BY <2>1
<1>6. ASSUME NEW s \in Server, Deploy(s) \/ DeployStep(s)
      PROVE  SessionsAllowed'
  <2>1. UNCHANGED <<sessions, up>>
    BY <1>6 DEF Deploy, DeployLookup, DeployRefuse, DeployStep, DeployStat,
                DeployMissing, DeployExec
  <2> QED
    BY <2>1
<1>7. ASSUME NEW s \in Server, Restart(s)
      PROVE  SessionsAllowed'
  BY <1>7 DEF Restart
<1>8. CASE UNCHANGED vars
  BY <1>8 DEF vars
<1> QED
  BY <1>1, <1>2, <1>3, <1>4, <1>5, <1>6, <1>7, <1>8
     DEF StoreNext, StoreStep, Commit, Abort, Continue

\* Only the owner of an upload file changes it, so what one process verified
\* is what it renames.
LEMMA VerifiedStep ==
    TypeOK /\ HandlerState /\ OneOwner /\ Verified /\ [StoreNext]_vars => Verified'
<1> SUFFICES ASSUME TypeOK, HandlerState, OneOwner, Verified, [StoreNext]_vars,
                    NEW t \in Server, pc'[t] = "rename"
             PROVE  Digest(uploads'[up'[t].id]) = up'[t].session.sha
  BY DEF Verified
<1> USE DEF TypeOK, HandlerState, Verified, Goto, Return, EndDeploy, files
<1>0. ASSUME pc[t] = "rename", up'[t] = up[t],
             uploads'[up[t].id] = uploads[up[t].id]
      PROVE  Digest(uploads'[up'[t].id]) = up'[t].session.sha
  BY <1>0
<1>a. ASSUME pc[t] = "rename"
      PROVE  /\ up[t].id \in UploadId
             /\ uploads[up[t].id] # Absent
             /\ \A s \in Server : ~HasSession(s, up[t].id)
             /\ \A s \in Server : s # t => ~InHand(s, up[t].id)
  <2>1. up[t].id \in UploadId /\ InHand(t, up[t].id)
    BY <1>a DEF Upload, InHand
  <2> QED
    BY <2>1 DEF OneOwner
<1>1. ASSUME NEW s \in Server, NEW p \in Profile, NEW n \in Name,
             NEW size \in Int, NEW sha \in Sha, NEW u \in UploadId,
             BeginAccept(s, p, n, size, sha, u)
      PROVE  Digest(uploads'[up'[t].id]) = up'[t].session.sha
  BY <1>0, <1>1, <1>a DEF BeginAccept
<1>2. ASSUME NEW s \in Server, NEW u \in UploadId, NEW offset \in Nat,
             NEW data \in Content,
             ChunkAccept(s, u, offset, data) \/ ChunkFail(s, u, offset, data)
      PROVE  Digest(uploads'[up'[t].id]) = up'[t].session.sha
  <2>1. pc' = pc /\ up' = up /\ HasSession(s, u)
    BY <1>2 DEF ChunkAccept, ChunkFail, ChunkAllowed, HasSession
  <2>2. up[t].id # u
    BY <1>a, <2>1
  <2>3. uploads'[up[t].id] = uploads[up[t].id]
    BY <1>2, <2>2, <1>a, <2>1 DEF ChunkAccept, ChunkFail
  <2> QED
    BY <1>0, <2>1, <2>3
<1>3. ASSUME NEW s \in Server, NEW u \in UploadId, UploadAbort(s, u)
      PROVE  Digest(uploads'[up'[t].id]) = up'[t].session.sha
  <2>1. pc' = pc /\ up' = up
    BY <1>3 DEF UploadAbort
  <2>2. uploads'[up[t].id] = uploads[up[t].id]
    BY <1>3, <1>a, <2>1 DEF UploadAbort, Remove, HasSession
  <2> QED
    BY <1>0, <2>1, <2>2
<1>4. ASSUME NEW s \in Server, NEW u \in UploadId, CommitTake(s, u)
      PROVE  Digest(uploads'[up'[t].id]) = up'[t].session.sha
  BY <1>0, <1>4 DEF CommitTake
<1>5. ASSUME NEW s \in Server, CommitStep(s)
      PROVE  Digest(uploads'[up'[t].id]) = up'[t].session.sha
  <2>1. CASE CommitVerify(s)
    BY <1>0, <2>1 DEF CommitVerify, ShaMatches
  <2>2. CASE \/ CommitDiscard(s) \/ CommitAlready(s) \/ CommitRename(s)
    <3>1. /\ pc[s] \in {"verify", "rename"} /\ pc'[s] # "rename"
          /\ \A r \in Server : r # s => pc'[r] = pc[r] /\ up'[r] = up[r]
          /\ uploads' = uploads \/ uploads' = [uploads EXCEPT ![up[s].id] = Absent]
      BY <2>2 DEF CommitDiscard, CommitAlready, CommitRename, Remove
    <3>2. t # s /\ up[s].id # up[t].id
      BY <3>1, <1>a DEF InHand
    <3> QED
      BY <1>0, <1>a, <3>1, <3>2
  <2>3. CASE \/ CommitUnreadable(s) \/ CommitRenameFail(s)
             \/ CommitManifestOpen(s) \/ CommitManifestOpenFail(s)
             \/ CommitManifestWrite(s) \/ CommitManifestWriteFail(s)
             \/ CommitManifestCloseFail(s) \/ CommitUndo(s)
    <3>1. /\ UNCHANGED uploads /\ pc'[s] # "rename"
          /\ \A r \in Server : r # s => pc'[r] = pc[r] /\ up'[r] = up[r]
      BY <2>3 DEF CommitUnreadable, CommitRenameFail, CommitManifestOpen,
                  CommitManifestOpenFail, CommitManifestWrite,
                  CommitManifestCloseFail, CommitManifestWriteFail, CommitUndo
    <3> QED
      BY <1>0, <3>1
  <2> QED
    BY <1>5, <2>1, <2>2, <2>3 DEF CommitStep
<1>6. ASSUME NEW s \in Server, Deploy(s) \/ DeployStep(s)
      PROVE  Digest(uploads'[up'[t].id]) = up'[t].session.sha
  <2>1. UNCHANGED <<uploads, up>> /\ pc[t] = "rename"
    BY <1>6 DEF Deploy, DeployLookup, DeployRefuse, DeployStep, DeployStat,
                DeployMissing, DeployExec
  <2> QED
    BY <1>0, <2>1
<1>7. ASSUME NEW s \in Server, Restart(s)
      PROVE  Digest(uploads'[up'[t].id]) = up'[t].session.sha
  BY <1>0, <1>7 DEF Restart
<1>8. ASSUME UNCHANGED <<uploads, up, pc>>
      PROVE  Digest(uploads'[up'[t].id]) = up'[t].session.sha
  BY <1>0, <1>8
<1> QED
  BY <1>1, <1>2, <1>3, <1>4, <1>5, <1>6, <1>7, <1>8
     DEF StoreNext, StoreStep, AnyBegin, Refused, AnyChunk, Commit, CommitRefuse,
         Abort, Continue, vars

\* A rename brings a verified file, an undo none.
LEMMA CommittedStep ==
    /\ TypeOK /\ HandlerState /\ Verified /\ ContentAddressed /\ [StoreNext]_vars
    => ContentAddressed'
<1> SUFFICES ASSUME TypeOK, HandlerState, Verified, ContentAddressed,
                    [StoreNext]_vars, NEW p \in Path, committed'[p] # Absent
             PROVE  /\ Digest(committed'[p]) \in Sha
                    /\ Short(Digest(committed'[p])) = p.id.short
  BY DEF ContentAddressed
<1>1. ASSUME committed'[p] = committed[p]
      PROVE  /\ Digest(committed'[p]) \in Sha
             /\ Short(Digest(committed'[p])) = p.id.short
  BY <1>1 DEF ContentAddressed
<1>2. ASSUME NEW s \in Server, CommitRename(s)
      PROVE  /\ Digest(committed'[p]) \in Sha
             /\ Short(Digest(committed'[p])) = p.id.short
  <2>1. up[s] \in Upload /\ Digest(uploads[up[s].id]) = up[s].session.sha
    BY <1>2 DEF CommitRename, TypeOK, HandlerState, Verified
  <2>2. up[s].session.sha \in Sha
    BY <2>1 DEF Upload, Session
  <2>3. CASE p = UploadPath(s)
    <3>1. committed'[p] = uploads[up[s].id]
      BY <1>2, <2>3 DEF CommitRename, TypeOK
    <3>2. p.id.short = Short(up[s].session.sha)
      BY <2>3 DEF UploadPath, PathOf, ArtifactIdOf
    <3> QED
      BY <2>1, <2>2, <3>1, <3>2
  <2>4. CASE p # UploadPath(s)
    BY <1>1, <1>2, <2>4 DEF CommitRename, TypeOK
  <2> QED
    BY <2>3, <2>4
<1>3. ASSUME NEW s \in Server, CommitUndo(s)
      PROVE  committed'[p] = committed[p]
  BY <1>3 DEF CommitUndo, Remove, TypeOK
<1> QED
  BY <1>1, <1>2, <1>3, CommittedChange

\* A manifest is written for the session a commit took, under its artifact's
\* id, and a deploy works on the manifest it read under the id it was given.
LEMMA ManifestsStep ==
    TypeOK /\ HandlerState /\ SessionsAllowed /\ ManifestsFiled /\ [StoreNext]_vars
        => ManifestsFiled'
<1> SUFFICES ASSUME TypeOK, HandlerState, SessionsAllowed, ManifestsFiled,
                    [StoreNext]_vars
             PROVE  ManifestsFiled'
  OBVIOUS
<1> USE DEF TypeOK, HandlerState, ManifestsFiled, Goto, Return, EndDeploy
<1>1. ASSUME NEW s \in Server,
             \/ AnyBegin(s) \/ AnyChunk(s) \/ Commit(s) \/ Abort(s)
      PROVE  ManifestsFiled'
  <2>1. /\ UNCHANGED <<manifests, dep>>
        /\ UNCHANGED pc \/ pc' = [pc EXCEPT ![s] = "verify"]
    BY <1>1 DEF AnyBegin, BeginAccept, Refused, AnyChunk, ChunkAccept,
                ChunkFail, Commit, CommitTake, CommitRefuse,
                Abort, UploadAbort, files
  <2> QED
    BY <2>1
<1>2. ASSUME NEW s \in Server,
             CommitManifestWrite(s) \/ CommitManifestCloseFail(s)
      PROVE  ManifestsFiled'
  <2>1. PICK m \in {ManifestOf(up[s].session), Torn} :
           manifests' = [manifests EXCEPT ![UploadArtifact(s)] = m]
    BY <1>2 DEF CommitManifestWrite, CommitManifestCloseFail, Written
  <2>2. up[s] \in Upload /\ up[s] # Absent
    BY <1>2, AbsentAssumption DEF CommitManifestWrite, CommitManifestCloseFail
  <2>3. FiledUnder(UploadArtifact(s), ManifestOf(up[s].session))
    BY <2>2 DEF SessionsAllowed, FiledUnder, ManifestOf, UploadArtifact
  <2>4. \A a \in ArtifactId :
           manifests'[a] \in Manifest => FiledUnder(a, manifests'[a])
    BY <2>1, <2>3, AbsentAssumption
  <2>5. /\ UNCHANGED dep
        /\ pc' = [pc EXCEPT ![s] = "idle"] \/ pc' = [pc EXCEPT ![s] = "undo"]
    BY <1>2 DEF CommitManifestWrite, CommitManifestCloseFail
  <2> QED
    BY <2>4, <2>5
<1>3. ASSUME NEW s \in Server,
             CommitManifestOpen(s) \/ CommitManifestWriteFail(s)
      PROVE  ManifestsFiled'
  <2>1. \E m \in {Empty, Torn, manifests[UploadArtifact(s)]} :
           manifests' = [manifests EXCEPT ![UploadArtifact(s)] = m]
    BY <1>3 DEF CommitManifestOpen, CommitManifestWriteFail
  <2>2. \A a \in ArtifactId :
           manifests'[a] \in Manifest => FiledUnder(a, manifests'[a])
    BY <2>1, AbsentAssumption
  <2>3. /\ UNCHANGED dep
        /\ pc' = [pc EXCEPT ![s] = "write"] \/ pc' = [pc EXCEPT ![s] = "undo"]
    BY <1>3 DEF CommitManifestOpen, CommitManifestWriteFail
  <2> QED
    BY <2>2, <2>3
<1>4. ASSUME NEW s \in Server, CommitStep(s), ~CommitManifestWrite(s),
             ~CommitManifestCloseFail(s), ~CommitManifestOpen(s),
             ~CommitManifestWriteFail(s)
      PROVE  ManifestsFiled'
  <2>1. /\ UNCHANGED <<manifests, dep>>
        /\ \E l \in {"idle", "rename", "create", "undo"} :
              pc' = [pc EXCEPT ![s] = l]
    BY <1>4 DEF CommitStep, CommitUnreadable, CommitDiscard, CommitAlready,
                CommitVerify, CommitRename, CommitRenameFail,
                CommitManifestOpenFail, CommitUndo, files
  <2> QED
    BY <2>1
<1>5. ASSUME NEW s \in Server, NEW p \in Profile, NEW a \in ArtifactId,
             DeployLookup(s, p, a)
      PROVE  ManifestsFiled'
  <2>1. /\ dep'[s].id = a /\ dep'[s].profile = p
        /\ dep'[s].manifest = manifests[a]
        /\ \A t \in Server : t # s => dep'[t] = dep[t]
    BY <1>5 DEF DeployLookup
  <2>2. FiledUnder(a, manifests[a]) /\ manifests[a].profile = p
    BY <1>5 DEF DeployLookup, DeployAllowed
  <2> QED
    BY <1>5, <2>1, <2>2 DEF DeployLookup, files
<1>6. ASSUME NEW s \in Server, NEW p \in Profile, NEW a \in ArtifactId,
             DeployRefuse(s, p, a)
      PROVE  ManifestsFiled'
  BY <1>6 DEF DeployRefuse, files
<1>7. ASSUME NEW s \in Server, DeployStep(s)
      PROVE  ManifestsFiled'
  BY <1>7 DEF DeployStep, DeployStat, DeployMissing, DeployExec, files
<1>8. ASSUME NEW s \in Server, Restart(s)
      PROVE  ManifestsFiled'
  BY <1>8 DEF Restart, files
<1>9. CASE UNCHANGED vars
  BY <1>9 DEF vars
<1> QED
  BY <1>1, <1>2, <1>3, <1>4, <1>5, <1>6, <1>7, <1>8, <1>9
     DEF StoreNext, StoreStep, Continue, Deploy

----------------------------------------------------------------------------
(* Theorems *)

LEMMA IInvInit == Init => IInv
<1> SUFFICES ASSUME Init PROVE IInv
  OBVIOUS
<1>1. TypeOK
  BY TypeInit
<1>2. HandlerState /\ OneOwner /\ SessionsAllowed /\ Verified
  BY DEF Init, HandlerState, OneOwner, HasSession, InHand, SessionsAllowed,
         Verified
<1>3. ContentAddressed
  BY DEF Init, ContentAddressed
<1>4. ManifestsFiled
  BY AbsentAssumption DEF Init, ManifestsFiled
<1> QED
  BY <1>1, <1>2, <1>3, <1>4 DEF IInv

\* Every step of every handler preserves it.
LEMMA IInvStep == IInv /\ [StoreNext]_vars => IInv'
BY TypeStep, HandlerStep, OwnerStep, SessionsStep, VerifiedStep,
   CommittedStep, ManifestsStep DEF IInv

\* The inductive invariant holds in every reachable state.
THEOREM Invariance == Spec => []IInv
BY IInvInit, IInvStep, NextIsStoreNext, PTL DEF Spec

\* Type correctness of the store.
THEOREM Typing == Spec => []TypeOK
<1>1. IInv => TypeOK
  BY DEF IInv
<1> QED
  BY Invariance, <1>1, PTL

\* No two processes ever hold the same upload file.
THEOREM Ownership == Spec => []OneOwner
<1>1. IInv => OneOwner
  BY DEF IInv
<1> QED
  BY Invariance, <1>1, PTL

\* What is under committed/ has the digest its name announces, under every
\* interleaving of commits, every crash and every failure of a system call.
THEOREM Addressing == Spec => []ContentAddressed
<1>1. IInv => ContentAddressed
  BY DEF IInv
<1> QED
  BY Invariance, <1>1, PTL

\* The file next to a manifest is the one the manifest gives the digest of.
LEMMA SameDigest ==
    ASSUME TypeOK, ContentAddressed, NEW a \in ArtifactId, NEW m \in Manifest,
           ArtifactIdOf(m.name, m.sha) = a,
           committed[[id |-> a, ext |-> m.name.ext]] # Absent
    PROVE  Digest(committed[[id |-> a, ext |-> m.name.ext]]) = m.sha
<1> DEFINE p == [id |-> a, ext |-> m.name.ext]
<1>1. p \in Path /\ m.sha \in Sha
  BY DEF Path, Manifest, Name
<1>2. Digest(committed[p]) \in Sha /\ Short(Digest(committed[p])) = a.short
  BY <1>1 DEF ContentAddressed
<1>3. a.short = Short(m.sha)
  BY DEF ArtifactIdOf
<1> QED
  BY <1>1, <1>2, <1>3, ShortAssumption

\* A manifest that parses tells the truth about the file it stands for.
THEOREM Truthfulness == Spec => []ManifestTruthful
<1>1. IInv => ManifestTruthful
  <2> SUFFICES ASSUME IInv, NEW a \in ArtifactId, manifests[a] \in Manifest
               PROVE  LET m == manifests[a]
                          f == committed[PathOf(m.name, m.sha)]
                      IN  /\ ArtifactIdOf(m.name, m.sha) = a
                          /\ m.name \in Allowed(m.profile)
                          /\ f # Absent => Digest(f) = m.sha
    BY DEF ManifestTruthful
  <2>1. FiledUnder(a, manifests[a])
    BY DEF IInv, ManifestsFiled
  <2>2. TypeOK /\ ContentAddressed
    BY DEF IInv
  <2> QED
    BY <2>1, <2>2, SameDigest DEF FiledUnder, PathOf
<1> QED
  BY Invariance, <1>1, PTL

\* A deploy command that starts finds the content its manifest vouched for,
\* or no file at all.
THEOREM DeploySafety == Spec => []DeployUsesCommitted
<1>1. IInv => DeployUsesCommitted
  <2> SUFFICES ASSUME IInv, NEW s \in Server, pc[s] = "exec"
               PROVE  LET f == committed[DeployPath(s)]
                      IN  /\ f # Absent => Digest(f) = dep[s].manifest.sha
                          /\ dep[s].manifest.name \in Allowed(dep[s].profile)
                          /\ dep[s].manifest.profile = dep[s].profile
    BY DEF DeployUsesCommitted
  <2>1. TypeOK /\ ContentAddressed
    BY DEF IInv
  <2>2. dep[s] \in Deployment
    BY DEF IInv, HandlerState, TypeOK
  <2>3. dep[s].id \in ArtifactId /\ dep[s].manifest \in Manifest
    BY <2>2 DEF Deployment
  <2>4. /\ FiledUnder(dep[s].id, dep[s].manifest)
        /\ dep[s].manifest.profile = dep[s].profile
    BY DEF IInv, ManifestsFiled
  <2> QED
    BY <2>1, <2>3, <2>4, SameDigest DEF FiledUnder, DeployPath
<1> QED
  BY Invariance, <1>1, PTL
----------------------------------------------------------------------------
(* Bytes *)

\* Appending adds the lengths.
LEMMA AppendLength ==
    ASSUME NEW c \in Content, NEW d \in Content
    PROVE  Len(c \o d) = Len(c) + Len(d)
BY DEF Content

\* A session's file changes by its own chunks only, and both count together.
LEMMA AcknowledgedStep ==
    IInv /\ AcknowledgedBytes /\ [StoreNext]_vars => AcknowledgedBytes'
<1> SUFFICES ASSUME IInv, AcknowledgedBytes, [StoreNext]_vars,
                    NEW s \in Server, NEW u \in UploadId, HasSession(s, u)'
             PROVE  /\ sessions'[s][u].received =< sessions'[s][u].size
                    /\ sessions'[s][u].received =< Len(uploads'[u])
                    /\ "write" \notin Fault =>
                          sessions'[s][u].received = Len(uploads'[u])
  BY DEF AcknowledgedBytes
<1> DEFINE Goal == /\ sessions'[s][u].received =< sessions'[s][u].size
                   /\ sessions'[s][u].received =< Len(uploads'[u])
                   /\ "write" \notin Fault =>
                         sessions'[s][u].received = Len(uploads'[u])
<1> USE DEF IInv, TypeOK, HasSession
<1>0. ASSUME sessions'[s][u] = sessions[s][u], uploads'[u] = uploads[u]
      PROVE  Goal
  BY <1>0 DEF AcknowledgedBytes
<1>a. ASSUME HasSession(s, u)
      PROVE  /\ sessions[s][u] \in Session /\ uploads[u] \in Content
             /\ sessions[s][u].received \in Nat /\ sessions[s][u].size \in Nat
             /\ Len(uploads[u]) \in Nat
             /\ sessions[s][u].received =< sessions[s][u].size
             /\ sessions[s][u].received =< Len(uploads[u])
             /\ "write" \notin Fault => sessions[s][u].received = Len(uploads[u])
             /\ \A t \in Server : HasSession(t, u) \/ InHand(t, u) => t = s
             /\ ~InHand(s, u)
  BY <1>a, ContentFacts DEF AcknowledgedBytes, Session, OneOwner
<1>1. ASSUME NEW t \in Server, AnyBegin(t)
      PROVE  Goal
  <2>1. ASSUME NEW p \in Profile, NEW n \in Name, NEW size \in Int,
               NEW sha \in Sha, NEW v \in UploadId,
               BeginAccept(t, p, n, size, sha, v)
        PROVE  Goal
    <3>1. CASE v # u
      BY <1>0, <2>1, <3>1 DEF BeginAccept
    <3>2. CASE v = u
      <4>1. s = t
        BY <1>a, <2>1, <3>2, AbsentAssumption DEF BeginAccept
      <4>2. /\ sessions'[s][u].received = 0 /\ sessions'[s][u].size = size
            /\ uploads'[u] = <<>> /\ size > 0
        BY <2>1, <3>2, <4>1 DEF BeginAccept, BeginAllowed
      <4> QED BY <4>2
    <3> QED BY <3>1, <3>2
  <2>2. CASE Refused(t)
    BY <1>0, <2>2 DEF Refused, files
  <2> QED BY <1>1, <2>1, <2>2 DEF AnyBegin
<1>2. ASSUME NEW t \in Server, NEW v \in UploadId, NEW offset \in Nat,
             NEW data \in Content, ChunkAccept(t, v, offset, data)
      PROVE  Goal
  <2>1. HasSession(t, v)
    BY <1>2 DEF ChunkAccept, ChunkAllowed
  <2>2. CASE v # u
    BY <1>0, <1>2, <2>2 DEF ChunkAccept
  <2>3. CASE v = u
    <3>1. HasSession(s, u)
      BY <1>2, <2>1 DEF ChunkAccept
    <3>2. s = t
      BY <1>a, <2>1, <2>3, <3>1
    <3>3. /\ sessions'[s][u] = Advance(sessions[s][u], Len(data))
          /\ uploads'[u] = uploads[u] \o data
          /\ sessions[s][u].received + Len(data) =< sessions[s][u].size
      BY <1>2, <2>3, <3>2 DEF ChunkAccept, ChunkAllowed
    <3>4. /\ sessions'[s][u].received = sessions[s][u].received + Len(data)
          /\ sessions'[s][u].size = sessions[s][u].size
      BY <1>a, <3>1, <3>3 DEF Advance, Session
    <3>5. Len(uploads'[u]) = Len(uploads[u]) + Len(data) /\ Len(data) \in Nat
      BY <1>a, <3>1, <3>3, AppendLength, ContentFacts
    <3>6. /\ sessions[s][u].received \in Nat /\ sessions[s][u].size \in Nat
          /\ Len(uploads[u]) \in Nat /\ sessions[s][u].received =< Len(uploads[u])
      BY <1>a, <3>1
    <3>7. sessions'[s][u].received =< sessions'[s][u].size
      BY <3>3, <3>4
    <3>8. sessions'[s][u].received =< Len(uploads'[u])
      BY <3>4, <3>5, <3>6
    <3>9. "write" \notin Fault => sessions'[s][u].received = Len(uploads'[u])
      BY <1>a, <3>1, <3>4, <3>5
    <3> QED BY <3>7, <3>8, <3>9
  <2> QED BY <2>2, <2>3
<1>3. ASSUME NEW t \in Server, NEW v \in UploadId, NEW offset \in Nat,
             NEW data \in Content, ChunkFail(t, v, offset, data)
      PROVE  Goal
  <2>1. PICK k \in 0..Len(data) :
           uploads' = [uploads EXCEPT ![v] = @ \o SubSeq(data, 1, k)]
    BY <1>3 DEF ChunkFail
  <2>2. "write" \in Fault /\ sessions' = sessions
    BY <1>3 DEF ChunkFail
  <2>3. CASE v # u
    BY <1>0, <2>1, <2>2, <2>3
  <2>4. CASE v = u
    <3>1. /\ Len(data) \in Nat /\ SubSeq(data, 1, k) \in Content
          /\ Len(SubSeq(data, 1, k)) \in Nat
      BY ContentFacts
    <3>2. Len(uploads'[u]) = Len(uploads[u]) + Len(SubSeq(data, 1, k))
      BY <1>a, <2>1, <2>2, <2>4, <3>1, AppendLength
    <3> QED BY <1>a, <2>2, <3>1, <3>2
  <2> QED BY <2>3, <2>4
<1>4. ASSUME NEW t \in Server, NEW v \in UploadId, CommitTake(t, v)
      PROVE  Goal
  <2>1. sessions'[s][u] = sessions[s][u] /\ uploads' = uploads
    BY <1>4 DEF CommitTake, files
  <2> QED BY <1>0, <2>1
<1>5. ASSUME NEW t \in Server, NEW v \in UploadId, UploadAbort(t, v)
      PROVE  Goal
  <2>1. sessions'[s][u] = sessions[s][u] /\ ~(s = t /\ u = v)
    BY <1>5 DEF UploadAbort
  <2>2. uploads'[u] = uploads[u]
    <3>1. CASE u # v \/ ~HasSession(t, v)
      BY <1>5, <3>1 DEF UploadAbort, Remove
    <3>2. CASE u = v /\ HasSession(t, v)
      BY <1>a, <2>1, <3>2
    <3> QED BY <3>1, <3>2
  <2> QED BY <1>0, <2>1, <2>2
<1>6. ASSUME NEW t \in Server, CommitStep(t)
      PROVE  Goal
  <2>1. sessions' = sessions
    BY <1>6 DEF CommitStep, CommitUnreadable, CommitDiscard, CommitAlready,
                CommitVerify, CommitRename, CommitRenameFail, CommitManifestOpen,
                CommitManifestOpenFail, CommitManifestWrite,
                CommitManifestCloseFail, CommitManifestWriteFail, CommitUndo
  <2>2. CASE CommitDiscard(t) \/ CommitAlready(t) \/ CommitRename(t)
    <3>1. /\ InHand(t, up[t].id)
          /\ uploads' = uploads \/ uploads' = [uploads EXCEPT ![up[t].id] = Absent]
      BY <2>2 DEF CommitDiscard, CommitAlready, CommitRename, Remove, InHand
    <3>2. up[t].id # u
      BY <1>a, <2>1, <3>1
    <3> QED BY <1>0, <2>1, <3>1, <3>2
  <2>3. CASE ~(CommitDiscard(t) \/ CommitAlready(t) \/ CommitRename(t))
    <3>1. UNCHANGED uploads
      BY <1>6, <2>3
         DEF CommitStep, CommitUnreadable, CommitVerify, CommitRenameFail,
             CommitManifestOpen, CommitManifestOpenFail, CommitManifestWrite,
             CommitManifestCloseFail, CommitManifestWriteFail, CommitUndo, files
    <3> QED BY <1>0, <2>1, <3>1
  <2> QED BY <2>2, <2>3
<1>7. ASSUME NEW t \in Server,
             \/ Refused(t) \/ (\E v \in UploadId : CommitRefuse(t, v))
             \/ Deploy(t) \/ DeployStep(t)
      PROVE  Goal
  <2>1. UNCHANGED <<uploads, sessions>>
    BY <1>7 DEF Refused, CommitRefuse, Deploy, DeployLookup, DeployRefuse,
                DeployStep, DeployStat, DeployMissing, DeployExec, files
  <2> QED BY <1>0, <2>1
<1>8. ASSUME NEW t \in Server, Restart(t)
      PROVE  Goal
  <2>1. sessions'[s][u] = sessions[s][u] /\ uploads' = uploads
    BY <1>8 DEF Restart, files
  <2> QED BY <1>0, <2>1
<1>9. CASE UNCHANGED vars
  BY <1>0, <1>9 DEF vars
<1> QED
  BY <1>1, <1>2, <1>3, <1>4, <1>5, <1>6, <1>7, <1>8, <1>9
     DEF StoreNext, StoreStep, AnyChunk, Commit, Abort, Continue

LEMMA AcknowledgedInit == Init => AcknowledgedBytes
BY DEF Init, AcknowledgedBytes, HasSession

\* Every byte a chunk reply acknowledged is in the file of its session, which
\* holds nothing else as long as writes do not fail.
THEOREM Acknowledgement == Spec => []AcknowledgedBytes
BY AcknowledgedInit, AcknowledgedStep, NextIsStoreNext, Invariance, PTL DEF Spec
----------------------------------------------------------------------------
(* What stays *)

\* Manifests can be written: no call of ioutil.WriteFile fails.
ManifestsWork == "manifest" \notin Fault /\ "close" \notin Fault

\* No two contents have the same digest, of those a client may declare.
CollisionFree ==
    \A c, d \in Content : Digest(c) = Digest(d) /\ Digest(c) \in Sha => c = d

\* Then no commit is undone,
NoUndo == \A s \in Server : pc[s] # "undo"

\* the file a commit has renamed is there while it writes the manifest,
Renamed ==
    \A s \in Server : pc[s] \in {"create", "write"} => committed[UploadPath(s)] # Absent

Kept == NoUndo /\ Renamed /\ ManifestHasFile

\* What a commit works on.
LEMMA CommitTypes ==
    ASSUME TypeOK, NEW s \in Server, up[s] # Absent
    PROVE  /\ up[s] \in Upload /\ up[s].id \in UploadId
           /\ up[s].session.sha \in Sha
           /\ UploadPath(s) \in Path /\ UploadArtifact(s) \in ArtifactId
           /\ UploadPath(s).id = UploadArtifact(s)
           /\ UploadPath(s).ext = up[s].session.name.ext
           /\ UploadArtifact(s).short = Short(up[s].session.sha)
<1>1. up[s] \in Upload
  BY DEF TypeOK
<1>2. /\ up[s].id \in UploadId /\ up[s].session \in Session
  BY <1>1 DEF Upload
<1>3. /\ up[s].session.sha \in Sha /\ up[s].session.name \in Name
  BY <1>2 DEF Session
<1> QED
  BY <1>1, <1>2, <1>3
     DEF UploadPath, UploadArtifact, PathOf, ArtifactIdOf, Path, ArtifactId, Name

\* A file under committed/ keeps its digest, and stays, if no commit is undone:
\* a rename onto it brings the same content again.
LEMMA CommittedKept ==
    ASSUME IInv, NoUndo, [StoreNext]_vars, NEW p \in Path, committed[p] # Absent
    PROVE  committed'[p] # Absent /\ Digest(committed'[p]) = Digest(committed[p])
<1>1. CASE UNCHANGED committed
  BY <1>1
<1>2. ASSUME NEW s \in Server, CommitRename(s)
      PROVE  committed'[p] # Absent /\ Digest(committed'[p]) = Digest(committed[p])
  <2>1. /\ pc[s] = "rename" /\ up[s] # Absent /\ TypeOK
        /\ committed' = [committed EXCEPT ![UploadPath(s)] = uploads[up[s].id]]
    BY <1>2 DEF CommitRename, IInv, HandlerState
  <2>2. /\ Digest(uploads[up[s].id]) = up[s].session.sha
        /\ uploads[up[s].id] # Absent
    BY <2>1, CommitTypes DEF IInv, Verified, OneOwner, InHand
  <2>3. CASE p = UploadPath(s)
    <3>1. committed'[p] = uploads[up[s].id]
      BY <2>1, <2>3 DEF TypeOK
    <3>2. Short(Digest(committed[p])) = Short(up[s].session.sha)
      BY <2>1, <2>3, CommitTypes DEF IInv, ContentAddressed
    <3>3. Digest(committed[p]) = up[s].session.sha
      BY <2>1, <3>2, CommitTypes, ShortAssumption DEF IInv, ContentAddressed
    <3> QED BY <2>2, <3>1, <3>3
  <2>4. CASE p # UploadPath(s)
    BY <2>1, <2>4 DEF TypeOK
  <2> QED BY <2>3, <2>4
<1>3. \A s \in Server : ~CommitUndo(s)
  BY DEF NoUndo, CommitUndo
<1> QED BY <1>1, <1>2, <1>3, CommittedChange

LEMMA NoUndoStep ==
    ManifestsWork /\ TypeOK /\ NoUndo /\ [StoreNext]_vars => NoUndo'
<1> SUFFICES ASSUME ManifestsWork, TypeOK, NoUndo, [StoreNext]_vars PROVE NoUndo'
  OBVIOUS
<1> USE DEF NoUndo, TypeOK, Goto, Return, EndDeploy
<1>1. ASSUME NEW s \in Server,
             \/ AnyBegin(s) \/ AnyChunk(s) \/ Commit(s) \/ Abort(s) \/ Deploy(s)
             \/ DeployStep(s) \/ Restart(s)
      PROVE  NoUndo'
  BY <1>1 DEF AnyBegin, BeginAccept, Refused, AnyChunk, ChunkAccept, ChunkFail,
              Commit, CommitTake, CommitRefuse, Abort, UploadAbort,
              Deploy, DeployLookup, DeployRefuse, DeployStep, DeployStat,
              DeployMissing, DeployExec, Restart
<1>2. ASSUME NEW s \in Server, CommitStep(s)
      PROVE  NoUndo'
  <2>1. \E l \in {"idle", "rename", "create", "write"} : pc' = [pc EXCEPT ![s] = l]
    BY <1>2 DEF CommitStep, CommitUnreadable, CommitDiscard, CommitAlready,
                CommitVerify, CommitRename, CommitRenameFail, CommitManifestOpen,
                CommitManifestOpenFail, CommitManifestWrite, ManifestsWork,
                CommitManifestCloseFail, CommitManifestWriteFail, CommitUndo
  <2> QED BY <2>1
<1>3. CASE UNCHANGED vars
  BY <1>3 DEF vars
<1> QED BY <1>1, <1>2, <1>3 DEF StoreNext, StoreStep, Continue

\* A commit that writes its manifest has just renamed its file or has been
\* writing it already.
LEMMA WritingMoves ==
    ASSUME TypeOK, HandlerState, [StoreNext]_vars, NEW s \in Server,
           pc'[s] \in {"create", "write"}
    PROVE  \/ pc[s] \in {"create", "write"} /\ up'[s] = up[s]
           \/ CommitRename(s)
<1> USE DEF TypeOK, Goto, Return, EndDeploy
<1>1. ASSUME NEW t \in Server,
             \/ AnyBegin(t) \/ AnyChunk(t) \/ Commit(t) \/ Abort(t) \/ Deploy(t)
             \/ DeployStep(t) \/ Restart(t)
      PROVE  pc[s] \in {"create", "write"} /\ up'[s] = up[s]
  <2>1. CASE t = s
    BY <1>1, <2>1
       DEF AnyBegin, BeginAccept, Refused, AnyChunk, ChunkAccept, ChunkFail,
           Commit, CommitTake, CommitRefuse, Abort, UploadAbort,
           Deploy, DeployLookup, DeployRefuse, DeployStep, DeployStat,
           DeployMissing, DeployExec, Restart
  <2>2. CASE t # s
    BY <1>1, <2>2
       DEF AnyBegin, BeginAccept, Refused, AnyChunk, ChunkAccept, ChunkFail,
           Commit, CommitTake, CommitRefuse, Abort, UploadAbort,
           Deploy, DeployLookup, DeployRefuse, DeployStep, DeployStat,
           DeployMissing, DeployExec, Restart
  <2> QED BY <2>1, <2>2
<1>2. ASSUME NEW t \in Server, CommitStep(t), ~CommitRename(s)
      PROVE  pc[s] \in {"create", "write"} /\ up'[s] = up[s]
  <2>1. CASE t = s
    BY <1>2, <2>1
       DEF CommitStep, CommitUnreadable, CommitDiscard, CommitAlready,
           CommitVerify, CommitRenameFail, CommitManifestOpen,
           CommitManifestOpenFail, CommitManifestWrite,
           CommitManifestCloseFail, CommitManifestWriteFail, CommitUndo
  <2>2. CASE t # s
    BY <1>2, <2>2
       DEF CommitStep, CommitUnreadable, CommitDiscard, CommitAlready,
           CommitVerify, CommitRename, CommitRenameFail, CommitManifestOpen,
           CommitManifestOpenFail, CommitManifestWrite,
           CommitManifestCloseFail, CommitManifestWriteFail, CommitUndo
  <2> QED BY <2>1, <2>2
<1>3. CASE UNCHANGED vars
  BY <1>3 DEF vars
<1> QED BY <1>1, <1>2, <1>3 DEF StoreNext, StoreStep, Continue

LEMMA KeptStep == ManifestsWork /\ IInv /\ Kept /\ [StoreNext]_vars => Kept'
<1> SUFFICES ASSUME ManifestsWork, IInv, Kept, [StoreNext]_vars PROVE Kept'
  OBVIOUS
<1> USE DEF Kept
<1>1. NoUndo' /\ TypeOK /\ HandlerState /\ TypeOK'
  BY NoUndoStep, IInvStep DEF IInv
<1>2. Renamed'
  <2> SUFFICES ASSUME NEW s \in Server, pc'[s] \in {"create", "write"}
               PROVE  committed'[UploadPath(s)'] # Absent
    BY DEF Renamed
  <2>1. CASE pc[s] \in {"create", "write"} /\ up'[s] = up[s]
    <3>1. UploadPath(s)' = UploadPath(s)
      BY <2>1 DEF UploadPath
    <3>2. up[s] # Absent /\ committed[UploadPath(s)] # Absent
      BY <1>1, <2>1 DEF HandlerState, Renamed
    <3> QED BY <1>1, <3>1, <3>2, CommitTypes, CommittedKept
  <2>2. CASE CommitRename(s)
    <3>1. UploadPath(s)' = UploadPath(s) /\ up[s] # Absent /\ pc[s] = "rename"
      BY <1>1, <2>2 DEF CommitRename, UploadPath, HandlerState
    <3>2. uploads[up[s].id] # Absent
      BY <1>1, <3>1, CommitTypes DEF IInv, OneOwner, InHand
    <3>3. committed'[UploadPath(s)] = uploads[up[s].id]
      BY <1>1, <2>2, <3>1, CommitTypes DEF CommitRename, TypeOK
    <3> QED BY <3>1, <3>2, <3>3
  <2> QED BY <1>1, <2>1, <2>2, WritingMoves
<1>3. ManifestHasFile'
  <2> SUFFICES ASSUME NEW a \in ArtifactId, manifests'[a] \in Manifest
               PROVE  committed'[PathOf(manifests'[a].name, manifests'[a].sha)] # Absent
    BY DEF ManifestHasFile
  <2>1. CASE manifests'[a] = manifests[a]
    <3>1. PathOf(manifests[a].name, manifests[a].sha) \in Path
      BY <2>1 DEF PathOf, ArtifactIdOf, Path, ArtifactId, Manifest, Name
    <3> QED BY <2>1, <3>1, CommittedKept DEF ManifestHasFile
  <2>2. ASSUME NEW s \in Server, CommitManifestWrite(s), manifests'[a] # manifests[a]
        PROVE  committed'[PathOf(manifests'[a].name, manifests'[a].sha)] # Absent
    <3>1. PICK m \in {ManifestOf(up[s].session), Torn} :
             manifests' = [manifests EXCEPT ![UploadArtifact(s)] = m]
      BY <2>2 DEF CommitManifestWrite, Written
    <3>2. pc[s] = "write" /\ up[s] # Absent /\ committed' = committed
      BY <1>1, <2>2 DEF CommitManifestWrite, HandlerState
    <3>3. manifests'[a] = ManifestOf(up[s].session)
      BY <1>1, <2>2, <3>1, AbsentAssumption DEF TypeOK
    <3>4. PathOf(manifests'[a].name, manifests'[a].sha) = UploadPath(s)
      BY <3>3 DEF ManifestOf, UploadPath
    <3> QED BY <3>2, <3>4 DEF Renamed
  <2>3. ASSUME NEW s \in Server, CommitManifestOpen(s)
        PROVE  manifests'[a] = manifests[a]
    BY <1>1, <2>3, AbsentAssumption DEF CommitManifestOpen, TypeOK
  <2>4. \A s \in Server : ~CommitManifestCloseFail(s) /\ ~CommitManifestWriteFail(s)
    BY DEF ManifestsWork, CommitManifestCloseFail, CommitManifestWriteFail
  <2> QED BY <2>1, <2>2, <2>3, <2>4, ManifestsChange
<1> QED BY <1>1, <1>2, <1>3

LEMMA KeptInit == Init => Kept
BY AbsentAssumption DEF Init, Kept, NoUndo, Renamed, ManifestHasFile

\* A committed file keeps its very content.
LEMMA ContentKept ==
    ManifestsWork /\ CollisionFree /\ IInv /\ IInv' /\ Kept /\ [StoreNext]_vars =>
        \A p \in Path : committed[p] # Absent => committed'[p] = committed[p]
<1> SUFFICES ASSUME CollisionFree, IInv, IInv', NoUndo, [StoreNext]_vars,
                    NEW p \in Path, committed[p] # Absent
             PROVE  committed'[p] = committed[p]
  BY DEF Kept
<1>1. committed'[p] # Absent /\ Digest(committed'[p]) = Digest(committed[p])
  BY CommittedKept
<1>2. /\ committed[p] \in Content /\ committed'[p] \in Content
      /\ Digest(committed[p]) \in Sha
  BY <1>1 DEF IInv, TypeOK, ContentAddressed
<1> QED BY <1>1, <1>2 DEF CollisionFree

\* As long as manifests can be written, a manifest that parses has its file,
\* under every interleaving of commits and every crash.
THEOREM FileBehindManifest ==
    ASSUME ManifestsWork
    PROVE  Spec => []ManifestHasFile
<1>1. IInv /\ Kept /\ [Next]_vars => Kept'
  BY KeptStep, NextIsStoreNext
<1>2. Kept => ManifestHasFile BY DEF Kept
<1> QED BY <1>1, <1>2, KeptInit, Invariance, PTL DEF Spec

\* As long as manifests can be written and no two contents have one digest, a
\* committed file is never removed nor changed: a racing commit of the same
\* artifact puts the same content in its place.
THEOREM CommittedForGood ==
    ASSUME ManifestsWork, CollisionFree
    PROVE  Spec => CommittedStays
<1>1. IInv /\ Kept /\ [Next]_vars => Kept'
  BY KeptStep, NextIsStoreNext
<1>2. IInv /\ IInv' /\ Kept /\ [Next]_vars =>
        [\A p \in Path : committed[p] # Absent => committed'[p] = committed[p]]_vars
  BY ContentKept, NextIsStoreNext
<1> QED BY <1>1, <1>2, KeptInit, Invariance, PTL DEF Spec, CommittedStays

----------------------------------------------------------------------------
(* The store implements the registry *)

\* A commit past its check works on an artifact that is not published,
Unpublished ==
    \A s \in Server :
        pc[s] \in {"rename", "create", "write", "undo"} =>
            manifests[UploadArtifact(s)] \notin Manifest

\* and what a deploy has read is published still.
ReadPublished ==
    \A s \in Server :
        pc[s] \in {"stat", "exec"} => manifests[dep[s].id] = dep[s].manifest

RInv == Unpublished /\ Renamed /\ ManifestHasFile /\ ReadPublished

LEMMA RInvInit == Init => RInv
BY AbsentAssumption DEF Init, RInv, Unpublished, Renamed, ManifestHasFile, ReadPublished

\* How a commit and a deploy get to where they are.
LEMMA HandlerMoves ==
    ASSUME TypeOK, [StoreNext]_vars, NEW s \in Server
    PROVE  /\ pc'[s] \in {"rename", "create", "write", "undo"} =>
                 \/ /\ pc[s] \in {"rename", "create", "write", "undo"}
                    /\ up'[s] = up[s]
                 \/ CommitVerify(s)
           /\ pc'[s] \in {"stat", "exec"} =>
                 \/ pc[s] \in {"stat", "exec"} /\ dep'[s] = dep[s]
                 \/ \E p \in Profile, a \in ArtifactId : DeployLookup(s, p, a)
           /\ pc'[s] = "exec" =>
                 (pc[s] = "exec" /\ dep'[s] = dep[s]) \/ DeployStat(s)
           /\ pc[s] = "exec" => pc'[s] = "exec" \/ DeployExec(s) \/ Restart(s)
<1> USE DEF TypeOK, Goto, Return, EndDeploy
<1> DEFINE Goal ==
      /\ pc'[s] \in {"rename", "create", "write", "undo"} =>
            \/ /\ pc[s] \in {"rename", "create", "write", "undo"}
               /\ up'[s] = up[s]
            \/ CommitVerify(s)
      /\ pc'[s] \in {"stat", "exec"} =>
            \/ pc[s] \in {"stat", "exec"} /\ dep'[s] = dep[s]
            \/ \E p \in Profile, a \in ArtifactId : DeployLookup(s, p, a)
      /\ pc'[s] = "exec" =>
            (pc[s] = "exec" /\ dep'[s] = dep[s]) \/ DeployStat(s)
      /\ pc[s] = "exec" => pc'[s] = "exec" \/ DeployExec(s) \/ Restart(s)
<1>0. ASSUME pc'[s] = pc[s], up'[s] = up[s], dep'[s] = dep[s]
      PROVE  Goal
  BY <1>0
<1>1. ASSUME NEW t \in Server, StoreStep(t), t # s
      PROVE  Goal
  <2>1. \/ AnyBegin(t) \/ AnyChunk(t) \/ Abort(t) \/ Commit(t)
        \/ Deploy(t) \/ DeployStep(t) \/ Restart(t) \/ CommitStep(t)
    BY <1>1 DEF StoreStep, Continue
  <2>2. CASE AnyBegin(t) \/ AnyChunk(t) \/ Abort(t) \/ Commit(t)
    <3>1. pc'[s] = pc[s] /\ up'[s] = up[s] /\ dep'[s] = dep[s]
      BY <1>1, <2>2
         DEF AnyBegin, BeginAccept, Refused, AnyChunk, ChunkAccept, ChunkFail,
             Abort, UploadAbort, Commit, CommitTake, CommitRefuse
    <3> QED BY <1>0, <3>1
  <2>3. CASE Deploy(t) \/ DeployStep(t) \/ Restart(t)
    <3>1. pc'[s] = pc[s] /\ up'[s] = up[s] /\ dep'[s] = dep[s]
      BY <1>1, <2>3
         DEF Deploy, DeployLookup, DeployRefuse, DeployStep, DeployStat,
             DeployMissing, DeployExec, Restart
    <3> QED BY <1>0, <3>1
  <2>4. CASE CommitStep(t)
    <3>1. pc'[s] = pc[s] /\ up'[s] = up[s] /\ dep'[s] = dep[s]
      BY <1>1, <2>4
         DEF CommitStep, CommitUnreadable, CommitDiscard, CommitAlready,
             CommitVerify, CommitRename, CommitRenameFail, CommitManifestOpen,
             CommitManifestOpenFail, CommitManifestWrite,
             CommitManifestCloseFail, CommitManifestWriteFail, CommitUndo
    <3> QED BY <1>0, <3>1
  <2> QED BY <2>1, <2>2, <2>3, <2>4
<1>2. CASE AnyBegin(s) \/ AnyChunk(s) \/ Abort(s) \/ Commit(s)
  BY <1>2 DEF AnyBegin, BeginAccept, Refused, AnyChunk, ChunkAccept, ChunkFail,
              Abort, UploadAbort, Commit, CommitTake, CommitRefuse
<1>3. CASE Deploy(s)
  BY <1>3 DEF Deploy, DeployLookup, DeployRefuse
<1>4. CASE DeployStep(s) \/ Restart(s)
  BY <1>4 DEF DeployStep, DeployStat, DeployMissing, DeployExec, Restart
<1>5. CASE CommitStep(s)
  BY <1>5 DEF CommitStep, CommitUnreadable, CommitDiscard, CommitAlready,
              CommitVerify, CommitRename, CommitRenameFail, CommitManifestOpen,
              CommitManifestOpenFail, CommitManifestWrite,
              CommitManifestCloseFail, CommitManifestWriteFail, CommitUndo
<1>6. CASE UNCHANGED vars
  BY <1>6 DEF vars
<1> QED BY <1>1, <1>2, <1>3, <1>4, <1>5, <1>6 DEF StoreNext, StoreStep, Continue

\* The path and the id of an artifact with a manifest.
LEMMA ManifestPath ==
    ASSUME IInv, NEW a \in ArtifactId, manifests[a] \in Manifest
    PROVE  LET m == manifests[a]
           IN  /\ PathOf(m.name, m.sha) \in Path
               /\ PathOf(m.name, m.sha).id = a
               /\ m.profile \in Profile /\ m.name \in Name /\ m.sha \in Sha
               /\ ArtifactIdOf(m.name, m.sha) = a /\ m.name \in Allowed(m.profile)
<1> DEFINE m == manifests[a]
<1>1. m.profile \in Profile /\ m.name \in Name /\ m.sha \in Sha
  BY DEF Manifest
<1>2. ArtifactIdOf(m.name, m.sha) = a /\ m.name \in Allowed(m.profile)
  BY DEF IInv, ManifestsFiled, FiledUnder
<1>3. m.name.ext \in Ext
  BY <1>1 DEF Name
<1> QED BY <1>1, <1>2, <1>3 DEF PathOf, Path

\* Nothing touches a published file.
LEMMA PublishedFile ==
    ASSUME IInv, RInv, [StoreNext]_vars, NEW a \in ArtifactId, manifests[a] \in Manifest
    PROVE  LET p == PathOf(manifests[a].name, manifests[a].sha)
           IN  committed'[p] = committed[p] /\ committed[p] # Absent
<1> DEFINE p == PathOf(manifests[a].name, manifests[a].sha)
<1>1. p \in Path /\ p.id = a /\ committed[p] # Absent
  BY ManifestPath DEF RInv, ManifestHasFile
<1>2. ASSUME NEW s \in Server, CommitRename(s) \/ CommitUndo(s)
      PROVE  committed'[p] = committed[p]
  <2>1. pc[s] \in {"rename", "undo"} /\ up[s] # Absent
    BY <1>2 DEF CommitRename, CommitUndo, IInv, HandlerState
  <2>2. UploadPath(s) # p
    BY <1>1, <2>1, CommitTypes DEF IInv, RInv, Unpublished
  <2> QED BY <1>1, <1>2, <2>2 DEF CommitRename, CommitUndo, Remove, IInv, TypeOK
<1> QED BY <1>1, <1>2, CommittedChange

\* Nothing but the write of a manifest publishes, and what is published stays.
LEMMA ManifestMoves ==
    ASSUME "close" \notin Fault, IInv, RInv, NoDuplicateCommit, [StoreNext]_vars,
           NEW a \in ArtifactId
    PROVE  /\ manifests[a] \in Manifest => manifests'[a] = manifests[a]
           /\ manifests'[a] \in Manifest /\ manifests[a] \notin Manifest =>
                 \E s \in Server :
                     /\ CommitManifestWrite(s)
                     /\ a = UploadArtifact(s)
                     /\ manifests'[a] = ManifestOf(up[s].session)
<1> USE DEF IInv, TypeOK, RInv
<1>1. CASE UNCHANGED manifests
  BY <1>1
<1>2. ASSUME NEW s \in Server,
             CommitManifestOpen(s) \/ CommitManifestWrite(s) \/ CommitManifestWriteFail(s)
      PROVE  /\ manifests[a] \in Manifest => manifests'[a] = manifests[a]
             /\ manifests'[a] \in Manifest /\ manifests[a] \notin Manifest =>
                   /\ CommitManifestWrite(s)
                   /\ a = UploadArtifact(s)
                   /\ manifests'[a] = ManifestOf(up[s].session)
  <2>1. pc[s] \in {"create", "write"} /\ up[s] # Absent
    BY <1>2 DEF CommitManifestOpen, CommitManifestWrite, CommitManifestWriteFail,
                HandlerState
  <2>2. UploadArtifact(s) \in ArtifactId /\ manifests[UploadArtifact(s)] \notin Manifest
    BY <2>1, CommitTypes DEF Unpublished
  <2>3. CASE CommitManifestOpen(s)
    <3>1. manifests' = [manifests EXCEPT ![UploadArtifact(s)] = Empty]
      BY <2>3 DEF CommitManifestOpen
    <3> QED BY <2>2, <3>1, AbsentAssumption
  <2>4. CASE CommitManifestWrite(s)
    <3>1. PICK m \in {ManifestOf(up[s].session), Torn} :
             manifests' = [manifests EXCEPT ![UploadArtifact(s)] = m]
      BY <2>4 DEF CommitManifestWrite, Written
    <3> QED BY <2>2, <2>4, <3>1, AbsentAssumption
  <2>5. CASE CommitManifestWriteFail(s)
    <3>1. PICK m \in {manifests[UploadArtifact(s)], Torn} :
             manifests' = [manifests EXCEPT ![UploadArtifact(s)] = m]
      BY <2>5 DEF CommitManifestWriteFail
    <3> QED BY <2>2, <3>1, AbsentAssumption
  <2> QED BY <1>2, <2>3, <2>4, <2>5
<1>3. \A s \in Server : ~CommitManifestCloseFail(s)
  BY DEF CommitManifestCloseFail
<1> QED BY <1>1, <1>2, <1>3, ManifestsChange

LEMMA UnpublishedStep ==
    "close" \notin Fault /\ IInv /\ RInv /\ Orderly /\ [StoreNext]_vars => Unpublished'
<1> SUFFICES ASSUME "close" \notin Fault, IInv, RInv, Orderly, [StoreNext]_vars,
                    NEW s \in Server, pc'[s] \in {"rename", "create", "write", "undo"}
             PROVE  manifests'[UploadArtifact(s)'] \notin Manifest
  BY DEF Unpublished
<1> USE DEF Orderly
<1>1. CASE pc[s] \in {"rename", "create", "write", "undo"} /\ up'[s] = up[s]
  <2>1. UploadArtifact(s)' = UploadArtifact(s) /\ up[s] # Absent
    BY <1>1 DEF UploadArtifact, IInv, HandlerState
  <2>2. UploadArtifact(s) \in ArtifactId /\ manifests[UploadArtifact(s)] \notin Manifest
    BY <1>1, <2>1, CommitTypes DEF IInv, RInv, Unpublished
  <2>3. ASSUME NEW t \in Server, CommitManifestWrite(t),
               UploadArtifact(s) = UploadArtifact(t)
        PROVE  FALSE
    <3>1. up[t] # Absent /\ pc[t] = "write"
      BY <2>3 DEF CommitManifestWrite, IInv, HandlerState
    <3>2. t = s
      BY <2>1, <2>3, <3>1 DEF NoDuplicateCommit
    <3>3. pc'[s] = "idle"
      BY <2>3, <3>2 DEF CommitManifestWrite, Return, Goto, IInv, TypeOK
    <3> QED BY <3>3
  <2> QED BY <2>1, <2>2, <2>3, ManifestMoves
<1>2. CASE CommitVerify(s)
  <2>1. /\ up[s] # Absent /\ UploadArtifact(s)' = UploadArtifact(s)
        /\ manifests' = manifests /\ committed[UploadPath(s)] = Absent
    BY <1>2 DEF CommitVerify, IInv, HandlerState, UploadArtifact, files
  <2>2. ASSUME manifests[UploadArtifact(s)] \in Manifest PROVE FALSE
    <3> DEFINE m == manifests[UploadArtifact(s)]
    <3>1. /\ UploadArtifact(s) \in ArtifactId
          /\ PathOf(m.name, m.sha).id = UploadPath(s).id
      BY <2>1, <2>2, CommitTypes, ManifestPath DEF IInv
    <3>2. m.name.ext = up[s].session.name.ext
      BY <2>1, <2>2 DEF OneExtension
    <3>3. PathOf(m.name, m.sha) = UploadPath(s)
      BY <3>1, <3>2 DEF PathOf, UploadPath
    <3> QED BY <2>1, <2>2, <3>1, <3>3 DEF RInv, ManifestHasFile
  <2> QED BY <2>1, <2>2
<1> QED BY <1>1, <1>2, HandlerMoves DEF IInv

LEMMA RenamedStep ==
    IInv /\ RInv /\ Orderly /\ [StoreNext]_vars => Renamed'
<1> SUFFICES ASSUME IInv, RInv, NoDuplicateCommit, [StoreNext]_vars,
                    NEW s \in Server, pc'[s] \in {"create", "write"}
             PROVE  committed'[UploadPath(s)'] # Absent
  BY DEF Renamed, Orderly
<1>0. TypeOK /\ HandlerState
  BY DEF IInv
<1>1. ASSUME NEW t \in Server, CommitRename(t)
      PROVE  /\ UploadPath(t) \in Path
             /\ committed' = [committed EXCEPT ![UploadPath(t)] = uploads[up[t].id]]
             /\ uploads[up[t].id] # Absent
  <2>1. pc[t] = "rename" /\ up[t] # Absent
    BY <1>0, <1>1 DEF CommitRename, HandlerState
  <2>2. uploads[up[t].id] # Absent /\ UploadPath(t) \in Path
    BY <1>0, <2>1, CommitTypes DEF IInv, OneOwner, InHand
  <2> QED BY <1>1, <2>2 DEF CommitRename
<1>2. CASE pc[s] \in {"create", "write"} /\ up'[s] = up[s]
  <2>1. /\ UploadPath(s)' = UploadPath(s) /\ up[s] # Absent
        /\ committed[UploadPath(s)] # Absent /\ UploadPath(s) \in Path
    BY <1>0, <1>2, CommitTypes DEF UploadPath, HandlerState, RInv, Renamed
  <2>2. ASSUME NEW t \in Server, CommitUndo(t)
        PROVE  committed'[UploadPath(s)] # Absent
    <3>1. pc[t] = "undo" /\ up[t] # Absent /\ t # s
      BY <1>0, <1>2, <2>2 DEF CommitUndo, HandlerState
    <3>2. UploadPath(t) # UploadPath(s)
      BY <1>0, <2>1, <3>1, CommitTypes DEF NoDuplicateCommit
    <3> QED BY <1>0, <2>1, <2>2, <3>2 DEF CommitUndo, Remove, TypeOK
  <2>3. ASSUME NEW t \in Server, CommitRename(t)
        PROVE  committed'[UploadPath(s)] # Absent
    BY <1>0, <1>1, <2>1, <2>3 DEF TypeOK
  <2> QED BY <2>1, <2>2, <2>3, CommittedChange
<1>3. CASE CommitRename(s)
  <2>1. UploadPath(s)' = UploadPath(s)
    BY <1>3 DEF CommitRename, UploadPath
  <2> QED BY <1>0, <1>1, <1>3, <2>1 DEF TypeOK
<1> QED BY <1>0, <1>2, <1>3, WritingMoves

LEMMA RInvStep ==
    "close" \notin Fault /\ IInv /\ RInv /\ Orderly /\ [StoreNext]_vars => RInv'
<1> SUFFICES ASSUME "close" \notin Fault, IInv, RInv, Orderly, [StoreNext]_vars
             PROVE  RInv'
  OBVIOUS
<1>0. TypeOK /\ HandlerState /\ TypeOK' /\ NoDuplicateCommit
  BY IInvStep DEF IInv, Orderly
<1>1. ManifestHasFile'
  <2> SUFFICES ASSUME NEW a \in ArtifactId, manifests'[a] \in Manifest
               PROVE  committed'[PathOf(manifests'[a].name, manifests'[a].sha)] # Absent
    BY DEF ManifestHasFile
  <2>1. CASE manifests[a] \in Manifest
    BY <1>0, <2>1, ManifestMoves, PublishedFile
  <2>2. ASSUME NEW s \in Server, CommitManifestWrite(s),
               manifests'[a] = ManifestOf(up[s].session)
        PROVE  committed'[PathOf(manifests'[a].name, manifests'[a].sha)] # Absent
    <3>1. pc[s] = "write" /\ committed' = committed
      BY <2>2 DEF CommitManifestWrite
    <3>2. PathOf(manifests'[a].name, manifests'[a].sha) = UploadPath(s)
      BY <2>2 DEF ManifestOf, UploadPath
    <3> QED BY <3>1, <3>2 DEF RInv, Renamed
  <2> QED BY <1>0, <2>1, <2>2, ManifestMoves
<1>2. ReadPublished'
  <2> SUFFICES ASSUME NEW s \in Server, pc'[s] \in {"stat", "exec"}
               PROVE  manifests'[dep'[s].id] = dep'[s].manifest
    BY DEF ReadPublished
  <2>1. CASE pc[s] \in {"stat", "exec"} /\ dep'[s] = dep[s]
    <3>1. dep[s] \in Deployment
      BY <1>0, <2>1 DEF HandlerState, TypeOK
    <3>2. dep[s].id \in ArtifactId /\ dep[s].manifest \in Manifest
      BY <3>1 DEF Deployment
    <3>3. manifests[dep[s].id] = dep[s].manifest
      BY <2>1 DEF RInv, ReadPublished
    <3> QED BY <1>0, <2>1, <3>2, <3>3, ManifestMoves
  <2>2. ASSUME NEW p \in Profile, NEW a \in ArtifactId, DeployLookup(s, p, a)
        PROVE  manifests'[dep'[s].id] = dep'[s].manifest
    BY <1>0, <2>2 DEF DeployLookup, files, TypeOK
  <2> QED BY <1>0, <2>1, <2>2, HandlerMoves
<1> QED BY <1>1, <1>2, UnpublishedStep, RenamedStep DEF RInv

\* An entry is the absent one exactly when there is no manifest that parses.
EntriesOK ==
    \A a \in ArtifactId :
        /\ manifests[a] \notin Manifest => EntryOf(a) = Absent
        /\ manifests[a] \in Manifest =>
              /\ EntryOf(a) \in PublishedEntry
              /\ EntryOf(a) # Absent
              /\ ValidEntry(a, EntryOf(a))

LEMMA EntryFacts == IInv /\ RInv => EntriesOK
<1> SUFFICES ASSUME IInv, RInv, NEW a \in ArtifactId, manifests[a] \in Manifest
             PROVE  /\ EntryOf(a) \in PublishedEntry
                    /\ EntryOf(a) # Absent
                    /\ ValidEntry(a, EntryOf(a))
  BY DEF EntriesOK, EntryOf
<1> DEFINE m == manifests[a]
           p == PathOf(m.name, m.sha)
           e == [profile |-> m.profile, name |-> m.name, sha |-> m.sha,
                 content |-> committed[p]]
<1>1. /\ m.profile \in Profile /\ m.name \in Name /\ m.sha \in Sha
      /\ ArtifactIdOf(m.name, m.sha) = a /\ m.name \in Allowed(m.profile)
      /\ p \in Path /\ p.id = a
  BY ManifestPath
<1>2. committed[p] \in Content
  BY <1>1 DEF IInv, TypeOK, RInv, ManifestHasFile
<1>3. Digest(committed[p]) = m.sha
  <2>1. /\ Digest(committed[p]) \in Sha
        /\ Short(Digest(committed[p])) = a.short
    BY <1>1, <1>2, AbsentAssumption DEF IInv, ContentAddressed
  <2>2. Short(m.sha) = a.short
    BY <1>1 DEF ArtifactIdOf
  <2> QED BY <1>1, <2>1, <2>2, ShortAssumption
<1>4. EntryOf(a) = e
  BY DEF EntryOf
<1>5. e \in PublishedEntry
  BY <1>1, <1>2 DEF PublishedEntry
<1>6. ValidEntry(a, e)
  BY <1>1, <1>3 DEF ValidEntry
<1> QED BY <1>4, <1>5, <1>6, EntryAssumption

\* Only the write of a manifest changes an entry, from absent.
LEMMA EntryMoves ==
    ASSUME "close" \notin Fault, IInv, RInv, Orderly, [StoreNext]_vars,
           NEW a \in ArtifactId,
           manifests[a] \in Manifest \/ manifests'[a] \notin Manifest
    PROVE  EntryOf(a)' = EntryOf(a)
<1>1. CASE manifests[a] \in Manifest
  <2>1. manifests'[a] = manifests[a]
    BY <1>1, ManifestMoves DEF Orderly
  <2>2. LET p == PathOf(manifests[a].name, manifests[a].sha)
        IN  committed'[p] = committed[p]
    BY <1>1, PublishedFile
  <2> QED BY <2>1, <2>2 DEF EntryOf
<1>2. CASE manifests[a] \notin Manifest /\ manifests'[a] \notin Manifest
  BY <1>2 DEF EntryOf
<1> QED BY <1>1, <1>2

\* A deploy command reads what is published under its artifact.
LEMMA ReadsEntry ==
    ASSUME IInv, RInv, NEW s \in Server, pc[s] \in {"stat", "exec"}
    PROVE  /\ dep[s].id \in ArtifactId
           /\ manifests[dep[s].id] \in Manifest
           /\ PathOf(manifests[dep[s].id].name, manifests[dep[s].id].sha) = DeployPath(s)
           /\ EntryOf(dep[s].id) =
                 [profile |-> dep[s].profile, name |-> dep[s].manifest.name,
                  sha |-> dep[s].manifest.sha, content |-> committed[DeployPath(s)]]
<1>1. dep[s] \in Deployment
  BY DEF IInv, TypeOK, HandlerState
<1>2. /\ dep[s].id \in ArtifactId /\ dep[s].manifest \in Manifest
      /\ manifests[dep[s].id] = dep[s].manifest
  BY <1>1 DEF Deployment, RInv, ReadPublished
<1>3. /\ ArtifactIdOf(dep[s].manifest.name, dep[s].manifest.sha) = dep[s].id
      /\ dep[s].manifest.profile = dep[s].profile
  BY DEF IInv, ManifestsFiled, FiledUnder
<1>4. PathOf(dep[s].manifest.name, dep[s].manifest.sha) = DeployPath(s)
  BY <1>3 DEF PathOf, DeployPath
<1> QED BY <1>2, <1>3, <1>4 DEF EntryOf

\* A command that has not just started or ended goes on reading its entry.
LEMMA RunningKept ==
    ASSUME IInv, RInv, [StoreNext]_vars, NEW s \in Server,
           ~DeployStat(s), ~(pc[s] = "exec" /\ (DeployExec(s) \/ Restart(s)))
    PROVE  RunningOf(s)' = RunningOf(s)
<1>0. TypeOK
  BY DEF IInv
<1>1. CASE pc[s] = "exec"
  <2>1. pc'[s] = "exec" /\ dep'[s] = dep[s]
    BY <1>0, <1>1, HandlerMoves
  <2>2. committed'[DeployPath(s)] = committed[DeployPath(s)]
    BY <1>1, ReadsEntry, PublishedFile
  <2> QED BY <1>1, <2>1, <2>2 DEF RunningOf, DeployPath
<1>2. CASE pc[s] # "exec"
  <2>1. pc'[s] # "exec"
    BY <1>0, <1>2, HandlerMoves
  <2> QED BY <1>2, <2>1 DEF RunningOf
<1> QED BY <1>1, <1>2

\* The write of a manifest publishes its artifact.
LEMMA WritePublishes ==
    ASSUME "close" \notin Fault, IInv, RInv, IInv', RInv', Orderly, [StoreNext]_vars,
           NEW s \in Server, CommitManifestWrite(s),
           manifests'[UploadArtifact(s)] \in Manifest
    PROVE  Registry!Publish(UploadArtifact(s))
<1> DEFINE a == UploadArtifact(s)
           was == [t \in Server |-> RunningOf(t)]
           before == [x \in ArtifactId |-> EntryOf(x)]
<1>1. pc[s] = "write" /\ up[s] # Absent /\ TypeOK
  BY DEF CommitManifestWrite, IInv, HandlerState
<1>2. a \in ArtifactId /\ manifests[a] \notin Manifest
  BY <1>1, CommitTypes DEF RInv, Unpublished
<1>3. EntriesOK /\ EntriesOK'
  BY EntryFacts, PTL
<1>4. \A x \in ArtifactId \ {a} : EntryOf(x)' = EntryOf(x)
  <2>1. \A x \in ArtifactId \ {a} : manifests'[x] = manifests[x]
    BY <1>1, <1>2 DEF CommitManifestWrite, TypeOK
  <2> QED BY <2>1, EntryMoves
<1>5. before' = [before EXCEPT ![a] = before'[a]]
  BY <1>2, <1>4
<1>6. /\ before[a] = Absent
      /\ before'[a] \in PublishedEntry /\ ValidEntry(a, before'[a])
  BY <1>2, <1>3 DEF EntriesOK
<1>7. \A t \in Server : RunningOf(t)' = RunningOf(t)
  <2>1. manifests' # manifests
    BY <1>2
  <2>2. \A t \in Server : ~DeployStat(t) /\ ~DeployExec(t) /\ ~Restart(t)
    BY <2>1 DEF DeployStat, DeployExec, Restart, files
  <2> QED BY <2>2, RunningKept
<1>8. was' = was
  BY <1>7
<1> QED BY <1>5, <1>6, <1>8 DEF Registry!Publish

\* A deploy that has found its file starts its command on the entry it read.
LEMMA StatStarts ==
    ASSUME IInv, RInv, NEW s \in Server, DeployStat(s)
    PROVE  Registry!StartDeploy(s)
<1> DEFINE was == [t \in Server |-> RunningOf(t)]
           before == [x \in ArtifactId |-> EntryOf(x)]
<1>1. /\ pc[s] = "stat" /\ pc' = [pc EXCEPT ![s] = "exec"] /\ TypeOK
      /\ UNCHANGED <<manifests, committed, dep>>
  BY DEF DeployStat, Goto, files, IInv
<1>2. /\ dep[s].id \in ArtifactId /\ manifests[dep[s].id] \in Manifest
      /\ RunningOf(s)' = EntryOf(dep[s].id)
  BY <1>1, ReadsEntry DEF RunningOf, DeployPath, TypeOK
<1>3. before[dep[s].id] # Absent
  BY <1>2, EntryFacts DEF EntriesOK
<1>4. was[s] = Absent
  BY <1>1 DEF RunningOf
<1>5. \A t \in Server \ {s} : RunningOf(t)' = RunningOf(t)
  BY <1>1 DEF RunningOf, DeployPath, TypeOK
<1>6. was' = [was EXCEPT ![s] = before[dep[s].id]]
  BY <1>2, <1>5
<1>7. before' = before
  BY <1>1 DEF EntryOf
<1> QED BY <1>2, <1>3, <1>4, <1>6, <1>7 DEF Registry!StartDeploy

\* The end of the command, or of its process, ends the deployment.
LEMMA ExecEnds ==
    ASSUME IInv, RInv, NEW s \in Server, pc[s] = "exec", DeployExec(s) \/ Restart(s)
    PROVE  Registry!EndDeployment(s)
<1> DEFINE was == [t \in Server |-> RunningOf(t)]
           before == [x \in ArtifactId |-> EntryOf(x)]
<1>1. /\ pc' = [pc EXCEPT ![s] = "idle"] /\ dep' = [dep EXCEPT ![s] = Absent] /\ TypeOK
      /\ UNCHANGED <<manifests, committed>>
  BY DEF DeployExec, Restart, EndDeploy, Goto, files, IInv
<1>2. was[s] # Absent
  <2>1. RunningOf(s) = EntryOf(dep[s].id)
    BY ReadsEntry DEF RunningOf
  <2> QED BY <2>1, ReadsEntry, EntryFacts DEF EntriesOK
<1>3. RunningOf(s)' = Absent
  BY <1>1 DEF RunningOf, TypeOK
<1>4. \A t \in Server \ {s} : RunningOf(t)' = RunningOf(t)
  BY <1>1 DEF RunningOf, DeployPath, TypeOK
<1>5. was' = [was EXCEPT ![s] = Absent]
  BY <1>3, <1>4
<1>6. before' = before
  BY <1>1 DEF EntryOf
<1> QED BY <1>2, <1>5, <1>6 DEF Registry!EndDeployment

LEMMA StoreSimulates ==
    /\ "close" \notin Fault
    /\ IInv /\ RInv /\ IInv' /\ RInv' /\ Orderly
    /\ [StoreNext]_vars
    => [Registry!RegistryNext]_(Registry!avars)
<1> SUFFICES ASSUME "close" \notin Fault, IInv, RInv, IInv', RInv', Orderly,
                    [StoreNext]_vars
             PROVE  [Registry!RegistryNext]_(Registry!avars)
  OBVIOUS
<1>1. ASSUME NEW s \in Server, CommitManifestWrite(s),
             manifests'[UploadArtifact(s)] \in Manifest
      PROVE  Registry!RegistryNext
  <2>1. UploadArtifact(s) \in ArtifactId
    BY <1>1, CommitTypes DEF CommitManifestWrite, IInv, HandlerState
  <2> QED BY <1>1, <2>1, WritePublishes DEF Registry!RegistryNext
<1>2. ASSUME NEW s \in Server, DeployStat(s)
      PROVE  Registry!RegistryNext
  BY <1>2, StatStarts DEF Registry!RegistryNext
<1>3. ASSUME NEW s \in Server, pc[s] = "exec", DeployExec(s) \/ Restart(s)
      PROVE  Registry!RegistryNext
  BY <1>3, ExecEnds DEF Registry!RegistryNext
<1>4. ASSUME \A s \in Server :
                /\ ~(CommitManifestWrite(s) /\ manifests'[UploadArtifact(s)] \in Manifest)
                /\ ~DeployStat(s)
                /\ ~(pc[s] = "exec" /\ (DeployExec(s) \/ Restart(s)))
      PROVE  UNCHANGED Registry!avars
  <2>1. \A a \in ArtifactId : EntryOf(a)' = EntryOf(a)
    <3> SUFFICES ASSUME NEW a \in ArtifactId PROVE EntryOf(a)' = EntryOf(a)
      OBVIOUS
    <3>1. manifests[a] \in Manifest \/ manifests'[a] \notin Manifest
      BY <1>4, ManifestMoves DEF Orderly
    <3> QED BY <3>1, EntryMoves
  <2>2. \A s \in Server : RunningOf(s)' = RunningOf(s)
    BY <1>4, RunningKept
  <2> QED BY <2>1, <2>2 DEF Registry!avars
<1> QED BY <1>1, <1>2, <1>3, <1>4

\* Of clients that do not commit one artifact at the same time, the store is a
\* registry: an artifact is published once, whole, verified and for good, and a
\* deploy command starts only on a published one of its profile.  For every
\* fault but the close of a manifest, and for crashes.
THEOREM Implementation ==
    ASSUME "close" \notin Fault
    PROVE  Spec /\ []Orderly => ImplementsRegistry
<1>1. Init => Registry!RegistryInit
  BY AbsentAssumption DEF Init, Registry!RegistryInit, EntryOf, RunningOf
<1>2. IInv /\ RInv /\ Orderly /\ [Next]_vars => RInv'
  BY RInvStep, NextIsStoreNext
<1>3. /\ IInv /\ RInv /\ IInv' /\ RInv' /\ Orderly /\ [Next]_vars
      => [Registry!RegistryNext]_(Registry!avars)
  BY StoreSimulates, NextIsStoreNext
<1> QED
  BY <1>1, <1>2, <1>3, RInvInit, Invariance, PTL
     DEF Spec, ImplementsRegistry, Registry!RegistrySpec
=============================================================================
