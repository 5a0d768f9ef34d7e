--------------------------- MODULE ArtifactStore ---------------------------
(***************************************************************************)
(* The artifact service of the MCP server (internal/artifact/doc.go).      *)
(*                                                                         *)
(* Every SSH connection starts one server process (cmd/server/main.go), so *)
(* several processes work on one artifact root at the same time.  A        *)
(* process answers one request at a time, hence a handler never overlaps   *)
(* another handler of its own process; what interleaves are the system     *)
(* calls that handlers of DIFFERENT processes make on the shared           *)
(* directories uploads/ and committed/.  A handler that touches the shared *)
(* directories once is one action; commit and deploy touch them several    *)
(* times and are split at each call (pc).                                  *)
(*                                                                         *)
(* Files survive a process; sessions do not: they live in the map of the   *)
(* process that opened them.                                               *)
(***************************************************************************)
EXTENDS Integers, Sequences, FiniteSets

CONSTANTS
    Server,      \* server processes, one per connection
    UploadId,    \* ids randomID can draw; an id names a session and its file
    Profile,     \* deploy profile ids of the configuration
    Base, Ext,   \* an artifact name is a base and an archive extension
    LongBase,    \* bases whose artifact id would exceed 128 characters
    Allowed(_),  \* names that are safe and match a profile's pattern
    Byte,        \* units an upload is made of
    Sha,         \* well-formed SHA-256 strings
    Digest(_),   \* SHA-256 of a file's content
    Short(_),    \* first 12 hex digits of a digest
    MaxUpload,   \* max_upload_bytes
    MaxChunk,    \* max_chunk_bytes
    SizeArg,     \* bound: sizes a client may declare
    DataArg,     \* bound: data a client may send in one chunk
    MaxFile,     \* bound: length failed writes may grow an upload file to
    Fault,       \* the operating-system failures that may happen
    Absent,      \* no such file, session or value
    Empty,       \* a manifest file created and not written yet
    Torn         \* a manifest file that does not parse

Faults == {"create", "write", "hash", "rename", "manifest", "close", "remove",
           "command", "crash"}

Content == Seq(Byte)
ArtifactId == [base : Base, short : {Short(d) : d \in Sha}]
Name == [base : Base, ext : Ext]
Path == [id : ArtifactId, ext : Ext]
Session == [profile : Profile, name : Name, size : Nat, sha : Sha,
            received : Nat]
Manifest == [profile : Profile, name : Name, size : Nat, sha : Sha]
Upload == [id : UploadId, session : Session]
Deployment == [id : ArtifactId, profile : Profile, manifest : Manifest]

ASSUME BoundAssumption ==
    /\ MaxUpload \in Nat \ {0} /\ MaxChunk \in Nat \ {0}
    /\ SizeArg \subseteq Int /\ DataArg \subseteq Content /\ MaxFile \in Nat
ASSUME NameAssumption ==
    /\ LongBase \subseteq Base
    /\ \A p \in Profile : Allowed(p) \subseteq Name
ASSUME FaultAssumption == Fault \subseteq Faults
ASSUME AbsentAssumption ==
    /\ Absent \notin Content \cup Session \cup Upload \cup Deployment
                     \cup Manifest \cup UploadId \cup ArtifactId
    /\ Empty \notin Manifest /\ Torn \notin Manifest
    /\ Absent # Empty /\ Absent # Torn /\ Empty # Torn
\* Two different artifacts of one base never share the first 12 hex digits
\* of their digests; the code relies on it by naming files after them.
ASSUME ShortAssumption ==
    \A d, e \in Sha : Short(d) = Short(e) => d = e

VARIABLES
    uploads,     \* uploads/<upload id>.part, per upload id
    committed,   \* committed/<artifact id><ext>, per path
    manifests,   \* committed/<artifact id>.json, per artifact id
    sessions,    \* Service.sessions of each process
    pc,          \* where each process is in its current handler
    up,          \* the session a commit took out of the map
    dep,         \* the manifest a deploy has read
    reply        \* the last result each process sent

vars == <<uploads, committed, manifests, sessions, pc, up, dep, reply>>
files == <<uploads, committed, manifests>>

NoReply == [kind |-> "none", id |-> Absent]
ReplyKind == {"none", "opened", "accepted", "committed", "already",
              "aborted", "deployed", "failed", "rejected"}

TypeOK ==
    /\ uploads \in [UploadId -> Content \cup {Absent}]
    /\ committed \in [Path -> Content \cup {Absent}]
    /\ manifests \in [ArtifactId -> Manifest \cup {Absent, Empty, Torn}]
    /\ sessions \in [Server -> [UploadId -> Session \cup {Absent}]]
    /\ pc \in [Server -> {"idle", "verify", "rename", "create", "write",
                          "undo", "stat", "exec"}]
    /\ up \in [Server -> Upload \cup {Absent}]
    /\ dep \in [Server -> Deployment \cup {Absent}]
    /\ reply \in [Server -> [kind : ReplyKind,
                             id : UploadId \cup ArtifactId \cup {Absent}]]

Init ==
    /\ uploads = [u \in UploadId |-> Absent]
    /\ committed = [p \in Path |-> Absent]
    /\ manifests = [a \in ArtifactId |-> Absent]
    /\ sessions = [s \in Server |-> [u \in UploadId |-> Absent]]
    /\ pc = [s \in Server |-> "idle"]
    /\ up = [s \in Server |-> Absent]
    /\ dep = [s \in Server |-> Absent]
    /\ reply = [s \in Server |-> NoReply]

----------------------------------------------------------------------------
(* Helpers *)

ArtifactIdOf(name, d) == [base |-> name.base, short |-> Short(d)]
PathOf(name, d) == [id |-> ArtifactIdOf(name, d), ext |-> name.ext]
UploadPath(s) == PathOf(up[s].session.name, up[s].session.sha)
UploadArtifact(s) == ArtifactIdOf(up[s].session.name, up[s].session.sha)

\* The manifest commit marshals for the session it took.
ManifestOf(x) ==
    [profile |-> x.profile, name |-> x.name, size |-> x.size, sha |-> x.sha]

Send(s, kind, id) == reply' = [reply EXCEPT ![s] = [kind |-> kind, id |-> id]]
Reject(s) == Send(s, "rejected", Absent)
Goto(s, label) == pc' = [pc EXCEPT ![s] = label]

\* The commit handler of s returns and drops the session it had taken.
Return(s) == Goto(s, "idle") /\ up' = [up EXCEPT ![s] = Absent]

\* os.Remove with its error ignored: the file is gone, or the call failed.
Remove(f, k) == {[f EXCEPT ![k] = Absent]} \cup
                (IF "remove" \in Fault THEN {f} ELSE {})

----------------------------------------------------------------------------
(* artifact_upload_begin *)

BeginAllowed(p, n, size, sha) ==
    /\ size > 0 /\ size =< MaxUpload
    /\ sha \in Sha
    /\ p \in Profile /\ n \in Allowed(p)

\* Seeded bug: the file is opened without O_EXCL.
BeginAcceptShared(s, p, n, size, sha, u) ==
    /\ pc[s] = "idle"
    /\ BeginAllowed(p, n, size, sha)
    /\ uploads' = [uploads EXCEPT ![u] = <<>>]
    /\ sessions' = [sessions EXCEPT ![s][u] =
          [profile |-> p, name |-> n, size |-> size, sha |-> sha,
           received |-> 0]]
    /\ Send(s, "opened", u)
    /\ UNCHANGED <<committed, manifests, pc, up, dep>>

\* A session is opened on a file that O_EXCL created.
BeginAccept(s, p, n, size, sha, u) ==
    /\ pc[s] = "idle"
    /\ BeginAllowed(p, n, size, sha)
    /\ uploads[u] = Absent
    /\ uploads' = [uploads EXCEPT ![u] = <<>>]
    /\ sessions' = [sessions EXCEPT ![s][u] =
          [profile |-> p, name |-> n, size |-> size, sha |-> sha,
           received |-> 0]]
    /\ Send(s, "opened", u)
    /\ UNCHANGED <<committed, manifests, pc, up, dep>>

BeginRefuse(s, p, n, size, sha) ==
    /\ pc[s] = "idle"
    /\ ~BeginAllowed(p, n, size, sha) \/ "create" \in Fault
    /\ Reject(s)
    /\ UNCHANGED <<files, sessions, pc, up, dep>>

----------------------------------------------------------------------------
(* artifact_upload_chunk *)

\* Seeded bug: the declared size is not enforced.
ChunkAllowedUnbounded(s, u, offset, data) ==
    /\ data # <<>> /\ Len(data) =< MaxChunk
    /\ sessions[s][u] # Absent
    /\ offset = sessions[s][u].received

ChunkAllowed(s, u, offset, data) ==
    /\ data # <<>> /\ Len(data) =< MaxChunk
    /\ sessions[s][u] # Absent
    /\ offset = sessions[s][u].received
    /\ sessions[s][u].received + Len(data) =< sessions[s][u].size

\* session.Received += n
Advance(x, n) == [x EXCEPT !.received = x.received + n]

ChunkAccept(s, u, offset, data) ==
    /\ pc[s] = "idle"
    /\ ChunkAllowed(s, u, offset, data)
    /\ uploads' = [uploads EXCEPT ![u] = @ \o data]
    /\ sessions' = [sessions EXCEPT ![s][u] =
          Advance(sessions[s][u], Len(data))]
    /\ Send(s, "accepted", u)
    /\ UNCHANGED <<committed, manifests, pc, up, dep>>

ChunkRefuse(s, u, offset, data) ==
    /\ pc[s] = "idle"
    /\ ~ChunkAllowed(s, u, offset, data)
    /\ Reject(s)
    /\ UNCHANGED <<files, sessions, pc, up, dep>>

\* Open, write or close fails: any prefix of the data may have been appended,
\* and Received stays what it was.
ChunkFail(s, u, offset, data) ==
    /\ "write" \in Fault
    /\ pc[s] = "idle"
    /\ ChunkAllowed(s, u, offset, data)
    /\ \E k \in 0..Len(data) :
          /\ Len(uploads[u]) + k =< MaxFile
          /\ uploads' = [uploads EXCEPT ![u] = @ \o SubSeq(data, 1, k)]
    /\ Reject(s)
    /\ UNCHANGED <<committed, manifests, sessions, pc, up, dep>>

----------------------------------------------------------------------------
(* artifact_upload_commit *)

CommitAllowed(s, u) ==
    /\ sessions[s][u] # Absent
    /\ sessions[s][u].received = sessions[s][u].size

CommitRefuse(s, u) ==
    /\ pc[s] = "idle"
    /\ ~CommitAllowed(s, u)
    /\ Reject(s)
    /\ UNCHANGED <<files, sessions, pc, up, dep>>

\* The session leaves the map before anything is verified.
CommitTake(s, u) ==
    /\ pc[s] = "idle"
    /\ CommitAllowed(s, u)
    /\ up' = [up EXCEPT ![s] = [id |-> u, session |-> sessions[s][u]]]
    /\ sessions' = [sessions EXCEPT ![s][u] = Absent]
    /\ Goto(s, "verify")
    /\ reply' = [reply EXCEPT ![s] = NoReply]
    /\ UNCHANGED <<files, dep>>

\* Seeded bug: the digest of the request is taken for granted.
ShaTrusted(s) == uploads[up[s].id] # Absent

ShaMatches(s) == Digest(uploads[up[s].id]) = up[s].session.sha
IdValid(s) == up[s].session.name.base \notin LongBase

\* The file cannot be read; it is left behind in uploads/.
CommitUnreadable(s) ==
    /\ "hash" \in Fault
    /\ pc[s] = "verify"
    /\ Return(s) /\ Reject(s)
    /\ UNCHANGED <<files, sessions, dep>>

\* Seeded bug: a refused upload is not removed.
CommitDiscardKept(s) ==
    /\ pc[s] = "verify"
    /\ ~ShaMatches(s) \/ ~IdValid(s)
    /\ Return(s) /\ Reject(s)
    /\ UNCHANGED <<files, sessions, dep>>

\* Wrong digest or an artifact id that is too long.
CommitDiscard(s) ==
    /\ pc[s] = "verify"
    /\ ~ShaMatches(s) \/ ~IdValid(s)
    /\ uploads' \in Remove(uploads, up[s].id)
    /\ Return(s) /\ Reject(s)
    /\ UNCHANGED <<committed, manifests, sessions, dep>>

\* Seeded bug: the committed file is removed in place of the upload.
CommitAlreadyRemoved(s) ==
    /\ pc[s] = "verify"
    /\ ShaMatches(s) /\ IdValid(s)
    /\ committed[UploadPath(s)] # Absent
    /\ committed' \in Remove(committed, UploadPath(s))
    /\ Return(s) /\ Send(s, "already", UploadArtifact(s))
    /\ UNCHANGED <<uploads, manifests, sessions, dep>>

\* os.Stat finds the path taken: "artifact is already committed."
CommitAlready(s) ==
    /\ pc[s] = "verify"
    /\ ShaMatches(s) /\ IdValid(s)
    /\ committed[UploadPath(s)] # Absent
    /\ uploads' \in Remove(uploads, up[s].id)
    /\ Return(s) /\ Send(s, "already", UploadArtifact(s))
    /\ UNCHANGED <<committed, manifests, sessions, dep>>

\* Seeded bug: nobody looks whether the path is taken.
CommitVerifyUnchecked(s) ==
    /\ pc[s] = "verify"
    /\ ShaMatches(s) /\ IdValid(s)
    /\ Goto(s, "rename")
    /\ UNCHANGED <<files, sessions, up, dep, reply>>

CommitVerify(s) ==
    /\ pc[s] = "verify"
    /\ ShaMatches(s) /\ IdValid(s)
    /\ committed[UploadPath(s)] = Absent
    /\ Goto(s, "rename")
    /\ UNCHANGED <<files, sessions, up, dep, reply>>

\* os.Rename replaces whatever the path holds by now.
CommitRename(s) ==
    /\ pc[s] = "rename"
    /\ committed' = [committed EXCEPT ![UploadPath(s)] = uploads[up[s].id]]
    /\ uploads' = [uploads EXCEPT ![up[s].id] = Absent]
    /\ Goto(s, "create")
    /\ UNCHANGED <<manifests, sessions, up, dep, reply>>

\* Seeded bug: a failed rename cleans up the target.
CommitRenameFailRemoved(s) ==
    /\ "rename" \in Fault
    /\ pc[s] = "rename"
    /\ committed' = [committed EXCEPT ![UploadPath(s)] = Absent]
    /\ Return(s) /\ Reject(s)
    /\ UNCHANGED <<uploads, manifests, sessions, dep>>

\* The upload file stays behind, without a session.
CommitRenameFail(s) ==
    /\ "rename" \in Fault
    /\ pc[s] = "rename"
    /\ Return(s) /\ Reject(s)
    /\ UNCHANGED <<files, sessions, dep>>

\* ioutil.WriteFile, first call: create the manifest, or truncate it.
CommitManifestOpen(s) ==
    /\ pc[s] = "create"
    /\ manifests' = [manifests EXCEPT ![UploadArtifact(s)] = Empty]
    /\ Goto(s, "write")
    /\ UNCHANGED <<uploads, committed, sessions, up, dep, reply>>

CommitManifestOpenFail(s) ==
    /\ "manifest" \in Fault
    /\ pc[s] = "create"
    /\ Goto(s, "undo")
    /\ UNCHANGED <<files, sessions, up, dep, reply>>

\* Second call: the bytes go to the start of a file another process may have
\* filled meanwhile.  A longer manifest leaves its tail behind ours.
Written(s) ==
    {ManifestOf(up[s].session)} \cup
    (IF manifests[UploadArtifact(s)] = Empty THEN {} ELSE {Torn})

CommitManifestWrite(s) ==
    /\ pc[s] = "write"
    /\ \E m \in Written(s) :
          manifests' = [manifests EXCEPT ![UploadArtifact(s)] = m]
    /\ Return(s) /\ Send(s, "committed", UploadArtifact(s))
    /\ UNCHANGED <<uploads, committed, sessions, dep>>

\* The manifest is whole, but closing it reports an error.
CommitManifestCloseFail(s) ==
    /\ "close" \in Fault
    /\ pc[s] = "write"
    /\ \E m \in Written(s) :
          manifests' = [manifests EXCEPT ![UploadArtifact(s)] = m]
    /\ Goto(s, "undo")
    /\ UNCHANGED <<uploads, committed, sessions, up, dep, reply>>

CommitManifestWriteFail(s) ==
    /\ "manifest" \in Fault
    /\ pc[s] = "write"
    /\ \E m \in {Torn, manifests[UploadArtifact(s)]} :
          manifests' = [manifests EXCEPT ![UploadArtifact(s)] = m]
    /\ Goto(s, "undo")
    /\ UNCHANGED <<uploads, committed, sessions, up, dep, reply>>

\* The artifact is removed again; what is left of the manifest is not.
CommitUndo(s) ==
    /\ pc[s] = "undo"
    /\ committed' \in Remove(committed, UploadPath(s))
    /\ Return(s) /\ Reject(s)
    /\ UNCHANGED <<uploads, manifests, sessions, dep>>

----------------------------------------------------------------------------
(* artifact_upload_abort *)

\* An unknown session is reported aborted too.
UploadAbort(s, u) ==
    /\ pc[s] = "idle"
    /\ IF sessions[s][u] = Absent
       THEN UNCHANGED uploads
       ELSE uploads' \in Remove(uploads, u)
    /\ sessions' = [sessions EXCEPT ![s][u] = Absent]
    /\ Send(s, "aborted", u)
    /\ UNCHANGED <<committed, manifests, pc, up, dep>>

----------------------------------------------------------------------------
(* deploy_artifact *)

\* Seeded bugs: the profile of the manifest is not compared; a manifest that
\* does not parse is used all the same.
DeployAllowedAnyProfile(p, a) == p \in Profile /\ manifests[a] \in Manifest
DeployAllowedUnparsed(p, a) == p \in Profile /\ manifests[a] # Absent

DeployAllowed(p, a) ==
    /\ p \in Profile
    /\ manifests[a] \in Manifest
    /\ manifests[a].profile = p

DeployRefuse(s, p, a) ==
    /\ pc[s] = "idle"
    /\ ~DeployAllowed(p, a)
    /\ Reject(s)
    /\ UNCHANGED <<files, sessions, pc, up, dep>>

DeployLookup(s, p, a) ==
    /\ pc[s] = "idle"
    /\ DeployAllowed(p, a)
    /\ dep' = [dep EXCEPT ![s] =
          [id |-> a, profile |-> p, manifest |-> manifests[a]]]
    /\ Goto(s, "stat")
    /\ reply' = [reply EXCEPT ![s] = NoReply]
    /\ UNCHANGED <<files, sessions, up>>

\* The path joins the id of the request and the extension of the manifest.
DeployPath(s) == [id |-> dep[s].id, ext |-> dep[s].manifest.name.ext]

EndDeploy(s) == Goto(s, "idle") /\ dep' = [dep EXCEPT ![s] = Absent]

DeployStat(s) ==
    /\ pc[s] = "stat"
    /\ committed[DeployPath(s)] # Absent
    /\ Goto(s, "exec")
    /\ UNCHANGED <<files, sessions, up, dep, reply>>

DeployMissing(s) ==
    /\ pc[s] = "stat"
    /\ committed[DeployPath(s)] = Absent
    /\ EndDeploy(s) /\ Reject(s)
    /\ UNCHANGED <<files, sessions, up>>

\* The deploy command opens the path; it fails when the file is gone.
DeployExec(s) ==
    /\ pc[s] = "exec"
    /\ \/ committed[DeployPath(s)] # Absent /\ Send(s, "deployed", dep[s].id)
       \/ /\ committed[DeployPath(s)] = Absent \/ "command" \in Fault
          /\ Send(s, "failed", dep[s].id)
    /\ EndDeploy(s)
    /\ UNCHANGED <<files, sessions, up>>

----------------------------------------------------------------------------
(* The process *)

\* The connection ends and a later one starts a new process in its place.
\* Between two requests that needs no fault; in the middle of a handler it is
\* a crash.  Only files survive.
Restart(s) ==
    /\ pc[s] = "idle" \/ "crash" \in Fault
    /\ sessions' = [sessions EXCEPT ![s] = [u \in UploadId |-> Absent]]
    /\ Goto(s, "idle")
    /\ up' = [up EXCEPT ![s] = Absent]
    /\ dep' = [dep EXCEPT ![s] = Absent]
    /\ reply' = [reply EXCEPT ![s] = NoReply]
    /\ UNCHANGED files

CommitStep(s) ==
    \/ CommitUnreadable(s) \/ CommitDiscard(s) \/ CommitAlready(s)
    \/ CommitVerify(s) \/ CommitRename(s) \/ CommitRenameFail(s)
    \/ CommitManifestOpen(s) \/ CommitManifestOpenFail(s)
    \/ CommitManifestWrite(s) \/ CommitManifestCloseFail(s)
    \/ CommitManifestWriteFail(s) \/ CommitUndo(s)

DeployStep(s) == DeployStat(s) \/ DeployMissing(s) \/ DeployExec(s)

\* The rest of a handler that has started.
Continue(s) == CommitStep(s) \/ DeployStep(s)

Begin(s) ==
    \E p \in Profile, n \in Name, size \in SizeArg, sha \in Sha :
        \/ \E u \in UploadId : BeginAccept(s, p, n, size, sha, u)
        \/ BeginRefuse(s, p, n, size, sha)

Chunk(s) ==
    \E u \in UploadId, offset \in 0..MaxUpload, data \in DataArg :
        \/ ChunkAccept(s, u, offset, data)
        \/ ChunkRefuse(s, u, offset, data)
        \/ ChunkFail(s, u, offset, data)

Commit(s) == \E u \in UploadId : CommitTake(s, u) \/ CommitRefuse(s, u)
Abort(s) == \E u \in UploadId : UploadAbort(s, u)
Deploy(s) ==
    \E p \in Profile, a \in ArtifactId :
        DeployLookup(s, p, a) \/ DeployRefuse(s, p, a)

Next ==
    \E s \in Server :
        \/ Begin(s) \/ Chunk(s) \/ Commit(s) \/ Abort(s) \/ Deploy(s)
        \/ Continue(s)
        \/ Restart(s)

Spec == Init /\ [][Next]_vars

----------------------------------------------------------------------------
(* Properties *)

\* Who may write or rename uploads/<u>.part: the process with a session on it,
\* and the commit that took that session, until the rename.
HasSession(s, u) == sessions[s][u] # Absent
InHand(s, u) == pc[s] \in {"verify", "rename"} /\ up[s].id = u

\* An upload file has one owner in all processes, which finds it present: two
\* handlers never append to, hash or rename the same file, although the map
\* that guards a session is private to its process.
OneOwner ==
    \A u \in UploadId :
        /\ \A s \in Server : HasSession(s, u) \/ InHand(s, u)
                                => uploads[u] # Absent
        /\ \A s \in Server : ~(HasSession(s, u) /\ InHand(s, u))
        /\ \A s, t \in Server :
              /\ HasSession(s, u) \/ InHand(s, u)
              /\ HasSession(t, u) \/ InHand(t, u)
              => s = t

\* Every byte a chunk reply acknowledged is in the file, and the client was
\* never acknowledged more than it declared; without write errors the file
\* holds nothing else.
AcknowledgedBytes ==
    \A s \in Server, u \in UploadId :
        HasSession(s, u) =>
            LET x == sessions[s][u]
            IN  /\ x.received =< x.size
                /\ x.received =< Len(uploads[u])
                /\ "write" \notin Fault => x.received = Len(uploads[u])

\* Whatever two processes and the operating system do, a file under committed/
\* has the digest its name announces.
ContentAddressed ==
    \A p \in Path :
        committed[p] # Absent =>
            /\ Digest(committed[p]) \in Sha
            /\ Short(Digest(committed[p])) = p.id.short

\* A manifest that parses is about the artifact it is filed under, names an
\* artifact its profile accepts, and gives the digest of the file next to it.
ManifestTruthful ==
    \A a \in ArtifactId :
        manifests[a] \in Manifest =>
            LET m == manifests[a]
                f == committed[PathOf(m.name, m.sha)]
            IN  /\ ArtifactIdOf(m.name, m.sha) = a
                /\ m.name \in Allowed(m.profile)
                /\ f # Absent => Digest(f) = m.sha

\* When the deploy command starts, the file behind the path it was given is
\* the one the manifest vouched for, or no file: the check of the manifest,
\* the stat and the use of the path are separate steps that commits of other
\* processes interleave with.
DeployUsesCommitted ==
    \A s \in Server :
        pc[s] = "exec" =>
            LET f == committed[DeployPath(s)]
            IN  /\ f # Absent => Digest(f) = dep[s].manifest.sha
                /\ dep[s].manifest.name \in Allowed(dep[s].profile)
                /\ dep[s].manifest.profile = dep[s].profile

\* As long as manifests can be written, a file that was committed stays as it
\* is: a racing commit of the same artifact, an abort, a refused commit or a
\* crash never removes or changes it.
CommittedStays ==
    [][\A p \in Path : committed[p] # Absent => committed'[p] = committed[p]]_vars

\* As long as manifests can be written, a manifest that parses has its file,
\* so a deploy that read it finds the artifact.
ManifestHasFile ==
    \A a \in ArtifactId :
        manifests[a] \in Manifest =>
            committed[PathOf(manifests[a].name, manifests[a].sha)] # Absent

=============================================================================
