---------------------------- MODULE DeployClient ----------------------------
(***************************************************************************)
(* cmd/deploy-artifact: the program that uploads, commits and deploys an   *)
(* artifact over one connection, composed with the store.                  *)
(*                                                                         *)
(* The client at the other end of the connection of process s is client s. *)
(* It sends one request, waits for the answer line and goes on, so at most *)
(* one request is under way per connection.  A request is sent and taken   *)
(* by the handler in one step; the answer is read in a step of its own,    *)
(* when the handler has returned.  A lost connection ends the client; the  *)
(* server process notices only when its current handler has returned.      *)
(***************************************************************************)
EXTENDS ArtifactStore

CONSTANTS
    LocalExt,    \* extensions of local artifact files
    LocalFile,   \* contents of local artifact files
    ClientFault, \* "lost": connections break; "edit": files change under way;
                 \* "read": files cannot be read any more
    LossBound    \* bound: connections break while uploads/ holds fewer files

ASSUME ClientAssumption ==
    /\ ClientFault \subseteq {"lost", "edit", "read"} /\ LossBound \in Nat
    /\ LocalFile \subseteq Content

VARIABLES
    step,        \* where each client is in runDeploy
    run          \* what its run is about

cvars == <<vars, step, run>>

ClientStep == {"off", "begin", "begun", "upload", "chunked", "committing",
               "deploy", "deploying", "abort", "aborting", "done", "failed",
               "lost"}

Ended == {"done", "failed", "lost"}
Running(s) == step[s] \notin Ended \cup {"off"}

----------------------------------------------------------------------------
(* The local artifact *)

\* mcpArtifactName: the store knows .tgz files as .tar.gz.
mcpArtifactName(name) ==
    [name EXCEPT !.ext = IF name.ext = "tgz" THEN "tar.gz" ELSE name.ext]

\* main: stat, then the digest; runDeploy reads the file a third time.
Start(s) ==
    /\ step[s] = "off"
    /\ \E p \in Profile, b \in Base, e \in LocalExt, h, f, g \in LocalFile :
          /\ (h = f /\ f = g) \/ "edit" \in ClientFault
          /\ run' = [run EXCEPT ![s] =
                [profile |-> p, name |-> mcpArtifactName([base |-> b, ext |-> e]),
                 size |-> Len(h), sha |-> Digest(f), file |-> g,
                 upload |-> Absent, sent |-> 0, id |-> Absent]]
    /\ step' = [step EXCEPT ![s] = "begin"]
    /\ UNCHANGED vars

----------------------------------------------------------------------------
(* Requests *)

\* The client has sent a request and the process has taken it.
Sent(s, label) == step' = [step EXCEPT ![s] = label] /\ UNCHANGED run

SendBegin(s) ==
    LET r == run[s] IN
    /\ step[s] = "begin"
    /\ \/ \E u \in UploadId : BeginAccept(s, r.profile, r.name, r.size, r.sha, u)
       \/ BeginRefuse(s, r.profile, r.name, r.size, r.sha)
    /\ Sent(s, "begun")

\* The next chunk: as much as the server takes, the rest at the end.
NextChunk(r) ==
    LET end == r.sent + MaxChunk
    IN  SubSeq(r.file, r.sent + 1, IF end < Len(r.file) THEN end ELSE Len(r.file))

SendChunk(s) ==
    LET r == run[s] IN
    /\ step[s] = "upload" /\ r.sent < Len(r.file)
    /\ \/ ChunkAccept(s, r.upload, r.sent, NextChunk(r))
       \/ ChunkRefuse(s, r.upload, r.sent, NextChunk(r))
       \/ ChunkFail(s, r.upload, r.sent, NextChunk(r))
    /\ Sent(s, "chunked")

SendCommit(s) ==
    LET r == run[s] IN
    /\ step[s] = "upload" /\ r.sent = Len(r.file)
    /\ CommitTake(s, r.upload) \/ CommitRefuse(s, r.upload)
    /\ Sent(s, "committing")

SendDeploy(s) ==
    LET r == run[s] IN
    /\ step[s] = "deploy"
    /\ DeployLookup(s, r.profile, r.id) \/ DeployRefuse(s, r.profile, r.id)
    /\ Sent(s, "deploying")

\* The local file cannot be opened or read: nothing more is uploaded.
Unreadable(s) ==
    /\ "read" \in ClientFault
    /\ step[s] = "upload"
    /\ step' = [step EXCEPT ![s] = "abort"]
    /\ UNCHANGED <<vars, run>>

\* The deferred abort of an upload that was not committed.
SendAbort(s) ==
    /\ step[s] = "abort"
    /\ UploadAbort(s, run[s].upload)
    /\ Sent(s, "aborting")

----------------------------------------------------------------------------
(* Answers *)

\* The handler has returned and its answer says kind.
Answer(s, label, kinds) ==
    /\ step[s] = label /\ pc[s] = "idle"
    /\ reply[s].kind \in kinds
    /\ UNCHANGED vars

Then(s, label, r) ==
    step' = [step EXCEPT ![s] = label] /\ run' = [run EXCEPT ![s] = r]

GotUpload(s) ==
    /\ Answer(s, "begun", {"opened"})
    /\ Then(s, "upload", [run[s] EXCEPT !.upload = reply[s].id])

\* Seeded bug: the offset advances by the size of the buffer.
GotChunkBuffer(s) ==
    /\ Answer(s, "chunked", {"accepted"})
    /\ Then(s, "upload", [run[s] EXCEPT !.sent = run[s].sent + MaxChunk])

GotChunk(s) ==
    LET r == run[s] IN
    /\ Answer(s, "chunked", {"accepted"})
    /\ Then(s, "upload", [r EXCEPT !.sent = r.sent + Len(NextChunk(r))])

\* Seeded bug: "already committed" is not understood.
GotCommitOnce(s) ==
    /\ Answer(s, "committing", {"committed"})
    /\ Then(s, "deploy", [run[s] EXCEPT !.id = reply[s].id])

\* After "artifact is already committed." the client works out the id itself.
GotCommit(s) ==
    LET r == run[s] IN
    /\ Answer(s, "committing", {"committed", "already"})
    /\ Then(s, "deploy",
            [r EXCEPT !.id = IF reply[s].kind = "already"
                             THEN ArtifactIdOf(r.name, r.sha)
                             ELSE reply[s].id])

GotDeployed(s) ==
    Answer(s, "deploying", {"deployed"}) /\ Then(s, "done", run[s])

\* Seeded bug: a refused chunk is sent again.
GotErrorRetry(s) ==
    \/ /\ Answer(s, "begun", {"rejected"}) \/ Answer(s, "aborting", {"aborted"})
          \/ Answer(s, "deploying", {"rejected", "failed"})
       /\ Then(s, "failed", run[s])
    \/ Answer(s, "chunked", {"rejected"}) /\ Then(s, "upload", run[s])
    \/ Answer(s, "committing", {"rejected"}) /\ Then(s, "abort", run[s])

\* Errors end the run; a chunk or a commit that failed is aborted first.
GotError(s) ==
    \/ /\ Answer(s, "begun", {"rejected"}) \/ Answer(s, "aborting", {"aborted"})
          \/ Answer(s, "deploying", {"rejected", "failed"})
       /\ Then(s, "failed", run[s])
    \/ /\ Answer(s, "chunked", {"rejected"}) \/ Answer(s, "committing", {"rejected"})
       /\ Then(s, "abort", run[s])

----------------------------------------------------------------------------
(* The connection *)

\* The connection breaks: the client gives up, the abort it defers goes nowhere,
\* and the process still finishes the handler it is in.
Lose(s) ==
    /\ "lost" \in ClientFault
    /\ Running(s)
    /\ Cardinality({u \in UploadId : uploads[u] # Absent}) < LossBound
    /\ Then(s, "lost", run[s])
    /\ UNCHANGED vars

\* Seeded bug: the process does not finish the handler it is in.
DisconnectAtOnce(s) ==
    /\ step[s] \in Ended
    /\ sessions' = [sessions EXCEPT ![s] = [u \in UploadId |-> Absent]]
    /\ Goto(s, "idle")
    /\ up' = [up EXCEPT ![s] = Absent]
    /\ dep' = [dep EXCEPT ![s] = Absent]
    /\ reply' = [reply EXCEPT ![s] = NoReply]
    /\ Then(s, "off", Absent)
    /\ UNCHANGED files

\* The process reads the end of its input and exits; the next client of this
\* slot gets a new process.
Disconnect(s) ==
    /\ step[s] \in Ended /\ pc[s] = "idle"
    /\ Restart(s)
    /\ Then(s, "off", Absent)

\* The process dies under its client.
Crash(s) ==
    /\ "crash" \in Fault
    /\ Running(s)
    /\ Restart(s)
    /\ Then(s, "lost", run[s])

----------------------------------------------------------------------------

ClientInit ==
    /\ Init
    /\ step = [s \in Server |-> "off"]
    /\ run = [s \in Server |-> Absent]

ServerStep(s) == Continue(s) /\ UNCHANGED <<step, run>>

Request(s) ==
    SendBegin(s) \/ SendChunk(s) \/ SendCommit(s) \/ SendDeploy(s) \/ SendAbort(s)
Receive(s) ==
    GotUpload(s) \/ GotChunk(s) \/ GotCommit(s) \/ GotDeployed(s) \/ GotError(s)

Progress(s) == Request(s) \/ Receive(s) \/ ServerStep(s)

ClientNext ==
    \E s \in Server :
        \/ Start(s) \/ Progress(s) \/ Unreadable(s)
        \/ Lose(s) \/ Crash(s) \/ Disconnect(s)

ClientSpec == ClientInit /\ [][ClientNext]_cvars

\* A process that has work to do does it and a client whose answer is there
\* reads it: both are sequential programs that only block on each other.
ClientFairness == \A s \in Server : WF_cvars(Progress(s))
FairClientSpec == ClientSpec /\ ClientFairness

----------------------------------------------------------------------------
(* Properties *)

ClientTypeOK ==
    /\ TypeOK
    /\ step \in [Server -> ClientStep]
    /\ \A s \in Server :
          step[s] # "off" =>
              /\ run[s].sent \in 0..Len(run[s].file)
              /\ run[s].upload \in UploadId \cup {Absent}
              /\ run[s].id \in ArtifactId \cup {Absent}

\* The command a client's deploy starts works on the very bytes the client
\* took the digest of, also when another client committed them first, and
\* also when the local file changed after it was hashed.
DeploysItsOwnFile ==
    \A s \in Server :
        step[s] = "deploying" /\ pc[s] = "exec" =>
            LET f == committed[DeployPath(s)]
            IN  f # Absent => Digest(f) = run[s].sha

\* A client that was told its artifact is committed, by whatever message, is
\* not refused the deploy it goes on to ask for.
CommittedIsDeployable ==
    \A s \in Server : step[s] = "deploying" => reply[s].kind # "rejected"

\* Nobody is using the upload file any more.
Orphan(u) ==
    uploads[u] # Absent /\ \A s \in Server : ~HasSession(s, u) /\ ~InHand(s, u)

\* An upload file is left behind in uploads/ only by a connection that broke or
\* a rename that failed: no run that ends by itself leaves one, whichever way
\* it ends (refused, mismatched, unreadable or already there) and whatever the
\* other clients do meanwhile.  Removals work.
NothingLeftBehind ==
    [][\A u \in UploadId :
          Orphan(u)' => \/ Orphan(u)
                        \/ \E s \in Server : CommitRenameFail(s)
                        \/ \E s \in Server : /\ step[s] = "lost" \/ Crash(s)
                                             /\ HasSession(s, u) \/ InHand(s, u)]_cvars

\* Every run of the client ends.
RunEnds ==
    \A s \in Server : step[s] = "begin" ~> step[s] \in Ended

\* The run asks for something the configuration allows, for an intact file.
Sound(s) ==
    LET r == run[s] IN
    /\ BeginAllowed(r.profile, r.name, r.size, r.sha)
    /\ r.name.base \notin LongBase
    /\ Digest(r.file) = r.sha /\ Len(r.file) = r.size

\* Without system-call failures every run for an allowed, intact artifact ends
\* in a deploy unless its connection breaks: the first run, a run after one
\* that was cut off at any point, and a run that finds the artifact committed.
SoundRunDeploys ==
    \A s \in Server :
        step[s] = "begin" /\ Sound(s) ~> step[s] \in {"done", "lost"}
=============================================================================
