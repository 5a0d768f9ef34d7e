----------------------- MODULE ArtifactStoreRefinement -----------------------
(***************************************************************************)
(* ArtifactStore implements ArtifactRegistry as long as no two processes   *)
(* commit the same artifact at the same time and no content is committed   *)
(* under one base and two extensions.                                      *)
(***************************************************************************)
EXTENDS ArtifactStore

\* What is published under an id: the manifest, once it parses, and its file.
EntryOf(a) ==
    IF manifests[a] \in Manifest
    THEN [profile |-> manifests[a].profile, name |-> manifests[a].name,
          sha |-> manifests[a].sha,
          content |-> committed[PathOf(manifests[a].name, manifests[a].sha)]]
    ELSE Absent

\* What the deploy command of a process is reading.
RunningOf(s) ==
    IF pc[s] = "exec"
    THEN [profile |-> dep[s].profile, name |-> dep[s].manifest.name,
          sha |-> dep[s].manifest.sha, content |-> committed[DeployPath(s)]]
    ELSE Absent

\* What a registry of verified artifacts holds.
PublishedEntry == [profile : Profile, name : Name, sha : Sha, content : Content]

ValidEntry(a, e) ==
    /\ ArtifactIdOf(e.name, e.sha) = a
    /\ e.name \in Allowed(e.profile)
    /\ Digest(e.content) = e.sha

ASSUME EntryAssumption == Absent \notin PublishedEntry

Registry == INSTANCE ArtifactRegistry WITH
    Deployer <- Server,
    Id <- ArtifactId,
    Entry <- PublishedEntry,
    Valid <- ValidEntry,
    None <- Absent,
    entry <- [a \in ArtifactId |-> EntryOf(a)],
    running <- [s \in Server |-> RunningOf(s)]

\* The registry's contract: an artifact is published once, whole, verified and
\* for good, and a deploy command only ever starts on a published artifact of
\* its profile, although commit moves the file, creates the manifest and fills
\* it in separate steps that may fail or be cut off by a crash.
ImplementsRegistry == Registry!RegistrySpec

\* Environment assumption of the run: nobody commits an artifact while another
\* process is committing the same one.
NoDuplicateCommit ==
    \A s, t \in Server :
        s # t /\ up[s] # Absent /\ up[t] # Absent
            => UploadArtifact(s) # UploadArtifact(t)

\* Environment assumption: nobody commits a content under the base of a
\* published one and another extension; the two would share one manifest.
OneExtension ==
    \A s \in Server :
        up[s] # Absent /\ manifests[UploadArtifact(s)] \in Manifest
            => up[s].session.name.ext = manifests[UploadArtifact(s)].name.ext

\* Clients that keep to both.
Orderly == NoDuplicateCommit /\ OneExtension
=============================================================================
