-------------------------- MODULE ArtifactRegistry --------------------------
(***************************************************************************)
(* What the artifact service promises to its clients: a registry in which  *)
(* an artifact appears at once, complete and verified, never changes, and  *)
(* which hands the command of a deploy profile exactly the content that    *)
(* was verified for that profile.  It knows nothing of upload files,       *)
(* sessions, manifests or paths.                                           *)
(*                                                                         *)
(* Abstract counterpart of internal/artifact/doc.go: Publish is what a     *)
(* successful commit means, StartDeploy what reaching the deploy command   *)
(* means.                                                                  *)
(***************************************************************************)
CONSTANTS
    Deployer,    \* server processes
    Id,          \* artifact ids
    Entry,       \* [profile, name, sha, content] records
    Valid(_, _), \* the entry may be published under the id
    None

VARIABLES
    entry,       \* what is published under each id
    running      \* the entry each process is deploying

avars == <<entry, running>>

RegistryInit ==
    /\ entry = [a \in Id |-> None]
    /\ running = [s \in Deployer |-> None]

\* An id is published once, with a verified entry.
Publish(a) ==
    /\ entry[a] = None
    /\ entry'[a] \in Entry /\ Valid(a, entry'[a])
    /\ entry' = [entry EXCEPT ![a] = entry'[a]]
    /\ UNCHANGED running

\* A deploy command starts on a published entry.
StartDeploy(s) ==
    /\ running[s] = None
    /\ \E a \in Id :
          /\ entry[a] # None
          /\ running' = [running EXCEPT ![s] = entry[a]]
    /\ UNCHANGED entry

\* The command ends, or its process is gone.
EndDeployment(s) ==
    /\ running[s] # None
    /\ running' = [running EXCEPT ![s] = None]
    /\ UNCHANGED entry

RegistryNext ==
    \/ \E a \in Id : Publish(a)
    \/ \E s \in Deployer : StartDeploy(s) \/ EndDeployment(s)

RegistrySpec == RegistryInit /\ [][RegistryNext]_avars
=============================================================================
