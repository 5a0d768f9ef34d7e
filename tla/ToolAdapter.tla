----------------------------- MODULE ToolAdapter -----------------------------
(***************************************************************************)
(* From the name of a tool to what is done: the MCP adapter                *)
(* (internal/mcp/doc.go) and the part of the command service in front of   *)
(* the executor (internal/app/server.go, Execute and Explain).             *)
(***************************************************************************)
EXTENDS Configuration

\* artifact.Service.Tools, when the store is enabled.
ArtifactTools ==
    {"artifact_upload_begin", "artifact_upload_chunk", "artifact_upload_commit",
     "artifact_upload_abort", "deploy_artifact"}

Tools(file) ==
    DOMAIN Registry(file) \cup (IF file.store.enabled THEN ArtifactTools ELSE {})

\* Adapter.Call.  A command with the id of an artifact tool is never reached.
Route(file, name) ==
    IF name \notin Tools(file) THEN "unknown"
    ELSE IF file.store.enabled /\ name \in ArtifactTools THEN "artifact"
    ELSE "command"

\* Lookup, validation and building, each only after the one before.
Verdict(file, id, raw) ==
    IF id \notin DOMAIN Registry(file) THEN "not_found"
    ELSE LET def  == Registry(file)[id]
             args == Normalized(def, raw)
         IN  IF ~Valid(def, raw) THEN "validation_error"
             ELSE CASE BuildFault(def, args) = "none"  -> "ready"
                    [] BuildFault(def, args) = "panic" -> "panic"
                    [] OTHER                           -> "build_error"

\* What the executor is given.
Job(file, id, raw) ==
    LET def  == Registry(file)[id]
        args == Normalized(def, raw)
    IN  [id |-> id, args |-> args, argv |-> Argv(def, args)]

----------------------------------------------------------------------------
(* The deploy of a committed artifact (artifact/doc.go, deploy) *)

CommittedDirectory(file) == file.store.root \o <<"committed">>

\* filepath.Join cleans.
ArtifactPath(file, name) == PathText(Walk(Append(CommittedDirectory(file), name)))

DeployArguments(file, name) == [artifact_path |-> Str(ArtifactPath(file, name))]
=============================================================================
