---------------------------- MODULE Configuration ----------------------------
(***************************************************************************)
(* Loading of the configuration file (internal/config/doc.go), and the     *)
(* registry of the commands it defines (internal/domain/command).          *)
(*                                                                         *)
(* A file that does not parse never gets here: it has no commands.  Errors *)
(* are their codes; the place of an error in the file is left out.         *)
(***************************************************************************)
EXTENDS ArgvBuilder

ErrorIf(condition, code) == IF condition THEN {code} ELSE {}

\* isForbiddenExecutable
Forbidden ==
    {"sh", "bash", "zsh", "fish", "sudo", "su", "doas",
     "apt", "apt-get", "yum", "dnf", "apk", "brew", "pip", "npm",
     "useradd", "usermod", "userdel", "groupadd", "passwd", "chmod", "chown",
     "rm", "mv", "cp", "tee", "dd", "mkfs",
     "cat", "less", "more", "head", "tail", "grep", "awk", "sed",
     "nmap", "masscan", "zmap", "nohup", "daemonize", "crontab", "at"}

\* filepath.Base: trailing slashes do not count.
Base(text) ==
    LET named == {i \in DOMAIN text : text[i] # ""}
    IN  IF named = {} THEN "" ELSE text[Max(named)]

----------------------------------------------------------------------------
(* buildCommand *)

\* What each type of parameter must say of its values.
ConstraintErrors(param) ==
    ErrorIf(param.type \notin ParameterType, "config.unknown_parameter_type")
    \cup ErrorIf(param.type = "enum" /\ param.values = {}, "config.enum_values_required")
    \cup ErrorIf(param.type = "int" /\ (param.min = Nil \/ param.max = Nil),
                 "config.int_bounds_required")
    \cup ErrorIf(param.type = "string" /\ param.maxLength = Nil,
                 "config.string_max_length_required")
    \cup ErrorIf(param.type = "path" /\ param.roots = {}, "config.path_roots_required")
    \cup ErrorIf(param.type = "array" /\ (param.maxItems = Nil \/ param.item = Nil),
                 "config.array_constraints_required")

\* An item is a parameter of its own, whatever the type it is an item of.
ParameterErrors(param) ==
    ConstraintErrors(param)
    \cup (IF param.item # Nil THEN ConstraintErrors(param.item) ELSE {})

\* Seeded bug: only the names behind "repeat" are looked up.
PartErrorsRepeat(part, params) ==
    ErrorIf(containsShellSyntax(part.literal), "policy.forbidden_shell_syntax")
    \cup ErrorIf(part.repeat # Nil /\ part.repeat.param \notin DOMAIN params,
                 "config.unknown_parameter")

\* Conditions of flags and values of flags are not looked at.
PartErrors(part, params) ==
    ErrorIf(containsShellSyntax(part.literal), "policy.forbidden_shell_syntax")
    \cup ErrorIf(part.param # Nil /\ part.param \notin DOMAIN params,
                 "config.unknown_parameter")
    \cup ErrorIf(part.repeat # Nil /\ part.repeat.param \notin DOMAIN params,
                 "config.unknown_parameter")

CommandErrors(cmd) ==
    ErrorIf(cmd.risk \notin {"low", "medium", "high"}, "config.unknown_risk")
    \cup ErrorIf(cmd.access \notin {"read_only", "state_changing"}, "config.unknown_access")
    \cup ErrorIf(cmd.id = "" \/ cmd.exe = EmptyText, "config.required")
    \cup ErrorIf(Base(cmd.exe) \in Forbidden, "policy.forbidden_executable")
    \cup ErrorIf(cmd.timeout <= 0, "config.missing_timeout")
    \cup ErrorIf(cmd.maxOutput <= 0, "config.missing_output_limit")
    \cup (UNION {ParameterErrors(cmd.params[n]) : n \in DOMAIN cmd.params})
    \cup (UNION {PartErrors(cmd.template[i], cmd.params) : i \in DOMAIN cmd.template})

----------------------------------------------------------------------------
(* validateArtifactConfig *)

StoreErrors(store) ==
    ErrorIf(store.root = EmptyText, "config.required")
    \cup ErrorIf(store.root # EmptyText /\ ~Absolute(store.root),
                 "config.absolute_path_required")
    \cup ErrorIf(store.maxUpload <= 0 \/ store.maxChunk <= 0, "config.positive_required")
    \cup ErrorIf(store.maxUpload > 0 /\ store.maxChunk > store.maxUpload,
                 "config.chunk_too_large")

CommandsNamed(file, id) == {i \in DOMAIN file.commands : file.commands[i].id = id}

\* Of several commands with one id the last counts.
CommandNamed(file, id) == file.commands[Max(CommandsNamed(file, id))]

\* A profile hands its artifact to a path parameter "artifact_path".
DeployErrors(file, profile) ==
    IF profile.command = "" THEN {"config.required"}
    ELSE IF CommandsNamed(file, profile.command) = {} THEN {"config.unknown_command"}
    ELSE LET params == CommandNamed(file, profile.command).params
         IN  IF "artifact_path" \notin DOMAIN params
             THEN {"config.artifact_path_required"}
             ELSE ErrorIf(params["artifact_path"].type # "path",
                          "config.artifact_path_type")

\* Of ids and patterns only matters whether they are empty or malformed.
ProfileErrors(file, profile) ==
    ErrorIf(profile.id = "" \/ profile.pattern = "", "config.required")
    \cup ErrorIf(profile.id = "invalid", "config.invalid_id")
    \cup ErrorIf(profile.pattern = "invalid", "config.invalid_pattern")
    \cup DeployErrors(file, profile)

Repeats(seq) == \E i, j \in DOMAIN seq : i # j /\ seq[i].id = seq[j].id

ArtifactErrors(file) ==
    IF ~file.store.enabled
    THEN ErrorIf(file.profiles # <<>>, "config.artifact_store_disabled")
    ELSE StoreErrors(file.store)
         \cup (UNION {ProfileErrors(file, file.profiles[i]) : i \in DOMAIN file.profiles})
         \cup ErrorIf(Repeats(file.profiles), "config.duplicate_id")

----------------------------------------------------------------------------
(* BuildRuntime: all errors are collected, one is enough to refuse the file. *)

ConfigErrors(file) ==
    ErrorIf(file.version # 1, "config.unsupported_version")
    \cup ErrorIf(Repeats(file.commands), "config.duplicate_id")
    \cup (UNION {CommandErrors(file.commands[i]) : i \in DOMAIN file.commands})
    \cup ArtifactErrors(file)

Loads(file) == ConfigErrors(file) = {}

\* NewRegistry: the definitions by id.  Get returns a copy, so no call changes them.
Registry(file) ==
    [id \in {file.commands[i].id : i \in DOMAIN file.commands} |-> CommandNamed(file, id)]
=============================================================================
