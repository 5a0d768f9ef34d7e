----------------------------- MODULE StdioSession -----------------------------
(***************************************************************************)
(* One connection: the server process (cmd/server/main.go) from the        *)
(* loading of its configuration to the end of its input, its loop over     *)
(* request lines (internal/mcp/stdio.go), and the client at the other end. *)
(*                                                                         *)
(* The client is either this repository's deploy-artifact, which writes a  *)
(* line and takes the next line it reads for the answer, or a free client, *)
(* which writes what it likes when it likes.                               *)
(***************************************************************************)
EXTENDS ToolAdapter

CONSTANTS
    Files,         \* configuration files
    FreeLines(_),  \* the lines a free client may write, by configuration
    ArtifactName,  \* file name of a committed artifact
    Envelope,      \* bytes of a chunk request without its data
    MaxSent        \* bound on the lines each kind of client writes

VARIABLES
    file,        \* the file of -commands
    server,      \* the process
    job,         \* the command it runs, with the id of the request
    client,      \* which client
    stage,       \* where deploy-artifact is
    conn,        \* the connection
    sent,        \* number of lines written
    toServer, fromServer,
    pending      \* ids of the requests the client has not read an answer to

vars == <<file, server, job, client, stage, conn, sent, toServer, fromServer,
          pending>>

ASSUME SessionAssumption ==
    /\ Envelope \in Nat
    /\ MaxSent \in [{"deploy", "free"} -> Nat]

\* The name of a committed artifact begins with its id.
ASSUME ArtifactAssumption ==
    /\ ArtifactName \notin {"", ".", ".."}
    /\ \A f \in Files : Str(ArtifactPath(f, ArtifactName)) # Nil

\* What encoding/json makes of arguments and defaults.
JSONScalar ==
    {Nil} \cup [kind : {"string"}, text : Seq(STRING)]
          \cup [kind : {"bool"}, bool : BOOLEAN]
          \cup [kind : {"number"}, num : Int, whole : BOOLEAN]

JSONValue == JSONScalar \cup [kind : {"array"}, items : Seq(JSONScalar)]

IsList(seq) == Len(seq) \in Nat /\ DOMAIN seq = 1..Len(seq)

ASSUME FilesAssumption ==
    \A f \in Files :
        /\ f.store.root \in Seq(STRING)
        /\ IsList(f.commands)
        /\ \A i \in DOMAIN f.commands :
              /\ IsList(f.commands[i].template)
              /\ \A n \in DOMAIN f.commands[i].params :
                    LET param == f.commands[i].params[n] IN
                    /\ param.default \in JSONValue
                    /\ param.roots \subseteq Seq(STRING)

\* The arguments of a command are JSON; those of an artifact tool are decoded
\* into fields of their own.
ASSUME LinesAssumption ==
    \A f \in Files : \A line \in FreeLines(f) :
        line.kind = "call" /\ Route(f, line.name) = "command" =>
            \A n \in DOMAIN line.args : line.args[n] \in JSONValue

----------------------------------------------------------------------------
(* Lines *)

Line(kind, id) ==
    [kind |-> kind, id |-> id, name |-> "", args |-> <<>>, long |-> FALSE]

Call(id, name, args) == [Line("call", id) EXCEPT !.name = name, !.args = args]

Result(id, isError) == [id |-> id, code |-> 0, isError |-> isError]
Error(id, code)     == [id |-> id, code |-> code, isError |-> TRUE]

\* scanner.Buffer: a line that does not fit, with its end, is not read.
MaxLine == 1024 * 1024
Base64(n) == 4 * ((n + 2) \div 3)

\* Seeded bug: the client takes the chunk size the server offers.
ChunkBytesOffered(offer) == offer

\* runDeploy: at most 512 KiB, less when the server offers less.
ChunkBytes(offer) == IF offer < 512 * 1024 THEN offer ELSE 512 * 1024

TooLong(bytes) == bytes >= MaxLine

\* Requests that are answered without any tool being called.
Immediate(line) ==
    line.kind # "call" \/ Route(file, line.name) = "unknown"

\* A line that is no request, or has no valid header, is answered too; what
\* does not parse has no id to answer to.
Reply(line) ==
    CASE line.kind = "garbage"               -> Error(Nil, -32700)
      [] line.kind = "version"               -> Error(line.id, -32600)
      [] line.kind \in {"badcall", "call"}   -> Error(line.id, -32602)
      [] line.kind \in {"initialize", "list"} -> Result(line.id, FALSE)
      [] OTHER                               -> Error(line.id, -32601)

\* Seeded bug: notifications are answered like methods that do not exist.
SilentEmpty(line) == line.kind = "empty"

\* Lines without an answer: also when a notification comes with an id.
Silent(line) == line.kind \in {"empty", "initialized"}

----------------------------------------------------------------------------

Init ==
    /\ file \in Files
    /\ client \in {"deploy", "free"}
    /\ server = "starting" /\ conn = "open"
    /\ stage = "initialize" /\ sent = 0
    /\ job = Nil /\ pending = {}
    /\ toServer = <<>> /\ fromServer = <<>>

----------------------------------------------------------------------------
(* The server *)

cvars == <<client, stage, conn, sent, pending>>

\* A refused file, or an artifact root that cannot be made, ends the process.
Usable(f) == Loads(f) /\ (f.store.enabled => f.store.creatable)

Load ==
    /\ server = "starting"
    /\ server' = IF Usable(file) THEN "serving" ELSE "ended"
    /\ UNCHANGED <<file, job, toServer, fromServer, cvars>>

\* The loop takes the next line.
Take ==
    /\ server = "serving" /\ toServer # <<>>
    /\ ~Head(toServer).long
    /\ toServer' = Tail(toServer)

\* An answer to a connection that is gone goes nowhere, or ends the process.
Write(answer) ==
    \/ conn # "lost" /\ server' = "serving" /\ fromServer' = Append(fromServer, answer)
    \/ conn = "lost" /\ server' \in {"serving", "ended"} /\ UNCHANGED fromServer

Skip ==
    /\ Take /\ Silent(Head(toServer))
    /\ UNCHANGED <<file, server, job, fromServer, cvars>>

AnswerNow ==
    /\ Take /\ Immediate(Head(toServer)) /\ ~Silent(Head(toServer))
    /\ Write(Reply(Head(toServer)))
    /\ UNCHANGED <<file, job, cvars>>

\* A call of an artifact tool returns to the loop with any result; what it does
\* is in ArtifactStore.  A deploy that is refused runs nothing either.
AnswerArtifact ==
    LET line == Head(toServer) IN
    /\ Take /\ line.kind = "call" /\ Route(file, line.name) = "artifact"
    /\ \E isError \in BOOLEAN :
          /\ line.name = "deploy_artifact" => isError
          /\ Write(Result(line.id, isError))
    /\ UNCHANGED <<file, job, cvars>>

ProfilesNamed(args) == {i \in DOMAIN file.profiles : args = [profile_id |-> file.profiles[i].id]}

\* What CommandService.Execute may be called with on this line.
Targets(line) ==
    CASE line.kind = "call" /\ Route(file, line.name) = "command" ->
            {[id |-> line.name, raw |-> line.args]}
      [] /\ line.kind = "call" /\ Route(file, line.name) = "artifact"
         /\ line.name = "deploy_artifact" ->
            {[id |-> file.profiles[i].command, raw |-> DeployArguments(file, ArtifactName)]
                : i \in ProfilesNamed(line.args)}
      [] OTHER -> {}

RefuseCommand ==
    LET line == Head(toServer) IN
    /\ Take
    /\ \E t \in Targets(line) :
          Verdict(file, t.id, t.raw) \in {"not_found", "validation_error", "build_error"}
    /\ Write(Result(line.id, TRUE))
    /\ UNCHANGED <<file, job, cvars>>

StartCommand ==
    LET line == Head(toServer) IN
    /\ Take
    /\ \E t \in Targets(line) :
          /\ Verdict(file, t.id, t.raw) = "ready"
          /\ job' = [request |-> line.id, run |-> Job(file, t.id, t.raw)]
    /\ server' = "running"
    /\ UNCHANGED <<file, fromServer, cvars>>

\* A flag that compares two lists: the panic is not recovered.
Panic ==
    /\ Take
    /\ \E t \in Targets(Head(toServer)) : Verdict(file, t.id, t.raw) = "panic"
    /\ server' = "ended"
    /\ UNCHANGED <<file, job, fromServer, cvars>>

\* Every execution ends (ProcessExecutor); only success is no error.
CommandEnds ==
    /\ server = "running"
    /\ \E isError \in BOOLEAN : Write(Result(job.request, isError))
    /\ job' = Nil
    /\ UNCHANGED <<file, toServer, cvars>>

\* The scanner gives up on a line that is too long, and the process with it.
Overflow ==
    /\ server = "serving" /\ toServer # <<>> /\ Head(toServer).long
    /\ server' = "ended"
    /\ UNCHANGED <<file, job, toServer, fromServer, cvars>>

EndOfInput ==
    /\ server = "serving" /\ toServer = <<>> /\ conn # "open"
    /\ server' = "ended"
    /\ UNCHANGED <<file, job, toServer, fromServer, cvars>>

ServerStep ==
    \/ Load \/ Skip \/ AnswerNow \/ AnswerArtifact
    \/ RefuseCommand \/ StartCommand \/ Panic \/ CommandEnds
    \/ Overflow \/ EndOfInput

----------------------------------------------------------------------------
(* The clients *)

svars == <<file, server, job, fromServer>>

MaySend == conn = "open" /\ sent < MaxSent[client]

Send(line) ==
    /\ toServer' = Append(toServer, line)
    /\ sent' = sent + 1
    /\ UNCHANGED <<svars, client, conn>>

\* A free client numbers its requests by its lines.
FreeSend ==
    /\ client = "free" /\ MaySend
    /\ \E line \in FreeLines(file) :
          LET numbered == [line EXCEPT !.id = IF line.id = Nil THEN Nil ELSE sent + 1]
          IN  /\ Send(numbered)
              /\ pending' = IF numbered.id = Nil THEN pending
                            ELSE pending \cup {numbered.id}
    /\ UNCHANGED stage

Waiting == pending # {}

SendInitialize ==
    /\ client = "deploy" /\ MaySend /\ stage = "initialize" /\ ~Waiting
    /\ Send(Line("initialize", 1)) /\ pending' = {1}
    /\ UNCHANGED stage

SendInitialized ==
    /\ client = "deploy" /\ MaySend /\ stage = "initialized"
    /\ Send(Line("initialized", Nil))
    /\ stage' = "tools"
    /\ UNCHANGED pending

\* callTool: the request ids go on from the one of initialize.
NextId == sent

DeployCalls(id) ==
    {Call(id, name, <<>>) : name \in ArtifactTools \ {"artifact_upload_chunk", "deploy_artifact"}}
    \cup {[Call(id, "artifact_upload_chunk", <<>>) EXCEPT
             !.long = TooLong(Envelope + Base64(ChunkBytes(file.store.maxChunk)))]}
    \cup {Call(id, "deploy_artifact", [profile_id |-> file.profiles[i].id])
             : i \in DOMAIN file.profiles}

SendCall ==
    /\ client = "deploy" /\ MaySend /\ stage = "tools" /\ ~Waiting
    /\ \E line \in DeployCalls(NextId) : Send(line) /\ pending' = {line.id}
    /\ UNCHANGED stage

\* deploy-artifact takes any line for the answer to its last request.
Read ==
    /\ conn = "open" /\ fromServer # <<>>
    /\ client = "free" \/ Waiting
    /\ fromServer' = Tail(fromServer)
    /\ IF client = "free" THEN pending' = pending \ {Head(fromServer).id} /\ UNCHANGED stage
       ELSE /\ pending' = {}
            /\ stage' = IF stage = "initialize" THEN "initialized" ELSE stage
    /\ UNCHANGED <<file, server, job, toServer, client, conn, sent>>

\* The client reads the end of the output of a process that has ended.
ReadEnd ==
    /\ conn = "open" /\ server = "ended" /\ fromServer = <<>>
    /\ conn' = "over"
    /\ UNCHANGED <<svars, toServer, client, stage, sent, pending>>

\* mcpSession.close, when no request is under way.
Close ==
    /\ conn = "open" /\ (client = "deploy" => ~Waiting)
    /\ conn' = "closed"
    /\ UNCHANGED <<svars, toServer, client, stage, sent, pending>>

Lose ==
    /\ conn = "open"
    /\ conn' = "lost"
    /\ UNCHANGED <<svars, toServer, client, stage, sent, pending>>

ClientStep ==
    \/ FreeSend \/ SendInitialize \/ SendInitialized \/ SendCall
    \/ Read \/ ReadEnd \/ Close \/ Lose

Next == ServerStep \/ ClientStep

Spec == Init /\ [][Next]_vars

\* The loop goes on while it can, and a client reads what is there.
FairSpec == Spec /\ WF_vars(ServerStep) /\ WF_vars(Read)

----------------------------------------------------------------------------
(* Properties *)

\* deploy-artifact takes the next line it reads for the answer to its last
\* request (cmd/deploy-artifact/main.go, rpc: the ids are not compared).  This
\* is right: there is never more than one line to read, and it answers the
\* request the client waits for.
NextAnswerIsMine ==
    client = "deploy" /\ fromServer # <<>> =>
        Len(fromServer) = 1 /\ pending = {Head(fromServer).id}

Definition(id) == Registry(file)[id]

\* Every path the validator lets through reaches the command as plain descent
\* from an allowed root, whatever dots, slashes or relative names the caller
\* wrote: alone, or as an item of a list.
Descends(text, roots) ==
    /\ Absolute(text)
    /\ \A i \in 2..Len(text) : text[i] \notin {".", ".."} /\ (text[i] = "" => Len(text) = 2)
    /\ \E root \in roots : IsPrefix(Clean(root), IF text = <<"", "">> THEN <<>> ELSE Tail(text))

PathStaysInside ==
    job # Nil =>
        \A n \in DOMAIN job.run.args :
            LET param == Definition(job.run.id).params[n]
                value == job.run.args[n]
            IN  /\ param.type = "path" => Descends(value.text, param.roots)
                /\ param.type = "array" /\ param.item.type = "path" =>
                       \A i \in DOMAIN value.items :
                           Descends(value.items[i].text, param.item.roots)

Texts(v) ==
    CASE Is(v, "string") -> {v.text}
      [] Is(v, "array")  -> {v.items[i].text : i \in {j \in DOMAIN v.items : Is(v.items[j], "string")}}
      [] OTHER           -> {}

\* Where shell syntax can come from that the loader does not look at.
ShellFromOutside(def, raw) ==
    \/ containsShellSyntax(def.exe) \/ containsShellSyntax(Cwd)
    \/ \E n \in DOMAIN def.params :
          \E text \in Texts(def.params[n].default)
                       \cup (IF n \in DOMAIN raw THEN Texts(raw[n]) ELSE {}) :
              containsShellSyntax(text)
    \/ \E i \in DOMAIN def.template : LET part == def.template[i] IN
          \/ part.flag # Nil /\ containsShellSyntax(part.flag.value)
          \/ part.repeat # Nil /\ containsShellSyntax(part.repeat.prefix)

\* Parts of a template the loader lets pass that no argument can make good.
PartNeverRendered(def, raw) ==
    \E i \in DOMAIN def.template : LET part == def.template[i] IN
       \/ Form(part) = "empty"
       \/ Form(part) = "repeat" /\ def.params[part.repeat.param].type # "array"
       \/ /\ Form(part) = "param" /\ part.param \in DOMAIN def.params \ DOMAIN raw
          /\ def.params[part.param].default = Nil

\* The loader (config.buildArgvTemplate) and the builder (argv.Build) check
\* the same templates at different times.  What the loader let pass is refused
\* at a call only for the texts above or for a part it cannot judge: never
\* because a part names a parameter the command does not have.
BuildRefusalsExplained ==
    server = "serving" /\ toServer # <<>> =>
        \A t \in Targets(Head(toServer)) :
            Verdict(file, t.id, t.raw) = "build_error" =>
                \/ ShellFromOutside(Definition(t.id), t.raw)
                \/ PartNeverRendered(Definition(t.id), t.raw)

\* Nothing but the artifact is missing for this command.
TakesArtifactAlone(def) ==
    /\ \A n \in DOMAIN def.params \ {"artifact_path"} : LET param == def.params[n] IN
          IF param.default = Nil THEN ~param.required
          ELSE ~param.required /\ Accepts(param, param.default)
    /\ ~ShellFromOutside(def, <<>>)
    /\ \A i \in DOMAIN def.template :
          \/ Form(def.template[i]) = "literal"
          \/ Form(def.template[i]) = "flag"
          \/ /\ Form(def.template[i]) = "param"
             /\ \/ def.template[i].param = "artifact_path"
                \/ def.params[def.template[i].param].default # Nil

ComparesLists(def) ==
    \E i \in DOMAIN def.template :
        def.template[i].flag # Nil /\ Is(def.template[i].flag.equals, "array")

CoversStore(param) ==
    \E root \in param.roots :
        Clean(root) # <<>> /\ IsPrefix(Clean(root), Walk(CommittedDirectory(file)))

\* The artifact service hands a path it has made itself to a command written
\* by someone else (artifact.deploy, config.validateArtifactConfig).  Where
\* the allowed roots hold the directory of committed artifacts and the command
\* needs nothing else, every committed artifact can be deployed, and the
\* command gets exactly its path.
ProfileDeploys ==
    server = "serving" /\ toServer # <<>> /\ Route(file, Head(toServer).name) = "artifact" =>
        \A t \in Targets(Head(toServer)) :
            LET def  == Definition(t.id)
                path == ArtifactPath(file, ArtifactName)
            IN  /\ CoversStore(def.params["artifact_path"])
                /\ TakesArtifactAlone(def) /\ ~ComparesLists(def)
                /\ ~containsShellSyntax(path)
                => /\ Verdict(file, t.id, t.raw) = "ready"
                   /\ \A i \in DOMAIN def.template :
                         Form(def.template[i]) = "param" /\ def.template[i].param = "artifact_path"
                         => Contains(Job(file, t.id, t.raw).argv, path)

\* deploy-artifact gets an answer to every request it makes of a server that
\* has loaded its file, or its connection is lost: no chunk it sends is too
\* long for the scanner of the server (stdio.go, Serve), whatever chunk size
\* the file allows, and the loop comes back from every call.  The exception is
\* a command with a flag that compares lists.
DeployClientIsAnswered ==
    /\ client = "deploy" /\ Waiting /\ server \in {"serving", "running"}
    /\ \A i \in DOMAIN file.commands : ~ComparesLists(file.commands[i])
    ~> ~Waiting \/ conn = "lost"
=============================================================================
