---------------------------- MODULE MCStdioSession ----------------------------
(***************************************************************************)
(* Configuration files for TLC: one that is like those under configs/, and *)
(* variations of it, each in one place.                                    *)
(***************************************************************************)
EXTENDS StdioSession, TLC

MCCwd == <<"srv">>
MCMaxSent == [deploy |-> 5, free |-> 2]

Word(w) == <<w>>
Committed == <<"", "srv", "art", "committed">>

Param(type) ==
    [type |-> type, required |-> TRUE, default |-> Nil, values |-> {},
     min |-> Nil, max |-> Nil, minLength |-> Nil, maxLength |-> Nil,
     pattern |-> Nil, allowlist |-> Nil, roots |-> {}, item |-> Nil, maxItems |-> Nil]

PathIn(roots) == [Param("path") EXCEPT !.roots = roots]
Text      == [Param("string") EXCEPT !.minLength = 1, !.maxLength = 8]
Choice    == [Param("enum") EXCEPT !.values = {Word("a"), Word("x;y")}]
Count     == [Param("int") EXCEPT !.min = 1, !.max = 2]
ListOf(p) == [Param("array") EXCEPT !.item = p, !.maxItems = 2]

Part        == [literal |-> EmptyText, param |-> Nil, flag |-> Nil, repeat |-> Nil]
Literal(t)  == [Part EXCEPT !.literal = t]
OfParam(n)  == [Part EXCEPT !.param = n]
Flag(v, n, equals) == [Part EXCEPT !.flag = [value |-> v, param |-> n, equals |-> equals]]
Repeat(n, prefix)  == [Part EXCEPT !.repeat = [param |-> n, prefix |-> prefix]]

Command(id, params, template) ==
    [id |-> id, exe |-> <<"", "bin", id>>, params |-> params, template |-> template,
     risk |-> "low", access |-> "read_only", timeout |-> 1, maxOutput |-> 1]

Tool(p, template) == Command("tool", "p" :> p, template)
Deploy == Command("deploy", "artifact_path" :> PathIn({Committed}), <<OfParam("artifact_path")>>)

File ==
    [version  |-> 1,
     store    |-> [enabled |-> TRUE, root |-> <<"", "srv", "art">>, creatable |-> TRUE,
                   maxUpload |-> 1024 * 1024, maxChunk |-> 512 * 1024],
     profiles |-> <<[id |-> "prod", pattern |-> "any", command |-> "deploy"]>>,
     commands |-> <<Tool(Text, <<Literal(Word("run")), OfParam("p")>>), Deploy>>]

WithTool(cmd)   == [File EXCEPT !.commands[1] = cmd]
WithDeploy(cmd) == [File EXCEPT !.commands[2] = cmd]
WithParam(p)    == WithTool(Tool(p, <<OfParam("p")>>))
Optional(p)     == [p EXCEPT !.required = FALSE]
Default(p, v)   == [p EXCEPT !.required = FALSE, !.default = v]

\* What a command may ask of its arguments and do with them.
ToolFiles ==
    {WithParam(p) : p \in
        {Choice, Param("bool"), Count, ListOf(Text), Optional(Text),
         [Text EXCEPT !.pattern = {Word("a")}, !.allowlist = {Word("a"), Word("b")}],
         Default(Text, Str(Word("a"))), Default(Count, Number(9)),
         PathIn({<<"", "srv", "art">>}), PathIn({Word("art")}), PathIn({<<"", "">>}),
         ListOf(PathIn({<<"", "srv">>}))}}
    \cup {WithTool(Tool(Optional(Param("bool")), <<Flag(Word("-b"), "p", Bool(TRUE))>>)),
          WithTool(Tool(Count, <<Flag(Word("-n"), "p", Number(1))>>)),
          WithTool(Tool(Text, <<Flag(Word("x;y"), "p", Str(Word("a")))>>)),
          WithTool(Tool(ListOf(Text), <<Flag(Word("-l"), "p", Array(<<>>))>>)),
          WithTool(Tool(ListOf(Text), <<Repeat("p", Word("-e"))>>)),
          WithTool(Tool(Text, <<Repeat("p", EmptyText)>>)),
          WithTool(Tool(Text, <<Part>>)),
          WithTool([Tool(Text, <<OfParam("p")>>) EXCEPT !.exe = Word("x;y")])}

\* What a profile may point to.
DeployFiles ==
    {WithDeploy(Command("deploy", params, <<OfParam("artifact_path")>>)) : params \in
        {"artifact_path" :> PathIn({<<"", "srv">>}), "artifact_path" :> PathIn({Word("art")}),
         "artifact_path" :> PathIn({<<"", "srv", "other">>}), "artifact_path" :> PathIn({<<"", "">>}),
         "artifact_path" :> PathIn({Committed}) @@ "p" :> Count,
         "artifact_path" :> PathIn({Committed}) @@ "p" :> Default(Count, Number(1))}}
    \cup {WithDeploy(Command("deploy",
              "artifact_path" :> PathIn({Committed}) @@ "p" :> Default(ListOf(Text), Array(<<Str(Word("a"))>>)),
              <<OfParam("p"), OfParam("artifact_path"), Flag(Word("-l"), "p", Array(<<>>))>>))}
    \cup {[File EXCEPT !.store.root = <<"", "srv", "", "x", "..", "art">>],
          [File EXCEPT !.store.maxUpload = 4 * 1024 * 1024, !.store.maxChunk = 1024 * 1024],
          [File EXCEPT !.store.creatable = FALSE],
          [File EXCEPT !.store.enabled = FALSE, !.profiles = <<>>]}

\* One error each.
BadFiles ==
    {WithParam(p) : p \in
        {Param("enum"), Param("int"), Param("string"), Param("path"), Param("array"),
         Param("object"), ListOf(Param("path"))}}
    \cup {WithTool(Tool(Text, <<part>>)) : part \in
            {OfParam("q"), Repeat("q", EmptyText), Literal(Word("x;y"))}}
    \cup {WithTool([File.commands[1] EXCEPT !.exe = <<"", "bin", "rm", "">>]),
          WithTool([File.commands[1] EXCEPT !.exe = EmptyText]),
          WithTool([File.commands[1] EXCEPT !.id = ""]),
          WithTool([File.commands[1] EXCEPT !.id = "deploy"]),
          WithTool([File.commands[1] EXCEPT !.risk = ""]),
          WithTool([File.commands[1] EXCEPT !.access = ""]),
          WithTool([File.commands[1] EXCEPT !.timeout = 0]),
          WithTool([File.commands[1] EXCEPT !.maxOutput = 0]),
          WithDeploy(Command("deploy", "p" :> Text, <<>>)),
          WithDeploy(Command("deploy", "artifact_path" :> Text, <<>>)),
          [File EXCEPT !.version = 2],
          [File EXCEPT !.store.enabled = FALSE],
          [File EXCEPT !.store.root = EmptyText],
          [File EXCEPT !.store.root = Word("art")],
          [File EXCEPT !.store.maxChunk = 0],
          [File EXCEPT !.store.maxUpload = 1],
          [File EXCEPT !.profiles[1].id = ""],
          [File EXCEPT !.profiles[1].id = "invalid"],
          [File EXCEPT !.profiles[1].pattern = "invalid"],
          [File EXCEPT !.profiles[1].command = ""],
          [File EXCEPT !.profiles[1].command = "gone"],
          [File EXCEPT !.profiles = @ \o @]}

MCFiles == {File} \cup ToolFiles \cup DeployFiles \cup BadFiles

\* Values a caller may give, right and wrong.
Values ==
    {Nil, Bool(TRUE), Bool(FALSE), Number(1), Number(9), Fraction}
    \cup {Str(t) : t \in {EmptyText, Word("a"), Word("x;y"), <<"", "srv", "art">>,
                          <<"", "srv", "arts">>, <<"", "srv", "art", "..", "art", ".", "f">>,
                          <<"", "srv", "art", "..", "..", "f">>, <<"art", "f">>, <<"", "">>}}
    \cup {Array(seq) : seq \in {<<>>, <<Str(Word("a")), Str(Word("a"))>>,
                                <<Str(<<"art", "..", "f">>)>>, <<Number(1)>>,
                                <<Str(Word("a")), Str(Word("a")), Str(Word("a"))>>}}

\* Nil is the id of a line without one.
PlainLines ==
    {Line(kind, 0) : kind \in {"version", "initialize", "list", "badcall", "other", "initialized"}}
    \cup {Line(kind, Nil) : kind \in {"empty", "garbage", "initialized"}}
    \cup {[Line("other", 0) EXCEPT !.long = TRUE], Call(0, "gone", <<>>), Call(0, "", <<>>)}

Calls(f) ==
    {Call(0, "artifact_upload_begin", <<>>),
     Call(0, "deploy_artifact", [profile_id |-> "prod"]),
     Call(0, "tool", <<>>), Call(0, "tool", [r |-> Bool(TRUE)]),
     Call(0, "tool", [p |-> Str(Word("a"))])}
    \cup (IF f \in ToolFiles THEN {Call(0, "tool", [p |-> v]) : v \in Values} ELSE {})

LinesOf ==
    [f \in MCFiles |-> IF Usable(f) THEN PlainLines \cup Calls(f) ELSE {Line("list", 0)}]

MCFreeLines(f) == LinesOf[f]
=============================================================================
