----------------------------- MODULE ArgvBuilder -----------------------------
(***************************************************************************)
(* The argv builder (internal/domain/argv/doc.go): the template of a       *)
(* command filled with validated arguments.                                *)
(***************************************************************************)
EXTENDS Validation

CONSTANT ShellPiece   \* the pieces of strings that hold a shell token

\* All tokens are of other characters.
ASSUME BuilderAssumption ==
    ShellPiece \subseteq STRING /\ {"", "true", "false"} \cap ShellPiece = {}

containsShellSyntax(text) == \E i \in DOMAIN text : text[i] \in ShellPiece

scalarText(v) ==
    CASE v.kind = "string" -> v.text
      [] v.kind = "bool"   -> IF v.bool THEN <<"true">> ELSE <<"false">>
      [] v.kind = "int"    -> <<ToString(v.num)>>

\* fmt.Sprintf("%v") of a list keeps its items, here side by side.
stringValue(v) ==
    IF v.kind = "array"
    THEN FlattenSeq([i \in DOMAIN v.items |-> scalarText(v.items[i])])
    ELSE scalarText(v)

\* The first field of a part that is set decides what it is.
Form(part) ==
    IF part.literal # EmptyText THEN "literal"
    ELSE IF part.param # Nil THEN "param"
    ELSE IF part.flag # Nil THEN "flag"
    ELSE IF part.repeat # Nil THEN "repeat"
    ELSE "empty"

\* value.Value == Equals on interfaces: types and values agree.  A validated
\* integer is an int and the configuration's number a float64, so they differ;
\* two lists cannot be compared, Go panics.
Uncomparable(flag, args) ==
    /\ flag.param \in DOMAIN args
    /\ Is(flag.equals, "array") /\ Is(args[flag.param], "array")

FlagSet(flag, args) ==
    flag.param \in DOMAIN args /\ args[flag.param] = flag.equals

Repeated(repeat, items) ==
    FlattenSeq([i \in DOMAIN items |->
        (IF repeat.prefix # EmptyText THEN <<repeat.prefix>> ELSE <<>>)
        \o <<scalarText(items[i])>>])

\* The strings a part without fault contributes.
renderPart(part, args) ==
    CASE Form(part) = "literal" -> <<part.literal>>
      [] Form(part) = "param"   -> <<stringValue(args[part.param])>>
      [] Form(part) = "flag"    ->
            IF FlagSet(part.flag, args) THEN <<part.flag.value>> ELSE <<>>
      [] Form(part) = "repeat"  ->
            IF part.repeat.param \in DOMAIN args
            THEN Repeated(part.repeat, args[part.repeat.param].items) ELSE <<>>

\* Why a part cannot be rendered.
RenderFault(part, args) ==
    CASE Form(part) = "param" /\ part.param \notin DOMAIN args -> "missing"
      [] Form(part) = "flag" /\ Uncomparable(part.flag, args) -> "panic"
      [] /\ Form(part) = "repeat" /\ part.repeat.param \in DOMAIN args
         /\ args[part.repeat.param].kind # "array" -> "not_array"
      [] Form(part) = "empty" -> "empty"
      [] OTHER -> "none"

PartFault(part, args) ==
    IF RenderFault(part, args) # "none" THEN RenderFault(part, args)
    ELSE IF \E i \in DOMAIN renderPart(part, args) :
                containsShellSyntax(renderPart(part, args)[i])
         THEN "shell"
    ELSE "none"

\* The parts are rendered in order: the first fault ends the build.
BuildFault(def, args) ==
    LET bad == {i \in DOMAIN def.template : PartFault(def.template[i], args) # "none"}
    IN  IF containsShellSyntax(def.exe) THEN "shell"
        ELSE IF bad = {} THEN "none"
        ELSE PartFault(def.template[Min(bad)], args)

Argv(def, args) ==
    FlattenSeq([i \in DOMAIN def.template |-> renderPart(def.template[i], args)])
=============================================================================
