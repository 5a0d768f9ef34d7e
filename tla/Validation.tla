------------------------------ MODULE Validation ------------------------------
(***************************************************************************)
(* The argument validator (internal/domain/validation/doc.go): which       *)
(* values the parameters of a command accept, and what becomes of them.    *)
(*                                                                         *)
(* A string is the sequence of its pieces between slashes, as              *)
(* strings.Split(s, "/") gives it: "" is <<"">>, "/srv/a" is               *)
(* <<"", "srv", "a">>.  A value is tagged with the Go type it has behind   *)
(* its interface{}: JSON has only "number" (a float64), a normalised       *)
(* integer is an "int".                                                    *)
(***************************************************************************)
EXTENDS Integers, SequencesExt

CONSTANTS
    Nil,   \* Go's nil, also JSON's null
    Cwd    \* working directory of the server process, as the list of its names

ASSUME ValidationAssumption == Cwd \in Seq(STRING)

ParameterType == {"enum", "bool", "int", "string", "path", "array"}

EmptyText == <<"">>

Str(text)  == [kind |-> "string", text |-> text]
Bool(b)    == [kind |-> "bool", bool |-> b]
Number(n)  == [kind |-> "number", num |-> n, whole |-> TRUE]
Fraction   == [kind |-> "number", num |-> 0, whole |-> FALSE]
Int_(n)    == [kind |-> "int", num |-> n]
Array(seq) == [kind |-> "array", items |-> seq]

Is(v, kind) == v # Nil /\ v.kind = kind

\* len(s): the bytes of the pieces and the slashes between them.
Size(text) ==
    LET upTo[i \in 0..Len(text)] ==
          IF i = 0 THEN Len(text) - 1 ELSE upTo[i - 1] + Len(text[i])
    IN  upTo[Len(text)]

----------------------------------------------------------------------------
(* filepath.Abs and filepath.Clean *)

Absolute(text) == Len(text) > 1 /\ text[1] = ""

\* One name further; nothing is above the root.
Enter(names, name) ==
    CASE name \in {"", "."} -> names
      [] name = ".."        -> IF names = <<>> THEN <<>> ELSE Front(names)
      [] OTHER              -> Append(names, name)

\* The names that are left when the path is walked from the root.
Walk(text) ==
    LET at[i \in 0..Len(text)] ==
          IF i = 0 THEN <<>> ELSE Enter(at[i - 1], text[i])
    IN  at[Len(text)]

Clean(text) == IF Absolute(text) THEN Walk(text) ELSE Walk(Cwd \o text)

PathText(names) == IF names = <<>> THEN <<"", "">> ELSE <<"">> \o names

\* Seeded bug: the prefix is looked for the wrong way round.
BelowSwapped(names, root) == names = root \/ IsStrictPrefix(names, root)

\* clean == root || strings.HasPrefix(clean, root + "/").  The root directory
\* "/" is below nothing but itself: no clean path begins with "//".
Below(names, root) == names = root \/ (root # <<>> /\ IsStrictPrefix(root, names))

PathAllowed(text, roots) ==
    text # EmptyText /\ \E root \in roots : Below(Clean(text), Clean(root))

\* Seeded bug: the path is handed on as it was given.
normalizePathChecked(text) == text

normalizePath(text) == PathText(Clean(text))

----------------------------------------------------------------------------
(* normalizeValue *)

AtLeast(low, n) == low = Nil \/ n >= low
AtMost(high, n) == high = Nil \/ n <= high
Matches(pattern, text) == pattern = Nil \/ text \in pattern

\* A value for a parameter that is not an array, or for an item of one.
ScalarAccepts(param, v) ==
    \/ param.type = "enum" /\ Is(v, "string") /\ v.text \in param.values
    \/ param.type = "bool" /\ Is(v, "bool")
    \/ /\ param.type = "int" /\ Is(v, "number")
       /\ v.whole /\ AtLeast(param.min, v.num) /\ AtMost(param.max, v.num)
    \/ /\ param.type = "string" /\ Is(v, "string")
       /\ AtLeast(param.minLength, Size(v.text)) /\ AtMost(param.maxLength, Size(v.text))
       /\ Matches(param.pattern, v.text) /\ Matches(param.allowlist, v.text)
    \/ param.type = "path" /\ Is(v, "string") /\ PathAllowed(v.text, param.roots)

ScalarNormal(param, v) ==
    CASE param.type = "int"  -> Int_(v.num)
      [] param.type = "path" -> Str(normalizePath(v.text))
      [] OTHER               -> v

Accepts(param, v) ==
    \/ ScalarAccepts(param, v)
    \/ /\ param.type = "array" /\ Is(v, "array")
       /\ AtMost(param.maxItems, Len(v.items)) /\ param.item # Nil
       /\ \A i \in DOMAIN v.items : ScalarAccepts(param.item, v.items[i])

Normal(param, v) ==
    IF param.type = "array"
    THEN Array([i \in DOMAIN v.items |-> ScalarNormal(param.item, v.items[i])])
    ELSE ScalarNormal(param, v)

----------------------------------------------------------------------------
(* Validate *)

Missing(def, raw) == DOMAIN def.params \ DOMAIN raw

\* The parameters that get a value: the given ones and those with a default.
Supplied(def, raw) ==
    {n \in DOMAIN def.params : n \in DOMAIN raw \/ def.params[n].default # Nil}

ValueFor(def, raw, n) == IF n \in DOMAIN raw THEN raw[n] ELSE def.params[n].default

Valid(def, raw) ==
    /\ DOMAIN raw \subseteq DOMAIN def.params
    /\ \A n \in Missing(def, raw) : ~def.params[n].required
    /\ \A n \in Supplied(def, raw) : Accepts(def.params[n], ValueFor(def, raw, n))

Normalized(def, raw) ==
    [n \in Supplied(def, raw) |-> Normal(def.params[n], ValueFor(def, raw, n))]
=============================================================================
