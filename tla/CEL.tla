-------------------------------- MODULE CEL ---------------------------------
(***************************************************************************)
(* Expressions in a configuration (cel.go, jsonnet.go).  An author writes  *)
(* a literal, cel(e) or switch([...]); the native functions turn that into *)
(* JSON, CELCapable.UnmarshalJSON into something that can be evaluated,    *)
(* and Eval evaluates it on the variables of a log line.                   *)
(*                                                                         *)
(* Compiling and evaluating are cel-go's (external): an expression is the  *)
(* function that gives its result for all variables, EvalError included,   *)
(* and one that does not compile fails on all of them.  An expression that *)
(* is the empty string is NoExpr, which is also what an absent one is.     *)
(***************************************************************************)
EXTENDS Integers, Sequences, FiniteSets, FiniteSetsExt

CONSTANTS
    Exprs,          \* expressions, NoExpr not among them
    NoExpr,         \* ""
    Values,         \* what they evaluate to, and the literals
    GoType,         \* the Go type of each value
    True, Null,     \* two of them: Null is JSON's
    ObjectValue,    \* a literal that is a JSON object
    ZeroValue,      \* the zero value of each T
    Variables,      \* what an expression is evaluated on
    ZeroVariables,  \* &CELVariables{}
    EvalError,
    Result          \* of each expression on each of the variables

\* The instances of CELCapable[T]
Types == {"bool", "float64", "any"}

\* out.Value().(T) succeeds.
Converts(v, T) == T = "any" \/ GoType[v] = T

ASSUME CELAssumption ==
    /\ NoExpr \notin Exprs
    /\ EvalError \notin Values
    /\ {True, Null, ObjectValue} \subseteq Values /\ ObjectValue # Null
    /\ GoType[True] = "bool"
    /\ \A T \in Types : GoType[Null] # T /\ GoType[ObjectValue] # T
    /\ ZeroValue \in [Types -> Values]
    /\ \A T \in Types : Converts(ZeroValue[T], T)
    /\ ZeroVariables \in Variables
    /\ Result \in [Exprs -> [Variables -> Values \cup {EvalError}]]

-----------------------------------------------------------------------------
(* What an author writes *)

Absent == [kind |-> "absent", of |-> NoExpr, entries |-> <<>>]
Literal(v) == [kind |-> "literal", of |-> v, entries |-> <<>>]
Cel(e) == [kind |-> "cel", of |-> e, entries |-> <<>>]

\* Each entry has a case, a value and a default, which may be absent.
Switch(entries) == [kind |-> "switch", of |-> NoExpr, entries |-> entries]

\* One of these.  In an entry of a switch, another switch is an object like
\* any other: castCELExpr finds no expression in it.
IsWritten(field) ==
    /\ field.kind \in {"absent", "literal", "cel", "switch"}
    /\ field.kind = "switch" =>
          /\ field.entries \in Seq({field.entries[i] : i \in DOMAIN field.entries})
          /\ \A i \in DOMAIN field.entries :
                LET entry == field.entries[i]
                IN  {entry.case.kind, entry.value.kind, entry.default.kind} \subseteq {"absent", "literal", "cel"}

\* JSON: a literal, or an object with the members "expr" and "switch".  An
\* entry of "switch" has the members of celCapableFieldSwitch.
JSONLiteral(v) ==
    [kind |-> "literal", value |-> v, expr |-> NoExpr, hasSwitch |-> FALSE, switch |-> <<>>]
JSONExpr(e) ==
    [kind |-> "object", value |-> ObjectValue, expr |-> e, hasSwitch |-> FALSE, switch |-> <<>>]
JSONSwitch(entries) ==
    [kind |-> "object", value |-> ObjectValue, expr |-> NoExpr, hasSwitch |-> TRUE, switch |-> entries]

-----------------------------------------------------------------------------
(* The native functions cel and switch *)

SwitchFails(entries) ==
    \/ \E i \in DOMAIN entries :
          IF entries[i].case.kind = "absent" THEN entries[i].default.kind = "absent"
          ELSE entries[i].case.kind # "cel" \/ entries[i].value.kind = "absent"
    \/ Cardinality({i \in DOMAIN entries : entries[i].case.kind = "absent"}) > 1

\* castCELExpr: the expression of a field that is a call of cel
ExprOf(field) == IF field.kind = "cel" THEN field.of ELSE NoExpr
LiteralOf(field) == IF field.kind = "literal" THEN field.of ELSE Null

\* A member that stays as it is: cel(e) is an object to whoever reads it.
AsItIs(field) == IF field.kind = "cel" THEN ObjectValue ELSE LiteralOf(field)

\* An entry with a case loses its default, and one whose default is an
\* expression loses its value; one with a literal default is left as it is.
SwitchEntry(entry) ==
    IF entry.case.kind = "absent"
    THEN [case |-> NoExpr, valueExpr |-> NoExpr,
          value |-> IF entry.default.kind = "cel" THEN Null ELSE AsItIs(entry.value),
          default |-> LiteralOf(entry.default), defaultExpr |-> ExprOf(entry.default)]
    ELSE [case |-> entry.case.of, value |-> LiteralOf(entry.value), valueExpr |-> ExprOf(entry.value),
          default |-> Null, defaultExpr |-> NoExpr]

NativeFails(doc) == doc.kind = "switch" /\ SwitchFails(doc.entries)

Native(doc) ==
    CASE doc.kind = "literal" -> JSONLiteral(doc.of)
      [] doc.kind = "cel"     -> JSONExpr(doc.of)
      [] doc.kind = "switch"  -> JSONSwitch([i \in DOMAIN doc.entries |-> SwitchEntry(doc.entries[i])])

-----------------------------------------------------------------------------
(* CELCapable[T] *)

\* A literal can be decoded into T; null leaves the zero value.
Decodes(v, T) == v = Null \/ Converts(v, T)

Decoded(v, T) == IF v = Null THEN ZeroValue[T] ELSE v

\* compileAndEval with the zero variables, and the check of the type
Checks(e, T) == Result[e][ZeroVariables] # EvalError /\ Converts(Result[e][ZeroVariables], T)

IsCase(entry) == entry.case # NoExpr

Cases(entries) == {i \in DOMAIN entries : IsCase(entries[i])}
Defaults(entries) == DOMAIN entries \ Cases(entries)

EntryChecks(entry, T) ==
    /\ IsCase(entry) => /\ Checks(entry.case, "bool")
                        /\ entry.valueExpr # NoExpr => Checks(entry.valueExpr, T)
    /\ ~ IsCase(entry) /\ entry.defaultExpr # NoExpr => Checks(entry.defaultExpr, T)

\* Decoding into celCapableField[T] succeeds and finds an expression or a switch;
\* otherwise the whole JSON is decoded into T.
IsField(json, T) ==
    /\ json.kind = "object" /\ (json.expr # NoExpr \/ json.hasSwitch)
    /\ \A i \in DOMAIN json.switch :
          Decodes(json.switch[i].value, T) /\ Decodes(json.switch[i].default, T)

\* UnmarshalJSON returns nil.
Unmarshals(json, T) ==
    IF ~ IsField(json, T) THEN Decodes(json.value, T)
    ELSE IF json.expr # NoExpr THEN Checks(json.expr, T)
    ELSE /\ \A i \in DOMAIN json.switch : EntryChecks(json.switch[i], T)
         /\ Cardinality(Defaults(json.switch)) <= 1
         /\ Cases(json.switch) # {}

Run(e, T, vars) ==
    IF Result[e][vars] # EvalError /\ Converts(Result[e][vars], T) THEN Result[e][vars] ELSE EvalError

RunOr(e, v, T, vars) == IF e # NoExpr THEN Run(e, T, vars) ELSE Decoded(v, T)

\* As if later cases overrode earlier ones
FirstStopLast(entries, vars) ==
    Max({i \in Cases(entries) : Run(entries[i].case, "bool", vars) \in {True, EvalError}})

\* The first case that is true, or that fails
FirstStop(entries, vars) ==
    Min({i \in Cases(entries) : Run(entries[i].case, "bool", vars) \in {True, EvalError}})

EvalSwitch(entries, T, vars) ==
    IF \E i \in Cases(entries) : Run(entries[i].case, "bool", vars) \in {True, EvalError}
    THEN LET entry == entries[FirstStop(entries, vars)]
         IN  IF Run(entry.case, "bool", vars) = True THEN RunOr(entry.valueExpr, entry.value, T, vars)
             ELSE EvalError
    ELSE IF Defaults(entries) = {} THEN ZeroValue[T]
    ELSE LET entry == entries[Min(Defaults(entries))]
         IN  RunOr(entry.defaultExpr, entry.default, T, vars)

\* Eval, of what UnmarshalJSON made of the JSON: a value or EvalError
Eval(json, T, vars) ==
    IF ~ IsField(json, T) THEN Decoded(json.value, T)
    ELSE IF json.expr # NoExpr THEN Run(json.expr, T, vars)
    ELSE EvalSwitch(json.switch, T, vars)

-----------------------------------------------------------------------------
(* What it means, read off what the author wrote *)

FieldMeans(field, T, vars) ==
    IF field.kind = "cel" THEN Run(field.of, T, vars) ELSE Decoded(field.of, T)

\* Entry i decides the switch: its case is not false, and those before it are.
Decides(entries, i, vars) ==
    LET Case(j) == Run(entries[j].case.of, "bool", vars)
        HasCase(j) == entries[j].case.kind # "absent"
    IN  /\ HasCase(i) /\ Case(i) \in {True, EvalError}
        /\ \A j \in 1..(i - 1) : HasCase(j) => Case(j) \notin {True, EvalError}

Meanings(doc, T, vars) ==
    LET es == doc.entries
        Deciding == {i \in DOMAIN es : Decides(es, i, vars)}
        Defaulting == {i \in DOMAIN es : es[i].case.kind = "absent"}
    IN  IF doc.kind # "switch" THEN {FieldMeans(doc, T, vars)}
        ELSE IF Deciding # {}
        THEN {IF Run(es[i].case.of, "bool", vars) = True THEN FieldMeans(es[i].value, T, vars)
              ELSE EvalError : i \in Deciding}
        ELSE IF Defaulting # {} THEN {FieldMeans(es[i].default, T, vars) : i \in Defaulting}
        ELSE {ZeroValue[T]}

\* cel('') somewhere in it
UsesEmpty(doc) ==
    LET Empty(field) == field.kind = "cel" /\ field.of = NoExpr
    IN  Empty(doc) \/ \E i \in DOMAIN doc.entries :
            Empty(doc.entries[i].case) \/ Empty(doc.entries[i].value) \/ Empty(doc.entries[i].default)
=============================================================================
