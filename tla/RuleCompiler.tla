---------------------------- MODULE RuleCompiler ----------------------------
(***************************************************************************)
(* Macros and the compilation of a condition: macros.go and the gate of    *)
(* compile.go in internal/ruleengine.                                      *)
(*                                                                         *)
(* compileRuleset resolves every macro first, in the order in which Go     *)
(* iterates over a map, that is in any order; then it substitutes the      *)
(* resolved macros in the conditions and parses the result.  The operator  *)
(* writes the condition item by item, and every stage of it is compiled.   *)
(***************************************************************************)
EXTENDS Condition

CONSTANTS
    MacroSets,    \* the macros a ruleset may have: name -> source
    Vocabularies  \* name -> [words, length, macros]: what conditions are made of, the bound on
                  \* their length, and the names of the macros they are written with

ASSUME RuleCompilerAssumption ==
    \A ms \in MacroSets : \A m \in DOMAIN ms :
        /\ m \notin DOMAIN Lists \cup boolFields \cup {"is_trusted_writer"}
        /\ m \notin strFields \cup intFields \cup keywords

VARIABLES
    macros,      \* File.Macros
    todo,        \* resolveMacros: names the loop has not come to
    resolved,    \* resolveMacros: fully expanded macros
    resolveErr,  \* resolveMacros: a cycle was found
    vocabulary,  \* the vocabulary of the condition
    written,     \* its words
    gate         \* what compileRule makes of it

vars == <<macros, todo, resolved, resolveErr, vocabulary, written, gate>>

-----------------------------------------------------------------------------
(* resolveMacros.  An expansion under way is its source, the macros        *)
(* resolved so far and whether a cycle was met.                            *)

LParen == Symbol("(")
RParen == Symbol(")")

Expansion(body) == <<LParen>> \o body \o <<RParen>>

Bind(map, name, src) == [m \in DOMAIN map \cup {name} |-> IF m = name THEN src ELSE map[m]]

\* The dollar sign of a list reference is copied and its name is a word like
\* any other: with a macro of that name the reference falls apart.
Substitutes(item, names) == item.class \in {"word", "list"} /\ item.text \in names

Dollar(item) == IF item.class = "list" THEN <<[class |-> "badCharacter", text |-> "$"]>> ELSE <<>>

RECURSIVE rec(_, _, _), substituteWords(_, _, _, _)

\* st.resolved, st.err after the expansion of one macro; st.out is its text.
recEager(name, visiting, st) ==
    IF name \in DOMAIN st.resolved THEN [st EXCEPT !.out = st.resolved[name]]
    ELSE LET inner == substituteWords(macros[name], 1, visiting,
                                      [st EXCEPT !.resolved = Bind(@, name, <<>>), !.out = <<>>])
         IN  [inner EXCEPT !.resolved = Bind(@, name, inner.out)]

rec(name, visiting, st) ==
    CASE name \in DOMAIN st.resolved -> [st EXCEPT !.out = st.resolved[name]]
      [] name \notin DOMAIN st.resolved /\ name \in visiting -> [st EXCEPT !.out = <<>>, !.err = TRUE]
      [] OTHER ->
             LET inner == substituteWords(macros[name], 1, visiting \cup {name}, [st EXCEPT !.out = <<>>])
             IN  [inner EXCEPT !.resolved = Bind(@, name, inner.out)]

\* The items of src from i on; a string without end is an error.
substituteWords(src, i, visiting, st) ==
    IF i > Len(src) THEN st
    ELSE IF src[i].class = "openQuote" THEN [st EXCEPT !.out = <<>>, !.err = TRUE]
    ELSE IF ~Substitutes(src[i], DOMAIN macros)
         THEN substituteWords(src, i + 1, visiting, [st EXCEPT !.out = Append(@, src[i])])
    ELSE LET before == st.out \o Dollar(src[i])
             inner  == rec(src[i].text, visiting, st)
         IN  substituteWords(src, i + 1, visiting,
                             [inner EXCEPT !.out = before \o Expansion(inner.out)])

\* One turn of the loop over the macros.
ResolveMacro(name) ==
    /\ ~resolveErr
    /\ name \in todo
    /\ LET st == rec(name, {}, [resolved |-> resolved, err |-> FALSE, out |-> <<>>])
       IN  resolved' = st.resolved /\ resolveErr' = st.err
    /\ todo' = todo \ {name}
    /\ UNCHANGED <<macros, vocabulary, written, gate>>

-----------------------------------------------------------------------------
(* compileRule, for rules with a condition.                                *)

applyMacros(src) ==
    FlattenSeq([i \in DOMAIN src |->
        IF Substitutes(src[i], DOMAIN resolved)
        THEN Dollar(src[i]) \o Expansion(resolved[src[i].text])
        ELSE <<src[i]>>])

compileRule(src) == IF src = <<>> THEN Error ELSE compileCondition(applyMacros(src))

\* The condition has one more word.  A ruleset whose macros do not resolve is
\* not compiled.
CompileRule(word) ==
    /\ todo = {} /\ ~resolveErr
    /\ Len(written) < Vocabularies[vocabulary].length
    /\ written' = Append(written, word)
    /\ gate' = compileRule(FlattenSeq(written'))
    /\ UNCHANGED <<macros, todo, resolved, resolveErr, vocabulary>>

-----------------------------------------------------------------------------
Init ==
    /\ macros \in MacroSets
    /\ todo = DOMAIN macros
    /\ resolved = <<>>
    /\ resolveErr = FALSE
    /\ vocabulary \in {v \in DOMAIN Vocabularies : Vocabularies[v].macros = DOMAIN macros}
    /\ written = <<>>
    /\ gate = Error

Next ==
    \/ \E name \in todo : ResolveMacro(name)
    \/ \E word \in Vocabularies[vocabulary].words : CompileRule(word)

Spec == Init /\ [][Next]_vars

-----------------------------------------------------------------------------
(* The language by its grammar, independently of the parser:               *)
(*    or   ::= and | or "or" and          not  ::= term | "not" not        *)
(*    and  ::= not | and "and" not        term ::= "(" or ")" | atom       *)
(* where a macro is an atom with the meaning of its source.  The readings  *)
(* of a sequence of tokens are the sets of events it can stand for.        *)

Holds(P(_)) == {{e \in Event : P(e)}}

NamesMacro(t, names) == t.kind = "ident" /\ t.text \in names

Inside(ts) == SubSeq(ts, 2, Len(ts) - 1)

\* Items with at most one comma after each.
Separated(items, legal(_)) ==
    \A i \in DOMAIN items :
        \/ legal(items[i])
        \/ items[i].kind = "," /\ i > 1 /\ legal(items[i - 1])

Texts(items) == {items[i].text : i \in {j \in DOMAIN items : items[j].kind # ","}}

IsListLiteral(ts, legal(_)) ==
    /\ Len(ts) >= 2 /\ ts[1].kind = "[" /\ ts[Len(ts)].kind = "]"
    /\ Separated(Inside(ts), legal)

ListOf(ts) == IF ts[1].kind = "list" THEN Lists[ts[1].text] ELSE Texts(Inside(ts))

IsKnownList(t) == t.kind = "list" /\ t.text \in DOMAIN Lists

\* field operator operand
ComparisonReadings(field, op, operand) ==
    CASE /\ field \in strFields /\ op = "in"
         /\ (Len(operand) = 1 /\ IsKnownList(operand[1])) \/ IsListLiteral(operand, IsText) ->
             Holds(LAMBDA e : \E x \in ListOf(operand) : Lower(x) = Lower(sf(e, field)))
      [] field \in intFields /\ op = "in" /\ IsListLiteral(operand, IsInt) ->
             Holds(LAMBDA e : intf(e, field) \in ListOf(operand))
      [] field \in strFields /\ Len(operand) = 1 /\ IsText(operand[1]) /\ op \in comparators \ {"in", "&"} ->
             Holds(LAMBDA e : LET x == operand[1].text y == sf(e, field) IN
                 CASE op = "=" -> y = x [] op = "!=" -> y # x
                   [] op = "contains" -> TextContains(y, x) [] op = "startswith" -> TextHasPrefix(y, x))
      [] field \in intFields /\ Len(operand) = 1 /\ IsInt(operand[1]) /\ op \in {"=", "!=", "&"} ->
             Holds(LAMBDA e : LET x == operand[1].text y == intf(e, field) IN
                 CASE op = "=" -> y = x [] op = "!=" -> y # x [] op = "&" -> (y & x) # 0)
      [] OTHER -> {}

\* The arguments that count are the first ones, with or without a comma.
Arguments(inside, n) ==
    CASE Len(inside) < n -> <<>>
      [] n = 2 /\ Len(inside) > 2 /\ inside[2].kind = "," -> <<inside[1], inside[3]>>
      [] OTHER -> SubSeq(inside, 1, n)

CallReadings(name, inside, names) ==
    LET n == IF name \in {"in_list", "has_prefix", "contains_any"} THEN 2
             ELSE IF name = "is_trusted_writer" THEN 0 ELSE 1
        args == Arguments(inside, n)
        fieldFirst == name # "chain_in_list"
    IN  IF /\ name \in {"in_list", "has_prefix", "contains_any", "chain_in_list",
                        "is_docker_client", "reverse_shell", "is_trusted_writer"}
           /\ Len(args) >= n
           /\ \A i \in DOMAIN inside : inside[i].kind # ")" /\ ~NamesMacro(inside[i], names)
           /\ n >= 1 => IF fieldFirst THEN args[1].kind = "ident" /\ args[1].text \in strFields
                                      ELSE IsKnownList(args[1])
           /\ n = 2 => IsKnownList(args[2])
        THEN Holds(LAMBDA e : Helper(name, args, e))
        ELSE {}

RECURSIVE Readings(_, _, _)

AtomReadings(ts, ms) ==
    LET name == ts[1].text
    IN  CASE ts[1].kind # "ident" -> {}
          [] ts[1].kind = "ident" /\ Len(ts) = 1 ->
                 IF name \in DOMAIN ms THEN Readings("or", Front(lex(ms[name])), ms)
                 ELSE IF name \in boolFields THEN Holds(LAMBDA e : boolf(e, name))
                 ELSE IF name = "is_trusted_writer" THEN Holds(TrustedWriter) ELSE {}
          [] ts[1].kind = "ident" /\ Len(ts) > 1 ->
                 IF ts[2].kind = "(" /\ ts[Len(ts)].kind = ")"
                 THEN CallReadings(name, SubSeq(ts, 3, Len(ts) - 1), DOMAIN ms)
                 ELSE IF Len(ts) > 2 /\ \A i \in 3 .. Len(ts) : ~NamesMacro(ts[i], DOMAIN ms)
                 THEN ComparisonReadings(name, ts[2].kind, SubSeq(ts, 3, Len(ts)))
                 ELSE {}

\* Every way to split ts at an operator.
Splits(ts, op) == {<<SubSeq(ts, 1, k - 1), SubSeq(ts, k + 1, Len(ts))>> : k \in {i \in DOMAIN ts : ts[i].kind = op}}

Readings(level, ts, ms) ==
    CASE ts = <<>> -> {}
      [] ts # <<>> /\ level = "or" ->
             Readings("and", ts, ms) \cup
             UNION {{a \cup b : a \in Readings("or", s[1], ms), b \in Readings("and", s[2], ms)} :
                       s \in Splits(ts, "or")}
      [] ts # <<>> /\ level = "and" ->
             Readings("not", ts, ms) \cup
             UNION {{a \cap b : a \in Readings("and", s[1], ms), b \in Readings("not", s[2], ms)} :
                       s \in Splits(ts, "and")}
      [] ts # <<>> /\ level = "not" ->
             IF ts[1].kind = "not" THEN {Event \ a : a \in Readings("not", Tail(ts), ms)}
             ELSE IF ts[1].kind = "(" /\ ts[Len(ts)].kind = ")" THEN Readings("or", Inside(ts), ms)
             ELSE AtomReadings(ts, ms)

-----------------------------------------------------------------------------
(* Properties.                                                             *)

RECURSIVE Uses(_, _)
\* The macros that name uses, directly or in n steps.
Uses(name, n) ==
    LET direct == {macros[name][i].text : i \in {j \in DOMAIN macros[name] : macros[name][j].class = "word"}}
                      \cap DOMAIN macros
    IN  IF n = 0 THEN direct ELSE direct \cup UNION {Uses(m, n - 1) : m \in direct}

Cyclic == \E m \in DOMAIN macros : m \in Uses(m, 3)

\* A rule fires for the events its condition describes: the compiled predicate
\* is the only reading the grammar gives the text, with "not" over "and" over
\* "or" and every macro as a unit, and what the grammar cannot read is refused
\* as a whole.
CompilesAsWritten ==
    (written # <<>> /\ ~Refused(FlattenSeq(written))) =>
        Readings("or", Front(lex(FlattenSeq(written))), macros) =
            IF gate.ok THEN {gate.pred} ELSE {}

\* In whatever order the macros are resolved, a ruleset is refused if one of
\* them uses itself, through others too, and no other macros are taken for a
\* cycle (an unterminated string, which lex refuses, aside); when all are resolved
\* one substitution is enough, since no macro name is left in any of them.
MacrosResolve ==
    /\ resolveErr => Cyclic
    /\ (todo = {} /\ ~resolveErr) =>
          /\ ~Cyclic
          /\ DOMAIN resolved = DOMAIN macros
          /\ \A m \in DOMAIN resolved : \A i \in DOMAIN resolved[m] :
                ~Substitutes(resolved[m][i], DOMAIN macros)
=============================================================================
