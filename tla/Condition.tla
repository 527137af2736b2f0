----------------------------- MODULE Condition -----------------------------
(***************************************************************************)
(* The condition language of the rules: lexer.go, parser.go and env.go of  *)
(* internal/ruleengine.                                                    *)
(*                                                                         *)
(* The source of a condition is the sequence of its lexical items, each    *)
(* with its class: a word, a list reference ($name), a quoted string, an   *)
(* integer, a symbol, or something the lexer refuses.  A compiled          *)
(* predicate, a closure in the code, is the set of the events it holds     *)
(* for.  An operator of the parser takes the tokens and a position, and    *)
(* returns the predicate and the position after it, or Error.              *)
(***************************************************************************)
EXTENDS Integers, Sequences, Bitwise, SequencesExt

CONSTANTS
    Event,                  \* the events, with the scope they are matched in
    Lists,                  \* the lists of the ruleset: name -> set of texts
    Lower(_), BaseName(_), DirName(_),           \* functions of texts
    TextContains(_, _), TextHasPrefix(_, _),             \* strings.Contains, strings.HasPrefix
    ReverseShell(_),        \* reverseShellMatch
    Network, Interactive, Trusted, HostTrusted,  \* the lists of the classifier,
    TrustedWriters, DockerClients,               \* in lower case
    BadInt                  \* an integer that strconv.ParseInt refuses

Engine == INSTANCE Rules

Error == [ok |-> FALSE]

-----------------------------------------------------------------------------
(* lex.                                                                    *)

keywords == {"and", "or", "not", "in", "contains", "startswith"}

Word(text) == [class |-> "word", text |-> text]
Symbol(text) == [class |-> "symbol", text |-> text]
Eof == [kind |-> "eof", text |-> ""]

kindOf(item) ==
    CASE item.class = "word" -> IF Lower(item.text) \in keywords THEN Lower(item.text) ELSE "ident"
      [] item.class = "symbol" -> item.text
      [] OTHER -> item.class

\* A string without its closing quote, or a character that starts nothing.
Refused(src) == \E i \in DOMAIN src : src[i].class \in {"openQuote", "badCharacter"}

lex(src) ==
    Append([i \in DOMAIN src |-> [kind |-> kindOf(src[i]), text |-> src[i].text]], Eof)

-----------------------------------------------------------------------------
(* The fields of an event.                                                 *)

processName(e) == IF e.type = "execve" /\ e.file # "" THEN BaseName(e.file) ELSE e.process

execBase(e) == Lower(BaseName(IF e.file = "" THEN e.process ELSE e.file))

chain(e) == <<e.process>> \o e.ancestry

Names(seq) == {Lower(seq[i]) : i \in DOMAIN seq}

lineage(e) ==
    LET role == [network |-> Network, interactive |-> Interactive, trusted |-> Trusted,
                 hostTrusted |-> HostTrusted]
    IN  Engine!classify({r \in DOMAIN role : role[r] \cap Names(e.ancestry) # {}}, e.scope)

NetworkParent(e) ==
    LET first == SelectInSeq(e.ancestry, LAMBDA a : Lower(a) \in Network)
    IN  IF first = 0 THEN "" ELSE e.ancestry[first]

TrustedWriter(e) == Names(chain(e)) \cap TrustedWriters # {}

IsDockerClient(name) == Lower(name) \in DockerClients

strFields ==
    {"evt.type", "proc.name", "proc.exe_base", "proc.exe_path", "proc.cmdline", "proc.cmdline_lc",
     "fd.name", "fd.directory", "scope", "lineage", "lineage.network_parent",
     "container.name", "container.id", "container.image"}

sf(e, field) ==
    CASE field = "evt.type" -> e.type
      [] field = "proc.name" -> processName(e)
      [] field = "proc.exe_base" -> execBase(e)
      [] field \in {"proc.exe_path", "fd.name"} -> e.file
      [] field = "proc.cmdline" -> e.cmdline
      [] field = "proc.cmdline_lc" -> Lower(e.cmdline)
      [] field = "fd.directory" -> DirName(e.file)
      [] field = "scope" -> e.scope
      [] field = "lineage" -> lineage(e)
      [] field = "lineage.network_parent" -> NetworkParent(e)
      [] field = "container.name" -> e.container.name
      [] field = "container.id" -> e.container.id
      [] field = "container.image" -> e.container.image

intFields == {"ptrace.request", "ptrace.target", "bpf.cmd"}

intf(e, field) == IF field = "ptrace.target" THEN e.arg2 ELSE e.arg1

oTRUNC == 512
writeFlagMask == 1 + 2 + 64 + oTRUNC + 1024

boolFields == {"evt.is_open_write", "evt.is_open_trunc"}

boolf(e, field) ==
    /\ e.type = "open"
    /\ (e.arg1 & IF field = "evt.is_open_write" THEN writeFlagMask ELSE oTRUNC) # 0

-----------------------------------------------------------------------------
(* The parser's cursor.                                                    *)

cur(ts, i) == ts[i].kind
adv(ts, i) == IF i < Len(ts) THEN i + 1 ELSE i
peek(ts, i) == cur(ts, adv(ts, i))

Parsed(events, i) == [ok |-> TRUE, pred |-> events, pos |-> i]

loweredSet(items) == {Lower(x) : x \in items}

-----------------------------------------------------------------------------
(* Comparisons.                                                            *)

IsText(t) == t.kind \in {"string", "ident"}

IsInt(t) == t.kind = "int" /\ t.text # BadInt

IsScalar(t, text) == IF text THEN IsText(t) ELSE IsInt(t)

\* The items of a literal list from i to its bracket; commas are optional.
RECURSIVE listLiteral(_, _, _, _)
listLiteral(ts, i, text, items) ==
    LET after == adv(ts, i)
    IN  IF cur(ts, i) = "]" THEN [ok |-> TRUE, items |-> items, pos |-> after]
        ELSE IF ~IsScalar(ts[i], text) THEN Error
        ELSE listLiteral(ts, IF cur(ts, after) = "," THEN adv(ts, after) ELSE after, text,
                         items \cup {ts[i].text})

listStrings(ts, i) ==
    CASE cur(ts, i) = "list" /\ ts[i].text \in DOMAIN Lists ->
             [ok |-> TRUE, items |-> Lists[ts[i].text], pos |-> adv(ts, i)]
      [] cur(ts, i) = "[" -> listLiteral(ts, adv(ts, i), TRUE, {})
      [] OTHER -> Error

listInts(ts, i) ==
    IF cur(ts, i) = "[" THEN listLiteral(ts, adv(ts, i), FALSE, {}) ELSE Error

\* The events for which an operator other than "in" holds, or Error.
Compared(field, op, t, after) ==
    LET text == field \in strFields
        Holds(e) ==
            CASE op = "=" -> (IF text THEN sf(e, field) ELSE intf(e, field)) = t.text
              [] op = "!=" -> (IF text THEN sf(e, field) ELSE intf(e, field)) # t.text
              [] op = "contains" -> TextContains(sf(e, field), t.text)
              [] op = "startswith" -> TextHasPrefix(sf(e, field), t.text)
              [] op = "&" -> (intf(e, field) & t.text) # 0
    IN  IF \/ op \in {"contains", "startswith"} /\ ~text
           \/ op = "&" /\ text
           \/ ~IsScalar(t, text)
        THEN Error
        ELSE Parsed({e \in Event : Holds(e)}, after)

parseIn(ts, i, field) ==
    LET text == field \in strFields
        list == IF text THEN listStrings(ts, i) ELSE listInts(ts, i)
    IN  IF ~list.ok THEN Error
        ELSE Parsed({e \in Event : IF text THEN Lower(sf(e, field)) \in loweredSet(list.items)
                                           ELSE intf(e, field) \in list.items}, list.pos)

\* i is the position of the operator.
parseComparison(ts, i, field) ==
    LET operand == adv(ts, i)
    IN  IF field \notin strFields \cup intFields THEN Error
        ELSE IF cur(ts, i) = "in" THEN parseIn(ts, operand, field)
        ELSE Compared(field, cur(ts, i), ts[operand], adv(ts, operand))

-----------------------------------------------------------------------------
(* Calls.                                                                  *)

RECURSIVE parseArgs(_, _, _)
parseArgs(ts, i, args) ==
    LET after == adv(ts, i)
    IN  CASE cur(ts, i) = ")" -> [ok |-> TRUE, args |-> args, pos |-> after]
          [] cur(ts, i) = "eof" -> Error
          [] OTHER -> parseArgs(ts, IF cur(ts, after) = "," THEN adv(ts, after) ELSE after,
                                Append(args, ts[i]))

IsField(args, k) == k <= Len(args) /\ args[k].kind = "ident" /\ args[k].text \in strFields

IsList(args, k) == k <= Len(args) /\ args[k].kind = "list" /\ args[k].text \in DOMAIN Lists

\* A helper holds for an event, given the arguments it looks at.
Helper(name, args, e) ==
    LET field == sf(e, args[1].text)
        list(k) == Lists[args[k].text]
    IN  CASE name = "in_list" -> Lower(field) \in loweredSet(list(2))
          [] name = "chain_in_list" -> Names(chain(e)) \cap loweredSet(list(1)) # {}
          [] name = "has_prefix" -> \E x \in list(2) : TextHasPrefix(field, x)
          [] name = "contains_any" -> \E x \in list(2) : x # "" /\ TextContains(field, x)
          [] name = "is_docker_client" -> IsDockerClient(field)
          [] name = "reverse_shell" -> ReverseShell(field)
          [] name = "is_trusted_writer" -> TrustedWriter(e)

\* Arguments beyond the ones a helper looks at are ignored.
WellCalled(name, args) ==
    CASE name \in {"in_list", "has_prefix", "contains_any"} -> IsField(args, 1) /\ IsList(args, 2)
      [] name = "chain_in_list" -> IsList(args, 1)
      [] name \in {"is_docker_client", "reverse_shell"} -> IsField(args, 1)
      [] OTHER -> name = "is_trusted_writer"

\* i is the position of the name, which an opening parenthesis follows.
parseCall(ts, i) ==
    LET name == ts[i].text
        call == parseArgs(ts, adv(ts, adv(ts, i)), <<>>)
    IN  IF ~call.ok THEN Error
        ELSE IF ~WellCalled(name, call.args) THEN Error
        ELSE Parsed({e \in Event : Helper(name, call.args, e)}, call.pos)

-----------------------------------------------------------------------------
(* The recursive descent.                                                  *)

comparators == {"=", "!=", "&", "in", "contains", "startswith"}

parseIdent(ts, i) ==
    LET after == adv(ts, i)
        name  == ts[i].text
    IN  CASE peek(ts, i) = "(" -> parseCall(ts, i)
          [] peek(ts, i) \in comparators -> parseComparison(ts, after, name)
          [] peek(ts, i) \notin comparators \cup {"("} /\ name \in boolFields ->
                 Parsed({e \in Event : boolf(e, name)}, after)
          [] peek(ts, i) \notin comparators \cup {"("} /\ name = "is_trusted_writer" ->
                 Parsed({e \in Event : TrustedWriter(e)}, after)
          [] OTHER -> Error

RECURSIVE parseOr(_, _), moreOr(_, _), parseAnd(_, _), moreAnd(_, _), parseUnary(_, _)

parseParen(ts, i) ==
    LET inner == parseOr(ts, adv(ts, i))
    IN  IF ~inner.ok THEN Error
        ELSE IF cur(ts, inner.pos) # ")" THEN Error
        ELSE Parsed(inner.pred, adv(ts, inner.pos))

parsePrimary(ts, i) ==
    CASE cur(ts, i) = "(" -> parseParen(ts, i)
      [] cur(ts, i) = "ident" -> parseIdent(ts, i)
      [] OTHER -> Error

\* A negation that takes in all that follows it.
parseUnaryLoose(ts, i) ==
    IF cur(ts, i) # "not" THEN parsePrimary(ts, i)
    ELSE LET c == parseAnd(ts, adv(ts, i)) IN IF ~c.ok THEN Error ELSE Parsed(Event \ c.pred, c.pos)

parseUnary(ts, i) ==
    IF cur(ts, i) # "not" THEN parsePrimary(ts, i)
    ELSE LET c == parseUnary(ts, adv(ts, i)) IN IF ~c.ok THEN Error ELSE Parsed(Event \ c.pred, c.pos)

moreAnd(ts, l) ==
    IF ~l.ok THEN Error
    ELSE IF cur(ts, l.pos) # "and" THEN l
    ELSE LET r == parseUnary(ts, adv(ts, l.pos))
         IN  IF ~r.ok THEN Error ELSE moreAnd(ts, Parsed(l.pred \cap r.pred, r.pos))

parseAnd(ts, i) == moreAnd(ts, parseUnary(ts, i))

moreOr(ts, l) ==
    IF ~l.ok THEN Error
    ELSE IF cur(ts, l.pos) # "or" THEN l
    ELSE LET r == parseAnd(ts, adv(ts, l.pos))
         IN  IF ~r.ok THEN Error ELSE moreOr(ts, Parsed(l.pred \cup r.pred, r.pos))

parseOr(ts, i) == moreOr(ts, parseAnd(ts, i))

\* What is left over is an error.
compileCondition(src) ==
    IF Refused(src) THEN Error
    ELSE LET ts == lex(src)
             p  == parseOr(ts, 1)
         IN  IF ~p.ok THEN Error
             ELSE IF cur(ts, p.pos) # "eof" THEN Error
             ELSE p
=============================================================================
