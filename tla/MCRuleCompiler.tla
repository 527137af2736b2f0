--------------------------- MODULE MCRuleCompiler ---------------------------
(* RuleCompiler for TLC.  Texts are a handful of words with tables for the  *)
(* functions on them; the events make every combination of the two atoms A  *)
(* and B true.                                                              *)
EXTENDS RuleCompiler

MCLower(x) == IF x \in {"SH", "Sh"} THEN "sh" ELSE IF x = "AND" THEN "and" ELSE x
MCBaseName(x) == IF x = "/bin/SH" THEN "SH" ELSE x
MCDirName(x) == IF x = "/bin/SH" THEN "/bin" ELSE ""
MCContains(x, y) == x = y \/ y = "" \/ (x = "/bin/SH" /\ y \in {"SH", "/bin"})
MCHasPrefix(x, y) == x = y \/ y = "" \/ (x = "/bin/SH" /\ y = "/bin")
MCReverseShell(x) == x = "nc"

MCLists == [shells |-> {"sh", "nc"}, dirs |-> {"/bin"}]

NoContainer == [name |-> "", id |-> "", image |-> ""]

Ev(type, file, process, ancestry, arg1, scope) ==
    [type |-> type, file |-> file, process |-> process, cmdline |-> process, ancestry |-> ancestry,
     arg1 |-> arg1, arg2 |-> 1, scope |-> scope, container |-> NoContainer]

MCEvent ==
    { Ev("execve", "/bin/SH", "nc", <<"nginx">>, 0, "host"),
      Ev("execve", "", "dpkg", <<>>, 0, "container"),
      Ev("open", "/bin/SH", "sh", <<"dpkg">>, 513, "host"),
      Ev("open", "nc", "nc", <<>>, 0, "container") }

Num(n) == [class |-> "int", text |-> n]
Str(x) == [class |-> "string", text |-> x]
Lst(x) == [class |-> "list", text |-> x]

\* The atoms: one that compares with "=" and one that ignores case.
A == <<Word("evt.type"), Symbol("="), Word("execve")>>
B == <<Word("proc.name"), Word("in"), Symbol("["), Str("Sh"), Symbol("]")>>

W(x) == <<Word(x)>>
S(x) == <<Symbol(x)>>

NoMacros == [m \in {} |-> <<>>]

MCMacroSets ==
    { NoMacros,
      [m |-> A \o W("or") \o B, k |-> W("not") \o W("m")],
      [m |-> W("k"), k |-> A \o W("and") \o W("j"), j |-> B \o W("or") \o W("k")],
      [m |-> W("k") \o W("or") \o W("j"), k |-> W("j"), j |-> A] }

Structure == [macros |-> {}, length |-> 6,
              words |-> {A, B, W("AND"), W("or"), W("not"), S("("), S(")")}]
Groups == [macros |-> {}, length |-> 7,
           words |-> {A, W("or") \o B, W("not") \o S("("), W("and") \o S("("), S(")")}]
Macros == [macros |-> {"m", "k"}, length |-> 5,
           words |-> {A, W("m"), W("k"), W("and"), W("or"), W("not"), S("("), S(")")}]
Diamond == [macros |-> {"m", "k", "j"}, length |-> 3, words |-> {W("m"), W("j"), W("not"), W("and"), S("=")}]

Comparisons == [macros |-> {}, length |-> 4,
    words |-> {W("proc.exe_base"), W("fd.name"), W("ptrace.request"), W("evt.is_open_write"), W("sh"),
               W("in"), W("contains"), W("startswith"), S("="), S("!="), S("&"),
               <<Str("SH")>>, <<Num(1)>>, <<Num(BadInt)>>, <<Lst("shells")>>, <<Lst("none")>>}]

Literals == [macros |-> {}, length |-> 6,
    words |-> {W("proc.name") \o W("in") \o S("["), W("ptrace.request") \o W("in") \o S("["),
               <<Str("SH")>>, <<Num(1)>>, <<Num(513)>>, S(","), S("]")}]

Calls == [macros |-> {}, length |-> 5,
    words |-> {W(f) \o S("(") : f \in {"in_list", "chain_in_list", "has_prefix", "is_docker_client",
                                       "is_trusted_writer", "unknown"}}
              \cup {W("proc.name"), W("fd.name"), <<Lst("shells")>>, <<Lst("none")>>, S(","), S(")")}]

MCVocabularies ==
    [structure |-> Structure, groups |-> Groups, macros |-> Macros, diamond |-> Diamond,
     comparisons |-> Comparisons, literals |-> Literals, calls |-> Calls]
=============================================================================
