--------------------------- MODULE MCRulesReload ---------------------------
(* RulesReload for TLC: two managed rules, a list and a macro, and overlay  *)
(* files that override, append, switch off, add, redefine the list and the  *)
(* macro, add to lists, do not compile, or cannot be parsed.                *)
EXTENDS RulesReload

CONSTANTS Alpha, Beta, Gamma    \* rule ids

Cond(kinds, lists, macros) == [kinds |-> kinds, lists |-> lists, macros |-> macros]

Rule(id, cond) ==
    [id |-> id, override |-> FALSE, append |-> FALSE, enabled |-> "unset", scope |-> Scope,
     gate |-> cond, arms |-> <<>>, exceptions |-> {}, compiles |-> TRUE]

Arm(lineages, suppress) ==
    [when |-> lineages, guard |-> Cond({"exec"}, {"shells"}, {}), suppress |-> suppress]

Nothing == [x \in {} |-> {}]

File(rules) == [lists |-> Nothing, appendLists |-> Nothing, macros |-> Nothing, rules |-> rules]

MCDefault ==
    [File(<< Rule(Alpha, Cond({}, {"shells"}, {})),
             [Rule(Beta, Cond({"exec"}, {}, {"sensitive"})) EXCEPT
                 !.arms = <<Arm({"trusted"}, TRUE), Arm({"network", "trusted"}, FALSE)>>] >>)
        EXCEPT !.lists = [shells |-> {"exec"}], !.macros = [sensitive |-> Cond({"open"}, {"shells"}, {})]]

Open == Cond({"open"}, {}, {})

Overriding == File(<<[Rule(Alpha, Open) EXCEPT !.override = TRUE, !.exceptions = {"open"}]>>)
Appending  == File(<<[Rule(Alpha, Open) EXCEPT !.append = TRUE, !.exceptions = {"exec"}],
                     [Rule(Beta, Open) EXCEPT !.append = TRUE, !.enabled = "false"]>>)
Adding     == File(<<Rule(Gamma, Cond({}, {"extra"}, {}))>>)
Duplicate  == File(<<Rule(Beta, Open)>>)
Illegal    == File(<<[Rule(Alpha, Open) EXCEPT !.override = TRUE, !.compiles = FALSE]>>)
Relisting  == [File(<<>>) EXCEPT !.lists = [shells |-> {}], !.appendLists = [shells |-> {"open"}],
                                 !.macros = [sensitive |-> Cond({"exec"}, {}, {})]]
Extending  == [File(<<>>) EXCEPT !.appendLists = [shells |-> {"mount"}, extra |-> {"open"}]]

MCContents == {File(<<>>), Overriding, Appending, Adding, Duplicate, Illegal, Relisting, Extending, Broken}
=============================================================================
