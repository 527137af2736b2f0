------------------------------- MODULE Rules -------------------------------
(***************************************************************************)
(* The rule engine, internal/ruleengine: what Load makes of the embedded   *)
(* rules and the operator's overlay files, and which findings Match gives  *)
(* for an event.                                                           *)
(*                                                                         *)
(* A file is a record of lists, additions to lists, macros and rules.  A   *)
(* condition, which is the gate of a rule, the guard of an arm or the      *)
(* body of a macro, is the set of event kinds it names by itself and the   *)
(* names of the lists and macros it refers to (what its text means is the  *)
(* subject of module Condition, how macros refer to one another that of    *)
(* RuleCompiler).  Once compiled it is the set of event kinds it holds     *)
(* for.  "compiles" says whether the rest of the rule (scope, severity,    *)
(* arms, exception rows) is well formed.                                   *)
(***************************************************************************)
EXTENDS Integers, Sequences, FiniteSets, SequencesExt

Scope   == {"container", "host"}
Lineage == {"network", "interactive", "trusted", "unknown"}

\* A rule and a file as parseFile returns them; an absent switch is "unset".
IsRule(r) ==
    /\ r = [id |-> r.id, override |-> r.override, append |-> r.append, enabled |-> r.enabled,
            scope |-> r.scope, gate |-> r.gate, arms |-> r.arms, exceptions |-> r.exceptions,
            compiles |-> r.compiles]
    /\ {r.override, r.append, r.compiles} \subseteq BOOLEAN
    /\ r.enabled \in {"unset", "true", "false"}

IsFile(f) ==
    /\ {"lists", "appendLists", "macros", "rules"} \subseteq DOMAIN f
    /\ f.rules \in Seq(Range(f.rules))
    /\ \A i \in DOMAIN f.rules : IsRule(f.rules[i])

-----------------------------------------------------------------------------
(* Load: the overlays are merged one after the other over the embedded     *)
(* file.  Rules under construction are [ok, rules]; an error sticks.       *)

Failed == [ok |-> FALSE, rules |-> <<>>]

Built(rules) == [ok |-> TRUE, rules |-> rules]

At(map, name) == IF name \in DOMAIN map THEN map[name] ELSE {}

\* The entries of one map replace those of another.
Over(new, old) ==
    [x \in DOMAIN new \cup DOMAIN old |-> IF x \in DOMAIN new THEN new[x] ELSE old[x]]

\* A list of the overlay replaces one of the same name, then additions are made,
\* to lists that do not exist as well.
mergeLists(lists, o) ==
    [l \in DOMAIN lists \cup DOMAIN o.lists \cup DOMAIN o.appendLists |->
        At(Over(o.lists, lists), l) \cup At(o.appendLists, l)]

\* The index of the rule with this id, 0 if there is none.
idx(rules, id) == SelectLastInSeq(rules, LAMBDA r : r.id = id)

\* append: true extends exceptions and may switch the rule on or off.
AppendedTo(old, r) ==
    [old EXCEPT !.exceptions = @ \cup r.exceptions,
                !.enabled = IF r.enabled = "unset" THEN @ ELSE r.enabled]

\* A plain rule whose id exists takes the place of the managed one.
mergeRuleSilently(acc, r) ==
    LET i == idx(acc.rules, r.id)
    IN  IF ~acc.ok THEN acc
        ELSE IF i # 0 THEN Built([acc.rules EXCEPT ![i] = r]) ELSE Built(Append(acc.rules, r))

mergeRule(acc, r) ==
    LET rules == acc.rules
        i     == idx(rules, r.id)
    IN  CASE ~acc.ok -> acc
          [] acc.ok /\ r.override /\ i # 0 -> Built([rules EXCEPT ![i] = r])
          [] acc.ok /\ ~r.override /\ r.append /\ i # 0 ->
                 Built([rules EXCEPT ![i] = AppendedTo(@, r)])
          [] acc.ok /\ (r.override \/ ~r.append) /\ i = 0 -> Built(Append(rules, r))
          [] OTHER -> Failed    \* append to an unknown rule, or a duplicate id

\* The overlay o is merged rule by rule, in order, over f.
mergeOver(f, o) ==
    LET new == FoldLeft(mergeRule, Built(f.rules), o.rules)
    IN  IF ~f.ok \/ ~new.ok THEN Failed
        ELSE [ok |-> TRUE, rules |-> new.rules, lists |-> mergeLists(f.lists, o),
              macros |-> Over(o.macros, f.macros)]

Ids(rules) == {rules[i].id : i \in DOMAIN rules}

checkUniqueIDs(rules) ==
    /\ "" \notin Ids(rules)
    /\ Cardinality(Ids(rules)) = Len(rules)

\* applyMacros and compileCondition, with the macros and lists of f.
ListsOf(f, c) == c.lists \cup UNION {f.macros[m].lists : m \in c.macros}

Resolves(f, c) == c.macros \subseteq DOMAIN f.macros /\ ListsOf(f, c) \subseteq DOMAIN f.lists

Meaning(f, c) ==
    UNION {c.kinds, UNION {f.macros[m].kinds : m \in c.macros}, UNION {f.lists[l] : l \in ListsOf(f, c)}}

compileArm(f, arm) == [arm EXCEPT !.guard = Meaning(f, @)]

compileRule(f, r) ==
    [r EXCEPT !.gate = Meaning(f, @), !.arms = [i \in DOMAIN @ |-> compileArm(f, @[i])]]

\* Disabled rules are not compiled, so they may be ill formed.
skipDisabled(kept, r) == IF r.enabled = "false" THEN kept ELSE Append(kept, r)

compileRuleset(f) ==
    LET enabled == FoldLeft(skipDisabled, <<>>, f.rules)
        accepted(r) == /\ r.compiles /\ Resolves(f, r.gate)
                       /\ \A i \in DOMAIN r.arms : Resolves(f, r.arms[i].guard)
    IN  IF \A i \in DOMAIN enabled : accepted(enabled[i])
        THEN Built([i \in DOMAIN enabled |-> compileRule(f, enabled[i])]) ELSE Failed

\* overlays: the contents of KW_RULES_FILE and KW_RULES_DIR/*.yaml, in order.
Load(default, overlays) ==
    LET base == [ok |-> TRUE, rules |-> default.rules, lists |-> default.lists, macros |-> default.macros]
        merged == FoldLeft(mergeOver, base, overlays)
    IN  IF merged.ok /\ checkUniqueIDs(merged.rules) THEN compileRuleset(merged) ELSE Failed

-----------------------------------------------------------------------------
(* Match.                                                                  *)

\* ancestry is the set of roles the ancestors play: the order is irrelevant.
classify(ancestry, scope) ==
    CASE "network" \in ancestry -> "network"
      [] "network" \notin ancestry /\ "interactive" \in ancestry -> "interactive"
      [] /\ ancestry \cap {"network", "interactive"} = {}
         /\ "trusted" \in ancestry \/ (scope = "host" /\ "hostTrusted" \in ancestry) -> "trusted"
      [] OTHER -> "unknown"

\* The first arm that applies decides; no arm at all means the rule reports.
outcome(r, e, lineage) ==
    LET first == SelectInSeq(r.arms, LAMBDA a : lineage \in a.when /\ e.kind \in a.guard)
    IN  r.arms = <<>> \/ (first # 0 /\ ~r.arms[first].suppress)

matches(r, e) ==
    /\ e.scope \in r.scope
    /\ e.kind \in r.gate
    /\ outcome(r, e, classify(e.ancestry, e.scope))
    /\ e.kind \notin r.exceptions

\* The ids of the findings, in the order of the rules.
Match(rules, e) ==
    LET hits == SelectSeq(rules, LAMBDA r : matches(r, e))
    IN  [i \in DOMAIN hits |-> hits[i].id]
=============================================================================
