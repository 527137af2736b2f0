----------------------------- MODULE MCMonitor ------------------------------
(* Monitor for TLC: two rulesets, a container event, and a host event that is
   excepted.                                                                *)
EXTENDS Monitor

CONSTANTS Alpha, Beta    \* rule ids

Rule(id, kinds) ==
    [id |-> id, override |-> FALSE, append |-> FALSE, enabled |-> "unset", scope |-> Scope,
     gate |-> kinds, arms |-> <<>>, exceptions |-> {}, compiles |-> TRUE]

Alphas == Rule(Alpha, {"exec"})
Betas  == [Rule(Beta, {"exec"}) EXCEPT
              !.arms = <<[when |-> {"trusted"}, guard |-> {"exec", "open"}, suppress |-> TRUE]>>]

\* The second ruleset carves the container event out of Alpha, and its Beta reports it.
MCRulesets ==
    { <<Alphas, Betas>>,
      <<[Alphas EXCEPT !.exceptions = {"exec"}], [Betas EXCEPT !.arms[1].suppress = FALSE]>> }

Suppression ==
    [ruleId |-> Unset, scope |-> Unset, hostname |-> Unset, container |-> Unset,
     process |-> Unset, substr |-> Unset]

\* Nothing, or a rule that only narrows, which is void, and one that names a rule.
MCSuppSets ==
    { {}, {[Suppression EXCEPT !.scope = "host"],
           [Suppression EXCEPT !.ruleId = Alpha]} }

MCEvent ==
    { [scope |-> "container", container |-> "c1", pid |-> 1, process |-> "sh", kind |-> "exec",
       ancestry |-> {"trusted"}, words |-> {"c1"}],
      [scope |-> "host", container |-> Unset, pid |-> 2, process |-> "backup", kind |-> "exec",
       ancestry |-> {"hostTrusted"}, words |-> {"backup"}] }
=============================================================================
