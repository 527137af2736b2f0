------------------------------ MODULE Detector ------------------------------
(***************************************************************************)
(* internal/detector/detector.go with the suppression rules of             *)
(* internal/suppress.                                                      *)
(*                                                                         *)
(* The event loop runs Check, which takes the active ruleset and then the  *)
(* active suppressions, each under its own lock, and decides about every   *)
(* finding of Match: suppressed, duplicate or alert.  SetRuleset and       *)
(* SetSuppressions are called by other goroutines at any time.             *)
(***************************************************************************)
EXTENDS Rules

CONSTANTS
    Rulesets,     \* the compiled rulesets that may be installed
    SuppSets,     \* the suppression sets that may be installed
    Event,        \* the events
    Exceptions,   \* KW_DETECTION_EXCEPTIONS
    ServerName,
    Unset,        \* an empty field of a suppression rule or target
    dedupTTL,     \* dedupTTL (30 s in the code)
    MaxClock      \* bound of the model

ASSUME DetectorAssumption == dedupTTL \in Nat /\ MaxClock \in Nat

VARIABLES
    clock,
    eng,        \* Detector.eng, the compiled rules
    supp,       \* Detector.supp
    check,      \* Check: where the event loop is in it
    seen,       \* Detector.seen
    lastAlert,  \* history: the time of the last alert of each key
    verdict     \* history: the last decision of the current Check

checkVars == <<check, seen, lastAlert, verdict>>
vars == <<clock, eng, supp, checkVars>>

-----------------------------------------------------------------------------
(* suppress.Rule: empty fields are Unset.                                    *)

Empty(r) == r.ruleId = Unset /\ r.container = Unset /\ r.process = Unset /\ r.substr = Unset

Suits(wanted, got) == wanted = Unset \/ wanted = got

SuppressionMatch(r, t) ==
    /\ ~Empty(r)
    /\ Suits(r.ruleId, t.ruleId)
    /\ Suits(r.scope, t.scope)
    /\ Suits(r.hostname, t.hostname)
    /\ Suits(r.container, t.container)
    /\ Suits(r.process, t.process)
    /\ r.substr = Unset \/ r.substr \in t.words

Suppresses(set, t) == \E r \in set : SuppressionMatch(r, t)

\* The hostname is filled in for host events only.
Target(id, e) ==
    [ruleId |-> id, scope |-> e.scope, container |-> e.container, process |-> e.process,
     words |-> e.words, hostname |-> IF e.scope = "host" THEN ServerName ELSE Unset]

-----------------------------------------------------------------------------
(* The swaps, by the reloaders (modules RulesReload and Suppressions).     *)

SetRuleset(rules) ==
    /\ eng' = rules
    /\ UNCHANGED <<clock, supp, checkVars>>

SetSuppressions(set) ==
    /\ supp' = set
    /\ UNCHANGED <<clock, eng, checkVars>>

-----------------------------------------------------------------------------
(* duplicate: entries older than dedupTTL are evicted first.  A map from   *)
(* keys to times is the set of its entries.                                *)

KeyOf(id, e) == <<id, IF e.scope = "host" THEN "host" ELSE e.container, e.pid>>

Evicted == {s \in seen : clock - s.at <= dedupTTL}

DuplicateInside(key) == \E s \in Evicted : s.key = key /\ clock - s.at < dedupTTL

Duplicate(key) == \E s \in Evicted : s.key = key /\ clock - s.at <= dedupTTL

Stored(map, key) == {s \in map : s.key # key} \cup {[key |-> key, at |-> clock]}

-----------------------------------------------------------------------------
(* Check.                                                                  *)

NoCheck == [step |-> "idle"]

NoVerdict == [key |-> <<>>, what |-> "none"]

excepted(e) == Exceptions \cap e.words # {}

\* An excepted event changes nothing.  The ruleset is taken and matched.
CheckStart(e) ==
    /\ check.step = "idle"
    /\ ~excepted(e)
    /\ check' = [step |-> "engine", ev |-> e, todo |-> Match(eng, e)]
    /\ UNCHANGED <<clock, eng, supp, seen, lastAlert, verdict>>

CheckSuppressions ==
    /\ check.step = "engine"
    /\ check' = [step |-> "loop", ev |-> check.ev, todo |-> check.todo, supp |-> supp]
    /\ UNCHANGED <<clock, eng, supp, seen, lastAlert, verdict>>

Finding == KeyOf(Head(check.todo), check.ev)

IsSuppressed == Suppresses(check.supp, Target(Head(check.todo), check.ev))

Decide(what) ==
    /\ verdict' = [key |-> Finding, what |-> what]
    /\ check' = [check EXCEPT !.todo = Tail(@)]
    /\ UNCHANGED <<clock, eng, supp>>

InLoop == check.step = "loop" /\ check.todo # <<>>

\* The dedup slot is taken before the suppressions are asked.
SuppressFindingLate ==
    /\ InLoop /\ IsSuppressed
    /\ Decide("suppressed")
    /\ seen' = IF Duplicate(Finding) THEN Evicted ELSE Stored(Evicted, Finding)
    /\ UNCHANGED lastAlert

SuppressFinding ==
    /\ InLoop /\ IsSuppressed
    /\ Decide("suppressed")
    /\ UNCHANGED <<seen, lastAlert>>

DropDuplicate ==
    /\ InLoop /\ ~IsSuppressed
    /\ Duplicate(Finding)
    /\ Decide("duplicate")
    /\ seen' = Evicted
    /\ UNCHANGED lastAlert

RaiseAlert ==
    /\ InLoop /\ ~IsSuppressed
    /\ ~Duplicate(Finding)
    /\ Decide("alert")
    /\ seen' = Stored(Evicted, Finding)
    /\ lastAlert' = Stored(lastAlert, Finding)

CheckEnd ==
    /\ check.step = "loop" /\ check.todo = <<>>
    /\ check' = NoCheck /\ verdict' = NoVerdict
    /\ UNCHANGED <<clock, eng, supp, seen, lastAlert>>

Tick ==
    /\ clock < MaxClock
    /\ clock' = clock + 1
    /\ UNCHANGED <<eng, supp, checkVars>>

-----------------------------------------------------------------------------
Init ==
    /\ clock = 1
    /\ eng \in Rulesets
    /\ supp = {}
    /\ check = NoCheck
    /\ seen = {} /\ lastAlert = {}
    /\ verdict = NoVerdict

Next ==
    \/ Tick
    \/ \E rules \in Rulesets : SetRuleset(rules)
    \/ \E set \in SuppSets : SetSuppressions(set)
    \/ \E e \in Event : CheckStart(e)
    \/ CheckSuppressions \/ SuppressFinding \/ DropDuplicate \/ RaiseAlert \/ CheckEnd

Spec == Init /\ [][Next]_vars

-----------------------------------------------------------------------------
(* Properties.                                                             *)

\* The findings of one Check have different keys.
Decided(what) == verdict' # verdict /\ verdict'.what = what

\* An alert for a rule, container and process follows the previous one of the
\* same key by more than dedupTTL, whatever was evicted, suppressed or reloaded
\* in between.
DedupSpacing ==
    [][Decided("alert") =>
          \A a \in lastAlert : a.key = verdict'.key => clock - a.at > dedupTTL]_vars

\* Deduplication silences nothing by itself: a finding is dropped only if its
\* key did raise an alert within dedupTTL ("a suppressed finding never occupies
\* a dedup slot", so the end of a suppression is felt at once).
DuplicateJustified ==
    [][Decided("duplicate") =>
          \E a \in lastAlert : a.key = verdict'.key /\ clock - a.at <= dedupTTL]_vars
=============================================================================
