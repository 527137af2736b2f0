----------------------------- MODULE Correlator -----------------------------
(***************************************************************************)
(* The attack-chain engine of internal/correlator/correlator.go.           *)
(*                                                                         *)
(* Observe runs under the mutex, so it is one action, but two goroutines   *)
(* call it: the event loop, whose findings carry the time at which the     *)
(* event was parsed and may wait in the event channel, and the auth-log    *)
(* tailer, which stamps its findings when it raises them.  Time inside     *)
(* Observe is the finding's timestamp, so it may go back between calls.    *)
(* MaxLag bounds how old a finding is when it is observed.                 *)
(*                                                                         *)
(* A chain key is a container id or a host key; which one decides the      *)
(* thresholds.  The kill-chain stages are a set (the code sorts and joins  *)
(* them only to compare and print them), and a bucket that is not in the   *)
(* map by is the zero containerState, which is what Observe creates.       *)
(***************************************************************************)
EXTENDS Integers, FiniteSets, FiniteSetsExt

CONSTANTS
    Container, Host,          \* the chain keys of the two scopes
    Stage, NoStage,           \* MITRE tactics; NoStage: a rule without one
    Severity,                 \* the severities findings may have
    Window, Cooldown,         \* Config.Window, Config.Cooldown
    MinStages, MinScore,      \* thresholds for containers
    HostMinStages, HostMinScore,
    MaxLag,                   \* a finding is observed at most this late
    MaxClock, MaxFindings     \* bounds of the model

ASSUME CorrelatorAssumption ==
    /\ Container \cap Host = {}
    /\ NoStage \notin Stage /\ IsFiniteSet(Stage)
    /\ Severity \subseteq {"low", "medium", "high", "critical"}
    /\ Window \in Nat \ {0} /\ Cooldown \in Nat
    /\ MinStages \in Nat \ {0} /\ MinScore \in Nat \ {0}
    /\ HostMinStages \in Nat \ {0} /\ HostMinScore \in Nat \ {0}
    /\ MaxLag \in Nat /\ MaxClock \in Nat /\ MaxFindings \in Nat

VARIABLES
    by,        \* Correlator.by: key -> containerState
    lastGC,    \* Correlator.lastGC, 0 when it has not run
    clock,     \* wall-clock time, from 1
    stamp,     \* timestamp of each caller's last finding (they are in order)
    n,         \* history: findings observed
    observed,  \* history: all of them, with their key
    incident   \* history: the last incident emitted for each key

vars == <<by, lastGC, clock, stamp, n, observed, incident>>

Key == Container \cup Host
Caller == {"loop", "tailer"}

severityRisk == [low |-> 10, medium |-> 25, high |-> 50, critical |-> 100]

Contribution ==
    [id : Nat, at : Nat, tactic : Stage \cup {NoStage}, score : {10, 25, 50, 100}]

\* lastSig is the set of stages of the last incident, {} for "".
ContainerState ==
    [contribs : SUBSET Contribution, lastSig : SUBSET Stage, lastEmit : Nat, lastSeen : Nat]

NewState == [contribs |-> {}, lastSig |-> {}, lastEmit |-> 0, lastSeen |-> 0]

NoIncident == [at |-> 0, last |-> 0, stages |-> {}, score |-> 0, critical |-> FALSE]

minStages(k) == IF k \in Host THEN HostMinStages ELSE MinStages
minScore(k)  == IF k \in Host THEN HostMinScore ELSE MinScore

-----------------------------------------------------------------------------
(* summarize: the distinct stages (blank tactics do not count) and the     *)
(* accumulated risk.                                                       *)

stagesOf(cts) == {ct.tactic : ct \in cts} \ {NoStage}

scoreOf(cts) == MapThenSumSet(LAMBDA ct : ct.score, cts)

-----------------------------------------------------------------------------
(* gcLocked: at most once per Window, forget the buckets that have seen    *)
(* nothing for longer than Window + Cooldown.                              *)

gcDueNever(now) == FALSE

gcDue(now) == lastGC = 0 \/ now - lastGC >= Window

expired(st, now) == now - st.lastSeen > Window + Cooldown

gcLocked(now) ==
    [k \in Key |-> IF gcDue(now) /\ expired(by[k], now) THEN NewState ELSE by[k]]

-----------------------------------------------------------------------------
(* Observe.                                                                *)

insideWindowOrEqual(at, now) == at >= now - Window

insideWindow(at, now) == at > now - Window

qualifies(k, cts) ==
    \/ Cardinality(stagesOf(cts)) >= minStages(k)
    \/ scoreOf(cts) >= minScore(k)

notCoolingDownAlways(st, now) == TRUE

notCoolingDown(st, now) == st.lastEmit = 0 \/ now - st.lastEmit >= Cooldown

newStageSetAlways(st, cts) == TRUE

newStageSet(st, cts) == stagesOf(cts) # st.lastSig

emitsOnce(st, k, cts, now) ==
    /\ qualifies(k, cts)
    /\ st.lastSig = {}
    /\ notCoolingDown(st, now)

emits(st, k, cts, now) ==
    /\ qualifies(k, cts)
    /\ newStageSet(st, cts)
    /\ notCoolingDown(st, now)

isCriticalTwoMore(k, cts) ==
    \/ Cardinality(stagesOf(cts)) >= minStages(k) + 2
    \/ scoreOf(cts) >= 2 * minScore(k)

isCritical(k, cts) ==
    \/ Cardinality(stagesOf(cts)) >= minStages(k) + 1
    \/ scoreOf(cts) >= 2 * minScore(k)

buildIncident(k, cts, now) ==
    [at |-> now, last |-> n + 1, stages |-> stagesOf(cts), score |-> scoreOf(cts),
     critical |-> isCritical(k, cts)]

\* The bucket after the finding has been added and old ones evicted.
keptContribs(st, ct, now) ==
    {c \in st.contribs \cup {ct} : insideWindow(c.at, now)}

ObserveFinding(k, tactic, sev, now) ==
    LET swept == gcLocked(now)
        st    == swept[k]
        ct    == [id |-> n + 1, at |-> now, tactic |-> tactic, score |-> severityRisk[sev]]
        kept  == keptContribs(st, ct, now)
        emit  == emits(st, k, kept, now)
    IN  /\ by' = [swept EXCEPT ![k] =
                    [contribs |-> kept,
                     lastSig  |-> IF emit THEN stagesOf(kept) ELSE st.lastSig,
                     lastEmit |-> IF emit THEN now ELSE st.lastEmit,
                     lastSeen |-> now]]
        /\ lastGC' = IF gcDue(now) THEN now ELSE lastGC
        /\ incident' = IF emit
                       THEN [incident EXCEPT ![k] = buildIncident(k, kept, now)]
                       ELSE incident
        /\ observed' = observed \cup {[key |-> k, ct |-> ct]}
        /\ n' = n + 1

\* A finding stamped at now reaches Observe.  The tailer raises host findings.
Observe(c, k, tactic, sev, now) ==
    /\ n < MaxFindings
    /\ c = "tailer" => k \in Host
    /\ now >= stamp[c] /\ now >= clock - MaxLag /\ now <= clock
    /\ ObserveFinding(k, tactic, sev, now)
    /\ stamp' = [stamp EXCEPT ![c] = now]
    /\ UNCHANGED clock

Tick ==
    /\ clock < MaxClock
    /\ clock' = clock + 1
    /\ UNCHANGED <<by, lastGC, stamp, n, observed, incident>>

\* The bounds are reached: the model, not the engine, stops here.
BoundsReached == n = MaxFindings /\ clock = MaxClock /\ UNCHANGED vars

-----------------------------------------------------------------------------
Init ==
    /\ by = [k \in Key |-> NewState]
    /\ lastGC = 0
    /\ clock = 1
    /\ stamp = [c \in Caller |-> 1]
    /\ n = 0
    /\ observed = {}
    /\ incident = [k \in Key |-> NoIncident]

Next ==
    \/ Tick
    \/ \E c \in Caller, k \in Key, tactic \in Stage \cup {NoStage}, sev \in Severity,
          now \in 1 .. MaxClock :
            Observe(c, k, tactic, sev, now)
    \/ BoundsReached

Spec == Init /\ [][Next]_vars

-----------------------------------------------------------------------------
(* Properties.                                                             *)

\* Every variable has its type; an incident reports known stages only.
TypeOK ==
    /\ by \in [Key -> ContainerState]
    /\ lastGC \in Nat /\ clock \in Nat \ {0} /\ n \in Nat
    /\ stamp \in [Caller -> Nat \ {0}]
    /\ observed \subseteq [key : Key, ct : Contribution]
    /\ DOMAIN incident = Key
    /\ \A k \in Key : incident[k].at \in Nat /\ incident[k].stages \subseteq Stage

\* A key's incident changed in this step: one was emitted for it.
Emitted(k) == incident'[k] # incident[k]

\* Config.Cooldown is "minimum spacing between incidents for the same
\* container": it survives the sweep forgetting lastEmit with the bucket, and
\* findings that arrive out of order, when 2 * MaxLag <= Window.
CooldownSpacing ==
    [][\A k \in Key :
          (Emitted(k) /\ incident[k].at # 0) => incident'[k].at - incident[k].at >= Cooldown]_vars

\* "Emit once per distinct stage-set": two incidents in a row for the same key
\* carry the same stages only when the bucket was idle long enough to be swept
\* in between (up to the reordering MaxLag allows).
NoRepeat ==
    [][\A k \in Key :
          (Emitted(k) /\ incident[k].at # 0 /\ incident'[k].stages = incident[k].stages)
              => incident'[k].at - incident[k].at > Window + Cooldown - 2 * MaxLag]_vars

\* Findings of key k up to the one numbered last, younger than since.
FindingsOf(history, k, last, since) ==
    {f.ct : f \in {o \in history : o.key = k /\ o.ct.id <= last /\ o.ct.at > since}}

\* An incident reports its own key's findings of the window, no other: every
\* one that is surely inside it, and none that is outside.  Findings of other
\* containers, evicted ones and swept ones never leak into stages or score.
\* The sweep takes no finding of the window when MaxLag <= Cooldown + 1.
IncidentWindow ==
    \A k \in Key : incident[k].at # 0 =>
        LET inc  == incident[k]
            may  == FindingsOf(observed, k, inc.last, inc.at - Window)
            must == FindingsOf(observed, k, inc.last, inc.at - Window + MaxLag)
        IN  /\ stagesOf(must) \subseteq inc.stages /\ inc.stages \subseteq stagesOf(may)
            /\ scoreOf(must) <= inc.score /\ inc.score <= scoreOf(may)

\* No qualifying chain is missed, the second and later ones of a key included:
\* when a finding arrives and the findings surely in the window are over a
\* threshold and have a stage, it is reported by this very finding, or the
\* cooldown of the key's last incident is running, or the last incident carries
\* the stages of the window already.  Neither an earlier incident nor a sweep
\* that forgets it, nor a late timestamp, silences a chain that has grown.
QualifiedIsReported ==
    [][\A o \in observed' \ observed :
          LET k    == o.key
              now  == o.ct.at
              must == FindingsOf(observed', k, n', now - Window + MaxLag)
              may  == FindingsOf(observed', k, n', now - Window)
              inc  == incident'[k]
          IN  (qualifies(k, must) /\ stagesOf(must) # {}) =>
                \/ inc.last = n'
                \/ inc.at # 0 /\ now - inc.at < Cooldown
                \/ stagesOf(must) \subseteq inc.stages /\ inc.stages \subseteq stagesOf(may)]_vars

\* A chain that grew since its last incident, which already had enough stages,
\* is reported as Critical when it is reported again.
EscalationIsCritical ==
    [][\A k \in Key :
          (/\ Emitted(k)
           /\ incident[k].stages \subseteq incident'[k].stages
           /\ incident[k].stages # incident'[k].stages
           /\ Cardinality(incident[k].stages) >= minStages(k))
              => incident'[k].critical]_vars

\* The map does not grow for ever: right after any Observe, a bucket that has
\* been idle for two windows and a cooldown has been swept, however the
\* timestamps of the two callers interleave.
NoLeak ==
    [][\A k \in Key : \A o \in observed' \ observed :
          by'[k].lastSeen # 0 => o.ct.at - by'[k].lastSeen < 2 * Window + Cooldown]_vars
=============================================================================
