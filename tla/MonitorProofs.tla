--------------------------- MODULE MonitorProofs ---------------------------
(***************************************************************************)
(* Theorems about the detector and about the event loop that runs it, for  *)
(* every dedupTTL, every family of rulesets and suppression sets, and      *)
(* every set of events.                                                    *)
(*                                                                         *)
(* Detector.seen forgets: every lookup evicts.  DedupInv says that it      *)
(* forgets nothing that still matters (FreshRemembered) and never holds a  *)
(* key that did not raise an alert (OnlyAlerted).  The program runs the    *)
(* detector (MonitorRunsDetector), so that all this holds of the program.  *)
(* CountInv adds what the loop and the tailer do with the alerts, and that *)
(* the loop has none left when it returns.                                 *)
(***************************************************************************)
EXTENDS Monitor, TLAPS

-----------------------------------------------------------------------------
(* Deduplication.                                                          *)

\* No entry is dated after the clock.
Dated ==
    /\ clock \in Nat
    /\ \A s \in seen \cup lastAlert : s.at \in Nat /\ s.at <= clock

OnlyAlerted == seen \subseteq lastAlert

FreshRemembered == \A a \in lastAlert : clock - a.at <= dedupTTL => a \in seen

DedupInv == Dated /\ OnlyAlerted /\ FreshRemembered

-----------------------------------------------------------------------------
\* The only steps that touch the dedup map or decide about a finding.
Looking == DropDuplicate \/ RaiseAlert

\* Every other step leaves the map, the history and the clock alone, except
\* for the clock of Tick and the verdict of a suppressed finding.
LEMMA OtherSteps ==
    ASSUME [Next]_vars, ~Looking
    PROVE  /\ seen' = seen /\ lastAlert' = lastAlert
           /\ clock' = clock \/ Tick
           /\ ~Decided("alert") /\ ~Decided("duplicate")
<1>1. CASE UNCHANGED vars
  BY <1>1 DEF vars, checkVars, Decided
<1>2. CASE Tick
  BY <1>2 DEF Tick, checkVars, Decided
<1>3. CASE \E rules \in Rulesets : SetRuleset(rules)
  BY <1>3 DEF SetRuleset, checkVars, Decided
<1>4. CASE \E set \in SuppSets : SetSuppressions(set)
  BY <1>4 DEF SetSuppressions, checkVars, Decided
<1>5. CASE \E e \in Event : CheckStart(e)
  BY <1>5 DEF CheckStart, Decided
<1>6. CASE CheckSuppressions
  BY <1>6 DEF CheckSuppressions, Decided
<1>7. CASE SuppressFinding
  BY <1>7 DEF SuppressFinding, Decide, Decided
<1>8. CASE CheckEnd
  BY <1>8 DEF CheckEnd, NoVerdict, Decided
<1>9. QED
  BY <1>1, <1>2, <1>3, <1>4, <1>5, <1>6, <1>7, <1>8 DEF Next, Looking

\* The map starts empty, like the history.
LEMMA DedupInit == Init => DedupInv
  BY DEF Init, DedupInv, Dated, OnlyAlerted, FreshRemembered

\* Evicting and storing keep what is at most dedupTTL old.
LEMMA DedupStep == DedupInv /\ [Next]_vars => DedupInv'
<1> SUFFICES ASSUME DedupInv, [Next]_vars PROVE DedupInv'
  OBVIOUS
<1> USE DetectorAssumption DEF DedupInv, Dated, OnlyAlerted, FreshRemembered
<1>1. CASE DropDuplicate
  <2>1. clock' = clock /\ lastAlert' = lastAlert /\ seen' = Evicted
    BY <1>1 DEF DropDuplicate, Decide
  <2>2. QED
    BY <2>1 DEF Evicted
<1>2. CASE RaiseAlert
  <2> DEFINE new == [key |-> Finding, at |-> clock]
  <2>1. /\ clock' = clock
        /\ lastAlert' = {s \in lastAlert : s.key # Finding} \cup {new}
        /\ seen' = {s \in Evicted : s.key # Finding} \cup {new}
    BY <1>2 DEF RaiseAlert, Decide, Stored
  <2>2. new.at = clock
    OBVIOUS
  <2> HIDE DEF new
  <2>3. Dated' /\ OnlyAlerted'
    BY <2>1, <2>2 DEF Evicted
  <2>4. FreshRemembered'
    BY <2>1, <2>2 DEF Evicted
  <2>5. QED
    BY <2>3, <2>4
<1>3. CASE ~Looking
  <2>1. seen' = seen /\ lastAlert' = lastAlert /\ (clock' = clock \/ clock' = clock + 1)
    BY <1>3, OtherSteps DEF Tick
  <2>2. QED
    BY <2>1
<1>4. QED
  BY <1>1, <1>2, <1>3 DEF Looking

\* The dedup map holds exactly the alerts that may still silence a finding, in
\* every reachable state, while rules and suppressions change underneath.
THEOREM DedupInvariant == Spec => []DedupInv
  BY DedupInit, DedupStep, PTL DEF Spec

-----------------------------------------------------------------------------
\* Check: alerts of one rule, container and process are more than dedupTTL
\* apart, for every interleaving with SetRuleset and SetSuppressions.
THEOREM AlertsSpaced == Spec => DedupSpacing
<1>1. DedupInv /\ [Next]_vars =>
        [Decided("alert") =>
           \A a \in lastAlert : a.key = verdict'.key => clock - a.at > dedupTTL]_vars
  <2> SUFFICES ASSUME DedupInv, [Next]_vars, Decided("alert"),
                      NEW a \in lastAlert, a.key = verdict'.key
               PROVE  clock - a.at > dedupTTL
    OBVIOUS
  <2>1. CASE RaiseAlert
    <3>1. verdict'.key = Finding /\ ~Duplicate(Finding)
      BY <2>1 DEF RaiseAlert, Decide
    <3>2. ~(clock - a.at <= dedupTTL)
      BY <3>1 DEF DedupInv, FreshRemembered, Duplicate, Evicted
    <3>3. QED
      BY <3>2, DetectorAssumption DEF DedupInv, Dated
  <2>2. CASE DropDuplicate
    BY <2>2 DEF DropDuplicate, Decide, Decided
  <2>3. QED
    BY <2>1, <2>2, OtherSteps DEF Looking
<1>2. QED
  BY <1>1, DedupInvariant, PTL DEF Spec, DedupSpacing

\* Check: a finding is dropped as a duplicate only because an alert of its own
\* key, at most dedupTTL old, was really raised.
THEOREM DuplicatesJustified == Spec => DuplicateJustified
<1>1. DedupInv /\ [Next]_vars =>
        [Decided("duplicate") =>
           \E a \in lastAlert : a.key = verdict'.key /\ clock - a.at <= dedupTTL]_vars
  <2> SUFFICES ASSUME DedupInv, [Next]_vars, Decided("duplicate")
               PROVE  \E a \in lastAlert : a.key = verdict'.key /\ clock - a.at <= dedupTTL
    OBVIOUS
  <2>1. CASE DropDuplicate
    <3>1. verdict'.key = Finding /\ Duplicate(Finding)
      BY <2>1 DEF DropDuplicate, Decide
    <3>2. QED
      BY <3>1 DEF DedupInv, OnlyAlerted, Duplicate, Evicted
  <2>2. CASE RaiseAlert
    BY <2>2 DEF RaiseAlert, Decide, Decided
  <2>3. QED
    BY <2>1, <2>2, OtherSteps DEF Looking
<1>2. QED
  BY <1>1, DedupInvariant, PTL DEF Spec, DuplicateJustified

-----------------------------------------------------------------------------
(* The detector inside the program.                                        *)

\* A step of the program is a step of the detector, or none of its business.
LEMMA MonitorStep == [MonitorNext]_allVars => [Next]_vars
<1> SUFFICES ASSUME [MonitorNext]_allVars PROVE [Next]_vars
  OBVIOUS
<1>1. CASE Environment
  BY <1>1 DEF Environment, Next
<1>2. CASE \E e \in Event : LoopEvent(e)
  BY <1>2 DEF LoopEvent, Next
<1>3. CASE LoopCheck
  BY <1>3 DEF LoopCheck, LoopAlert, Next
<1>4. CASE \E g \in Goroutine : Handle(g)
  BY <1>4 DEF Handle, HandleSend, HandleObserve, HandleIncident
<1>5. CASE LoopFinding \/ LoopHeartbeat \/ LoopSignal \/ LoopStreamClosed
  BY <1>5 DEF LoopFinding, LoopHeartbeat, LoopSignal, LoopStreamClosed, Return
<1>6. CASE TailerAlert \/ Arrive \/ HeartbeatInterval
  BY <1>6 DEF TailerAlert, Arrive, HeartbeatInterval
<1>7. CASE Signal \/ StoreClose \/ SchemaAnswer \/ Shutdown
  BY <1>7 DEF Signal, StoreClose, SchemaAnswer, Shutdown
<1>8. CASE UNCHANGED allVars
  BY <1>8 DEF allVars
<1> QED
  BY <1>1, <1>2, <1>3, <1>4, <1>5, <1>6, <1>7, <1>8 DEF MonitorNext

\* The program runs the detector: whatever the loop, the tailer and the
\* shutdown do around it, the detector's part of the state behaves as module
\* Detector says, so that all that is proved there holds for the program.
THEOREM MonitorRunsDetector == MonitorSpec => Spec
<1>1. MonitorInit => Init
  BY DEF MonitorInit
<1> QED
  BY <1>1, MonitorStep, PTL DEF MonitorSpec, Spec

\* In the running program alerts of one key are spaced by dedupTTL.
THEOREM MonitorAlertsSpaced == MonitorSpec => DedupSpacing
  BY MonitorRunsDetector, AlertsSpaced

-----------------------------------------------------------------------------
(* Every finding counts.                                                   *)

WorkTypes ==
    /\ work \in [Goroutine -> [step : {"idle", "send", "observe", "incident"}, alert : Nat]]
    /\ n \in Nat /\ found \in Seq(Nat)

\* A goroutine that sends or observes has an alert; after that it is counted.
WorkInv == \A g \in Goroutine :
    /\ work[g].step = "idle" => work[g] = Idle
    /\ work[g].step = "incident" => work[g].alert \in observed

\* The loop returns with empty hands.
LoopDone == main # "loop" => check = NoCheck /\ found = <<>> /\ work["loop"] = Idle

InFound(a) == \E i \in DOMAIN found : found[i] = a

CountInv == WorkTypes /\ WorkInv /\ LoopDone /\ EveryFindingCounts

\* Nothing has been found at the start.
LEMMA CountInit == MonitorInit => CountInv
<1> SUFFICES ASSUME MonitorInit PROVE CountInv
  OBVIOUS
<1>1. n = 0 /\ found = <<>> /\ work = [g \in Goroutine |-> Idle] /\ main = "loop"
  BY DEF MonitorInit
<1>2. WorkTypes /\ WorkInv
  BY <1>1 DEF WorkTypes, WorkInv, Idle, Goroutine
<1>3. LoopDone /\ EveryFindingCounts
  BY <1>1 DEF LoopDone, EveryFindingCounts
<1> QED
  BY <1>2, <1>3 DEF CountInv

\* Send, Observe and the sending of an incident, by either goroutine: the
\* goroutine lets go of an alert only when the correlator has it.
LEMMA CountHandle ==
    ASSUME CountInv, NEW g \in Goroutine, Handle(g)
    PROVE  CountInv'
<1> USE DEF CountInv, WorkTypes
<1>1. /\ UNCHANGED <<n, found, main, check>>
      /\ observed \subseteq observed'
      /\ work[g].step # "idle"
      /\ \/ /\ work' = [work EXCEPT ![g] = Idle] /\ work[g].alert \in observed'
         \/ \E st \in {"observe", "incident"} :
               /\ work' = [work EXCEPT ![g].step = st]
               /\ st = "incident" => work[g].alert \in observed'
  BY DEF Handle, HandleSend, HandleObserve, HandleIncident, vars, checkVars, mainVars, WorkInv
<1>2. \A h \in Goroutine : h # g => work'[h] = work[h]
  BY <1>1
<1>3. WorkTypes' /\ WorkInv'
  <2>1. work' \in [Goroutine -> [step : {"idle", "send", "observe", "incident"}, alert : Nat]]
    <3>1. CASE work' = [work EXCEPT ![g] = Idle]
      BY <3>1 DEF Idle
    <3>2. ASSUME NEW st \in {"observe", "incident"}, work' = [work EXCEPT ![g].step = st]
          PROVE  work' \in [Goroutine -> [step : {"idle", "send", "observe", "incident"}, alert : Nat]]
      BY <3>2
    <3> QED
      BY <1>1, <3>1, <3>2
  <2>2. /\ work'[g].step = "idle" => work'[g] = Idle
        /\ work'[g].step = "incident" => work'[g].alert \in observed'
    BY <1>1 DEF Idle
  <2>3. \A h \in Goroutine : h # g =>
          /\ work'[h].step = "idle" => work'[h] = Idle
          /\ work'[h].step = "incident" => work'[h].alert \in observed'
    BY <1>1, <1>2 DEF WorkInv
  <2> QED
    BY <1>1, <2>1, <2>2, <2>3 DEF WorkInv
<1>4. LoopDone'
  <2>1. "loop" \in Goroutine
    BY DEF Goroutine
  <2>2. CASE main = "loop"
    BY <1>1, <2>2 DEF LoopDone
  <2>3. CASE main # "loop"
    <3>1. check = NoCheck /\ found = <<>> /\ work["loop"] = Idle
      BY <2>3 DEF LoopDone
    <3>2. g # "loop"
      BY <1>1, <3>1 DEF Idle
    <3> QED
      BY <1>1, <1>2, <2>1, <3>1, <3>2 DEF LoopDone
  <2> QED
    BY <2>2, <2>3
<1>5. EveryFindingCounts'
  <2> SUFFICES ASSUME NEW a \in 1 .. n, a \notin observed'
               PROVE  \/ work'["tailer"].alert = a
                      \/ main = "loop" /\ (work'["loop"].alert = a \/ InFound(a))
    BY <1>1 DEF EveryFindingCounts, InFound
  <2>1. \/ work["tailer"].alert = a
        \/ main = "loop" /\ (work["loop"].alert = a \/ InFound(a))
    BY <1>1 DEF EveryFindingCounts, InFound
  <2>2. \A h \in Goroutine : work[h].alert = a => work'[h].alert = a
    BY <1>1, <1>2
  <2> QED
    BY <2>1, <2>2 DEF Goroutine
<1> QED
  BY <1>3, <1>4, <1>5

\* An idle goroutine takes up an alert: the tailer a new one, the loop the
\* first that Check returned.
LEMMA CountBegin ==
    ASSUME CountInv, TailerAlert \/ LoopFinding
    PROVE  CountInv'
<1> USE DEF CountInv, WorkTypes
<1>1. CASE TailerAlert
  <2>1. /\ work["tailer"] = Idle /\ n' = n + 1
        /\ work' = [work EXCEPT !["tailer"] = [step |-> "send", alert |-> n + 1]]
        /\ UNCHANGED <<found, observed, main, check>>
    BY <1>1 DEF TailerAlert, Begin, vars, checkVars, mainVars
  <2>2. work'["tailer"].alert = n + 1 /\ work'["loop"] = work["loop"]
    BY <2>1 DEF Goroutine
  <2>3. WorkTypes' /\ WorkInv' /\ LoopDone'
    BY <2>1, <2>2 DEF WorkInv, LoopDone, Goroutine
  <2>4. \A a \in 1 .. n : work["tailer"].alert # a
    BY <2>1 DEF Idle
  <2>5. EveryFindingCounts'
    BY <2>1, <2>2, <2>4 DEF EveryFindingCounts
  <2> QED
    BY <2>3, <2>5
<1>2. CASE LoopFinding
  <2>1. /\ work["loop"] = Idle /\ found # <<>> /\ found' = Tail(found)
        /\ work' = [work EXCEPT !["loop"] = [step |-> "send", alert |-> Head(found)]]
        /\ UNCHANGED <<n, observed, main, check>>
    BY <1>2 DEF LoopFinding, Begin, vars, checkVars, mainVars
  <2>2. main = "loop"
    BY <2>1 DEF LoopDone
  <2>3. Head(found) \in Nat /\ Tail(found) \in Seq(Nat)
    BY <2>1
  <2>4. work'["loop"].alert = Head(found) /\ work'["tailer"] = work["tailer"]
    BY <2>1 DEF Goroutine
  <2>5. WorkTypes' /\ WorkInv' /\ LoopDone'
    BY <2>1, <2>2, <2>3, <2>4 DEF WorkInv, LoopDone, Goroutine
  <2>6. \A a \in 1 .. n : work["loop"].alert # a
    BY <2>1 DEF Idle
  <2>7. \A a : InFound(a) => a = Head(found) \/ \E i \in DOMAIN found' : found'[i] = a
    <3> SUFFICES ASSUME NEW i \in DOMAIN found, found[i] # Head(found)
                 PROVE  \E j \in DOMAIN found' : found'[j] = found[i]
      BY DEF InFound
    <3>1. i \in 1 .. Len(found) /\ i # 1
      BY <2>1
    <3>2. i - 1 \in DOMAIN found' /\ found'[i - 1] = found[i]
      BY <2>1, <3>1
    <3> QED
      BY <3>2
  <2>8. EveryFindingCounts'
    BY <2>1, <2>2, <2>4, <2>6, <2>7 DEF EveryFindingCounts, InFound
  <2> QED
    BY <2>5, <2>8
<1> QED
  BY <1>1, <1>2

\* Check adds a finding to the ones it returns.
LEMMA CountAlert ==
    ASSUME CountInv, LoopAlert
    PROVE  CountInv'
<1> USE DEF CountInv, WorkTypes
<1>1. /\ n' = n + 1 /\ found' = Append(found, n + 1)
      /\ UNCHANGED <<work, observed, main>>
      /\ check.step = "loop"
  BY DEF LoopAlert, RaiseAlert, InLoop, mainVars
<1>2. main = "loop"
  <2>1. NoCheck.step = "idle"
    BY DEF NoCheck
  <2> QED
    BY <1>1, <2>1 DEF LoopDone
<1>3. /\ n + 1 \in Nat /\ Append(found, n + 1) \in Seq(Nat)
      /\ \A i \in DOMAIN found : i \in DOMAIN Append(found, n + 1) /\ Append(found, n + 1)[i] = found[i]
      /\ \E i \in DOMAIN Append(found, n + 1) : Append(found, n + 1)[i] = n + 1
  <2>1. /\ n + 1 \in Nat /\ Append(found, n + 1) \in Seq(Nat)
        /\ Len(found) \in Nat /\ DOMAIN found = 1 .. Len(found)
        /\ DOMAIN Append(found, n + 1) = 1 .. Len(found) + 1
    OBVIOUS
  <2>2. \A i \in 1 .. Len(found) : Append(found, n + 1)[i] = found[i]
    OBVIOUS
  <2>3. Append(found, n + 1)[Len(found) + 1] = n + 1 /\ Len(found) + 1 \in 1 .. Len(found) + 1
    BY <2>1
  <2> QED
    BY <2>1, <2>2, <2>3
<1>4. WorkTypes' /\ WorkInv' /\ LoopDone'
  BY <1>1, <1>2, <1>3 DEF WorkInv, LoopDone
<1>5. EveryFindingCounts'
  BY <1>1, <1>2, <1>3 DEF EveryFindingCounts
<1> QED
  BY <1>4, <1>5

\* The steps of main, which leaves the loop only when it has nothing in hand.
LEMMA CountMain ==
    ASSUME CountInv, UNCHANGED alertVars,
           \/ UNCHANGED main /\ (check' = check \/ main = "loop")
           \/ AtSelect /\ UNCHANGED check
           \/ main # "loop" /\ main' # "loop" /\ UNCHANGED check
    PROVE  CountInv'
<1>1. UNCHANGED <<n, found, work, observed>>
  BY DEF alertVars
<1>2. WorkTypes' /\ WorkInv'
  BY <1>1 DEF CountInv, WorkTypes, WorkInv
<1>3. LoopDone'
  BY <1>1 DEF CountInv, LoopDone, AtSelect
<1>4. EveryFindingCounts'
  <2>1. CASE UNCHANGED main
    BY <1>1, <2>1 DEF CountInv, EveryFindingCounts
  <2>2. CASE AtSelect \/ main # "loop"
    <3>1. \A a \in 1 .. n : a \in observed \/ work["tailer"].alert = a
      <4>1. found = <<>> /\ work["loop"].alert = 0
        BY <2>2 DEF CountInv, LoopDone, AtSelect, Idle
      <4> QED
        BY <4>1 DEF CountInv, EveryFindingCounts
    <3> QED
      BY <1>1, <3>1 DEF EveryFindingCounts
  <2> QED
    BY <2>1, <2>2
<1> QED
  BY <1>2, <1>3, <1>4 DEF CountInv

LEMMA CountStep == CountInv /\ [MonitorNext]_allVars => CountInv'
<1> SUFFICES ASSUME CountInv, [MonitorNext]_allVars PROVE CountInv'
  OBVIOUS
<1>1. CASE \E g \in Goroutine : Handle(g)
  BY <1>1, CountHandle
<1>2. CASE TailerAlert \/ LoopFinding
  BY <1>2, CountBegin
<1>3. CASE LoopCheck
  <2>1. CASE LoopAlert
    BY <2>1, CountAlert
  <2>2. CASE /\ CheckSuppressions \/ SuppressFinding \/ DropDuplicate \/ CheckEnd
             /\ UNCHANGED <<alertVars, mainVars>>
    <3>1. UNCHANGED main /\ UNCHANGED alertVars
      BY <2>2 DEF mainVars
    <3>2. check.step # "idle"
      BY <2>2 DEF CheckSuppressions, SuppressFinding, DropDuplicate, CheckEnd, InLoop
    <3>3. main = "loop"
      BY <3>2 DEF CountInv, LoopDone, NoCheck
    <3> QED
      BY <3>1, <3>3, CountMain
  <2> QED
    BY <1>3, <2>1, <2>2 DEF LoopCheck
<1>4. CASE Environment \/ \E e \in Event : LoopEvent(e)
  <2>1. main = "loop" /\ UNCHANGED alertVars /\ UNCHANGED main
    BY <1>4 DEF Environment, LoopEvent, AtSelect, mainVars
  <2> QED
    BY <2>1, CountMain
<1>5. CASE LoopSignal \/ LoopStreamClosed
  <2>1. AtSelect /\ UNCHANGED alertVars /\ UNCHANGED check
    BY <1>5 DEF LoopSignal, LoopStreamClosed, Return, vars, checkVars
  <2> QED
    BY <2>1, CountMain
<1>6. CASE StoreClose \/ SchemaAnswer \/ Shutdown
  <2>1. main # "loop" /\ main' # "loop" /\ UNCHANGED alertVars /\ UNCHANGED check
    BY <1>6 DEF StoreClose, SchemaAnswer, Shutdown, vars, checkVars
  <2> QED
    BY <2>1, CountMain
<1>7. CASE LoopHeartbeat \/ Arrive \/ Signal \/ HeartbeatInterval \/ UNCHANGED allVars
  <2>1. UNCHANGED main /\ UNCHANGED alertVars /\ UNCHANGED check
    BY <1>7 DEF LoopHeartbeat, Arrive, Signal, HeartbeatInterval, allVars, vars, checkVars, mainVars
  <2> QED
    BY <2>1, CountMain
<1> QED
  BY <1>1, <1>2, <1>3, <1>4, <1>5, <1>6, <1>7 DEF MonitorNext

\* No finding of the loop or of the tailer misses the correlator, whatever Send
\* drops and whenever the signal comes, but the one that the tailer has in
\* hand when the process ends.
THEOREM FindingsAllCount == MonitorSpec => []EveryFindingCounts
<1>1. CountInv => EveryFindingCounts
  BY DEF CountInv
<1> QED
  BY <1>1, CountInit, CountStep, PTL DEF MonitorSpec
=============================================================================
