-------------------------- MODULE CorrelatorProofs --------------------------
(***************************************************************************)
(* Theorems about Correlator, for every set of keys and stages and every   *)
(* choice of the thresholds.                                               *)
(*                                                                         *)
(* The spacing of incidents rests on by[k].lastEmit, which the sweep       *)
(* forgets together with the bucket.  Remembered says what is left then:   *)
(* the bucket still knows its key's last incident, or so much time has     *)
(* passed that the cooldown is over even for a finding that is MaxLag old. *)
(*                                                                         *)
(* An incident carries sums over sets of findings.  Adds is the recursion  *)
(* behind the sum; that it has one solution, and that the solution grows   *)
(* with the set, is proved by induction over the size of the set.  WindowInv *)
(* ties the buckets to the history of findings.                            *)
(***************************************************************************)
EXTENDS Correlator, FiniteSetTheorems, WellFoundedInduction, TLAPS

\* Nothing is dated after the clock.
NotAfterClock ==
    /\ lastGC <= clock
    /\ \A k \in Key : by[k].lastSeen <= clock /\ incident[k].at <= clock

Remembered ==
    \A k \in Key : incident[k].at # 0 =>
        \/ /\ by[k].lastEmit = incident[k].at
           /\ by[k].lastSig = incident[k].stages
           /\ by[k].lastSeen >= incident[k].at - MaxLag
        \/ /\ by[k].lastEmit = 0
           /\ clock > incident[k].at + Window + Cooldown - MaxLag

\* The buckets in the map were not expired at the last sweep.
Swept ==
    \A k \in Key : by[k].lastSeen # 0 =>
        lastGC # 0 /\ by[k].lastSeen >= lastGC - (Window + Cooldown)

IInv == TypeOK /\ NotAfterClock /\ Remembered /\ Swept

-----------------------------------------------------------------------------
\* The sweep leaves a bucket alone or resets it, which it does only when a
\* sweep is due and the bucket expired.
LEMMA SweptBucket ==
    ASSUME NEW now, NEW j \in Key
    PROVE  \/ gcLocked(now)[j] = by[j] /\ ~(gcDue(now) /\ expired(by[j], now))
           \/ gcLocked(now)[j] = NewState /\ gcDue(now) /\ expired(by[j], now)
  BY DEF gcLocked

\* The sweep keeps the type of the buckets.
LEMMA SweptType ==
    ASSUME TypeOK, NEW now
    PROVE  gcLocked(now) \in [Key -> ContainerState]
<1>1. NewState \in ContainerState
  BY DEF NewState, ContainerState
<1>2. QED
  BY <1>1 DEF gcLocked, TypeOK

\* What one Observe does to the buckets and the incidents.
LEMMA ObserveEffect ==
    ASSUME TypeOK,
           NEW c \in Caller, NEW k \in Key, NEW tactic \in Stage \cup {NoStage},
           NEW sev \in Severity, NEW now \in 1 .. MaxClock,
           Observe(c, k, tactic, sev, now)
    PROVE  /\ now \in Nat \ {0} /\ now <= clock /\ now >= clock - MaxLag
           /\ clock' = clock
           /\ lastGC' = IF gcDue(now) THEN now ELSE lastGC
           /\ \A j \in Key : j # k => by'[j] = gcLocked(now)[j] /\ incident'[j] = incident[j]
           /\ by'[k].lastSeen = now
           /\ \/ /\ by'[k].lastEmit = gcLocked(now)[k].lastEmit
                 /\ by'[k].lastSig = gcLocked(now)[k].lastSig
                 /\ incident'[k] = incident[k]
                 /\ \/ ~qualifies(k, by'[k].contribs)
                    \/ stagesOf(by'[k].contribs) = gcLocked(now)[k].lastSig
                    \/ ~notCoolingDown(gcLocked(now)[k], now)
              \/ /\ by'[k].lastEmit = now
                 /\ incident'[k].at = now
                 /\ incident'[k].stages = stagesOf(by'[k].contribs)
                 /\ incident'[k].critical = isCritical(k, by'[k].contribs)
                 /\ incident'[k].last = n'
                 /\ by'[k].lastSig = incident'[k].stages
                 /\ notCoolingDown(gcLocked(now)[k], now)
                 /\ incident'[k].stages # gcLocked(now)[k].lastSig
           /\ TypeOK'
<1> USE CorrelatorAssumption
<1> DEFINE st == gcLocked(now)[k]
           ct == [id |-> n + 1, at |-> now, tactic |-> tactic, score |-> severityRisk[sev]]
           kept == keptContribs(st, ct, now)
           emit == emits(st, k, kept, now)
           new == [contribs |-> kept,
                   lastSig  |-> IF emit THEN stagesOf(kept) ELSE st.lastSig,
                   lastEmit |-> IF emit THEN now ELSE st.lastEmit,
                   lastSeen |-> now]
<1>1. /\ by' = [gcLocked(now) EXCEPT ![k] = new]
      /\ lastGC' = IF gcDue(now) THEN now ELSE lastGC
      /\ incident' = IF emit THEN [incident EXCEPT ![k] = buildIncident(k, kept, now)]
                             ELSE incident
      /\ observed' = observed \cup {[key |-> k, ct |-> ct]}
      /\ n' = n + 1 /\ clock' = clock /\ stamp' = [stamp EXCEPT ![c] = now]
      /\ now <= clock /\ now >= clock - MaxLag
  BY DEF Observe, ObserveFinding
<1>2. now \in Nat \ {0}
  OBVIOUS
<1>3. st \in ContainerState /\ gcLocked(now) \in [Key -> ContainerState]
  BY SweptType
<1>4. ct \in Contribution
  <2>1. severityRisk[sev] \in {10, 25, 50, 100}
    BY DEF severityRisk
  <2>2. n + 1 \in Nat
    BY DEF TypeOK
  <2>3. QED
    BY <1>2, <2>1, <2>2 DEF Contribution
<1>5. kept \in SUBSET Contribution /\ stagesOf(kept) \in SUBSET Stage
  BY <1>3, <1>4 DEF keptContribs, stagesOf, ContainerState, Contribution
<1>6. new \in ContainerState
  BY <1>2, <1>3, <1>5 DEF ContainerState
<1> HIDE DEF new, emit, kept, ct, st
<1>7. by' \in [Key -> ContainerState] /\ by'[k] = new
      /\ \A j \in Key : j # k => by'[j] = gcLocked(now)[j]
  BY <1>1, <1>3, <1>6
<1>8. /\ new.lastSeen = now /\ new.contribs = kept
      /\ emit => new.lastEmit = now /\ new.lastSig = stagesOf(kept)
      /\ ~emit => new.lastEmit = st.lastEmit /\ new.lastSig = st.lastSig
  BY DEF new
<1>9. emit <=> notCoolingDown(st, now) /\ stagesOf(kept) # st.lastSig /\ qualifies(k, kept)
  BY DEF emit, emits, newStageSet
<1>10. DOMAIN incident = Key
  BY DEF TypeOK
<1>11. /\ DOMAIN incident' = Key
       /\ \A j \in Key : j # k => incident'[j] = incident[j]
       /\ emit => /\ incident'[k].at = now /\ incident'[k].stages = stagesOf(kept)
                  /\ incident'[k].last = n'
                  /\ incident'[k].critical = isCritical(k, kept)
       /\ ~emit => incident'[k] = incident[k]
  BY <1>1, <1>10 DEF buildIncident
<1>12. TypeOK'
  <2>1. /\ lastGC' \in Nat /\ clock' \in Nat \ {0} /\ n' \in Nat
        /\ stamp' \in [Caller -> Nat \ {0}]
    BY <1>1, <1>2 DEF TypeOK
  <2>2. observed' \subseteq [key : Key, ct : Contribution]
    BY <1>1, <1>4 DEF TypeOK
  <2>3. \A j \in Key : incident'[j].at \in Nat /\ incident'[j].stages \subseteq Stage
    BY <1>2, <1>5, <1>11 DEF TypeOK
  <2>4. QED
    BY <1>7, <1>11, <2>1, <2>2, <2>3 DEF TypeOK
<1>13. QED
  BY <1>1, <1>2, <1>7, <1>8, <1>9, <1>11, <1>12 DEF st

-----------------------------------------------------------------------------
\* After an Observe the invariant holds again, and a new incident keeps its
\* distance from the last one of its key.
LEMMA ObserveStep ==
    ASSUME IInv, MaxLag <= Window + Cooldown,
           NEW c \in Caller, NEW k \in Key, NEW tactic \in Stage \cup {NoStage},
           NEW sev \in Severity, NEW now \in 1 .. MaxClock,
           Observe(c, k, tactic, sev, now)
    PROVE  /\ IInv'
           /\ (incident'[k] # incident[k] /\ incident[k].at # 0) =>
                 \/ /\ incident'[k].at - incident[k].at >= Cooldown
                    /\ incident'[k].stages # incident[k].stages
                 \/ incident'[k].at - incident[k].at > Window + Cooldown - 2 * MaxLag
           /\ \A j \in Key : by'[j].lastSeen # 0 => now - by'[j].lastSeen < 2 * Window + Cooldown
<1> USE CorrelatorAssumption
<1> DEFINE sw(j) == gcLocked(now)[j]
<1>1. TypeOK
  BY DEF IInv
<1>2. /\ now \in Nat \ {0} /\ now <= clock /\ now >= clock - MaxLag
      /\ clock' = clock
      /\ lastGC' = IF gcDue(now) THEN now ELSE lastGC
      /\ \A j \in Key : j # k => by'[j] = sw(j) /\ incident'[j] = incident[j]
      /\ by'[k].lastSeen = now
      /\ \/ /\ by'[k].lastEmit = sw(k).lastEmit
            /\ by'[k].lastSig = sw(k).lastSig
            /\ incident'[k] = incident[k]
         \/ /\ by'[k].lastEmit = now
            /\ incident'[k].at = now
            /\ by'[k].lastSig = incident'[k].stages
            /\ notCoolingDown(sw(k), now)
            /\ incident'[k].stages # sw(k).lastSig
      /\ TypeOK'
  BY <1>1, ObserveEffect
<1>3. /\ lastGC \in Nat /\ clock \in Nat \ {0} /\ lastGC <= clock
      /\ Window \in Nat \ {0} /\ Cooldown \in Nat /\ MaxLag \in Nat
  BY <1>1 DEF TypeOK, IInv, NotAfterClock
<1>4. \A j \in Key : /\ by[j].lastSeen \in Nat /\ by[j].lastEmit \in Nat /\ incident[j].at \in Nat
                    /\ by[j].lastSeen <= clock /\ incident[j].at <= clock
  BY <1>1 DEF TypeOK, ContainerState, IInv, NotAfterClock
<1>5. \A j \in Key :
        \/ sw(j) = by[j] /\ ~(gcDue(now) /\ now - by[j].lastSeen > Window + Cooldown)
        \/ /\ sw(j).lastSeen = 0 /\ sw(j).lastEmit = 0
           /\ gcDue(now) /\ now - by[j].lastSeen > Window + Cooldown
  BY SweptBucket DEF expired, NewState
<1> HIDE DEF sw
\* Remembered survives the sweep.
<1>6. \A j \in Key : incident[j].at # 0 =>
        \/ /\ sw(j) = by[j]
           /\ by[j].lastEmit = incident[j].at /\ by[j].lastSig = incident[j].stages
           /\ by[j].lastSeen >= incident[j].at - MaxLag
        \/ /\ sw(j).lastEmit = 0
           /\ clock > incident[j].at + Window + Cooldown - MaxLag
  <2> SUFFICES ASSUME NEW j \in Key, incident[j].at # 0
               PROVE  \/ /\ sw(j) = by[j]
                         /\ by[j].lastEmit = incident[j].at /\ by[j].lastSig = incident[j].stages
                         /\ by[j].lastSeen >= incident[j].at - MaxLag
                      \/ /\ sw(j).lastEmit = 0
                         /\ clock > incident[j].at + Window + Cooldown - MaxLag
    OBVIOUS
  <2>1. \/ /\ by[j].lastEmit = incident[j].at /\ by[j].lastSig = incident[j].stages
           /\ by[j].lastSeen >= incident[j].at - MaxLag
        \/ /\ by[j].lastEmit = 0
           /\ clock > incident[j].at + Window + Cooldown - MaxLag
    BY DEF IInv, Remembered
  <2>2. CASE sw(j) = by[j]
    BY <2>1, <2>2
  <2>3. CASE sw(j).lastEmit = 0 /\ now - by[j].lastSeen > Window + Cooldown
    BY <1>2, <1>3, <1>4, <2>1, <2>3
  <2>4. QED
    BY <1>5, <2>2, <2>3
<1>7. NotAfterClock'
  <2>1. lastGC' <= clock'
    BY <1>2, <1>3
  <2>2. \A j \in Key : by'[j].lastSeen <= clock'
    BY <1>2, <1>3, <1>4, <1>5
  <2>3. \A j \in Key : incident'[j].at <= clock'
    BY <1>2, <1>3, <1>4
  <2>4. QED
    BY <2>1, <2>2, <2>3 DEF NotAfterClock
<1>8. Remembered'
  <2> SUFFICES ASSUME NEW j \in Key, incident'[j].at # 0
               PROVE  \/ /\ by'[j].lastEmit = incident'[j].at
                         /\ by'[j].lastSig = incident'[j].stages
                         /\ by'[j].lastSeen >= incident'[j].at - MaxLag
                      \/ /\ by'[j].lastEmit = 0
                         /\ clock' > incident'[j].at + Window + Cooldown - MaxLag
    BY DEF Remembered
  <2>1. CASE j # k
    BY <1>2, <1>6, <2>1
  <2>2. CASE j = k /\ incident'[k] = incident[k] /\ by'[k].lastEmit = sw(k).lastEmit
                 /\ by'[k].lastSig = sw(k).lastSig
    BY <1>2, <1>3, <1>4, <1>6, <2>2
  <2>3. CASE j = k /\ by'[k].lastEmit = now /\ incident'[k].at = now
                 /\ by'[k].lastSig = incident'[k].stages
    BY <1>2, <1>3, <2>3
  <2>4. QED
    BY <1>2, <2>1, <2>2, <2>3
<1>9. Swept'
  <2> SUFFICES ASSUME NEW j \in Key, by'[j].lastSeen # 0
               PROVE  lastGC' # 0 /\ by'[j].lastSeen >= lastGC' - (Window + Cooldown)
    BY DEF Swept
  <2>1. lastGC' # 0
    BY <1>2 DEF gcDue
  <2>2. CASE j = k
    BY <1>2, <1>3, <2>1, <2>2
  <2>3. CASE j # k
    <3>1. by'[j] = by[j] /\ ~(gcDue(now) /\ now - by[j].lastSeen > Window + Cooldown)
      BY <1>2, <1>5, <2>3
    <3>2. by[j].lastSeen >= lastGC - (Window + Cooldown)
      BY <3>1 DEF IInv, Swept
    <3>3. QED
      BY <1>2, <1>3, <1>4, <2>1, <3>1, <3>2
  <2>4. QED
    BY <2>2, <2>3
<1>10. (incident'[k] # incident[k] /\ incident[k].at # 0) =>
          \/ /\ incident'[k].at - incident[k].at >= Cooldown
             /\ incident'[k].stages # incident[k].stages
          \/ incident'[k].at - incident[k].at > Window + Cooldown - 2 * MaxLag
  <2> SUFFICES ASSUME incident'[k] # incident[k], incident[k].at # 0
               PROVE  \/ /\ incident'[k].at - incident[k].at >= Cooldown
                         /\ incident'[k].stages # incident[k].stages
                      \/ incident'[k].at - incident[k].at > Window + Cooldown - 2 * MaxLag
    OBVIOUS
  <2>1. /\ incident'[k].at = now /\ incident'[k].stages # sw(k).lastSig
        /\ sw(k).lastEmit = 0 \/ now - sw(k).lastEmit >= Cooldown
    BY <1>2 DEF notCoolingDown
  <2>2. CASE sw(k) = by[k] /\ by[k].lastEmit = incident[k].at /\ by[k].lastSig = incident[k].stages
    BY <2>1, <2>2
  <2>3. CASE clock > incident[k].at + Window + Cooldown - MaxLag
    BY <1>2, <1>3, <1>4, <2>1, <2>3
  <2>4. QED
    BY <1>6, <2>2, <2>3
<1>11. \A j \in Key : by'[j].lastSeen # 0 => now - by'[j].lastSeen < 2 * Window + Cooldown
  <2> SUFFICES ASSUME NEW j \in Key, by'[j].lastSeen # 0
               PROVE  now - by'[j].lastSeen < 2 * Window + Cooldown
    OBVIOUS
  <2>1. now - lastGC' < Window
    BY <1>2, <1>3 DEF gcDue
  <2>2. by'[j].lastSeen >= lastGC' - (Window + Cooldown)
    BY <1>9 DEF Swept
  <2>3. by'[j].lastSeen \in Nat /\ lastGC' \in Nat
    BY <1>2 DEF TypeOK, ContainerState
  <2>4. QED
    BY <1>2, <1>3, <2>1, <2>2, <2>3
<1>12. QED
  BY <1>2, <1>7, <1>8, <1>9, <1>10, <1>11 DEF IInv

-----------------------------------------------------------------------------
\* Every step keeps the types.
LEMMA TypeNext == ASSUME TypeOK, [Next]_vars PROVE TypeOK'
<1>1. CASE Tick
  BY <1>1 DEF Tick, TypeOK
<1>2. ASSUME NEW c \in Caller, NEW k \in Key, NEW tactic \in Stage \cup {NoStage},
             NEW sev \in Severity, NEW now \in 1 .. MaxClock,
             Observe(c, k, tactic, sev, now)
      PROVE  TypeOK'
  BY <1>2, ObserveEffect
<1>3. CASE BoundsReached \/ UNCHANGED vars
  BY <1>3 DEF BoundsReached, vars, TypeOK
<1>4. QED
  BY <1>1, <1>2, <1>3 DEF Next

\* Nothing has been observed at the start.
LEMMA TypeInit == Init => TypeOK
BY DEF Init, TypeOK, NewState, NoIncident, ContainerState, Caller

\* The buckets, the clock and the histories keep their types, whatever the
\* order of the timestamps.
THEOREM TypeCorrect == Spec => []TypeOK
BY TypeInit, TypeNext, PTL DEF Spec

\* The inductive invariant, for findings that are not too old.
THEOREM Invariance ==
    ASSUME MaxLag <= Window + Cooldown
    PROVE  Spec => []IInv
<1>1. Init => IInv
  <2> SUFFICES ASSUME Init PROVE IInv
    OBVIOUS
  <2>1. TypeOK
    BY TypeInit
  <2>2. NotAfterClock /\ Remembered /\ Swept
    BY DEF Init, NewState, NoIncident, NotAfterClock, Remembered, Swept
  <2>3. QED
    BY <2>1, <2>2 DEF IInv
<1>2. IInv /\ [Next]_vars => IInv'
  <2> SUFFICES ASSUME IInv, [Next]_vars PROVE IInv'
    OBVIOUS
  <2>1. CASE Tick
    <3>1. clock \in Nat /\ clock' = clock + 1 /\ UNCHANGED <<by, lastGC, stamp, n, observed, incident>>
      BY <2>1 DEF Tick, IInv, TypeOK
    <3>2. TypeOK'
      BY <3>1 DEF IInv, TypeOK
    <3>3. Swept'
      BY <3>1 DEF IInv, Swept
    <3>4. lastGC \in Nat /\ \A k \in Key : by[k].lastSeen \in Nat /\ incident[k].at \in Nat
      BY DEF IInv, TypeOK, ContainerState
    <3>5. NotAfterClock'
      BY <3>1, <3>4 DEF IInv, NotAfterClock
    <3>6. Remembered'
      BY <3>1, <3>4, CorrelatorAssumption DEF IInv, Remembered
    <3>7. QED
      BY <3>2, <3>3, <3>5, <3>6 DEF IInv
  <2>2. ASSUME NEW c \in Caller, NEW k \in Key, NEW tactic \in Stage \cup {NoStage},
               NEW sev \in Severity, NEW now \in 1 .. MaxClock,
               Observe(c, k, tactic, sev, now)
        PROVE  IInv'
    BY <2>2, ObserveStep
  <2>3. CASE BoundsReached \/ UNCHANGED vars
    BY <2>3 DEF BoundsReached, vars, IInv, TypeOK, NotAfterClock, Remembered, Swept
  <2>4. QED
    BY <2>1, <2>2, <2>3 DEF Next
<1>3. QED
  BY <1>1, <1>2, PTL DEF Spec

\* What a step may do to the incident of a key and to the buckets.
LEMMA StepSpacing ==
    ASSUME IInv, MaxLag <= Window + Cooldown, Next
    PROVE  /\ \A k \in Key : (Emitted(k) /\ incident[k].at # 0) =>
                 \/ /\ incident'[k].at - incident[k].at >= Cooldown
                    /\ incident'[k].stages # incident[k].stages
                 \/ incident'[k].at - incident[k].at > Window + Cooldown - 2 * MaxLag
           /\ \A k \in Key : \A o \in observed' \ observed :
                 by'[k].lastSeen # 0 => o.ct.at - by'[k].lastSeen < 2 * Window + Cooldown
<1>1. CASE Tick \/ BoundsReached
  BY <1>1 DEF Tick, BoundsReached, vars, Emitted
<1>2. ASSUME NEW c \in Caller, NEW k \in Key, NEW tactic \in Stage \cup {NoStage},
             NEW sev \in Severity, NEW now \in 1 .. MaxClock,
             Observe(c, k, tactic, sev, now)
      PROVE  /\ \A j \in Key : (Emitted(j) /\ incident[j].at # 0) =>
                   \/ /\ incident'[j].at - incident[j].at >= Cooldown
                      /\ incident'[j].stages # incident[j].stages
                   \/ incident'[j].at - incident[j].at > Window + Cooldown - 2 * MaxLag
             /\ \A j \in Key : \A o \in observed' \ observed :
                   by'[j].lastSeen # 0 => o.ct.at - by'[j].lastSeen < 2 * Window + Cooldown
  <2>1. TypeOK
    BY DEF IInv
  <2>2. \A j \in Key : j # k => incident'[j] = incident[j]
    <3>1. \E inc : incident' = incident \/ incident' = [incident EXCEPT ![k] = inc]
      BY <1>2 DEF Observe, ObserveFinding
    <3>2. QED
      BY <2>1, <3>1 DEF TypeOK
  <2>3. \A o \in observed' \ observed : o.ct.at = now
    BY <1>2 DEF Observe, ObserveFinding
  <2>4. QED
    BY <1>2, <2>2, <2>3, ObserveStep DEF Emitted
<1>3. QED
  BY <1>1, <1>2 DEF Next

\* Incidents for one key are at least Cooldown apart although the sweep forgets
\* when the last one was emitted, if findings are at most half a window late.
THEOREM Spacing ==
    ASSUME 2 * MaxLag <= Window
    PROVE  Spec => CooldownSpacing
<1>1. MaxLag <= Window + Cooldown
  BY CorrelatorAssumption
<1>2. IInv /\ [Next]_vars =>
        [\A k \in Key : (Emitted(k) /\ incident[k].at # 0) =>
            incident'[k].at - incident[k].at >= Cooldown]_vars
  <2> SUFFICES ASSUME IInv, Next, NEW k \in Key, Emitted(k), incident[k].at # 0
               PROVE  incident'[k].at - incident[k].at >= Cooldown
    OBVIOUS
  <2>1. \/ incident'[k].at - incident[k].at >= Cooldown
        \/ incident'[k].at - incident[k].at > Window + Cooldown - 2 * MaxLag
    BY <1>1, StepSpacing
  <2>2. incident[k].at \in Nat /\ incident'[k].at \in Nat
    <3>1. TypeOK /\ TypeOK'
      BY TypeNext DEF IInv
    <3>2. QED
      BY <3>1 DEF TypeOK
  <2>3. QED
    BY <2>1, <2>2, CorrelatorAssumption
<1>3. QED
  BY <1>1, <1>2, Invariance, PTL DEF Spec, CooldownSpacing

\* An incident with the stages of the last one comes only after the bucket was
\* swept: a repeated stage set is reported once.
THEOREM StageSetOnce ==
    ASSUME MaxLag <= Window + Cooldown
    PROVE  Spec => NoRepeat
<1>1. IInv /\ [Next]_vars =>
        [\A k \in Key :
            (Emitted(k) /\ incident[k].at # 0 /\ incident'[k].stages = incident[k].stages)
              => incident'[k].at - incident[k].at > Window + Cooldown - 2 * MaxLag]_vars
  BY StepSpacing
<1>2. QED
  BY <1>1, Invariance, PTL DEF Spec, NoRepeat

\* No bucket outlives two windows and a cooldown of silence by an Observe.
THEOREM BucketsExpire ==
    ASSUME MaxLag <= Window + Cooldown
    PROVE  Spec => NoLeak
<1>1. IInv /\ [Next]_vars =>
        [\A k \in Key : \A o \in observed' \ observed :
            by'[k].lastSeen # 0 => o.ct.at - by'[k].lastSeen < 2 * Window + Cooldown]_vars
  BY StepSpacing
<1>2. QED
  BY <1>1, Invariance, PTL DEF Spec, NoLeak

-----------------------------------------------------------------------------
(* What is worse than the last incident is reported as worse.             *)

\* A chain that gained a stage since an incident that already had enough of
\* them is reported as Critical.
THEOREM EscalationsAreCritical == Spec => EscalationIsCritical
<1> DEFINE Escalates(k) ==
             (/\ Emitted(k)
              /\ incident[k].stages \subseteq incident'[k].stages
              /\ incident[k].stages # incident'[k].stages
              /\ Cardinality(incident[k].stages) >= minStages(k))
                 => incident'[k].critical
<1>1. TypeOK /\ [Next]_vars => [\A k \in Key : Escalates(k)]_vars
  <2> SUFFICES ASSUME TypeOK, Next, NEW j \in Key PROVE Escalates(j)
    OBVIOUS
  <2>1. CASE Tick \/ BoundsReached
    BY <2>1 DEF Tick, BoundsReached, vars, Emitted
  <2>2. ASSUME NEW c \in Caller, NEW k \in Key, NEW tactic \in Stage \cup {NoStage},
               NEW sev \in Severity, NEW now \in 1 .. MaxClock,
               Observe(c, k, tactic, sev, now)
        PROVE  Escalates(j)
    <3> SUFFICES ASSUME Emitted(j),
                        incident[j].stages \subseteq incident'[j].stages,
                        incident[j].stages # incident'[j].stages,
                        Cardinality(incident[j].stages) >= minStages(j)
                 PROVE  incident'[j].critical
      OBVIOUS
    <3>1. /\ \A i \in Key : i # k => incident'[i] = incident[i]
          /\ \/ incident'[k] = incident[k]
             \/ /\ incident'[k].stages = stagesOf(by'[k].contribs)
                /\ incident'[k].critical = isCritical(k, by'[k].contribs)
          /\ TypeOK'
      BY <2>2, ObserveEffect
    <3>2. j = k
      BY <3>1 DEF Emitted
    <3>3. incident'[j].stages \subseteq Stage
      BY <3>1 DEF TypeOK
    <3>4. IsFiniteSet(incident'[j].stages)
      BY <3>3, FS_Subset, CorrelatorAssumption
    <3>5. /\ Cardinality(incident[j].stages) \in Nat /\ Cardinality(incident'[j].stages) \in Nat
          /\ Cardinality(incident[j].stages) < Cardinality(incident'[j].stages)
      BY <3>4, FS_Subset, FS_CardinalityType
    <3>6. minStages(j) \in Nat
      BY CorrelatorAssumption DEF minStages
    <3>7. Cardinality(incident'[j].stages) >= minStages(j) + 1
      BY <3>5, <3>6
    <3>8. QED
      BY <3>1, <3>2, <3>7 DEF isCritical, Emitted
  <2>3. QED
    BY <2>1, <2>2 DEF Next
<1>2. QED
  BY <1>1, TypeCorrect, PTL DEF Spec, EscalationIsCritical

-----------------------------------------------------------------------------
(* scoreOf adds up the risk of a finite set, in whatever order.            *)

\* One unfolding, over the subsets of S, of the recursion behind scoreOf.
Unfold(S, f) ==
    [s \in SUBSET S |->
        IF s = {} THEN 0
        ELSE LET x == CHOOSE y \in s : TRUE IN x.score + f[s \ {x}]]

Adds(S, f) == f = Unfold(S, f)

\* The definition, with the fold of the library unfolded.
LEMMA ScoreDef ==
    ASSUME NEW S
    PROVE  scoreOf(S) = (CHOOSE f : Adds(S, f))[S]
  BY DEF scoreOf, MapThenSumSet, MapThenFoldSet, Adds, Unfold

\* A set of naturals that is not empty has a least element.
LEMMA Least ==
    ASSUME NEW T, T \subseteq Nat, T # {}
    PROVE  \E m \in T : \A t \in T : m <= t
<1>1. PICK m \in T : \A t \in T : ~(<<t, m>> \in OpToRel(<, Nat))
  BY WFMin, NatLessThanWellFounded
<1>2. \A t \in T : ~(t < m)
  BY <1>1 DEF OpToRel
<1> QED BY <1>2

\* A set that holds 0 and every successor holds every natural.
LEMMA Induct ==
    ASSUME NEW T, T \subseteq Nat, 0 \in T, \A t \in T : t + 1 \in T
    PROVE  T = Nat
<1> SUFFICES ASSUME NEW a \in Nat, a \notin T PROVE FALSE
  OBVIOUS
<1> DEFINE U == Nat \ T
<1>1. U \subseteq Nat /\ U # {}
  OBVIOUS
<1> HIDE DEF U
<1>2. PICK m \in U : \A t \in U : m <= t
  BY <1>1, Least
<1>3. m \in Nat /\ m \notin T /\ \A t \in Nat : t \notin T => m <= t
  BY <1>2 DEF U
<1>4. m # 0 /\ m - 1 \in Nat
  BY <1>3
<1>5. m - 1 \in T
  BY <1>3, <1>4
<1> QED BY <1>3, <1>4, <1>5

\* A set that is not empty without an element it has is one smaller.
LEMMA OneLess ==
    ASSUME NEW s, IsFiniteSet(s), NEW x \in s
    PROVE  /\ IsFiniteSet(s \ {x}) /\ Cardinality(s) \in Nat /\ Cardinality(s \ {x}) \in Nat
           /\ Cardinality(s \ {x}) + 1 = Cardinality(s)
<1>1. IsFiniteSet(s \ {x}) /\ Cardinality(s \ {x}) = Cardinality(s) - 1
  BY FS_RemoveElement
<1>2. Cardinality(s) \in Nat /\ Cardinality(s \ {x}) \in Nat
  BY <1>1, FS_CardinalityType
<1>3. \A a, b \in Nat : b = a - 1 => b + 1 = a
  OBVIOUS
<1>4. QED
  BY <1>1, <1>2, <1>3

\* Unfold(S, f) at a subset.
LEMMA UnfoldAt ==
    ASSUME NEW S, NEW f, NEW s \in SUBSET S
    PROVE  /\ s = {} => Unfold(S, f)[s] = 0
           /\ s # {} => \E x \in s : /\ x = (CHOOSE y \in s : TRUE)
                                     /\ Unfold(S, f)[s] = x.score + f[s \ {x}]
  BY DEF Unfold

\* The recursion has a solution: unfolding it m times is right up to size m.
LEMMA AddsExists ==
    ASSUME NEW S, IsFiniteSet(S)
    PROVE  \E f : Adds(S, f)
<1> DEFINE T == {m \in Nat : \E f : \A s \in SUBSET S :
                    Cardinality(s) <= m => f[s] = Unfold(S, f)[s]}
<1>0. \A s \in SUBSET S : IsFiniteSet(s) /\ Cardinality(s) \in Nat
  BY FS_Subset, FS_CardinalityType
<1>1. 0 \in T
  <2> DEFINE f == [s \in SUBSET S |-> 0]
  <2>1. ASSUME NEW s \in SUBSET S, Cardinality(s) <= 0 PROVE f[s] = Unfold(S, f)[s]
    <3>1. Cardinality(s) = 0
      BY <1>0, <2>1
    <3>2. s = {}
      BY <1>0, <3>1, FS_EmptySet
    <3>3. QED
      BY <3>2, UnfoldAt
  <2>2. \E g : \A s \in SUBSET S : Cardinality(s) <= 0 => g[s] = Unfold(S, g)[s]
    BY <2>1
  <2>3. QED
    BY <2>2
<1>2. ASSUME NEW m \in T PROVE m + 1 \in T
  <2>1. PICK f : \A s \in SUBSET S : Cardinality(s) <= m => f[s] = Unfold(S, f)[s]
    OBVIOUS
  <2>g. PICK g : g = Unfold(S, f)
    OBVIOUS
  <2>2. ASSUME NEW s \in SUBSET S, Cardinality(s) <= m + 1 PROVE g[s] = Unfold(S, g)[s]
    <3>1. CASE s = {}
      BY <2>g, <3>1, UnfoldAt
    <3>2. CASE s # {}
      <4>1. PICK x \in s : x = (CHOOSE y \in s : TRUE) /\ g[s] = x.score + f[s \ {x}]
        BY <2>g, <3>2, UnfoldAt
      <4>2. PICK z \in s : z = (CHOOSE y \in s : TRUE) /\ Unfold(S, g)[s] = z.score + g[s \ {z}]
        BY <3>2, UnfoldAt
      <4>3. x = z
        BY <4>1, <4>2
      <4>4. s \ {x} \in SUBSET S /\ Cardinality(s \ {x}) <= m
        <5>1. Cardinality(s \ {x}) \in Nat /\ Cardinality(s) \in Nat /\ Cardinality(s \ {x}) + 1 = Cardinality(s)
          BY <1>0, OneLess
        <5>2. m \in Nat
          BY <1>2
        <5>3. \A a, b \in Nat : a + 1 = b /\ b <= m + 1 => a <= m
          BY <5>2
        <5>4. QED
          BY <2>2, <5>1, <5>3
      <4>5. f[s \ {x}] = g[s \ {x}]
        BY <2>g, <2>1, <4>4
      <4>6. QED
        BY <4>1, <4>2, <4>3, <4>5
    <3>3. QED
      BY <3>1, <3>2
  <2>3. \E h : \A s \in SUBSET S : Cardinality(s) <= m + 1 => h[s] = Unfold(S, h)[s]
    BY <2>2
  <2>4. m + 1 \in Nat
    BY <1>2
  <2>5. QED
    BY <2>3, <2>4
<1>3. T \subseteq Nat
  OBVIOUS
<1>4. T = Nat
  <2> HIDE DEF T
  <2>1. QED
    BY <1>1, <1>2, <1>3, Induct
<1>5. Cardinality(S) \in T
  BY <1>0, <1>4
<1>6. PICK f : \A s \in SUBSET S : Cardinality(s) <= Cardinality(S) => f[s] = Unfold(S, f)[s]
  BY <1>5
<1>7. \A s \in SUBSET S : f[s] = Unfold(S, f)[s]
  <2>1. \A s \in SUBSET S : Cardinality(s) <= Cardinality(S)
    BY FS_Subset
  <2>2. QED
    BY <1>6, <2>1
<1> DEFINE g == Unfold(S, f)
<1>8. \A s \in SUBSET S : g[s] = f[s]
  BY <1>7
<1>9. Unfold(S, g) = Unfold(S, f)
  <2> HIDE DEF g
  <2>1. ASSUME NEW s \in SUBSET S PROVE Unfold(S, g)[s] = Unfold(S, f)[s]
    <3>1. CASE s = {}
      BY <3>1, UnfoldAt
    <3>2. CASE s # {}
      <4>1. PICK x \in s : x = (CHOOSE y \in s : TRUE) /\ Unfold(S, f)[s] = x.score + f[s \ {x}]
        BY <3>2, UnfoldAt
      <4>2. PICK z \in s : z = (CHOOSE y \in s : TRUE) /\ Unfold(S, g)[s] = z.score + g[s \ {z}]
        BY <3>2, UnfoldAt
      <4>3. x = z /\ s \ {x} \in SUBSET S
        BY <4>1, <4>2
      <4>4. QED
        BY <1>8, <4>1, <4>2, <4>3
    <3>3. QED
      BY <3>1, <3>2
  <2>2. /\ Unfold(S, g) = [s \in SUBSET S |-> Unfold(S, g)[s]]
        /\ Unfold(S, f) = [s \in SUBSET S |-> Unfold(S, f)[s]]
    BY DEF Unfold
  <2>3. QED
    BY <2>1, <2>2
<1>10. QED
  BY <1>9 DEF Adds

\* It has one solution: two of them differ on no smallest subset.
LEMMA AddsUnique ==
    ASSUME NEW R, NEW S, IsFiniteSet(S), R \subseteq S, NEW f, NEW g, Adds(R, f), Adds(S, g)
    PROVE  \A s \in SUBSET R : f[s] = g[s]
<1> DEFINE T == {m \in Nat : \A s \in SUBSET R : Cardinality(s) <= m => f[s] = g[s]}
<1>0. \A s \in SUBSET R : IsFiniteSet(s) /\ Cardinality(s) \in Nat /\ s \in SUBSET S
  BY FS_Subset, FS_CardinalityType
<1>f. f = Unfold(R, f) /\ g = Unfold(S, g)
  BY DEF Adds
<1>1. 0 \in T
  <2>1. ASSUME NEW s \in SUBSET R, Cardinality(s) <= 0 PROVE f[s] = g[s]
    <3>1. Cardinality(s) = 0
      BY <1>0, <2>1
    <3>2. s = {}
      BY <1>0, <3>1, FS_EmptySet
    <3>3. Unfold(R, f)[s] = 0 /\ Unfold(S, g)[s] = 0
      BY <1>0, <3>2, UnfoldAt
    <3>4. QED
      BY <1>f, <3>3
  <2>2. QED
    BY <2>1
<1>2. ASSUME NEW m \in T PROVE m + 1 \in T
  <2>1. m \in Nat /\ \A s \in SUBSET R : Cardinality(s) <= m => f[s] = g[s]
    OBVIOUS
  <2>2. ASSUME NEW s \in SUBSET R, Cardinality(s) <= m + 1 PROVE f[s] = g[s]
    <3>1. CASE s = {}
      <4>1. Unfold(R, f)[s] = 0 /\ Unfold(S, g)[s] = 0
        BY <1>0, <3>1, UnfoldAt
      <4>2. QED
        BY <1>f, <4>1
    <3>2. CASE s # {}
      <4>1. PICK x \in s : x = (CHOOSE y \in s : TRUE) /\ Unfold(R, f)[s] = x.score + f[s \ {x}]
        BY <3>2, UnfoldAt
      <4>2. PICK z \in s : z = (CHOOSE y \in s : TRUE) /\ Unfold(S, g)[s] = z.score + g[s \ {z}]
        BY <1>0, <3>2, UnfoldAt
      <4>3. x = z
        BY <4>1, <4>2
      <4>4. s \ {x} \in SUBSET R /\ Cardinality(s \ {x}) <= m
        <5>1. Cardinality(s \ {x}) \in Nat /\ Cardinality(s) \in Nat /\ Cardinality(s \ {x}) + 1 = Cardinality(s)
          BY <1>0, OneLess
        <5>2. \A a, b \in Nat : a + 1 = b /\ b <= m + 1 => a <= m
          BY <2>1
        <5>3. QED
          BY <2>2, <5>1, <5>2
      <4>5. f[s \ {x}] = g[s \ {x}]
        BY <2>1, <4>4
      <4>6. QED
        BY <1>f, <4>1, <4>2, <4>3, <4>5
    <3>3. QED
      BY <3>1, <3>2
  <2>3. QED
    BY <2>1, <2>2
<1>3. T \subseteq Nat
  OBVIOUS
<1>4. T = Nat
  <2> HIDE DEF T
  <2>1. QED
    BY <1>1, <1>2, <1>3, Induct
<1>5. ASSUME NEW s \in SUBSET R PROVE f[s] = g[s]
  <2>1. Cardinality(s) \in T /\ Cardinality(s) <= Cardinality(s)
    BY <1>0, <1>4
  <2>2. QED
    BY <2>1
<1>6. QED
  BY <1>5

\* One solution gives the scores of all subsets.
LEMMA ScoreFrom ==
    ASSUME NEW S, IsFiniteSet(S)
    PROVE  \E g : Adds(S, g) /\ \A R \in SUBSET S : scoreOf(R) = g[R]
<1>1. PICK g : Adds(S, g)
  BY AddsExists
<1>2. ASSUME NEW R \in SUBSET S PROVE scoreOf(R) = g[R]
  <2>1. IsFiniteSet(R)
    BY FS_Subset
  <2> DEFINE f == CHOOSE h : Adds(R, h)
  <2>2. Adds(R, f)
    BY <2>1, AddsExists
  <2>3. scoreOf(R) = f[R]
    BY ScoreDef
  <2> HIDE DEF f
  <2>4. QED
    BY <1>1, <2>2, <2>3, AddsUnique
<1>3. QED
  BY <1>1, <1>2

\* The recursion, in terms of scoreOf.
LEMMA ScoreStep ==
    ASSUME NEW S, IsFiniteSet(S)
    PROVE  /\ scoreOf({}) = 0
           /\ S # {} => \E x \in S : scoreOf(S) = x.score + scoreOf(S \ {x})
<1>1. PICK g : Adds(S, g) /\ \A R \in SUBSET S : scoreOf(R) = g[R]
  BY ScoreFrom
<1>2. g = Unfold(S, g)
  BY <1>1 DEF Adds
<1>3. {} \in SUBSET S /\ S \in SUBSET S
  OBVIOUS
<1>4. scoreOf({}) = 0
  BY <1>1, <1>2, <1>3, UnfoldAt
<1>5. ASSUME S # {} PROVE \E x \in S : scoreOf(S) = x.score + scoreOf(S \ {x})
  <2>1. PICK x \in S : Unfold(S, g)[S] = x.score + g[S \ {x}]
    BY <1>3, <1>5, UnfoldAt
  <2>2. S \ {x} \in SUBSET S
    OBVIOUS
  <2>3. QED
    BY <1>1, <1>2, <1>3, <2>1, <2>2
<1>6. QED
  BY <1>4, <1>5

\* Which finding is added last does not matter.
LEMMA ScoreRemove ==
    ASSUME NEW S, IsFiniteSet(S), S \subseteq Contribution
    PROVE  /\ scoreOf(S) \in Nat
           /\ \A y \in S : scoreOf(S \ {y}) \in Nat /\ scoreOf(S) = y.score + scoreOf(S \ {y})
<1> DEFINE Good(R) == /\ scoreOf(R) \in Nat
                      /\ \A y \in R : scoreOf(R \ {y}) \in Nat /\ scoreOf(R) = y.score + scoreOf(R \ {y})
           T == {m \in Nat : \A R \in SUBSET S : Cardinality(R) <= m => Good(R)}
<1>0. \A R \in SUBSET S : IsFiniteSet(R) /\ Cardinality(R) \in Nat
  BY FS_Subset, FS_CardinalityType
<1>s. \A y \in S : y.score \in Nat
  BY DEF Contribution
<1>1. 0 \in T
  <2>1. ASSUME NEW R \in SUBSET S, Cardinality(R) <= 0 PROVE Good(R)
    <3>1. Cardinality(R) = 0
      BY <1>0, <2>1
    <3>2. R = {}
      BY <1>0, <3>1, FS_EmptySet
    <3>3. scoreOf(R) = 0
      BY <1>0, <3>2, ScoreStep
    <3>4. QED
      BY <3>2, <3>3
  <2> HIDE DEF Good
  <2>2. QED
    BY <2>1
<1>2. ASSUME NEW m \in T PROVE m + 1 \in T
  <2>1. m \in Nat /\ \A R \in SUBSET S : Cardinality(R) <= m => Good(R)
    BY <1>2
  <2>2. ASSUME NEW R \in SUBSET S, Cardinality(R) <= m + 1 PROVE Good(R)
    <3>1. CASE R = {}
      <4>1. scoreOf(R) = 0
        BY <1>0, <3>1, ScoreStep
      <4>2. QED
        BY <3>1, <4>1
    <3>2. CASE R # {}
      <4>1. PICK x \in R : scoreOf(R) = x.score + scoreOf(R \ {x})
        BY <1>0, <3>2, ScoreStep
      <4>2. ASSUME NEW y \in R PROVE R \ {y} \in SUBSET S /\ Good(R \ {y})
        <5>1. Cardinality(R \ {y}) \in Nat /\ Cardinality(R) \in Nat /\ Cardinality(R \ {y}) + 1 = Cardinality(R)
          BY <1>0, OneLess
        <5>2. \A a, b \in Nat : a + 1 = b /\ b <= m + 1 => a <= m
          BY <2>1
        <5> HIDE DEF Good
        <5>3. QED
          BY <2>1, <2>2, <5>1, <5>2
      <4>3. scoreOf(R) \in Nat
        BY <1>s, <4>1, <4>2
      <4>4. ASSUME NEW y \in R
            PROVE  scoreOf(R \ {y}) \in Nat /\ scoreOf(R) = y.score + scoreOf(R \ {y})
        <5>1. scoreOf(R \ {y}) \in Nat
          BY <4>2
        <5>2. CASE y = x
          BY <4>1, <5>1, <5>2
        <5>3. CASE y # x
          <6>1. y \in R \ {x} /\ x \in R \ {y} /\ (R \ {x}) \ {y} = (R \ {y}) \ {x}
            BY <5>3
          <6>2. /\ scoreOf((R \ {x}) \ {y}) \in Nat
                /\ scoreOf(R \ {x}) = y.score + scoreOf((R \ {x}) \ {y})
                /\ scoreOf(R \ {y}) = x.score + scoreOf((R \ {y}) \ {x})
            BY <4>2, <6>1
          <6>3. x.score \in Nat /\ y.score \in Nat
            BY <1>s
          <6>4. \A a, b, c, d, e, h \in Nat : d = b + c /\ e = a + c /\ h = a + d => h = b + e
            OBVIOUS
          <6>5. scoreOf(R \ {y}) = x.score + scoreOf((R \ {x}) \ {y})
            BY <6>1, <6>2
          <6>6. scoreOf(R \ {x}) \in Nat
            BY <4>2
          <6>7. QED
            BY <4>1, <4>3, <5>1, <6>2, <6>3, <6>4, <6>5, <6>6
        <5>4. QED
          BY <5>2, <5>3
      <4>5. QED
        BY <4>3, <4>4
    <3>3. QED
      BY <3>1, <3>2
  <2> HIDE DEF Good
  <2>3. QED
    BY <2>1, <2>2
<1>3. T \subseteq Nat
  OBVIOUS
<1>4. T = Nat
  <2> HIDE DEF T
  <2>1. QED
    BY <1>1, <1>2, <1>3, Induct
<1>5. Cardinality(S) \in T /\ Cardinality(S) <= Cardinality(S)
  BY <1>0, <1>4
<1>6. Good(S)
  <2> HIDE DEF Good
  <2>1. QED
    BY <1>5
<1>7. QED
  BY <1>6

\* More findings never score less.
LEMMA ScoreMonotone ==
    ASSUME NEW S, IsFiniteSet(S), S \subseteq Contribution, NEW R \in SUBSET S
    PROVE  scoreOf(R) \in Nat /\ scoreOf(S) \in Nat /\ scoreOf(R) <= scoreOf(S)
<1> DEFINE T == {m \in Nat : \A Q \in SUBSET S :
                    R \subseteq Q /\ Cardinality(Q) <= m => scoreOf(R) <= scoreOf(Q)}
<1>0. \A Q \in SUBSET S : IsFiniteSet(Q) /\ Cardinality(Q) \in Nat /\ scoreOf(Q) \in Nat
  <2>1. \A Q \in SUBSET S : IsFiniteSet(Q) /\ Cardinality(Q) \in Nat /\ Q \subseteq Contribution
    BY FS_Subset, FS_CardinalityType
  <2>2. QED
    BY <2>1, ScoreRemove
<1>1. 0 \in T
  <2>1. ASSUME NEW Q \in SUBSET S, R \subseteq Q, Cardinality(Q) <= 0 PROVE scoreOf(R) <= scoreOf(Q)
    <3>1. Cardinality(Q) = 0
      BY <1>0, <2>1
    <3>2. Q = {}
      BY <1>0, <3>1, FS_EmptySet
    <3>3. R = Q
      BY <2>1, <3>2
    <3>4. QED
      BY <1>0, <3>3
  <2>2. QED
    BY <2>1
<1>2. ASSUME NEW m \in T PROVE m + 1 \in T
  <2>1. m \in Nat /\ \A Q \in SUBSET S : R \subseteq Q /\ Cardinality(Q) <= m => scoreOf(R) <= scoreOf(Q)
    OBVIOUS
  <2>2. ASSUME NEW Q \in SUBSET S, R \subseteq Q, Cardinality(Q) <= m + 1 PROVE scoreOf(R) <= scoreOf(Q)
    <3>1. CASE Q = R
      BY <1>0, <3>1
    <3>2. CASE Q # R
      <4>1. PICK y \in Q : y \notin R
        BY <2>2, <3>2
      <4>2. R \subseteq Q \ {y} /\ Q \ {y} \in SUBSET S
        BY <2>2, <4>1
      <4>3. Cardinality(Q \ {y}) <= m
        <5>1. Cardinality(Q \ {y}) \in Nat /\ Cardinality(Q) \in Nat /\ Cardinality(Q \ {y}) + 1 = Cardinality(Q)
          BY <1>0, OneLess
        <5>2. \A a, b \in Nat : a + 1 = b /\ b <= m + 1 => a <= m
          BY <2>1
        <5>3. QED
          BY <2>2, <5>1, <5>2
      <4>4. scoreOf(R) <= scoreOf(Q \ {y})
        BY <2>1, <4>2, <4>3
      <4>5. Q \subseteq Contribution
        OBVIOUS
      <4>6. scoreOf(Q) = y.score + scoreOf(Q \ {y})
        BY <1>0, <4>5, ScoreRemove
      <4>7. /\ y.score \in Nat /\ scoreOf(R) \in Nat /\ scoreOf(Q \ {y}) \in Nat
        BY <1>0, <4>2, <4>5 DEF Contribution
      <4>8. QED
        BY <4>4, <4>6, <4>7
    <3>3. QED
      BY <3>1, <3>2
  <2>3. QED
    BY <2>1, <2>2
<1>3. T \subseteq Nat
  OBVIOUS
<1>4. T = Nat
  <2> HIDE DEF T
  <2>1. QED
    BY <1>1, <1>2, <1>3, Induct
<1>5. Cardinality(S) \in T /\ Cardinality(S) <= Cardinality(S) /\ S \in SUBSET S
  BY <1>0, <1>4
<1>6. scoreOf(R) <= scoreOf(S)
  BY <1>5
<1>7. QED
  BY <1>0, <1>6

-----------------------------------------------------------------------------
(* What an incident reports.                                               *)

\* The history is finite, numbered up to n and not dated after the clock.
HistoryInv ==
    /\ TypeOK /\ IsFiniteSet(observed)
    /\ \A o \in observed : o.ct.id <= n /\ o.ct.at <= clock
    /\ \A k \in Key : incident[k].at # 0 => incident[k].last \in Nat /\ incident[k].last <= n

\* A bucket holds findings of its own key.
InBucket == \A k \in Key : \A c \in by[k].contribs : [key |-> k, ct |-> c] \in observed

\* A finding that is not in its bucket is too old for any window to come.
KeptRecent == \A o \in observed : o.ct \in by[o.key].contribs \/ o.ct.at <= clock - Window

\* No finding is much younger than the last one its bucket has seen.
SeenLate == \A k \in Key : \A c \in by[k].contribs : c.at <= by[k].lastSeen + MaxLag

WindowInv == HistoryInv /\ InBucket /\ KeptRecent /\ SeenLate /\ IncidentWindow

\* What one Observe does to the bucket, the history and the incident.
LEMMA ObserveBucket ==
    ASSUME TypeOK,
           NEW c \in Caller, NEW k \in Key, NEW tactic \in Stage \cup {NoStage},
           NEW sev \in Severity, NEW now \in 1 .. MaxClock,
           Observe(c, k, tactic, sev, now)
    PROVE  \E ct \in Contribution :
              /\ ct.id = n + 1 /\ ct.at = now /\ n' = n + 1
              /\ observed' = observed \cup {[key |-> k, ct |-> ct]}
              /\ by'[k].contribs = keptContribs(gcLocked(now)[k], ct, now)
              /\ \/ incident'[k] = incident[k]
                 \/ incident'[k] = buildIncident(k, by'[k].contribs, now)
<1> USE CorrelatorAssumption
<1> DEFINE st == gcLocked(now)[k]
           ct == [id |-> n + 1, at |-> now, tactic |-> tactic, score |-> severityRisk[sev]]
           kept == keptContribs(st, ct, now)
           emit == emits(st, k, kept, now)
           new == [contribs |-> kept,
                   lastSig  |-> IF emit THEN stagesOf(kept) ELSE st.lastSig,
                   lastEmit |-> IF emit THEN now ELSE st.lastEmit,
                   lastSeen |-> now]
<1>1. /\ by' = [gcLocked(now) EXCEPT ![k] = new]
      /\ incident' = IF emit THEN [incident EXCEPT ![k] = buildIncident(k, kept, now)]
                             ELSE incident
      /\ observed' = observed \cup {[key |-> k, ct |-> ct]}
      /\ n' = n + 1
  BY DEF Observe, ObserveFinding
<1>2. ct \in Contribution /\ ct.id = n + 1 /\ ct.at = now
  <2>1. severityRisk[sev] \in {10, 25, 50, 100}
    BY DEF severityRisk
  <2>2. n + 1 \in Nat /\ now \in Nat
    BY DEF TypeOK
  <2>3. QED
    BY <2>1, <2>2 DEF Contribution
<1>3. gcLocked(now) \in [Key -> ContainerState] /\ DOMAIN incident = Key
  BY SweptType DEF TypeOK
<1>4. new.contribs = kept
  OBVIOUS
<1> HIDE DEF new, emit, kept, ct, st
<1>5. by'[k].contribs = kept
  BY <1>1, <1>3, <1>4
<1>6. incident'[k] = incident[k] \/ incident'[k] = buildIncident(k, kept, now)
  BY <1>1, <1>3
<1>7. QED
  BY <1>1, <1>2, <1>5, <1>6 DEF kept, st

\* A finding that the sweep takes is too old for any window to come.
LEMMA SweepKeeps ==
    ASSUME WindowInv, MaxLag <= Cooldown + 1, NEW now \in Nat, now <= clock,
           NEW o \in observed, o.ct \notin gcLocked(now)[o.key].contribs
    PROVE  o.ct.at <= clock - Window
<1>0. /\ TypeOK /\ o \in [key : Key, ct : Contribution] /\ o.key \in Key /\ o.ct.at \in Nat
      /\ clock \in Nat
  BY DEF WindowInv, HistoryInv, TypeOK, Contribution
<1>1. CASE o.ct \notin by[o.key].contribs
  BY <1>1 DEF WindowInv, KeptRecent
<1>2. CASE o.ct \in by[o.key].contribs
  <2>1. expired(by[o.key], now)
    BY <1>0, <1>2, SweptBucket
  <2>2. now - by[o.key].lastSeen > Window + Cooldown
    BY <2>1 DEF expired
  <2>3. o.ct.at <= by[o.key].lastSeen + MaxLag
    BY <1>0, <1>2 DEF WindowInv, SeenLate
  <2>4. by[o.key].lastSeen \in Nat
    BY <1>0 DEF TypeOK, ContainerState
  <2>5. QED
    BY <1>0, <2>2, <2>3, <2>4, CorrelatorAssumption
<1>3. QED
  BY <1>1, <1>2

\* IncidentWindow, of any history.
Reports(O, k, inc) ==
    LET may  == FindingsOf(O, k, inc.last, inc.at - Window)
        must == FindingsOf(O, k, inc.last, inc.at - Window + MaxLag)
    IN  /\ stagesOf(must) \subseteq inc.stages /\ inc.stages \subseteq stagesOf(may)
        /\ scoreOf(must) <= inc.score /\ inc.score <= scoreOf(may)

\* Findings of a key are contributions, finitely many.
LEMMA FindingsFinite ==
    ASSUME NEW H, IsFiniteSet(H), H \subseteq [key : Key, ct : Contribution],
           NEW k, NEW last, NEW since
    PROVE  IsFiniteSet(FindingsOf(H, k, last, since)) /\ FindingsOf(H, k, last, since) \subseteq Contribution
<1> DEFINE O == {o \in H : o.key = k /\ o.ct.id <= last /\ o.ct.at > since}
           f == [o \in O |-> o.ct]
<1>1. IsFiniteSet(O)
  BY FS_Subset
<1>2. FindingsOf(H, k, last, since) = {o.ct : o \in O}
  BY DEF FindingsOf
<1>3. \A o \in O : o.ct \in Contribution
  OBVIOUS
<1> HIDE DEF O
<1>4. f \in Surjection(O, {o.ct : o \in O})
  BY DEF Surjection
<1>5. IsFiniteSet({o.ct : o \in O})
  BY <1>1, <1>4, FS_Surjection
<1>6. QED
  BY <1>2, <1>3, <1>5

\* An incident that reports a bucket between must and may is right.
LEMMA ReportsBucket ==
    ASSUME NEW H, IsFiniteSet(H), H \subseteq [key : Key, ct : Contribution],
           NEW k, NEW inc, NEW cts,
           inc.stages = stagesOf(cts), inc.score = scoreOf(cts),
           cts \subseteq FindingsOf(H, k, inc.last, inc.at - Window),
           FindingsOf(H, k, inc.last, inc.at - Window + MaxLag) \subseteq cts
    PROVE  Reports(H, k, inc)
<1> DEFINE may == FindingsOf(H, k, inc.last, inc.at - Window)
           must == FindingsOf(H, k, inc.last, inc.at - Window + MaxLag)
<1>1. IsFiniteSet(may) /\ may \subseteq Contribution
  BY FindingsFinite
<1>2. must \subseteq cts /\ cts \subseteq may
  OBVIOUS
<1> HIDE DEF may, must
<1>3. IsFiniteSet(cts) /\ cts \subseteq Contribution
  BY <1>1, <1>2, FS_Subset
<1>4. scoreOf(cts) <= scoreOf(may)
  BY <1>1, <1>2, ScoreMonotone
<1>5. scoreOf(must) <= scoreOf(cts)
  BY <1>2, <1>3, ScoreMonotone
<1>6. stagesOf(must) \subseteq stagesOf(cts) /\ stagesOf(cts) \subseteq stagesOf(may)
  BY <1>2 DEF stagesOf
<1>7. QED
  BY <1>4, <1>5, <1>6 DEF Reports, may, must

\* A later finding is not among those of an earlier incident.
LEMMA AmongEarlier ==
    ASSUME NEW H, NEW f, NEW m \in Nat, f.ct.id = m + 1,
           NEW k, NEW last \in Nat, last <= m, NEW since
    PROVE  FindingsOf(H \cup {f}, k, last, since) = FindingsOf(H, k, last, since)
<1>1. ~(f.ct.id <= last)
  OBVIOUS
<1>2. {o \in H \cup {f} : o.key = k /\ o.ct.id <= last /\ o.ct.at > since}
        = {o \in H : o.key = k /\ o.ct.id <= last /\ o.ct.at > since}
  BY <1>1
<1>3. QED
  BY <1>2 DEF FindingsOf

\* After an Observe stamped now, the bucket holds the findings of the window:
\* all that are surely in it and none that is outside.
LEMMA BucketIsWindow ==
    ASSUME HistoryInv', InBucket', KeptRecent', NEW k \in Key, NEW now \in Nat,
           clock' - MaxLag <= now, \A x \in by'[k].contribs : x.at > now - Window
    PROVE  /\ by'[k].contribs \subseteq FindingsOf(observed', k, n', now - Window)
           /\ FindingsOf(observed', k, n', now - Window + MaxLag) \subseteq by'[k].contribs
<1>1. ASSUME NEW x \in by'[k].contribs PROVE x \in FindingsOf(observed', k, n', now - Window)
  <2>1. PICK o \in observed' : o.key = k /\ o.ct = x
    BY <1>1 DEF InBucket
  <2>2. o.ct.id <= n'
    BY DEF HistoryInv
  <2>3. x.at > now - Window
    BY <1>1
  <2>4. QED
    BY <2>1, <2>2, <2>3 DEF FindingsOf
<1>2. ASSUME NEW o \in observed', o.key = k, o.ct.at > now - Window + MaxLag
      PROVE  o.ct \in by'[k].contribs
  <2>1. o.ct.at \in Nat /\ clock' \in Nat
    BY DEF HistoryInv, TypeOK, Contribution
  <2>2. clock' - MaxLag <= now /\ MaxLag \in Nat /\ Window \in Nat /\ now \in Nat
    BY CorrelatorAssumption
  <2>3. ~(o.ct.at <= clock' - Window)
    <3> DEFINE at == o.ct.at
               time == clock'
    <3>1. at \in Nat /\ time \in Nat /\ at > now - Window + MaxLag /\ time - MaxLag <= now
      BY <1>2, <2>1, <2>2
    <3> HIDE DEF at, time
    <3>2. ~(at <= time - Window)
      BY <2>2, <3>1
    <3>3. QED
      BY <3>2 DEF at, time
  <2>4. QED
    BY <1>2, <2>3 DEF KeptRecent
<1>3. FindingsOf(observed', k, n', now - Window + MaxLag) \subseteq by'[k].contribs
  BY <1>2 DEF FindingsOf
<1>4. QED
  BY <1>1, <1>3

\* Observe keeps the buckets true to the history, and reports what they hold.
LEMMA WindowObserve ==
    ASSUME WindowInv, MaxLag <= Cooldown + 1,
           NEW c \in Caller, NEW k \in Key, NEW tactic \in Stage \cup {NoStage},
           NEW sev \in Severity, NEW now \in 1 .. MaxClock,
           Observe(c, k, tactic, sev, now)
    PROVE  WindowInv'
<1> USE CorrelatorAssumption
<1>0. /\ TypeOK /\ IsFiniteSet(observed) /\ observed \subseteq [key : Key, ct : Contribution]
      /\ n \in Nat /\ clock \in Nat /\ DOMAIN incident = Key
      /\ \A o \in observed : /\ o.ct.id \in Nat /\ o.ct.id <= n
                             /\ o.ct.at \in Nat /\ o.ct.at <= clock /\ o.key \in Key
      /\ \A j \in Key : incident[j].at # 0 => incident[j].last \in Nat /\ incident[j].last <= n
  BY DEF WindowInv, HistoryInv, TypeOK, Contribution
<1>1. /\ now \in Nat \ {0} /\ now <= clock /\ now >= clock - MaxLag /\ clock' = clock
      /\ \A j \in Key : j # k => by'[j] = gcLocked(now)[j] /\ incident'[j] = incident[j]
      /\ by'[k].lastSeen = now /\ TypeOK'
  BY <1>0, ObserveEffect
<1>2. PICK ct \in Contribution :
          /\ ct.id = n + 1 /\ ct.at = now /\ n' = n + 1
          /\ observed' = observed \cup {[key |-> k, ct |-> ct]}
          /\ by'[k].contribs = keptContribs(gcLocked(now)[k], ct, now)
          /\ \/ incident'[k] = incident[k]
             \/ incident'[k] = buildIncident(k, by'[k].contribs, now)
  BY <1>0, ObserveBucket
<1> DEFINE f == [key |-> k, ct |-> ct]
<1>3. f.key = k /\ f.ct = ct /\ f \in [key : Key, ct : Contribution] /\ observed' = observed \cup {f}
  BY <1>2
<1> HIDE DEF f
<1>4. \A j \in Key : gcLocked(now)[j] = by[j] \/ gcLocked(now)[j].contribs = {}
  BY SweptBucket DEF NewState
<1>5. by'[k].contribs = {x \in gcLocked(now)[k].contribs \cup {ct} : x.at > now - Window}
  BY <1>2 DEF keptContribs, insideWindow
<1>6. IsFiniteSet(observed') /\ observed' \subseteq [key : Key, ct : Contribution]
  BY <1>0, <1>3, FS_AddElement
<1>7. HistoryInv'
  <2>1. \A o \in observed' : o.ct.id <= n' /\ o.ct.at <= clock'
    BY <1>0, <1>1, <1>2, <1>3
  <2>2. \A j \in Key : incident'[j].at # 0 => incident'[j].last \in Nat /\ incident'[j].last <= n'
    <3>1. incident'[k] = buildIncident(k, by'[k].contribs, now) => incident'[k].last = n + 1
      BY DEF buildIncident
    <3>2. QED
      BY <1>0, <1>1, <1>2, <3>1
  <2>3. QED
    BY <1>1, <1>6, <2>1, <2>2 DEF HistoryInv
<1>8. InBucket'
  <2> SUFFICES ASSUME NEW j \in Key, NEW x \in by'[j].contribs
               PROVE  [key |-> j, ct |-> x] \in observed'
    BY DEF InBucket
  <2>1. CASE j # k
    BY <1>1, <1>3, <1>4, <2>1 DEF WindowInv, InBucket
  <2>2. CASE j = k
    BY <1>2, <1>4, <1>5, <2>2 DEF WindowInv, InBucket
  <2>3. QED
    BY <2>1, <2>2
<1>9. KeptRecent'
  <2> SUFFICES ASSUME NEW o \in observed', o.ct \notin by'[o.key].contribs
               PROVE  o.ct.at <= clock - Window
    BY <1>1 DEF KeptRecent
  <2>1. CASE o = f
    <3>1. ct \in by'[k].contribs
      BY <1>1, <1>2, <1>5
    <3>2. QED
      BY <1>3, <2>1, <3>1
  <2>2. CASE o \in observed /\ o.ct \notin gcLocked(now)[o.key].contribs
    BY <1>1, <2>2, SweepKeeps
  <2>3. CASE o \in observed /\ o.ct \in gcLocked(now)[o.key].contribs
    <3>1. o.key = k
      BY <1>0, <1>1, <2>3
    <3>2. ~(o.ct.at > now - Window)
      BY <1>5, <2>3, <3>1
    <3>3. QED
      BY <1>0, <1>1, <2>3, <3>2
  <2>4. QED
    BY <1>3, <2>1, <2>2, <2>3
<1>10. SeenLate'
  <2> SUFFICES ASSUME NEW j \in Key, NEW x \in by'[j].contribs
               PROVE  x.at <= by'[j].lastSeen + MaxLag
    BY DEF SeenLate
  <2>1. CASE j # k
    BY <1>1, <1>4, <2>1 DEF WindowInv, SeenLate
  <2>2. CASE j = k
    <3>1. [key |-> k, ct |-> x] \in observed'
      BY <1>8, <2>2 DEF InBucket
    <3>2. \A o \in observed' : o.ct.at \in Nat /\ o.ct.at <= clock
      BY <1>0, <1>1, <1>2, <1>3
    <3>3. x.at \in Nat /\ x.at <= clock
      BY <3>1, <3>2
    <3>4. QED
      BY <1>0, <1>1, <2>2, <3>3
  <2>3. QED
    BY <2>1, <2>2
<1>11. ASSUME NEW j \in Key, incident'[j].at # 0 PROVE Reports(observed', j, incident'[j])
  <2>1. CASE incident'[j] = incident[j]
    <3>1. Reports(observed, j, incident[j])
      BY <1>11, <2>1 DEF WindowInv, IncidentWindow, Reports, FindingsOf
    <3>2. incident[j].last \in Nat /\ incident[j].last <= n
      BY <1>0, <1>11, <2>1
    <3>3. \A since : FindingsOf(observed', j, incident[j].last, since) = FindingsOf(observed, j, incident[j].last, since)
      BY <1>0, <1>2, <1>3, <3>2, AmongEarlier
    <3>4. QED
      BY <2>1, <3>1, <3>3 DEF Reports
  <2>2. CASE j = k /\ incident'[k] = buildIncident(k, by'[k].contribs, now)
    <3> DEFINE inc == incident'[k]
               cts == by'[k].contribs
    <3>1. inc.at = now /\ inc.last = n + 1 /\ inc.stages = stagesOf(cts) /\ inc.score = scoreOf(cts)
      BY <2>2 DEF buildIncident
    <3>2. /\ cts \subseteq FindingsOf(observed', k, inc.last, inc.at - Window)
          /\ FindingsOf(observed', k, inc.last, inc.at - Window + MaxLag) \subseteq cts
      <4>1. \A x \in by'[k].contribs : x.at > now - Window
        BY <1>5
      <4>2. clock' - MaxLag <= now /\ now \in Nat
        BY <1>0, <1>1
      <4>3. QED
        BY <1>2, <1>7, <1>8, <1>9, <3>1, <4>1, <4>2, BucketIsWindow
    <3> HIDE DEF inc, cts
    <3>3. Reports(observed', k, inc)
      BY <1>6, <3>1, <3>2, ReportsBucket
    <3>4. QED
      BY <2>2, <3>3 DEF inc
  <2>3. QED
    BY <1>1, <1>2, <2>1, <2>2
<1>12. IncidentWindow'
  BY <1>11 DEF IncidentWindow, Reports, FindingsOf
<1>13. QED
  BY <1>7, <1>8, <1>9, <1>10, <1>12 DEF WindowInv

\* Nothing has been observed and nothing reported at the start.
LEMMA WindowInit == Init => WindowInv
<1> SUFFICES ASSUME Init PROVE WindowInv
  OBVIOUS
<1>1. TypeOK
  BY TypeInit
<1>2. observed = {} /\ \A k \in Key : incident[k].at = 0 /\ by[k].contribs = {}
  BY DEF Init, NewState, NoIncident
<1>3. QED
  BY <1>1, <1>2, FS_EmptySet DEF WindowInv, HistoryInv, InBucket, KeptRecent, SeenLate, IncidentWindow

\* Time alone takes nothing out of a bucket, and every step keeps WindowInv.
LEMMA WindowNext ==
    ASSUME WindowInv, MaxLag <= Cooldown + 1, [Next]_vars
    PROVE  WindowInv'
<1>1. CASE UNCHANGED <<by, lastGC, stamp, n, observed, incident>> /\ clock' \in {clock, clock + 1}
  <2>1. clock \in Nat /\ \A o \in observed : o.ct.at \in Nat
    BY DEF WindowInv, HistoryInv, TypeOK, Contribution
  <2>2. TypeOK'
    BY <1>1, <2>1 DEF WindowInv, HistoryInv, TypeOK
  <2>3. \A o \in observed : o.ct.at <= clock' /\ (o.ct.at <= clock - Window => o.ct.at <= clock' - Window)
    BY <1>1, <2>1, CorrelatorAssumption DEF WindowInv, HistoryInv
  <2>4. HistoryInv'
    BY <1>1, <2>2, <2>3 DEF WindowInv, HistoryInv
  <2>5. InBucket' /\ SeenLate'
    BY <1>1 DEF WindowInv, InBucket, SeenLate
  <2>6. KeptRecent'
    BY <1>1, <2>3 DEF WindowInv, KeptRecent
  <2>7. IncidentWindow'
    BY <1>1 DEF WindowInv, IncidentWindow, FindingsOf
  <2>8. QED
    BY <2>4, <2>5, <2>6, <2>7 DEF WindowInv
<1>2. CASE Tick \/ BoundsReached \/ UNCHANGED vars
  BY <1>1, <1>2 DEF Tick, BoundsReached, vars
<1>3. QED
  BY <1>2, WindowObserve DEF Next

\* buildIncident: for every threshold, window and order of the timestamps, an
\* incident reports all findings of its key that are surely in the window and
\* none that is outside, if the sweep waits long enough for late findings.
THEOREM IncidentsReportWindow ==
    ASSUME MaxLag <= Cooldown + 1
    PROVE  Spec => []IncidentWindow
<1>1. WindowInv /\ [Next]_vars => WindowInv'
  BY WindowNext
<1>2. WindowInv => IncidentWindow
  BY DEF WindowInv
<1>3. QED
  BY WindowInit, <1>1, <1>2, PTL DEF Spec

-----------------------------------------------------------------------------
(* What is reported.                                                       *)

\* What a bucket remembers of its last incident is true of the last incident
\* of its key, though the sweep may have made it forget.
Told ==
    \A k \in Key :
        /\ by[k].lastSig # {} => by[k].lastSig = incident[k].stages
        /\ by[k].lastEmit # 0 => by[k].lastEmit = incident[k].at

\* The swept bucket's memory is the bucket's own, or gone.
LEMMA SweptTold ==
    ASSUME Told, NEW now, NEW j \in Key
    PROVE  /\ gcLocked(now)[j].lastSig # {} => gcLocked(now)[j].lastSig = incident[j].stages
           /\ gcLocked(now)[j].lastEmit # 0 => gcLocked(now)[j].lastEmit = incident[j].at
<1>1. gcLocked(now)[j] = by[j] \/ gcLocked(now)[j] = NewState
  BY SweptBucket
<1>2. NewState.lastSig = {} /\ NewState.lastEmit = 0
  BY DEF NewState
<1>3. QED
  BY <1>1, <1>2 DEF Told

\* Only Observe writes a bucket or an incident, and it writes both alike.
LEMMA ToldNext == ASSUME TypeOK, Told, [Next]_vars PROVE Told'
<1>1. CASE Tick \/ BoundsReached \/ UNCHANGED vars
  BY <1>1 DEF Tick, BoundsReached, vars, Told
<1>2. ASSUME NEW c \in Caller, NEW k \in Key, NEW tactic \in Stage \cup {NoStage},
             NEW sev \in Severity, NEW now \in 1 .. MaxClock,
             Observe(c, k, tactic, sev, now)
      PROVE  Told'
  <2> DEFINE sw(j) == gcLocked(now)[j]
  <2>1. /\ \A j \in Key : j # k => by'[j] = sw(j) /\ incident'[j] = incident[j]
        /\ \/ /\ by'[k].lastEmit = sw(k).lastEmit
              /\ by'[k].lastSig = sw(k).lastSig
              /\ incident'[k] = incident[k]
           \/ /\ by'[k].lastEmit = now
              /\ incident'[k].at = now
              /\ by'[k].lastSig = incident'[k].stages
    BY <1>2, ObserveEffect
  <2>2. \A j \in Key :
          /\ sw(j).lastSig # {} => sw(j).lastSig = incident[j].stages
          /\ sw(j).lastEmit # 0 => sw(j).lastEmit = incident[j].at
    BY SweptTold
  <2> HIDE DEF sw
  <2>3. QED
    BY <2>1, <2>2 DEF Told
<1>3. QED
  BY <1>1, <1>2 DEF Next

\* A larger bucket qualifies when a smaller one does.
LEMMA QualifiesMonotone ==
    ASSUME NEW k, NEW R, NEW S, IsFiniteSet(S), S \subseteq Contribution, R \subseteq S,
           qualifies(k, R)
    PROVE  qualifies(k, S)
<1>1. scoreOf(R) \in Nat /\ scoreOf(S) \in Nat /\ scoreOf(R) <= scoreOf(S)
  BY ScoreMonotone
<1>2. minStages(k) \in Nat /\ minScore(k) \in Nat
  BY CorrelatorAssumption DEF minStages, minScore
<1>3. stagesOf(R) \subseteq stagesOf(S) /\ stagesOf(S) \subseteq Stage
  BY DEF stagesOf, Contribution
<1>4. IsFiniteSet(stagesOf(S))
  BY <1>3, FS_Subset, CorrelatorAssumption
<1>5. /\ Cardinality(stagesOf(R)) \in Nat /\ Cardinality(stagesOf(S)) \in Nat
      /\ Cardinality(stagesOf(R)) <= Cardinality(stagesOf(S))
  BY <1>3, <1>4, FS_Subset, FS_CardinalityType
<1>6. QED
  BY <1>1, <1>2, <1>5 DEF qualifies

\* What is said of a new finding o: its chain is reported, or need not be.
Answered(o) ==
    LET k    == o.key
        now  == o.ct.at
        must == FindingsOf(observed', k, n', now - Window + MaxLag)
        may  == FindingsOf(observed', k, n', now - Window)
        inc  == incident'[k]
    IN  (qualifies(k, must) /\ stagesOf(must) # {}) =>
          \/ inc.last = n'
          \/ inc.at # 0 /\ now - inc.at < Cooldown
          \/ stagesOf(must) \subseteq inc.stages /\ inc.stages \subseteq stagesOf(may)

\* Observe answers the finding it is given.
LEMMA ObserveAnswers ==
    ASSUME WindowInv, WindowInv', Told, MaxLag <= Cooldown + 1,
           NEW c \in Caller, NEW k \in Key, NEW tactic \in Stage \cup {NoStage},
           NEW sev \in Severity, NEW now \in 1 .. MaxClock,
           Observe(c, k, tactic, sev, now), NEW o \in observed' \ observed
    PROVE  Answered(o)
<1> DEFINE sw == gcLocked(now)[k]
           cts == by'[k].contribs
           must == FindingsOf(observed', k, n', now - Window + MaxLag)
           may == FindingsOf(observed', k, n', now - Window)
<1>0. TypeOK /\ clock \in Nat
  BY DEF WindowInv, HistoryInv, TypeOK
<1>1. /\ now \in Nat \ {0} /\ now <= clock /\ now >= clock - MaxLag /\ clock' = clock
      /\ \/ /\ incident'[k] = incident[k]
            /\ \/ ~qualifies(k, cts)
               \/ stagesOf(cts) = sw.lastSig
               \/ ~notCoolingDown(sw, now)
         \/ incident'[k].last = n'
  BY <1>0, ObserveEffect
<1>2. PICK ct \in Contribution :
          /\ ct.at = now
          /\ observed' = observed \cup {[key |-> k, ct |-> ct]}
          /\ cts = keptContribs(sw, ct, now)
  BY <1>0, ObserveBucket
<1>3. o.key = k /\ o.ct.at = now
  BY <1>2
<1>4. \A x \in cts : x.at > now - Window
  BY <1>2 DEF keptContribs, insideWindow
<1>5. cts \subseteq may /\ must \subseteq cts
  <2>1. clock' - MaxLag <= now /\ now \in Nat
    BY <1>0, <1>1, CorrelatorAssumption
  <2>2. HistoryInv' /\ InBucket' /\ KeptRecent'
    BY DEF WindowInv
  <2>3. QED
    BY <1>4, <2>1, <2>2, BucketIsWindow
<1>6. IsFiniteSet(cts) /\ cts \subseteq Contribution
  <2>1. IsFiniteSet(observed') /\ observed' \subseteq [key : Key, ct : Contribution]
    BY DEF WindowInv, HistoryInv, TypeOK
  <2>2. IsFiniteSet(may) /\ may \subseteq Contribution
    BY <2>1, FindingsFinite
  <2> HIDE DEF may, cts
  <2>3. QED
    BY <1>5, <2>2, FS_Subset
<1>7. /\ sw.lastSig # {} => sw.lastSig = incident[k].stages
      /\ sw.lastEmit # 0 => sw.lastEmit = incident[k].at
  BY SweptTold
<1>8. ~notCoolingDown(sw, now) => sw.lastEmit # 0 /\ ~(now - sw.lastEmit >= Cooldown)
  BY DEF notCoolingDown
<1>9. sw.lastEmit \in Nat
  BY <1>0, SweptType DEF ContainerState
<1>10. stagesOf(must) \subseteq stagesOf(cts) /\ stagesOf(cts) \subseteq stagesOf(may)
  BY <1>5 DEF stagesOf
<1> HIDE DEF sw, cts, must, may
<1>11. ASSUME qualifies(k, must), stagesOf(must) # {}
       PROVE  \/ incident'[k].last = n'
              \/ incident'[k].at # 0 /\ now - incident'[k].at < Cooldown
              \/ stagesOf(must) \subseteq incident'[k].stages /\ incident'[k].stages \subseteq stagesOf(may)
  <2>1. qualifies(k, cts)
    BY <1>5, <1>6, <1>11, QualifiesMonotone
  <2>2. CASE incident'[k] = incident[k] /\ stagesOf(cts) = sw.lastSig
    BY <1>7, <1>10, <1>11, <2>2
  <2>3. CASE incident'[k] = incident[k] /\ ~notCoolingDown(sw, now)
    <3>1. incident'[k].at = sw.lastEmit /\ sw.lastEmit # 0 /\ ~(now - sw.lastEmit >= Cooldown)
      BY <1>7, <1>8, <2>3
    <3>2. QED
      BY <1>1, <1>9, <3>1, CorrelatorAssumption
  <2>4. QED
    BY <1>1, <2>1, <2>2, <2>3
<1>12. QED
  BY <1>3, <1>11 DEF Answered, must, may

\* Observe, for every threshold, window and order of the timestamps: a chain
\* that is surely over a threshold is reported by the finding that makes it
\* so, waits for the cooldown, or was reported with the same stages.
THEOREM ChainsAreReported ==
    ASSUME MaxLag <= Cooldown + 1
    PROVE  Spec => QualifiedIsReported
<1>1. Init => WindowInv /\ Told
  <2>1. Init => Told
    BY DEF Init, NewState, Told
  <2>2. QED
    BY <2>1, WindowInit
<1>2. WindowInv /\ Told /\ [Next]_vars => WindowInv' /\ Told'
  <2>1. WindowInv => TypeOK
    BY DEF WindowInv, HistoryInv
  <2>2. QED
    BY <2>1, WindowNext, ToldNext
<1>3. WindowInv /\ Told /\ [Next]_vars => [\A o \in observed' \ observed : Answered(o)]_vars
  <2> SUFFICES ASSUME WindowInv, Told, Next, NEW o \in observed' \ observed PROVE Answered(o)
    OBVIOUS
  <2>1. WindowInv'
    BY WindowNext
  <2>2. CASE Tick \/ BoundsReached
    BY <2>2 DEF Tick, BoundsReached, vars
  <2>3. QED
    BY <2>1, <2>2, ObserveAnswers DEF Next
<1>4. [][\A o \in observed' \ observed : Answered(o)]_vars => QualifiedIsReported
  BY DEF QualifiedIsReported, Answered
<1>5. QED
  BY <1>1, <1>2, <1>3, <1>4, PTL DEF Spec
=============================================================================
