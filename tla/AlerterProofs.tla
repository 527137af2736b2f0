--------------------------- MODULE AlerterProofs ----------------------------
(***************************************************************************)
(* Theorems about Alerter, for every set of keys and destinations, every   *)
(* rate, window, log size and number of tries.                             *)
(*                                                                         *)
(* The limiter forgets timestamps that left the window, so its own map     *)
(* says nothing about the past.  The inductive invariant ties the map to   *)
(* the history: every recent accepted alert is still in the map            *)
(* (Remembers), and the map holds nothing else (OnlyAccepted).             *)
(*                                                                         *)
(* LogIsTail is about files of any number and size: the invariant LogInv   *)
(* counts the lines before each file, by induction over the files, and     *)
(* says that a file is the stretch of all lines written that begins there. *)
(* It holds until a rename fails.  LogInOrder needs no such condition: its *)
(* invariant OrderInv orders the lines of the files by when they were      *)
(* written.                                                                *)
(***************************************************************************)
EXTENDS Alerter, FiniteSetTheorems, SequenceTheorems, WellFoundedInduction, TLAPS

EntryOf(a) == [id |-> a.id, at |-> a.at]

RecordOf(k, e) == [id |-> e.id, key |-> k, at |-> e.at]

\* Ids and times lie in the past.
LimiterTypes ==
    /\ clock \in Nat /\ n \in Nat
    /\ rateMap \in [RateKey -> SUBSET RateEntry]
    /\ accepted \subseteq LimiterRecord /\ refused \subseteq LimiterRecord
    /\ \A a \in accepted \cup refused : a.id <= n /\ a.at <= clock

FiniteHistory == IsFiniteSet(accepted) /\ \A k \in RateKey : IsFiniteSet(rateMap[k])

Remembers ==
    \A a \in accepted : a.at > clock - AlertRateWindow => EntryOf(a) \in rateMap[a.key]

OnlyAccepted == \A k \in RateKey : \A e \in rateMap[k] : RecordOf(k, e) \in accepted

LimiterInv == LimiterTypes /\ FiniteHistory /\ Remembers /\ OnlyAccepted

-----------------------------------------------------------------------------
(* The three things a step can do to the limiter.                          *)

Refuses(k) == RateLimited(k, n + 1) /\ n' = n + 1 /\ clock' = clock

Admits(k) == Admitted(k, n + 1) /\ n' = n + 1 /\ clock' = clock

Passes ==
    /\ UNCHANGED <<rateMap, accepted, refused>>
    /\ n' = n \/ n' = n + 1
    /\ clock' = clock \/ clock' = clock + 1

\* Only Send touches the limiter, for one key.
LEMMA LimiterSteps ==
    ASSUME [Next]_vars
    PROVE  Passes \/ \E k \in RateKey : Refuses(k) \/ Admits(k)
<1>1. CASE UNCHANGED vars
  BY <1>1 DEF vars, limitVars, Passes
<1>2. ASSUME NEW c \in Caller, NEW k \in RateKey, NEW sev \in Severities,
             NEW incident \in BOOLEAN, Send(c, k, sev, incident)
      PROVE  Passes \/ Refuses(k) \/ Admits(k)
  <2>1. n' = n + 1 /\ clock' = clock
    BY <1>2 DEF Send
  <2>2. CASE incident
    BY <1>2, <2>1, <2>2 DEF Send, SendIncident, Passes
  <2>3. CASE ~incident
    <3>1. SendFinding(c, k, sev)
      BY <1>2, <2>3 DEF Send
    <3>2. \/ UNCHANGED <<rateMap, accepted, refused>>
          \/ RateLimited(k, n + 1) \/ Admitted(k, n + 1)
      BY <3>1 DEF SendFinding
    <3>3. QED
      BY <2>1, <3>2 DEF Passes, Refuses, Admits
  <2>4. QED
    BY <2>2, <2>3
<1>3. ASSUME NEW c \in Caller, WriteLog(c) \/ SaveToSink(c) \/ Dispatch(c)
      PROVE  Passes
  BY <1>3 DEF WriteLog, SaveToSink, Dispatch, limitVars, Passes
<1>4. ASSUME NEW a \in Alert, NEW d \in Dest, Post(a, d)
      PROVE  Passes
  BY <1>4 DEF Post, PostOk, PostTransportError, PostServerError, PostClientError, SetDelivery,
              limitVars, Passes
<1>5. CASE Tick \/ Close \/ Exit
  BY <1>5 DEF Tick, Close, Exit, limitVars, Passes
<1>6. QED
  BY <1>1, <1>2, <1>3, <1>4, <1>5 DEF Next

\* Nothing has been accepted yet, and the map is empty.
LEMMA LimiterInit == Init => LimiterInv
  BY FS_EmptySet DEF Init, LimiterInv, LimiterTypes, FiniteHistory, Remembers, OnlyAccepted

\* Dropping expired entries keeps the map in step with the history.
LEMMA LimiterStep == LimiterInv /\ [Next]_vars => LimiterInv'
<1> SUFFICES ASSUME LimiterInv, [Next]_vars PROVE LimiterInv'
  OBVIOUS
<1> USE AlerterAssumption
<1>0. /\ clock \in Nat /\ n \in Nat
      /\ rateMap \in [RateKey -> SUBSET RateEntry]
      /\ accepted \subseteq LimiterRecord /\ refused \subseteq LimiterRecord
      /\ \A a \in accepted \cup refused : a.id <= n /\ a.at <= clock
  BY DEF LimiterInv, LimiterTypes
<1>1. CASE Passes
  <2>1. LimiterTypes'
    BY <1>0, <1>1 DEF LimiterTypes, Passes, LimiterRecord
  <2>2. FiniteHistory' /\ OnlyAccepted'
    BY <1>1 DEF LimiterInv, Passes, FiniteHistory, OnlyAccepted
  <2>3. Remembers'
    BY <1>0, <1>1 DEF LimiterInv, Passes, Remembers, LimiterRecord
  <2>4. QED
    BY <2>1, <2>2, <2>3 DEF LimiterInv
<1>2. ASSUME NEW k \in RateKey, Refuses(k)
      PROVE  LimiterInv'
  <2> DEFINE r == [id |-> n + 1, key |-> k, at |-> clock]
  <2>1. /\ n' = n + 1 /\ clock' = clock /\ accepted' = accepted
        /\ refused' = refused \cup {r}
        /\ rateMap' = [rateMap EXCEPT ![k] = fresh(k)]
    BY <1>2 DEF Refuses, RateLimited
  <2>2. r \in LimiterRecord /\ r.id = n + 1 /\ r.at = clock
    BY <1>0 DEF LimiterRecord
  <2> HIDE DEF r
  <2>3. LimiterTypes'
    BY <1>0, <2>1, <2>2 DEF LimiterTypes, LimiterRecord, fresh
  <2>4. FiniteHistory'
    <3>1. IsFiniteSet(fresh(k))
      BY FS_Subset DEF LimiterInv, FiniteHistory, fresh
    <3>2. QED
      BY <1>0, <2>1, <3>1 DEF LimiterInv, FiniteHistory
  <2>5. Remembers'
    BY <1>0, <2>1 DEF LimiterInv, Remembers, fresh, EntryOf, LimiterRecord
  <2>6. OnlyAccepted'
    BY <1>0, <2>1 DEF LimiterInv, OnlyAccepted, fresh
  <2>7. QED
    BY <2>3, <2>4, <2>5, <2>6 DEF LimiterInv
<1>3. ASSUME NEW k \in RateKey, Admits(k)
      PROVE  LimiterInv'
  <2> DEFINE r == [id |-> n + 1, key |-> k, at |-> clock]
             e == [id |-> n + 1, at |-> clock]
  <2>1. /\ n' = n + 1 /\ clock' = clock /\ refused' = refused
        /\ accepted' = accepted \cup {r}
        /\ rateMap' = [rateMap EXCEPT ![k] = fresh(k) \cup {e}]
    BY <1>3 DEF Admits, Admitted
  <2>2. /\ r \in LimiterRecord /\ r.id = n + 1 /\ r.at = clock /\ r.key = k
        /\ e \in RateEntry /\ RecordOf(k, e) = r /\ EntryOf(r) = e
    BY <1>0 DEF LimiterRecord, RateEntry, RecordOf, EntryOf
  <2> HIDE DEF r, e
  <2>3. LimiterTypes'
    BY <1>0, <2>1, <2>2 DEF LimiterTypes, LimiterRecord, fresh
  <2>4. FiniteHistory'
    <3>1. IsFiniteSet(fresh(k) \cup {e})
      BY FS_Subset, FS_AddElement DEF LimiterInv, FiniteHistory, fresh
    <3>2. IsFiniteSet(accepted \cup {r})
      BY FS_AddElement DEF LimiterInv, FiniteHistory
    <3>3. QED
      BY <1>0, <2>1, <3>1, <3>2 DEF LimiterInv, FiniteHistory
  <2>5. Remembers'
    BY <1>0, <2>1, <2>2 DEF LimiterInv, Remembers, fresh, EntryOf, LimiterRecord
  <2>6. OnlyAccepted'
    BY <1>0, <2>1, <2>2 DEF LimiterInv, OnlyAccepted, fresh
  <2>7. QED
    BY <2>3, <2>4, <2>5, <2>6 DEF LimiterInv
<1>4. QED
  BY <1>1, <1>2, <1>3, LimiterSteps

\* The map of the limiter is, in every reachable state, the recent part of the
\* history of accepted alerts.
THEOREM LimiterInvariant == Spec => []LimiterInv
  BY LimiterInit, LimiterStep, PTL DEF Spec

-----------------------------------------------------------------------------
(* What isRateLimited counts is what really went through: the entries it   *)
(* looks at and the alerts accepted in the window are equally many.        *)

\* isRateLimited counts exactly the alerts accepted in the window.
LEMMA CountIsExact ==
    ASSUME LimiterInv, NEW k \in RateKey
    PROVE  /\ IsFiniteSet(AcceptedIn(k, clock)) /\ IsFiniteSet(fresh(k))
           /\ Cardinality(AcceptedIn(k, clock)) = Cardinality(fresh(k))
           /\ Cardinality(fresh(k)) \in Nat
<1> DEFINE A == AcceptedIn(k, clock)
           F == fresh(k)
<1>1. /\ clock \in Nat /\ AlertRateWindow \in Nat
      /\ rateMap[k] \subseteq RateEntry
      /\ \A a \in accepted : a \in LimiterRecord /\ a.at <= clock
  BY AlerterAssumption DEF LimiterInv, LimiterTypes
<1>2. IsFiniteSet(A) /\ IsFiniteSet(F)
  BY FS_Subset DEF LimiterInv, FiniteHistory, AcceptedIn, fresh
<1>3. Cardinality(A) <= Cardinality(F)
  <2> DEFINE f == [a \in A |-> EntryOf(a)]
  <2>1. ASSUME NEW a \in A PROVE EntryOf(a) \in F
    <3>1. a \in accepted /\ a.key = k /\ a.at > clock - AlertRateWindow
      BY <1>1 DEF AcceptedIn, LimiterRecord
    <3>2. EntryOf(a) \in rateMap[k]
      BY <3>1 DEF LimiterInv, Remembers
    <3>3. QED
      BY <3>1, <3>2 DEF fresh, EntryOf
  <2>2. ASSUME NEW a \in A, NEW b \in A, EntryOf(a) = EntryOf(b) PROVE a = b
    <3>1. a \in LimiterRecord /\ b \in LimiterRecord /\ a.key = k /\ b.key = k
      BY <1>1 DEF AcceptedIn
    <3>2. a.id = b.id /\ a.at = b.at
      BY <2>2 DEF EntryOf
    <3>3. QED
      BY <3>1, <3>2 DEF LimiterRecord
  <2>3. f \in Injection(A, F)
    BY <2>1, <2>2 DEF Injection, IsInjective
  <2>4. QED
    BY <2>3, <1>2, FS_Injection
<1>4. Cardinality(F) <= Cardinality(A)
  <2> DEFINE g == [e \in F |-> RecordOf(k, e)]
  <2>1. ASSUME NEW e \in F PROVE RecordOf(k, e) \in A
    <3>1. e \in rateMap[k] /\ e \in RateEntry /\ e.at > clock - AlertRateWindow
      BY <1>1 DEF fresh
    <3>2. RecordOf(k, e) \in accepted
      BY <3>1 DEF LimiterInv, OnlyAccepted
    <3>3. RecordOf(k, e).key = k /\ RecordOf(k, e).at = e.at /\ e.at \in Nat /\ e.at <= clock
      BY <1>1, <3>1, <3>2 DEF RecordOf, RateEntry
    <3>4. clock - AlertRateWindow < e.at
      BY <1>1, <3>1, <3>3
    <3>5. QED
      BY <3>2, <3>3, <3>4 DEF AcceptedIn
  <2>2. ASSUME NEW d \in F, NEW e \in F, RecordOf(k, d) = RecordOf(k, e) PROVE d = e
    <3>1. d \in RateEntry /\ e \in RateEntry
      BY <1>1 DEF fresh
    <3>2. d.id = e.id /\ d.at = e.at
      BY <2>2 DEF RecordOf
    <3>3. QED
      BY <3>1, <3>2 DEF RateEntry
  <2>3. g \in Injection(F, A)
    BY <2>1, <2>2 DEF Injection, IsInjective
  <2>4. QED
    BY <2>3, <1>2, FS_Injection
<1>5. Cardinality(A) \in Nat /\ Cardinality(F) \in Nat
  BY <1>2, FS_CardinalityType
<1> HIDE DEF A, F
<1>6. Cardinality(A) = Cardinality(F)
  BY <1>3, <1>4, <1>5
<1>7. QED
  BY <1>2, <1>5, <1>6 DEF A, F

-----------------------------------------------------------------------------
\* A step that admits a finding had room for it in the window that ends now.
LEMMA RateBoundStep ==
    ASSUME LimiterInv, RateBound, [Next]_vars
    PROVE  RateBound'
<1> USE AlerterAssumption
<1>0. /\ clock \in Nat
      /\ \A a \in accepted : a.at \in Nat /\ a.at <= clock
  BY DEF LimiterInv, LimiterTypes, LimiterRecord
<1> SUFFICES ASSUME NEW k \in RateKey, NEW t \in 0 .. clock'
             PROVE  Cardinality(AcceptedIn(k, t)') <= AlertMaxRate
  BY DEF RateBound, AcceptedIn
<1>1. IsFiniteSet(AcceptedIn(k, clock)) /\ Cardinality(AcceptedIn(k, clock)) \in Nat
  BY CountIsExact
<1>2. clock \in 0 .. clock /\ Cardinality(AcceptedIn(k, clock)) <= AlertMaxRate
  BY <1>0 DEF RateBound
<1>3. CASE accepted' = accepted /\ (clock' = clock \/ clock' = clock + 1)
  <2>1. CASE t \in 0 .. clock
    BY <1>3, <2>1 DEF RateBound, AcceptedIn
  <2>2. CASE t = clock + 1
    <3>1. AcceptedIn(k, t)' \subseteq AcceptedIn(k, clock)
      BY <1>0, <1>3, <2>2 DEF AcceptedIn
    <3>2. /\ Cardinality(AcceptedIn(k, t)') <= Cardinality(AcceptedIn(k, clock))
          /\ Cardinality(AcceptedIn(k, t)') \in Nat
      BY <1>1, <3>1, FS_Subset, FS_CardinalityType
    <3>3. QED
      BY <1>1, <1>2, <3>2
  <2>3. QED
    BY <1>0, <1>3, <2>1, <2>2
<1>4. ASSUME NEW j \in RateKey, Admits(j)
      PROVE  Cardinality(AcceptedIn(k, t)') <= AlertMaxRate
  <2> DEFINE r == [id |-> n + 1, key |-> j, at |-> clock]
  <2>1. clock' = clock /\ accepted' = accepted \cup {r} /\ Cardinality(fresh(j)) < AlertMaxRate
    BY <1>4 DEF Admits, Admitted
  <2>2. r.key = j /\ r.at = clock
    OBVIOUS
  <2> HIDE DEF r
  <2>3. t \in 0 .. clock
    BY <2>1
  <2>4. CASE t < clock \/ k # j
    <3>1. AcceptedIn(k, t)' = AcceptedIn(k, t)
      BY <1>0, <2>1, <2>2, <2>3, <2>4 DEF AcceptedIn
    <3>2. QED
      BY <2>3, <3>1 DEF RateBound
  <2>5. CASE t = clock /\ k = j
    <3>1. AcceptedIn(k, t)' \subseteq AcceptedIn(k, clock) \cup {r}
      BY <2>1, <2>5 DEF AcceptedIn
    <3>2. Cardinality(AcceptedIn(k, clock)) < AlertMaxRate
      BY <2>1, <2>5, CountIsExact
    <3>3. /\ IsFiniteSet(AcceptedIn(k, clock) \cup {r})
          /\ Cardinality(AcceptedIn(k, clock) \cup {r}) <= Cardinality(AcceptedIn(k, clock)) + 1
      <4> HIDE DEF r
      <4>1. /\ IsFiniteSet(AcceptedIn(k, clock) \cup {r})
            /\ \/ Cardinality(AcceptedIn(k, clock) \cup {r}) = Cardinality(AcceptedIn(k, clock))
               \/ Cardinality(AcceptedIn(k, clock) \cup {r}) = Cardinality(AcceptedIn(k, clock)) + 1
        BY <1>1, FS_AddElement
      <4>2. QED
        BY <1>1, <4>1
    <3>4. /\ Cardinality(AcceptedIn(k, t)') <= Cardinality(AcceptedIn(k, clock) \cup {r})
          /\ Cardinality(AcceptedIn(k, t)') \in Nat
          /\ Cardinality(AcceptedIn(k, clock) \cup {r}) \in Nat
      BY <3>1, <3>3, FS_Subset, FS_CardinalityType
    <3>5. QED
      BY <1>1, <3>2, <3>3, <3>4
  <2>6. QED
    BY <1>0, <2>3, <2>4, <2>5
<1>5. QED
  BY <1>3, <1>4, LimiterSteps DEF Passes, Refuses, RateLimited

\* isRateLimited: no sliding window ever lets more than KW_ALERT_MAX_RATE
\* findings of one container through, for any interleaving of the callers.
THEOREM RateIsBounded == Spec => []RateBound
<1>1. Init => RateBound
  <2> SUFFICES ASSUME Init, NEW k \in RateKey, NEW t \in 0 .. clock
               PROVE  Cardinality(AcceptedIn(k, t)) <= AlertMaxRate
    BY DEF RateBound
  <2>1. AcceptedIn(k, t) = {}
    BY DEF Init, AcceptedIn
  <2>2. QED
    BY <2>1, FS_EmptySet, AlerterAssumption
<1>2. LimiterInv /\ RateBound /\ [Next]_vars => RateBound'
  BY RateBoundStep
<1>3. QED
  BY <1>1, <1>2, LimiterInvariant, PTL DEF Spec

-----------------------------------------------------------------------------
\* The alerts that were accepted before r, in the window that ended with it.
Before(r) == {a \in AcceptedIn(r.key, r.at) : a.id < r.id}

\* A later alert never changes what an earlier refusal was based on.
LEMMA RefusedStep ==
    ASSUME LimiterInv, RefusedOnlyWhenFull, [Next]_vars
    PROVE  RefusedOnlyWhenFull'
<1> USE AlerterAssumption
<1>0. /\ clock \in Nat /\ n \in Nat
      /\ accepted \subseteq LimiterRecord /\ refused \subseteq LimiterRecord
      /\ \A a \in accepted \cup refused : a.id \in Nat /\ a.id <= n
  BY DEF LimiterInv, LimiterTypes, LimiterRecord
<1>1. \A r \in refused : Cardinality(Before(r)) >= AlertMaxRate
  BY DEF RefusedOnlyWhenFull, Before
<1> SUFFICES ASSUME NEW r \in refused'
             PROVE  Cardinality({a \in AcceptedIn(r.key, r.at)' : a.id < r.id}) >= AlertMaxRate
  BY DEF RefusedOnlyWhenFull, AcceptedIn
<1> DEFINE After == {a \in AcceptedIn(r.key, r.at)' : a.id < r.id}
<1>2. CASE accepted' = accepted /\ r \in refused
  BY <1>1, <1>2 DEF AcceptedIn, Before
<1>3. ASSUME NEW k \in RateKey, Refuses(k), r \notin refused
      PROVE  Cardinality(After) >= AlertMaxRate
  <2>1. /\ accepted' = accepted /\ r.key = k /\ r.at = clock /\ r.id = n + 1
        /\ Cardinality(fresh(k)) >= AlertMaxRate
    BY <1>3 DEF Refuses, RateLimited
  <2>2. After = AcceptedIn(k, clock)
    BY <1>0, <2>1 DEF AcceptedIn
  <2>3. QED
    BY <2>1, <2>2, CountIsExact
<1>4. ASSUME NEW k \in RateKey, Admits(k)
      PROVE  Cardinality(After) >= AlertMaxRate
  <2> DEFINE new == [id |-> n + 1, key |-> k, at |-> clock]
  <2>1. refused' = refused /\ accepted' = accepted \cup {new} /\ new.id = n + 1
    BY <1>4 DEF Admits, Admitted
  <2> HIDE DEF new
  <2>2. After = Before(r)
    BY <1>0, <2>1 DEF AcceptedIn, Before
  <2>3. QED
    BY <1>1, <2>1, <2>2
<1>5. QED
  BY <1>2, <1>3, <1>4, LimiterSteps DEF Passes, Refuses, RateLimited

\* isRateLimited: no finding is refused unless the container had used up its
\* whole allowance in the window that ends with the refusal.
THEOREM RefusalsAreJustified == Spec => []RefusedOnlyWhenFull
<1>1. Init => RefusedOnlyWhenFull
  BY DEF Init, RefusedOnlyWhenFull
<1>2. LimiterInv /\ RefusedOnlyWhenFull /\ [Next]_vars => RefusedOnlyWhenFull'
  BY RefusedStep
<1>3. QED
  BY <1>1, <1>2, LimiterInvariant, PTL DEF Spec

-----------------------------------------------------------------------------
(* The way of an alert through Send: log, sink, deliveries.                *)

DeliveryRecord ==
    [state : {"none", "flight", "ok", "failed"},
     tries : 0 .. DeliveryAttempts, copies : 0 .. DeliveryAttempts]

\* A request under way has a try left, and no try put more than one copy.
FlightOK(x) == x.state = "flight" => x.tries < DeliveryAttempts /\ x.copies <= x.tries

DeliveriesBounded == \A a \in Alert : \A d \in Dest : FlightOK(delivery[a][d])

\* A caller that is idle has no alert, any other one has an alert of its own.
SendShape ==
    \A c \in Caller : IF send[c].step = "idle" THEN send[c].id = 0 ELSE send[c].id \in Alert

SendInv == TypeOK /\ DeliveriesBounded /\ SendShape

\* A caller that is past the sink has handed it its alert.
SavedFirst ==
    \A c \in Caller :
        send[c].step = "dispatch" => send[c].id \in sink

\* A try that failed leads to the next one or to the end of the delivery.
LEMMA RetriedOK ==
    ASSUME NEW x \in DeliveryRecord, x.tries < DeliveryAttempts, x.copies <= x.tries + 1
    PROVE  /\ Retried(x) \in DeliveryRecord /\ FlightOK(Retried(x))
           /\ Retried(x).state # "none"
  BY AlerterAssumption DEF DeliveryRecord, FlightOK, Retried

\* One more copy still fits the number of tries begun.
LEMMA TakenOK ==
    ASSUME NEW x \in DeliveryRecord, x.tries < DeliveryAttempts, x.copies <= x.tries
    PROVE  /\ Taken(x) \in DeliveryRecord /\ Taken(x).tries = x.tries
           /\ Taken(x).copies <= x.tries + 1
  BY AlerterAssumption DEF DeliveryRecord, Taken

\* What postWithRetry makes of a delivery under way.
LEMMA PostEffect ==
    ASSUME SendInv, NEW a \in Alert, NEW d \in Dest, Post(a, d)
    PROVE  \E new \in DeliveryRecord :
              /\ FlightOK(new) /\ new.state # "none"
              /\ SetDelivery(a, d, new)
              /\ delivery[a][d].state = "flight"
<1> DEFINE x == delivery[a][d]
<1>1. /\ x \in DeliveryRecord /\ x.state = "flight" /\ x.tries < DeliveryAttempts
      /\ x.copies <= x.tries
  BY DEF SendInv, TypeOK, DeliveriesBounded, FlightOK, DeliveryRecord, Post, PostOk,
         PostTransportError, PostServerError, PostClientError, InFlight
<1>2. \/ SetDelivery(a, d, [Taken(x) EXCEPT !.state = "ok"])
      \/ SetDelivery(a, d, Retried(x))
      \/ SetDelivery(a, d, Retried(Taken(x)))
      \/ SetDelivery(a, d, [x EXCEPT !.state = "failed"])
  BY DEF Post, PostOk, PostTransportError, PostServerError, PostClientError
<1>3. /\ Taken(x) \in DeliveryRecord /\ Taken(x).tries = x.tries
      /\ Taken(x).copies <= x.tries + 1
  BY <1>1, TakenOK
<1>4. ASSUME NEW y \in DeliveryRecord, NEW st \in {"ok", "failed"}
      PROVE  LET z == [y EXCEPT !.state = st]
             IN  z \in DeliveryRecord /\ FlightOK(z) /\ z.state # "none"
  BY DEF DeliveryRecord, FlightOK
<1>5. /\ Retried(x) \in DeliveryRecord /\ FlightOK(Retried(x)) /\ Retried(x).state # "none"
      /\ Retried(Taken(x)) \in DeliveryRecord /\ FlightOK(Retried(Taken(x)))
      /\ Retried(Taken(x)).state # "none"
  <2>1. x.tries \in Nat /\ x.copies \in Nat
    BY <1>1, AlerterAssumption DEF DeliveryRecord
  <2>2. QED
    BY <1>1, <1>3, <2>1, RetriedOK
<1>6. QED
  BY <1>1, <1>2, <1>3, <1>4, <1>5

-----------------------------------------------------------------------------
Steps == {"idle", "log", "save", "dispatch"}

\* One caller moves to another step with an alert it has, or becomes idle.
LEMMA SendMoves ==
    ASSUME SendInv, NEW c \in Caller, NEW s \in Steps, NEW i \in 0 .. MaxAlerts,
           IF s = "idle" THEN i = 0 ELSE i \in Alert,
           send' = [send EXCEPT ![c] = [step |-> s, id |-> i]]
    PROVE  /\ send' \in [Caller -> [step : Steps, id : 0 .. MaxAlerts]]
           /\ SendShape'
<1>1. send \in [Caller -> [step : Steps, id : 0 .. MaxAlerts]]
  BY DEF SendInv, TypeOK, Steps
<1>2. [step |-> s, id |-> i] \in [step : Steps, id : 0 .. MaxAlerts]
  OBVIOUS
<1>3. \A b \in Caller : send'[b] = IF b = c THEN [step |-> s, id |-> i] ELSE send[b]
  BY <1>1
<1>4. QED
  BY <1>1, <1>2, <1>3 DEF SendInv, SendShape

\* The steps of Send after the limiter, as moves of one caller.
LEMMA WriteLogMove ==
    ASSUME SendInv, NEW c \in Caller, WriteLog(c)
    PROVE  /\ send[c].id \in Alert
           /\ send' = [send EXCEPT ![c] = [step |-> "save", id |-> send[c].id]]
<1>1. send \in [Caller -> [step : Steps, id : 0 .. MaxAlerts]]
  BY DEF SendInv, TypeOK, Steps
<1>2. send[c].step = "log" /\ send' = [send EXCEPT ![c].step = "save"]
  BY DEF WriteLog
<1>3. [send[c] EXCEPT !.step = "save"] = [step |-> "save", id |-> send[c].id]
  BY <1>1
<1>4. QED
  BY <1>1, <1>2, <1>3 DEF SendInv, SendShape

\* SaveToSink ends Send in monitor mode and goes on to the deliveries otherwise.
LEMMA SaveMove ==
    ASSUME SendInv, NEW c \in Caller, SaveToSink(c)
    PROVE  /\ send[c].id \in Alert /\ send[c].step = "save"
           /\ \/ send' = [send EXCEPT ![c] = [step |-> "idle", id |-> 0]]
              \/ send' = [send EXCEPT ![c] = [step |-> "dispatch", id |-> send[c].id]]
<1>1. send \in [Caller -> [step : Steps, id : 0 .. MaxAlerts]]
  BY DEF SendInv, TypeOK, Steps
<1>2. /\ send[c].step = "save"
      /\ send' = [send EXCEPT ![c] = IF mode = "monitor" THEN Idle ELSE [@ EXCEPT !.step = "dispatch"]]
  BY DEF SaveToSink
<1>3. [send[c] EXCEPT !.step = "dispatch"] = [step |-> "dispatch", id |-> send[c].id]
  BY <1>1
<1>4. QED
  BY <1>1, <1>2, <1>3 DEF SendInv, SendShape, Idle

\* Rotation moves whole files about.
LEMMA WriteLineTypes ==
    ASSUME SendInv, NEW a \in Alert, logFile = "open", WriteLine(a)
    PROVE  /\ written' \in Seq(Alert) /\ current' \in Seq(Alert)
           /\ backups' \in [1 .. LogMaxBackups -> Seq(Alert)]
           /\ logFile' \in {"open", "nil"}
           /\ logBytes' \in Nat /\ shiftFailed' \in BOOLEAN
<1>1. /\ current \in Seq(Alert) /\ written \in Seq(Alert) /\ logBytes \in Nat
      /\ backups \in [1 .. LogMaxBackups -> Seq(Alert)] /\ shiftFailed \in BOOLEAN
  BY DEF SendInv, TypeOK
<1>2. CASE LineLost
  BY <1>1, <1>2 DEF LineLost, logVars, fileVars
<1>3. CASE LineWritten(a)
  <2> DEFINE log == Append(current, a)
  <2>1. log \in Seq(Alert) /\ Append(written, a) \in Seq(Alert)
    BY <1>1
  <2> HIDE DEF log
  <2>2. written' = Append(written, a)
    BY <1>3 DEF LineWritten
  <2>3. CASE ~NeedsRotation(logBytes + 1)
    <3>1. /\ current' = log /\ logBytes' = logBytes + 1
          /\ UNCHANGED <<backups, logFile, shiftFailed>>
      BY <1>3, <2>3 DEF LineWritten, log
    <3>2. shiftFailed' \in BOOLEAN
      BY <1>1, <3>1, Zenon
    <3> QED
      BY <1>1, <2>1, <2>2, <3>1, <3>2
  <2>4. CASE NeedsRotation(logBytes + 1)
    <3>1. Rotate(log)
      BY <1>3, <2>4 DEF LineWritten, log
    <3>2. PICK moved \in SUBSET Existing(log) :
             /\ backups' = Shifted(log, moved)
             /\ current' = IF 0 \in moved THEN <<>> ELSE log
             /\ shiftFailed' = (shiftFailed \/ moved # Existing(log))
      BY <3>1 DEF Rotate
    <3>3. logFile' \in {"open", "nil"} /\ logBytes' \in Nat
      BY <1>1, <3>1 DEF Rotate
    <3>4. \A i \in 0 .. LogMaxBackups : File(log, i) \in Seq(Alert)
      <4>1. \A i \in 0 .. LogMaxBackups : i # 0 => i \in 1 .. LogMaxBackups
        BY AlerterAssumption
      <4> QED
        BY <1>1, <2>1, <4>1 DEF File
    <3>5. <<>> \in Seq(Alert)
      OBVIOUS
    <3>6. \A i \in 1 .. LogMaxBackups : i - 1 \in 0 .. LogMaxBackups
      BY AlerterAssumption
    <3>7. Shifted(log, moved) \in [1 .. LogMaxBackups -> Seq(Alert)]
      BY <1>1, <3>4, <3>5, <3>6 DEF Shifted
    <3>8. shiftFailed' \in BOOLEAN
      BY <3>2, Zenon
    <3> QED
      BY <2>1, <2>2, <3>2, <3>3, <3>5, <3>7, <3>8
  <2> QED
    BY <2>3, <2>4
<1> QED
  BY <1>2, <1>3 DEF WriteLine

\* Send up to the limiter: a new alert, which an incident always keeps.
LEMMA SendEffect ==
    ASSUME SendInv, NEW c \in Caller, NEW k \in RateKey, NEW sev \in Severities,
           NEW incident \in BOOLEAN, Send(c, k, sev, incident)
    PROVE  /\ n' = n + 1 /\ n + 1 \in Alert /\ send[c].id = 0
           /\ filtered' = filtered \/ filtered' = filtered \cup {n + 1}
           /\ \/ incidents' = incidents /\ send' = send
              \/ /\ incidents' = incidents \/ incidents' = incidents \cup {n + 1}
                 /\ send' = [send EXCEPT ![c] = [step |-> "log", id |-> n + 1]]
           /\ UNCHANGED <<mode, clock, logVars, sink, delivery, closed, exited>>
<1>1. n' = n + 1 /\ n < MaxAlerts /\ n \in 0 .. MaxAlerts /\ send[c].step = "idle"
  BY DEF Send, SendInv, TypeOK
<1>2. n + 1 \in Alert
  BY <1>1, AlerterAssumption DEF Alert
<1>3. send[c].id = 0
  BY <1>1 DEF SendInv, SendShape
<1>4. IF incident THEN SendIncident(c, k) ELSE SendFinding(c, k, sev)
  BY DEF Send
<1>5. /\ filtered' = filtered \/ filtered' = filtered \cup {n + 1}
      /\ \/ incidents' = incidents /\ send' = send
         \/ /\ incidents' = incidents \/ incidents' = incidents \cup {n + 1}
            /\ send' = [send EXCEPT ![c] = [step |-> "log", id |-> n + 1]]
  BY <1>4 DEF SendIncident, SendFinding, Proceed
<1>6. UNCHANGED <<mode, clock, logVars, sink, delivery, closed, exited>>
  BY DEF Send
<1>7. QED
  BY <1>1, <1>2, <1>3, <1>5, <1>6

\* The part of TypeOK that the limiter does not have to do with.
PathTypes ==
    /\ mode \in Modes
    /\ send \in [Caller -> [step : Steps, id : 0 .. MaxAlerts]]
    /\ filtered \subseteq Alert /\ incidents \subseteq Alert
    /\ logFile \in {"open", "nil", "closed"}
    /\ logBytes \in Nat /\ shiftFailed \in BOOLEAN
    /\ current \in Seq(Alert) /\ written \in Seq(Alert) /\ sink \subseteq Alert
    /\ backups \in [1 .. LogMaxBackups -> Seq(Alert)]
    /\ delivery \in [Alert -> [Dest -> DeliveryRecord]]
    /\ closed \in BOOLEAN /\ exited \in BOOLEAN

\* TypeOK is the types of the limiter and of the path through Send.
LEMMA TypesSplit ==
    ASSUME LimiterTypes
    PROVE  TypeOK <=> PathTypes /\ n \in 0 .. MaxAlerts
  BY DEF TypeOK, PathTypes, LimiterTypes, Steps, DeliveryRecord

\* Every step keeps the types, the bounds of the deliveries and the shape of
\* Send.
LEMMA PathStep ==
    ASSUME SendInv, PathTypes, [Next]_vars
    PROVE  PathTypes' /\ n' \in 0 .. MaxAlerts /\ DeliveriesBounded' /\ SendShape'
<1> DEFINE Goal == PathTypes' /\ n' \in 0 .. MaxAlerts /\ DeliveriesBounded' /\ SendShape'
<1>0. n \in 0 .. MaxAlerts /\ DeliveriesBounded /\ SendShape
  BY DEF SendInv, TypeOK
<1>1. CASE UNCHANGED vars
  BY <1>0, <1>1 DEF vars, limitVars, logVars, fileVars, PathTypes, DeliveriesBounded, SendShape
<1>2. ASSUME NEW c \in Caller, NEW k \in RateKey, NEW sev \in Severities,
             NEW incident \in BOOLEAN, Send(c, k, sev, incident)
      PROVE  Goal
  <2>1. /\ n' = n + 1 /\ n + 1 \in Alert
        /\ filtered' = filtered \/ filtered' = filtered \cup {n + 1}
        /\ incidents' = incidents \/ incidents' = incidents \cup {n + 1}
        /\ \/ send' = send
           \/ send' = [send EXCEPT ![c] = [step |-> "log", id |-> n + 1]]
        /\ UNCHANGED <<mode, clock, logVars, sink, delivery, closed, exited>>
    BY <1>2, SendEffect
  <2>2. n' \in 0 .. MaxAlerts
    BY <2>1 DEF Alert
  <2>3. send' \in [Caller -> [step : Steps, id : 0 .. MaxAlerts]] /\ SendShape'
    <3>1. CASE send' = send
      BY <1>0, <3>1 DEF PathTypes, SendShape
    <3>2. CASE send' = [send EXCEPT ![c] = [step |-> "log", id |-> n + 1]]
      <4>1. "log" \in Steps /\ "log" # "idle"
        BY DEF Steps
      <4>2. QED
        BY <2>1, <2>2, <3>2, <4>1, SendMoves
    <3>3. QED
      BY <2>1, <3>1, <3>2
  <2>4. QED
    BY <1>0, <2>1, <2>2, <2>3 DEF PathTypes, DeliveriesBounded, logVars, fileVars
<1>3. ASSUME NEW c \in Caller, WriteLog(c)
      PROVE  Goal
  <2>1. /\ send[c].id \in Alert
        /\ send' = [send EXCEPT ![c] = [step |-> "save", id |-> send[c].id]]
    BY <1>3, WriteLogMove
  <2>2. /\ IF logFile = "open" THEN WriteLine(send[c].id) ELSE UNCHANGED logVars
        /\ UNCHANGED <<mode, clock, n, limitVars, sink, delivery, closed, exited>>
    BY <1>3 DEF WriteLog
  <2>3. /\ written' \in Seq(Alert) /\ current' \in Seq(Alert)
        /\ backups' \in [1 .. LogMaxBackups -> Seq(Alert)]
        /\ logFile' \in {"open", "nil", "closed"}
        /\ logBytes' \in Nat /\ shiftFailed' \in BOOLEAN
    <3>1. CASE logFile = "open"
      BY <2>1, <2>2, <3>1, WriteLineTypes
    <3>2. CASE logFile # "open"
      BY <2>2, <3>2 DEF logVars, fileVars, PathTypes
    <3>3. QED
      BY <3>1, <3>2
  <2>4. send' \in [Caller -> [step : Steps, id : 0 .. MaxAlerts]] /\ SendShape'
    <3>1. "save" \in Steps /\ "save" # "idle" /\ send[c].id \in 0 .. MaxAlerts
      BY <2>1 DEF Steps, Alert
    <3>2. QED
      BY <2>1, <3>1, SendMoves
  <2>5. QED
    BY <1>0, <2>2, <2>3, <2>4 DEF PathTypes, DeliveriesBounded, limitVars
<1>4. ASSUME NEW c \in Caller, SaveToSink(c)
      PROVE  Goal
  <2>1. /\ send[c].id \in Alert
        /\ \/ send' = [send EXCEPT ![c] = [step |-> "idle", id |-> 0]]
           \/ send' = [send EXCEPT ![c] = [step |-> "dispatch", id |-> send[c].id]]
    BY <1>4, SaveMove
  <2>2. /\ sink' = sink \cup {send[c].id}
        /\ UNCHANGED <<mode, clock, n, limitVars, logVars, delivery, closed, exited>>
    BY <1>4 DEF SaveToSink
  <2>3. sink' \subseteq Alert
    BY <2>1, <2>2 DEF PathTypes
  <2>4. send' \in [Caller -> [step : Steps, id : 0 .. MaxAlerts]] /\ SendShape'
    <3>1. /\ "dispatch" \in Steps /\ "idle" \in Steps /\ "dispatch" # "idle"
          /\ send[c].id \in 0 .. MaxAlerts /\ 0 \in 0 .. MaxAlerts
      BY <2>1, AlerterAssumption DEF Steps, Alert
    <3>2. QED
      BY <2>1, <3>1, SendMoves
  <2>5. QED
    BY <1>0, <2>2, <2>3, <2>4 DEF PathTypes, DeliveriesBounded, limitVars, logVars, fileVars
<1>5. ASSUME NEW c \in Caller, Dispatch(c)
      PROVE  Goal
  <2> DEFINE fl == [NoDelivery EXCEPT !.state = "flight"]
  <2>1. /\ send' = [send EXCEPT ![c] = [step |-> "idle", id |-> 0]]
        /\ delivery' = [delivery EXCEPT ![send[c].id] = [d \in Dest |-> fl]]
        /\ UNCHANGED <<mode, clock, n, limitVars, logVars, sink, closed, exited>>
    BY <1>5 DEF Dispatch, Idle
  <2>2. fl \in DeliveryRecord /\ FlightOK(fl)
    BY AlerterAssumption DEF NoDelivery, DeliveryRecord, FlightOK
  <2> HIDE DEF fl
  <2>3. delivery' \in [Alert -> [Dest -> DeliveryRecord]] /\ DeliveriesBounded'
    BY <1>0, <2>1, <2>2 DEF PathTypes, DeliveriesBounded
  <2>4. send' \in [Caller -> [step : Steps, id : 0 .. MaxAlerts]] /\ SendShape'
    <3>1. "idle" \in Steps /\ 0 \in 0 .. MaxAlerts
      BY AlerterAssumption DEF Steps
    <3>2. QED
      BY <2>1, <3>1, SendMoves
  <2>5. QED
    BY <1>0, <2>1, <2>3, <2>4 DEF PathTypes, limitVars, logVars, fileVars
<1>6. ASSUME NEW a \in Alert, NEW d \in Dest, Post(a, d)
      PROVE  Goal
  <2>1. PICK new \in DeliveryRecord : FlightOK(new) /\ SetDelivery(a, d, new)
    BY <1>6, PostEffect
  <2>2. /\ delivery' = [delivery EXCEPT ![a][d] = new]
        /\ UNCHANGED <<mode, clock, n, send, limitVars, logVars, sink, closed, exited>>
    BY <2>1 DEF SetDelivery
  <2>3. delivery' \in [Alert -> [Dest -> DeliveryRecord]] /\ DeliveriesBounded'
    BY <1>0, <2>1, <2>2 DEF PathTypes, DeliveriesBounded
  <2>4. QED
    BY <1>0, <2>2, <2>3 DEF PathTypes, SendShape, limitVars, logVars, fileVars
<1>7. CASE Tick \/ Exit
  BY <1>0, <1>7 DEF Tick, Exit, limitVars, logVars, fileVars, PathTypes, DeliveriesBounded, SendShape
<1>8. CASE Close
  BY <1>0, <1>8 DEF Close, limitVars, fileVars, PathTypes, DeliveriesBounded, SendShape
<1>9. QED
  BY <1>1, <1>2, <1>3, <1>4, <1>5, <1>6, <1>7, <1>8 DEF Next

\* In every reachable state a caller of Send has one alert or none, and a
\* delivery under way has a try left.
THEOREM SendInvariant == Spec => []SendInv
<1>1. Init => SendInv
  <2> SUFFICES ASSUME Init PROVE SendInv
    OBVIOUS
  <2>1. LimiterTypes
    BY LimiterInit DEF LimiterInv
  <2>2. NoDelivery \in DeliveryRecord /\ FlightOK(NoDelivery)
    BY AlerterAssumption DEF NoDelivery, DeliveryRecord, FlightOK
  <2>3. Idle \in [step : Steps, id : 0 .. MaxAlerts] /\ Idle.step = "idle" /\ Idle.id = 0
    BY AlerterAssumption DEF Idle, Steps
  <2>4. n \in 0 .. MaxAlerts /\ send = [c \in Caller |-> Idle]
    BY AlerterAssumption DEF Init
  <2>5. closed \in BOOLEAN /\ exited \in BOOLEAN /\ shiftFailed \in BOOLEAN
    BY Zenon DEF Init
  <2>6. delivery \in [Alert -> [Dest -> DeliveryRecord]] /\ DeliveriesBounded
    BY <2>2 DEF Init, DeliveriesBounded
  <2>7. PathTypes
    BY <2>3, <2>4, <2>5, <2>6 DEF Init, PathTypes
  <2>8. SendShape
    BY <2>3, <2>4 DEF SendShape
  <2>9. QED
    BY <2>1, <2>4, <2>6, <2>7, <2>8, TypesSplit DEF SendInv
<1>2. LimiterInv /\ SendInv /\ [Next]_vars => SendInv'
  <2> SUFFICES ASSUME LimiterInv, SendInv, [Next]_vars PROVE SendInv'
    OBVIOUS
  <2>1. LimiterTypes /\ LimiterTypes'
    BY LimiterStep DEF LimiterInv
  <2>2. PathTypes
    BY <2>1, TypesSplit DEF SendInv
  <2>3. PathTypes' /\ n' \in 0 .. MaxAlerts /\ DeliveriesBounded' /\ SendShape'
    BY <2>2, PathStep
  <2>4. TypeOK'
    BY <2>1, <2>3 DEF TypeOK, PathTypes, LimiterTypes, Steps, DeliveryRecord
  <2>5. QED
    BY <2>3, <2>4 DEF SendInv
<1>3. QED
  BY <1>1, <1>2, LimiterInvariant, PTL DEF Spec

\* The state of the alerter keeps its types; in particular no delivery makes
\* more than DeliveryAttempts tries or puts more copies than that.
THEOREM TypeCorrect == Spec => []TypeOK
<1>1. SendInv => TypeOK
  BY DEF SendInv
<1>2. QED
  BY <1>1, SendInvariant, PTL

-----------------------------------------------------------------------------
(* No incident is lost.                                                    *)

RecordInv == SavedFirst /\ IncidentsKept

\* Each step of Send hands its alert on before the caller lets go of it.
LEMMA RecordStep ==
    ASSUME SendInv, RecordInv, [Next]_vars
    PROVE  RecordInv'
<1>0. /\ send \in [Caller -> [step : Steps, id : 0 .. MaxAlerts]]
      /\ incidents \subseteq Alert /\ 0 \notin Alert
  BY DEF SendInv, TypeOK, Steps, Alert
<1>1. CASE UNCHANGED <<send, incidents, sink>>
  BY <1>1 DEF RecordInv, SavedFirst, IncidentsKept
<1>2. ASSUME NEW c \in Caller, NEW k \in RateKey, NEW sev \in Severities,
             NEW incident \in BOOLEAN, Send(c, k, sev, incident)
      PROVE  RecordInv'
  <2>1. /\ n + 1 \in Alert /\ send[c].id = 0 /\ sink' = sink
        /\ \/ incidents' = incidents /\ send' = send
           \/ /\ incidents' = incidents \/ incidents' = incidents \cup {n + 1}
              /\ send' = [send EXCEPT ![c] = [step |-> "log", id |-> n + 1]]
    BY <1>2, SendEffect
  <2>2. CASE incidents' = incidents /\ send' = send
    BY <1>1, <2>1, <2>2
  <2>3. CASE /\ incidents' = incidents \/ incidents' = incidents \cup {n + 1}
             /\ send' = [send EXCEPT ![c] = [step |-> "log", id |-> n + 1]]
    <3>1. /\ send'[c].step = "log" /\ send'[c].id = n + 1
          /\ \A b \in Caller : b # c => send'[b] = send[b]
      BY <1>0, <2>3
    <3>2. SavedFirst'
      BY <2>1, <3>1 DEF RecordInv, SavedFirst
    <3>3. IncidentsKept'
      BY <1>0, <2>1, <2>3, <3>1 DEF RecordInv, IncidentsKept
    <3>4. QED
      BY <3>2, <3>3 DEF RecordInv
  <2>4. QED
    BY <2>1, <2>2, <2>3
<1>3. ASSUME NEW c \in Caller, WriteLog(c)
      PROVE  RecordInv'
  <2>1. send' = [send EXCEPT ![c] = [step |-> "save", id |-> send[c].id]]
    BY <1>3, WriteLogMove
  <2>2. /\ send'[c].step = "save" /\ \A b \in Caller : send'[b].id = send[b].id
        /\ \A b \in Caller : b # c => send'[b] = send[b]
    BY <1>0, <2>1
  <2>3. UNCHANGED <<incidents, sink>>
    BY <1>3 DEF WriteLog, limitVars
  <2>4. QED
    BY <2>2, <2>3 DEF RecordInv, SavedFirst, IncidentsKept
<1>4. ASSUME NEW c \in Caller, SaveToSink(c)
      PROVE  RecordInv'
  <2>1. \/ send' = [send EXCEPT ![c] = [step |-> "idle", id |-> 0]]
        \/ send' = [send EXCEPT ![c] = [step |-> "dispatch", id |-> send[c].id]]
    BY <1>4, SaveMove
  <2>2. /\ send'[c].step = "idle" \/ send'[c].id = send[c].id
        /\ \A b \in Caller : b # c => send'[b] = send[b]
    BY <1>0, <2>1
  <2>3. sink' = sink \cup {send[c].id} /\ incidents' = incidents
    BY <1>4 DEF SaveToSink, limitVars
  <2>4. SavedFirst'
    BY <2>2, <2>3 DEF RecordInv, SavedFirst
  <2>5. IncidentsKept'
    BY <2>2, <2>3 DEF RecordInv, IncidentsKept
  <2>6. QED
    BY <2>4, <2>5 DEF RecordInv
<1>5. ASSUME NEW c \in Caller, Dispatch(c)
      PROVE  RecordInv'
  <2>1. /\ send[c].step = "dispatch"
        /\ send' = [send EXCEPT ![c] = [step |-> "idle", id |-> 0]]
        /\ UNCHANGED <<incidents, sink>>
    BY <1>5 DEF Dispatch, Idle, limitVars
  <2>2. /\ send'[c].step = "idle"
        /\ \A b \in Caller : b # c => send'[b] = send[b]
    BY <1>0, <2>1
  <2>3. send[c].id \in sink
    BY <2>1 DEF RecordInv, SavedFirst
  <2>4. QED
    BY <2>1, <2>2, <2>3 DEF RecordInv, SavedFirst, IncidentsKept
<1>6. ASSUME NEW a \in Alert, NEW d \in Dest, Post(a, d)
      PROVE  RecordInv'
  BY <1>1, <1>6 DEF Post, PostOk, PostTransportError, PostServerError, PostClientError,
                    SetDelivery, limitVars
<1>7. CASE UNCHANGED vars \/ Tick \/ Close \/ Exit
  BY <1>1, <1>7 DEF vars, Tick, Close, Exit, limitVars
<1>8. QED
  BY <1>2, <1>3, <1>4, <1>5, <1>6, <1>7 DEF Next

\* Send: an incident is handed to the sink, or the Send that carries it is still
\* under way, however noisy its container is.
THEOREM IncidentsAreKept == Spec => []IncidentsKept
<1>1. Init => RecordInv
  BY DEF Init, Idle, RecordInv, SavedFirst, IncidentsKept
<1>2. SendInv /\ RecordInv /\ [Next]_vars => RecordInv'
  BY RecordStep
<1>3. RecordInv => IncidentsKept
  BY DEF RecordInv
<1>4. QED
  BY <1>1, <1>2, <1>3, SendInvariant, PTL DEF Spec

-----------------------------------------------------------------------------
(* The log file and its backups.                                           *)

\* f solves the recursion that defines LinesBefore.
CountsLines(f) ==
    f = [i \in 0 .. LogMaxBackups |->
            IF i = 0 THEN Len(written) - Len(current) ELSE f[i - 1] - Len(backups[i])]

\* The statement of LogIsTail about f.
TailFrom(f) ==
    /\ f \in [0 .. LogMaxBackups -> 0 .. Len(written)]
    /\ current = SubSeq(written, f[0] + 1, Len(written))
    /\ \A i \in 1 .. LogMaxBackups :
          /\ backups[i] = SubSeq(written, f[i] + 1, f[i - 1])
          /\ f[i] > 0 => Len(backups[i]) = LogMax

\* The log file is not full: it was rotated when its last line was written.
RoomLeft == LogMax > 0 => Len(current) < LogMax

TailInv == RoomLeft /\ \E f : CountsLines(f) /\ TailFrom(f)

\* What is counted is what the file holds.
Counted == logFile = "open" => logBytes = Len(current)

LogInv == ~shiftFailed => Counted /\ TailInv

\* A set of naturals that is not empty has a least element.
LEMMA Least ==
    ASSUME NEW T, T \subseteq Nat, T # {}
    PROVE  \E m \in T : \A t \in T : m <= t
<1>1. PICK m \in T : \A t \in T : ~(<<t, m>> \in OpToRel(<, Nat))
  BY WFMin, NatLessThanWellFounded
<1>2. \A t \in T : ~(t < m)
  BY <1>1 DEF OpToRel
<1> QED BY <1>2

\* The recursion has one solution only.
LEMMA CountsUnique ==
    ASSUME NEW f, NEW g, CountsLines(f), CountsLines(g)
    PROVE  f = g
<1> DEFINE T == {i \in 0 .. LogMaxBackups : f[i] # g[i]}
<1>1. CASE T # {}
  <2>1. T \subseteq Nat
    OBVIOUS
  <2> HIDE DEF T
  <2>2. PICK m \in T : \A t \in T : m <= t
    BY <1>1, <2>1, Least
  <2>3. m \in 0 .. LogMaxBackups /\ f[m] # g[m]
    BY <2>2 DEF T
  <2>4. m # 0
    BY <2>3 DEF CountsLines
  <2>5. m - 1 \in 0 .. LogMaxBackups /\ m - 1 < m
    BY <2>3, <2>4, AlerterAssumption
  <2>6. f[m - 1] = g[m - 1]
    BY <2>1, <2>2, <2>5 DEF T
  <2>7. f[m] = f[m - 1] - Len(backups[m]) /\ g[m] = g[m - 1] - Len(backups[m])
    BY <2>3, <2>4 DEF CountsLines
  <2>8. QED
    BY <2>3, <2>6, <2>7
<1>2. CASE T = {}
  <2>1. \A i \in 0 .. LogMaxBackups : f[i] = g[i]
    BY <1>2
  <2>2. f = [i \in 0 .. LogMaxBackups |-> f[i]] /\ g = [i \in 0 .. LogMaxBackups |-> g[i]]
    BY DEF CountsLines
  <2>3. QED
    BY <2>1, <2>2
<1> QED BY <1>1, <1>2

\* LinesBefore is that solution.
LEMMA LinesBeforeIs ==
    ASSUME NEW f, CountsLines(f)
    PROVE  LinesBefore = f
<1>1. CountsLines(LinesBefore)
  BY DEF LinesBefore, CountsLines
<1> QED BY <1>1, CountsUnique

\* The invariant says what the property says.
LEMMA LogInvSays == LogInv => LogIsTail
<1> SUFFICES ASSUME TailInv PROVE LogIsTail
  BY DEF LogInv, LogIsTail
<1>1. PICK f : CountsLines(f) /\ TailFrom(f)
  BY DEF TailInv
<1>2. LinesBefore = f
  BY <1>1, LinesBeforeIs
<1>3. f \in [0 .. LogMaxBackups -> 0 .. Len(written)] /\ 0 \in 0 .. LogMaxBackups
  BY <1>1, AlerterAssumption DEF TailFrom
<1>4. \A i \in 0 .. LogMaxBackups : f[i] >= 0
  BY <1>3
<1> HIDE DEF LinesBefore
<1>5. QED
  BY <1>1, <1>2, <1>3, <1>4 DEF TailFrom, LogIsTail

-----------------------------------------------------------------------------
\* What was written before does not change.
LEMMA OldLines ==
    ASSUME NEW S, NEW w \in Seq(S), NEW a \in S, NEW p \in Nat, NEW q \in Nat, q <= Len(w)
    PROVE  SubSeq(Append(w, a), p + 1, q) = SubSeq(w, p + 1, q)
<1> DEFINE v == Append(w, a)
<1>1. /\ v \in Seq(S) /\ Len(v) = Len(w) + 1 /\ Len(w) \in Nat
      /\ \A i \in 1 .. Len(w) : v[i] = w[i]
  BY AppendProperties
<1>2. \A i \in 1 .. Len(w) : w[i] \in S
  OBVIOUS
<1> HIDE DEF v
<1>3. \A i \in p + 1 .. q : w[i] \in S /\ v[i] = w[i]
  BY <1>1, <1>2
<1> DEFINE x == SubSeq(v, p + 1, q)
           y == SubSeq(w, p + 1, q)
<1>4. /\ x \in Seq(S) /\ y \in Seq(S) /\ Len(x) = Len(y)
      /\ Len(x) = IF p + 1 <= q THEN q - (p + 1) + 1 ELSE 0
      /\ \A i \in 1 .. q - (p + 1) + 1 : x[i] = v[p + 1 + i - 1] /\ y[i] = w[p + 1 + i - 1]
  <2>1. p + 1 \in Int /\ q \in Int
    OBVIOUS
  <2>2. \A i \in p + 1 .. q : v[i] \in S
    BY <1>3
  <2>3. QED
    BY <1>3, <2>1, <2>2, SubSeqProperties
<1> HIDE DEF x, y
<1>5. \A i \in 1 .. Len(x) : x[i] = y[i]
  <2> SUFFICES ASSUME NEW i \in 1 .. Len(x) PROVE x[i] = y[i]
    OBVIOUS
  <2>1. i \in 1 .. q - (p + 1) + 1 /\ p + 1 + i - 1 \in p + 1 .. q
    BY <1>4
  <2>2. QED
    BY <1>3, <1>4, <2>1
<1>6. QED
  BY <1>4, <1>5, SeqEqual DEF x, y, v

\* A new line comes at the end of what followed the first p lines.
LEMMA NewLine ==
    ASSUME NEW S, NEW w \in Seq(S), NEW a \in S, NEW p \in Nat, p <= Len(w)
    PROVE  SubSeq(Append(w, a), p + 1, Len(w) + 1) = Append(SubSeq(w, p + 1, Len(w)), a)
<1> DEFINE v == Append(w, a)
           z == SubSeq(w, p + 1, Len(w))
           x == SubSeq(v, p + 1, Len(w) + 1)
           y == Append(z, a)
<1>1. /\ v \in Seq(S) /\ Len(v) = Len(w) + 1 /\ Len(w) \in Nat
      /\ \A i \in 1 .. Len(w) : v[i] = w[i]
      /\ v[Len(w) + 1] = a
  BY AppendProperties
<1>2. \A i \in 1 .. Len(w) : w[i] \in S
  OBVIOUS
<1> HIDE DEF v
<1>3. /\ z \in Seq(S) /\ Len(z) = Len(w) - p
      /\ \A i \in 1 .. Len(w) - p : z[i] = w[p + i]
  <2>1. /\ p + 1 \in Int /\ Len(w) \in Int
        /\ \A i \in p + 1 .. Len(w) : w[i] \in S
    BY <1>1, <1>2
  <2>2. /\ z \in Seq(S)
        /\ Len(z) = IF p + 1 <= Len(w) THEN Len(w) - (p + 1) + 1 ELSE 0
        /\ \A i \in 1 .. Len(w) - (p + 1) + 1 : z[i] = w[p + 1 + i - 1]
    BY <2>1, SubSeqProperties
  <2> HIDE DEF z
  <2>3. Len(w) - (p + 1) + 1 = Len(w) - p /\ Len(z) = Len(w) - p
    BY <1>1, <2>2
  <2>4. \A i \in 1 .. Len(w) - p : p + 1 + i - 1 = p + i
    OBVIOUS
  <2>5. QED
    BY <2>2, <2>3, <2>4
<1>4. /\ x \in Seq(S) /\ Len(x) = Len(w) + 1 - p
      /\ \A i \in 1 .. Len(w) + 1 - p : x[i] = v[p + i]
  <2>1. /\ p + 1 \in Int /\ Len(w) + 1 \in Int
        /\ \A i \in p + 1 .. Len(w) + 1 : v[i] \in S
    <3>1. \A i \in 1 .. Len(v) : v[i] \in S
      BY <1>1
    <3>2. QED
      BY <1>1, <3>1
  <2>2. /\ x \in Seq(S)
        /\ Len(x) = IF p + 1 <= Len(w) + 1 THEN Len(w) + 1 - (p + 1) + 1 ELSE 0
        /\ \A i \in 1 .. Len(w) + 1 - (p + 1) + 1 : x[i] = v[p + 1 + i - 1]
    BY <2>1, SubSeqProperties
  <2> HIDE DEF x
  <2>3. Len(w) + 1 - (p + 1) + 1 = Len(w) + 1 - p /\ Len(x) = Len(w) + 1 - p
    BY <1>1, <2>2
  <2>4. \A i \in 1 .. Len(w) + 1 - p : p + 1 + i - 1 = p + i
    OBVIOUS
  <2>5. QED
    BY <2>2, <2>3, <2>4
<1> HIDE DEF x, z
<1>5. /\ y \in Seq(S) /\ Len(y) = Len(z) + 1
      /\ \A i \in 1 .. Len(z) : y[i] = z[i]
      /\ y[Len(z) + 1] = a
  BY <1>3, AppendProperties
<1> HIDE DEF y
<1>6. Len(y) = Len(x)
  BY <1>1, <1>3, <1>4, <1>5
<1>7. ASSUME NEW i \in 1 .. Len(x) PROVE x[i] = y[i]
  <2>1. x[i] = v[p + i]
    BY <1>4
  <2>2. CASE i <= Len(w) - p
    <3>1. i \in 1 .. Len(w) - p /\ p + i \in 1 .. Len(w)
      BY <1>1, <2>2
    <3>2. QED
      BY <1>1, <1>3, <1>5, <2>1, <3>1
  <2>3. CASE i > Len(w) - p
    <3>0. \A l, j \in Nat : j <= l + 1 - p /\ j > l - p => j = l - p + 1 /\ p + j = l + 1
      OBVIOUS
    <3>1. i = Len(w) - p + 1 /\ p + i = Len(w) + 1
      <4>1. i \in Nat /\ i <= Len(w) + 1 - p
        BY <1>1, <1>4
      <4>2. QED
        BY <1>1, <2>3, <3>0, <4>1
    <3>2. QED
      BY <1>1, <1>3, <1>5, <2>1, <3>1
  <2>4. QED
    BY <1>1, <2>2, <2>3
<1>8. QED
  BY <1>4, <1>5, <1>6, <1>7, SeqEqual DEF x, y, v, z

-----------------------------------------------------------------------------
\* A line that leaves room in the log file moves no file.
LEMMA LineAdded ==
    ASSUME SendInv, TailInv, NEW a \in Alert,
           written' = Append(written, a), current' = Append(current, a),
           ~NeedsRotation(Len(current) + 1), UNCHANGED backups
    PROVE  TailInv'
<1>1. /\ current \in Seq(Alert) /\ written \in Seq(Alert)
      /\ LogMax \in Nat /\ LogMaxBackups \in Nat
  BY AlerterAssumption DEF SendInv, TypeOK
<1>2. PICK f : CountsLines(f) /\ TailFrom(f)
  BY DEF TailInv
<1>3. f \in [0 .. LogMaxBackups -> 0 .. Len(written)] /\ Len(written) \in Nat
  BY <1>1, <1>2 DEF TailFrom
<1>4. Len(written') = Len(written) + 1 /\ Len(current') = Len(current) + 1 /\ Len(current) \in Nat
  BY <1>1
<1>5. RoomLeft'
  BY <1>1, <1>4 DEF RoomLeft, NeedsRotation
<1>6. CountsLines(f)'
  <2>1. Len(written') - Len(current') = Len(written) - Len(current)
    BY <1>3, <1>4
  <2>2. QED
    BY <1>2, <2>1 DEF CountsLines
<1>7. TailFrom(f)'
  <2>1. f \in [0 .. LogMaxBackups -> 0 .. Len(written')]
    <3>1. 0 .. Len(written) \subseteq 0 .. Len(written')
      BY <1>3, <1>4
    <3>2. QED
      BY <1>3, <3>1
  <2>2. current' = SubSeq(written', f[0] + 1, Len(written'))
    <3>1. f[0] \in Nat /\ f[0] <= Len(written)
      BY <1>1, <1>3
    <3>2. current = SubSeq(written, f[0] + 1, Len(written))
      BY <1>2 DEF TailFrom
    <3>3. QED
      BY <1>1, <1>4, <3>1, <3>2, NewLine
  <2>3. ASSUME NEW i \in 1 .. LogMaxBackups
        PROVE  /\ backups'[i] = SubSeq(written', f[i] + 1, f[i - 1])
               /\ f[i] > 0 => Len(backups'[i]) = LogMax
    <3>1. i \in 0 .. LogMaxBackups /\ i - 1 \in 0 .. LogMaxBackups
      BY <1>1
    <3>2. f[i] \in Nat /\ f[i - 1] \in Nat /\ f[i - 1] <= Len(written)
      BY <1>3, <3>1
    <3>3. SubSeq(written', f[i] + 1, f[i - 1]) = SubSeq(written, f[i] + 1, f[i - 1])
      BY <1>1, <3>2, OldLines
    <3>4. QED
      BY <1>2, <3>3 DEF TailFrom
  <2>4. QED
    BY <2>1, <2>2, <2>3 DEF TailFrom
<1>8. QED
  BY <1>5, <1>6, <1>7 DEF TailInv

\* Every file takes the place of the next.
AllShifted(log) == [i \in 1 .. LogMaxBackups |-> IF i = 1 THEN log ELSE backups[i - 1]]

\* A line that fills the log file moves every file one place on.
LEMMA LineRotates ==
    ASSUME SendInv, TailInv, NEW a \in Alert,
           written' = Append(written, a), NeedsRotation(Len(current) + 1),
           backups' = AllShifted(Append(current, a)), current' = <<>>
    PROVE  TailInv'
<1> DEFINE lines == Append(current, a)
<1>1. /\ current \in Seq(Alert) /\ written \in Seq(Alert)
      /\ backups \in [1 .. LogMaxBackups -> Seq(Alert)]
      /\ LogMax \in Nat /\ LogMaxBackups \in Nat
  BY AlerterAssumption DEF SendInv, TypeOK
<1>2. PICK f : CountsLines(f) /\ TailFrom(f)
  BY DEF TailInv
<1>3. f \in [0 .. LogMaxBackups -> 0 .. Len(written)] /\ Len(written) \in Nat
  BY <1>1, <1>2 DEF TailFrom
<1>4. Len(written') = Len(written) + 1 /\ Len(lines) = Len(current) + 1 /\ Len(current) \in Nat
  BY <1>1
<1>5. LogMax > 0 /\ Len(lines) = LogMax
  <2>1. LogMax > 0 /\ Len(lines) >= LogMax
    BY <1>4 DEF NeedsRotation
  <2>2. Len(current) < LogMax
    BY <2>1 DEF TailInv, RoomLeft
  <2> HIDE DEF lines
  <2>3. QED
    BY <1>1, <1>4, <2>1, <2>2
<1>6. Len(current') = 0
  OBVIOUS
<1>7. RoomLeft'
  BY <1>1, <1>5, <1>6 DEF RoomLeft
<1>8. PICK g : g = [i \in 0 .. LogMaxBackups |-> IF i = 0 THEN Len(written) + 1 ELSE f[i - 1]]
  OBVIOUS
<1>9. \A i \in 1 .. LogMaxBackups : i \in 0 .. LogMaxBackups /\ i - 1 \in 0 .. LogMaxBackups
  BY <1>1
<1>10. 0 \in 0 .. LogMaxBackups
  BY <1>1
<1>11. /\ g[0] = Len(written) + 1
       /\ \A i \in 1 .. LogMaxBackups : g[i] = f[i - 1]
  BY <1>8, <1>9, <1>10
<1>12. g \in [0 .. LogMaxBackups -> 0 .. Len(written')]
  <2>1. \A i \in 0 .. LogMaxBackups : f[i] \in 0 .. Len(written')
    BY <1>3, <1>4
  <2>2. Len(written) + 1 \in 0 .. Len(written')
    BY <1>3, <1>4
  <2>3. \A i \in 0 .. LogMaxBackups : i # 0 => i \in 1 .. LogMaxBackups
    BY <1>1
  <2>4. QED
    BY <1>8, <1>9, <2>1, <2>2, <2>3
<1>13. f[0] = Len(written) - Len(current) /\ f[0] \in Nat /\ f[0] <= Len(written)
  <2>1. f[0] = Len(written) - Len(current)
    BY <1>2, <1>10 DEF CountsLines
  <2>2. f[0] \in 0 .. Len(written)
    BY <1>3, <1>10
  <2> QED
    BY <1>3, <2>1, <2>2
<1>14. \A i \in 1 .. LogMaxBackups :
          backups'[i] = IF i = 1 THEN lines ELSE backups[i - 1]
  BY DEF AllShifted
<1> HIDE DEF lines
<1>15. CountsLines(g)'
  <2>1. Len(written') - Len(current') = Len(written) + 1
    BY <1>3, <1>4, <1>6
  <2>2. ASSUME NEW i \in 0 .. LogMaxBackups
        PROVE  g[i] = IF i = 0 THEN Len(written') - Len(current') ELSE g[i - 1] - Len(backups'[i])
    <3>1. CASE i = 0
      BY <1>11, <2>1, <3>1
    <3>2. CASE i = 1
      <4>1. g[i] = f[0] /\ g[i - 1] = Len(written) + 1 /\ backups'[i] = lines
        BY <1>11, <1>14, <3>2
      <4>2. f[0] = Len(written) + 1 - Len(lines)
        BY <1>3, <1>4, <1>13
      <4>3. QED
        BY <3>2, <4>1, <4>2
    <3>3. CASE i # 0 /\ i # 1
      <4>1. i \in 1 .. LogMaxBackups /\ i - 1 \in 1 .. LogMaxBackups
        BY <1>1, <3>3
      <4>2. g[i] = f[i - 1] /\ g[i - 1] = f[i - 1 - 1] /\ backups'[i] = backups[i - 1]
        BY <1>11, <1>14, <3>3, <4>1
      <4>3. f[i - 1] = f[i - 1 - 1] - Len(backups[i - 1])
        BY <1>2, <1>9, <4>1 DEF CountsLines
      <4>4. QED
        BY <3>3, <4>2, <4>3
    <3>4. QED
      BY <3>1, <3>2, <3>3
  <2>3. g = [i \in 0 .. LogMaxBackups |-> g[i]]
    BY <1>8
  <2>4. QED
    BY <2>2, <2>3 DEF CountsLines
<1>16. TailFrom(g)'
  <2>1. current' = SubSeq(written', g[0] + 1, Len(written'))
    <3>1. g[0] + 1 \in Int /\ Len(written') \in Int /\ Len(written') < g[0] + 1
      BY <1>3, <1>4, <1>11
    <3>2. QED
      BY <3>1, SubSeqEmpty
  <2>2. ASSUME NEW i \in 1 .. LogMaxBackups
        PROVE  /\ backups'[i] = SubSeq(written', g[i] + 1, g[i - 1])
               /\ g[i] > 0 => Len(backups'[i]) = LogMax
    <3>1. CASE i = 1
      <4>1. g[i] = f[0] /\ g[i - 1] = Len(written) + 1 /\ backups'[i] = lines
        BY <1>11, <1>14, <3>1
      <4>2. current = SubSeq(written, f[0] + 1, Len(written))
        BY <1>2 DEF TailFrom
      <4>3. lines = SubSeq(written', f[0] + 1, Len(written) + 1)
        BY <1>1, <1>13, <4>2, NewLine DEF lines
      <4>4. QED
        BY <1>5, <4>1, <4>3
    <3>2. CASE i # 1
      <4>1. i - 1 \in 1 .. LogMaxBackups
        BY <1>1, <3>2
      <4>2. g[i] = f[i - 1] /\ g[i - 1] = f[i - 1 - 1] /\ backups'[i] = backups[i - 1]
        BY <1>11, <1>14, <3>2, <4>1
      <4>3. /\ f[i - 1] \in Nat /\ f[i - 1 - 1] \in Nat /\ f[i - 1 - 1] <= Len(written)
        BY <1>3, <1>9, <4>1
      <4>4. SubSeq(written', f[i - 1] + 1, f[i - 1 - 1]) = SubSeq(written, f[i - 1] + 1, f[i - 1 - 1])
        <5>1. \A p, q \in Nat : q <= Len(written) =>
                 SubSeq(written', p + 1, q) = SubSeq(written, p + 1, q)
          BY <1>1, OldLines
        <5>2. QED
          BY <4>3, <5>1
      <4>5. /\ backups[i - 1] = SubSeq(written, f[i - 1] + 1, f[i - 1 - 1])
            /\ f[i - 1] > 0 => Len(backups[i - 1]) = LogMax
        BY <1>2, <4>1 DEF TailFrom
      <4>6. QED
        BY <4>2, <4>4, <4>5
    <3>3. QED
      BY <3>1, <3>2
  <2>3. QED
    BY <1>12, <2>1, <2>2 DEF TailFrom
<1>17. QED
  BY <1>7, <1>15, <1>16 DEF TailInv

\* When every file could be moved, each one takes the place of the next.
LEMMA AllMoved ==
    ASSUME SendInv, NEW log, log # <<>>
    PROVE  /\ Shifted(log, Existing(log)) = AllShifted(log)
           /\ 0 \in Existing(log)
<1>1. 0 \in 0 .. LogMaxBackups
  BY AlerterAssumption
<1>2. ASSUME NEW i \in 1 .. LogMaxBackups
      PROVE  (IF i - 1 \in Existing(log) THEN File(log, i - 1)
              ELSE IF i \in Existing(log) THEN <<>> ELSE backups[i])
                = IF i = 1 THEN log ELSE backups[i - 1]
  <2>1. i \in 0 .. LogMaxBackups /\ i - 1 \in 0 .. LogMaxBackups /\ i # 0 /\ (i - 1 = 0 <=> i = 1)
    BY AlerterAssumption
  <2>2. File(log, i - 1) = (IF i = 1 THEN log ELSE backups[i - 1]) /\ File(log, i) = backups[i]
    BY <2>1 DEF File
  <2> QED
    BY <2>1, <2>2 DEF Existing
<1> QED
  BY <1>1, <1>2 DEF Shifted, AllShifted, Existing, File

\* Only WriteLine touches the files.
LEMMA LogStep ==
    ASSUME SendInv, LogInv, [Next]_vars
    PROVE  LogInv'
<1>1. CASE /\ UNCHANGED fileVars
           /\ logFile' = "open" => logFile = "open"
  BY <1>1 DEF fileVars, LogInv, Counted, TailInv, RoomLeft, CountsLines, TailFrom
<1>2. ASSUME NEW a \in Alert, LineWritten(a), logFile = "open"
      PROVE  LogInv'
  <2> SUFFICES ASSUME ~shiftFailed' PROVE Counted' /\ TailInv'
    BY DEF LogInv
  <2>0. written' = Append(written, a) /\ current \in Seq(Alert) /\ shiftFailed \in BOOLEAN
    BY <1>2 DEF LineWritten, SendInv, TypeOK
  <2>1. CASE NeedsRotation(logBytes + 1)
    <3> DEFINE log == Append(current, a)
    <3>1. Rotate(log)
      BY <1>2, <2>1 DEF LineWritten
    <3>2. log # <<>>
      BY <2>0
    <3> HIDE DEF log
    <3>3. PICK moved \in SUBSET Existing(log) :
             /\ backups' = Shifted(log, moved)
             /\ current' = IF 0 \in moved THEN <<>> ELSE log
             /\ shiftFailed' = (shiftFailed \/ moved # Existing(log))
      BY <3>1 DEF Rotate
    <3>4. ~shiftFailed /\ moved = Existing(log)
      BY <3>3, Zenon
    <3>5. Counted /\ TailInv
      BY <3>4 DEF LogInv
    <3>6. backups' = AllShifted(log) /\ current' = <<>>
      BY <3>2, <3>3, <3>4, AllMoved
    <3>7. NeedsRotation(Len(current) + 1)
      BY <1>2, <2>1, <3>5 DEF Counted
    <3>8. TailInv'
      BY <2>0, <3>5, <3>6, <3>7, LineRotates DEF log
    <3>9. Counted'
      BY <3>1, <3>6 DEF Rotate, Counted
    <3> QED
      BY <3>8, <3>9
  <2>2. CASE ~NeedsRotation(logBytes + 1)
    <3>1. /\ current' = Append(current, a) /\ logBytes' = logBytes + 1
          /\ UNCHANGED <<backups, logFile, shiftFailed>>
      BY <1>2, <2>2 DEF LineWritten
    <3>2. Counted /\ TailInv
      BY <3>1 DEF LogInv
    <3>3. logBytes = Len(current) /\ Len(current') = Len(current) + 1
      BY <1>2, <2>0, <3>1, <3>2 DEF Counted
    <3>4. TailInv'
      BY <2>0, <2>2, <3>1, <3>2, <3>3, LineAdded
    <3> QED
      BY <3>1, <3>3, <3>4 DEF Counted
  <2> QED
    BY <2>1, <2>2
<1>3. ASSUME NEW c \in Caller, WriteLog(c) \/ SaveToSink(c) \/ Dispatch(c)
      PROVE  LogInv'
  <2>1. CASE WriteLog(c)
    <3>1. send[c].id \in Alert
      BY <2>1, WriteLogMove
    <3>2. CASE logFile = "open" /\ LineWritten(send[c].id)
      BY <1>2, <3>1, <3>2
    <3>3. CASE UNCHANGED logVars
      BY <1>1, <3>3 DEF logVars
    <3> QED
      BY <2>1, <3>2, <3>3 DEF WriteLog, WriteLine, LineLost
  <2>2. CASE SaveToSink(c) \/ Dispatch(c)
    BY <1>1, <2>2 DEF SaveToSink, Dispatch, logVars
  <2>3. QED
    BY <1>3, <2>1, <2>2
<1>4. ASSUME NEW c \in Caller, NEW k \in RateKey, NEW sev \in Severities,
             NEW incident \in BOOLEAN, Send(c, k, sev, incident)
      PROVE  LogInv'
  BY <1>1, <1>4 DEF Send, logVars
<1>5. ASSUME NEW a \in Alert, NEW d \in Dest, Post(a, d)
      PROVE  LogInv'
  BY <1>1, <1>5 DEF Post, PostOk, PostTransportError, PostServerError, PostClientError,
                    SetDelivery, logVars
<1>6. CASE Tick \/ Close \/ Exit \/ UNCHANGED vars
  BY <1>1, <1>6 DEF Tick, Close, Exit, vars, logVars
<1>7. QED
  BY <1>3, <1>4, <1>5, <1>6 DEF Next

\* writeLog and rotateIfNeeded: for every size and number of backups, the
\* backups and the log file are the last lines written, and a line is missing
\* only when every backup is full, as long as every file could be moved and
\* whatever else of the disk fails.
THEOREM LogKeepsTail == Spec => []LogIsTail
<1>1. Init => LogInv
  <2> SUFFICES ASSUME Init PROVE LogInv
    OBVIOUS
  <2> DEFINE f == [i \in 0 .. LogMaxBackups |-> 0]
  <2>1. /\ current = <<>> /\ written = <<>> /\ Len(<<>>) = 0
        /\ backups = [i \in 1 .. LogMaxBackups |-> <<>>]
        /\ LogMax \in Nat /\ LogMaxBackups \in Nat
    BY AlerterAssumption DEF Init
  <2>2. \A i \in 0 .. LogMaxBackups : i = 0 \/ (i \in 1 .. LogMaxBackups /\ i - 1 \in 0 .. LogMaxBackups)
    BY <2>1
  <2>3. \A i \in 1 .. LogMaxBackups : i \in 0 .. LogMaxBackups /\ i - 1 \in 0 .. LogMaxBackups
    BY <2>1
  <2>4. CountsLines(f)
    BY <2>1, <2>2 DEF CountsLines
  <2>5. SubSeq(<<>>, 0 + 1, 0) = <<>>
    BY SubSeqEmpty
  <2>6. TailFrom(f)
    <3>1. f \in [0 .. LogMaxBackups -> 0 .. Len(written)]
      BY <2>1
    <3>2. f[0] = 0 /\ \A i \in 1 .. LogMaxBackups : f[i] = 0 /\ f[i - 1] = 0 /\ backups[i] = <<>>
      BY <2>1, <2>3
    <3> HIDE DEF f
    <3>3. QED
      BY <2>1, <2>5, <3>1, <3>2 DEF TailFrom
  <2>7. RoomLeft
    BY <2>1 DEF RoomLeft
  <2>8. Counted
    BY <2>1 DEF Init, Counted
  <2>9. QED
    BY <2>4, <2>6, <2>7, <2>8 DEF LogInv, TailInv
<1>2. SendInv /\ LogInv /\ [Next]_vars => LogInv'
  BY LogStep
<1>3. QED
  BY <1>1, <1>2, LogInvSays, SendInvariant, PTL DEF Spec

-----------------------------------------------------------------------------
(* The order of the lines over the files.                                  *)

\* Line p of file i comes before line q of file j, from the oldest file on.
ReadBefore(i, j, p, q) == i > j \/ (i = j /\ p < q)

\* files is a family of files, all of whose lines are in w, in its order.
Ordered(files, w) ==
    /\ \A i \in DOMAIN files : \A p \in DOMAIN files[i] : \E r \in DOMAIN w : w[r] = files[i][p]
    /\ \A i, j \in DOMAIN files : \A p \in DOMAIN files[i], q \in DOMAIN files[j] :
          ReadBefore(i, j, p, q) =>
              \E r, t \in DOMAIN w : r < t /\ w[r] = files[i][p] /\ w[t] = files[j][q]

\* All the files, when the log file is log.
Files(log) == [i \in 0 .. LogMaxBackups |-> File(log, i)]

OrderInv == Ordered(Files(current), written)

\* The invariant says what the property says.
LEMMA OrderInvSays == OrderInv => LogInOrder
  BY DEF OrderInv, Ordered, Files, ReadBefore, LogInOrder, WrittenBefore

\* A line that is written comes after all others, at the end of the log file.
LEMMA OrderAppend ==
    ASSUME SendInv, OrderInv, NEW a \in Alert
    PROVE  Ordered(Files(Append(current, a)), Append(written, a))
<1> DEFINE w == Append(written, a)
           log == Append(current, a)
           old == Files(current)
           new == Files(log)
<1>1. /\ current \in Seq(Alert) /\ written \in Seq(Alert)
      /\ Len(current) \in Nat /\ Len(written) \in Nat
  BY DEF SendInv, TypeOK
<1>2. /\ DOMAIN w = 1 .. Len(written) + 1 /\ DOMAIN written = 1 .. Len(written)
      /\ w[Len(written) + 1] = a
      /\ \A r \in DOMAIN written : w[r] = written[r]
  BY <1>1
<1>3. /\ DOMAIN log = 1 .. Len(current) + 1 /\ DOMAIN current = 1 .. Len(current)
      /\ log[Len(current) + 1] = a
      /\ \A p \in DOMAIN current : log[p] = current[p]
  BY <1>1
<1>4. /\ 0 \in 0 .. LogMaxBackups
      /\ DOMAIN old = 0 .. LogMaxBackups /\ DOMAIN new = 0 .. LogMaxBackups
      /\ old[0] = current /\ new[0] = log
      /\ \A i \in 0 .. LogMaxBackups : i # 0 => new[i] = old[i]
  BY AlerterAssumption DEF Files, File
<1>5. Ordered(old, written)
  BY DEF OrderInv
<1> HIDE DEF w, log, old, new
<1>6. \A r \in DOMAIN written : r \in DOMAIN w /\ r < Len(written) + 1
  BY <1>1, <1>2
<1>7. Len(written) + 1 \in DOMAIN w
  BY <1>1, <1>2
\* A place in the new files is the new line's, or one of the old files.
<1>8. ASSUME NEW i \in 0 .. LogMaxBackups, NEW p \in DOMAIN new[i]
      PROVE  \/ i = 0 /\ p = Len(current) + 1 /\ new[i][p] = a
             \/ p \in DOMAIN old[i] /\ new[i][p] = old[i][p]
  <2>1. CASE i = 0
    <3>1. p = Len(current) + 1 \/ p \in DOMAIN current
      BY <1>1, <1>3, <1>4, <2>1
    <3> QED
      BY <1>3, <1>4, <2>1, <3>1
  <2>2. CASE i # 0
    BY <1>4, <2>2
  <2> QED
    BY <2>1, <2>2
<1>9. ASSUME NEW i \in 0 .. LogMaxBackups, NEW p \in DOMAIN new[i]
      PROVE  \E r \in DOMAIN w : w[r] = new[i][p]
  <2>1. CASE new[i][p] = a
    BY <1>2, <1>7, <2>1
  <2>2. CASE p \in DOMAIN old[i] /\ new[i][p] = old[i][p]
    BY <1>2, <1>4, <1>5, <1>6, <2>2 DEF Ordered
  <2> QED
    BY <1>8, <2>1, <2>2
<1>10. ASSUME NEW i \in 0 .. LogMaxBackups, NEW j \in 0 .. LogMaxBackups,
              NEW p \in DOMAIN new[i], NEW q \in DOMAIN new[j], ReadBefore(i, j, p, q)
       PROVE  \E r, t \in DOMAIN w : r < t /\ w[r] = new[i][p] /\ w[t] = new[j][q]
  <2>1. CASE i = 0 /\ p = Len(current) + 1
    \* Nothing comes after the new line.
    <3>1. j = 0 /\ Len(current) + 1 < q
      BY <1>10, <2>1, AlerterAssumption DEF ReadBefore
    <3>2. q \in 1 .. Len(current) + 1
      BY <1>3, <1>4, <3>1
    <3> QED
      BY <1>1, <3>1, <3>2
  <2>2. CASE p \in DOMAIN old[i] /\ new[i][p] = old[i][p]
    <3>1. CASE new[j][q] = a
      <4>1. PICK r \in DOMAIN written : written[r] = old[i][p]
        BY <1>4, <1>5, <2>2 DEF Ordered
      <4> QED
        BY <1>2, <1>6, <1>7, <2>2, <3>1, <4>1
    <3>2. CASE q \in DOMAIN old[j] /\ new[j][q] = old[j][q]
      <4>1. PICK r, t \in DOMAIN written :
               r < t /\ written[r] = old[i][p] /\ written[t] = old[j][q]
        BY <1>4, <1>5, <1>10, <2>2, <3>2 DEF Ordered
      <4> QED
        BY <1>2, <1>6, <2>2, <3>2, <4>1
    <3> QED
      BY <1>8, <3>1, <3>2
  <2> QED
    BY <1>8, <2>1, <2>2
<1>11. Ordered(new, w)
  BY <1>4, <1>9, <1>10 DEF Ordered
<1> QED
  BY <1>11 DEF w, new, log

\* Moving any of the files one place on, over whatever is there, or losing one,
\* leaves the others in order.
LEMMA OrderShift ==
    ASSUME SendInv, NEW log, NEW w, Ordered(Files(log), w),
           NEW moved \in SUBSET Existing(log),
           backups' = Shifted(log, moved), current' = IF 0 \in moved THEN <<>> ELSE log
    PROVE  Ordered(Files(current)', w)
<1> DEFINE old == Files(log)
           new == Files(current)'
           from == [i \in 0 .. LogMaxBackups |-> IF i > 0 /\ i - 1 \in moved THEN i - 1 ELSE i]
<1>1. /\ DOMAIN old = 0 .. LogMaxBackups /\ DOMAIN new = 0 .. LogMaxBackups
      /\ LogMaxBackups \in Nat
  BY AlerterAssumption DEF Files
<1>2. ASSUME NEW i \in 0 .. LogMaxBackups
      PROVE  /\ from[i] \in 0 .. LogMaxBackups
             /\ new[i] = old[from[i]] \/ new[i] = <<>>
  <2>1. CASE i = 0
    BY <1>1, <2>1 DEF Files, File
  <2>2. CASE i # 0
    <3>1. i \in 1 .. LogMaxBackups /\ i - 1 \in 0 .. LogMaxBackups /\ i > 0
      BY <1>1, <2>2
    <3>2. new[i] = backups'[i] /\ old[i] = backups[i] /\ old[i - 1] = File(log, i - 1)
      BY <2>2, <3>1 DEF Files, File
    <3>3. backups'[i] = IF i - 1 \in moved THEN File(log, i - 1)
                        ELSE IF i \in moved THEN <<>> ELSE backups[i]
      BY <3>1 DEF Shifted
    <3> QED
      BY <3>1, <3>2, <3>3
  <2> QED
    BY <2>1, <2>2
\* Two files that still have lines came from different places, in the same order.
<1>3. ASSUME NEW i \in 0 .. LogMaxBackups, NEW j \in 0 .. LogMaxBackups,
             i > j, new[i] # <<>>, new[j] # <<>>
      PROVE  from[i] > from[j]
  <2>1. CASE from[i] = i
    BY <1>1, <1>3, <2>1
  <2>2. CASE from[i] # i
    <3>1. from[i] = i - 1 /\ i - 1 \in moved
      BY <2>2
    <3>2. CASE j < i - 1
      BY <1>1, <1>3, <3>1, <3>2
    <3>3. CASE j = i - 1
      <4>1. from[j] # j
        <5> SUFFICES ASSUME from[j] = j PROVE FALSE
          OBVIOUS
        <5>1. ~(j > 0 /\ j - 1 \in moved)
          BY <1>1
        <5>2. CASE j = 0
          BY <1>3, <3>1, <3>3, <5>2 DEF Files, File
        <5>3. CASE j # 0
          <6>1. j \in 1 .. LogMaxBackups /\ j > 0 /\ j \in moved
            BY <1>1, <3>1, <3>3, <5>3
          <6>2. backups'[j] = <<>>
            BY <5>1, <6>1 DEF Shifted
          <6> QED
            BY <1>3, <5>3, <6>2 DEF Files, File
        <5> QED
          BY <5>2, <5>3
      <4>2. from[j] = j - 1
        BY <4>1
      <4> QED
        BY <1>1, <3>1, <3>3, <4>2
    <3> QED
      BY <1>1, <1>3, <3>2, <3>3
  <2> QED
    BY <2>1, <2>2
<1>4. Ordered(old, w)
  OBVIOUS
<1> HIDE DEF old, new, from
<1>5. ASSUME NEW i \in 0 .. LogMaxBackups, NEW p \in DOMAIN new[i]
      PROVE  /\ new[i] # <<>> /\ new[i] = old[from[i]]
             /\ \E r \in DOMAIN w : w[r] = new[i][p]
  <2>1. new[i] # <<>>
    <3> SUFFICES ASSUME new[i] = <<>> PROVE FALSE
      OBVIOUS
    <3>1. DOMAIN <<>> = {}
      OBVIOUS
    <3> QED
      BY <1>5, <3>1
  <2> QED
    BY <1>1, <1>2, <1>4, <2>1 DEF Ordered
<1>6. ASSUME NEW i \in 0 .. LogMaxBackups, NEW j \in 0 .. LogMaxBackups,
             NEW p \in DOMAIN new[i], NEW q \in DOMAIN new[j], ReadBefore(i, j, p, q)
      PROVE  \E r, t \in DOMAIN w : r < t /\ w[r] = new[i][p] /\ w[t] = new[j][q]
  <2>1. ReadBefore(from[i], from[j], p, q)
    BY <1>3, <1>5, <1>6 DEF ReadBefore
  <2>2. p \in DOMAIN old[from[i]] /\ q \in DOMAIN old[from[j]]
    BY <1>5
  <2> QED
    BY <1>1, <1>2, <1>4, <1>5, <2>1, <2>2 DEF Ordered
<1> QED
  BY <1>1, <1>5, <1>6 DEF Ordered, new

\* Only a line that is written touches the files.
LEMMA OrderStep ==
    ASSUME SendInv, OrderInv, [Next]_vars
    PROVE  OrderInv'
<1>1. CASE UNCHANGED fileVars
  BY <1>1 DEF fileVars, OrderInv, Ordered, Files, File
<1>2. ASSUME NEW a \in Alert, LineWritten(a)
      PROVE  OrderInv'
  <2>1. written' = Append(written, a) /\ Ordered(Files(Append(current, a)), Append(written, a))
    BY <1>2, OrderAppend DEF LineWritten
  <2>2. CASE NeedsRotation(logBytes + 1)
    <3> DEFINE log == Append(current, a)
    <3>1. Rotate(log)
      BY <1>2, <2>2 DEF LineWritten
    <3>2. Ordered(Files(log), written')
      BY <2>1
    <3> HIDE DEF log
    <3>3. PICK moved \in SUBSET Existing(log) :
             backups' = Shifted(log, moved) /\ current' = IF 0 \in moved THEN <<>> ELSE log
      BY <3>1 DEF Rotate
    <3> QED
      BY <3>2, <3>3, OrderShift DEF OrderInv
  <2>3. CASE ~NeedsRotation(logBytes + 1)
    <3>1. current' = Append(current, a) /\ UNCHANGED backups
      BY <1>2, <2>3 DEF LineWritten
    <3> QED
      BY <2>1, <3>1 DEF OrderInv, Files, File
  <2> QED
    BY <2>2, <2>3
<1>3. ASSUME NEW c \in Caller, WriteLog(c) \/ SaveToSink(c) \/ Dispatch(c)
      PROVE  OrderInv'
  <2>1. CASE WriteLog(c)
    <3>1. send[c].id \in Alert
      BY <2>1, WriteLogMove
    <3>2. LineWritten(send[c].id) \/ UNCHANGED fileVars
      BY <2>1 DEF WriteLog, WriteLine, LineLost, logVars
    <3> QED
      BY <1>1, <1>2, <3>1, <3>2
  <2>2. CASE SaveToSink(c) \/ Dispatch(c)
    BY <1>1, <2>2 DEF SaveToSink, Dispatch, logVars
  <2> QED
    BY <1>3, <2>1, <2>2
<1>4. ASSUME NEW c \in Caller, NEW k \in RateKey, NEW sev \in Severities,
             NEW incident \in BOOLEAN, Send(c, k, sev, incident)
      PROVE  OrderInv'
  BY <1>1, <1>4 DEF Send, logVars
<1>5. ASSUME NEW a \in Alert, NEW d \in Dest, Post(a, d)
      PROVE  OrderInv'
  BY <1>1, <1>5 DEF Post, PostOk, PostTransportError, PostServerError, PostClientError,
                    SetDelivery, logVars
<1>6. CASE Tick \/ Close \/ Exit \/ UNCHANGED vars
  BY <1>1, <1>6 DEF Tick, Close, Exit, vars, logVars
<1> QED
  BY <1>3, <1>4, <1>5, <1>6 DEF Next

\* rotateIfNeeded: whichever of the renames and removals fail, in whatever
\* rotations, the files hold no line twice and none out of order.
THEOREM LogStaysInOrder == Spec => []LogInOrder
<1>1. Init => OrderInv
  <2> SUFFICES ASSUME Init PROVE OrderInv
    OBVIOUS
  <2>1. \A i \in 0 .. LogMaxBackups : i # 0 => i \in 1 .. LogMaxBackups
    BY AlerterAssumption
  <2>2. current = <<>> /\ \A i \in 1 .. LogMaxBackups : backups[i] = <<>>
    BY DEF Init
  <2>3. \A i \in 0 .. LogMaxBackups : Files(current)[i] = <<>>
    BY <2>1, <2>2 DEF Files, File
  <2>4. DOMAIN Files(current) = 0 .. LogMaxBackups /\ DOMAIN <<>> = {}
    BY DEF Files
  <2> HIDE DEF Files
  <2> QED
    BY <2>3, <2>4 DEF OrderInv, Ordered
<1>2. SendInv /\ OrderInv /\ [Next]_vars => OrderInv'
  BY OrderStep
<1>3. QED
  BY <1>1, <1>2, OrderInvSays, SendInvariant, PTL DEF Spec
=============================================================================
