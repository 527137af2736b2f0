-------------------------- MODULE CollectorProofs --------------------------
(***************************************************************************)
(* Theorems about Collector, for every size of the ring buffer and of the  *)
(* channel, every lifetime of the caches and any processes and containers. *)
(*                                                                         *)
(* EventsAccounted needs only that the queues are sequences, that the      *)
(* counters are numbers, and that an event in hand stays one while its     *)
(* container is looked up.  What the queues hold does not matter, so the   *)
(* invariant does not say it.                                              *)
(*                                                                         *)
(* The properties of the caches need what an entry says about the past:    *)
(* when its container could last have held the pid (EntryHolds), and why it *)
(* has no name (EntryNamed), which in turn depends on how old the list of  *)
(* Docker is (ListComplete).                                               *)
(***************************************************************************)
EXTENDS Collector, TLAPS

IsSequence(s) == \E S : s \in Seq(S)

Counting ==
    /\ IsSequence(ring) /\ IsSequence(chan)
    /\ stats \in [Counters -> Nat]
    /\ emitted \in Nat
    /\ hand # Empty => "info" \in DOMAIN hand

AccountInv == Counting /\ EventsAccounted

\* How many events readLoop holds, and how many have left the collector.
Held(h) == IF h = Empty THEN 0 ELSE 1

Settled(st) == st.filtered + st.consumed + st.kernelDrops + st.channelDrops

-----------------------------------------------------------------------------
\* What enters a queue and what leaves it is one element.
LEMMA Enqueue ==
    ASSUME NEW s, IsSequence(s), NEW x
    PROVE  IsSequence(Append(s, x)) /\ Len(s) \in Nat /\ Len(Append(s, x)) = Len(s) + 1
<1> PICK S : s \in Seq(S)
  BY DEF IsSequence
<1> DEFINE T == S \cup {x}
<1>1. s \in Seq(T)
  OBVIOUS
<1>2. Append(s, x) \in Seq(T) /\ Len(Append(s, x)) = Len(s) + 1 /\ Len(s) \in Nat
  BY <1>1
<1>3. QED
  BY <1>2 DEF IsSequence

LEMMA Dequeue ==
    ASSUME NEW s, IsSequence(s), s # <<>>
    PROVE  IsSequence(Tail(s)) /\ Len(s) \in Nat /\ Len(Tail(s)) + 1 = Len(s)
<1> PICK S : s \in Seq(S)
  BY DEF IsSequence
<1>1. Tail(s) \in Seq(S) /\ Len(s) \in Nat /\ Len(Tail(s)) + 1 = Len(s)
  OBVIOUS
<1>2. QED
  BY <1>1 DEF IsSequence

LEMMA Length == ASSUME NEW s, IsSequence(s) PROVE Len(s) \in Nat
  BY DEF IsSequence

\* A counter that goes up is still one, and leaves the others alone.
LEMMA CountUp ==
    ASSUME NEW st \in [Counters -> Nat], NEW c \in Counters, NEW m \in Nat, NEW new,
           new = [st EXCEPT ![c] = @ + m]
    PROVE  /\ new \in [Counters -> Nat] /\ new[c] = st[c] + m
           /\ \A d \in Counters \ {c} : new[d] = st[d]
  OBVIOUS

\* The misses that enrichment counts are no losses.
LEMMA EnrichedCounts ==
    ASSUME NEW st \in [Counters -> Nat], NEW new \in Enriched(st)
    PROVE  /\ new \in [Counters -> Nat]
           /\ \A c \in {"filtered", "consumed", "kernelDrops", "channelDrops"} : new[c] = st[c]
<1>1. PICK m \in {0, 1} : new = [st EXCEPT !.enrichMiss = @ + m]
  BY DEF Enriched
<1>2. /\ m \in Nat
      /\ {"enrichMiss", "filtered", "consumed", "kernelDrops", "channelDrops"} \subseteq Counters
  BY DEF Counters
<1>3. new \in [Counters -> Nat] /\ \A d \in Counters \ {"enrichMiss"} : new[d] = st[d]
  BY <1>1, <1>2, CountUp
<1>4. QED
  BY <1>2, <1>3

LEMMA SettledSum ==
    ASSUME NEW st \in [Counters -> Nat], NEW x \in Nat
    PROVE  /\ Settled(st) \in Nat
           /\ x + st.filtered + st.consumed + st.kernelDrops + st.channelDrops = x + Settled(st)
<1>1. {"filtered", "consumed", "kernelDrops", "channelDrops"} \subseteq Counters
  BY DEF Counters
<1>2. st.filtered \in Nat /\ st.consumed \in Nat /\ st.kernelDrops \in Nat /\ st.channelDrops \in Nat
  BY <1>1
<1>3. QED
  BY <1>2 DEF Settled

-----------------------------------------------------------------------------
LEMMA AccountInit == Init => AccountInv
<1> SUFFICES ASSUME Init PROVE AccountInv
  OBVIOUS
<1>1. IsSequence(<<>>) /\ Len(<<>>) = 0
  <2>1. <<>> \in Seq(Nat) /\ Len(<<>>) = 0
    OBVIOUS
  <2>2. QED
    BY <2>1 DEF IsSequence
<1>2. QED
  BY <1>1 DEF Init, AccountInv, Counting, EventsAccounted, Counters

LEMMA Shift == \A e, e1, x1 \in Nat : e1 + e = e + x1 => e1 = x1
  OBVIOUS

\* A step that brings in as many events as it puts somewhere keeps the account.
LEMMA Balance ==
    ASSUME AccountInv, Counting',
           emitted' + Len(ring) + Held(hand) + Len(chan) + Settled(stats)
               = emitted + Len(ring') + Held(hand') + Len(chan') + Settled(stats')
    PROVE  AccountInv'
<1>1. /\ Len(ring) \in Nat /\ Len(chan) \in Nat /\ Len(ring') \in Nat /\ Len(chan') \in Nat
      /\ emitted \in Nat /\ emitted' \in Nat
  BY Length DEF AccountInv, Counting
<1>2. Settled(stats) \in Nat /\ Settled(stats') \in Nat
  BY SettledSum DEF AccountInv, Counting
<1>3. Held(hand) \in Nat /\ Held(hand') \in Nat
  BY DEF Held
<1>4. emitted = Len(ring) + Held(hand) + Len(chan) + Settled(stats)
  <2>1. Len(ring) + Held(hand) + Len(chan) \in Nat
    BY <1>1, <1>3
  <2>2. QED
    BY <2>1, SettledSum DEF AccountInv, Counting, EventsAccounted, Held
<1>5. EventsAccounted'
  <2>1. emitted' = Len(ring') + Held(hand') + Len(chan') + Settled(stats')
    <3> DEFINE a == Len(ring)  b == Held(hand)  c == Len(chan)  d == Settled(stats)
               a1 == Len(ring') b1 == Held(hand') c1 == Len(chan') d1 == Settled(stats')
    <3>1. emitted' + a + b + c + d = emitted + a1 + b1 + c1 + d1
      OBVIOUS
    <3>2. /\ a \in Nat /\ b \in Nat /\ c \in Nat /\ d \in Nat /\ emitted \in Nat
          /\ a1 \in Nat /\ b1 \in Nat /\ c1 \in Nat /\ d1 \in Nat /\ emitted' \in Nat
      BY <1>1, <1>2, <1>3
    <3>3. emitted = a + b + c + d
      BY <1>4
    <3> HIDE DEF a, b, c, d, a1, b1, c1, d1
    <3> DEFINE now == a + b + c + d  then == a1 + b1 + c1 + d1
    <3>4. now \in Nat /\ then \in Nat
      BY <3>2
    <3>5. emitted' + a + b + c + d = emitted' + now /\ emitted + a1 + b1 + c1 + d1 = emitted + then
      BY <3>2
    <3>6. emitted = now
      BY <3>3
    <3> HIDE DEF now, then
    <3>7. emitted' + emitted = emitted + then
      BY <3>1, <3>5, <3>6
    <3>8. emitted' = then
      BY <3>2, <3>4, <3>7, Shift
    <3>9. QED
      BY <3>8 DEF then, a1, b1, c1, d1
  <2>2. Len(ring') + Held(hand') + Len(chan') \in Nat
    BY <1>1, <1>3
  <2>3. QED
    BY <2>1, <2>2, SettledSum DEF Counting, EventsAccounted, Held
<1>6. QED
  BY <1>5 DEF AccountInv

\* An event counted by c has left the collector.
LEMMA SettleOne ==
    ASSUME NEW c \in {"filtered", "consumed", "kernelDrops", "channelDrops"},
           stats \in [Counters -> Nat], Count(c)
    PROVE  stats' \in [Counters -> Nat] /\ Settled(stats) \in Nat /\ Settled(stats') = Settled(stats) + 1
  BY DEF Count, Settled, Counters

LEMMA AccountStep == AccountInv /\ [Next]_vars => AccountInv'
<1> SUFFICES ASSUME AccountInv, [Next]_vars PROVE AccountInv'
  OBVIOUS
<1>0. /\ IsSequence(ring) /\ IsSequence(chan) /\ Len(ring) \in Nat /\ Len(chan) \in Nat
      /\ stats \in [Counters -> Nat] /\ emitted \in Nat
      /\ hand # Empty => "info" \in DOMAIN hand
      /\ Held(hand) \in Nat /\ Settled(stats) \in Nat
  BY Length, SettledSum DEF AccountInv, Counting, Held
<1>1. ASSUME NEW pid \in Pid, NEW s \in Syscall, TraceSubmit(pid, s) PROVE AccountInv'
  <2>1. emitted' = emitted + 1 /\ UNCHANGED <<hand, chan, stats>>
    BY <1>1 DEF TraceSubmit, Trace
  <2>2. IsSequence(ring') /\ Len(ring') = Len(ring) + 1
    BY <1>0, <1>1, Enqueue DEF TraceSubmit
  <2>3. Held(hand') = Held(hand) /\ Settled(stats') = Settled(stats)
    BY <2>1 DEF Held, Settled
  <2>4. Counting'
    BY <1>0, <2>1, <2>2 DEF Counting
  <2>5. QED
    BY <1>0, <2>1, <2>2, <2>3, <2>4, Balance
<1>2. ASSUME NEW pid \in Pid, NEW s \in Syscall, TraceDrop(pid, s) PROVE AccountInv'
  <2>1. emitted' = emitted + 1 /\ UNCHANGED <<hand, chan, ring>> /\ Count("kernelDrops")
    BY <1>2 DEF TraceDrop, Trace
  <2>2. stats' \in [Counters -> Nat] /\ Settled(stats') = Settled(stats) + 1
    BY <1>0, <2>1, SettleOne
  <2>3. Held(hand') = Held(hand)
    BY <2>1 DEF Held
  <2>4. Counting'
    BY <1>0, <2>1, <2>2 DEF Counting
  <2>5. QED
    BY <1>0, <2>1, <2>2, <2>3, <2>4, Balance
<1>3. CASE Read
  <2>1. hand = Empty /\ UNCHANGED <<emitted, chan, stats>> /\ ring' = Tail(ring) /\ ring # <<>>
    BY <1>3 DEF Read, ReadStep
  <2>2. hand' # Empty /\ "info" \in DOMAIN hand'
    BY <1>3 DEF Read, Empty
  <2>3. IsSequence(ring') /\ Len(ring') + 1 = Len(ring) /\ Len(ring') \in Nat
    BY <1>0, <2>1, Dequeue, Length
  <2>4. Held(hand) = 0 /\ Held(hand') = 1 /\ Settled(stats') = Settled(stats)
    BY <2>1, <2>2 DEF Held, Settled
  <2>5. Counting'
    BY <1>0, <2>1, <2>2, <2>3 DEF Counting
  <2>6. QED
    BY <1>0, <2>1, <2>3, <2>4, <2>5, Balance
<1>4. CASE Resolve
  <2>1. hand # Empty /\ UNCHANGED <<ring, emitted, chan, stats>>
    BY <1>4 DEF Resolve, ReadStep
  <2>2. PICK info : hand' = [hand EXCEPT !.info = info]
    BY <1>4 DEF Resolve, ResolveCached, ResolveFromProc
  <2>3. "info" \in DOMAIN hand' /\ hand' # Empty
    BY <1>0, <2>1, <2>2 DEF Empty
  <2>4. Held(hand') = Held(hand) /\ Settled(stats') = Settled(stats)
    BY <2>1, <2>3 DEF Held, Settled
  <2>5. Counting'
    BY <1>0, <2>1, <2>3 DEF Counting
  <2>6. QED
    BY <1>0, <2>1, <2>4, <2>5, Balance
<1>5. CASE Filter
  <2>1. hand # Empty /\ hand' = Empty /\ UNCHANGED <<ring, emitted, chan>> /\ Count("filtered")
    BY <1>5 DEF Filter, ReadStep
  <2>2. stats' \in [Counters -> Nat] /\ Settled(stats') = Settled(stats) + 1
    BY <1>0, <2>1, SettleOne
  <2>3. Held(hand) = 1 /\ Held(hand') = 0
    BY <2>1 DEF Held
  <2>4. Counting'
    BY <1>0, <2>1, <2>2 DEF Counting
  <2>5. QED
    BY <1>0, <2>1, <2>2, <2>3, <2>4, Balance
<1>6. CASE Deliver
  <2>1. hand # Empty /\ hand' = Empty /\ UNCHANGED <<ring, emitted>>
    BY <1>6 DEF Deliver, ReadStep
  <2>2. Held(hand) = 1 /\ Held(hand') = 0
    BY <2>1 DEF Held
  <2>3. CASE Len(chan) < ChanSize
    <3>1. chan' = Append(chan, Outgoing) /\ stats' \in Enriched(stats)
      BY <1>6, <2>3 DEF Deliver
    <3>2. IsSequence(chan') /\ Len(chan') = Len(chan) + 1
      BY <1>0, <3>1, Enqueue
    <3>3. stats' \in [Counters -> Nat] /\ Settled(stats') = Settled(stats)
      BY <1>0, <3>1, EnrichedCounts DEF Settled
    <3>4. Counting'
      BY <1>0, <2>1, <3>2, <3>3 DEF Counting
    <3>5. QED
      BY <1>0, <2>1, <2>2, <3>2, <3>3, <3>4, Balance
  <2>4. CASE ~(Len(chan) < ChanSize)
    <3> DEFINE st == [stats EXCEPT !.channelDrops = @ + 1]
    <3>1. chan' = chan /\ stats' \in Enriched(st)
      BY <1>6, <2>4 DEF Deliver
    <3>2. st \in [Counters -> Nat] /\ Settled(st) = Settled(stats) + 1
      <4>1. /\ "channelDrops" \in Counters
            /\ {"filtered", "consumed", "kernelDrops"} \subseteq Counters \ {"channelDrops"}
        BY DEF Counters
      <4>2. /\ st \in [Counters -> Nat] /\ st.channelDrops = stats.channelDrops + 1
            /\ \A d \in Counters \ {"channelDrops"} : st[d] = stats[d]
        BY <1>0, <4>1, CountUp
      <4> HIDE DEF st
      <4>3. /\ stats.filtered \in Nat /\ stats.consumed \in Nat /\ stats.kernelDrops \in Nat
            /\ stats.channelDrops \in Nat
            /\ st.filtered = stats.filtered /\ st.consumed = stats.consumed
            /\ st.kernelDrops = stats.kernelDrops
        BY <1>0, <4>1, <4>2
      <4>4. QED
        BY <4>2, <4>3 DEF Settled
    <3> HIDE DEF st
    <3>3. stats' \in [Counters -> Nat] /\ Settled(stats') = Settled(stats) + 1
      BY <3>1, <3>2, EnrichedCounts DEF Settled
    <3>4. Counting'
      BY <1>0, <2>1, <3>1, <3>3 DEF Counting
    <3>5. QED
      BY <1>0, <2>1, <2>2, <3>1, <3>3, <3>4, Balance
  <2>5. QED
    BY <2>3, <2>4
<1>7. CASE Consume
  <2>1. /\ UNCHANGED <<ring, emitted, hand>> /\ chan # <<>> /\ chan' = Tail(chan)
        /\ Count("consumed")
    BY <1>7 DEF Consume, kernelVars
  <2>2. IsSequence(chan') /\ Len(chan') + 1 = Len(chan) /\ Len(chan') \in Nat
    BY <1>0, <2>1, Dequeue, Length
  <2>3. stats' \in [Counters -> Nat] /\ Settled(stats') = Settled(stats) + 1
    BY <1>0, <2>1, SettleOne
  <2>4. Held(hand') = Held(hand)
    BY <2>1 DEF Held
  <2>5. Counting'
    BY <1>0, <2>1, <2>2, <2>3 DEF Counting
  <2>6. QED
    BY <1>0, <2>1, <2>2, <2>3, <2>4, <2>5, Balance
<1>8. ASSUME \/ Tick \/ Evict \/ DockerChanges \/ Stop \/ ReadClosed \/ UNCHANGED vars
             \/ \E c \in Container : StartContainer(c)
             \/ \E pid \in Pid : ExitProcess(pid) \/ \E place \in Place : Spawn(pid, place)
      PROVE  AccountInv'
  <2>1. UNCHANGED <<ring, emitted, chan, stats, hand>>
    BY <1>8 DEF Tick, Evict, DockerChanges, Stop, ReadClosed, ReadStep, vars, kernelVars, StartContainer,
                ExitProcess, Spawn
  <2>2. QED
    BY <2>1 DEF AccountInv, Counting, EventsAccounted
<1>9. QED
  BY <1>1, <1>2, <1>3, <1>4, <1>5, <1>6, <1>7, <1>8 DEF Next, ReadLoop

\* However full the ring buffer and the channel are, and however readLoop, the
\* event loop and Stop interleave, no traced system call disappears: it is
\* queued, in hand, filtered, consumed, or in a drop counter.
THEOREM NoEventUncounted == Spec => []EventsAccounted
<1>1. AccountInv => EventsAccounted
  BY DEF AccountInv
<1>2. QED
  BY <1>1, AccountInit, AccountStep, PTL DEF Spec
-----------------------------------------------------------------------------
(* The cache of the mapper and the list of the docker enricher, against    *)
(* the processes and the containers as they are.                           *)

\* What a record's call can be.
Call == Syscall \cup {[s EXCEPT !.path = left.path] : s \in Syscall, left \in Syscall}

ContainerInfo == [known : {TRUE}, in : Container, named : BOOLEAN, at : Nat]

\* The pid in hand, the times and the entries of the two caches.
MapperTypes ==
    /\ clock \in Nat \ {0} /\ nextEvict \in Nat
    /\ clock <= nextEvict /\ nextEvict <= clock + EvictEvery
    /\ ring \in Seq([pid : Pid, call : Call])
    /\ hand # Empty => {"ev", "info"} \subseteq DOMAIN hand /\ hand.ev.pid \in Pid
    /\ proc \in [Pid -> [in : {None, "host"} \cup Container, since : Nat]]
    /\ running \in [Container -> Nat]
    /\ cache \in [Pid -> {Unresolved, HostInfo} \cup ContainerInfo]
    /\ docker \in [list : SUBSET Container, lastSync : Nat]
    /\ docker.lastSync <= clock
    /\ dockerUp # None => dockerUp \in Nat

\* A process runs in a container that was started.
InStarted == \A pid \in Pid : proc[pid].in \in Container => running[proc[pid].in] # 0

\* An entry is not older than the next eviction allows, and its process is
\* still there unless the one that has the pid came later.
EntryHolds(pid) ==
    cache[pid].in \in Container =>
        /\ cache[pid].at <= clock
        /\ nextEvict - cache[pid].at <= TTL + EvictEvery
        /\ \/ proc[pid] = Gone \/ proc[pid].in = cache[pid].in
           \/ proc[pid].since >= cache[pid].at

\* A container without its name was looked up soon after it started, or soon
\* after Docker began to answer.
EntryNamed(pid) ==
    cache[pid].in \in Container =>
        /\ running[cache[pid].in] # 0
        /\ (~cache[pid].named /\ dockerUp # None) =>
              \/ cache[pid].at < running[cache[pid].in] + DockerTTL
              \/ cache[pid].at < dockerUp + DockerTTL

\* The list has every container that was there when it was made, if Docker has
\* answered since before then.
ListComplete ==
    dockerUp # None /\ docker.lastSync > dockerUp =>
        \A c \in Container :
            running[c] # 0 /\ docker.lastSync > running[c] => c \in docker.list

MapperInv ==
    /\ MapperTypes /\ InStarted /\ ListComplete
    /\ \A pid \in Pid : EntryHolds(pid) /\ EntryNamed(pid)

\* An entry that names a container is no other answer.
LEMMA EntryShape ==
    ASSUME MapperTypes, NEW pid \in Pid, cache[pid].in \in Container
    PROVE  cache[pid] \in ContainerInfo /\ cache[pid] # HostInfo /\ cache[pid].known
<1>1. cache[pid] \in {Unresolved, HostInfo} \cup ContainerInfo
  BY DEF MapperTypes
<1>2. Unresolved.in \notin Container /\ HostInfo.in \notin Container
  BY CollectorAssumption DEF Unresolved, HostInfo
<1>3. cache[pid] \in ContainerInfo /\ cache[pid] # HostInfo
  BY <1>1, <1>2
<1>4. cache[pid].known = TRUE
  BY <1>3 DEF ContainerInfo
<1>5. QED
  BY <1>3, <1>4

\* Nothing is remembered at the start.
LEMMA MapperInit == Init => MapperInv
<1> SUFFICES ASSUME Init PROVE MapperInv
  OBVIOUS
<1>1. Unresolved.in \notin Container /\ Gone.in \notin Container
  BY CollectorAssumption DEF Unresolved, Gone
<1>2. MapperTypes
  <2>1. /\ clock \in Nat \ {0} /\ nextEvict \in Nat
        /\ clock <= nextEvict /\ nextEvict <= clock + EvictEvery
        /\ dockerUp \in Nat
    BY CollectorAssumption DEF Init, Start
  <2>2. ring \in Seq([pid : Pid, call : Call]) /\ hand = Empty
    BY DEF Init
  <2>3. Gone \in [in : {None, "host"} \cup Container, since : Nat]
    BY DEF Gone
  <2>4. proc \in [Pid -> [in : {None, "host"} \cup Container, since : Nat]]
    BY <2>3 DEF Init
  <2>5. running \in [Container -> Nat] /\ cache \in [Pid -> {Unresolved, HostInfo} \cup ContainerInfo]
    BY DEF Init
  <2>6. docker \in [list : SUBSET Container, lastSync : Nat] /\ docker.lastSync = 0
    BY DEF Init
  <2>7. QED
    BY <2>1, <2>2, <2>4, <2>5, <2>6 DEF MapperTypes
<1>3. InStarted
  BY <1>1 DEF Init, InStarted
<1>4. ListComplete
  BY CollectorAssumption DEF Init, ListComplete, Start
<1>5. \A pid \in Pid : EntryHolds(pid) /\ EntryNamed(pid)
  BY <1>1 DEF Init, EntryHolds, EntryNamed
<1>6. QED
  BY <1>2, <1>3, <1>4, <1>5 DEF MapperInv

-----------------------------------------------------------------------------
\* Entries age, and the ticker waits for nobody.
LEMMA MapperTick == ASSUME MapperInv, Tick PROVE MapperInv'
<1>0. /\ clock \in Nat \ {0} /\ nextEvict \in Nat /\ EvictEvery \in Nat
      /\ clock <= nextEvict /\ nextEvict <= clock + EvictEvery
      /\ docker.lastSync \in Nat /\ docker.lastSync <= clock
  BY CollectorAssumption DEF MapperInv, MapperTypes
<1>1. /\ clock < nextEvict /\ clock' = clock + 1
      /\ UNCHANGED <<proc, running, dockerUp, ring, cache, docker, nextEvict, hand>>
  BY DEF Tick, kernelVars, mapperVars
<1>2. /\ clock' \in Nat \ {0} /\ clock' <= nextEvict' /\ nextEvict' <= clock' + EvictEvery
      /\ docker'.lastSync <= clock'
  BY <1>0, <1>1
<1>3. MapperTypes'
  BY <1>1, <1>2 DEF MapperInv, MapperTypes
<1>4. ASSUME NEW pid \in Pid PROVE EntryHolds(pid)' /\ EntryNamed(pid)'
  <2>1. cache[pid].in \in Container => cache[pid].at \in Nat
    BY EntryShape DEF MapperInv, ContainerInfo
  <2>2. EntryHolds(pid)'
    BY <1>0, <1>1, <2>1 DEF MapperInv, EntryHolds
  <2>3. EntryNamed(pid)'
    BY <1>1 DEF MapperInv, EntryNamed
  <2>4. QED
    BY <2>2, <2>3
<1>5. InStarted' /\ ListComplete'
  BY <1>1 DEF MapperInv, InStarted, ListComplete
<1>6. QED
  BY <1>3, <1>4, <1>5 DEF MapperInv

\* What evictLoop leaves is younger than the TTL.
LEMMA MapperEvict == ASSUME MapperInv, Evict PROVE MapperInv'
<1>0. /\ clock \in Nat \ {0} /\ nextEvict \in Nat /\ EvictEvery \in Nat /\ TTL \in Nat
      /\ cache \in [Pid -> {Unresolved, HostInfo} \cup ContainerInfo]
  BY CollectorAssumption DEF MapperInv, MapperTypes
<1>1. /\ clock = nextEvict /\ nextEvict' = nextEvict + EvictEvery
      /\ cache' = [pid \in Pid |-> IF expired(cache[pid]) THEN Unresolved ELSE cache[pid]]
      /\ UNCHANGED <<clock, proc, running, dockerUp, ring, docker, hand>>
  BY DEF Evict, kernelVars
<1>2. /\ nextEvict' \in Nat /\ clock' <= nextEvict' /\ nextEvict' <= clock' + EvictEvery
  BY <1>0, <1>1
<1>3. cache' \in [Pid -> {Unresolved, HostInfo} \cup ContainerInfo]
  BY <1>0, <1>1
<1>4. MapperTypes'
  BY <1>1, <1>2, <1>3 DEF MapperInv, MapperTypes
<1>5. ASSUME NEW pid \in Pid PROVE EntryHolds(pid)' /\ EntryNamed(pid)'
  <2>1. CASE cache'[pid].in \in Container
    <3>1. Unresolved.in \notin Container
      BY CollectorAssumption DEF Unresolved
    <3>2. cache'[pid] = cache[pid] /\ ~expired(cache[pid])
      BY <1>1, <2>1, <3>1
    <3>3. /\ cache[pid] \in ContainerInfo /\ cache[pid] # HostInfo /\ cache[pid].known
      BY <2>1, <3>2, EntryShape DEF MapperInv
    <3>4. cache[pid].at \in Nat /\ ~(clock - cache[pid].at > TTL)
      BY <3>2, <3>3 DEF expired, ContainerInfo
    <3>5. nextEvict' - cache[pid].at <= TTL + EvictEvery
      BY <1>0, <1>1, <3>4
    <3>6. EntryHolds(pid)'
      BY <1>1, <2>1, <3>2, <3>5 DEF MapperInv, EntryHolds
    <3>7. EntryNamed(pid)'
      BY <1>1, <2>1, <3>2 DEF MapperInv, EntryNamed
    <3>8. QED
      BY <3>6, <3>7
  <2>2. CASE cache'[pid].in \notin Container
    BY <2>2 DEF EntryHolds, EntryNamed
  <2>3. QED
    BY <2>1, <2>2
<1>6. InStarted' /\ ListComplete'
  BY <1>1 DEF MapperInv, InStarted, ListComplete
<1>7. QED
  BY <1>4, <1>5, <1>6 DEF MapperInv

\* Docker's answers start again: everything remembered is older.
LEMMA MapperDocker == ASSUME MapperInv, DockerChanges PROVE MapperInv'
<1>0. /\ clock \in Nat \ {0} /\ DockerTTL \in Nat \ {0}
      /\ docker.lastSync \in Nat /\ docker.lastSync <= clock
  BY CollectorAssumption DEF MapperInv, MapperTypes
<1>1. /\ dockerUp' = IF dockerUp = None THEN clock ELSE None
      /\ UNCHANGED <<clock, proc, running, ring, cache, docker, nextEvict, hand>>
  BY DEF DockerChanges, kernelVars, mapperVars
<1>2. dockerUp' # None => dockerUp' = clock
  BY <1>1
<1>3. MapperTypes'
  BY <1>0, <1>1, <1>2 DEF MapperInv, MapperTypes
<1>4. ListComplete'
  BY <1>0, <1>1, <1>2 DEF ListComplete
<1>5. ASSUME NEW pid \in Pid PROVE EntryHolds(pid)' /\ EntryNamed(pid)'
  <2>1. EntryHolds(pid)'
    BY <1>1 DEF MapperInv, EntryHolds
  <2>2. CASE cache[pid].in \in Container
    <3>1. cache[pid].at \in Nat /\ cache[pid].at <= clock
      BY <2>2, EntryShape DEF MapperInv, EntryHolds, ContainerInfo
    <3>2. dockerUp' # None => cache[pid].at < dockerUp' + DockerTTL
      BY <1>0, <1>2, <3>1
    <3>3. QED
      BY <1>1, <2>1, <2>2, <3>2 DEF MapperInv, EntryNamed
  <2>3. CASE cache[pid].in \notin Container
    BY <1>1, <2>1, <2>3 DEF EntryNamed
  <2>4. QED
    BY <2>2, <2>3
<1>6. InStarted'
  BY <1>1 DEF MapperInv, InStarted
<1>7. QED
  BY <1>3, <1>4, <1>5, <1>6 DEF MapperInv

\* A container that starts is in no list and in no entry yet.
LEMMA MapperStart == ASSUME MapperInv, NEW c \in Container, StartContainer(c) PROVE MapperInv'
<1>0. /\ clock \in Nat \ {0} /\ running \in [Container -> Nat]
      /\ docker.lastSync \in Nat /\ docker.lastSync <= clock
  BY DEF MapperInv, MapperTypes
<1>1. /\ running[c] = 0 /\ running' = [running EXCEPT ![c] = clock]
      /\ UNCHANGED <<clock, proc, dockerUp, ring, cache, docker, nextEvict, hand>>
  BY DEF StartContainer, kernelVars, mapperVars
<1>2. /\ running' \in [Container -> Nat] /\ running'[c] = clock
      /\ \A d \in Container : running[d] # 0 => running'[d] = running[d]
      /\ \A d \in Container : running'[d] # 0 => d = c \/ running'[d] = running[d]
  BY <1>0, <1>1
<1>3. MapperTypes'
  BY <1>1, <1>2 DEF MapperInv, MapperTypes
<1>4. InStarted'
  BY <1>1, <1>2 DEF MapperInv, InStarted
<1>5. ListComplete'
  BY <1>0, <1>1, <1>2 DEF MapperInv, ListComplete
<1>6. ASSUME NEW pid \in Pid PROVE EntryHolds(pid)' /\ EntryNamed(pid)'
  BY <1>1, <1>2 DEF MapperInv, EntryHolds, EntryNamed
<1>7. QED
  BY <1>3, <1>4, <1>5, <1>6 DEF MapperInv

\* A new holder of a pid is younger than what the cache says of it.
LEMMA MapperProc ==
    ASSUME MapperInv, NEW p \in Pid,
           ExitProcess(p) \/ \E place \in Place : Spawn(p, place)
    PROVE  MapperInv'
<1>0. /\ clock \in Nat \ {0}
      /\ proc \in [Pid -> [in : {None, "host"} \cup Container, since : Nat]]
  BY DEF MapperInv, MapperTypes
<1>1. UNCHANGED <<clock, running, dockerUp, ring, cache, docker, nextEvict, hand>>
  BY DEF ExitProcess, Spawn, kernelVars, mapperVars
<1>2. \/ proc' = [proc EXCEPT ![p] = Gone]
      \/ \E place \in Place : proc' = [proc EXCEPT ![p] = [in |-> place, since |-> clock]]
  BY DEF ExitProcess, Spawn
<1>3. PICK new \in [in : {None, "host"} \cup Container, since : Nat] :
         /\ proc' = [proc EXCEPT ![p] = new]
         /\ new = Gone \/ (new.in \in Place /\ new.since = clock)
  <2>1. Gone \in [in : {None, "host"} \cup Container, since : Nat]
    BY DEF Gone
  <2>2. \A place \in Place :
           /\ [in |-> place, since |-> clock] \in [in : {None, "host"} \cup Container, since : Nat]
           /\ [in |-> place, since |-> clock].in = place
           /\ [in |-> place, since |-> clock].since = clock
    BY <1>0 DEF Place
  <2>3. QED
    BY <1>2, <2>1, <2>2
<1>4. /\ proc' \in [Pid -> [in : {None, "host"} \cup Container, since : Nat]]
      /\ proc'[p] = new /\ \A q \in Pid : q # p => proc'[q] = proc[q]
  BY <1>0, <1>3
<1>5. MapperTypes'
  BY <1>1, <1>4 DEF MapperInv, MapperTypes
<1>6. new.in \in Container => running[new.in] # 0
  BY <1>3, CollectorAssumption DEF Gone, Place
<1>7. InStarted'
  BY <1>1, <1>4, <1>6 DEF MapperInv, InStarted
<1>8. ListComplete'
  BY <1>1 DEF MapperInv, ListComplete
<1>9. ASSUME NEW pid \in Pid PROVE EntryHolds(pid)' /\ EntryNamed(pid)'
  <2>1. EntryNamed(pid)'
    BY <1>1 DEF MapperInv, EntryNamed
  <2>2. EntryHolds(pid)'
    <3>1. CASE pid # p
      BY <1>1, <1>4, <3>1 DEF MapperInv, EntryHolds
    <3>2. CASE pid = p
      <4>1. cache[pid].in \in Container => cache[pid].at <= clock /\ cache[pid].at \in Nat
        BY EntryShape DEF MapperInv, EntryHolds, ContainerInfo
      <4>2. cache[pid].in \in Container => new = Gone \/ new.since >= cache[pid].at
        BY <1>0, <1>3, <4>1
      <4>3. QED
        BY <1>1, <1>4, <3>2, <4>2 DEF MapperInv, EntryHolds
    <3>3. QED
      BY <3>1, <3>2
  <2>3. QED
    BY <2>1, <2>2
<1>10. QED
  BY <1>5, <1>7, <1>8, <1>9 DEF MapperInv

-----------------------------------------------------------------------------
\* What lookup leaves behind is a list of its time, and a container it lacks
\* has just started, or Docker has just begun to answer.
LEMMA Lookup ==
    ASSUME MapperInv
    PROVE  /\ AfterLookup \in [list : SUBSET Container, lastSync : Nat]
           /\ AfterLookup.lastSync <= clock
           /\ dockerUp # None /\ AfterLookup.lastSync > dockerUp =>
                 \A c \in Container :
                    running[c] # 0 /\ AfterLookup.lastSync > running[c] => c \in AfterLookup.list
           /\ \A c \in Container :
                 running[c] # 0 /\ dockerUp # None /\ c \notin AfterLookup.list =>
                    clock < running[c] + DockerTTL \/ clock < dockerUp + DockerTTL
<1>0. /\ clock \in Nat \ {0} /\ DockerTTL \in Nat \ {0} /\ running \in [Container -> Nat]
      /\ docker \in [list : SUBSET Container, lastSync : Nat] /\ docker.lastSync <= clock
      /\ dockerUp # None => dockerUp \in Nat
  BY CollectorAssumption DEF MapperInv, MapperTypes
<1>1. CASE fresh
  <2>1. AfterLookup = docker /\ clock - docker.lastSync < DockerTTL
    BY <1>1 DEF AfterLookup, fresh
  <2>2. ASSUME NEW c \in Container, running[c] # 0, dockerUp # None, c \notin docker.list
        PROVE  clock < running[c] + DockerTTL \/ clock < dockerUp + DockerTTL
    <3>1. docker.lastSync <= dockerUp \/ docker.lastSync <= running[c]
      BY <1>0, <2>2 DEF MapperInv, ListComplete
    <3>2. docker.lastSync \in Nat /\ running[c] \in Nat /\ dockerUp \in Nat
      BY <1>0, <2>2
    <3>3. QED
      BY <1>0, <2>1, <3>1, <3>2
  <2>3. QED
    BY <1>0, <2>1, <2>2 DEF MapperInv, ListComplete
<1>2. CASE ~fresh
  <2>1. /\ AfterLookup.lastSync = clock
        /\ AfterLookup.list = IF dockerUp = None THEN docker.list ELSE {c \in Container : running[c] # 0}
        /\ AfterLookup \in [list : SUBSET Container, lastSync : Nat]
    BY <1>0, <1>2 DEF AfterLookup, refresh
  <2>2. QED
    BY <1>0, <2>1
<1>3. QED
  BY <1>1, <1>2

\* What Resolve answers, remembers and asks Docker for.
ResolvesTo(info) ==
    LET p == hand.ev.pid IN
    /\ hand'.info = info
    /\ \/ cache[p].known /\ info = cache[p] /\ UNCHANGED <<cache, docker>>
       \/ /\ info = HostInfo
          /\ cache' = [cache EXCEPT ![p] = HostInfo] /\ UNCHANGED docker
       \/ /\ info \in ContainerInfo /\ info.in = proc[p].in /\ info.at = clock
          /\ ~info.named => proc[p].in \notin AfterLookup.list
          /\ cache' = [cache EXCEPT ![p] = info] /\ docker' = AfterLookup

LEMMA ResolveEffect ==
    ASSUME MapperInv, Resolve
    PROVE  /\ hand.ev.pid \in Pid
           /\ UNCHANGED <<clock, proc, running, dockerUp, nextEvict, ring>>
           /\ hand' # Empty /\ hand'.ev = hand.ev /\ {"ev", "info"} \subseteq DOMAIN hand'
           /\ \E info : ResolvesTo(info)
<1> DEFINE p == hand.ev.pid
<1>0. /\ hand # Empty /\ {"ev", "info"} \subseteq DOMAIN hand /\ p \in Pid
      /\ clock \in Nat
  BY DEF Resolve, MapperInv, MapperTypes
<1>1. UNCHANGED <<clock, proc, running, dockerUp, nextEvict, ring>>
  BY DEF Resolve, ReadStep
<1>2. ASSUME NEW info, hand' = [hand EXCEPT !.info = info]
      PROVE  /\ hand'.info = info /\ hand'.ev = hand.ev /\ hand' # Empty
             /\ {"ev", "info"} \subseteq DOMAIN hand'
  <2>1. DOMAIN hand' = DOMAIN hand /\ hand'.info = info /\ hand'.ev = hand.ev
    BY <1>0, <1>2
  <2>2. "info" \notin DOMAIN Empty
    BY DEF Empty
  <2>3. QED
    BY <1>0, <2>1, <2>2
<1>3. CASE ResolveCached(p)
  BY <1>0, <1>1, <1>2, <1>3 DEF ResolveCached, ResolvesTo
<1>4. CASE ResolveFromProc(p)
  <2> DEFINE info == resolveFromProc(p)
  <2>1. /\ cache' = [cache EXCEPT ![p] = info] /\ hand' = [hand EXCEPT !.info = info]
        /\ docker' = IF info = HostInfo THEN docker ELSE AfterLookup
    BY <1>4 DEF ResolveFromProc
  <2>2. \/ info = HostInfo
        \/ /\ info \in ContainerInfo /\ info # HostInfo
           /\ info.in = proc[p].in /\ info.at = clock
           /\ ~info.named => proc[p].in \notin AfterLookup.list
    <3>1. CASE proc[p].in \notin Container
      BY <3>1 DEF resolveFromProc
    <3>2. CASE proc[p].in \in Container
      <4> DEFINE b == proc[p].in \in AfterLookup.list
      <4>1. info = [known |-> TRUE, in |-> proc[p].in, named |-> b, at |-> clock]
        BY <3>2 DEF resolveFromProc
      <4>2. b \in BOOLEAN
        OBVIOUS
      <4> HIDE DEF b
      <4>3. /\ info \in ContainerInfo /\ info.in = proc[p].in /\ info.at = clock
            /\ info.named = b
        BY <1>0, <3>2, <4>1, <4>2 DEF ContainerInfo
      <4>4. HostInfo.in \notin Container
        BY CollectorAssumption DEF HostInfo
      <4> HIDE DEF info
      <4>5. info # HostInfo
        BY <3>2, <4>3, <4>4
      <4>6. QED
        BY <4>3, <4>5 DEF b
    <3>3. QED
      BY <3>1, <3>2
  <2> HIDE DEF info
  <2>3. ResolvesTo(info)
    BY <1>2, <2>1, <2>2 DEF ResolvesTo
  <2>4. QED
    BY <1>0, <1>1, <1>2, <2>1, <2>3
<1>5. QED
  BY <1>3, <1>4 DEF Resolve

\* A new entry is as true as /proc and the list are.
LEMMA MapperResolve == ASSUME MapperInv, Resolve PROVE MapperInv'
<1> DEFINE p == hand.ev.pid
<1>0. /\ clock \in Nat \ {0} /\ nextEvict \in Nat /\ EvictEvery \in Nat /\ TTL \in Nat
      /\ nextEvict <= clock + EvictEvery
      /\ cache \in [Pid -> {Unresolved, HostInfo} \cup ContainerInfo]
  BY CollectorAssumption DEF MapperInv, MapperTypes
<1>1. /\ p \in Pid /\ UNCHANGED <<clock, proc, running, dockerUp, nextEvict, ring>>
      /\ hand' # Empty /\ hand'.ev = hand.ev /\ {"ev", "info"} \subseteq DOMAIN hand'
  BY ResolveEffect
<1>2. PICK info : ResolvesTo(info)
  BY ResolveEffect
<1>3. InStarted'
  BY <1>1 DEF MapperInv, InStarted
<1>4. CASE UNCHANGED <<cache, docker>>
  <2>1. MapperTypes' /\ ListComplete'
    BY <1>1, <1>4 DEF MapperInv, MapperTypes, ListComplete
  <2>2. \A pid \in Pid : EntryHolds(pid)' /\ EntryNamed(pid)'
    BY <1>1, <1>4 DEF MapperInv, EntryHolds, EntryNamed
  <2>3. QED
    BY <1>3, <2>1, <2>2 DEF MapperInv
<1>5. ASSUME cache' = [cache EXCEPT ![p] = info], info \in {HostInfo} \cup ContainerInfo,
             docker' \in [list : SUBSET Container, lastSync : Nat], docker'.lastSync <= clock
      PROVE  /\ MapperTypes' /\ cache'[p] = info
             /\ \A q \in Pid : q # p => cache'[q] = cache[q]
  <2>1. cache' \in [Pid -> {Unresolved, HostInfo} \cup ContainerInfo]
    BY <1>0, <1>1, <1>5
  <2>2. MapperTypes'
    BY <1>1, <1>5, <2>1 DEF MapperInv, MapperTypes
  <2>3. QED
    BY <1>0, <1>1, <1>5, <2>2
<1>6. CASE info = HostInfo /\ cache' = [cache EXCEPT ![p] = HostInfo] /\ UNCHANGED docker
  <2>1. docker' \in [list : SUBSET Container, lastSync : Nat] /\ docker'.lastSync <= clock
    BY <1>6 DEF MapperInv, MapperTypes
  <2>2. MapperTypes' /\ cache'[p] = HostInfo /\ \A q \in Pid : q # p => cache'[q] = cache[q]
    BY <1>5, <1>6, <2>1
  <2>3. ListComplete'
    BY <1>1, <1>6 DEF MapperInv, ListComplete
  <2>4. HostInfo.in \notin Container
    BY CollectorAssumption DEF HostInfo
  <2>5. \A pid \in Pid : EntryHolds(pid)' /\ EntryNamed(pid)'
    BY <1>1, <2>2, <2>4 DEF MapperInv, EntryHolds, EntryNamed
  <2>6. QED
    BY <1>3, <2>2, <2>3, <2>5 DEF MapperInv
<1>7. CASE /\ info \in ContainerInfo /\ info.in = proc[p].in /\ info.at = clock
           /\ ~info.named => proc[p].in \notin AfterLookup.list
           /\ cache' = [cache EXCEPT ![p] = info] /\ docker' = AfterLookup
  <2>1. docker' \in [list : SUBSET Container, lastSync : Nat] /\ docker'.lastSync <= clock
    BY <1>7, Lookup
  <2>2. MapperTypes' /\ cache'[p] = info /\ \A q \in Pid : q # p => cache'[q] = cache[q]
    BY <1>5, <1>7, <2>1
  <2>3. ListComplete'
    <3>1. dockerUp # None /\ AfterLookup.lastSync > dockerUp =>
             \A c \in Container :
                running[c] # 0 /\ AfterLookup.lastSync > running[c] => c \in AfterLookup.list
      BY Lookup
    <3>2. QED
      BY <1>1, <1>7, <3>1 DEF ListComplete
  <2>4. ASSUME NEW pid \in Pid, pid # p PROVE EntryHolds(pid)' /\ EntryNamed(pid)'
    BY <1>1, <2>2, <2>4 DEF MapperInv, EntryHolds, EntryNamed
  <2>5. ASSUME NEW pid \in Pid, pid = p PROVE EntryHolds(pid)'
    <3>1. nextEvict - clock <= TTL + EvictEvery /\ clock <= clock
      BY <1>0
    <3>2. QED
      BY <1>1, <1>7, <2>2, <2>5, <3>1 DEF EntryHolds
  <2>6. ASSUME NEW pid \in Pid, pid = p PROVE EntryNamed(pid)'
    <3>1. info.in \in Container /\ running[info.in] # 0
      BY <1>1, <1>7 DEF ContainerInfo, MapperInv, InStarted
    <3>2. ~info.named /\ dockerUp # None =>
             clock < running[info.in] + DockerTTL \/ clock < dockerUp + DockerTTL
      BY <1>7, <3>1, Lookup
    <3>3. QED
      BY <1>1, <1>7, <2>2, <2>6, <3>1, <3>2 DEF EntryNamed
  <2>7. \A pid \in Pid : EntryHolds(pid)' /\ EntryNamed(pid)'
    BY <2>4, <2>5, <2>6
  <2>8. QED
    BY <1>3, <2>2, <2>3, <2>7 DEF MapperInv
<1>8. QED
  BY <1>2, <1>4, <1>6, <1>7 DEF ResolvesTo

\* The rest of the collector leaves the mapper alone.
LEMMA MapperOther ==
    ASSUME MapperInv,
           UNCHANGED <<clock, proc, running, dockerUp, nextEvict, cache, docker>>,
           ring' \in Seq([pid : Pid, call : Call]),
           hand' # Empty => {"ev", "info"} \subseteq DOMAIN hand' /\ hand'.ev.pid \in Pid
    PROVE  MapperInv'
<1>1. MapperTypes'
  BY DEF MapperInv, MapperTypes
<1>2. InStarted' /\ ListComplete'
  BY DEF MapperInv, InStarted, ListComplete
<1>3. \A pid \in Pid : EntryHolds(pid)' /\ EntryNamed(pid)'
  BY DEF MapperInv, EntryHolds, EntryNamed
<1>4. QED
  BY <1>1, <1>2, <1>3 DEF MapperInv

LEMMA MapperStep == MapperInv /\ [Next]_vars => MapperInv'
<1> SUFFICES ASSUME MapperInv, [Next]_vars PROVE MapperInv'
  OBVIOUS
<1>0. /\ ring \in Seq([pid : Pid, call : Call])
      /\ hand # Empty => {"ev", "info"} \subseteq DOMAIN hand /\ hand.ev.pid \in Pid
  BY DEF MapperInv, MapperTypes
<1>1. ASSUME NEW p \in Pid, NEW s \in Syscall, TraceSubmit(p, s) PROVE MapperInv'
  <2>1. UNCHANGED <<clock, proc, running, dockerUp, nextEvict, cache, docker, hand>>
    BY <1>1 DEF TraceSubmit, Trace, mapperVars
  <2>2. PICK call \in Submitted(s) : ring' = Append(ring, [pid |-> p, call |-> call])
    BY <1>1 DEF TraceSubmit
  <2>3. call \in Call
    BY <2>2 DEF Submitted, Call
  <2> DEFINE r == [pid |-> p, call |-> call]
  <2>4. r \in [pid : Pid, call : Call]
    BY <2>3
  <2> HIDE DEF r
  <2>5. ring' \in Seq([pid : Pid, call : Call])
    <3> DEFINE S == [pid : Pid, call : Call]
    <3>1. r \in S /\ ring \in Seq(S) /\ ring' = Append(ring, r)
      BY <1>0, <2>2, <2>4 DEF r
    <3> HIDE DEF S
    <3>2. ring' \in Seq(S)
      BY <3>1
    <3>3. QED
      BY <3>2 DEF S
  <2>6. QED
    BY <1>0, <2>1, <2>5, MapperOther
<1>2. CASE Read
  <2>1. /\ UNCHANGED <<clock, proc, running, dockerUp, nextEvict, cache, docker>>
        /\ ring # <<>> /\ ring' = Tail(ring)
        /\ hand' = [busy |-> TRUE, ev |-> [Head(ring) EXCEPT !.call = Decoded(@)], info |-> Unresolved]
    BY <1>2 DEF Read, ReadStep, mapperVars
  <2>2. Head(ring) \in [pid : Pid, call : Call] /\ ring' \in Seq([pid : Pid, call : Call])
    <3> DEFINE S == [pid : Pid, call : Call]
    <3>1. ring \in Seq(S)
      BY <1>0
    <3> HIDE DEF S
    <3>2. Head(ring) \in S /\ ring' \in Seq(S)
      BY <2>1, <3>1
    <3>3. QED
      BY <3>2 DEF S
  <2>3. {"ev", "info"} \subseteq DOMAIN hand' /\ hand'.ev.pid = Head(ring).pid
    BY <2>1, <2>2
  <2>4. QED
    BY <2>1, <2>2, <2>3, MapperOther
<1>3. ASSUME \/ Filter \/ Deliver \/ ReadClosed \/ Consume \/ Stop \/ UNCHANGED vars
             \/ \E p \in Pid, s \in Syscall : TraceDrop(p, s)
      PROVE  MapperInv'
  <2>1. UNCHANGED <<clock, proc, running, dockerUp, nextEvict, cache, docker, ring>>
    BY <1>3 DEF Filter, Deliver, ReadClosed, Consume, Stop, TraceDrop, Trace, ReadStep, mapperVars,
                kernelVars, vars
  <2>2. hand' = Empty \/ hand' = hand
    BY <1>3 DEF Filter, Deliver, ReadClosed, Consume, Stop, TraceDrop, Trace, vars
  <2>3. QED
    BY <1>0, <2>1, <2>2, MapperOther
<1>4. QED
  BY <1>1, <1>2, <1>3, MapperTick, MapperEvict, MapperDocker, MapperStart, MapperProc, MapperResolve
     DEF Next, ReadLoop

\* In every reachable state the two caches are as old, and as wrong, as their
\* lifetimes allow.
THEOREM MapperInvariant == Spec => []MapperInv
  BY MapperInit, MapperStep, PTL DEF Spec

-----------------------------------------------------------------------------
(* What readLoop does with an event, as action properties.                 *)

\* Only Resolve gives an event in hand its container.
LEMMA ResolvingStep ==
    ASSUME MapperInv, [Next]_vars, Resolving
    PROVE  Resolve
<1>1. CASE UNCHANGED hand
  BY <1>1 DEF Resolving
<1>2. CASE Read \/ Filter \/ Deliver
  BY <1>2 DEF Read, Filter, Deliver, Resolving
<1>3. CASE \/ Tick \/ Evict \/ DockerChanges \/ ReadClosed \/ Consume \/ Stop \/ UNCHANGED vars
           \/ \E c \in Container : StartContainer(c)
           \/ \E pid \in Pid : ExitProcess(pid) \/ \E place \in Place : Spawn(pid, place)
           \/ \E pid \in Pid, s \in Syscall : TraceSubmit(pid, s) \/ TraceDrop(pid, s)
  BY <1>1, <1>3 DEF Tick, Evict, DockerChanges, ReadClosed, Consume, Stop, vars, StartContainer,
                    ExitProcess, Spawn, TraceSubmit, TraceDrop, Trace
<1>4. QED
  BY <1>2, <1>3 DEF Next, ReadLoop

\* Mapper.Resolve and evictLoop: an answer that names a container the process
\* does not run in is given only within TTL and one period of the ticker of the
\* start of that process, however often the entry is hit.
THEOREM StaleAnswersExpire == Spec => ContainerAnswerExpires
<1>1. MapperInv /\ [Next]_vars =>
        [Resolving /\ Holder # Gone /\ Answer.in \in Container \ {Holder.in}
          => clock - Holder.since <= TTL + EvictEvery]_vars
  <2> SUFFICES ASSUME MapperInv, [Next]_vars, Resolving, Holder # Gone,
                      Answer.in \in Container \ {Holder.in}
               PROVE  clock - Holder.since <= TTL + EvictEvery
    OBVIOUS
  <2> DEFINE p == hand.ev.pid
  <2>1. Resolve
    BY ResolvingStep
  <2>2. p \in Pid
    BY <2>1, ResolveEffect
  <2>3. PICK info : ResolvesTo(info)
    BY <2>1, ResolveEffect
  <2>4. info.in \in Container /\ info.in # proc[p].in /\ proc[p] # Gone
    BY <2>3 DEF ResolvesTo, Answer, Holder
  <2>5. HostInfo.in \notin Container
    BY CollectorAssumption DEF HostInfo
  <2>6. info = cache[p]
    BY <2>3, <2>4, <2>5 DEF ResolvesTo
  <2>7. cache[p].at \in Nat
    BY <2>2, <2>4, <2>6, EntryShape DEF MapperInv, ContainerInfo
  <2>8. nextEvict - cache[p].at <= TTL + EvictEvery /\ proc[p].since >= cache[p].at
    BY <2>2, <2>4, <2>6 DEF MapperInv, EntryHolds
  <2>9. /\ clock \in Nat /\ nextEvict \in Nat /\ clock <= nextEvict /\ proc[p].since \in Nat
        /\ TTL \in Nat /\ EvictEvery \in Nat
    BY <2>2, CollectorAssumption DEF MapperInv, MapperTypes
  <2>10. clock - proc[p].since <= TTL + EvictEvery
    BY <2>7, <2>8, <2>9
  <2>11. QED
    BY <2>10 DEF Holder
<1>2. QED
  BY <1>1, MapperInvariant, PTL DEF Spec, ContainerAnswerExpires

\* The later of two times.
LEMMA LaterTime ==
    ASSUME NEW a \in Nat, NEW b \in Nat
    PROVE  Max({a, b}) \in Nat /\ Max({a, b}) >= a /\ Max({a, b}) >= b
<1>1. \E x \in {a, b} : \A y \in {a, b} : x >= y
  OBVIOUS
<1>2. Max({a, b}) \in {a, b} /\ \A y \in {a, b} : Max({a, b}) >= y
  BY <1>1 DEF Max
<1>3. QED
  BY <1>2

\* dockerEnricher and Mapper.Resolve: while Docker answers, a container has its
\* short id for a name only until both caches have expired once.
THEOREM NamesSettle == Spec => NameSettles
<1>1. MapperInv /\ [Next]_vars =>
        [Resolving /\ Answer.in \in Container /\ dockerUp # None /\ ~Answer.named
          => clock - Max({running[Answer.in], dockerUp}) < DockerTTL + TTL + EvictEvery]_vars
  <2> SUFFICES ASSUME MapperInv, [Next]_vars, Resolving, Answer.in \in Container,
                      dockerUp # None, ~Answer.named
               PROVE  clock - Max({running[Answer.in], dockerUp}) < DockerTTL + TTL + EvictEvery
    OBVIOUS
  <2> DEFINE p == hand.ev.pid
  <2>1. Resolve
    BY ResolvingStep
  <2>2. p \in Pid
    BY <2>1, ResolveEffect
  <2>3. PICK info : ResolvesTo(info)
    BY <2>1, ResolveEffect
  <2>4. info = Answer /\ info.in \in Container /\ ~info.named
    BY <2>3 DEF ResolvesTo, Answer
  <2>5. HostInfo.in \notin Container
    BY CollectorAssumption DEF HostInfo
  <2>6. /\ clock \in Nat /\ nextEvict \in Nat /\ clock <= nextEvict
        /\ TTL \in Nat /\ EvictEvery \in Nat /\ DockerTTL \in Nat
        /\ running[info.in] \in Nat /\ dockerUp \in Nat
    BY <2>4, CollectorAssumption DEF MapperInv, MapperTypes
  <2>7. PICK at \in Nat : /\ clock - at <= TTL + EvictEvery
                          /\ at < running[info.in] + DockerTTL \/ at < dockerUp + DockerTTL
    <3>1. CASE info = cache[p]
      <4>1. cache[p].at \in Nat
        BY <2>2, <2>4, <3>1, EntryShape DEF MapperInv, ContainerInfo
      <4>2. nextEvict - cache[p].at <= TTL + EvictEvery
        BY <2>2, <2>4, <3>1 DEF MapperInv, EntryHolds
      <4>3. cache[p].at < running[info.in] + DockerTTL \/ cache[p].at < dockerUp + DockerTTL
        BY <2>2, <2>4, <3>1 DEF MapperInv, EntryNamed
      <4>4. clock - cache[p].at <= TTL + EvictEvery
        BY <2>6, <4>1, <4>2
      <4>5. QED
        BY <4>1, <4>3, <4>4
    <3>2. CASE info.in = proc[p].in /\ proc[p].in \notin AfterLookup.list
      <4>1. running[info.in] # 0
        BY <2>2, <2>4, <3>2 DEF MapperInv, InStarted
      <4>2. clock < running[info.in] + DockerTTL \/ clock < dockerUp + DockerTTL
        BY <2>4, <3>2, <4>1, Lookup
      <4>3. clock - clock <= TTL + EvictEvery
        BY <2>6
      <4>4. QED
        BY <2>6, <4>2, <4>3
    <3>3. QED
      BY <2>3, <2>4, <2>5, <3>1, <3>2 DEF ResolvesTo
  <2> DEFINE m == Max({running[info.in], dockerUp})
  <2>8. m \in Nat /\ m >= running[info.in] /\ m >= dockerUp
    BY <2>6, LaterTime
  <2> HIDE DEF m
  <2>9. clock - m < DockerTTL + TTL + EvictEvery
    BY <2>6, <2>7, <2>8
  <2>10. QED
    BY <2>4, <2>9 DEF m
<1>2. QED
  BY <1>1, MapperInvariant, PTL DEF Spec, NameSettles

\* readLoop: a ptrace, module or bpf event is discarded only because it comes
\* from the monitor itself, from the host while the host is not monitored, or
\* from a container that is not monitored.
THEOREM HighSignalsAreKept == Spec => HighSignalKept
<1>1. AccountInv /\ [Next]_vars =>
        [stats'.filtered # stats.filtered /\ hand.ev.call.type \in {"ptrace", "module", "bpf"}
          => IF hand.info = HostInfo THEN ~MonitorHost \/ hand.ev.pid = SelfPid
             ELSE ~IsMonitored(Name(hand.info))]_vars
  <2> SUFFICES ASSUME AccountInv, [Next]_vars, stats'.filtered # stats.filtered,
                      hand.ev.call.type \in {"ptrace", "module", "bpf"}
               PROVE  IF hand.info = HostInfo THEN ~MonitorHost \/ hand.ev.pid = SelfPid
                      ELSE ~IsMonitored(Name(hand.info))
    OBVIOUS
  <2>0. stats \in [Counters -> Nat] /\ "filtered" \in Counters
    BY DEF AccountInv, Counting, Counters
  <2>1. Filter
    <3>1. CASE UNCHANGED stats
      BY <3>1
    <3>2. ASSUME NEW c \in Counters \ {"filtered"}, Count(c) PROVE FALSE
      BY <2>0, <3>2 DEF Count
    <3>3. {"kernelDrops", "consumed"} \subseteq Counters \ {"filtered"}
      BY DEF Counters
    <3>4. CASE Consume \/ \E pid \in Pid, s \in Syscall : TraceDrop(pid, s)
      BY <3>2, <3>3, <3>4 DEF Consume, TraceDrop
    <3>5. CASE Deliver
      <4> DEFINE st == [stats EXCEPT !.channelDrops = @ + 1]
      <4>1. st \in [Counters -> Nat] /\ st.filtered = stats.filtered
        BY <2>0
      <4>2. stats' \in Enriched(stats) \/ stats' \in Enriched(st)
        BY <3>5 DEF Deliver
      <4> HIDE DEF st
      <4>3. stats'.filtered = stats.filtered
        BY <2>0, <4>1, <4>2, EnrichedCounts
      <4>4. QED
        BY <4>3
    <3>6. CASE \/ Tick \/ Evict \/ DockerChanges \/ ReadClosed \/ Stop \/ UNCHANGED vars
               \/ Read \/ Resolve
               \/ \E c \in Container : StartContainer(c)
               \/ \E pid \in Pid : ExitProcess(pid) \/ \E place \in Place : Spawn(pid, place)
               \/ \E pid \in Pid, s \in Syscall : TraceSubmit(pid, s)
      BY <3>1, <3>6 DEF Tick, Evict, DockerChanges, ReadClosed, Stop, vars, Read, Resolve,
                        StartContainer, ExitProcess, Spawn, TraceSubmit
    <3>7. QED
      BY <3>4, <3>5, <3>6 DEF Next, ReadLoop
  <2>2. ~Delivers(hand.ev, hand.info)
    BY <2>1 DEF Filter
  <2>3. hand.ev.pid # SelfPid => keep(hand.ev)
    BY DEF keep
  <2>4. hand.ev.call.type # "open"
    OBVIOUS
  <2>5. QED
    BY <2>2, <2>3, <2>4 DEF Delivers
<1>2. QED
  BY <1>1, AccountInit, AccountStep, PTL DEF Spec, HighSignalKept

=============================================================================
