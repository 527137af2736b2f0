----------------------------- MODULE Collector -----------------------------
(***************************************************************************)
(* From the kernel to the event loop: the tracepoints of ebpf/tracer.c,    *)
(* readLoop and the host filter of internal/collector, and the resolution  *)
(* of pids to containers in internal/container (mapper.go, docker.go).     *)
(*                                                                         *)
(* Processes come and go while their events wait in the ring buffer: what  *)
(* readLoop finds under a pid in /proc need not be the process that made   *)
(* the system call, and the mapper remembers what it found.                *)
(***************************************************************************)
EXTENDS Integers, Sequences, FiniteSets, SequencesExt, RawEvent

CONSTANTS
    Pid, SelfPid,         \* process ids; the monitor's own
    Container,            \* containers, by their names
    Syscall,              \* what processes do: [type, path]
    None,                 \* no information
    MonitorHost,          \* Config.MonitorHost
    Whitelist, Blacklist, \* Config.ContainerWhitelist, ContainerBlacklist
    RingSize, ChanSize,   \* records in the ring buffer, events in the channel
    TTL, EvictEvery,      \* of the mapper (5 min, 30 s in the code)
    DockerTTL,            \* of the docker enricher (30 s in the code)
    MaxEvents, MaxClock   \* bounds of the model

ASSUME CollectorAssumption ==
    /\ None \notin Container /\ "host" \notin Container
    /\ MonitorHost \in BOOLEAN
    /\ RingSize \in Nat \ {0} /\ ChanSize \in Nat \ {0}
    /\ TTL \in Nat \ {0} /\ EvictEvery \in Nat \ {0} /\ DockerTTL \in Nat \ {0}
    /\ MaxEvents \in Nat /\ MaxClock \in Nat

VARIABLES
    clock,
    proc,       \* /proc: per pid, where the process runs and since when
    running,    \* Docker: the containers, with the time of their start
    dockerUp,   \* Docker: when the socket last started to answer, None if it does not
    ring,       \* ring buffer: the submitted records
    emitted,    \* system calls traced so far
    cache,      \* Mapper.cache
    nextEvict,  \* evictLoop: when the ticker fires
    docker,     \* dockerEnricher: cache and lastSync
    hand,       \* readLoop: the event it is working on
    chan,       \* the events channel
    stats,      \* the counters of Stats, and what was filtered and consumed
    stage       \* "running", "stopping" (main has returned), "closed"

kernelVars == <<ring, emitted>>
mapperVars == <<cache, docker>>
vars == <<clock, proc, running, dockerUp, kernelVars, mapperVars, nextEvict, hand, chan, stats, stage>>

-----------------------------------------------------------------------------
(* The machine: processes, containers and time.                             *)

Gone == [in |-> None, since |-> 0]

\* "host" or a container.
Place == {"host"} \cup {c \in Container : running[c] # 0}

StartContainer(c) ==
    /\ running[c] = 0
    /\ running' = [running EXCEPT ![c] = clock]
    /\ UNCHANGED <<clock, proc, dockerUp, kernelVars, mapperVars, nextEvict, hand, chan, stats, stage>>

Spawn(pid, place) ==
    /\ proc[pid] = Gone
    /\ proc' = [proc EXCEPT ![pid] = [in |-> place, since |-> clock]]
    /\ UNCHANGED <<clock, running, dockerUp, kernelVars, mapperVars, nextEvict, hand, chan, stats, stage>>

ExitProcess(pid) ==
    /\ proc[pid] # Gone
    /\ proc' = [proc EXCEPT ![pid] = Gone]
    /\ UNCHANGED <<clock, running, dockerUp, kernelVars, mapperVars, nextEvict, hand, chan, stats, stage>>

DockerChanges ==
    /\ dockerUp' = IF dockerUp = None THEN clock ELSE None
    /\ UNCHANGED <<clock, proc, running, kernelVars, mapperVars, nextEvict, hand, chan, stats, stage>>

\* Time does not overtake the ticker of evictLoop.
Tick ==
    /\ clock < MaxClock /\ clock < nextEvict
    /\ clock' = clock + 1
    /\ UNCHANGED <<proc, running, dockerUp, kernelVars, mapperVars, nextEvict, hand, chan, stats, stage>>

-----------------------------------------------------------------------------
(* tracer.c: the programs at the tracepoints.                              *)

Count(counter) == stats' = [stats EXCEPT ![counter] = @ + 1]

Trace(pid, s) ==
    /\ proc[pid] # Gone /\ emitted < MaxEvents /\ stage = "running"
    /\ emitted' = emitted + 1
    /\ UNCHANGED <<clock, proc, running, dockerUp, mapperVars, nextEvict, hand, chan, stage>>

\* Only two programs write the path; the memory of a record is not cleared, so
\* that the others submit what an earlier record left there.
Submitted(s) ==
    IF s.type \in {"execve", "open"} THEN {s}
    ELSE {[s EXCEPT !.path = left.path] : left \in Syscall}

TraceSubmit(pid, s) ==
    /\ Trace(pid, s)
    /\ Len(ring) < RingSize
    /\ \E call \in Submitted(s) : ring' = Append(ring, [pid |-> pid, call |-> call])
    /\ UNCHANGED stats

\* bpf_ringbuf_reserve fails: count_drop.
TraceDrop(pid, s) ==
    /\ Trace(pid, s)
    /\ Len(ring) = RingSize
    /\ Count("kernelDrops")
    /\ UNCHANGED ring

-----------------------------------------------------------------------------
(* Mapper.Resolve and dockerEnricher.lookup.                               *)

Unresolved == [known |-> FALSE, in |-> None, named |-> FALSE, at |-> 0]

HostInfo == [known |-> TRUE, in |-> "host", named |-> FALSE, at |-> 0]

fresh == clock - docker.lastSync < DockerTTL

\* A failed refresh keeps the list and stamps it all the same.
refreshNever == docker

refresh ==
    [list |-> IF dockerUp = None THEN docker.list ELSE {c \in Container : running[c] # 0},
     lastSync |-> clock]

AfterLookup == IF fresh THEN docker ELSE refresh

\* The cgroup names a container, or the process is gone or a host process.
resolveFromProc(pid) ==
    IF proc[pid].in \notin Container THEN HostInfo
    ELSE [known |-> TRUE, in |-> proc[pid].in, named |-> proc[pid].in \in AfterLookup.list,
          at |-> clock]

ResolveCached(pid) ==
    /\ cache[pid].known
    /\ hand' = [hand EXCEPT !.info = cache[pid]]
    /\ UNCHANGED <<cache, docker>>

ResolveFromProc(pid) ==
    /\ ~cache[pid].known
    /\ LET info == resolveFromProc(pid)
       IN  /\ cache' = [cache EXCEPT ![pid] = info]
           /\ hand' = [hand EXCEPT !.info = info]
           /\ docker' = IF info = HostInfo THEN docker ELSE AfterLookup

expiredNever(info) == FALSE

\* The answer "host" carries no time, and is not looked at.
expired(info) == info.known /\ info # HostInfo /\ clock - info.at > TTL

Evict ==
    /\ clock = nextEvict
    /\ nextEvict' = nextEvict + EvictEvery
    /\ cache' = [pid \in Pid |-> IF expired(cache[pid]) THEN Unresolved ELSE cache[pid]]
    /\ UNCHANGED <<clock, proc, running, dockerUp, kernelVars, docker, hand, chan, stats, stage>>

-----------------------------------------------------------------------------
(* readLoop.                                                               *)

Empty == [busy |-> FALSE]

ReadStep == UNCHANGED <<clock, proc, running, dockerUp, emitted, nextEvict>>

\* binary.Read of the record: the path lacks its first bytes, so that it no
\* longer starts as it did; what is matched anywhere in it is still there.
Decoded(s) ==
    IF LostPrefix("filename") > 0 /\ s.path \in {"noisy", "watchedPrefix"}
    THEN [s EXCEPT !.path = "plain"] ELSE s

Read ==
    /\ ReadStep
    /\ hand = Empty /\ ring # <<>> /\ stage = "running"
    /\ hand' = [busy |-> TRUE, ev |-> [Head(ring) EXCEPT !.call = Decoded(@)], info |-> Unresolved]
    /\ ring' = Tail(ring)
    /\ UNCHANGED <<mapperVars, chan, stats, stage>>

Resolve ==
    /\ ReadStep
    /\ hand # Empty /\ ~hand.info.known
    /\ ResolveCached(hand.ev.pid) \/ ResolveFromProc(hand.ev.pid)
    /\ UNCHANGED <<ring, chan, stats, stage>>

Name(info) == IF info.named THEN info.in ELSE <<"short id", info.in>>

IsMonitored(name) == name \notin Blacklist /\ (Whitelist = {} \/ name \in Whitelist)

\* The names that are excluded are looked for in every event.
keepUnlessExcluded(e) == e.pid # SelfPid /\ e.call.path # "excluded" /\ e.call.type # "connect"

\* hostFilter.keep: an allowlist.
keep(e) ==
    /\ e.pid # SelfPid
    /\ CASE e.call.type = "open" -> e.call.path \in {"watchedPrefix", "watchedSubstring"}
         [] e.call.type = "execve" -> e.call.path # "excluded"
         [] e.call.type \in {"connect", "clone"} -> FALSE
         [] OTHER -> TRUE

\* The noisy paths are a denylist of prefixes for containers.
Delivers(e, info) ==
    IF info = HostInfo THEN MonitorHost /\ keep(e)
    ELSE IsMonitored(Name(info)) /\ ~(e.call.type = "open" /\ e.call.path = "noisy")

needsEnrichment(e, info) ==
    \/ e.call.type \in {"execve", "ptrace", "module", "bpf"}
    \/ info = HostInfo /\ e.call.type = "open"

Filter ==
    /\ ReadStep
    /\ hand # Empty /\ hand.info.known
    /\ ~Delivers(hand.ev, hand.info)
    /\ Count("filtered")
    /\ hand' = Empty
    /\ UNCHANGED <<ring, mapperVars, chan, stage>>

\* /proc is read once more for ancestry and argv.  A process that is there may
\* miss either: a zombie has no argv, a process with ppid 0 no ancestry.  One
\* counter stands for the two of the code: the events that missed something.
Enriched(st) ==
    LET misses == IF ~needsEnrichment(hand.ev, hand.info) THEN {0}
                  ELSE IF proc[hand.ev.pid] = Gone THEN {1} ELSE {0, 1}
    IN  {[st EXCEPT !.enrichMiss = @ + m] : m \in misses}

\* What the channel carries, without the times and names.
Outgoing == [type |-> hand.ev.call.type, pid |-> hand.ev.pid, in |-> hand.info.in]

\* The send blocks while the channel is full.
DeliverBlocking ==
    /\ ReadStep
    /\ hand # Empty /\ hand.info.known
    /\ Delivers(hand.ev, hand.info)
    /\ Len(chan) < ChanSize
    /\ chan' = Append(chan, Outgoing)
    /\ stats' \in Enriched(stats)
    /\ hand' = Empty
    /\ UNCHANGED <<ring, mapperVars, stage>>

DeliverUncounted ==
    /\ ReadStep
    /\ hand # Empty /\ hand.info.known
    /\ Delivers(hand.ev, hand.info)
    /\ chan' = IF Len(chan) < ChanSize THEN Append(chan, Outgoing) ELSE chan
    /\ stats' \in Enriched(stats)
    /\ hand' = Empty
    /\ UNCHANGED <<ring, mapperVars, stage>>

Deliver ==
    /\ ReadStep
    /\ hand # Empty /\ hand.info.known
    /\ Delivers(hand.ev, hand.info)
    /\ IF Len(chan) < ChanSize
       THEN chan' = Append(chan, Outgoing) /\ stats' \in Enriched(stats)
       ELSE chan' = chan /\ stats' \in Enriched([stats EXCEPT !.channelDrops = @ + 1])
    /\ hand' = Empty
    /\ UNCHANGED <<ring, mapperVars, stage>>

\* reader.Read fails once the reader is closed; out is closed behind it.
ReadClosed ==
    /\ ReadStep
    /\ hand = Empty /\ stage = "stopping"
    /\ stage' = "closed"
    /\ UNCHANGED <<ring, mapperVars, hand, chan, stats>>

-----------------------------------------------------------------------------
(* The event loop of main, and Stop after it has returned.                 *)

Consume ==
    /\ chan # <<>> /\ stage = "running"
    /\ chan' = Tail(chan)
    /\ Count("consumed")
    /\ UNCHANGED <<clock, proc, running, dockerUp, kernelVars, mapperVars, nextEvict, hand, stage>>

Stop ==
    /\ stage = "running"
    /\ stage' = "stopping"
    /\ UNCHANGED <<clock, proc, running, dockerUp, kernelVars, mapperVars, nextEvict, hand, chan, stats>>

-----------------------------------------------------------------------------
Counters == {"kernelDrops", "channelDrops", "enrichMiss", "filtered", "consumed"}

Start == DockerTTL

Init ==
    /\ clock = Start
    /\ proc = [pid \in Pid |-> Gone]
    /\ running = [c \in Container |-> 0] /\ dockerUp = Start
    /\ ring = <<>> /\ emitted = 0
    /\ cache = [pid \in Pid |-> Unresolved]
    /\ nextEvict = Start + EvictEvery
    /\ docker = [list |-> {}, lastSync |-> 0]
    /\ hand = Empty /\ chan = <<>>
    /\ stats = [c \in Counters |-> 0]
    /\ stage = "running"

ReadLoop == Read \/ Resolve \/ Filter \/ Deliver \/ ReadClosed

Next ==
    \/ Tick \/ Evict \/ DockerChanges
    \/ \E c \in Container : StartContainer(c)
    \/ \E pid \in Pid : ExitProcess(pid) \/ \E place \in Place : Spawn(pid, place)
    \/ \E pid \in Pid, s \in Syscall : TraceSubmit(pid, s) \/ TraceDrop(pid, s)
    \/ ReadLoop
    \/ Consume \/ Stop

Spec == Init /\ [][Next]_vars

\* readLoop never waits for another goroutine.
FairSpec == Spec /\ WF_vars(ReadLoop)

-----------------------------------------------------------------------------
(* Properties.                                                             *)

\* "Event loss is surfaced": every traced system call is queued, in hand,
\* filtered on purpose, consumed, or in one of the two drop counters.
EventsAccounted ==
    emitted = Len(ring) + (IF hand = Empty THEN 0 ELSE 1) + Len(chan)
              + stats.filtered + stats.consumed + stats.kernelDrops + stats.channelDrops

Resolving == hand # Empty /\ ~hand.info.known /\ hand'.info.known

Answer == hand'.info

\* The process that has the event's pid when Resolve answers.
Holder == proc[hand.ev.pid]

\* A process is attributed to a container that an earlier holder of its pid ran
\* in only for so long: entries of the cache expire although they are hit.
ContainerAnswerExpires ==
    [][Resolving /\ Holder # Gone /\ Answer.in \in Container \ {Holder.in}
          => clock - Holder.since <= TTL + EvictEvery]_vars

\* A container started between two syncs, or during an outage of Docker, has
\* its short id for a name, which the whitelist does not know, but not for long.
NameSettles ==
    [][Resolving /\ Answer.in \in Container /\ dockerUp # None /\ ~Answer.named
          => clock - Max({running[Answer.in], dockerUp}) < DockerTTL + TTL + EvictEvery]_vars

\* Whatever another record left in theirs, ptrace, module and bpf events reach
\* the channel or a drop counter: they are filtered only for where they ran.
HighSignalKept ==
    [][stats'.filtered # stats.filtered /\ hand.ev.call.type \in {"ptrace", "module", "bpf"}
          => IF hand.info = HostInfo THEN ~MonitorHost \/ hand.ev.pid = SelfPid
             ELSE ~IsMonitored(Name(hand.info))]_vars

\* Stop ends readLoop although nobody receives from the channel any more.
StopEnds == stage = "stopping" ~> stage = "closed"

\* "evictLoop removes cache entries older than TTL": a process is not taken for
\* a host process for ever because an earlier holder of its pid was one.
HostAnswerExpires ==
    [][Resolving /\ Holder.in \in Container /\ Answer = HostInfo
          => clock - Holder.since <= TTL + EvictEvery]_vars

\* "The single most important invariant in the codebase": struct event and
\* RawEvent have the same layout, so that readLoop works on the path that the
\* system call was given.
DecodedAsTraced ==
    \A e \in Range(ring) : Decoded(e.call) = e.call
=============================================================================
