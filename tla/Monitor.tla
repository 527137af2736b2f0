------------------------------ MODULE Monitor ------------------------------
(***************************************************************************)
(* The program as main.go puts it together: the event loop, the callback   *)
(* of the auth-log tailer, the heartbeat with its health check, and the    *)
(* shutdown.                                                               *)
(*                                                                         *)
(* The loop selects among an event, a tick of the heartbeat and the        *)
(* signal.  For an event it runs Check (module Detector) to its end and    *)
(* then, finding by finding, Send (module Alerter), Observe (module        *)
(* Correlator) and, for an incident, Send again.  The tailer (module       *)
(* Tailer) does the same for its own alerts in another goroutine.  Send    *)
(* and Observe are one step each here; of the store (module Store) only    *)
(* the wait for its connections at the end is here.                        *)
(***************************************************************************)
EXTENDS Detector

CONSTANTS
    heartbeatMaxAge,   \* in heartbeat intervals (3 in the code)
    EventBuffer,       \* bound of the model: events that wait at a time
    MaxAlerts          \* bound of the model: alerts of the loop and the tailer

ASSUME MonitorAssumption ==
    /\ heartbeatMaxAge \in Nat /\ EventBuffer \in Nat \ {0} /\ MaxAlerts \in Nat

VARIABLES
    events,     \* events that wait in the channel
    n,          \* alerts raised so far; an alert is its number
    found,      \* what Check returns: the alerts raised for the current event
    work,       \* per goroutine: the alert it handles, and how far it is
    observed,   \* alerts the correlator has been given
    signalled,  \* ctx is done
    main,       \* main: in its "loop", its "deferred" calls, pool.Close, or "exited"
    tick,       \* hb.C holds a tick
    age         \* intervals since the heartbeat file was written, capped

alertVars == <<n, found, work, observed>>
mainVars == <<events, signalled, main, tick, age>>
allVars == <<vars, alertVars, mainVars>>

Goroutine == {"loop", "tailer"}

Idle == [step |-> "idle", alert |-> 0]

Missing == heartbeatMaxAge + 1

Running == main # "exited"

-----------------------------------------------------------------------------
(* Handling of one alert, by either goroutine.                             *)

Begin(a) == [step |-> "send", alert |-> a]

\* A finding that Send drops goes no further.
HandleSendFiltered(g) ==
    /\ Running /\ work[g].step = "send"
    /\ \/ work' = [work EXCEPT ![g].step = "observe"]
       \/ work' = [work EXCEPT ![g] = Idle]
    /\ UNCHANGED <<vars, n, found, observed, mainVars>>

\* Send records and dispatches the alert, or drops it for its severity or the
\* limiter.  It returns nothing: the caller goes on in the same way.
HandleSend(g) ==
    /\ Running /\ work[g].step = "send"
    /\ work' = [work EXCEPT ![g].step = "observe"]
    /\ UNCHANGED <<vars, n, found, observed, mainVars>>

\* Observe returns an incident or nil.
HandleObserve(g) ==
    /\ Running /\ work[g].step = "observe"
    /\ observed' = observed \cup {work[g].alert}
    /\ \/ work' = [work EXCEPT ![g].step = "incident"]
       \/ work' = [work EXCEPT ![g] = Idle]
    /\ UNCHANGED <<vars, n, found, mainVars>>

HandleIncident(g) ==
    /\ Running /\ work[g].step = "incident"
    /\ work' = [work EXCEPT ![g] = Idle]
    /\ UNCHANGED <<vars, n, found, observed, mainVars>>

Handle(g) == HandleSend(g) \/ HandleObserve(g) \/ HandleIncident(g)

\* handleLine of the tailer calls the callback.  It looks at ctx between two
\* polls only, and nobody waits for it at the end.
TailerAlert ==
    /\ Running /\ n < MaxAlerts
    /\ work["tailer"] = Idle
    /\ n' = n + 1
    /\ work' = [work EXCEPT !["tailer"] = Begin(n + 1)]
    /\ UNCHANGED <<vars, found, observed, mainVars>>

-----------------------------------------------------------------------------
(* The event loop.                                                         *)

AtSelect == main = "loop" /\ check = NoCheck /\ found = <<>> /\ work["loop"] = Idle

Arrive ==
    /\ main = "loop" /\ events < EventBuffer
    /\ events' = events + 1
    /\ UNCHANGED <<vars, alertVars, signalled, main, tick, age>>

LoopEvent(e) ==
    /\ AtSelect /\ events > 0
    /\ n + Len(Match(eng, e)) <= MaxAlerts
    /\ events' = events - 1
    /\ \/ CheckStart(e)
       \/ excepted(e) /\ UNCHANGED vars
    /\ UNCHANGED <<alertVars, signalled, main, tick, age>>

\* The rest of Check.
LoopAlert ==
    /\ RaiseAlert
    /\ n' = n + 1
    /\ found' = Append(found, n + 1)
    /\ UNCHANGED <<work, observed, mainVars>>

LoopCheck ==
    /\ Running
    /\ \/ LoopAlert
       \/ /\ CheckSuppressions \/ SuppressFinding \/ DropDuplicate \/ CheckEnd
          /\ UNCHANGED <<alertVars, mainVars>>

\* The next finding that Check returned.
LoopFinding ==
    /\ Running /\ check = NoCheck /\ work["loop"] = Idle
    /\ found # <<>>
    /\ work' = [work EXCEPT !["loop"] = Begin(Head(found))]
    /\ found' = Tail(found)
    /\ UNCHANGED <<vars, n, observed, mainVars>>

\* Serves the heartbeat only when no event waits.
LoopHeartbeatWhenIdle ==
    /\ AtSelect /\ tick /\ events = 0
    /\ tick' = FALSE
    /\ age' = 0
    /\ UNCHANGED <<vars, alertVars, events, signalled, main>>

\* writeHeartbeat: the new file is renamed into place, or nothing happens.
LoopHeartbeat ==
    /\ AtSelect /\ tick
    /\ tick' = FALSE
    /\ age' \in {0, age}
    /\ UNCHANGED <<vars, alertVars, events, signalled, main>>

\* main returns: nobody reads hb.C and events from here on.
Return ==
    /\ main' = "deferred"
    /\ tick' = FALSE /\ events' = 0
    /\ UNCHANGED <<vars, alertVars, signalled, age>>

\* Looks for the signal only when no event waits.
LoopSignalWhenIdle ==
    /\ AtSelect /\ signalled /\ events = 0
    /\ Return

LoopSignal ==
    /\ AtSelect /\ signalled
    /\ Return

\* The collector has closed the channel.
LoopStreamClosed ==
    /\ AtSelect /\ events = 0
    /\ Return

-----------------------------------------------------------------------------
(* The deferred calls, the last of which is store.Close.  The ones before  *)
(* it are the Stop and Close of the other modules, and return; one of them *)
(* is stop, which ends ctx if no signal has.  store.Close waits 5 s for the *)
(* worker and then calls pool.Close, which takes no new callers but waits, *)
(* without a deadline, for the connection that ensureSchema holds.  All    *)
(* other users of the pool have deadlines.                                 *)

\* store.Close gets as far as pool.Close.  The worker holds a connection in
\* ensureSchema ("waiting") or does not ("closing").
StoreClose ==
    /\ main = "deferred"
    /\ main' \in {"waiting", "closing"}
    /\ signalled' = TRUE
    /\ UNCHANGED <<vars, alertVars, events, tick, age>>

\* The database answers ensureSchema, which gives the connection back.
SchemaAnswer ==
    /\ main = "waiting"
    /\ main' = "closing"
    /\ UNCHANGED <<vars, alertVars, events, signalled, tick, age>>

\* pool.Close returns, and main with it.
Shutdown ==
    /\ main = "closing"
    /\ main' = "exited"
    /\ UNCHANGED <<vars, alertVars, events, signalled, tick, age>>

Signal ==
    /\ Running /\ ~signalled
    /\ signalled' = TRUE
    /\ UNCHANGED <<vars, alertVars, events, main, tick, age>>

-----------------------------------------------------------------------------
(* The health check of another process, and the time.                      *)

HealthyIfPresent == age <= heartbeatMaxAge + 1

\* runHealthCheck: the file is there and not too old.
Healthy == age <= heartbeatMaxAge

\* A heartbeat interval passes.  A tick that finds the channel full is dropped.
HeartbeatInterval ==
    /\ tick' = (main = "loop")
    /\ age' = IF age < Missing THEN age + 1 ELSE age
    /\ UNCHANGED <<vars, alertVars, events, signalled, main>>

-----------------------------------------------------------------------------
\* The program has started, and has tried to write its first heartbeat.
MonitorInit ==
    /\ Init
    /\ events = 0
    /\ n = 0 /\ found = <<>>
    /\ work = [g \in Goroutine |-> Idle]
    /\ observed = {}
    /\ signalled = FALSE /\ main = "loop"
    /\ tick = FALSE /\ age \in {0, Missing}

\* The reloaders and the clock of the detector, which nobody asks after the loop.
Environment ==
    /\ \/ Tick
       \/ \E rules \in Rulesets : SetRuleset(rules)
       \/ \E set \in SuppSets : SetSuppressions(set)
    /\ main = "loop"
    /\ UNCHANGED <<alertVars, mainVars>>

MonitorNext ==
    \/ Environment
    \/ \E e \in Event : LoopEvent(e)
    \/ LoopCheck \/ LoopFinding \/ LoopHeartbeat \/ LoopSignal \/ LoopStreamClosed
    \/ \E g \in Goroutine : Handle(g)
    \/ TailerAlert \/ Arrive \/ HeartbeatInterval
    \/ Signal \/ StoreClose \/ Shutdown \/ SchemaAnswer

MonitorSpec == MonitorInit /\ [][MonitorNext]_allVars

\* Nothing in the loop blocks; select chooses at random among the branches that
\* are ready, so that none is passed over for ever; time goes on.  Nothing is
\* assumed of the database: SchemaAnswer may never come.
FairMonitorSpec ==
    /\ MonitorSpec
    /\ WF_allVars(LoopCheck) /\ WF_allVars(LoopFinding)
    /\ WF_allVars(StoreClose) /\ WF_allVars(Shutdown)
    /\ \A g \in Goroutine : WF_allVars(Handle(g))
    /\ SF_allVars(LoopHeartbeat) /\ SF_allVars(LoopSignal)
    /\ WF_allVars(HeartbeatInterval)

-----------------------------------------------------------------------------
(* Properties.                                                             *)

\* "Feed every finding to the correlator (before any severity filtering)": no
\* finding of either goroutine is lost between Check or the tailer and the
\* correlator, whatever Send does with it, whichever incident or event comes in
\* between and whenever the signal comes.  The loop finishes the findings of
\* its event before it returns; only the one in the tailer's hands may be lost
\* with the process.
EveryFindingCounts ==
    \A a \in 1 .. n :
        \/ a \in observed
        \/ work["tailer"].alert = a
        \/ main = "loop" /\ (work["loop"].alert = a \/ \E i \in DOMAIN found : found[i] = a)

\* A flood of events does not make a working monitor look dead: as long as the
\* loop runs it comes back to the heartbeat again and again.
HeartbeatRecurs == [](main = "loop") => []<><<LoopHeartbeat>>_allVars

\* "Its freshness proves the main loop is alive": when the loop is over the
\* health check fails from some moment on, although the file is still there.
DeadLoopReported == (main # "loop") ~> []~Healthy

\* The signal ends the process, however many events and alerts are waiting,
\* unless pool.Close waits for a database that leaves ensureSchema without an
\* answer for ever.
SignalEnds == signalled ~> (main = "exited" \/ [](main = "waiting"))
=============================================================================
