------------------------------ MODULE Alerter ------------------------------
(***************************************************************************)
(* Dispatch of alerts, internal/alerter/alerter.go.                        *)
(*                                                                         *)
(* Send runs in two goroutines at once (the event loop and the auth-log    *)
(* tailer).  Its shared steps are the sliding-window rate limiter (under   *)
(* rateMu), the log file with its rotation (under mu), the hand-over to    *)
(* the AlertSink and the start of one delivery goroutine per destination,  *)
(* which posts with retries on its own.  Close is called by main when the  *)
(* event loop has returned, while the tailer may still be inside Send; the *)
(* process then exits without waiting for deliveries.                      *)
(*                                                                         *)
(* An alert is its number in the order of the Send calls.  One log line is *)
(* one unit of LogMax.                                                     *)
(***************************************************************************)
EXTENDS Integers, Sequences, FiniteSets, Functions, SequencesExt

CONSTANTS
    RateKey,          \* alert.ContainerID: containers, and one for all of the host
    Severities,       \* the severities of the alerts that are sent
    AlertMinSeverity,
    AlertMaxRate, AlertRateWindow,
    LogMax, LogMaxBackups,   \* KW_LOG_MAX_MB in lines, KW_LOG_MAX_BACKUPS
    DiskMayFail,      \* whether writes, renames and the reopening of the log can fail
    Modes,            \* KW_MODE when the program starts: "alert", "monitor"
    Dest,             \* enabled destinations: webhook, slack
    DeliveryAttempts, \* deliveryAttempts (3 in the code)
    MaxAlerts, MaxDispatched, MaxClock    \* bounds of the model: all alerts, and those
                                          \* of a run in alert mode

severityRank == [low |-> 1, medium |-> 2, high |-> 3, critical |-> 4]

ASSUME AlerterAssumption ==
    /\ Severities \cup {AlertMinSeverity} \subseteq DOMAIN severityRank
    /\ AlertMaxRate \in Nat /\ AlertRateWindow \in Nat
    /\ LogMax \in Nat /\ LogMaxBackups \in Nat
    /\ DiskMayFail \in BOOLEAN
    /\ Modes \subseteq {"alert", "monitor"}
    /\ DeliveryAttempts \in Nat \ {0}
    /\ MaxAlerts \in Nat /\ MaxDispatched \in Nat /\ MaxClock \in Nat

VARIABLES
    mode,       \* Config.Mode
    clock,
    n,          \* alerts sent so far
    send,       \* per caller: the step of Send it is in, and its alert
    rateMap,    \* key -> the alerts the limiter remembers, with their times
    accepted,   \* history: all alerts that passed the limiter
    refused,    \* history: all alerts it turned away
    filtered,   \* history: alerts below the minimum severity
    incidents,  \* history: the alerts that are correlated incidents
    logFile,    \* "open", "nil" (reopen failed) or "closed" (by Close)
    logBytes,   \* what was written to the log file since it was opened
    current,    \* lines of the log file
    backups,    \* lines of alerts.json.1 .. .N, none if there is no such file
    written,    \* history: all lines that reached the log
    shiftFailed,\* history: a file was not moved when the log was rotated
    sink,       \* history: the alerts handed to the AlertSink
    delivery,   \* per alert and destination: the delivery goroutine
    closed, exited

limitVars == <<rateMap, accepted, refused, filtered, incidents>>
fileVars == <<logBytes, current, backups, written, shiftFailed>>
logVars == <<logFile, fileVars>>
vars == <<mode, clock, n, send, limitVars, logVars, sink, delivery, closed, exited>>

Caller == {"loop", "tailer"}
Alert == 1 .. MaxAlerts

Idle == [step |-> "idle", id |-> 0]
NoDelivery == [state |-> "none", tries |-> 0, copies |-> 0]

Init ==
    /\ mode \in Modes
    /\ clock = 1 /\ n = 0
    /\ send = [c \in Caller |-> Idle]
    /\ rateMap = [k \in RateKey |-> {}]
    /\ accepted = {} /\ refused = {} /\ filtered = {} /\ incidents = {}
    /\ logFile = "open" /\ logBytes = 0 /\ current = <<>> /\ written = <<>>
    /\ backups = [i \in 1 .. LogMaxBackups |-> <<>>] /\ shiftFailed = FALSE
    /\ sink = {}
    /\ delivery = [a \in Alert |-> [d \in Dest |-> NoDelivery]]
    /\ closed = FALSE /\ exited = FALSE

-----------------------------------------------------------------------------
(* The rate limiter.  The two readings of the clock it takes under rateMu  *)
(* are one instant.                                                        *)

freshInclusive(k) == {e \in rateMap[k] : e.at >= clock - AlertRateWindow}

freshTooShort(k) == {e \in rateMap[k] : e.at > clock - AlertRateWindow + 1}

fresh(k) == {e \in rateMap[k] : e.at > clock - AlertRateWindow}

\* isRateLimited returned true.
RateLimited(k, id) ==
    /\ Cardinality(fresh(k)) >= AlertMaxRate
    /\ rateMap' = [rateMap EXCEPT ![k] = fresh(k)]
    /\ refused' = refused \cup {[id |-> id, key |-> k, at |-> clock]}
    /\ UNCHANGED accepted

\* isRateLimited returned false.
Admitted(k, id) ==
    /\ Cardinality(fresh(k)) < AlertMaxRate
    /\ rateMap' = [rateMap EXCEPT ![k] = fresh(k) \cup {[id |-> id, at |-> clock]}]
    /\ accepted' = accepted \cup {[id |-> id, key |-> k, at |-> clock]}
    /\ UNCHANGED refused

-----------------------------------------------------------------------------
(* Send, up to the limiter: incidents bypass the severity filter and the   *)
(* limiter; a finding that is dropped leaves the caller idle.              *)

Proceed(c) == send' = [send EXCEPT ![c] = [step |-> "log", id |-> n + 1]]

BelowMinimum(sev) == severityRank[sev] < severityRank[AlertMinSeverity]

SendIncidentLimited(c, k) ==
    /\ \/ RateLimited(k, n + 1) /\ UNCHANGED send
       \/ Admitted(k, n + 1) /\ Proceed(c)
    /\ incidents' = incidents \cup {n + 1}
    /\ UNCHANGED filtered

SendIncident(c, k) ==
    /\ Proceed(c)
    /\ incidents' = incidents \cup {n + 1}
    /\ UNCHANGED <<rateMap, accepted, refused, filtered>>

SendFinding(c, k, sev) ==
    /\ \/ /\ BelowMinimum(sev)
          /\ filtered' = filtered \cup {n + 1}
          /\ UNCHANGED <<send, rateMap, accepted, refused>>
       \/ /\ ~BelowMinimum(sev)
          /\ RateLimited(k, n + 1)
          /\ UNCHANGED <<send, filtered>>
       \/ /\ ~BelowMinimum(sev)
          /\ Admitted(k, n + 1)
          /\ Proceed(c)
          /\ UNCHANGED filtered
    /\ UNCHANGED incidents

Send(c, k, sev, incident) ==
    /\ ~exited
    /\ n < MaxAlerts /\ (mode = "alert" => n < MaxDispatched)
    /\ send[c].step = "idle"
    /\ c = "loop" => ~closed
    /\ n' = n + 1
    /\ IF incident THEN SendIncident(c, k) ELSE SendFinding(c, k, sev)
    /\ UNCHANGED <<mode, clock, logVars, sink, delivery, closed, exited>>

-----------------------------------------------------------------------------
(* writeLog and rotateIfNeeded, under mu.  The errors of the writes, the   *)
(* renames and the removals are all ignored.                               *)

NeedsRotation(size) == LogMax > 0 /\ size >= LogMax

\* The files, the log file being number 0.
File(log, i) == IF i = 0 THEN log ELSE backups[i]

Existing(log) == {i \in 0 .. LogMaxBackups : File(log, i) # <<>>}

\* Renames the log before the backups.
ShiftedLogFirst(log, moved) ==
    [i \in 1 .. LogMaxBackups |-> IF i = 1 THEN <<>> ELSE IF i = 2 THEN log ELSE backups[i - 1]]

\* Renames .i+1 to .i and the log to .N.
ShiftedDown(log, moved) ==
    [i \in 1 .. LogMaxBackups |-> IF i = LogMaxBackups THEN log ELSE backups[i + 1]]

\* The backups when the files in moved were: .N is removed, .i becomes .i+1 in
\* place of whatever is there, the log file becomes .1.  Without backups the log
\* file is removed.
Shifted(log, moved) ==
    [i \in 1 .. LogMaxBackups |->
        IF i - 1 \in moved THEN File(log, i - 1)
        ELSE IF i \in moved THEN <<>>
        ELSE backups[i]]

\* The log file is opened for appending: if it could not be moved it goes on
\* growing, and is counted from 0 again.
Rotate(log) ==
    /\ \E moved \in SUBSET Existing(log) :
          /\ DiskMayFail \/ moved = Existing(log)
          /\ backups' = Shifted(log, moved)
          /\ current' = IF 0 \in moved THEN <<>> ELSE log
          /\ shiftFailed' = (shiftFailed \/ moved # Existing(log))
    /\ \/ logFile' = "open" /\ logBytes' = 0
       \/ DiskMayFail /\ logFile' = "nil" /\ logBytes' = logBytes + 1

LineWritten(id) ==
    /\ written' = Append(written, id)
    /\ IF NeedsRotation(logBytes + 1)
       THEN Rotate(Append(current, id))
       ELSE /\ current' = Append(current, id)
            /\ logBytes' = logBytes + 1
            /\ UNCHANGED <<backups, logFile, shiftFailed>>

\* Nothing is written, nothing counted, and so nothing rotated.
LineLost == DiskMayFail /\ UNCHANGED logVars

WriteLine(id) == LineWritten(id) \/ LineLost

\* The write to a file that Close has closed fails, and the error is ignored.
WriteLog(c) ==
    /\ ~exited
    /\ send[c].step = "log"
    /\ IF logFile = "open" THEN WriteLine(send[c].id) ELSE UNCHANGED logVars
    /\ send' = [send EXCEPT ![c].step = "save"]
    /\ UNCHANGED <<mode, clock, n, limitVars, sink, delivery, closed, exited>>

-----------------------------------------------------------------------------
(* The sink, and the start of the deliveries.                              *)

SaveToSink(c) ==
    /\ ~exited
    /\ send[c].step = "save"
    /\ sink' = sink \cup {send[c].id}
    /\ send' = [send EXCEPT ![c] = IF mode = "monitor" THEN Idle ELSE [@ EXCEPT !.step = "dispatch"]]
    /\ UNCHANGED <<mode, clock, n, limitVars, logVars, delivery, closed, exited>>

Dispatch(c) ==
    /\ ~exited
    /\ send[c].step = "dispatch"
    /\ delivery' = [delivery EXCEPT ![send[c].id] =
                      [d \in Dest |-> [NoDelivery EXCEPT !.state = "flight"]]]
    /\ send' = [send EXCEPT ![c] = Idle]
    /\ UNCHANGED <<mode, clock, n, limitVars, logVars, sink, closed, exited>>

-----------------------------------------------------------------------------
(* postWithRetry, one goroutine per alert and destination.                 *)

InFlight(a, d) == ~exited /\ delivery[a][d].state = "flight"

SetDelivery(a, d, new) ==
    /\ delivery' = [delivery EXCEPT ![a][d] = new]
    /\ UNCHANGED <<mode, clock, n, send, limitVars, logVars, sink, closed, exited>>

\* The attempt counter starts again instead of ending the delivery.
RetryForEver(old) ==
    [old EXCEPT !.tries = IF @ + 1 < DeliveryAttempts THEN @ + 1 ELSE 0, !.copies = 0]

\* After a retryable failure: the next try, or the last error.
Retried(old) ==
    [state  |-> IF old.tries + 1 < DeliveryAttempts THEN "flight" ELSE "failed",
     tries  |-> old.tries + 1,
     copies |-> old.copies]

\* The receiver took the request.
Taken(old) == [old EXCEPT !.copies = @ + 1]

PostOk(a, d) ==
    /\ InFlight(a, d)
    /\ SetDelivery(a, d, [Taken(delivery[a][d]) EXCEPT !.state = "ok"])

\* A transport error; the receiver may have taken the request all the same.
PostTransportError(a, d) ==
    /\ InFlight(a, d)
    /\ \/ SetDelivery(a, d, Retried(delivery[a][d]))
       \/ SetDelivery(a, d, Retried(Taken(delivery[a][d])))

\* 5xx and 429.
PostServerError(a, d) ==
    /\ InFlight(a, d)
    /\ SetDelivery(a, d, Retried(delivery[a][d]))

\* Any other 4xx is not retried.
PostClientError(a, d) ==
    /\ InFlight(a, d)
    /\ SetDelivery(a, d, [delivery[a][d] EXCEPT !.state = "failed"])

Post(a, d) ==
    PostOk(a, d) \/ PostTransportError(a, d) \/ PostServerError(a, d) \/ PostClientError(a, d)

-----------------------------------------------------------------------------
\* Only the limiter reads the time.
Tick ==
    /\ ~exited /\ clock < MaxClock
    /\ n < MaxAlerts /\ (mode = "alert" => n < MaxDispatched)
    /\ clock' = clock + 1
    /\ UNCHANGED <<mode, n, send, limitVars, logVars, sink, delivery, closed, exited>>

\* Close, called by main when the event loop is over.
Close ==
    /\ ~closed /\ send["loop"].step = "idle"
    /\ closed' = TRUE
    /\ logFile' = IF logFile = "open" THEN "closed" ELSE logFile
    /\ UNCHANGED <<mode, clock, n, send, limitVars, fileVars, sink, delivery, exited>>

\* main returns: the tailer and the delivery goroutines end with the process.
Exit ==
    /\ closed
    /\ exited' = TRUE
    /\ UNCHANGED <<mode, clock, n, send, limitVars, logVars, sink, delivery, closed>>

Next ==
    \/ \E c \in Caller, k \in RateKey, sev \in Severities, incident \in BOOLEAN :
          Send(c, k, sev, incident)
    \/ \E c \in Caller : WriteLog(c) \/ SaveToSink(c) \/ Dispatch(c)
    \/ \E a \in Alert, d \in Dest : Post(a, d)
    \/ Tick
    \/ Close
    \/ Exit

Spec == Init /\ [][Next]_vars

\* Send never blocks, and every HTTP try is bounded by the client's timeout.
FairSpec ==
    /\ Spec
    /\ \A c \in Caller : WF_vars(WriteLog(c) \/ SaveToSink(c) \/ Dispatch(c))
    /\ \A a \in Alert, d \in Dest : WF_vars(Post(a, d))

-----------------------------------------------------------------------------
(* Properties.                                                             *)

RateEntry == [id : Nat, at : Nat]
LimiterRecord == [id : Nat, key : RateKey, at : Nat]

\* Every variable has its type.
TypeOK ==
    /\ mode \in Modes
    /\ clock \in Nat /\ n \in 0 .. MaxAlerts
    /\ send \in [Caller -> [step : {"idle", "log", "save", "dispatch"}, id : 0 .. MaxAlerts]]
    /\ rateMap \in [RateKey -> SUBSET RateEntry]
    /\ accepted \subseteq LimiterRecord /\ refused \subseteq LimiterRecord
    /\ filtered \subseteq Alert /\ incidents \subseteq Alert
    /\ logFile \in {"open", "nil", "closed"}
    /\ logBytes \in Nat /\ shiftFailed \in BOOLEAN
    /\ current \in Seq(Alert) /\ written \in Seq(Alert) /\ sink \subseteq Alert
    /\ backups \in [1 .. LogMaxBackups -> Seq(Alert)]
    /\ delivery \in [Alert -> [Dest -> [state : {"none", "flight", "ok", "failed"},
                                        tries : 0 .. DeliveryAttempts,
                                        copies : 0 .. DeliveryAttempts]]]
    /\ closed \in BOOLEAN /\ exited \in BOOLEAN

\* The findings for key k that were let through in the window ending at t.
AcceptedIn(k, t) == {a \in accepted : a.key = k /\ t - AlertRateWindow < a.at /\ a.at <= t}

\* In no window of AlertRateWindow, wherever it starts, does a container get
\* more than AlertMaxRate findings through, although the limiter forgets
\* expired entries and two goroutines pass it.
RateBound ==
    \A k \in RateKey : \A t \in 0 .. clock : Cardinality(AcceptedIn(k, t)) <= AlertMaxRate

\* The limiter is not stricter than it says: a finding is refused only when
\* AlertMaxRate findings of the same container went through in the window.
RefusedOnlyWhenFull ==
    \A r \in refused :
        Cardinality({a \in AcceptedIn(r.key, r.at) : a.id < r.id}) >= AlertMaxRate

\* Incidents "must never be dropped because the container is otherwise noisy":
\* each one is handed to the sink, or the Send that carries it is still under way
\* (it ends there if the process exits first).
IncidentsKept ==
    \A i \in incidents : i \in sink \/ \E c \in Caller : send[c].id = i

\* If the files hold the end of what was written, the number of lines that came
\* before file i: the log file is 0, its backups are 1 .. LogMaxBackups.
LinesBefore[i \in 0 .. LogMaxBackups] ==
    IF i = 0 THEN Len(written) - Len(current) ELSE LinesBefore[i - 1] - Len(backups[i])

\* Rotation loses only the oldest lines: as long as every file could be moved,
\* the backups, oldest first, followed by the log file are the last lines that
\* were written, without a gap or a repetition, and a line is missing only when
\* every backup is full, whatever writes and reopenings failed.
LogIsTail ==
    ~shiftFailed =>
        /\ LinesBefore[0] >= 0
        /\ current = SubSeq(written, LinesBefore[0] + 1, Len(written))
        /\ \A i \in 1 .. LogMaxBackups :
              /\ LinesBefore[i] >= 0
              /\ backups[i] = SubSeq(written, LinesBefore[i] + 1, LinesBefore[i - 1])
              /\ LinesBefore[i] > 0 => Len(backups[i]) = LogMax

\* Line x reached the log before line y.
WrittenBefore(x, y) ==
    \E p, q \in DOMAIN written : p < q /\ written[p] = x /\ written[q] = y

\* Whatever rename fails, and the files that are overwritten or stay behind then,
\* the files never contradict what happened: read from the oldest backup to the
\* log file, they hold no line twice and none out of order.
LogInOrder ==
    \A i, j \in 0 .. LogMaxBackups :
        \A p \in DOMAIN File(current, i), q \in DOMAIN File(current, j) :
            (i > j \/ (i = j /\ p < q)) =>
                WrittenBefore(File(current, i)[p], File(current, j)[q])

\* A delivery comes to an end: every receiver answers, refuses or exhausts the
\* tries, unless the process exits first.
DeliverySettles ==
    \A a \in Alert : \A d \in Dest :
        (delivery[a][d].state = "flight") ~> (delivery[a][d].state \in {"ok", "failed"} \/ exited)
=============================================================================
