------------------------------- MODULE Store -------------------------------
(***************************************************************************)
(* The asynchronous alert sink of internal/storage/postgres.go.            *)
(*                                                                         *)
(* Save pushes a row onto the bounded channel ch without blocking; one     *)
(* worker goroutine first ensures the schema, then collects rows into a    *)
(* batch and inserts it (up to Attempts times) when the batch is full, on  *)
(* the flush ticker, and while draining after Close.  Close runs in the    *)
(* main goroutine and races the worker with a five second timer.           *)
(*                                                                         *)
(* A row is its position in the order of the Save calls: 1, 2, 3, ...      *)
(* The database is external: an insert commits the whole batch or nothing  *)
(* (one implicit transaction), and a call may time out after it committed. *)
(***************************************************************************)
EXTENDS Integers, Sequences, FiniteSets, Functions

CONSTANTS
    BufferSize,   \* capacity of ch (bufferSize, 2000 in the code)
    BatchSize,    \* rows per insert (batchSize, 100 in the code)
    Attempts,     \* tries of insertWithRetry (3 in the code)
    MaxSaves      \* bound of the model: Save is called at most this often

ASSUME StoreAssumption ==
    /\ BufferSize \in Nat \ {0}
    /\ BatchSize \in Nat \ {0}
    /\ Attempts \in Nat \ {0}
    /\ MaxSaves \in Nat

VARIABLES
    ch,        \* Store.ch, oldest row first
    done,      \* Store.done has been closed
    pc,        \* where the worker goroutine is
    batch,     \* the worker's local batch
    ret,       \* where flush() returns to: "select", "drain" or "exited"
    attempt,   \* failed tries of the current insertWithRetry
    ready,     \* the worker has logged "alert storage ready"
    dropped,   \* Store.dropped
    table,     \* the rows of the alerts table, in commit order
    poolOpen,  \* the connection pool has not been closed
    closer,    \* where the goroutine that calls Close is
    timedOut,  \* Close gave up waiting for the worker
    saved,     \* history: how many times Save was called
    acked,     \* history: rows of the batches insertWithRetry reported stored
    closedAt   \* history: saved when Close was called

vars == <<ch, done, pc, batch, ret, attempt, ready, dropped, table, poolOpen,
          closer, timedOut, saved, acked, closedAt>>

\* The variables of each party, for UNCHANGED.
closeVars == <<done, poolOpen, closer, timedOut, closedAt>>
flushVars == <<dropped, table, acked>>

WorkerPC == {"ping", "ddl", "schemaWait", "select", "drain", "insert", "sleep", "exited"}

\* newStore: empty buffer, worker started; it opens with ensureSchema.
Init ==
    /\ ch = <<>> /\ batch = <<>> /\ table = <<>>
    /\ done = FALSE /\ ready = FALSE /\ timedOut = FALSE
    /\ poolOpen = TRUE
    /\ pc = "ping" /\ ret = "select" /\ closer = "open"
    /\ attempt = 0 /\ dropped = 0 /\ saved = 0 /\ acked = 0 /\ closedAt = 0

-----------------------------------------------------------------------------
(* Save: called by the event loop and by the log tailer, never blocks.     *)

Save ==
    /\ saved < MaxSaves
    /\ saved' = saved + 1
    /\ \/ /\ Len(ch) < BufferSize
          /\ ch' = Append(ch, saved + 1)
          /\ UNCHANGED dropped
       \/ /\ Len(ch) >= BufferSize
          /\ dropped' = dropped + 1
          /\ UNCHANGED ch
    /\ UNCHANGED <<pc, batch, ret, attempt, ready, table, acked, closeVars>>

-----------------------------------------------------------------------------
(* worker: the schema loop.  ensureSchema first needs a connection ("ping")*)
(* and then holds it while it runs the DDL ("ddl"); neither has a timeout. *)

Goto(label) ==
    /\ pc' = label
    /\ UNCHANGED <<ch, batch, ret, attempt, flushVars, closeVars, saved>>

Ping ==
    /\ pc = "ping"
    /\ \/ poolOpen /\ Goto("ddl")
       \/ Goto("schemaWait")
    /\ UNCHANGED ready

RunSchemaStatements ==
    /\ pc = "ddl"
    /\ \/ poolOpen /\ ready' = TRUE /\ Goto("select")
       \/ UNCHANGED ready /\ Goto("schemaWait")

SchemaRetry == pc = "schemaWait" /\ Goto("ping") /\ UNCHANGED ready

SchemaAbort == pc = "schemaWait" /\ done /\ Goto("exited") /\ UNCHANGED ready

-----------------------------------------------------------------------------
(* worker: the select loop and the drain loop.                             *)

\* flush(): nothing to do for an empty batch, otherwise insertWithRetry.
Flush(rows, back) ==
    /\ ret' = back
    /\ attempt' = 0
    /\ pc' = IF rows = <<>> THEN back ELSE "insert"

\* Builds the batch newest row first.
ReceiveInFront(here) ==
    /\ pc = here
    /\ ch # <<>>
    /\ batch' = <<Head(ch)>> \o batch
    /\ ch' = Tail(ch)
    /\ IF Len(batch') >= BatchSize
       THEN Flush(batch', here)
       ELSE UNCHANGED <<pc, ret, attempt>>
    /\ UNCHANGED <<ready, flushVars, closeVars, saved>>

\* A row is received from ch; a batch that is full is flushed.
Receive(here) ==
    /\ pc = here
    /\ ch # <<>>
    /\ batch' = Append(batch, Head(ch))
    /\ ch' = Tail(ch)
    /\ IF Len(batch') >= BatchSize
       THEN Flush(batch', here)
       ELSE UNCHANGED <<pc, ret, attempt>>
    /\ UNCHANGED <<ready, flushVars, closeVars, saved>>

SelectReceive == Receive("select")

\* Flushes on the tick only what a full batch would have flushed anyway.
SelectTickFullOnly ==
    /\ pc = "select"
    /\ Len(batch) >= BatchSize
    /\ Flush(batch, "select")
    /\ UNCHANGED <<ch, batch, ready, flushVars, closeVars, saved>>

SelectTick ==
    /\ pc = "select"
    /\ batch # <<>>     \* flush() of an empty batch changes nothing
    /\ Flush(batch, "select")
    /\ UNCHANGED <<ch, batch, ready, flushVars, closeVars, saved>>

SelectDoneNoDrain == pc = "select" /\ done /\ Goto("exited") /\ UNCHANGED ready

SelectDone == pc = "select" /\ done /\ Goto("drain") /\ UNCHANGED ready

DrainReceive == Receive("drain")

DrainDefault ==
    /\ pc = "drain"
    /\ ch = <<>>
    /\ Flush(batch, "exited")
    /\ UNCHANGED <<ch, batch, ready, flushVars, closeVars, saved>>

-----------------------------------------------------------------------------
(* worker: insertWithRetry.                                                *)

\* flush() is over: the batch is emptied and the worker goes back.
EndFlush == batch' = <<>> /\ pc' = ret

InsertOk ==
    /\ pc = "insert"
    /\ poolOpen
    /\ table' = table \o batch
    /\ acked' = acked + Len(batch)
    /\ EndFlush
    /\ UNCHANGED <<ch, ret, attempt, ready, dropped, closeVars, saved>>

InsertErrIgnored ==
    /\ pc = "insert"
    /\ acked' = acked + Len(batch)
    /\ EndFlush
    /\ UNCHANGED <<ch, ret, attempt, ready, dropped, table, closeVars, saved>>

\* insertBatch failed: nothing was committed, or the answer came too late.
InsertErr ==
    /\ pc = "insert"
    /\ \/ UNCHANGED table
       \/ poolOpen /\ table' = table \o batch
    /\ attempt' = attempt + 1
    /\ pc' = "sleep"
    /\ UNCHANGED <<ch, batch, ret, ready, dropped, acked, closeVars, saved>>

Retry ==
    /\ pc = "sleep"
    /\ attempt < Attempts
    /\ Goto("insert")
    /\ UNCHANGED ready

GiveUpUncounted ==
    /\ pc = "sleep"
    /\ attempt >= Attempts
    /\ EndFlush
    /\ UNCHANGED <<ch, ret, attempt, ready, dropped, table, acked, closeVars, saved>>

\* The last error is returned: the batch is dropped and counted.
GiveUp ==
    /\ pc = "sleep"
    /\ attempt >= Attempts
    /\ dropped' = dropped + Len(batch)
    /\ EndFlush
    /\ UNCHANGED <<ch, ret, attempt, ready, table, acked, closeVars, saved>>

-----------------------------------------------------------------------------
(* Close.                                                                  *)

CloseCall ==
    /\ closer = "open"
    /\ done' = TRUE
    /\ closedAt' = saved
    /\ closer' = "waiting"
    /\ UNCHANGED <<ch, pc, batch, ret, attempt, ready, flushVars, saved, poolOpen, timedOut>>

CloseFinished ==
    /\ closer = "waiting"
    /\ pc = "exited"
    /\ closer' = "pool"
    /\ UNCHANGED <<ch, pc, batch, ret, attempt, ready, flushVars, saved, done, poolOpen,
                   timedOut, closedAt>>

CloseNeverTimesOut == FALSE /\ UNCHANGED vars

CloseTimeout ==
    /\ closer = "waiting"
    /\ timedOut' = TRUE
    /\ closer' = "pool"
    /\ UNCHANGED <<ch, pc, batch, ret, attempt, ready, flushVars, saved, done, poolOpen,
                   closedAt>>

\* in.close(): pgxpool waits for the connections in use and then refuses new
\* ones.  A worker in "ping", or about to send its insert, holds none.
PoolClose ==
    /\ closer = "pool"
    /\ poolOpen' = FALSE
    /\ closer' = "closed"
    /\ UNCHANGED <<ch, pc, batch, ret, attempt, ready, flushVars, saved, done, timedOut,
                   closedAt>>

\* The process ends when Close has returned; the model stops when nobody moves.
Terminated ==
    /\ closer = "closed" /\ pc = "exited" /\ saved = MaxSaves
    /\ UNCHANGED vars

-----------------------------------------------------------------------------
Schema == Ping \/ RunSchemaStatements

\* Every worker step that a timer or a context deadline bounds.
WorkerProgress ==
    \/ SchemaRetry \/ SchemaAbort
    \/ SelectReceive \/ SelectTick \/ SelectDone \/ DrainReceive \/ DrainDefault
    \/ InsertOk \/ InsertErr \/ Retry \/ GiveUp

Close == CloseCall \/ CloseFinished \/ CloseTimeout \/ PoolClose

Next == Save \/ Schema \/ WorkerProgress \/ Close \/ Terminated

(***************************************************************************)
(* Fairness.  The worker keeps moving until the process ends, except in    *)
(* ensureSchema, whose context has no deadline; done is ready as soon as   *)
(* the worker reaches its wait again (SF); the close timer fires; the pool *)
(* closes once the worker holds no connection.  Nothing obliges anyone to  *)
(* call Save or Close.                                                     *)
(***************************************************************************)
HoldsConnection == pc \in {"ddl", "insert"}

Fairness ==
    /\ WF_vars(closer # "closed" /\ WorkerProgress)
    /\ SF_vars(SchemaAbort)
    /\ WF_vars(CloseFinished \/ CloseTimeout)
    /\ SF_vars(~HoldsConnection /\ PoolClose)

Spec == Init /\ [][Next]_vars

FairSpec == Spec /\ Fairness

-----------------------------------------------------------------------------
(* Properties.                                                             *)

RowTypes ==
    /\ ch \in Seq(Nat) /\ Len(ch) <= BufferSize
    /\ batch \in Seq(Nat) /\ Len(batch) <= BatchSize
    /\ table \in Seq(Nat)
    /\ dropped \in Nat /\ saved \in Nat /\ acked \in Nat /\ closedAt \in Nat

ControlTypes ==
    /\ done \in BOOLEAN /\ ready \in BOOLEAN /\ timedOut \in BOOLEAN /\ poolOpen \in BOOLEAN
    /\ pc \in WorkerPC
    /\ ret \in {"select", "drain", "exited"}
    /\ closer \in {"open", "waiting", "pool", "closed"}
    /\ attempt \in 0 .. Attempts

\* The variables have their types, the channel never exceeds its capacity, the
\* batch its size and the retry counter its limit.
TypeOK == RowTypes /\ ControlTypes

\* Every alert handed to Save is in the buffer, in the batch, reported stored
\* or counted in Store.dropped, whatever the database does and whenever Close
\* comes: the counter never drifts from what was really given up.
Accounting == saved = Len(ch) + Len(batch) + acked + dropped

\* Rows that are neither on their way nor in the table.
Missing == (1 .. saved) \ (Range(ch) \cup Range(batch) \cup Range(table))

\* Store.dropped never understates the loss: no more rows are missing from the
\* alerts table than were counted (a batch that committed after its deadline
\* is counted although it is there).
DropCountSound == Cardinality(Missing) <= dropped

\* Close flushes: if the schema was ready and Close did not time out, then
\* every alert saved before Close was called has left the buffer and the batch
\* when the pool is closed, however late Save and the worker interleave.
DrainComplete ==
    (~poolOpen /\ ready /\ ~timedOut)
        => \A r \in Range(ch) \cup Range(batch) : r > closedAt

\* Once Close has returned nothing is inserted any more, even by a worker that
\* outlived the timeout with an insert or a retry pending.
NoWriteAfterClose == [][closer = "closed" => UNCHANGED table]_vars

\* Close always returns, whatever the worker is doing when it is called, unless
\* a DDL statement that never answers keeps its connection for ever (the
\* context of ensureSchema has no deadline).
CloseReturns == (closer = "waiting") ~> (closer = "closed" \/ [](pc = "ddl"))

\* No alert is left waiting: while the store is open, an accepted row is
\* stored or counted as dropped, without a later Save pushing it out, unless
\* the database never becomes ready.
RowsSettle ==
    \A r \in 1 .. MaxSaves :
        (r \in Range(ch) \cup Range(batch))
            ~> (r \notin Range(ch) \cup Range(batch) \/ done \/ []~ready)

\* The store as its callers see it: rows in the worker's batch are older than
\* rows in the channel, and a pool that is closed stores nothing.
S == INSTANCE Sink WITH
        Row      <- 1 .. MaxSaves,
        Capacity <- BufferSize,
        pending  <- batch \o ch,
        table    <- table,
        lost     <- dropped,
        closed   <- closer = "closed"

\* Channel, batches, retries, drain and timeouts amount to a lossy queue: rows
\* enter the alerts table in the order in which Save accepted them, each row
\* that does not is counted once, none is refused while there is room, and
\* nothing is stored after Close has returned.
ImplementsSink == S!Spec
=============================================================================
